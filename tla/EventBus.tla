------------------------------ MODULE EventBus ------------------------------
(***************************************************************************)
(* The event bus (pkg/host/events.go) and the event subscription of a      *)
(* connection (onSubscribeEvents in pkg/daemon/conn.go).  Emit runs under  *)
(* the bus's mutex and never waits.  A connection's pump takes events from *)
(* its channel and writes them to a client that may be slow or gone.       *)
(*                                                                         *)
(* An event is its number in the history emitted, so that order and loss   *)
(* can be told; dropped counts what a full channel lost.                   *)
(***************************************************************************)
EXTENDS Naturals, Sequences, FiniteSets

CONSTANTS Conns,     \* connections; each may subscribe once
          Filters,   \* the session filters they may ask for, or All
          All,       \* the filter that lets everything through
          Depth      \* eventBufSize

ASSUME DepthAssumption == Depth \in Nat \ {0}

VARIABLES emitted,   \* history: the events, each with its scope
          filter,    \* a subscriber's sessionFilter
          subs,      \* the connections in the bus's table
          ch,        \* their channels
          dropped,   \* their drop counters
          epump,     \* their pumps: "none", "recv", "write", "drain", "done"
          cur,       \* the event a pump is writing
          got,       \* history: how many the client was sent, and the last one
          broken,    \* connections whose writes fail
          from       \* history: how many events there had been at Subscribe

pumps == <<epump, cur, got, broken>>
bvars == <<emitted, filter, subs, ch, dropped, pumps, from>>

BusInit ==
    /\ emitted = <<>> /\ subs = {} /\ broken = {}
    /\ filter \in [Conns -> Filters]
    /\ ch = [c \in Conns |-> <<>>] /\ got = [c \in Conns |-> <<0, 0>>]
    /\ dropped = [c \in Conns |-> 0] /\ from = [c \in Conns |-> 0]
    /\ epump = [c \in Conns |-> "none"] /\ cur = [c \in Conns |-> 0]

Wants(c, scope) == filter[c] = All \/ filter[c] = scope

\* Mutant: an event lost to a full channel is not counted.
Emit_Uncounted(scope, ev) ==
    /\ emitted' = Append(emitted, [scope |-> scope, ev |-> ev])
    /\ ch' = [c \in Conns |-> IF c \in subs /\ Wants(c, scope) /\ Len(ch[c]) < Depth
                              THEN Append(ch[c], Len(emitted) + 1) ELSE ch[c]]
    /\ UNCHANGED <<filter, subs, pumps, from, dropped>>

\* func Emit: a full channel counts a drop, of the event that does not fit.
Emit(scope, ev) ==
    LET full(c) == Len(ch[c]) >= Depth
        to == {c \in subs : Wants(c, scope)}
    IN  /\ emitted' = Append(emitted, [scope |-> scope, ev |-> ev])
        /\ ch' = [c \in Conns |-> IF c \in to /\ ~full(c)
                                  THEN Append(ch[c], Len(emitted) + 1) ELSE ch[c]]
        /\ dropped' = [c \in Conns |-> IF c \in to /\ full(c) THEN dropped[c] + 1 ELSE dropped[c]]
        /\ UNCHANGED <<filter, subs, pumps, from>>

\* onSubscribeEvents, once per connection: Subscribe, OK, go pump.
Subscribe(c) ==
    /\ epump[c] = "none" /\ c \notin broken
    /\ subs' = subs \cup {c}
    /\ epump' = [epump EXCEPT ![c] = "recv"]
    /\ from' = [from EXCEPT ![c] = Len(emitted)]
    /\ UNCHANGED <<emitted, filter, ch, dropped, cur, got, broken>>

\* The pump takes an event.
PumpRecv(c) ==
    /\ epump[c] = "recv" /\ ch[c] # <<>>
    /\ cur' = [cur EXCEPT ![c] = Head(ch[c])]
    /\ ch' = [ch EXCEPT ![c] = Tail(@)]
    /\ epump' = [epump EXCEPT ![c] = "write"]
    /\ UNCHANGED <<emitted, filter, subs, dropped, got, broken, from>>

\* EVENT is written, if the client reads; a write that fails makes the pump drain.
PumpWrite(c) ==
    /\ epump[c] = "write"
    /\ epump' = [epump EXCEPT ![c] = IF c \in broken THEN "drain" ELSE "recv"]
    /\ got' = IF c \in broken THEN got ELSE [got EXCEPT ![c] = <<@[1] + 1, cur[c]>>]
    /\ UNCHANGED <<emitted, filter, subs, ch, dropped, cur, broken, from>>

PumpDrain(c) ==
    /\ epump[c] = "drain" /\ ch[c] # <<>>
    /\ ch' = [ch EXCEPT ![c] = Tail(@)]
    /\ UNCHANGED <<emitted, filter, subs, dropped, pumps, from>>

\* The channel is closed and empty: the pump returns (and reads the counter of a
\* subscriber that is no longer in the table, which is 0).
PumpEnd(c) ==
    /\ epump[c] \in {"recv", "drain"} /\ c \notin subs /\ ch[c] = <<>>
    /\ epump' = [epump EXCEPT ![c] = "done"]
    /\ UNCHANGED <<emitted, filter, subs, ch, dropped, cur, got, broken, from>>

\* The connection ends; from now on its writes fail.
Disconnect(c) ==
    /\ c \notin broken /\ broken' = broken \cup {c}
    /\ UNCHANGED <<emitted, filter, subs, ch, dropped, epump, cur, got, from>>

\* cleanup's eventCancel: the entry goes and the channel is closed.
Unsubscribe(c) ==
    /\ c \in broken \cap subs
    /\ subs' = subs \ {c}
    /\ UNCHANGED <<emitted, filter, ch, dropped, pumps, from>>

\* What the pump's goroutine does without its client.
PumpStep(c) == PumpRecv(c) \/ PumpDrain(c) \/ PumpEnd(c) \/ (c \in broken /\ PumpWrite(c))

BusNext(c) == Subscribe(c) \/ PumpStep(c) \/ PumpWrite(c) \/ Disconnect(c) \/ Unsubscribe(c)

\* NewEventBus in the daemon that took over: the connections are gone with the old
\* daemon.
BusReset ==
    /\ emitted' = <<>> /\ subs' = {} /\ broken' = Conns /\ UNCHANGED filter
    /\ ch' = [c \in Conns |-> <<>>] /\ got' = [c \in Conns |-> <<0, 0>>]
    /\ dropped' = [c \in Conns |-> 0] /\ from' = [c \in Conns |-> 0]
    /\ epump' = [c \in Conns |-> "done"] /\ cur' = [c \in Conns |-> 0]

\* The bus on its own, whoever emits.
BusStep == (\E scope, ev : Emit(scope, ev)) \/ (\E c \in Conns : BusNext(c)) \/ BusReset
BusSpec == BusInit /\ [][BusStep]_bvars

-----------------------------------------------------------------------------
(* Properties. *)

\* The events a subscriber should see: those of its scope since it subscribed.
Due(c) == {k \in from[c] + 1 .. Len(emitted) : Wants(c, emitted[k].scope)}

\* A subscriber gets the events of its scope in the order of emission, none twice,
\* and each one it does not get is counted as dropped (events.go:3, "drops events
\* (counted, surfaced in logs)"), while its connection lasts.
EventsAccounted ==
    \A c \in subs \ broken :
        LET queue == (IF epump[c] = "write" THEN <<cur[c]>> ELSE <<>>) \o ch[c]
        IN  /\ \A i, j \in DOMAIN queue : i < j => queue[i] < queue[j]
            /\ \A i \in DOMAIN queue : got[c][2] < queue[i] /\ queue[i] \in Due(c)
            /\ got[c][1] + Len(queue) + dropped[c] = Cardinality(Due(c))
=============================================================================
