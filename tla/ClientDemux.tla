----------------------------- MODULE ClientDemux -----------------------------
(***************************************************************************)
(* One connection of the Go SDK (pkg/client/client.go and stream.go):      *)
(* goroutines that make requests on it, the read loop that hands frames to *)
(* whoever waits for them, and the end of the connection at any moment.    *)
(*                                                                         *)
(* Each caller makes one request at a time.  "ping" stands for the calls   *)
(* that only wait for their answer; Attach, Detach, Watch and              *)
(* SubscribeEvents also keep something in the client, and Input has no     *)
(* answer, only a refusal that is pushed.  There is one session.  The      *)
(* daemon handles frames in order, if at all, and sends output of the      *)
(* current attachment in between; attachments are numbered.  Contents of   *)
(* frames are left out: a frame is who it is for.                          *)
(***************************************************************************)
EXTENDS Naturals, Sequences, FiniteSets

CONSTANTS Attachers, \* goroutines that attach and detach
          Listeners, \* goroutines that make the other requests
          None,
          MaxReq,    \* bound: requests made
          MaxPush    \* bound: INPUT frames and frames pushed, in flight

Callers == Attachers \cup Listeners

\* None is no goroutine and no result of a request.
ASSUME CallersAssumption == IsFiniteSet(Callers) /\ None \notin Callers \cup {"ok", "error", "closed"}
ASSUME BoundsAssumption  == MaxReq \in Nat /\ MaxPush \in Nat

Ids == 1 .. MaxReq

VARIABLES
    conn,      \* "open", "lost" (the daemon closed it), "closed" (Close did)
    closed,    \* c.closed
    loop,      \* the read loop: "run", "done"
    nextReq,   \* c.nextReq
    pending,   \* c.pending: the requests with a slot in the map
    slot,      \* what is in the slot of a request: None, "ok", "error", "closed"
    streams,   \* c.streams: the caller whose stream is registered
    watchers,  \* c.watchers: the callers whose channel is registered
    events,    \* c.events: the caller whose channel it is
    pc,        \* pc[k]: "idle", "request", "send", "wait", "register"
    req,       \* req[k]: the request it is making, 0 if none
    op,        \* op[k]: what it is doing
    stream,    \* its stream: "none", "opening", "open", "ended"
    watch,     \* its watch channel: "none", "open", "closed"
    evch,      \* its event channel: "none", "opening", "open", "closed"
    gen,       \* the attachment its stream is for, 0 until ATTACH_OK
    got,       \* the attachments whose output or refusals its stream was given
    abandoned, \* history: an Attach or a Detach was given up by its context
    up, down,  \* frames to and from the daemon
    attached,  \* the daemon's current attachment, 0 if none
    attaches,  \* how many there were
    subbed     \* the daemon has the connection's event subscription

maps    == <<pending, slot, streams, watchers, events>>
callers == <<pc, req, op>>
held    == <<stream, watch, evch, gen, got>>
wires   == <<up, down>>
daemon  == <<attached, attaches, subbed>>
vars == <<conn, closed, loop, nextReq, maps, callers, held, abandoned, wires, daemon>>

Init ==
    /\ conn = "open" /\ closed = FALSE /\ loop = "run" /\ nextReq = 0
    /\ pending = {} /\ slot = [i \in Ids |-> None]
    /\ streams = None /\ watchers = {} /\ events = None
    /\ pc = [k \in Callers |-> "idle"] /\ req = [k \in Callers |-> 0]
    /\ op = [k \in Callers |-> "ping"]
    /\ stream = [k \in Callers |-> "none"] /\ watch = [k \in Callers |-> "none"]
    /\ evch = [k \in Callers |-> "none"]
    /\ gen = [k \in Callers |-> 0] /\ got = [k \in Callers |-> {}]
    /\ abandoned = FALSE
    /\ up = <<>> /\ down = <<>>
    /\ attached = 0 /\ attaches = 0 /\ subbed = FALSE

Goto(k, l) == pc' = [pc EXCEPT ![k] = l]

-----------------------------------------------------------------------------
(* The callers. *)

MayCall(k) ==
    /\ pc[k] = "idle"
    /\ nextReq + Cardinality({j \in Callers : pc[j] = "request"}) < MaxReq

\* Attach puts its stream into the map before it makes the request; a second
\* one is refused.
Attach(k) ==
    /\ MayCall(k) /\ k \in Attachers
    /\ streams = None /\ stream[k] \in {"none", "ended"}
    /\ streams' = k /\ stream' = [stream EXCEPT ![k] = "opening"]
    /\ gen' = [gen EXCEPT ![k] = 0] /\ got' = [got EXCEPT ![k] = {}]
    /\ op' = [op EXCEPT ![k] = "attach"]
    /\ Goto(k, "request")
    /\ UNCHANGED <<conn, closed, loop, nextReq, pending, slot, watchers, events, req, watch, evch,
                   abandoned, wires, daemon>>

\* SubscribeEvents likewise.
SubscribeEvents(k) ==
    /\ MayCall(k) /\ k \in Listeners
    /\ events = None
    /\ events' = k /\ evch' = [evch EXCEPT ![k] = "opening"]
    /\ op' = [op EXCEPT ![k] = "sub"]
    /\ Goto(k, "request")
    /\ UNCHANGED <<conn, closed, loop, nextReq, pending, slot, streams, watchers, req, stream,
                   watch, gen, got, abandoned, wires, daemon>>

\* Stream.Detach, Watch and the calls that only wait for their answer; a closed
\* client refuses them.
Call(k) ==
    /\ MayCall(k) /\ ~closed
    /\ \/ k \in Attachers /\ stream[k] = "open" /\ op' = [op EXCEPT ![k] = "detach"]
       \/ k \in Listeners /\ \E o \in {"ping", "watch"} : op' = [op EXCEPT ![k] = o]
    /\ nextReq' = nextReq + 1
    /\ pending' = pending \cup {nextReq + 1}
    /\ req' = [req EXCEPT ![k] = nextReq + 1]
    /\ Goto(k, "send")
    /\ UNCHANGED <<conn, closed, loop, slot, streams, watchers, events, held, abandoned, wires,
                   daemon>>

\* What a call does when its request failed: Attach and SubscribeEvents take
\* back what they registered, Detach ends its stream all the same.
Fail(k) ==
    /\ Goto(k, "idle") /\ req' = [req EXCEPT ![k] = 0] /\ op' = [op EXCEPT ![k] = "ping"]
    /\ streams' = IF op[k] \in {"attach", "detach"} THEN None ELSE streams
    /\ events' = IF op[k] = "sub" THEN None ELSE events
    /\ stream' = IF op[k] \in {"attach", "detach"}
                 THEN [stream EXCEPT ![k] = IF op[k] = "attach" THEN "none" ELSE "ended"]
                 ELSE stream
    /\ evch' = IF op[k] = "sub" THEN [evch EXCEPT ![k] = "none"] ELSE evch
    /\ UNCHANGED <<watchers, watch, gen, got>>

\* request up to the unlock, of the former two: a slot, unless the client is
\* closed.  Call does the same for the others.
Request(k) ==
    /\ pc[k] = "request"
    /\ IF closed
       THEN Fail(k) /\ UNCHANGED <<nextReq, pending>>
       ELSE /\ nextReq' = nextReq + 1
            /\ pending' = pending \cup {nextReq + 1}
            /\ req' = [req EXCEPT ![k] = nextReq + 1]
            /\ Goto(k, "send")
            /\ UNCHANGED <<op, streams, events, watchers, held>>
    /\ UNCHANGED <<conn, closed, loop, slot, abandoned, wires, daemon>>

\* WriteMsg, which fails on a connection either side has closed.
Send(k) ==
    /\ pc[k] = "send"
    /\ IF conn = "open"
       THEN /\ up' = Append(up, [id |-> req[k], op |-> op[k], from |-> k])
            /\ Goto(k, "wait")
            /\ UNCHANGED <<pending, streams, watchers, events, req, op, held>>
       ELSE /\ pending' = pending \ {req[k]}
            /\ Fail(k)
            /\ UNCHANGED up
    /\ UNCHANGED <<conn, closed, loop, nextReq, slot, abandoned, down, daemon>>

\* The slot has the response.
Settled(k) ==
    /\ pc[k] = "wait" /\ slot[req[k]] = "ok"
    /\ CASE op[k] = "attach" -> /\ stream' = [stream EXCEPT ![k] = IF @ = "opening" THEN "open" ELSE @]
                                /\ UNCHANGED <<streams, watch, evch>>
         [] op[k] = "detach" -> /\ streams' = None /\ stream' = [stream EXCEPT ![k] = "ended"]
                                /\ UNCHANGED <<watch, evch>>
         [] op[k] = "sub"    -> /\ evch' = [evch EXCEPT ![k] = IF @ = "opening" THEN "open" ELSE @]
                                /\ UNCHANGED <<streams, stream, watch>>
         [] OTHER            -> UNCHANGED <<streams, stream, watch, evch>>
    /\ Goto(k, IF op[k] = "watch" THEN "register" ELSE "idle")
    /\ req' = [req EXCEPT ![k] = 0] /\ op' = [op EXCEPT ![k] = "ping"]
    /\ slot' = [slot EXCEPT ![req[k]] = None]
    /\ UNCHANGED <<conn, closed, loop, nextReq, pending, watchers, events, gen, got,
                   abandoned, wires, daemon>>

\* An ERROR response, or the slot was closed by failAll.
Refused(k) ==
    /\ pc[k] = "wait" /\ slot[req[k]] \in {"error", "closed"}
    /\ Fail(k)
    /\ slot' = [slot EXCEPT ![req[k]] = None]
    /\ UNCHANGED <<conn, closed, loop, nextReq, pending, abandoned, wires, daemon>>

\* The caller's context ends first.
GiveUp(k) ==
    /\ pc[k] = "wait"
    /\ pending' = pending \ {req[k]}
    /\ Fail(k)
    /\ abandoned' = (abandoned \/ op[k] \in {"attach", "detach"})
    /\ slot' = [slot EXCEPT ![req[k]] = None]
    /\ UNCHANGED <<conn, closed, loop, nextReq, wires, daemon>>

\* Watch makes its channel and puts it into the map after the response.
RegisterWatch(k) ==
    /\ pc[k] = "register"
    /\ watch' = [watch EXCEPT ![k] = "open"]
    /\ watchers' = watchers \cup {k}
    /\ Goto(k, "idle")
    /\ UNCHANGED <<conn, closed, loop, nextReq, pending, slot, streams, events, req, op, stream,
                   evch, gen, got, abandoned, wires, daemon>>

Unasked == Cardinality({n \in 1 .. Len(up) : up[n].op = "input"})
           + Cardinality({n \in 1 .. Len(down) : down[n].kind # "answer"})

\* Input: written and forgotten.
Input(k) ==
    /\ k \in Attachers /\ pc[k] = "idle" /\ stream[k] = "open" /\ conn = "open"
    /\ Unasked < MaxPush
    /\ up' = Append(up, [id |-> 0, op |-> "input", from |-> k])
    /\ UNCHANGED <<conn, closed, loop, nextReq, maps, callers, held, abandoned, down, daemon>>

\* Close: the flag, then the socket; it returns when the read loop is done.
Close ==
    /\ ~closed
    /\ closed' = TRUE
    /\ UNCHANGED <<conn, loop, nextReq, maps, callers, held, abandoned, wires, daemon>>

CloseConn ==
    /\ closed /\ conn # "closed"
    /\ conn' = "closed" /\ down' = <<>> /\ up' = <<>>
    /\ UNCHANGED <<closed, loop, nextReq, maps, callers, held, abandoned, daemon>>

-----------------------------------------------------------------------------
(* The read loop. *)

\* settle: a request that was given up has no slot any more.
SettleSlot(i, r) ==
    /\ pending' = pending \ {i}
    /\ slot' = IF i \in pending THEN [slot EXCEPT ![i] = r] ELSE slot

\* routeOutput: the stream registered takes it, unless it has ended.
RouteOutput(f) ==
    got' = IF streams # None /\ stream[streams] \in {"opening", "open"}
           THEN [got EXCEPT ![streams] = @ \cup {f.gen}] ELSE got

\* routePushError: a refusal names no session and is kept by every stream, one
\* that has ended included.
RoutePushError(f) ==
    got' = IF streams # None THEN [got EXCEPT ![streams] = @ \cup {f.gen}] ELSE got

\* One frame: a response, or OUTPUT or a refusal for the registered stream.  What is pushed
\* to a full channel is dropped, so nothing here blocks.
ReadFrame ==
    /\ loop = "run" /\ conn # "closed" /\ down # <<>>
    /\ LET f == Head(down)
       IN  \/ /\ f.kind = "answer"
              /\ SettleSlot(f.id, f.result)
              /\ gen' = IF f.gen # 0 /\ f.id \in pending THEN [gen EXCEPT ![f.for] = f.gen] ELSE gen
              /\ UNCHANGED got
           \/ /\ \/ f.kind = "output" /\ RouteOutput(f)
                 \/ f.kind = "refusal" /\ RoutePushError(f)
              /\ UNCHANGED <<pending, slot, gen>>
    /\ down' = Tail(down)
    /\ UNCHANGED <<conn, closed, loop, nextReq, streams, watchers, events, callers, stream, watch,
                   evch, abandoned, up, daemon>>

\* Mutant: the slots of pending requests are not closed.
FailAll_KeepsPending ==
    /\ loop' = "done" /\ pending' = {} /\ streams' = None /\ watchers' = {} /\ events' = None
    /\ stream' = [k \in Callers |-> IF k = streams THEN "ended" ELSE stream[k]]
    /\ watch' = [k \in Callers |-> IF k \in watchers THEN "closed" ELSE watch[k]]
    /\ evch' = [k \in Callers |-> IF k = events THEN "closed" ELSE evch[k]]
    /\ UNCHANGED <<slot, gen, got>>

\* Mutant: the streams are forgotten but not finished.
FailAll_KeepsStreams ==
    /\ loop' = "done"
    /\ slot' = [i \in Ids |-> IF i \in pending THEN "closed" ELSE slot[i]]
    /\ pending' = {} /\ streams' = None /\ watchers' = {} /\ events' = None
    /\ watch' = [k \in Callers |-> IF k \in watchers THEN "closed" ELSE watch[k]]
    /\ evch' = [k \in Callers |-> IF k = events THEN "closed" ELSE evch[k]]
    /\ UNCHANGED <<stream, gen, got>>

\* failAll: every map is replaced by an empty one, and what was in them is
\* closed.
FailAll ==
    /\ loop' = "done"
    /\ slot' = [i \in Ids |-> IF i \in pending THEN "closed" ELSE slot[i]]
    /\ pending' = {} /\ streams' = None /\ watchers' = {} /\ events' = None
    /\ stream' = [k \in Callers |-> IF k = streams THEN "ended" ELSE stream[k]]
    /\ watch' = [k \in Callers |-> IF k \in watchers THEN "closed" ELSE watch[k]]
    /\ evch' = [k \in Callers |-> IF k = events THEN "closed" ELSE evch[k]]
    /\ UNCHANGED <<gen, got>>

\* The end of the stream or a closed socket.  (A frame that does not decode also
\* ends the loop; the daemon sends none.)
ReadFails ==
    /\ loop = "run"
    /\ conn = "closed" \/ (conn = "lost" /\ down = <<>>)
    /\ FailAll
    /\ UNCHANGED <<conn, closed, nextReq, callers, abandoned, wires, daemon>>

-----------------------------------------------------------------------------
(* The daemon. *)

Push(f) == down' = Append(down, f)

\* Mutant: a detach is answered before the pump has stopped.
Handle_DetachEarly(f) ==
    LET answer(r, g) == Push([kind |-> "answer", id |-> f.id, result |-> r, gen |-> g, for |-> f.from])
    IN  \/ /\ f.op = "attach" /\ attached = 0
           /\ attached' = attaches + 1 /\ attaches' = attaches + 1
           /\ answer("ok", attaches + 1)
           /\ UNCHANGED subbed
        \/ /\ f.op = "detach" /\ attached # 0
           /\ attached' = 0
           /\ down' = down \o <<[kind |-> "answer", id |-> f.id, result |-> "ok", gen |-> 0,
                                 for |-> f.from], [kind |-> "output", gen |-> attached]>>
           /\ UNCHANGED <<attaches, subbed>>
        \/ /\ f.op = "sub" /\ ~subbed
           /\ subbed' = TRUE
           /\ answer("ok", 0)
           /\ UNCHANGED <<attached, attaches>>
        \/ /\ f.op \in {"ping", "watch"} /\ answer("ok", 0)
           /\ UNCHANGED daemon
        \/ /\ f.op = "input" /\ down' \in {down, Append(down, [kind |-> "refusal", gen |-> attached])}
           /\ UNCHANGED daemon
        \/ /\ f.op # "input" /\ answer("error", 0)
           /\ UNCHANGED daemon
        \/ /\ f.op = "ping" /\ UNCHANGED <<down, daemon>>

\* onAttach, onDetach (whose pump has stopped when it answers), onWatch,
\* onSubscribeEvents and the others.  A list of sessions that is too large for a
\* frame is not sent, and nothing else is.
Handle(f) ==
    LET answer(r, g) == Push([kind |-> "answer", id |-> f.id, result |-> r, gen |-> g, for |-> f.from])
    IN  \/ /\ f.op = "attach" /\ attached = 0
           /\ attached' = attaches + 1 /\ attaches' = attaches + 1
           /\ answer("ok", attaches + 1)
           /\ UNCHANGED subbed
        \/ /\ f.op = "detach" /\ attached # 0
           /\ attached' = 0
           /\ answer("ok", 0)
           /\ UNCHANGED <<attaches, subbed>>
        \/ /\ f.op = "sub" /\ ~subbed
           /\ subbed' = TRUE
           /\ answer("ok", 0)
           /\ UNCHANGED <<attached, attaches>>
        \/ /\ f.op \in {"ping", "watch"} /\ answer("ok", 0)
           /\ UNCHANGED daemon
        \/ /\ f.op = "input" /\ down' \in {down, Append(down, [kind |-> "refusal", gen |-> attached])}
           /\ UNCHANGED daemon
        \/ /\ f.op # "input" /\ answer("error", 0)
           /\ UNCHANGED daemon
        \/ /\ f.op = "ping" /\ UNCHANGED <<down, daemon>>

DaemonHandle ==
    /\ conn = "open" /\ up # <<>>
    /\ Handle(Head(up))
    /\ up' = Tail(up)
    /\ UNCHANGED <<conn, closed, loop, nextReq, maps, callers, held, abandoned>>

DaemonOutput ==
    /\ conn = "open" /\ attached # 0
    /\ Unasked < MaxPush
    /\ Push([kind |-> "output", gen |-> attached])
    /\ UNCHANGED <<conn, closed, loop, nextReq, maps, callers, held, abandoned, up, daemon>>

\* The daemon stops, retires or crashes; what it sent can still be read.
Lose ==
    /\ conn = "open"
    /\ conn' = "lost" /\ up' = <<>>
    /\ UNCHANGED <<closed, loop, nextReq, maps, callers, held, abandoned, down, daemon>>

-----------------------------------------------------------------------------
CallerStep(k) == Request(k) \/ Send(k) \/ Settled(k) \/ Refused(k) \/ RegisterWatch(k)

\* The read loop is over and every caller has its result.
Terminated ==
    /\ loop = "done" /\ \A k \in Callers : pc[k] = "idle"
    /\ UNCHANGED vars

Next ==
    \/ \E k \in Callers : Attach(k) \/ SubscribeEvents(k) \/ Call(k) \/ Input(k) \/ CallerStep(k)
                            \/ GiveUp(k)
    \/ Close \/ CloseConn \/ Lose
    \/ ReadFrame \/ ReadFails
    \/ DaemonHandle \/ DaemonOutput
    \/ Terminated

\* The client's goroutines are scheduled.  The daemon need never come to a frame: its
\* loop may be blocked in the write of an earlier INPUT to a full terminal.  No
\* context is assumed to end.
Fairness ==
    /\ \A k \in Callers : WF_vars(CallerStep(k))
    /\ WF_vars(ReadFrame) /\ WF_vars(ReadFails)
    /\ WF_vars(CloseConn)

Spec == Init /\ [][Next]_vars /\ Fairness

-----------------------------------------------------------------------------
(* Properties. *)

\* Frames to the daemon, and from it: answers and what is pushed.
Calls  == {"ping", "attach", "detach", "watch", "sub"}
Asked  == [id : {0}, op : {"input"}, from : Callers] \cup [id : Ids, op : Calls, from : Callers]
Pushed == [kind : {"output", "refusal"}, gen : Nat]
Told   == [kind : {"answer"}, id : Ids, result : {"ok", "error"}, gen : Nat, for : Callers] \cup Pushed

\* Types.
TypeOK ==
    /\ conn \in {"open", "lost", "closed"} /\ closed \in BOOLEAN /\ loop \in {"run", "done"}
    /\ nextReq \in 0 .. MaxReq /\ pending \subseteq 1 .. nextReq
    /\ slot \in [Ids -> {None, "ok", "error", "closed"}]
    /\ streams \in Callers \cup {None} /\ watchers \subseteq Callers
    /\ events \in Callers \cup {None}
    /\ pc \in [Callers -> {"idle", "request", "send", "wait", "register"}]
    /\ req \in [Callers -> 0 .. MaxReq] /\ op \in [Callers -> Calls]
    /\ stream \in [Callers -> {"none", "opening", "open", "ended"}]
    /\ watch \in [Callers -> {"none", "open", "closed"}]
    /\ evch \in [Callers -> {"none", "opening", "open", "closed"}]
    /\ gen \in [Callers -> Nat] /\ got \in [Callers -> SUBSET Nat]
    /\ up \in Seq(Asked) /\ down \in Seq(Told)
    /\ attached \in 0 .. attaches /\ attaches \in Nat
    /\ abandoned \in BOOLEAN /\ subbed \in BOOLEAN

\* A stream is given only the output and the refusals of its own attachment: what
\* an earlier one still had on the way comes before the answer to its DETACH
\* (conn.go:556-558).  An Attach or a Detach that was given up voids this: the daemon may still send
\* for it.
OwnOutput ==
    ~abandoned => \A k \in Callers : stream[k] = "open" => got[k] \subseteq {gen[k]}

\* The answer to the request of k is on its way or in the request's slot.
HasAnswer(k) ==
    /\ pc[k] = "wait"
    /\ \/ slot[req[k]] # None
       \/ \E n \in DOMAIN down : down[n].kind = "answer" /\ down[n].id = req[k]

\* A request that has been answered returns, and so does every request once the
\* connection has ended or Close has been called, one that takes its slot after
\* failAll has emptied the map included (client.go:159-172, request).  No more is
\* promised: a request without a deadline waits while the connection stands and the
\* daemon does not answer (conn.go:376, 433).
RequestReturns ==
    \A k \in Callers :
        HasAnswer(k) \/ (pc[k] # "idle" /\ (closed \/ conn # "open")) ~> pc[k] = "idle"

\* When the connection dies, every stream and every event channel that a caller
\* has been handed ends ("The returned channel closes when the connection dies",
\* client.go:480), also one whose call was still under way.  So does a watch
\* channel, unless Watch registered it after failAll: that one never closes.
HandedOutEnds ==
    \A k \in Callers :
        conn # "open" ~> []( /\ stream[k] # "open" /\ evch[k] # "open"
                             /\ watch[k] = "open" => k \in watchers )
=============================================================================
