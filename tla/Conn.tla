-------------------------------- MODULE Conn --------------------------------
(***************************************************************************)
(* Client connections of the daemon (pkg/daemon/conn.go) and the part of a *)
(* session that connections share: subscriber count, write lock, terminal  *)
(* input and size, kill and linger (pkg/host/session.go).                  *)
(*                                                                         *)
(* Each connection is one decode loop that handles a frame at a time and   *)
(* then runs cleanup; at[c] is where it is.  Each attachment has a feed, a *)
(* goroutine that waits for output, writes it, and ends when cancelled.  A *)
(* client that does not read stalls every write to it until it reads or    *)
(* the connection is closed; the answer to a request is such a write, made *)
(* by the decode loop.                                                     *)
(* A session's terminal takes Room bytes that its child has not read; a    *)
(* write to a full one blocks the decode loop.  What a feed sends is the   *)
(* matter of module AttachStream; event subscriptions are that of EventBus.*)
(***************************************************************************)
EXTENDS Naturals, Integers, FiniteSets

CONSTANTS Conns,     \* connections, each with its client id
          WSConns,   \* those over WebSocket, which need a token
          Sessions,
          Linger,    \* the sessions with linger: true
          None,      \* no connection
          Room,      \* bytes of input a terminal buffers
          MaxFrames  \* bound: frames a client sends after HELLO

ASSUME LingerAssumption == Linger \subseteq Sessions
ASSUME ConnsAssumption  == None \notin Conns \cup Sessions /\ IsFiniteSet(Conns) /\ WSConns \subseteq Conns
ASSUME RoomAssumption   == Room \in Nat /\ MaxFrames \in Nat

VARIABLES
    at,        \* at[c] = <<label, session>>: the decode loop's position
    frames,    \* frames the client may still send
    closed,    \* the network connection is closed, by either side
    stalled,   \* the client does not read and its socket is full
    scope,     \* "control" or "ro"
    ended,     \* the loop has ended and cleanup runs
    att,       \* c.attachments: "none", "rw", "ro" per session
    feed,      \* a feed's goroutine: "none", "wait", "write", "done"
    cancelled, \* the feeds whose context is cancelled or channel closed
    todo,      \* cleanup: the sessions still to visit
    state,     \* a session: "none" yet, "running", "exited", "reaped"
    subscribers, lock, \* fields of Session
    size,      \* Session.cols and rows: the connection whose RESIZE they are
    tty,       \* the terminal's size, likewise
    overlap,   \* history: resizes of these sessions have overlapped
    bytes,     \* input the child has not read
    signalled  \* sessions that got SIGTERM

loop    == <<at, frames, scope, ended>>
net     == <<closed, stalled>>
pumps   == <<feed, cancelled>>
grid    == <<size, tty, overlap>>
session == <<state, subscribers, lock, grid, bytes, signalled>>
vars    == <<loop, net, att, pumps, todo, session>>

Init ==
    /\ at = [c \in Conns |-> <<"hello", None>>]
    /\ frames = [c \in Conns |-> MaxFrames]
    /\ closed = [c \in Conns |-> FALSE] /\ stalled = [c \in Conns |-> FALSE]
    /\ scope = [c \in Conns |-> "control"]
    /\ ended = [c \in Conns |-> FALSE]
    /\ att = [c \in Conns |-> [s \in Sessions |-> "none"]]
    /\ feed = [c \in Conns |-> [f \in Sessions |-> "none"]]
    /\ cancelled = [c \in Conns |-> {}]
    /\ todo = [c \in Conns |-> {}]
    /\ state = [s \in Sessions |-> "none"]
    /\ subscribers = [s \in Sessions |-> 0]
    /\ lock = [s \in Sessions |-> None]
    /\ size = [s \in Sessions |-> None] /\ tty = [s \in Sessions |-> None]
    /\ overlap = {}
    /\ bytes = [s \in Sessions |-> 0]
    /\ signalled = {}

At(c, l)      == at[c][1] = l
Arg(c)        == at[c][2]
Goto(c, l, s) == at' = [at EXCEPT ![c] = <<l, s>>]

\* A write to the client completes, unless the client does not read; on a closed
\* connection it fails at once, which no caller but pumpOutput cares about.
Writable(c) == ~stalled[c]

-----------------------------------------------------------------------------
(* The clients, the children and the reaper. *)

\* The client stops reading and output fills its socket, or it reads again.
Stall(c) ==
    /\ ~closed[c]
    /\ stalled[c] \/ \E s \in Sessions : feed[c][s] = "write"
    /\ stalled' = [stalled EXCEPT ![c] = ~@]
    /\ UNCHANGED <<loop, closed, att, pumps, todo, session>>

\* The client goes away, or the daemon closes the connection (shutdown, takeover).
Disconnect(c) ==
    /\ ~closed[c]
    /\ closed' = [closed EXCEPT ![c] = TRUE] /\ stalled' = [stalled EXCEPT ![c] = FALSE]
    /\ UNCHANGED <<loop, att, pumps, todo, session>>

ChildRead(s) ==
    /\ state[s] = "running" /\ bytes[s] > 0
    /\ bytes' = [bytes EXCEPT ![s] = @ - 1]
    /\ UNCHANGED <<loop, net, att, pumps, todo, state, subscribers, lock, grid, signalled>>

\* finish: the state flips, the write lock is dropped and the PTY is closed.
Exit(s) ==
    /\ state[s] = "running"
    /\ state' = [state EXCEPT ![s] = "exited"]
    /\ lock' = [lock EXCEPT ![s] = None]
    /\ bytes' = [bytes EXCEPT ![s] = 0]
    /\ UNCHANGED <<loop, net, att, pumps, todo, subscribers, grid, signalled>>

\* The retention reaper; Lookup and List no longer find the session.
Reap(s) ==
    /\ state[s] = "exited"
    /\ state' = [state EXCEPT ![s] = "reaped"]
    /\ UNCHANGED <<loop, net, att, pumps, todo, subscribers, lock, grid, bytes, signalled>>

Found(s) == state[s] \in {"running", "exited"}

-----------------------------------------------------------------------------
(* The feeds: pumpOutput. *)

FeedIs(c, f, v) == feed' = [feed EXCEPT ![c][f] = v]

\* Output arrives.
FeedTake(c, f) ==
    /\ feed[c][f] = "wait" /\ f \notin cancelled[c]
    /\ FeedIs(c, f, "write")
    /\ UNCHANGED <<loop, net, att, cancelled, todo, session>>

\* The write ends; pumpOutput returns when it failed.
FeedWrote(c, f) ==
    /\ feed[c][f] = "write" /\ Writable(c)
    /\ FeedIs(c, f, IF closed[c] THEN "done" ELSE "wait")
    /\ UNCHANGED <<loop, net, att, cancelled, todo, session>>

\* Cancelled, or the session has exited and EXIT has been sent.
FeedEnd(c, f) ==
    /\ feed[c][f] = "wait"
    /\ f \in cancelled[c] \/ (state[f] # "running" /\ Writable(c))
    /\ FeedIs(c, f, "done")
    /\ UNCHANGED <<loop, net, att, cancelled, todo, session>>

FeedStep(c, f) == FeedTake(c, f) \/ FeedWrote(c, f) \/ FeedEnd(c, f)

-----------------------------------------------------------------------------
(* handle: the decode loop. *)

\* The loop returns; what else the client sent is not read.
Return(c) == Goto(c, "return", None) /\ frames' = [frames EXCEPT ![c] = 0]

\* tokens.scopeFor: what the token presented allows, None if nothing.
ScopeFor(token) ==
    CASE token = "token" -> "control" [] token = "token.ro" -> "ro" [] OTHER -> None

\* onHello: WebSocket connections need a token, the others are trusted.  (A second
\* HELLO, which sets the scope again, is left out; a wrong version or another
\* frame first ends the loop like ReadFails.)
OnHello(c) ==
    /\ At(c, "hello") /\ Writable(c)
    /\ \E token \in {"token", "token.ro", "wrong"} :
         LET granted == IF c \in WSConns THEN ScopeFor(token) ELSE "control"
         IN  IF granted = None
             THEN Return(c) /\ UNCHANGED scope
             ELSE /\ scope' = [scope EXCEPT ![c] = granted]
                  /\ Goto(c, "loop", None)
                  /\ UNCHANGED frames
    /\ UNCHANGED <<ended, net, att, pumps, todo, session>>

\* The next frame is read.  Frames the client sent before it closed are still
\* there unless the daemon closed the connection.
Frame(c) ==
    /\ At(c, "loop") /\ frames[c] > 0
    /\ frames' = [frames EXCEPT ![c] = @ - 1]
    /\ UNCHANGED <<scope, ended, net>>

\* A frame of a kind only control may send.
Control(c) == Frame(c) /\ scope[c] = "control"

\* sendErr, sendOK and the typed answers: the loop writes one before it reads the
\* next frame, so it waits for a client that does not read.
Reply(c) ==
    /\ At(c, "reply") /\ Writable(c)
    /\ Goto(c, "loop", None)
    /\ UNCHANGED <<frames, scope, ended, net, att, pumps, todo, session>>

Answer(c) == Goto(c, "reply", None)

\* onSpawn, up to the answer.
OnSpawn(c, s) ==
    /\ Control(c) /\ state[s] = "none"
    /\ state' = [state EXCEPT ![s] = "running"]
    /\ Answer(c)
    /\ UNCHANGED <<att, pumps, todo, subscribers, lock, grid, bytes, signalled>>

\* onList, onInfo, and every request that is refused.
OnQuery(c) ==
    /\ Frame(c)
    /\ Answer(c)
    /\ UNCHANGED <<att, pumps, todo, session>>

\* lookupForWrite
LookupForWrite(c, s) == Found(s) /\ att[c][s] # "ro"

\* onAttach up to the entry in the map; a second attach is refused.
OnAttach(c, s) ==
    /\ Frame(c) /\ Found(s) /\ att[c][s] = "none"
    /\ \E m \in {"rw", "ro"} :
         att' = [att EXCEPT ![c][s] = IF scope[c] = "ro" THEN "ro" ELSE m]
    /\ Goto(c, "attach", s)
    /\ UNCHANGED <<pumps, todo, session>>

\* AddSubscriber, ATTACH_OK and go pumpOutput, which replays what the ring has.
AttachStart(c) ==
    /\ At(c, "attach") /\ Writable(c)
    /\ subscribers' = [subscribers EXCEPT ![Arg(c)] = @ + 1]
    /\ \E v \in {"wait", "write"} : FeedIs(c, Arg(c), v)
    /\ Goto(c, "loop", None)
    /\ UNCHANGED <<frames, scope, ended, net, att, cancelled, todo, state, lock, grid, bytes, signalled>>

\* onDetach: the entry is removed and the pump cancelled.
OnDetach(c, s) ==
    /\ Frame(c) /\ Found(s) /\ att[c][s] # "none"
    /\ att' = [att EXCEPT ![c][s] = "none"]
    /\ cancelled' = [cancelled EXCEPT ![c] = @ \cup {s}]
    /\ Goto(c, "release", s)
    /\ UNCHANGED <<feed, todo, session>>

Back(c) == IF ended[c] THEN "cleanup" ELSE "loop"

\* Mutant: the policy looks at the count before the decrement.
Release_CountsFirst(c) ==
    LET s == Arg(c)
    IN  /\ At(c, "release") /\ feed[c][s] \in {"done", "none"}
        /\ FeedIs(c, s, "none") /\ cancelled' = [cancelled EXCEPT ![c] = @ \ {s}]
        /\ subscribers' = IF Found(s) THEN [subscribers EXCEPT ![s] = @ - 1] ELSE subscribers
        /\ IF Found(s) /\ subscribers[s] = 0 /\ s \notin Linger
           THEN Goto(c, "term", s) ELSE Goto(c, Back(c), None)
        /\ UNCHANGED <<frames, scope, ended, net, att, todo, state, lock, grid, bytes, signalled>>

\* <-att.pumpDone, then releaseAttachment: RemoveSubscriber, if the session is
\* still registered.
Release(c) ==
    LET s == Arg(c)
    IN  /\ At(c, "release") /\ feed[c][s] \in {"done", "none"}
        /\ FeedIs(c, s, "none") /\ cancelled' = [cancelled EXCEPT ![c] = @ \ {s}]
        /\ subscribers' = IF Found(s) THEN [subscribers EXCEPT ![s] = @ - 1] ELSE subscribers
        /\ IF Found(s) /\ subscribers'[s] = 0 /\ s \notin Linger
           THEN Goto(c, "term", s) ELSE Goto(c, Back(c), None)
        /\ UNCHANGED <<frames, scope, ended, net, att, todo, state, lock, grid, bytes, signalled>>

\* The rest of releaseAttachment: a running linger: false session is killed.
LingerKill(c) ==
    /\ At(c, "term")
    /\ signalled' = IF state[Arg(c)] = "running" THEN signalled \cup {Arg(c)} ELSE signalled
    /\ Goto(c, Back(c), None)
    /\ UNCHANGED <<frames, scope, ended, net, att, pumps, todo, state, subscribers, lock, grid, bytes>>

\* onInput and onInputEOF up to the unlock in WriteInput: exited sessions and
\* locks held by others refuse.
OnInput(c, s) ==
    /\ Control(c) /\ LookupForWrite(c, s)
    /\ state[s] = "running" /\ lock[s] \in {None, c}
    /\ Goto(c, "input", s)
    /\ UNCHANGED <<att, pumps, todo, session>>

\* ptmx.Write, which waits for room; on a PTY closed by finish it fails.
WriteInput(c) ==
    LET s == Arg(c)
    IN  /\ At(c, "input")
        /\ \/ state[s] = "running" /\ bytes[s] < Room /\ bytes' = [bytes EXCEPT ![s] = @ + 1]
           \/ state[s] # "running" /\ UNCHANGED bytes
        /\ Goto(c, "loop", None)
        /\ UNCHANGED <<frames, scope, ended, net, att, pumps, todo, state, subscribers, lock, grid, signalled>>

Resizing(s) == {d \in Conns : at[d] = <<"resize", s>>}

\* Mutant: the new size is not kept.
OnResize_NotKept(c, s) ==
    /\ Control(c) /\ Found(s) /\ state[s] = "running"
    /\ overlap' = IF Resizing(s) = {} THEN overlap \ {s} ELSE overlap \cup {s}
    /\ Goto(c, "resize", s)
    /\ UNCHANGED <<att, pumps, todo, state, subscribers, lock, size, tty, bytes, signalled>>

\* onResize and Resize up to the unlock: no write lock is asked for.
OnResize(c, s) ==
    /\ Control(c) /\ Found(s) /\ state[s] = "running"
    /\ size' = [size EXCEPT ![s] = c]
    /\ overlap' = IF Resizing(s) = {} THEN overlap \ {s} ELSE overlap \cup {s}
    /\ Goto(c, "resize", s)
    /\ UNCHANGED <<att, pumps, todo, state, subscribers, lock, tty, bytes, signalled>>

\* Setsize, which fails on a PTY closed by finish.
Setsize(c) ==
    /\ At(c, "resize")
    /\ tty' = IF state[Arg(c)] = "running" THEN [tty EXCEPT ![Arg(c)] = c] ELSE tty
    /\ Answer(c)
    /\ UNCHANGED <<frames, scope, ended, net, att, pumps, todo, state, subscribers, lock, size,
                   overlap, bytes, signalled>>

\* onTakeWrite: the lock is taken from whoever has it.
OnTakeWrite(c, s) ==
    /\ Control(c) /\ LookupForWrite(c, s)
    /\ lock' = [lock EXCEPT ![s] = c]
    /\ Answer(c)
    /\ UNCHANGED <<att, pumps, todo, state, subscribers, grid, bytes, signalled>>

\* Session.ReleaseWrite
ReleaseWrite(c, s) == lock' = [lock EXCEPT ![s] = IF @ = c THEN None ELSE @]

OnReleaseWrite(c, s) ==
    /\ Control(c) /\ Found(s)
    /\ ReleaseWrite(c, s)
    /\ Answer(c)
    /\ UNCHANGED <<att, pumps, todo, state, subscribers, grid, bytes, signalled>>

\* onKill
OnKill(c, s) ==
    /\ Control(c) /\ Found(s)
    /\ signalled' = IF state[s] = "running" THEN signalled \cup {s} ELSE signalled
    /\ Answer(c)
    /\ UNCHANGED <<att, pumps, todo, state, subscribers, lock, grid, bytes>>

\* The connection is closed, or a frame cannot be decoded: the loop returns.
ReadFails(c) ==
    /\ At(c, "loop") \/ At(c, "hello")
    /\ Writable(c)
    /\ Return(c)
    /\ UNCHANGED <<scope, ended, net, att, pumps, todo, session>>

-----------------------------------------------------------------------------
(* cleanup *)

Attached(c) == {s \in Sessions : att[c][s] # "none"}

\* Mutant: the socket is left open.
Cleanup_NoClose(c) ==
    /\ At(c, "return")
    /\ ended' = [ended EXCEPT ![c] = TRUE]
    /\ todo' = [todo EXCEPT ![c] = Attached(c)]
    /\ att' = [att EXCEPT ![c] = [s \in Sessions |-> "none"]]
    /\ Goto(c, "cleanup", None)
    /\ UNCHANGED <<frames, scope, net, pumps, session>>

\* c.close(), and the attachments are taken out of the map.
Cleanup(c) ==
    /\ At(c, "return")
    /\ closed' = [closed EXCEPT ![c] = TRUE] /\ stalled' = [stalled EXCEPT ![c] = FALSE]
    /\ ended' = [ended EXCEPT ![c] = TRUE]
    /\ todo' = [todo EXCEPT ![c] = Attached(c)]
    /\ att' = [att EXCEPT ![c] = [s \in Sessions |-> "none"]]
    /\ Goto(c, "cleanup", None)
    /\ UNCHANGED <<frames, scope, pumps, session>>

\* One attachment after the other: cancel, then wait and release.
CleanupNext(c, s) ==
    /\ At(c, "cleanup") /\ s \in todo[c]
    /\ todo' = [todo EXCEPT ![c] = @ \ {s}]
    /\ cancelled' = [cancelled EXCEPT ![c] = @ \cup {s}]
    /\ Goto(c, "release", s)
    /\ UNCHANGED <<frames, scope, ended, net, att, feed, session>>

\* Mutant: the write locks are not scanned.
CleanupList_NoScan(c) ==
    /\ At(c, "cleanup") /\ todo[c] = {}
    /\ todo' = [todo EXCEPT ![c] = {}]
    /\ Goto(c, "scan", None)
    /\ UNCHANGED <<frames, scope, ended, net, att, pumps, session>>

\* reg.List() for the scan of the write locks.
CleanupList(c) ==
    /\ At(c, "cleanup") /\ todo[c] = {}
    /\ todo' = [todo EXCEPT ![c] = {s \in Sessions : Found(s)}]
    /\ Goto(c, "scan", None)
    /\ UNCHANGED <<frames, scope, ended, net, att, pumps, session>>

\* WriteLockHolder: is it this client?
ScanRead(c, s) ==
    /\ At(c, "scan") /\ s \in todo[c]
    /\ todo' = [todo EXCEPT ![c] = @ \ {s}]
    /\ IF lock[s] = c THEN Goto(c, "unlock", s) ELSE UNCHANGED at
    /\ UNCHANGED <<frames, scope, ended, net, att, pumps, session>>

\* ReleaseWrite in a second critical section.
ScanRelease(c) ==
    /\ At(c, "unlock")
    /\ ReleaseWrite(c, Arg(c))
    /\ Goto(c, "scan", None)
    /\ UNCHANGED <<frames, scope, ended, net, att, pumps, todo, state, subscribers, grid, bytes, signalled>>

\* dropConn
DropConn(c) ==
    /\ At(c, "scan") /\ todo[c] = {}
    /\ Goto(c, "gone", None)
    /\ UNCHANGED <<frames, scope, ended, net, att, pumps, todo, session>>

-----------------------------------------------------------------------------
Request(c) ==
    \/ OnQuery(c)
    \/ \E s \in Sessions :
         \/ OnAttach(c, s) \/ OnDetach(c, s) \/ OnInput(c, s) \/ OnTakeWrite(c, s)
         \/ OnReleaseWrite(c, s) \/ OnKill(c, s) \/ OnSpawn(c, s) \/ OnResize(c, s)

\* What the connection's goroutine does by itself.
Step(c) ==
    \/ Reply(c) \/ Setsize(c) \/ AttachStart(c) \/ Release(c) \/ LingerKill(c) \/ WriteInput(c)
    \/ Cleanup(c) \/ CleanupList(c) \/ ScanRelease(c) \/ DropConn(c)
    \/ \E s \in Sessions : CleanupNext(c, s) \/ ScanRead(c, s)

\* Every connection is gone and every session reaped.
Terminated ==
    /\ \A c \in Conns : At(c, "gone")
    /\ \A s \in Sessions : ~Found(s)
    /\ UNCHANGED vars

Next ==
    \/ \E c \in Conns :
         \/ Stall(c) \/ Disconnect(c)
         \/ OnHello(c) \/ Request(c) \/ ReadFails(c) \/ Step(c)
         \/ \E f \in Sessions : FeedStep(c, f)
    \/ \E s \in Sessions : ChildRead(s) \/ Exit(s) \/ Reap(s)
    \/ Terminated

\* Goroutines are scheduled, and reading a closed connection fails.  Nothing is
\* assumed of clients and children.
Fairness ==
    \A c \in Conns :
        /\ WF_vars(Step(c))
        /\ WF_vars(closed[c] /\ ReadFails(c))
        /\ \A f \in Sessions : WF_vars(FeedWrote(c, f) \/ FeedEnd(c, f))

Spec == Init /\ [][Next]_vars /\ Fairness

-----------------------------------------------------------------------------
(* Properties. *)

\* The positions of a decode loop, with and without a session.
Plain  == {"hello", "loop", "reply", "return", "cleanup", "scan", "gone"}
Acting == {"attach", "input", "resize", "release", "term", "unlock"}
Places == (Plain \X {None}) \cup (Acting \X Sessions)

\* Types.
TypeOK ==
    /\ at \in [Conns -> Places]
    /\ frames \in [Conns -> 0 .. MaxFrames]
    /\ closed \in [Conns -> BOOLEAN] /\ stalled \in [Conns -> BOOLEAN]
    /\ scope \in [Conns -> {"control", "ro"}] /\ ended \in [Conns -> BOOLEAN]
    /\ att \in [Conns -> [Sessions -> {"none", "rw", "ro"}]]
    /\ feed \in [Conns -> [Sessions -> {"none", "wait", "write", "done"}]]
    /\ cancelled \in [Conns -> SUBSET Sessions] /\ todo \in [Conns -> SUBSET Sessions]
    /\ state \in [Sessions -> {"none", "running", "exited", "reaped"}]
    /\ subscribers \in [Sessions -> Nat]
    /\ lock \in [Sessions -> Conns \cup {None}]
    /\ size \in [Sessions -> Conns \cup {None}] /\ tty \in [Sessions -> Conns \cup {None}]
    /\ bytes \in [Sessions -> 0 .. Room] /\ overlap \subseteq Sessions
    /\ signalled \subseteq Sessions

\* The connections whose attachment to s has been counted and not yet released.
Subscribed(s) == {c \in Conns :
    \/ s \in Attached(c) /\ at[c] # <<"attach", s>>
    \/ at[c] = <<"release", s>>
    \/ at[c][1] \in {"cleanup", "release", "term"} /\ s \in todo[c]}

\* "cleanup releases every resource the connection held" (conn.go:109): a session
\* counts exactly the connections attached to it, whatever detaches, disconnects
\* and protocol errors overlap, and once a connection is gone no goroutine of it
\* runs and no session counts it, or has it as the holder of its write lock,
\* attached or not.
GoneHoldsNothing ==
    /\ \A s \in Sessions : Found(s) => subscribers[s] = Cardinality(Subscribed(s))
    /\ \A c \in Conns : At(c, "gone") =>
          /\ closed[c]
          /\ \A f \in Sessions : feed[c][f] \in {"none", "done"}
          /\ \A s \in Sessions : Found(s) => lock[s] # c /\ c \notin Subscribed(s)

\* The size INFO and a takeover report is the terminal's, though Resize stores it
\* under the lock and sets it after the unlock: one resize after the other leaves
\* both with the last.  Resizes that overlap may leave them different for good
\* ("last-writer-wins", session.go:519).
SizeTrue ==
    \A s \in Sessions :
        state[s] = "running" /\ s \notin overlap /\ Resizing(s) = {} => size[s] = tty[s]

\* "kill the session when the last client detaches" (client_cmds.go:94): when the
\* last subscriber of a linger: false session has left, however many leave at
\* once, the session is signalled, or has ended.
LingerHonoured ==
    \A s \in Sessions \ Linger :
        [](subscribers[s] > 0 =>
             [](subscribers[s] = 0 => <>(s \in signalled \/ state[s] # "running")))

\* A connection that broke or was given up is cleaned up to the end, though its feeds may be in the
\* middle of writing to a client that does not read, unless its decode loop
\* waits for a child to read its input: until then its write locks stay.
CleanupEnds ==
    \A c \in Conns : closed[c] \/ ended[c] ~> At(c, "gone") \/ At(c, "input")
=============================================================================
