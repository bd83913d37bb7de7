------------------------------ MODULE Takeover ------------------------------
(***************************************************************************)
(* The zero-downtime upgrade (pkg/daemon/takeover.go): an old daemon hands *)
(* its sessions to a new process.  One performHandover goroutine per new   *)
(* process runs in the old daemon; RequestTakeover and then Serve run in   *)
(* the new one.  Connection cleanup, spawns in flight and the read pumps   *)
(* of both daemons go on meanwhile.                                        *)
(*                                                                         *)
(* A session is its child, the bytes in the kernel's PTY buffer, and the   *)
(* processes that have the PTY open: when the last of them closes it the   *)
(* kernel hangs up on the child.  A descriptor travelling over SCM_RIGHTS  *)
(* counts as the receiver's.  A ring is the number of bytes put into it.   *)
(* PauseReader and ResumeReader are one step each; module Session has      *)
(* their inside, and module ProcessLock has the lock's part.               *)
(***************************************************************************)
EXTENDS Naturals, Sequences, FiniteSets

CONSTANTS Sessions,  \* sessions of the old daemon
          Late,      \* those whose spawn is still in flight at the start
          Clients,   \* those a client is attached to, over its own connection
          Linger,    \* those with linger: true
          News,      \* processes started with --takeover
          MaxOut     \* bound: bytes each child writes

Old == "old"
Daemons == {Old} \cup News

ASSUME SessionsAssumption == Late \subseteq Sessions /\ Clients \subseteq Sessions \ Late
                             /\ Linger \subseteq Sessions /\ IsFiniteSet(Sessions)
ASSUME NewsAssumption     == Old \notin News /\ "none" \notin News
ASSUME MaxOutAssumption   == MaxOut \in Nat

VARIABLES
    child,    \* "none" before its spawn, "alive", "dead"
    kbuf,     \* bytes in the PTY buffer
    produced, \* history: bytes the child ever wrote
    holders,  \* the processes with the PTY open
    status,   \* a daemon's view of a session: "none", "running", "exited"
    reading,  \* the sessions whose pump runs in a daemon
    ring,     \* the end of a daemon's ring for a session
    path,     \* who listens at the socket path, "none" if there is no file
    lnOpen,   \* the old daemon's listener is open
    closed,   \* s.closed
    client,   \* connection of each attached client: "open", "cleanup", "gone"
    oldUp,    \* the old daemon's process lives
    handedOver, \* s.handedOver is closed
    hpc,      \* where each performHandover goroutine is
    list,     \* its sessions, from List
    todo,     \* the sessions its current loop has still to visit
    link,     \* the private channel: "none", "open", "closed" by the old daemon
    chan,     \* what is in it
    acked,    \* the new processes whose ACK was written
    npc,      \* where each new process is
    got,      \* the end of each ring it has received
    touched,  \* history: sessions whose child died of the upgrade
    overlapped \* history: a handover began while another was under way

history == <<touched, overlapped>>
kernel  == <<child, kbuf, produced, holders, history>>
hosts   == <<status, reading, ring>>
server  == <<path, lnOpen, closed, client, oldUp, handedOver>>
handing == <<hpc, list, todo>>
wire    == <<link, chan>>
taking  == <<acked, npc, got>>
vars == <<kernel, hosts, server, handing, wire, taking>>

Missing == MaxOut + 1   \* no ring received

Init ==
    /\ child = [s \in Sessions |-> IF s \in Late THEN "none" ELSE "alive"]
    /\ kbuf = [s \in Sessions |-> 0] /\ produced = [s \in Sessions |-> 0]
    /\ holders = [s \in Sessions |-> IF s \in Late THEN {} ELSE {Old}]
    /\ status = [d \in Daemons |-> [s \in Sessions |->
                   IF d = Old /\ s \notin Late THEN "running" ELSE "none"]]
    /\ reading = [d \in Daemons |-> IF d = Old THEN Sessions \ Late ELSE {}]
    /\ ring = [d \in Daemons |-> [s \in Sessions |-> 0]]
    /\ path = Old /\ lnOpen = TRUE /\ closed = FALSE
    /\ client = [s \in Sessions |-> IF s \in Clients THEN "open" ELSE "gone"]
    /\ oldUp = TRUE /\ handedOver = FALSE
    /\ hpc = [n \in News |-> "idle"]
    /\ list = [n \in News |-> {}] /\ todo = [n \in News |-> {}]
    /\ link = [n \in News |-> "none"] /\ chan = [n \in News |-> <<>>]
    /\ acked = {} /\ npc = [n \in News |-> "off"]
    /\ got = [n \in News |-> [s \in Sessions |-> Missing]]
    /\ touched = {} /\ overlapped = FALSE

UnderWay(n) == hpc[n] \notin {"idle", "rolledback"}

HGoto(n, l) == hpc' = [hpc EXCEPT ![n] = l]
NGoto(n, l) == npc' = [npc EXCEPT ![n] = l]

\* The PTYs are open in the processes h says; a child with nobody left is hung
\* up on by the kernel.
HoldersBecome(h) ==
    LET cut == {s \in Sessions : child[s] = "alive" /\ h[s] = {}}
    IN  /\ holders' = h
        /\ child' = [s \in Sessions |-> IF s \in cut THEN "dead" ELSE child[s]]
        /\ touched' = touched \cup cut

\* writeCtrl and readCtrl on the private channel, with the blobs that follow; the
\* descriptor that rides along is in the receiver's hands at once.
WriteCtrl(n, m) == chan' = [chan EXCEPT ![n] = Append(@, m)]
ReadCtrl(n)     == chan' = [chan EXCEPT ![n] = Tail(@)]

Without(d) == [s \in Sessions |-> holders[s] \ {d}]

-----------------------------------------------------------------------------
(* The children, and the pumps of both daemons. *)

ChildWrite(s) ==
    /\ child[s] = "alive" /\ produced[s] < MaxOut
    /\ produced' = [produced EXCEPT ![s] = @ + 1]
    /\ kbuf' = [kbuf EXCEPT ![s] = @ + 1]
    /\ UNCHANGED <<child, holders, history, hosts, server, handing, wire, taking>>

ChildDie(s) ==
    /\ child[s] = "alive"
    /\ child' = [child EXCEPT ![s] = "dead"]
    /\ UNCHANGED <<kbuf, produced, holders, history, hosts, server, handing, wire, taking>>

PumpRead(d, s) ==
    /\ s \in reading[d] /\ d \in holders[s] /\ kbuf[s] > 0
    /\ kbuf' = [kbuf EXCEPT ![s] = @ - 1]
    /\ ring' = [ring EXCEPT ![d][s] = @ + 1]
    /\ UNCHANGED <<child, produced, holders, history, status, reading, server, handing,
                   wire, taking>>

\* End of stream, or a session adopted without a descriptor: finish.
PumpEnd(d, s) ==
    /\ s \in reading[d]
    /\ (child[s] = "dead" /\ kbuf[s] = 0) \/ d \notin holders[s]
    /\ reading' = [reading EXCEPT ![d] = @ \ {s}]
    /\ status' = [status EXCEPT ![d][s] = "exited"]
    /\ HoldersBecome([holders EXCEPT ![s] = @ \ {d}])
    /\ UNCHANGED <<kbuf, produced, overlapped, ring, server, handing, wire, taking>>

-----------------------------------------------------------------------------
(* The old daemon's connections. *)

\* cleanup, after the connection was closed: the attachment is released, and a
\* session with linger: false gets SIGTERM with its last subscriber.
ConnCleanup(s) ==
    /\ oldUp /\ client[s] = "cleanup"
    /\ client' = [client EXCEPT ![s] = "gone"]
    /\ IF s \notin Linger /\ status[Old][s] = "running" /\ child[s] = "alive"
       THEN child' = [child EXCEPT ![s] = "dead"] /\ touched' = touched \cup {s}
       ELSE UNCHANGED <<child, touched>>
    /\ UNCHANGED <<kbuf, produced, holders, overlapped, hosts, path, lnOpen, closed, oldUp,
                   handedOver, handing, wire, taking>>

\* A handler that was in Spawn when its connection was closed carries on.
LateSpawn(s) ==
    /\ oldUp /\ s \in Late /\ child[s] = "none"
    /\ child' = [child EXCEPT ![s] = "alive"]
    /\ holders' = [holders EXCEPT ![s] = {Old}]
    /\ status' = [status EXCEPT ![Old][s] = "running"]
    /\ reading' = [reading EXCEPT ![Old] = @ \cup {s}]
    /\ UNCHANGED <<kbuf, produced, history, ring, server, handing, wire, taking>>

\* acceptLoop: a new process connects to the old daemon.
Connect(n) ==
    /\ npc[n] = "off" /\ oldUp /\ path = Old /\ ~closed
    /\ NGoto(n, "asking")
    /\ UNCHANGED <<kernel, hosts, server, handing, wire, acked, got>>

\* onHandoverReq: OK, and go performHandover, whether or not another is running.
OnHandoverReq(n) ==
    /\ npc[n] = "asking" /\ oldUp
    /\ NGoto(n, "wait")
    /\ HGoto(n, "stop")
    /\ overlapped' = (overlapped \/ \E m \in News \ {n} : UnderWay(m))
    /\ UNCHANGED <<child, kbuf, produced, holders, touched, hosts, server, list, todo, wire,
                   acked, got>>

-----------------------------------------------------------------------------
(* performHandover in the old daemon. *)

\* Under s.mu: closed, and the connections to close are known.
HandoverStop(n) ==
    /\ oldUp /\ hpc[n] = "stop"
    /\ closed' = TRUE
    /\ HGoto(n, "close")
    /\ UNCHANGED <<kernel, hosts, path, lnOpen, client, oldUp, handedOver, list, todo, wire,
                   taking>>

\* Closing the listener unlinks the path; every connection is closed, that of
\* another process still asking included.
HandoverClose(n) ==
    /\ oldUp /\ hpc[n] = "close"
    /\ path' = IF lnOpen THEN "none" ELSE path
    /\ lnOpen' = FALSE
    /\ client' = [s \in Sessions |-> IF client[s] = "open" THEN "cleanup" ELSE client[s]]
    /\ npc' = [m \in News |-> IF npc[m] = "asking" THEN "failed" ELSE npc[m]]
    /\ HGoto(n, "list")
    /\ UNCHANGED <<kernel, hosts, closed, oldUp, handedOver, list, todo, wire, acked, got>>

\* s.reg.List(), which skips a spawn still in flight.
HandoverList(n) ==
    /\ oldUp /\ hpc[n] = "list"
    /\ list' = [list EXCEPT ![n] = {s \in Sessions : status[Old][s] # "none"}]
    /\ todo' = [todo EXCEPT ![n] = {s \in Sessions : status[Old][s] # "none"}]
    /\ HGoto(n, "pause")
    /\ UNCHANGED <<kernel, hosts, server, wire, taking>>

\* Mutant: the readers are not frozen before the snapshots.
HandoverPause_KeepsReading(n, s) ==
    /\ oldUp /\ hpc[n] = "pause" /\ s \in todo[n]
    /\ todo' = [todo EXCEPT ![n] = @ \ {s}]
    /\ UNCHANGED <<kernel, hosts, server, hpc, list, wire, taking>>

\* sess.PauseReader(): an exited session has no reader.
HandoverPause(n, s) ==
    /\ oldUp /\ hpc[n] = "pause" /\ s \in todo[n]
    /\ reading' = [reading EXCEPT ![Old] = @ \ {s}]
    /\ todo' = [todo EXCEPT ![n] = @ \ {s}]
    /\ UNCHANGED <<kernel, status, ring, server, hpc, list, wire, taking>>

\* net.DialTimeout to the reply path, which the new process accepts, or which
\* is gone: rollback.
HandoverDial(n) ==
    /\ oldUp /\ hpc[n] = "pause" /\ todo[n] = {}
    /\ todo' = [todo EXCEPT ![n] = list[n]]
    /\ IF npc[n] = "wait"
       THEN /\ HGoto(n, "stream") /\ NGoto(n, "recv")
            /\ link' = [link EXCEPT ![n] = "open"]
       ELSE HGoto(n, "rollback") /\ UNCHANGED <<npc, link>>
    /\ UNCHANGED <<kernel, hosts, server, list, chan, acked, got>>

\* Mutant: the descriptor is not attached to the control byte.
HandoverStream_NoFd(n, s) ==
    /\ oldUp /\ hpc[n] = "stream" /\ s \in todo[n] /\ npc[n] = "recv"
    /\ WriteCtrl(n, [session |-> s, ring |-> ring[Old][s]])
    /\ todo' = [todo EXCEPT ![n] = @ \ {s}]
    /\ UNCHANGED <<kernel, hosts, server, hpc, list, link, taking>>

\* HandoverState, the control byte with the PTY's descriptor if the session is
\* running, the state and the ring.
HandoverStream(n, s) ==
    LET running == status[Old][s] = "running"
    IN  /\ oldUp /\ hpc[n] = "stream" /\ s \in todo[n] /\ npc[n] = "recv"
        /\ WriteCtrl(n, [session |-> s, ring |-> ring[Old][s]])
        /\ holders' = [holders EXCEPT ![s] = IF running THEN @ \cup {n} ELSE @]
        /\ todo' = [todo EXCEPT ![n] = @ \ {s}]
        /\ UNCHANGED <<child, kbuf, produced, history, hosts, server, hpc, list, link, taking>>

\* The finale: the lock's descriptor and the number of sessions.
HandoverFinale(n) ==
    /\ oldUp /\ hpc[n] = "stream" /\ todo[n] = {} /\ npc[n] = "recv"
    /\ WriteCtrl(n, [count |-> Cardinality(list[n])])
    /\ HGoto(n, "ack")
    /\ UNCHANGED <<kernel, hosts, server, list, todo, link, taking>>

\* The ACK is there: close(s.handedOver).  Closing it a second time would
\* panic, which ends the process as retirement does.
HandoverAck(n) ==
    /\ oldUp /\ hpc[n] = "ack" /\ n \in acked
    /\ handedOver' = TRUE
    /\ HGoto(n, "done")
    /\ UNCHANGED <<kernel, hosts, path, lnOpen, closed, client, oldUp, list, todo, wire,
                   taking>>

\* A pause fails, a write fails, or the deadline passes: rollback.
HandoverFail(n) ==
    /\ oldUp /\ hpc[n] \in {"pause", "stream", "ack"}
    /\ HGoto(n, "rollback")
    /\ todo' = [todo EXCEPT ![n] = list[n]]
    /\ UNCHANGED <<kernel, hosts, server, list, wire, taking>>

\* Mutant: rollback relistens without resuming the readers.
RollbackResume_Skips(n, s) ==
    /\ oldUp /\ hpc[n] = "rollback" /\ s \in todo[n]
    /\ todo' = [todo EXCEPT ![n] = @ \ {s}]
    /\ UNCHANGED <<kernel, hosts, server, hpc, list, wire, taking>>

\* sess.ResumeReader()
RollbackResume(n, s) ==
    /\ oldUp /\ hpc[n] = "rollback" /\ s \in todo[n]
    /\ reading' = IF status[Old][s] = "running"
                  THEN [reading EXCEPT ![Old] = @ \cup {s}] ELSE reading
    /\ todo' = [todo EXCEPT ![n] = @ \ {s}]
    /\ UNCHANGED <<kernel, status, ring, server, hpc, list, wire, taking>>

\* Mutant: the accept loop restarts with closed still set.
Relisten_StaysClosed(n) ==
    /\ oldUp /\ hpc[n] = "rollback" /\ todo[n] = {}
    /\ IF path = "none" THEN path' = Old /\ lnOpen' = TRUE
                        ELSE UNCHANGED <<path, lnOpen>>
    /\ link' = [link EXCEPT ![n] = "closed"]
    /\ HGoto(n, "rolledback")
    /\ UNCHANGED <<kernel, hosts, closed, client, oldUp, handedOver, list, todo, chan, taking>>

\* relisten, which fails if the path exists; the deferred close of the private
\* channel comes last.
Relisten(n) ==
    /\ oldUp /\ hpc[n] = "rollback" /\ todo[n] = {}
    /\ IF path = "none" THEN path' = Old /\ lnOpen' = TRUE /\ closed' = FALSE
                        ELSE UNCHANGED <<path, lnOpen, closed>>
    /\ link' = [link EXCEPT ![n] = "closed"]
    /\ HGoto(n, "rolledback")
    /\ UNCHANGED <<kernel, hosts, client, oldUp, handedOver, list, todo, chan, taking>>

\* Serve returns after the takeover and the process exits, which closes its
\* connections; nothing is killed.
Retire ==
    /\ oldUp /\ handedOver
    /\ oldUp' = FALSE /\ lnOpen' = FALSE
    /\ HoldersBecome(Without(Old))
    /\ reading' = [reading EXCEPT ![Old] = {}]
    /\ link' = [n \in News |-> IF link[n] = "open" THEN "closed" ELSE link[n]]
    /\ npc' = [n \in News |-> IF npc[n] = "asking" THEN "failed" ELSE npc[n]]
    /\ UNCHANGED <<kbuf, produced, overlapped, status, ring, path, closed, client,
                   handedOver, handing,
                   chan, acked, got>>

-----------------------------------------------------------------------------
(* RequestTakeover and Serve in the new process. *)

\* The process n is gone: its descriptors close.
Exits(n) ==
    /\ NGoto(n, "failed")
    /\ HoldersBecome(Without(n))
    /\ reading' = [reading EXCEPT ![n] = {}]
    /\ chan' = [chan EXCEPT ![n] = <<>>]

\* The control byte and blobs of one session.
ReceiveSession(n) ==
    /\ npc[n] = "recv" /\ chan[n] # <<>> /\ "session" \in DOMAIN Head(chan[n])
    /\ LET m == Head(chan[n])
       IN  got' = [got EXCEPT ![n][m.session] = m.ring]
    /\ ReadCtrl(n)
    /\ UNCHANGED <<kernel, hosts, server, handing, link, acked, npc>>

Received(n) == {s \in Sessions : got[n][s] # Missing}

\* The finale: the count is compared and the ACK written; writing to a channel
\* the old daemon has closed fails.
ReceiveFinale(n) ==
    /\ npc[n] = "recv" /\ chan[n] # <<>> /\ "count" \in DOMAIN Head(chan[n])
    /\ IF link[n] = "open" /\ Head(chan[n]).count = Cardinality(Received(n))
       THEN /\ ReadCtrl(n)
            /\ acked' = acked \cup {n} /\ NGoto(n, "adopt")
            /\ UNCHANGED <<child, holders, touched, reading>>
       ELSE Exits(n) /\ UNCHANGED acked
    /\ UNCHANGED <<kbuf, produced, overlapped, status, ring, server, handing, link, got>>

\* A read or the accept fails or times out, or the process dies.
TakeoverFail(n) ==
    /\ npc[n] \in {"wait", "recv"}
    /\ Exits(n)
    /\ UNCHANGED <<kbuf, produced, overlapped, status, ring, server, handing, link, acked, got>>

\* Serve: host.AdoptSession, which starts a pump, and reg.Adopt.
AdoptSession(n, s) ==
    /\ npc[n] = "adopt" /\ s \in Received(n) /\ status[n][s] = "none"
    /\ status' = [status EXCEPT ![n][s] = "running"]
    /\ reading' = [reading EXCEPT ![n] = @ \cup {s}]
    /\ ring' = [ring EXCEPT ![n][s] = got[n][s]]
    /\ UNCHANGED <<kernel, server, handing, wire, taking>>

\* A file at the socket path is removed as stale, then the path is bound.
Listen(n) ==
    /\ npc[n] = "adopt" /\ \A s \in Received(n) : status[n][s] # "none"
    /\ path' = n
    /\ NGoto(n, "serving")
    /\ UNCHANGED <<kernel, hosts, lnOpen, closed, client, oldUp, handedOver, handing, wire,
                   acked, got>>

\* Serve returns an error between the lock and the accept loop.
ServeFails(n) ==
    /\ npc[n] = "adopt"
    /\ Exits(n)
    /\ UNCHANGED <<kbuf, produced, overlapped, status, ring, server, handing, link, acked, got>>

\* Another process is started with --takeover after one that came to nothing.
Retry(n) ==
    /\ npc[n] = "failed" /\ n \notin acked /\ hpc[n] \in {"idle", "rolledback"}
    /\ npc' = [npc EXCEPT ![n] = "off"] /\ hpc' = [hpc EXCEPT ![n] = "idle"]
    /\ list' = [list EXCEPT ![n] = {}] /\ link' = [link EXCEPT ![n] = "none"]
    /\ got' = [got EXCEPT ![n] = [s \in Sessions |-> Missing]]
    /\ UNCHANGED <<kernel, hosts, server, todo, chan, acked>>

-----------------------------------------------------------------------------
PumpStep == \E d \in Daemons, s \in Sessions : PumpRead(d, s) \/ PumpEnd(d, s)

HandoverStep(n) ==
    \/ HandoverStop(n) \/ HandoverClose(n) \/ HandoverList(n) \/ HandoverDial(n)
    \/ \E s \in Sessions : HandoverPause(n, s) \/ HandoverStream(n, s) \/ RollbackResume(n, s)
    \/ HandoverFinale(n) \/ HandoverAck(n) \/ HandoverFail(n) \/ Relisten(n)

TakeoverStep(n) ==
    \/ ReceiveSession(n) \/ ReceiveFinale(n) \/ TakeoverFail(n)
    \/ \E s \in Sessions : AdoptSession(n, s)
    \/ Listen(n)

\* Nothing is under way: every handover and every takeover has come to its end.
Settled ==
    /\ \A n \in News : /\ hpc[n] \in {"idle", "done", "rolledback"} \/ ~oldUp
                       /\ npc[n] \in {"off", "serving", "failed"}
    /\ handedOver => ~oldUp
    /\ UNCHANGED vars

Next ==
    \/ \E s \in Sessions : ChildWrite(s) \/ ChildDie(s) \/ ConnCleanup(s) \/ LateSpawn(s)
    \/ PumpStep
    \/ \E n \in News : \/ Connect(n) \/ OnHandoverReq(n)
                       \/ HandoverStep(n) \/ TakeoverStep(n) \/ ServeFails(n)
                       \/ Retry(n)
    \/ Retire
    \/ Settled

\* Goroutines are scheduled and timers fire.  No child, client or takeover is
\* assumed to do anything, and neither process is assumed to be in time.
Fairness ==
    /\ \A d \in Daemons, s \in Sessions : WF_vars(PumpRead(d, s) \/ PumpEnd(d, s))
    /\ \A n \in News : WF_vars(HandoverStep(n)) /\ WF_vars(TakeoverStep(n))
    /\ WF_vars(Retire)

Spec == Init /\ [][Next]_vars /\ Fairness

-----------------------------------------------------------------------------
(* Properties. *)

\* Types; a pump runs only in a daemon that takes the session for running.
TypeOK ==
    /\ child \in [Sessions -> {"none", "alive", "dead"}]
    /\ kbuf \in [Sessions -> 0 .. MaxOut] /\ produced \in [Sessions -> 0 .. MaxOut]
    /\ holders \in [Sessions -> SUBSET Daemons]
    /\ status \in [Daemons -> [Sessions -> {"none", "running", "exited"}]]
    /\ reading \in [Daemons -> SUBSET Sessions]
    /\ ring \in [Daemons -> [Sessions -> 0 .. MaxOut]]
    /\ path \in Daemons \cup {"none"} /\ lnOpen \in BOOLEAN /\ closed \in BOOLEAN
    /\ client \in [Sessions -> {"open", "cleanup", "gone"}]
    /\ oldUp \in BOOLEAN /\ handedOver \in BOOLEAN
    /\ hpc \in [News -> {"idle", "stop", "close", "list", "pause", "stream", "ack",
                         "done", "rollback", "rolledback"}]
    /\ list \in [News -> SUBSET Sessions] /\ todo \in [News -> SUBSET Sessions]
    /\ link \in [News -> {"none", "open", "closed"}]
    /\ acked \subseteq News
    /\ npc \in [News -> {"off", "asking", "wait", "recv", "adopt", "serving", "failed"}]
    /\ got \in [News -> [Sessions -> 0 .. Missing]]
    /\ touched \subseteq Sessions /\ overlapped \in BOOLEAN
    /\ \A d \in Daemons : \A s \in reading[d] : status[d][s] = "running"

\* An ACK and the old daemon's deadline have crossed.
Crossed == \E n \in acked : hpc[n] \in {"rollback", "rolledback"}

\* "the stream stays contiguous" (README.md:190): whichever daemon reads a
\* session has in its ring exactly what the child wrote and is not still in the
\* kernel, and a daemon that takes it for exited has everything, through any
\* number of failed takeovers, unless an ACK crossed the deadline or two handovers
\* were under way at once, where the rollback of one restarts readers the other
\* has frozen.
StreamContiguous ==
    ~Crossed /\ ~overlapped => \A d \in Daemons, s \in Sessions :
        /\ s \in reading[d] => ring[d][s] + kbuf[s] = produced[s]
        /\ status[d][s] = "exited" => ring[d][s] = produced[s]

\* "the old exits without touching a single child process" (takeover.go:6), for
\* the sessions it handed over: none of their children died of the upgrade, and
\* each that lives is open in the new daemon when the old one retires and as long
\* as that one runs.  Excepted is the SIGTERM that closing the connections sends to
\* a linger: false session with a client.
HandedOverKept ==
    \A n \in News : hpc[n] = "done" /\ npc[n] # "failed" =>
        \A s \in list[n] :
            /\ child[s] = "alive" => n \in holders[s]
            /\ s \in touched => s \in Clients \ Linger

\* "Any failure before the ACK rolls everything back" (takeover.go:164): once
\* every handover has been rolled back, without an ACK, the old daemon listens,
\* accepts, and reads every session it takes for running.
RollbackComplete ==
    /\ acked = {} /\ \E n \in News : hpc[n] = "rolledback"
    /\ \A n \in News : hpc[n] \in {"idle", "rolledback"}
    => /\ path = Old /\ lnOpen /\ ~closed
       /\ \A s \in Sessions : status[Old][s] = "running" => s \in reading[Old]

\* Output does not get stuck: once takeovers stop being tried, what waits in the
\* kernel is read by some daemon, as long as one has the session open.
OutputFlows ==
    <>[][\A n \in News : ~Retry(n)]_vars =>
        \A s \in Sessions : kbuf[s] > 0 ~> kbuf[s] = 0 \/ holders[s] = {}
=============================================================================
