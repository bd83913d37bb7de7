------------------------------- MODULE Daemon -------------------------------
(***************************************************************************)
(* The life of a daemon process (Serve in pkg/daemon/daemon.go) over the   *)
(* lock that ProcessLock models: the socket, the WebSocket port and the    *)
(* files through which clients find the daemon, its children, and the end  *)
(* by signal, by takeover or by a crash.                                   *)
(*                                                                         *)
(* Several processes share one home directory.  Closing a listener unlinks *)
(* the socket path whatever it names by then, as Go does.  A takeover is   *)
(* here only what it does to lock, listener and children (the protocol is  *)
(* in Takeover); connections and the spawn's own steps are in Conn and     *)
(* Registry.                                                               *)
(***************************************************************************)
EXTENDS ProcessLock

CONSTANTS Kids,     \* children
          WSProcs   \* the processes started with --ws-port (the same port every time)

ASSUME WSProcsAssumption == WSProcs \subseteq Procs

VARIABLES srv,      \* where each process is in Serve
          sig,      \* the processes whose context SIGTERM has ended
          ln,       \* the processes with an open listener
          sock,     \* who bound the socket the path names, or NoPid
          port,     \* who listens on the WebSocket port, or NoPid
          token,    \* whose credentials the token files hold, or NoPid
          disc,     \* the pid in the discovery file, or NoPid
          reg,      \* the children each process has the terminal of, by session
          flight,   \* the children whose spawn has not been committed
          live,     \* the sessions stopSessions has listed
          kid,      \* "none", "running", "dead"
          crossed   \* history: two owners or handovers at once, a crossed ACK or shutdown

files   == <<ln, sock, port, token, disc>>
kids    == <<reg, flight, live, kid>>
dvars   == <<vars, srv, sig, files, kids, crossed>>

DInit ==
    /\ Init
    /\ srv = [p \in Procs |-> "none"] /\ sig = {} /\ ln = {} /\ crossed = FALSE
    /\ sock = NoPid /\ port = NoPid /\ token = NoPid /\ disc = NoPid
    /\ reg = [p \in Procs |-> {}] /\ flight = reg /\ live = reg
    /\ kid = [k \in Kids |-> "none"]

Step(p, at, to) == Live(p) /\ srv[p] = at /\ srv' = [srv EXCEPT ![p] = to]

\* A handover has paused the readers of p's sessions, for good if it succeeds.
Paused(p) == pc[p] = "retired" \/ Heirs(p) # {}

\* The flag is set when a second owner appears.
Crossing == crossed' = (crossed \/ Cardinality(Owners') > 1)

-----------------------------------------------------------------------------
(* Serve, from the lock to the select. *)

\* Acquire, step by step.
Acquires(p) ==
    /\ Start(p) \/ AcquireStep(p)
    /\ Crossing
    /\ UNCHANGED <<srv, sig, files, kids>>

\* The lock is held and the sessions adopted: a socket file that is there is
\* taken for stale and removed.
RemoveStale(p) ==
    /\ pc[p] = "owner" /\ Step(p, "none", "listen")
    /\ sock' = NoPid
    /\ UNCHANGED <<vars, sig, ln, port, token, disc, kids, crossed>>

\* net.Listen fails if the path is bound, and Serve returns.
Listen(p) ==
    /\ Step(p, "listen", IF sock = NoPid THEN "ws" ELSE "return")
    /\ sock' = IF sock = NoPid THEN p ELSE sock
    /\ ln' = IF sock = NoPid THEN ln \cup {p} ELSE ln
    /\ UNCHANGED <<vars, sig, port, token, disc, kids, crossed>>

\* mintTokens and the bind in serveWS, which fails while another daemon has the port.
BindWS(p) ==
    /\ p \in WSProcs
    /\ token' = p
    /\ \/ /\ port = NoPid /\ port' = p
          /\ Step(p, "ws", "publish") /\ UNCHANGED <<ln, sock>>
       \/ /\ port # NoPid /\ UNCHANGED port
          /\ Step(p, "ws", "return")
          /\ ln' = ln \ {p} /\ sock' = NoPid
    /\ UNCHANGED <<vars, sig, disc, kids, crossed>>

NoWS(p) ==
    /\ p \notin WSProcs
    /\ Step(p, "ws", "publish")
    /\ UNCHANGED <<vars, sig, files, kids, crossed>>

\* writeDiscovery; the accept loop and the ticker start.
WriteDiscovery(p) ==
    /\ Step(p, "publish", "serving") /\ disc' = p
    /\ UNCHANGED <<vars, sig, ln, sock, port, token, kids, crossed>>

-----------------------------------------------------------------------------
(* Children. *)

\* A client spawns: the child runs, the session is not in the table yet.
SpawnBegin(p, k) ==
    /\ srv[p] = "serving" /\ p \in ln /\ kid[k] = "none"
    /\ kid' = [kid EXCEPT ![k] = "running"]
    /\ flight' = [flight EXCEPT ![p] = @ \cup {k}]
    /\ UNCHANGED <<vars, srv, sig, files, reg, live, crossed>>

SpawnEnd(p, k) ==
    /\ k \in flight[p]
    /\ flight' = [flight EXCEPT ![p] = @ \ {k}] /\ reg' = [reg EXCEPT ![p] = @ \cup {k}]
    /\ UNCHANGED <<vars, srv, sig, files, live, kid, crossed>>

ChildExit(k) ==
    /\ kid[k] = "running" /\ kid' = [kid EXCEPT ![k] = "dead"]
    /\ UNCHANGED <<vars, srv, sig, files, reg, flight, live, crossed>>

\* The kernel closes the files of p: a child whose terminal nobody else has open
\* is hung up on.
Drop(p) ==
    LET kept == UNION {reg[q] : q \in Procs \ {p}}
    IN  /\ reg' = [reg EXCEPT ![p] = {}] /\ flight' = [flight EXCEPT ![p] = {}]
        /\ live' = [live EXCEPT ![p] = {}]
        /\ kid' = [k \in Kids |-> IF k \in (reg[p] \cup flight[p]) \ kept THEN "dead" ELSE kid[k]]
        /\ srv' = [srv EXCEPT ![p] = "none"] /\ sig' = sig \ {p}

-----------------------------------------------------------------------------
(* The end. *)

\* SIGTERM; one that comes before Serve's select waits for it, and changes nothing.
Signal(p) ==
    /\ Live(p) /\ srv[p] = "serving" /\ p \notin sig /\ sig' = sig \cup {p}
    /\ UNCHANGED <<vars, srv, files, kids, crossed>>

\* The select takes ctx.Done: no more connections, and the current listener is
\* closed.  handedOver may be ready as well; either branch can be taken.
Stop(p) ==
    /\ p \in sig /\ Step(p, "serving", "closing")
    /\ ln' = ln \ {p} /\ sock' = IF p \in ln THEN NoPid ELSE sock
    /\ crossed' = (crossed \/ Paused(p))
    /\ UNCHANGED <<vars, sig, port, token, disc, kids>>

\* wsCancel, the connections, the ticker; then stopSessions'
\* SIGTERM to all, which some ignore.
StopSessions(p) ==
    /\ Step(p, "closing", "waiting")
    /\ port' = IF port = p THEN NoPid ELSE port
    /\ live' = [live EXCEPT ![p] = reg[p]]
    /\ \E ignore \in SUBSET reg[p] :
         kid' = [k \in Kids |-> IF k \in reg[p] \ ignore THEN "dead" ELSE kid[k]]
    /\ UNCHANGED <<vars, sig, ln, sock, token, disc, reg, flight, crossed>>

\* Mutant: the straggler is sent the SIGTERM it ignores once more.
Escalate_Again(p, k) ==
    /\ srv[p] = "waiting" /\ k \in live[p] /\ kid[k] = "running"
    /\ UNCHANGED kid
    /\ UNCHANGED <<vars, srv, sig, files, reg, flight, live, crossed>>

\* The deadline passes with k alive: SIGKILL.
Escalate(p, k) ==
    /\ srv[p] = "waiting" /\ k \in live[p] /\ kid[k] = "running"
    /\ kid' = [kid EXCEPT ![k] = "dead"]
    /\ UNCHANGED <<vars, srv, sig, files, reg, flight, live, crossed>>

\* <-sess.Done(): closed by the session's pump, which a handover has paused.
SessionDone(p, k) ==
    /\ srv[p] = "waiting" /\ k \in live[p] /\ kid[k] = "dead" /\ ~Paused(p)
    /\ live' = [live EXCEPT ![p] = @ \ {k}]
    /\ UNCHANGED <<vars, srv, sig, files, reg, flight, kid, crossed>>

\* The runtime files are removed, whoever wrote them.
RemoveFiles(p) ==
    /\ live[p] = {} /\ Step(p, "waiting", "return")
    /\ sock' = NoPid /\ disc' = NoPid
    /\ UNCHANGED <<vars, sig, ln, port, token, kids, crossed>>

\* Mutant: the retiring daemon cleans up like a stopping one.
Retire_Cleans(p) ==
    /\ pc[p] = "retired" /\ Step(p, "serving", "return")
    /\ port' = IF port = p THEN NoPid ELSE port
    /\ sock' = NoPid /\ disc' = NoPid
    /\ UNCHANGED <<vars, sig, ln, token, kids, crossed>>

\* The select takes handedOver: nothing is touched.
Retire(p) ==
    /\ pc[p] = "retired" /\ Step(p, "serving", "return")
    /\ port' = IF port = p THEN NoPid ELSE port
    /\ UNCHANGED <<vars, sig, ln, sock, token, disc, kids, crossed>>

\* Serve returns: the deferred Release, and the process is gone.
Exit(p) ==
    /\ srv[p] = "return"
    /\ Release(p) /\ Drop(p) /\ ln' = ln \ {p}
    /\ UNCHANGED <<sock, port, token, disc, crossed>>

\* A crash leaves socket file, token and discovery behind.
Dies(p) ==
    /\ Crash(p) /\ Drop(p) /\ ln' = ln \ {p}
    /\ port' = IF port = p THEN NoPid ELSE port
    /\ UNCHANGED <<sock, token, disc, crossed>>

-----------------------------------------------------------------------------
(* Takeover. *)

\* q asks over the socket; p closes its listener, pauses its sessions and sends
\* their terminals and the lock.  The request may also have come in before the
\* handover to another process closed the listener.
HandOver(p, q) ==
    /\ srv[p] = "serving" /\ (Paused(p) \/ (p \in ln /\ sock = p))
    /\ SendLock(p, q)
    /\ ln' = ln \ {p} /\ sock' = IF p \in ln THEN NoPid ELSE sock
    /\ reg' = [reg EXCEPT ![q] = {k \in reg[p] : kid[k] = "running"}]
    /\ crossed' = (crossed \/ Paused(p))
    /\ UNCHANGED <<srv, sig, port, token, disc, flight, live, kid>>

\* The new daemon acknowledges, and the old one reads that in its own time.
Acknowledge(q) ==
    /\ AdoptLock(q) /\ Crossing
    /\ UNCHANGED <<srv, sig, files, kids>>

HandedOver(p, q) ==
    /\ TakeAck(p, q)
    /\ crossed' = (crossed \/ srv[p] # "serving")
    /\ UNCHANGED <<srv, sig, files, kids>>

\* The handover has failed: the readers resume, and relisten binds the path again
\* if no socket is there, even if a shutdown is under way.
RollBack(p, q) ==
    /\ Rollback(p, q) /\ crossed' = (crossed \/ deal[q] = "acked")
    /\ sock' = IF sock = NoPid THEN p ELSE sock
    /\ ln' = IF sock = NoPid THEN ln \cup {p} ELSE ln
    /\ UNCHANGED <<srv, sig, port, token, disc, kids>>

GivesUp(q) ==
    /\ GiveUp(q) /\ Drop(q)
    /\ UNCHANGED <<files, crossed>>

-----------------------------------------------------------------------------
ServeStep(p) ==
    \/ RemoveStale(p) \/ Listen(p) \/ BindWS(p) \/ NoWS(p) \/ WriteDiscovery(p)
    \/ Stop(p) \/ StopSessions(p) \/ RemoveFiles(p) \/ Retire(p) \/ Exit(p)
    \/ \E k \in Kids : Escalate(p, k) \/ SessionDone(p, k) \/ SpawnEnd(p, k)

\* Nothing is left to run, or a daemon hangs: shut down while its sessions are
\* paused for a handover that went through.
Finished ==
    /\ \A p \in Procs : pc[p] \in {"refused", "dead"} \/ (pc[p] = "retired" /\ srv[p] = "waiting")
    /\ UNCHANGED dvars

DNext ==
    \/ \E p \in Procs : \/ Acquires(p) \/ ServeStep(p) \/ Acknowledge(p) \/ GivesUp(p) \/ Signal(p) \/ Dies(p)
                        \/ \E k \in Kids : SpawnBegin(p, k)
                        \/ \E q \in Procs : HandOver(p, q) \/ HandedOver(p, q) \/ RollBack(p, q)
    \/ \E k \in Kids : ChildExit(k)
    \/ Finished

\* Serve's goroutine makes progress, and the shutdown deadline passes.
DFairness == \A p \in Procs : WF_dvars(ServeStep(p))

DSpec == DInit /\ [][DNext]_dvars /\ DFairness

-----------------------------------------------------------------------------
(* Properties. *)

\* `runbaypty daemon status`: the discovery file names a live process.
Status == IF disc = NoPid THEN "none" ELSE IF Live(disc) THEN "running" ELSE "stale"

Serving(p) == p \in Owners /\ srv[p] = "serving" /\ ~Paused(p)

\* A daemon that serves can be found: the socket path, the discovery file and the
\* tokens are its own, whatever files a crash left, whatever starts, stops and
\* takeovers went before and however slowly their processes end ("Exit ... without
\* touching the socket or discovery files", daemon.go:236).  Excepted: a second
\* owner, an ACK that crossed the old daemon's deadline, two handovers of one
\* daemon at the same time, and a SIGTERM to the old daemon in the middle of a
\* takeover, which makes it remove the files of the new one.
ServingReachable ==
    ~crossed => \A p \in Procs : Serving(p) =>
        /\ p \in ln /\ sock = p
        /\ disc = p /\ Status = "running"
        /\ p \in WSProcs => port = p /\ token = p

\* "escalate to SIGKILL at the deadline" (daemon.go:131): a signalled daemon whose
\* shutdown no takeover crosses ends, whatever its children ignore.
ShutdownEnds ==
    \A p \in Procs : Serving(p) /\ p \in sig ~> pc[p] = "dead" \/ pc[p] = "retired" \/ crossed
=============================================================================
