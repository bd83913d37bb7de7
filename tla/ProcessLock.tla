----------------------------- MODULE ProcessLock -----------------------------
(***************************************************************************)
(* The lock that makes one daemon own a home directory                     *)
(* (pkg/processlock): the lock file, the advisory flock on it, the pid     *)
(* written into it, the reclaiming of a stale lock, and the transfer of    *)
(* the lock to another daemon in a takeover.                               *)
(*                                                                         *)
(* Every system call is one step.  A file is an inode: unlinking the path  *)
(* leaves the inode, and any flock on it, to whoever has it open.  A flock *)
(* belongs to the open file description, so it is the set of processes     *)
(* sharing that description and ends when the last of them closes it.      *)
(***************************************************************************)
EXTENDS Naturals, FiniteSets

CONSTANTS Procs,     \* daemon processes; a process starts once and may die
          Takeovers, \* whether `serve --takeover` is used
          MaxInodes  \* bound: lock files ever created

ASSUME TakeoversAssumption == Takeovers \in BOOLEAN
ASSUME MaxInodesAssumption == MaxInodes \in Nat \ {0}

VARIABLES
    path,     \* the inode the lock path names, 0 when there is no file
    created,  \* inodes created so far: 1 .. created
    content,  \* what each inode holds: a pid, or nothing yet
    flock,    \* the processes sharing the locked description of each inode
    pc,       \* where each process is
    opened,   \* the inode each process has open, 0 for none
    attempt,  \* Acquire's attempt, 0 again when it has returned
    donor,    \* who is handing over to a process, the process itself if nobody is
    deal,     \* how far that is: "none", "sent" (the lock), "acked"
    inherited,\* history: the lock came by Adopt, and the old daemon knows
    alone,    \* history: nobody else was alive when the process started
    shared    \* history: the files whose lock two daemons may have come to share

vars == <<path, created, content, flock, pc, opened, attempt, donor, deal, inherited, alone, shared>>
history == <<inherited, alone, shared>>
deals == <<donor, deal>>

Inodes == 1 .. MaxInodes
NoPid == "none"
ASSUME PidAssumption == NoPid \notin Procs

Live(p) == pc[p] \notin {"dead", "refused"}

\* A home directory no daemon has run in yet.
Init ==
    /\ path = 0 /\ created = 0
    /\ content = [f \in Inodes |-> NoPid]
    /\ flock = [f \in Inodes |-> {}]
    /\ pc = [p \in Procs |-> "new"]
    /\ opened = [p \in Procs |-> 0]
    /\ attempt = [p \in Procs |-> 0]
    /\ donor = [p \in Procs |-> p] /\ deal = [p \in Procs |-> "none"]
    /\ inherited = {} /\ alone = {} /\ shared = {}

Acquiring == {p \in Procs : pc[p] \in {"open", "flock", "truncate", "write", "probe", "reclaim"}}

Goto(p, l) == pc' = [pc EXCEPT ![p] = l]

\* The handovers of the processes in D are over, their connections closed.
Over(D) ==
    /\ donor' = [q \in Procs |-> IF q \in D THEN q ELSE donor[q]]
    /\ deal' = [q \in Procs |-> IF q \in D THEN "none" ELSE deal[q]]

\* The processes p is handing over to.
Heirs(p) == {q \in Procs : donor[q] = p /\ deal[q] # "none"}

-----------------------------------------------------------------------------
(* Acquire and tryAcquire. *)

\* The process starts and calls Acquire.
Start(p) ==
    /\ pc[p] = "new"
    /\ Goto(p, "open")
    /\ alone' = IF \A q \in Procs \ {p} : pc[q] \in {"new", "dead", "refused"}
                THEN alone \cup {p} ELSE alone \ Acquiring
    /\ UNCHANGED <<path, created, content, flock, opened, attempt, deals, inherited, shared>>

\* Mutant: the file is created exclusively, an existing one counts as busy.
Open_Exclusive(p) ==
    /\ pc[p] = "open"
    /\ IF path # 0
       THEN Goto(p, "probe") /\ UNCHANGED <<path, created, opened>>
       ELSE /\ created < MaxInodes
            /\ created' = created + 1 /\ path' = created + 1
            /\ opened' = [opened EXCEPT ![p] = created + 1]
            /\ Goto(p, "flock")
    /\ UNCHANGED <<content, flock, attempt, deals, history>>

\* os.OpenFile(path, O_CREATE|O_RDWR)
Open(p) ==
    /\ pc[p] = "open"
    /\ \/ /\ path # 0
          /\ opened' = [opened EXCEPT ![p] = path]
          /\ UNCHANGED <<path, created>>
       \/ /\ path = 0 /\ created < MaxInodes
          /\ created' = created + 1 /\ path' = created + 1
          /\ opened' = [opened EXCEPT ![p] = created + 1]
    /\ Goto(p, "flock")
    /\ UNCHANGED <<content, flock, attempt, deals, history>>

\* flock(LOCK_EX|LOCK_NB); a busy lock closes the file again.
Flock(p) ==
    /\ pc[p] = "flock"
    /\ IF flock[opened[p]] = {}
       THEN /\ flock' = [flock EXCEPT ![opened[p]] = {p}]
            /\ Goto(p, "truncate") /\ UNCHANGED opened
       ELSE /\ opened' = [opened EXCEPT ![p] = 0]
            /\ Goto(p, "probe") /\ UNCHANGED flock
    /\ UNCHANGED <<path, created, content, attempt, deals, history>>

\* writeContent's Truncate(0).
Truncate(p) ==
    /\ pc[p] = "truncate"
    /\ content' = [content EXCEPT ![opened[p]] = NoPid]
    /\ Goto(p, "write")
    /\ UNCHANGED <<path, created, flock, opened, attempt, deals, history>>

\* writeContent's own pid; the lock is held.
WritePid(p) ==
    /\ pc[p] = "write"
    /\ content' = [content EXCEPT ![opened[p]] = p]
    /\ Goto(p, "owner") /\ attempt' = [attempt EXCEPT ![p] = 0] /\ alone' = alone \ {p}
    /\ UNCHANGED <<path, created, flock, opened, deals, inherited, shared>>

\* Mutant: content that is no pid counts as a dead owner.
OwnerAlive_Strict == path # 0 /\ content[path] # NoPid /\ Live(content[path])

\* ownerAlive(path): it reads whatever file the path names by now; no file is
\* a dead owner, a file without a pid a live one.
OwnerAlive == path # 0 /\ (content[path] # NoPid => Live(content[path]))

\* The lock is busy: is its owner alive?
Probe(p) ==
    /\ pc[p] = "probe"
    /\ Goto(p, IF OwnerAlive THEN "refused" ELSE "reclaim")
    /\ UNCHANGED <<path, created, content, flock, opened, attempt, deals, history>>

\* os.Remove(path), then one more attempt; after the second, ErrLockHeld.
Reclaim(p) ==
    /\ pc[p] = "reclaim"
    /\ path' = 0
    /\ attempt' = [attempt EXCEPT ![p] = 1 - attempt[p]]
    /\ Goto(p, IF attempt[p] = 0 THEN "open" ELSE "refused")
    /\ UNCHANGED <<created, content, flock, opened, deals, history>>

-----------------------------------------------------------------------------
(* The end of a daemon. *)

\* Mutant: the lock is released with LOCK_UN, which ends it for every process
\* sharing the description.
Release_Unlocks(p) ==
    /\ pc[p] \in {"owner", "retired"}
    /\ flock' = [flock EXCEPT ![opened[p]] = {}]
    /\ opened' = [opened EXCEPT ![p] = 0]
    /\ Goto(p, "dead") /\ Over(Heirs(p))
    /\ UNCHANGED <<path, created, content, attempt, history>>

\* Release closes the file, when Serve returns; its pid stays in the file.
Release(p) ==
    /\ pc[p] \in {"owner", "retired"}
    /\ flock' = [flock EXCEPT ![opened[p]] = @ \ {p}]
    /\ opened' = [opened EXCEPT ![p] = 0]
    /\ Goto(p, "dead") /\ Over(Heirs(p))
    /\ UNCHANGED <<path, created, content, attempt, history>>

\* The process dies wherever it is; the kernel closes its files.
Crash(p) ==
    /\ pc[p] \notin {"new", "dead", "refused"}
    /\ flock' = [f \in Inodes |-> flock[f] \ {p}]
    /\ opened' = [opened EXCEPT ![p] = 0]
    /\ Goto(p, "dead") /\ attempt' = [attempt EXCEPT ![p] = 0] /\ alone' = alone \ {p}
    /\ Over(Heirs(p))
    /\ UNCHANGED <<path, created, content, inherited, shared>>

-----------------------------------------------------------------------------
(* Takeover, as far as the lock is concerned. *)

\* The new processes that have written p their ACK, which p has not read.
Acked(p) == {q \in Heirs(p) : deal[q] = "acked"}

\* performHandover: the old daemon p passes the descriptor of its lock to a new
\* process q.  Nothing keeps a second handover out while one is under way.
SendLock(p, q) ==
    /\ Takeovers /\ pc[p] \in {"owner", "retired"} /\ pc[q] = "new"
    /\ flock' = [flock EXCEPT ![opened[p]] = @ \cup {q}]
    /\ opened' = [opened EXCEPT ![q] = opened[p]]
    /\ donor' = [donor EXCEPT ![q] = p] /\ deal' = [deal EXCEPT ![q] = "sent"]
    /\ Goto(q, "adopting")
    /\ UNCHANGED <<path, created, content, attempt, history>>

\* RequestTakeover writes the ACK while the connection is open, and Adopt takes
\* the lock as it is: nothing is written to the file.
AdoptLock(q) ==
    /\ pc[q] = "adopting" /\ deal[q] = "sent"
    /\ Goto(q, "owner") /\ deal' = [deal EXCEPT ![q] = "acked"]
    /\ shared' = IF pc[donor[q]] = "owner" /\ Acked(donor[q]) = {} THEN shared
                 ELSE shared \cup {opened[q]}
    /\ UNCHANGED <<path, created, content, flock, opened, attempt, donor, inherited, alone>>

\* The old daemon reads the ACK and closes handedOver.  If another ACK has closed
\* it already, p dies of it (Crash).
TakeAck(p, q) ==
    /\ pc[p] = "owner" /\ q \in Acked(p)
    /\ Goto(p, "retired") /\ Over({q})
    /\ inherited' = inherited \cup {q}
    /\ UNCHANGED <<path, created, content, flock, opened, attempt, alone, shared>>

\* Any error before the old daemon has read the ACK, its own deadline among them
\* while the new process is alive: it keeps the lock and goes on, and the
\* connection is closed.  An ACK may be on its way by then.
Rollback(p, q) ==
    /\ q \in Heirs(p) /\ Over({q})
    /\ shared' = IF deal[q] = "acked" THEN shared \cup {opened[p]} ELSE shared
    /\ UNCHANGED <<path, created, content, flock, pc, opened, attempt, inherited, alone>>

\* The new process fails before the ACK, at any time: it exits.
GiveUp(q) ==
    /\ pc[q] = "adopting"
    /\ flock' = [f \in Inodes |-> flock[f] \ {q}]
    /\ opened' = [opened EXCEPT ![q] = 0]
    /\ Goto(q, "dead")
    /\ UNCHANGED <<path, created, content, attempt, deals, history>>

-----------------------------------------------------------------------------
AcquireStep(p) ==
    \/ Open(p) \/ Flock(p) \/ Truncate(p) \/ WritePid(p) \/ Probe(p) \/ Reclaim(p)

\* Every process has settled.
Settled ==
    /\ \A p \in Procs : pc[p] \in {"owner", "refused", "dead"}
    /\ UNCHANGED vars

Next ==
    \/ \E p \in Procs : \/ Start(p) \/ AcquireStep(p) \/ Release(p) \/ Crash(p)
                        \/ AdoptLock(p) \/ GiveUp(p)
    \/ \E p, q \in Procs : SendLock(p, q) \/ TakeAck(p, q) \/ Rollback(p, q)
    \/ Settled

Spec == Init /\ [][Next]_vars

-----------------------------------------------------------------------------
(* Properties. *)

\* Types; a process has the file open exactly while it has use for it.
TypeOK ==
    /\ path \in 0 .. MaxInodes /\ created \in 0 .. MaxInodes
    /\ content \in [Inodes -> Procs \cup {NoPid}]
    /\ flock \in [Inodes -> SUBSET Procs]
    /\ pc \in [Procs -> {"new", "open", "flock", "truncate", "write", "probe", "reclaim",
                         "owner", "adopting", "retired", "refused", "dead"}]
    /\ opened \in [Procs -> 0 .. MaxInodes]
    /\ \A p \in Procs : opened[p] # 0 <=>
           pc[p] \in {"flock", "truncate", "write", "owner", "adopting", "retired"}
    /\ attempt \in [Procs -> 0 .. 1]
    /\ donor \in [Procs -> Procs]
    /\ deal \in [Procs -> {"none", "sent", "acked"}]
    /\ inherited \subseteq Procs /\ alone \subseteq Procs /\ shared \subseteq Inodes

\* The daemons that take themselves for the owner; an old daemon the ACK is on its
\* way to is none any more.
Owners == {p \in Procs : pc[p] = "owner" /\ Acked(p) = {}}

\* A daemon holds its flock as long as it runs, and through a takeover the lock
\* has "no held-by-nobody gap" (flock.go:14): the old daemon closing its copy of
\* the descriptor leaves the new daemon's lock in force, whatever handovers fail
\* or overlap.  No two owners have the same file: where there are two, the path
\* was unlinked under one of them.  Excepted is a file two daemons have come to
\* share: an ACK crossed the old daemon's deadline (takeover.go:261), or was the
\* second one (takeover.go:150-162 keeps no second handover out).
OwnerHolds ==
    /\ \A p \in Procs : pc[p] = "owner" => opened[p] # 0 /\ p \in flock[opened[p]]
    /\ \A p, q \in Owners : opened[p] = opened[q] /\ opened[p] \notin shared => p = q

\* Two daemons never come up together in a home directory where none has died
\* yet, although a starter may look into the file between another's flock and
\* its pid ("On parse errors, treats as alive (safe default)", flock.go:109), and
\* although handovers fail half way.  Excepted are crossed ACKs, as in OwnerHolds.
OneOwnerWhileLive ==
    (\A p \in Procs : pc[p] # "dead") /\ shared = {} => Cardinality(Owners) <= 1

\* "a stale lock left by a killed daemon is detected ... and reclaimed"
\* (flock.go:10): a daemon that starts with nobody else alive, and has no rival
\* while it does, is not refused, whatever state a crash left the file in.
LoneStartSucceeds == \A p \in alone : pc[p] # "refused"

\* "passing the lock fd over SCM_RIGHTS hands the lock to the new daemon"
\* (flock.go:13): a daemon that took over, and that no crossed ACK concerns, is the
\* only owner from then on.
InheritedLockHolds == \A q \in inherited \cap Owners : shared = {} => Owners = {q}
=============================================================================
