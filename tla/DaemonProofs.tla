---------------------------- MODULE DaemonProofs ----------------------------
(***************************************************************************)
(* Daemons hold their locks, each its own, for any set of processes and    *)
(* children: first for the lock alone, then for the daemons over it, every *)
(* step of which is a step of the lock or leaves it alone.                 *)
(***************************************************************************)
EXTENDS Daemon, FiniteSetTheorems, TLAPS

\* Where a process has the locked description open.
Holding == {"truncate", "write", "owner", "adopting", "retired"}

\* A process has the lock for itself.
Exclusive(p) == pc[p] \in {"truncate", "write"} \/ p \in Owners

\* An ACK is on its way to p.
Yielding(p) == \E q \in Procs : donor[q] = p /\ deal[q] = "acked"

\* A process past its flock is among those sharing the lock of its file.
HoldInv == \A p \in Procs : pc[p] \in Holding => p \in flock[opened[p]]

\* Only one process has the lock of a file for itself, unless an ACK was crossed.
ExclusiveInv ==
    \A p, q \in Procs :
        /\ Exclusive(p) /\ Exclusive(q)
        /\ opened[p] = opened[q] /\ opened[p] \notin shared
        => p = q

\* A process that is handed a lock has started, its donor has not ended, and it has
\* its donor's file open until it has the lock or is gone.
HeirInv ==
    \A q \in Procs : deal[q] # "none" =>
        /\ pc[donor[q]] \in {"owner", "retired"} /\ pc[q] # "new"
        /\ pc[q] = "adopting" => opened[q] = opened[donor[q]]

LockInv == HoldInv /\ ExclusiveInv /\ HeirInv

\* Only processes past their flock, and with the file open, share its lock.
SharersInv == \A f \in Inodes : \A p \in flock[f] : pc[p] \in Holding /\ opened[p] = f

\* There is one file, nobody reclaims it, and the pid in it is that of a process
\* that has had the lock.
FirstFile ==
    /\ path = created /\ path <= 1
    /\ \A p \in Procs : /\ opened[p] \in {0, path} /\ pc[p] # "reclaim"
                        /\ pc[p] = "probe" => path = 1
    /\ content[1] # NoPid => pc[content[1]] \in {"owner", "retired"}

\* So it is as long as nobody has died.
NoneDead     == \A p \in Procs : pc[p] # "dead"
FirstFileInv == NoneDead => FirstFile

\* A process that starts alone is the only one that runs, and finds the lock free.
AloneInv ==
    \A p \in alone :
        /\ pc[p] \in {"open", "flock", "truncate", "write"}
        /\ \A q \in Procs \ {p} : pc[q] \in {"new", "dead", "refused"}

StartInv == SharersInv /\ FirstFileInv /\ AloneInv

\* The types of a daemon's own variables.
DTypeOK ==
    /\ srv \in [Procs -> {"none", "listen", "ws", "publish", "serving", "closing", "waiting", "return"}]
    /\ sig \subseteq Procs /\ ln \subseteq Procs /\ crossed \in BOOLEAN
    /\ {sock, port, token, disc} \subseteq Procs \cup {NoPid}
    /\ reg \in [Procs -> SUBSET Kids] /\ flight \in [Procs -> SUBSET Kids]
    /\ live \in [Procs -> SUBSET Kids] /\ kid \in [Kids -> {"none", "running", "dead"}]

\* There is one owner at most, a daemon hands over to one process at a time while it
\* serves, and what each daemon has published at each stage of Serve is still there.
Served ==
    /\ \A p, q \in Owners : p = q
    /\ \A p, q, r \in Procs : q \in Heirs(p) /\ r \in Heirs(p) => q = r
    /\ \A p \in Procs :
         /\ srv[p] # "none" => pc[p] \in {"owner", "retired"}
         /\ Heirs(p) # {} => pc[p] = "owner" /\ srv[p] = "serving"
         /\ pc[p] = "retired" => srv[p] \in {"serving", "return"}
         /\ p \in Owners /\ srv[p] = "listen" => sock = NoPid
         /\ p \in Owners /\ Heirs(p) # {} => sock = NoPid
         /\ p \in Owners /\ Heirs(p) = {} /\ srv[p] \in {"ws", "publish", "serving"} =>
              sock = p /\ p \in ln
         /\ p \in Owners /\ srv[p] \in {"publish", "serving"} /\ p \in WSProcs => port = p /\ token = p
         /\ p \in Owners /\ srv[p] = "serving" => disc = p

\* So it is as long as owners do not cross.
ServeInv == ~crossed => Served

-----------------------------------------------------------------------------
(* The lock. *)

\* A process that has a file open has one of the inodes open.
LEMMA OpenInode ==
  ASSUME TypeOK, NEW p \in Procs, pc[p] \in Holding \cup {"flock"}
  PROVE  opened[p] \in Inodes
BY MaxInodesAssumption DEF TypeOK, Holding, Inodes

\* The end of handovers keeps the types, and the other handovers.
LEMMA OverType ==
  ASSUME TypeOK, NEW D, Over(D)
  PROVE  /\ donor' \in [Procs -> Procs] /\ deal' \in [Procs -> {"none", "sent", "acked"}]
         /\ \A q \in Procs : q \in D => deal'[q] = "none"
         /\ \A q \in Procs : q \notin D => donor'[q] = donor[q] /\ deal'[q] = deal[q]
BY DEF Over, TypeOK

\* A process that ends has nothing open.
LEMMA EndTypes ==
  ASSUME TypeOK, NEW p \in Procs, pc' = [pc EXCEPT ![p] = "dead"], opened' = [opened EXCEPT ![p] = 0]
  PROVE  /\ pc' \in [Procs -> {"new", "open", "flock", "truncate", "write", "probe", "reclaim",
                               "owner", "adopting", "retired", "refused", "dead"}]
         /\ opened' \in [Procs -> 0 .. MaxInodes]
         /\ \A q \in Procs : opened'[q] # 0 <=>
              pc'[q] \in {"flock", "truncate", "write", "owner", "adopting", "retired"}
BY MaxInodesAssumption DEF TypeOK

\* Every step keeps the types.
LEMMA LockTypeNext ==
  ASSUME TypeOK, HeirInv, [Next]_vars
  PROVE  TypeOK'
<1> USE MaxInodesAssumption
<1>1. CASE \E p \in Procs : Start(p)
  BY <1>1 DEF Start, Goto, deals, TypeOK
<1>2. CASE \E p \in Procs : Open(p)
  BY <1>2 DEF Open, Goto, history, deals, TypeOK
<1>3. CASE \E p \in Procs : Flock(p)
  <2> PICK p \in Procs : Flock(p) BY <1>3
  <2>1. opened[p] \in Inodes
    BY OpenInode DEF Flock
  <2> QED BY <2>1 DEF Flock, Goto, history, deals, TypeOK
<1>4. CASE \E p \in Procs : Truncate(p)
  <2> PICK p \in Procs : Truncate(p) BY <1>4
  <2>1. opened[p] \in Inodes
    BY OpenInode DEF Truncate, Holding
  <2> QED BY <2>1 DEF Truncate, Goto, history, deals, TypeOK
<1>5. CASE \E p \in Procs : WritePid(p)
  <2> PICK p \in Procs : WritePid(p) BY <1>5
  <2>1. opened[p] \in Inodes
    BY OpenInode DEF WritePid, Holding
  <2> QED BY <2>1 DEF WritePid, Goto, deals, TypeOK
<1>6. CASE \E p \in Procs : Probe(p)
  BY <1>6 DEF Probe, Goto, history, deals, TypeOK
<1>7. CASE \E p \in Procs : Reclaim(p)
  BY <1>7 DEF Reclaim, Goto, history, deals, TypeOK
<1>8. CASE \E p \in Procs : Release(p)
  <2> PICK p \in Procs : Release(p) BY <1>8
  <2>1. opened[p] \in Inodes
    BY OpenInode DEF Release, Holding
  <2>2. donor' \in [Procs -> Procs] /\ deal' \in [Procs -> {"none", "sent", "acked"}]
    BY OverType DEF Release
  <2>3. flock' \in [Inodes -> SUBSET Procs]
    BY <2>1 DEF Release, TypeOK
  <2>4. /\ pc' = [pc EXCEPT ![p] = "dead"] /\ opened' = [opened EXCEPT ![p] = 0]
        /\ UNCHANGED <<path, created, content, attempt, history>>
    BY DEF Release, Goto
  <2> QED BY <2>2, <2>3, <2>4, EndTypes DEF history, TypeOK
<1>9. CASE \E p \in Procs : Crash(p)
  <2> PICK p \in Procs : Crash(p) BY <1>9
  <2>1. donor' \in [Procs -> Procs] /\ deal' \in [Procs -> {"none", "sent", "acked"}]
    BY OverType DEF Crash
  <2>2. pc[p] # "new" /\ alone' \subseteq Procs
    BY DEF Crash, TypeOK
  <2>3. flock' \in [Inodes -> SUBSET Procs] /\ attempt' \in [Procs -> 0 .. 1]
    BY DEF Crash, TypeOK
  <2>4. /\ pc' = [pc EXCEPT ![p] = "dead"] /\ opened' = [opened EXCEPT ![p] = 0]
        /\ UNCHANGED <<path, created, content, inherited, shared>>
    BY DEF Crash, Goto
  <2> QED BY <2>1, <2>2, <2>3, <2>4, EndTypes DEF TypeOK
<1>10. CASE \E q \in Procs : AdoptLock(q)
  <2> PICK q \in Procs : AdoptLock(q) BY <1>10
  <2>1. opened[q] \in Inodes
    BY OpenInode DEF AdoptLock, Holding
  <2>2. shared' \subseteq Inodes
    BY <2>1 DEF AdoptLock, TypeOK
  <2> QED BY <2>2 DEF AdoptLock, Goto, TypeOK
<1>11. CASE \E p, q \in Procs : TakeAck(p, q) \/ Rollback(p, q)
  <2> PICK p \in Procs, q \in Procs : TakeAck(p, q) \/ Rollback(p, q) BY <1>11
  <2>1. donor' \in [Procs -> Procs] /\ deal' \in [Procs -> {"none", "sent", "acked"}]
    BY OverType DEF TakeAck, Rollback
  <2>2. CASE TakeAck(p, q)
    BY <2>1, <2>2 DEF TakeAck, Goto, TypeOK
  <2>3. CASE Rollback(p, q)
    <3>1. opened[p] \in Inodes
      BY <2>3, OpenInode DEF Rollback, Heirs, HeirInv, Holding, TypeOK
    <3>2. shared' \subseteq Inodes
      BY <2>3, <3>1 DEF Rollback, TypeOK
    <3> QED BY <2>1, <2>3, <3>2 DEF Rollback, TypeOK
  <2> QED BY <2>2, <2>3
<1>12. CASE \E p \in Procs : GiveUp(p)
  BY <1>12 DEF GiveUp, Goto, history, deals, TypeOK
<1>13. CASE \E p, q \in Procs : SendLock(p, q)
  <2> PICK p \in Procs, q \in Procs : SendLock(p, q) BY <1>13
  <2>1. opened[p] \in Inodes
    BY OpenInode DEF SendLock, Holding
  <2> QED BY <2>1 DEF SendLock, Goto, history, Inodes, TypeOK
<1>14. CASE UNCHANGED vars
  BY <1>14 DEF vars, TypeOK
<1> QED
  BY <1>1, <1>2, <1>3, <1>4, <1>5, <1>6, <1>7, <1>8, <1>9, <1>10, <1>11, <1>12, <1>13, <1>14
     DEF Next, AcquireStep, Settled

\* An owner is one no ACK is on its way to.
LEMMA OwnerMeans == \A p \in Procs : p \in Owners <=> pc[p] = "owner" /\ ~Yielding(p)
BY DEF Owners, Acked, Heirs, Yielding

\* Nothing that starts or is gone is handed anything, or hands anything over.
LEMMA Uninvolved ==
  ASSUME TypeOK, HeirInv, NEW p \in Procs, pc[p] \notin {"owner", "retired"}
  PROVE  /\ \A q \in Procs : deal[q] # "none" => donor[q] # p
         /\ pc[p] = "new" => deal[p] = "none"
BY DEF HeirInv, TypeOK

\* Where no process gets the lock for itself and handovers go on as they were, and
\* every file is the one it was, the locks stay.
LEMMA ExclusiveKept ==
  ASSUME TypeOK, ExclusiveInv, shared \subseteq shared',
         \A p \in Procs : pc'[p] \in {"truncate", "write"} =>
                            pc[p] \in {"truncate", "write"} /\ opened'[p] = opened[p],
         \A p \in Procs : pc'[p] = "owner" /\ ~Yielding(p)' =>
                            Exclusive(p) /\ opened'[p] = opened[p]
  PROVE  ExclusiveInv'
<1>1. \A p \in Procs : Exclusive(p)' => Exclusive(p) /\ opened'[p] = opened[p]
  <2> TAKE p \in Procs
  <2>1. p \in Owners' => pc'[p] = "owner" /\ ~Yielding(p)'
    BY DEF Owners, Acked, Heirs, Yielding
  <2> QED BY <2>1 DEF Exclusive
<1> QED BY <1>1 DEF ExclusiveInv

\* Every step keeps the locks.  The flock itself succeeds only on a file whose
\* lock nobody shares, so nobody has it for himself; an heir has its donor's file,
\* and the donor counts no more as the heir takes it.
LEMMA LockNext ==
  ASSUME TypeOK, LockInv, [Next]_vars
  PROVE  LockInv'
<1> USE DEF LockInv
<1>0. TypeOK' BY LockTypeNext
<1>1. ASSUME NEW p \in Procs, Start(p) \/ Open(p) \/ Truncate(p) \/ WritePid(p) \/ Probe(p) \/ Reclaim(p) \/ Flock(p)
      PROVE  HeirInv'
  <2>1. /\ pc[p] \notin {"owner", "retired", "adopting"} /\ pc'[p] \notin {"new", "adopting"}
        /\ UNCHANGED <<donor, deal>>
        /\ \A q \in Procs : q # p => pc'[q] = pc[q] /\ opened'[q] = opened[q]
    BY <1>1 DEF Start, Open, Truncate, WritePid, Probe, Reclaim, Flock, Goto, deals, TypeOK
  <2> QED BY <2>1, Uninvolved DEF HeirInv, TypeOK
<1>2. ASSUME NEW p \in Procs, Start(p) \/ Open(p) \/ Truncate(p) \/ WritePid(p) \/ Probe(p) \/ Reclaim(p)
      PROVE  LockInv'
  <2>1. HoldInv'
    BY <1>2 DEF Start, Open, Truncate, WritePid, Probe, Reclaim, Goto, TypeOK, HoldInv, Holding
  <2>2. /\ UNCHANGED <<donor, deal, shared>>
        /\ \A q \in Procs : q # p => pc'[q] = pc[q] /\ opened'[q] = opened[q]
        /\ pc'[p] \in {"truncate", "write", "owner"} =>
             pc[p] \in {"truncate", "write"} /\ opened'[p] = opened[p]
        /\ pc'[p] \in {"truncate", "write"} => pc[p] \in {"truncate", "write"}
    BY <1>2 DEF Start, Open, Truncate, WritePid, Probe, Reclaim, Goto, deals, history, TypeOK
  <2>3. \A q \in Procs : Yielding(q)' = Yielding(q)
    BY <2>2 DEF Yielding
  <2>4. ExclusiveInv'
    BY <2>2, <2>3, ExclusiveKept, OwnerMeans DEF Exclusive
  <2> QED BY <1>1, <1>2, <2>1, <2>4
<1>3. ASSUME NEW p \in Procs, Flock(p) PROVE LockInv'
  <2>1. opened[p] \in Inodes /\ pc[p] = "flock"
    BY <1>3, OpenInode DEF Flock
  <2>2. CASE flock[opened[p]] = {}
    <3>1. \A q \in Procs : pc[q] \in Holding => opened[q] # opened[p]
      BY <2>2 DEF HoldInv
    <3>2. /\ flock' = [flock EXCEPT ![opened[p]] = {p}] /\ UNCHANGED <<opened, donor, deal, shared>>
          /\ pc' = [pc EXCEPT ![p] = "truncate"]
      BY <1>3, <2>2 DEF Flock, Goto, deals, history
    <3>3. HoldInv'
      BY <2>1, <3>1, <3>2, OpenInode DEF HoldInv, Holding, TypeOK
    <3>4. \A q \in Procs : Exclusive(q)' => q = p \/ (Exclusive(q) /\ pc[q] \in Holding)
      BY <3>2 DEF Exclusive, Owners, Acked, Heirs, Holding, TypeOK
    <3>5. ExclusiveInv'
      BY <3>1, <3>2, <3>4 DEF ExclusiveInv
    <3> QED BY <1>1, <1>3, <3>3, <3>5
  <2>3. CASE flock[opened[p]] # {}
    <3>1. pc' = [pc EXCEPT ![p] = "probe"] /\ opened' = [opened EXCEPT ![p] = 0] /\ UNCHANGED <<flock, donor, deal, shared>>
      BY <1>3, <2>3 DEF Flock, Goto, deals, history
    <3>2. HoldInv'
      BY <3>1 DEF HoldInv, Holding, TypeOK
    <3>3. \A q \in Procs : Yielding(q)' = Yielding(q)
      BY <3>1 DEF Yielding
    <3>4. ExclusiveInv'
      BY <3>1, <3>3, ExclusiveKept, OwnerMeans DEF Exclusive, TypeOK
    <3> QED BY <1>1, <1>3, <3>2, <3>4
  <2> QED BY <2>2, <2>3
<1>4. ASSUME NEW p \in Procs, Release(p) \/ Crash(p) \/ GiveUp(p) PROVE LockInv'
  <2>1. /\ pc' = [pc EXCEPT ![p] = "dead"] /\ opened' = [opened EXCEPT ![p] = 0] /\ shared' = shared
        /\ Over(Heirs(p)) \/ (UNCHANGED <<donor, deal>> /\ pc[p] = "adopting")
        /\ pc[p] # "new"
    BY <1>4 DEF Release, Crash, GiveUp, Goto, deals, history
  <2>2. \A f \in Inodes : flock[f] \ {p} \subseteq flock'[f]
    BY <1>4 DEF Release, Crash, GiveUp, TypeOK
  <2>3. HoldInv'
    BY <2>1, <2>2, OpenInode DEF HoldInv, Holding, TypeOK
  <2>4. \A q \in Procs : deal'[q] # "none" => donor'[q] # p /\ donor'[q] = donor[q] /\ deal'[q] = deal[q]
    BY <2>1, OverType, Uninvolved DEF Heirs
  <2>5. \A q \in Procs : deal[q] # "none" /\ donor[q] # p => donor'[q] = donor[q] /\ deal'[q] = deal[q]
    BY <2>1, OverType DEF Heirs
  <2>6. HeirInv'
    BY <2>1, <2>4 DEF HeirInv, TypeOK
  <2>7. \A q \in Procs : q # p /\ Yielding(q) => Yielding(q)'
    BY <2>5 DEF Yielding
  <2>8. ExclusiveInv'
    BY <2>1, <2>7, ExclusiveKept, OwnerMeans DEF Exclusive, TypeOK
  <2> QED BY <2>3, <2>6, <2>8
<1>5. ASSUME NEW q \in Procs, AdoptLock(q) PROVE LockInv'
  <2>1. PICK d \in Procs : d = donor[q]
    BY DEF TypeOK
  <2>2. /\ pc[q] = "adopting" /\ deal[q] = "sent" /\ pc' = [pc EXCEPT ![q] = "owner"]
        /\ deal' = [deal EXCEPT ![q] = "acked"] /\ UNCHANGED <<flock, opened, donor>>
        /\ shared' = IF pc[d] = "owner" /\ Acked(d) = {} THEN shared ELSE shared \cup {opened[q]}
    BY <1>5, <2>1 DEF AdoptLock, Goto
  <2>3. opened[q] = opened[d] /\ pc[d] \in {"owner", "retired"} /\ d # q
    BY <2>1, <2>2 DEF HeirInv
  <2>4. HoldInv' /\ HeirInv'
    BY <2>1, <2>2, <2>3 DEF HoldInv, HeirInv, Holding, TypeOK
  <2>5. \A p \in Procs : Yielding(p) => Yielding(p)'
    BY <2>2 DEF Yielding, TypeOK
  <2>6. Yielding(d)'
    BY <2>1, <2>2 DEF Yielding, TypeOK
  <2>7. \A p \in Procs : Exclusive(p)' => p # d /\ (p = q \/ Exclusive(p))
    <3> TAKE p \in Procs
    <3>1. p \in Owners' => pc'[p] = "owner" /\ ~Yielding(p)'
      BY DEF Owners, Acked, Heirs, Yielding
    <3>2. pc'[d] \notin {"truncate", "write"}
      BY <2>2, <2>3 DEF TypeOK
    <3> QED BY <2>2, <2>5, <2>6, <3>1, <3>2, OwnerMeans DEF Exclusive, TypeOK
  <2>8. CASE pc[d] = "owner" /\ Acked(d) = {}
    <3>1. Exclusive(d) /\ shared' = shared
      BY <2>2, <2>8 DEF Exclusive, Owners
    <3> QED BY <2>2, <2>3, <2>4, <2>7, <3>1 DEF ExclusiveInv
  <2>9. CASE ~(pc[d] = "owner" /\ Acked(d) = {})
    <3>1. shared' = shared \cup {opened[q]}
      BY <2>2, <2>9
    <3> QED BY <2>2, <2>4, <2>7, <3>1 DEF ExclusiveInv
  <2> QED BY <2>8, <2>9
<1>6. ASSUME NEW p \in Procs, NEW q \in Procs, TakeAck(p, q) PROVE LockInv'
  <2>1. /\ pc' = [pc EXCEPT ![p] = "retired"] /\ UNCHANGED <<flock, opened, shared>>
        /\ pc[p] = "owner" /\ Over({q}) /\ donor[q] = p
    BY <1>6 DEF TakeAck, Goto, Acked, Heirs
  <2>2. HoldInv' /\ HeirInv'
    BY <2>1, OverType DEF HoldInv, HeirInv, Holding, TypeOK
  <2>3. \A r \in Procs : r # p /\ Yielding(r) => Yielding(r)'
    BY <2>1, OverType DEF Yielding
  <2>4. ExclusiveInv'
    BY <2>1, <2>3, ExclusiveKept, OwnerMeans DEF Exclusive, TypeOK
  <2> QED BY <2>2, <2>4
<1>7. ASSUME NEW p \in Procs, NEW q \in Procs, Rollback(p, q) PROVE LockInv'
  <2>1. /\ UNCHANGED <<flock, opened, pc>> /\ Over({q}) /\ donor[q] = p
        /\ shared' = IF deal[q] = "acked" THEN shared \cup {opened[p]} ELSE shared
    BY <1>7 DEF Rollback, Heirs
  <2>2. HoldInv' /\ HeirInv'
    BY <2>1, OverType DEF HoldInv, HeirInv, Holding, TypeOK
  <2>3. \A r \in Procs : Yielding(r) /\ (r # p \/ deal[q] # "acked") => Yielding(r)'
    BY <2>1, OverType DEF Yielding
  <2>4. \A r \in Procs : Exclusive(r)' => Exclusive(r) \/ (r = p /\ opened[p] \in shared')
    <3> TAKE r \in Procs
    <3>1. r \in Owners' => pc'[r] = "owner" /\ ~Yielding(r)'
      BY DEF Owners, Acked, Heirs, Yielding
    <3> QED BY <2>1, <2>3, <3>1, OwnerMeans DEF Exclusive
  <2>5. ExclusiveInv'
    BY <2>1, <2>4 DEF ExclusiveInv
  <2> QED BY <2>2, <2>5
<1>8. ASSUME NEW p \in Procs, NEW q \in Procs, SendLock(p, q) PROVE LockInv'
  <2>1. /\ p # q /\ pc[p] \in {"owner", "retired"} /\ pc[q] = "new"
        /\ pc' = [pc EXCEPT ![q] = "adopting"]
        /\ opened' = [opened EXCEPT ![q] = opened[p]] /\ shared' = shared
        /\ donor' = [donor EXCEPT ![q] = p] /\ deal' = [deal EXCEPT ![q] = "sent"]
        /\ flock' = [flock EXCEPT ![opened[p]] = @ \cup {q}]
    BY <1>8 DEF SendLock, Goto, history
  <2>2. opened[p] \in Inodes
    BY <2>1, OpenInode DEF Holding
  <2>3. HoldInv'
    BY <2>1, <2>2, OpenInode DEF HoldInv, Holding, TypeOK
  <2>4. deal[q] = "none" /\ \A r \in Procs : deal[r] # "none" => donor[r] # q
    BY <2>1, Uninvolved
  <2>5. HeirInv'
    BY <2>1, <2>4 DEF HeirInv, TypeOK
  <2>6. \A r \in Procs : Yielding(r) => Yielding(r)'
    BY <2>1, <2>4 DEF Yielding, TypeOK
  <2>7. ExclusiveInv'
    BY <2>1, <2>6, ExclusiveKept, OwnerMeans DEF Exclusive, TypeOK
  <2> QED BY <2>3, <2>5, <2>7
<1>9. CASE UNCHANGED vars
  <2>1. UNCHANGED <<pc, opened, flock, donor, deal, shared>>
    BY <1>9 DEF vars
  <2>2. Owners' = Owners
    BY <2>1 DEF Owners, Acked, Heirs
  <2> QED BY <2>1, <2>2 DEF HoldInv, ExclusiveInv, Exclusive, HeirInv
<1> QED
  BY <1>2, <1>3, <1>4, <1>5, <1>6, <1>7, <1>8, <1>9 DEF Next, AcquireStep, Settled

-----------------------------------------------------------------------------
(* Starting. *)

\* Every step keeps the sharers of a lock: a process joins them by its flock or by
\* the descriptor it is sent and leaves them when it closes the file.
LEMMA SharersNext ==
  ASSUME TypeOK, SharersInv, [Next]_vars
  PROVE  SharersInv'
<1>0. \A f \in Inodes : flock[f] \subseteq Procs
  BY DEF TypeOK
<1>1. CASE \E p \in Procs : Start(p) \/ Open(p) \/ Truncate(p) \/ WritePid(p) \/ Probe(p) \/ Reclaim(p)
  BY <1>0, <1>1 DEF Start, Open, Truncate, WritePid, Probe, Reclaim, Goto, SharersInv, Holding, TypeOK
<1>2. CASE \E p \in Procs : Flock(p)
  <2> PICK p \in Procs : Flock(p) BY <1>2
  <2>1. opened[p] \in Inodes /\ pc[p] = "flock"
    BY OpenInode DEF Flock
  <2> QED BY <1>0, <2>1 DEF Flock, Goto, SharersInv, Holding, TypeOK
<1>3. CASE \E p \in Procs : Release(p) \/ Crash(p) \/ GiveUp(p)
  <2> PICK p \in Procs : Release(p) \/ Crash(p) \/ GiveUp(p) BY <1>3
  <2>1. pc' = [pc EXCEPT ![p] = "dead"] /\ opened' = [opened EXCEPT ![p] = 0]
    BY DEF Release, Crash, GiveUp, Goto
  <2>2. \A f \in Inodes : flock'[f] \subseteq flock[f] \ {p}
    BY DEF Release, Crash, GiveUp, SharersInv, TypeOK
  <2> QED BY <1>0, <2>1, <2>2 DEF SharersInv, TypeOK
<1>4. CASE \E p, q \in Procs : AdoptLock(p) \/ TakeAck(p, q) \/ Rollback(p, q)
  BY <1>0, <1>4 DEF AdoptLock, TakeAck, Rollback, Goto, SharersInv, Holding, TypeOK
<1>5. CASE \E p, q \in Procs : SendLock(p, q)
  <2> PICK p \in Procs, q \in Procs : SendLock(p, q) BY <1>5
  <2>1. /\ p # q /\ pc[q] = "new" /\ pc' = [pc EXCEPT ![q] = "adopting"]
        /\ opened' = [opened EXCEPT ![q] = opened[p]]
        /\ flock' = [flock EXCEPT ![opened[p]] = @ \cup {q}]
    BY DEF SendLock, Goto
  <2>2. \A f \in Inodes : q \notin flock[f]
    BY <2>1 DEF SharersInv, Holding
  <2> QED BY <1>0, <2>1, <2>2 DEF SharersInv, Holding, TypeOK
<1>6. CASE UNCHANGED vars
  BY <1>6 DEF vars, SharersInv
<1> QED BY <1>1, <1>2, <1>3, <1>4, <1>5, <1>6 DEF Next, AcquireStep, Settled

\* Every step keeps the first file, unless a process dies: whoever finds its lock
\* busy finds the pid of a live process in it, or none yet.
LEMMA FirstFileNext ==
  ASSUME TypeOK, FirstFileInv, [Next]_vars
  PROVE  FirstFileInv'
<1> SUFFICES ASSUME \A p \in Procs : pc'[p] # "dead"
             PROVE  FirstFile'
  BY DEF FirstFileInv, NoneDead
<1>00. 1 \in Inodes /\ created \in Nat /\ path \in Nat
  BY MaxInodesAssumption DEF Inodes, TypeOK
<1>0. \A p \in Procs : pc[p] # "dead"
  <2>1. ASSUME NEW q \in Procs,
               Start(q) \/ AcquireStep(q) \/ Release(q) \/ Crash(q) \/ AdoptLock(q) \/ GiveUp(q)
        PROVE  \A p \in Procs : pc[p] # "dead"
    BY <2>1 DEF AcquireStep, Start, Open, Flock, Truncate, WritePid, Probe, Reclaim,
                Release, Crash, AdoptLock, GiveUp, Goto, TypeOK
  <2>2. ASSUME NEW q \in Procs, NEW r \in Procs, SendLock(q, r) \/ TakeAck(q, r) \/ Rollback(q, r)
        PROVE  \A p \in Procs : pc[p] # "dead"
    BY <2>2 DEF SendLock, TakeAck, Rollback, Goto, TypeOK
  <2>3. CASE UNCHANGED vars
    BY <2>3 DEF vars
  <2> QED BY <2>1, <2>2, <2>3 DEF Next, Settled
<1>1. FirstFile
  BY <1>0 DEF FirstFileInv, NoneDead
<1> USE <1>1 DEF FirstFile
<1>2. CASE \E p \in Procs : Start(p)
  BY <1>2 DEF Start, Goto, TypeOK
<1>3. CASE \E p \in Procs : Open(p)
  <2> PICK p \in Procs : Open(p) BY <1>3
  <2> QED BY <1>00 DEF Open, Goto, TypeOK
<1>4. CASE \E p \in Procs : Flock(p)
  <2> PICK p \in Procs : Flock(p) BY <1>4
  <2>1. opened[p] \in Inodes /\ pc[p] = "flock"
    BY OpenInode DEF Flock
  <2>2. opened[p] = path /\ path = 1
    BY <1>00, <2>1 DEF Inodes
  <2> QED BY <2>1, <2>2 DEF Flock, Goto, TypeOK
<1>5. CASE \E p \in Procs : Truncate(p)
  <2> PICK p \in Procs : Truncate(p) BY <1>5
  <2>1. opened[p] \in Inodes /\ pc[p] = "truncate"
    BY OpenInode DEF Truncate, Holding
  <2>2. opened[p] = 1
    BY <1>00, <2>1 DEF Inodes
  <2> QED BY <1>00, <2>2 DEF Truncate, Goto, TypeOK
<1>6. CASE \E p \in Procs : WritePid(p)
  <2> PICK p \in Procs : WritePid(p) BY <1>6
  <2>1. opened[p] \in Inodes /\ pc[p] = "write"
    BY OpenInode DEF WritePid, Holding
  <2>2. opened[p] = 1
    BY <1>00, <2>1 DEF Inodes
  <2>3. content'[1] = p /\ pc'[p] = "owner"
    BY <1>00, <2>2 DEF WritePid, Goto, TypeOK
  <2> QED BY <2>3 DEF WritePid, Goto, TypeOK
<1>7. CASE \E p \in Procs : Probe(p)
  <2> PICK p \in Procs : Probe(p) BY <1>7
  <2>1. OwnerAlive
    BY DEF Probe, OwnerAlive, Live
  <2> QED BY <2>1 DEF Probe, Goto, TypeOK
<1>8. CASE \E p \in Procs : Reclaim(p)
  BY <1>8 DEF Reclaim
<1>9. CASE \E p \in Procs : Release(p) \/ Crash(p) \/ GiveUp(p)
  BY <1>9 DEF Release, Crash, GiveUp, Goto, TypeOK
<1>10. CASE \E p, q \in Procs : AdoptLock(p) \/ TakeAck(p, q) \/ Rollback(p, q)
  <2>1. UNCHANGED <<path, created, content, opened>>
    BY <1>10 DEF AdoptLock, TakeAck, Rollback
  <2>2. \A q \in Procs : /\ pc'[q] # "reclaim"
                         /\ pc'[q] # "probe" \/ pc[q] = "probe"
                         /\ pc[q] \in {"owner", "retired"} => pc'[q] \in {"owner", "retired"}
    BY <1>10 DEF AdoptLock, TakeAck, Rollback, Goto, TypeOK
  <2>3. content[1] \in Procs \cup {NoPid}
    BY <1>00 DEF TypeOK
  <2> QED BY <2>1, <2>2, <2>3
<1>12. CASE \E p, q \in Procs : SendLock(p, q)
  <2> PICK p \in Procs, q \in Procs : SendLock(p, q) BY <1>12
  <2>1. /\ pc[q] = "new" /\ pc' = [pc EXCEPT ![q] = "adopting"]
        /\ opened' = [opened EXCEPT ![q] = opened[p]]
        /\ UNCHANGED <<path, created, content>>
    BY DEF SendLock, Goto
  <2>2. \A r \in Procs : /\ pc'[r] # "reclaim"
                         /\ pc'[r] # "probe" \/ pc[r] = "probe"
                         /\ pc[r] \in {"owner", "retired"} => pc'[r] \in {"owner", "retired"}
    BY <2>1 DEF TypeOK
  <2>3. content[1] \in Procs \cup {NoPid}
    BY <1>00 DEF TypeOK
  <2>4. \A r \in Procs : opened'[r] \in {0, path}
    BY <2>1 DEF TypeOK
  <2> QED BY <2>1, <2>2, <2>3, <2>4
<1>13. CASE UNCHANGED vars
  BY <1>13 DEF vars
<1> QED
  BY <1>2, <1>3, <1>4, <1>5, <1>6, <1>7, <1>8, <1>9, <1>10, <1>12, <1>13
     DEF Next, AcquireStep, Settled

\* Every step keeps a lone starter's way free: whatever file a crash left, nobody
\* shares its lock.
LEMMA AloneNext ==
  ASSUME TypeOK, SharersInv, AloneInv, [Next]_vars
  PROVE  AloneInv'
<1> SUFFICES ASSUME NEW p \in alone'
             PROVE  /\ pc'[p] \in {"open", "flock", "truncate", "write"}
                    /\ \A q \in Procs \ {p} : pc'[q] \in {"new", "dead", "refused"}
  BY DEF AloneInv
<1>0. ASSUME p \in alone
      PROVE  /\ p \in Procs /\ pc[p] \in {"open", "flock", "truncate", "write"}
             /\ \A q \in Procs \ {p} : pc[q] \in {"new", "dead", "refused"}
  BY <1>0 DEF AloneInv, TypeOK
<1> DEFINE Goal == /\ pc'[p] \in {"open", "flock", "truncate", "write"}
                   /\ \A q \in Procs \ {p} : pc'[q] \in {"new", "dead", "refused"}
<1>1. ASSUME NEW q \in Procs, Start(q) PROVE Goal
  <2>1. pc[q] = "new" /\ pc' = [pc EXCEPT ![q] = "open"]
    BY <1>1 DEF Start, Goto
  <2>2. CASE \A r \in Procs \ {q} : pc[r] \in {"new", "dead", "refused"}
    <3>1. p = q
      BY <1>0, <1>1, <2>1, <2>2 DEF Start
    <3> QED BY <2>1, <2>2, <3>1 DEF TypeOK
  <2>3. CASE ~\A r \in Procs \ {q} : pc[r] \in {"new", "dead", "refused"}
    <3>1. p \in alone /\ p \notin Acquiring
      BY <1>1, <2>3 DEF Start
    <3> QED BY <1>0, <3>1 DEF Acquiring
  <2> QED BY <2>2, <2>3
<1>2. ASSUME NEW q \in Procs, Open(q) \/ Truncate(q) PROVE Goal
  BY <1>0, <1>2 DEF Open, Truncate, Goto, history, deals, TypeOK
<1>3. ASSUME NEW q \in Procs, Flock(q) PROVE Goal
  <2>1. p \in alone /\ opened[q] \in Inodes /\ pc[q] = "flock"
    BY <1>3, OpenInode DEF Flock, history
  <2>2. p = q
    BY <1>0, <2>1
  <2>3. flock[opened[q]] = {}
    BY <1>0, <2>1, <2>2 DEF SharersInv, Holding, TypeOK
  <2> QED BY <1>0, <1>3, <2>1, <2>2, <2>3 DEF Flock, Goto, TypeOK
<1>4. ASSUME NEW q \in Procs, WritePid(q) \/ Crash(q) PROVE Goal
  <2>1. p \in alone /\ p # q
    BY <1>4 DEF WritePid, Crash
  <2> QED BY <1>0, <1>4, <2>1 DEF WritePid, Crash, Goto, TypeOK
<1>5. ASSUME NEW q \in Procs, Probe(q) \/ Reclaim(q) PROVE Goal
  BY <1>0, <1>5 DEF Probe, Reclaim, history
<1>6. ASSUME NEW q \in Procs, Release(q) \/ AdoptLock(q) \/ GiveUp(q) PROVE Goal
  BY <1>0, <1>6 DEF Release, AdoptLock, GiveUp, history
<1>7. ASSUME NEW q \in Procs, NEW r \in Procs, SendLock(q, r) \/ TakeAck(q, r) \/ Rollback(q, r) PROVE Goal
  BY <1>0, <1>7 DEF SendLock, TakeAck, Rollback, history
<1>8. CASE UNCHANGED vars
  BY <1>0, <1>8 DEF vars
<1> QED
  BY <1>1, <1>2, <1>3, <1>4, <1>5, <1>6, <1>7, <1>8 DEF Next, AcquireStep, Settled

\* Where only one process can be, at most one is.
LEMMA AtMostOne ==
  ASSUME NEW S, \A p, q \in S : p = q
  PROVE  Cardinality(S) <= 1
<1>1. CASE S = {}
  BY <1>1, FS_EmptySet
<1>2. CASE S # {}
  <2>1. PICK p : p \in S BY <1>2
  <2>2. S = {p} BY <2>1
  <2>3. Cardinality(S) = 1
    BY <2>2, FS_Singleton
  <2> QED BY <2>3
<1> QED BY <1>1, <1>2

-----------------------------------------------------------------------------
(* The daemons. *)

\* A home directory no daemon has run in yet has no locks.
LEMMA LockInit == Init => TypeOK /\ LockInv
BY MaxInodesAssumption
   DEF Init, TypeOK, LockInv, HoldInv, ExclusiveInv, HeirInv, Holding, Exclusive, Owners, Inodes

\* What the invariant says of the owners.
LEMMA OwnersHold == TypeOK /\ LockInv => OwnerHolds
<1>1. ASSUME TypeOK, LockInv PROVE \A p \in Procs : pc[p] = "owner" => opened[p] # 0 /\ p \in flock[opened[p]]
  BY <1>1 DEF TypeOK, LockInv, HoldInv, Holding
<1>2. ASSUME LockInv
      PROVE  \A p, q \in Owners : opened[p] = opened[q] /\ opened[p] \notin shared => p = q
  BY <1>2 DEF LockInv, ExclusiveInv, Exclusive, Owners
<1> QED BY <1>1, <1>2 DEF OwnerHolds

\* Every step of a daemon is a step of the lock or leaves the lock alone.
LEMMA DaemonStepIsLockStep == [DNext]_dvars => [Next]_vars
<1> SUFFICES ASSUME [DNext]_dvars PROVE [Next]_vars OBVIOUS
<1>1. CASE \E p \in Procs : Acquires(p)
  BY <1>1 DEF Acquires, Next
<1>2. CASE \E p \in Procs : ServeStep(p)
  <2> PICK p \in Procs : ServeStep(p) BY <1>2
  <2>1. CASE RemoveStale(p) \/ Listen(p) \/ BindWS(p) \/ NoWS(p) \/ WriteDiscovery(p)
    BY <2>1 DEF RemoveStale, Listen, BindWS, NoWS, WriteDiscovery
  <2>2. CASE Stop(p) \/ StopSessions(p) \/ RemoveFiles(p) \/ Retire(p)
    BY <2>2 DEF Stop, StopSessions, RemoveFiles, Retire
  <2>3. CASE Exit(p)
    BY <2>3 DEF Exit, Next
  <2>4. CASE \E k \in Kids : Escalate(p, k) \/ SessionDone(p, k) \/ SpawnEnd(p, k)
    BY <2>4 DEF Escalate, SessionDone, SpawnEnd
  <2> QED BY <2>1, <2>2, <2>3, <2>4 DEF ServeStep
<1>3. CASE \E p \in Procs : Acknowledge(p) \/ GivesUp(p)
  BY <1>3 DEF Acknowledge, GivesUp, Next
<1>4. CASE \E p \in Procs : Signal(p) \/ Dies(p)
  BY <1>4 DEF Signal, Dies, Next
<1>5. CASE \E p \in Procs, k \in Kids : SpawnBegin(p, k)
  BY <1>5 DEF SpawnBegin
<1>6. CASE \E p, q \in Procs : HandOver(p, q) \/ HandedOver(p, q) \/ RollBack(p, q)
  BY <1>6 DEF HandOver, HandedOver, RollBack, Next
<1>7. CASE \E k \in Kids : ChildExit(k)
  BY <1>7 DEF ChildExit
<1>8. CASE Finished \/ UNCHANGED dvars
  BY <1>8 DEF Finished, dvars
<1> QED BY <1>1, <1>2, <1>3, <1>4, <1>5, <1>6, <1>7, <1>8 DEF DNext

\* The lock's variables keep their types in every daemon (flock.go, daemon.go
\* Serve), and the locks are what LockInv says.
THEOREM DaemonLocks == DSpec => [](TypeOK /\ LockInv)
<1>1. DInit => TypeOK /\ LockInv
  BY LockInit DEF DInit
<1>2. TypeOK /\ LockInv /\ [DNext]_dvars => TypeOK' /\ LockInv'
  BY DaemonStepIsLockStep, LockTypeNext, LockNext DEF LockInv
<1> QED BY <1>1, <1>2, PTL DEF DSpec

\* A daemon holds the flock of the file it opened as long as it runs, through
\* takeovers, rollbacks with the new process alive or dead, overlapping handovers and
\* the end of the daemon it took over from, and no two have the lock of one file
\* unless an ACK has crossed the old daemon's deadline or was a second one (Acquire,
\* Adopt and Release in flock.go, performHandover in takeover.go).
THEOREM OwnersHoldAlways == DSpec => []OwnerHolds
<1>1. DSpec => [](TypeOK /\ LockInv)
  BY DaemonLocks
<1>2. TypeOK /\ LockInv => OwnerHolds
  BY OwnersHold
<1> QED BY <1>1, <1>2, PTL

\* The daemons use the lock as its module says: whatever is shown of the lock's
\* steps holds of them (Serve in daemon.go calls nothing else of processlock).
THEOREM DaemonImplementsLock == DSpec => Spec
<1>1. DInit => Init
  BY DEF DInit
<1>2. [DNext]_dvars => [Next]_vars
  BY DaemonStepIsLockStep
<1> QED BY <1>1, <1>2, PTL DEF DSpec, Spec

\* The start of a daemon is what StartInv says.
THEOREM DaemonStarts == DSpec => []StartInv
<1>1. DInit => StartInv
  BY MaxInodesAssumption DEF DInit, Init, StartInv, SharersInv, FirstFileInv, FirstFile, AloneInv, Inodes
<1>2. TypeOK /\ StartInv /\ [DNext]_dvars => StartInv'
  BY DaemonStepIsLockStep, SharersNext, FirstFileNext, AloneNext DEF StartInv
<1> QED BY <1>1, <1>2, DaemonLocks, PTL DEF DSpec

\* Two daemons never come up together in a home directory where none has died, nor
\* by a handover that fails half way, unless an ACK has crossed the old daemon's
\* deadline or was a second one (tryAcquire and ownerAlive in flock.go,
\* performHandover in takeover.go).
THEOREM OneOwnerAlways == DSpec => []OneOwnerWhileLive
<1>1. TypeOK /\ LockInv /\ StartInv => OneOwnerWhileLive
  <2> SUFFICES ASSUME TypeOK, LockInv, StartInv, \A p \in Procs : pc[p] # "dead", shared = {}
               PROVE  Cardinality(Owners) <= 1
    BY DEF OneOwnerWhileLive
  <2>0. FirstFile
    BY DEF StartInv, FirstFileInv, NoneDead
  <2>1. \A p \in Owners : p \in Procs /\ opened[p] = path
    BY <2>0 DEF FirstFile, Owners, TypeOK
  <2>2. \A p, q \in Owners : p = q
    BY <2>1 DEF LockInv, ExclusiveInv, Exclusive, Owners
  <2> QED BY <2>2, AtMostOne
<1> QED BY <1>1, DaemonLocks, DaemonStarts, PTL

\* A daemon that starts alone is not refused, whatever a crash left behind
\* (Acquire in flock.go).
THEOREM LoneStartAlways == DSpec => []LoneStartSucceeds
<1>1. StartInv => LoneStartSucceeds
  BY DEF StartInv, AloneInv, LoneStartSucceeds
<1> QED BY <1>1, DaemonStarts, PTL

-----------------------------------------------------------------------------
(* Serving. *)

\* Every step keeps the types of the daemon's variables.
LEMMA DTypeNext ==
  ASSUME TypeOK, DTypeOK, [DNext]_dvars
  PROVE  DTypeOK'
<1> USE DEF DTypeOK, files, kids
<1>1. ASSUME NEW p \in Procs, Acquires(p) \/ Signal(p) PROVE DTypeOK'
  BY <1>1 DEF Acquires, Crossing, Signal
<1>2. ASSUME NEW p \in Procs, RemoveStale(p) \/ Listen(p) \/ WriteDiscovery(p) \/ NoWS(p) PROVE DTypeOK'
  BY <1>2 DEF RemoveStale, Listen, WriteDiscovery, NoWS, Step
<1>3. ASSUME NEW p \in Procs, BindWS(p) PROVE DTypeOK'
  BY <1>3 DEF BindWS, Step
<1>4. ASSUME NEW p \in Procs, Stop(p) \/ RemoveFiles(p) \/ Retire(p) PROVE DTypeOK'
  <2>1. CASE RemoveFiles(p) \/ Retire(p)
    BY <2>1 DEF RemoveFiles, Retire, Step
  <2>2. CASE Stop(p)
    <3>1. crossed' \in BOOLEAN
      BY <2>2 DEF Stop, Paused
    <3> QED BY <2>2, <3>1 DEF Stop, Step
  <2> QED BY <1>4, <2>1, <2>2
<1>5. ASSUME NEW p \in Procs, StopSessions(p) PROVE DTypeOK'
  BY <1>5 DEF StopSessions, Step
<1>6. ASSUME NEW p \in Procs, NEW k \in Kids, SpawnBegin(p, k) \/ SpawnEnd(p, k) \/ Escalate(p, k) \/ SessionDone(p, k)
      PROVE  DTypeOK'
  BY <1>6 DEF SpawnBegin, SpawnEnd, Escalate, SessionDone
<1>7. ASSUME NEW k \in Kids, ChildExit(k) PROVE DTypeOK'
  BY <1>7 DEF ChildExit
<1>8. ASSUME NEW p \in Procs, Exit(p) \/ Dies(p) \/ GivesUp(p) PROVE DTypeOK'
  <2>1. Drop(p)
    BY <1>8 DEF Exit, Dies, GivesUp
  <2>2. /\ reg' \in [Procs -> SUBSET Kids] /\ flight' \in [Procs -> SUBSET Kids]
        /\ live' \in [Procs -> SUBSET Kids] /\ kid' \in [Kids -> {"none", "running", "dead"}]
        /\ srv' \in [Procs -> {"none", "listen", "ws", "publish", "serving", "closing", "waiting", "return"}]
        /\ sig' \subseteq Procs
    BY <2>1 DEF Drop
  <2> QED BY <1>8, <2>2 DEF Exit, Dies, GivesUp
<1>9. ASSUME NEW p \in Procs, NEW q \in Procs, HandOver(p, q) PROVE DTypeOK'
  BY <1>9 DEF HandOver, Paused
<1>10. ASSUME NEW p \in Procs, NEW q \in Procs, Acknowledge(q) \/ HandedOver(p, q) \/ RollBack(p, q) PROVE DTypeOK'
  BY <1>10 DEF Acknowledge, Crossing, HandedOver, RollBack
<1>11. CASE Finished \/ UNCHANGED dvars
  BY <1>11 DEF Finished, dvars
<1> QED
  BY <1>1, <1>2, <1>3, <1>4, <1>5, <1>6, <1>7, <1>8, <1>9, <1>10, <1>11 DEF DNext, ServeStep

\* Two would be counted.
LEMMA NotTwo ==
  ASSUME NEW S, IsFiniteSet(S), ~(Cardinality(S) > 1)
  PROVE  \A p, q \in S : p = q
<1>1. Cardinality(S) = 0 \/ Cardinality(S) = 1
  <2>1. Cardinality(S) \in Nat
    BY FS_CardinalityType
  <2> QED BY <2>1
<1>2. CASE Cardinality(S) = 0
  BY <1>2, FS_EmptySet
<1>3. CASE Cardinality(S) = 1
  BY <1>3, FS_Singleton
<1> QED BY <1>1, <1>2, <1>3

\* A process that ends takes nothing of another's along.
LEMMA EndServed ==
  ASSUME TypeOK, DTypeOK, Served, NEW p \in Procs,
         pc' = [pc EXCEPT ![p] = "dead"], srv' = [srv EXCEPT ![p] = "none"],
         Over(Heirs(p)) \/ (UNCHANGED <<donor, deal>> /\ Heirs(p) = {}),
         ln \ {p} \subseteq ln', UNCHANGED <<sock, token, disc>>,
         port' = port \/ (port = p /\ port' = NoPid)
  PROVE  Served'
<1>1. \A q \in Procs : q # p => pc'[q] = pc[q] /\ srv'[q] = srv[q]
  BY DEF TypeOK, DTypeOK
<1>2. pc'[p] = "dead" /\ srv'[p] = "none"
  BY DEF TypeOK, DTypeOK
<1>3. Heirs(p)' = {}
  <2>1. CASE Over(Heirs(p))
    BY <2>1, OverType DEF Heirs
  <2>2. CASE UNCHANGED <<donor, deal>> /\ Heirs(p) = {}
    BY <2>2 DEF Heirs
  <2> QED BY <2>1, <2>2
<1>4. \A q \in Procs : q # p => Heirs(q)' = Heirs(q) /\ (q \in Owners' <=> q \in Owners)
  <2> TAKE q \in Procs
  <2> HAVE q # p
  <2>1. \A r \in Procs : r \in Heirs(q) <=> r \in Heirs(q)'
    BY OverType DEF Heirs
  <2>2. \A r \in Heirs(q) : deal'[r] = deal[r]
    BY OverType DEF Heirs
  <2>3. Heirs(q)' = Heirs(q)
    BY <2>1 DEF Heirs
  <2>4. Acked(q)' = Acked(q)
    BY <2>2, <2>3 DEF Acked
  <2> QED BY <1>1, <2>3, <2>4 DEF Owners
<1>5. Owners' \subseteq Owners
  BY <1>2, <1>4 DEF Owners
<1>6. \A q \in Procs : Heirs(q)' \subseteq Heirs(q)
  BY <1>3, <1>4
<1> QED BY <1>1, <1>2, <1>3, <1>4, <1>5, <1>6 DEF Served

\* A step of Serve moves one process on.
LEMMA StepAt ==
  ASSUME DTypeOK, NEW p \in Procs, NEW a, NEW b, Step(p, a, b)
  PROVE  /\ srv[p] = a /\ srv'[p] = b
         /\ \A q \in Procs : q # p => srv'[q] = srv[q]
BY DEF Step, DTypeOK

\* What does not touch the lock leaves owners and handovers as they are.
LEMMA LockSame ==
  ASSUME UNCHANGED <<pc, donor, deal>>
  PROVE  Owners' = Owners /\ \A q \in Procs : Heirs(q)' = Heirs(q)
BY DEF Owners, Acked, Heirs

\* A daemon that is starting or shutting down is the owner, and hands nothing over.
LEMMA AtWork ==
  ASSUME Served, NEW p \in Procs,
         srv[p] \in {"listen", "ws", "publish", "closing", "waiting"} \/ (srv[p] = "none" /\ pc[p] = "owner")
  PROVE  p \in Owners /\ Heirs(p) = {}
<1>1. pc[p] = "owner" /\ Heirs(p) = {}
  BY DEF Served
<1> QED BY <1>1 DEF Owners, Acked

\* A step of Serve of the owner keeps what has been published if it has what belongs
\* to where it goes.
LEMMA OwnerStep ==
  ASSUME DTypeOK, Served, UNCHANGED vars, NEW p \in Procs, p \in Owners, Heirs(p) = {},
         NEW a, NEW b, Step(p, a, b), b # "none",
         b = "listen" => sock' = NoPid,
         b \in {"ws", "publish", "serving"} => sock' = p /\ p \in ln',
         b \in {"publish", "serving"} /\ p \in WSProcs => port' = p /\ token' = p,
         b = "serving" => disc' = p
  PROVE  Served'
<1>1. UNCHANGED <<pc, donor, deal>>
  BY DEF vars
<1>2. Owners' = Owners /\ \A q \in Procs : Heirs(q)' = Heirs(q)
  BY <1>1, LockSame
<1>3. \A q \in Owners : q = p
  BY DEF Served
<1>4. srv'[p] = b /\ \A q \in Procs : q # p => srv'[q] = srv[q]
  BY StepAt
<1>5. pc[p] = "owner"
  BY DEF Owners
<1> QED BY <1>1, <1>2, <1>3, <1>4, <1>5 DEF Served

\* Owners that are not more than one are at most one, where one step adds one.
LEMMA OneMore ==
  ASSUME Served, NEW p, Owners' \subseteq Owners \cup {p}, ~(Cardinality(Owners') > 1)
  PROVE  \A q, r \in Owners' : q = r
<1>1. IsFiniteSet(Owners \cup {p})
  <2>1. \A q, r \in Owners : q = r
    BY DEF Served
  <2>2. CASE Owners = {}
    <3>1. Owners \cup {p} = {p} BY <2>2
    <3> QED BY <3>1, FS_Singleton
  <2>3. CASE Owners # {}
    <3>1. PICK q : q \in Owners BY <2>3
    <3>2. Owners = {q} BY <2>1, <3>1
    <3> QED BY <3>2, FS_Singleton, FS_AddElement
  <2> QED BY <2>2, <2>3
<1>2. IsFiniteSet(Owners')
  BY <1>1, FS_Subset
<1> QED BY <1>2, NotTwo

\* Every step keeps what has been published, or is a crossing.
LEMMA ServeNext ==
  ASSUME TypeOK, LockInv, DTypeOK, ServeInv, [DNext]_dvars
  PROVE  ServeInv'
<1> SUFFICES ASSUME ~crossed' PROVE Served'
  BY DEF ServeInv
<1>0. ~crossed
  BY DEF DNext, ServeStep, Acquires, Crossing, Signal, RemoveStale, Listen, WriteDiscovery, NoWS,
         BindWS, Stop, RemoveFiles, Retire, StopSessions, SpawnBegin, SpawnEnd, Escalate, SessionDone,
         ChildExit, Exit, Dies, GivesUp, HandOver, Acknowledge, HandedOver, RollBack, Finished, dvars, DTypeOK
<1>00. Served
  BY <1>0 DEF ServeInv
<1>1. ASSUME NEW p \in Procs, Acquires(p) PROVE Served'
  <2>1. /\ pc[p] \notin {"owner", "retired"} /\ pc'[p] # "retired"
        /\ \A q \in Procs : q # p => pc'[q] = pc[q]
        /\ UNCHANGED <<srv, sock, ln, port, token, disc, donor, deal>>
    BY <1>1 DEF Acquires, Start, AcquireStep, Open, Flock, Truncate, WritePid, Probe, Reclaim, Goto,
                TypeOK, files, deals
  <2>2. /\ \A q \in Procs : Heirs(q)' = Heirs(q) /\ Acked(q)' = Acked(q)
        /\ Owners' \subseteq Owners \cup {p} /\ \A q \in Procs : q # p => (q \in Owners' <=> q \in Owners)
    BY <2>1 DEF Owners, Acked, Heirs
  <2>3. ~(Cardinality(Owners') > 1)
    BY <1>1 DEF Acquires, Crossing
  <2>4. \A q, r \in Owners' : q = r
    BY <1>00, <2>2, <2>3, OneMore
  <2>5. srv[p] = "none" /\ Heirs(p) = {}
    BY <1>00, <2>1 DEF Served
  <2> QED BY <1>00, <2>1, <2>2, <2>4, <2>5 DEF Served
<1>2. ASSUME NEW p \in Procs, RemoveStale(p) PROVE Served'
  <2>1. UNCHANGED vars /\ pc[p] = "owner" /\ Step(p, "none", "listen") /\ sock' = NoPid
    BY <1>2 DEF RemoveStale
  <2>2. p \in Owners /\ Heirs(p) = {}
    BY <1>00, <2>1, StepAt, AtWork
  <2> QED BY <1>00, <2>1, <2>2, OwnerStep
<1>3. ASSUME NEW p \in Procs, Listen(p) PROVE Served'
  <2>1. srv[p] = "listen" /\ UNCHANGED vars
    BY <1>3 DEF Listen, Step
  <2>2. p \in Owners /\ Heirs(p) = {}
    BY <1>00, <2>1, AtWork
  <2>3. sock = NoPid
    BY <1>00, <2>1, <2>2 DEF Served
  <2>4. Step(p, "listen", "ws") /\ sock' = p /\ p \in ln'
    BY <1>3, <2>3 DEF Listen
  <2> QED BY <1>00, <2>1, <2>2, <2>4, OwnerStep
<1>4. ASSUME NEW p \in Procs, BindWS(p) PROVE Served'
  <2>1. UNCHANGED vars /\ token' = p /\ srv[p] = "ws"
    BY <1>4 DEF BindWS, Step
  <2>2. p \in Owners /\ Heirs(p) = {} /\ sock = p /\ p \in ln
    BY <1>00, <2>1, AtWork DEF Served
  <2>3. CASE port' = p /\ Step(p, "ws", "publish") /\ UNCHANGED <<ln, sock>>
    BY <1>00, <2>1, <2>2, <2>3, OwnerStep
  <2>4. CASE Step(p, "ws", "return")
    BY <1>00, <2>1, <2>2, <2>4, OwnerStep
  <2> QED BY <1>4, <2>3, <2>4 DEF BindWS
<1>5. ASSUME NEW p \in Procs, NoWS(p) PROVE Served'
  <2>1. UNCHANGED vars /\ p \notin WSProcs /\ Step(p, "ws", "publish") /\ UNCHANGED <<ln, sock>>
    BY <1>5 DEF NoWS, files
  <2>2. p \in Owners /\ Heirs(p) = {} /\ sock = p /\ p \in ln
    BY <1>00, <2>1, StepAt, AtWork DEF Served
  <2> QED BY <1>00, <2>1, <2>2, OwnerStep
<1>6. ASSUME NEW p \in Procs, WriteDiscovery(p) PROVE Served'
  <2>1. UNCHANGED vars /\ Step(p, "publish", "serving") /\ disc' = p /\ UNCHANGED <<ln, sock, port, token>>
    BY <1>6 DEF WriteDiscovery
  <2>2. srv[p] = "publish" /\ p \in Owners /\ Heirs(p) = {}
    BY <1>00, <2>1, StepAt, AtWork
  <2>3. sock = p /\ p \in ln /\ (p \in WSProcs => port = p /\ token = p)
    BY <1>00, <2>2 DEF Served
  <2> QED BY <1>00, <2>1, <2>2, <2>3, OwnerStep
<1>7. ASSUME NEW p \in Procs, Stop(p) PROVE Served'
  <2>1. UNCHANGED vars /\ Step(p, "serving", "closing") /\ ~Paused(p)
    BY <1>7 DEF Stop
  <2>2. Heirs(p) = {} /\ pc[p] = "owner"
    BY <1>00, <2>1, StepAt DEF Served, Paused
  <2>3. p \in Owners
    BY <2>2 DEF Owners, Acked
  <2> QED BY <1>00, <2>1, <2>2, <2>3, OwnerStep
<1>8. ASSUME NEW p \in Procs, StopSessions(p) PROVE Served'
  <2>1. UNCHANGED vars /\ Step(p, "closing", "waiting")
    BY <1>8 DEF StopSessions
  <2>2. p \in Owners /\ Heirs(p) = {}
    BY <1>00, <2>1, StepAt, AtWork
  <2> QED BY <1>00, <2>1, <2>2, OwnerStep
<1>9. ASSUME NEW p \in Procs, RemoveFiles(p) PROVE Served'
  <2>1. UNCHANGED vars /\ Step(p, "waiting", "return")
    BY <1>9 DEF RemoveFiles
  <2>2. p \in Owners /\ Heirs(p) = {}
    BY <1>00, <2>1, StepAt, AtWork
  <2> QED BY <1>00, <2>1, <2>2, OwnerStep
<1>10. ASSUME NEW p \in Procs, Retire(p) PROVE Served'
  <2>1. /\ UNCHANGED <<pc, donor, deal>> /\ pc[p] = "retired" /\ Step(p, "serving", "return")
        /\ UNCHANGED <<ln, sock, token, disc>> /\ port' = IF port = p THEN NoPid ELSE port
    BY <1>10 DEF Retire, vars
  <2>2. Owners' = Owners /\ (\A q \in Procs : Heirs(q)' = Heirs(q)) /\ p \notin Owners /\ Heirs(p) = {}
    BY <1>00, <2>1, LockSame DEF Owners, Served
  <2> QED BY <1>00, <2>1, <2>2, StepAt DEF Served
<1>11. ASSUME NEW p \in Procs, Exit(p) \/ Dies(p) \/ GivesUp(p) PROVE Served'
  <2>1. pc' = [pc EXCEPT ![p] = "dead"] /\ srv' = [srv EXCEPT ![p] = "none"]
    BY <1>11 DEF Exit, Dies, GivesUp, Release, Crash, GiveUp, Goto, Drop
  <2>2. /\ ln \ {p} \subseteq ln' /\ UNCHANGED <<sock, token, disc>>
        /\ port' = port \/ (port = p /\ port' = NoPid)
    BY <1>11 DEF Exit, Dies, GivesUp, files
  <2>3. Over(Heirs(p)) \/ (UNCHANGED <<donor, deal>> /\ pc[p] = "adopting")
    BY <1>11 DEF Exit, Dies, GivesUp, Release, Crash, GiveUp, deals
  <2>4. pc[p] = "adopting" => Heirs(p) = {}
    BY Uninvolved DEF Heirs, LockInv
  <2> QED BY <1>00, <2>1, <2>2, <2>3, <2>4, EndServed
<1>12. ASSUME NEW p \in Procs, NEW q \in Procs, HandOver(p, q) PROVE Served'
  <2>1. /\ srv' = srv /\ srv[p] = "serving" /\ ~Paused(p) /\ p \in ln /\ pc[q] = "new"
        /\ pc' = [pc EXCEPT ![q] = "adopting"]
        /\ donor' = [donor EXCEPT ![q] = p] /\ deal' = [deal EXCEPT ![q] = "sent"]
        /\ sock' = NoPid /\ UNCHANGED <<port, token, disc>>
    BY <1>12 DEF HandOver, SendLock, Goto
  <2>2. Heirs(p) = {} /\ pc[p] = "owner" /\ p # q
    BY <1>00, <2>1 DEF Served, Paused
  <2>3. p \in Owners
    BY <2>2 DEF Owners, Acked
  <2>4. /\ pc'[q] = "adopting" /\ donor'[q] = p /\ deal'[q] = "sent"
        /\ \A r \in Procs : r # q => pc'[r] = pc[r] /\ donor'[r] = donor[r] /\ deal'[r] = deal[r]
    BY <2>1 DEF TypeOK
  <2>5. deal[q] = "none"
    BY <2>1, Uninvolved DEF LockInv
  <2>6. \A r, m \in Procs : m \in Heirs(r)' <=> m \in Heirs(r) \/ (r = p /\ m = q)
    BY <2>2, <2>4, <2>5 DEF Heirs
  <2>7. Heirs(p)' = {q} /\ \A r \in Procs : r # p => Heirs(r)' = Heirs(r)
    BY <2>2, <2>6 DEF Heirs
  <2>8. \A r \in Procs : r \in Owners' <=> r = p
    <3>1. Acked(p)' = {}
      BY <2>4, <2>7 DEF Acked
    <3>2. \A r \in Procs : r \in Owners => r = p
      BY <1>00, <2>3 DEF Served, Owners
    <3>3. \A r \in Procs : r # p => Acked(r)' = Acked(r)
      BY <2>4, <2>5, <2>7 DEF Acked, Heirs
    <3> QED BY <2>2, <2>4, <3>1, <3>2, <3>3 DEF Owners
  <2>9. srv[q] = "none" /\ Heirs(q) = {}
    BY <1>00, <2>1 DEF Served
  <2>10. disc = p /\ (p \in WSProcs => port = p /\ token = p)
    BY <1>00, <2>1, <2>3 DEF Served
  <2>11. Owners' \subseteq Procs
    BY DEF Owners
  <2>12. \A r, m, n \in Procs : m \in Heirs(r)' /\ n \in Heirs(r)' => m = n
    BY <1>00, <2>7 DEF Served
  <2>13. \A r \in Procs : /\ srv'[r] # "none" => pc'[r] \in {"owner", "retired"}
                          /\ Heirs(r)' # {} => pc'[r] = "owner" /\ srv'[r] = "serving"
                          /\ pc'[r] = "retired" => srv'[r] \in {"serving", "return"}
    BY <1>00, <2>1, <2>2, <2>4, <2>7, <2>9 DEF Served
  <2> QED BY <2>1, <2>7, <2>8, <2>10, <2>11, <2>12, <2>13 DEF Served
<1>13. ASSUME NEW q \in Procs, Acknowledge(q) PROVE Served'
  <2>1. /\ UNCHANGED <<srv, ln, sock, port, token, disc, donor>> /\ pc[q] = "adopting" /\ deal[q] = "sent"
        /\ pc' = [pc EXCEPT ![q] = "owner"] /\ deal' = [deal EXCEPT ![q] = "acked"]
        /\ ~(Cardinality(Owners') > 1)
    BY <1>13 DEF Acknowledge, AdoptLock, Goto, Crossing, files
  <2>2. /\ pc'[q] = "owner" /\ deal'[q] = "acked"
        /\ \A r \in Procs : r # q => pc'[r] = pc[r] /\ deal'[r] = deal[r]
    BY <2>1 DEF TypeOK
  <2>3. \A r \in Procs : Heirs(r)' = Heirs(r)
    BY <2>1, <2>2 DEF Heirs
  <2>4. Owners' \subseteq Owners \cup {q}
    <3>1. \A r \in Procs : Acked(r) \subseteq Acked(r)'
      <4>1. \A r \in Procs : Heirs(r) \subseteq Procs
        BY DEF Heirs
      <4>2. \A m \in Procs : deal[m] = "acked" => deal'[m] = "acked"
        BY <2>2
      <4> QED BY <2>3, <4>1, <4>2 DEF Acked
    <3> QED BY <2>2, <3>1 DEF Owners
  <2>5. \A r, m \in Owners' : r = m
    BY <1>00, <2>1, <2>4, OneMore
  <2>6. srv[q] = "none" /\ Heirs(q) = {}
    BY <1>00, <2>1 DEF Served
  <2> QED BY <1>00, <2>1, <2>2, <2>3, <2>4, <2>5, <2>6 DEF Served
<1>14. ASSUME NEW p \in Procs, NEW q \in Procs, HandedOver(p, q) PROVE Served'
  <2>1. /\ UNCHANGED <<srv, ln, sock, port, token, disc>> /\ srv[p] = "serving" /\ q \in Acked(p)
        /\ pc' = [pc EXCEPT ![p] = "retired"] /\ Over({q})
    BY <1>14 DEF HandedOver, TakeAck, Goto, files
  <2>2. pc'[p] = "retired" /\ \A r \in Procs : r # p => pc'[r] = pc[r]
    BY <2>1 DEF TypeOK
  <2>3. q \in Heirs(p) /\ donor[q] = p /\ p \notin Owners
    BY <2>1 DEF Acked, Heirs, Owners
  <2>4. Heirs(p)' = {}
    <3>1. \A r \in Procs : r \in Heirs(p) => r = q
      BY <1>00, <2>3 DEF Served
    <3> QED BY <2>1, <3>1, OverType DEF Heirs
  <2>5. \A r \in Procs : r # p => Heirs(r)' = Heirs(r) /\ Acked(r)' = Acked(r)
    BY <2>1, <2>3, OverType DEF Heirs, Acked
  <2>6. Owners' = Owners
    BY <2>2, <2>3, <2>5 DEF Owners
  <2> QED BY <1>00, <2>1, <2>2, <2>3, <2>4, <2>5, <2>6 DEF Served
<1>15. ASSUME NEW p \in Procs, NEW q \in Procs, RollBack(p, q) PROVE Served'
  <2>1. /\ UNCHANGED <<pc, srv, port, token, disc>> /\ q \in Heirs(p) /\ deal[q] # "acked" /\ Over({q})
        /\ sock' = IF sock = NoPid THEN p ELSE sock
        /\ ln' = IF sock = NoPid THEN ln \cup {p} ELSE ln
    BY <1>15 DEF RollBack, Rollback
  <2>2. /\ pc[p] = "owner" /\ srv[p] = "serving" /\ donor[q] = p
        /\ \A r \in Procs : r \in Heirs(p) => r = q
    BY <1>00, <2>1 DEF Served, Heirs
  <2>3. p \in Owners /\ Heirs(p) # {}
    BY <2>1, <2>2 DEF Owners, Acked, Heirs
  <2>4. sock' = p /\ p \in ln'
    BY <1>00, <2>1, <2>3 DEF Served
  <2>5. Heirs(p)' = {}
    BY <2>1, <2>2, OverType DEF Heirs
  <2>6. \A r \in Procs : r # p => Heirs(r)' = Heirs(r) /\ Acked(r)' = Acked(r)
    BY <2>1, <2>2, OverType DEF Heirs, Acked
  <2>7. Owners' = Owners
    <3>1. p \in Owners'
      BY <2>1, <2>2, <2>5 DEF Owners, Acked
    <3> QED BY <2>1, <2>3, <2>6, <3>1 DEF Owners
  <2>8. \A r \in Owners : r = p
    BY <1>00, <2>3 DEF Served
  <2> QED BY <1>00, <2>1, <2>2, <2>4, <2>5, <2>6, <2>7, <2>8 DEF Served
<1>16. ASSUME UNCHANGED <<pc, donor, deal, srv, ln, sock, port, token, disc>> PROVE Served'
  BY <1>00, <1>16, LockSame DEF Served
<1>17. ASSUME NEW p \in Procs, Signal(p) PROVE Served'
  BY <1>16, <1>17 DEF Signal, vars, files
<1>18. ASSUME NEW p \in Procs, NEW k \in Kids, SpawnBegin(p, k) \/ SpawnEnd(p, k) \/ Escalate(p, k) \/ SessionDone(p, k)
       PROVE  Served'
  BY <1>16, <1>18 DEF SpawnBegin, SpawnEnd, Escalate, SessionDone, vars, files
<1>19. ASSUME (\E k \in Kids : ChildExit(k)) \/ Finished \/ UNCHANGED dvars PROVE Served'
  BY <1>16, <1>19 DEF ChildExit, Finished, dvars, vars, files
<1> QED
  BY <1>1, <1>2, <1>3, <1>4, <1>5, <1>6, <1>7, <1>8, <1>9, <1>10, <1>11, <1>12, <1>13, <1>14, <1>15, <1>17, <1>18, <1>19
     DEF DNext, ServeStep

\* What a daemon publishes stays until it takes it back or hands over, as ServeInv
\* says.
THEOREM DaemonServes == DSpec => [](DTypeOK /\ ServeInv)
<1>1. DInit => DTypeOK /\ ServeInv
  <2> SUFFICES ASSUME DInit PROVE DTypeOK /\ ServeInv
    OBVIOUS
  <2>1. DTypeOK
    BY DEF DInit, DTypeOK
  <2>2. Owners = {} /\ \A p \in Procs : Heirs(p) = {}
    BY DEF DInit, Init, Owners, Heirs
  <2>3. Served
    BY <2>2 DEF DInit, Init, Served
  <2> QED BY <2>1, <2>3 DEF ServeInv
<1>2. TypeOK /\ LockInv /\ DTypeOK /\ ServeInv /\ [DNext]_dvars => DTypeOK' /\ ServeInv'
  BY DTypeNext, ServeNext
<1> QED BY <1>1, <1>2, DaemonLocks, PTL DEF DSpec

\* A daemon that serves can be found: socket, discovery file, port and tokens are its
\* own (Serve in daemon.go, writeDiscovery and removeRuntimeFiles), unless owners
\* crossed.
THEOREM ServingReachableAlways == DSpec => []ServingReachable
<1>1. DTypeOK /\ ServeInv => ServingReachable
  <2> SUFFICES ASSUME DTypeOK, ServeInv, ~crossed, NEW p \in Procs, Serving(p)
               PROVE  /\ p \in ln /\ sock = p
                      /\ disc = p /\ Status = "running"
                      /\ p \in WSProcs => port = p /\ token = p
    BY DEF ServingReachable
  <2>1. Served /\ pc[p] = "owner" /\ srv[p] = "serving" /\ p \in Owners /\ Heirs(p) = {}
    BY DEF ServeInv, Serving, Owners, Paused
  <2>2. p # NoPid
    BY PidAssumption
  <2> QED BY <2>1, <2>2 DEF Served, Status, Live
<1> QED BY <1>1, DaemonServes, PTL
=============================================================================
