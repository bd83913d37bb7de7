------------------------------ MODULE Registry ------------------------------
(***************************************************************************)
(* The session registry (pkg/host/registry.go): the id table, the index of *)
(* unique names, the two-phase Spawn that reserves before it starts a      *)
(* child, Rename, the retention reaper and the adoption of handed-over     *)
(* sessions at boot.                                                       *)
(*                                                                         *)
(* Every step is one critical section of r.mu or work done between two of  *)
(* them.  A map is a total function: byID and byName have a value for "no  *)
(* such key", and a missing ringByID entry reads as 0, as it does in Go.   *)
(* A refused call changes nothing and is no step of the model.  Emitting   *)
(* lifecycle events is left to the event bus.                              *)
(***************************************************************************)
EXTENDS Integers, FiniteSets

CONSTANTS Ids,          \* session ids
          Names,        \* well-formed session names; some may look like an id
          NoName,       \* the empty name
          Callers,      \* connections calling Spawn
          Sizes,        \* ring sizes a Spawn may ask for, defaults applied
          MaxSessions,  \* maxSessions
          RingTotalCap, \* ringTotalCap
          Absent, Nil   \* no map entry; the nil placeholder

ASSUME IdsAssumption   == IsFiniteSet(Ids)
ASSUME NamesAssumption == NoName \notin Names /\ {Absent, Nil} \cap (Ids \cup Names) = {}
                          /\ Absent # Nil
ASSUME SizesAssumption == Sizes \subseteq Nat \ {0}
ASSUME CapsAssumption  == MaxSessions \in Nat /\ RingTotalCap \in Nat

VARIABLES
    serving,      \* the listener accepts: adoption is over
    byID,         \* Absent, Nil (spawn in flight) or the session, named by its id
    byName,       \* Absent, Nil (name reserved) or a session
    ringByID,     \* each session's reservation
    ringReserved, \* the running total
    sname,        \* each session's s.name
    child,        \* "none", "running", "exited", "expired" (past the retention)
    call,         \* what each caller is doing
    todo,         \* the reaper's snapshot, sessions still to look at
    victim,       \* the session the reaper has found expired, or Absent
    adopted       \* history: number and bytes of the adopted sessions

index == <<byID, byName, sname>>
rings == <<ringByID, ringReserved>>
reaper == <<todo, victim>>
vars == <<serving, index, rings, child, call, reaper, adopted>>

Idle == [pc |-> "idle", id |-> Nil, name |-> NoName]

Init ==
    /\ serving = FALSE
    /\ byID = [i \in Ids |-> Absent]
    /\ byName = [n \in Names |-> Absent]
    /\ ringByID = [i \in Ids |-> 0] /\ ringReserved = 0
    /\ sname = [i \in Ids |-> NoName]
    /\ child = [i \in Ids |-> "none"]
    /\ call = [c \in Callers |-> Idle]
    /\ todo = {} /\ victim = Absent
    /\ adopted = [count |-> 0, bytes |-> 0]

\* byName with name n bound to v; the empty name is never indexed.
Bind(n, v) == [m \in Names |-> IF m = n THEN v ELSE byName[m]]

\* The ids in the table, placeholders included: they hold capacity.
Registered == {i \in Ids : byID[i] # Absent}

\* UUIDv7 ids are minted once, here or by the daemon handed over from; an id
\* whose spawn failed has left no trace and may stand for the next one.
Minted == {i \in Ids : byID[i] # Absent \/ child[i] # "none"}
            \cup {call[c].id : c \in Callers}

-----------------------------------------------------------------------------
(* Boot. *)

\* Adopt: no cap is consulted.
Adopt(i, n, size) ==
    /\ ~serving /\ i \notin Minted
    /\ n # NoName => byName[n] = Absent
    /\ byName' = Bind(n, i)
    /\ byID' = [byID EXCEPT ![i] = i]
    /\ sname' = [sname EXCEPT ![i] = n]
    /\ ringReserved' = ringReserved + size
    /\ ringByID' = [ringByID EXCEPT ![i] = size]
    /\ child' = [child EXCEPT ![i] = "running"]
    /\ adopted' = [count |-> adopted.count + 1, bytes |-> adopted.bytes + size]
    /\ UNCHANGED <<serving, call, reaper>>

Serve ==
    /\ ~serving /\ serving' = TRUE
    /\ UNCHANGED <<index, rings, child, call, reaper, adopted>>

-----------------------------------------------------------------------------
(* Spawn. *)

\* The first critical section: caps, name, then the placeholders.
SpawnReserve(c, n, size) ==
    /\ serving /\ call[c].pc = "idle"
    /\ Cardinality(Registered) < MaxSessions
    /\ ringReserved + size <= RingTotalCap
    /\ n # NoName => byName[n] = Absent
    /\ \E i \in Ids \ Minted :
          /\ byID' = [byID EXCEPT ![i] = Nil]
          /\ ringByID' = [ringByID EXCEPT ![i] = size]
          /\ call' = [call EXCEPT ![c] = [pc |-> "spawning", id |-> i, name |-> n]]
    /\ byName' = Bind(n, Nil)
    /\ ringReserved' = ringReserved + size
    /\ UNCHANGED <<serving, sname, child, reaper, adopted>>

\* spawn() started the child and its pump: from here it may exit at any time.
SpawnChild(c) ==
    /\ call[c].pc = "spawning"
    /\ child' = [child EXCEPT ![call[c].id] = "running"]
    /\ sname' = [sname EXCEPT ![call[c].id] = call[c].name]
    /\ call' = [call EXCEPT ![c].pc = "commit"]
    /\ UNCHANGED <<serving, byID, byName, rings, reaper, adopted>>

\* The second critical section: the session replaces its placeholders.
SpawnCommit(c) ==
    /\ call[c].pc = "commit"
    /\ byID' = [byID EXCEPT ![call[c].id] = call[c].id]
    /\ byName' = Bind(call[c].name, call[c].id)
    /\ call' = [call EXCEPT ![c] = Idle]
    /\ UNCHANGED <<serving, sname, rings, child, reaper, adopted>>

\* Mutant: a failed spawn keeps its reservation of ring memory.
SpawnAbort_KeepsRing(c) ==
    /\ call[c].pc = "spawning"
    /\ byID' = [byID EXCEPT ![call[c].id] = Absent]
    /\ byName' = Bind(call[c].name, Absent)
    /\ ringByID' = [ringByID EXCEPT ![call[c].id] = 0]
    /\ call' = [call EXCEPT ![c] = Idle]
    /\ UNCHANGED <<serving, sname, ringReserved, child, reaper, adopted>>

\* The second critical section after spawn() failed.
SpawnAbort(c) ==
    /\ call[c].pc = "spawning"
    /\ byID' = [byID EXCEPT ![call[c].id] = Absent]
    /\ byName' = Bind(call[c].name, Absent)
    /\ ringReserved' = ringReserved - ringByID[call[c].id]
    /\ ringByID' = [ringByID EXCEPT ![call[c].id] = 0]
    /\ call' = [call EXCEPT ![c] = Idle]
    /\ UNCHANGED <<serving, sname, child, reaper, adopted>>

-----------------------------------------------------------------------------
(* Lookup and Rename. *)

\* The table entry x denotes: x is an id if it has an id's shape, else a name.
\* Lookup and Rename both answer "not found" for Absent and for Nil.
Lookup(x) == IF x \in Ids THEN byID[x] ELSE byName[x]

\* Mutant: a name that another session holds is taken over.
Rename_Steals(x, new) ==
    LET s == Lookup(x)
    IN  /\ serving /\ s \notin {Absent, Nil}
        /\ byName' = [m \in Names |-> IF m = new THEN s
                                      ELSE IF m = sname[s] THEN Absent ELSE byName[m]]
        /\ sname' = [sname EXCEPT ![s] = new]
        /\ UNCHANGED <<serving, byID, rings, child, call, reaper, adopted>>

\* The old name is freed before the new one is bound: both may be the same.
Rename(x, new) ==
    LET s == Lookup(x)
    IN  /\ serving /\ s \notin {Absent, Nil}
        /\ new # NoName => byName[new] \in {Absent, s}
        /\ byName' = [m \in Names |-> IF m = new THEN s
                                      ELSE IF m = sname[s] THEN Absent ELSE byName[m]]
        /\ sname' = [sname EXCEPT ![s] = new]
        /\ UNCHANGED <<serving, byID, rings, child, call, reaper, adopted>>

-----------------------------------------------------------------------------
(* Exit and retention. *)

\* The session's pump reaches the end of its stream (see module Session).
Exit(i) ==
    /\ child[i] = "running"
    /\ child' = [child EXCEPT ![i] = "exited"]
    /\ UNCHANGED <<serving, index, rings, call, reaper, adopted>>

\* The retention time of an exited session passes.
Expire(i) ==
    /\ child[i] = "exited"
    /\ child' = [child EXCEPT ![i] = "expired"]
    /\ UNCHANGED <<serving, index, rings, call, reaper, adopted>>

\* ReapExpired takes List(), which skips placeholders.
ReapList ==
    /\ serving /\ todo = {} /\ victim = Absent
    /\ todo' = {i \in Ids : byID[i] = i}
    /\ UNCHANGED <<serving, index, rings, child, call, victim, adopted>>

\* Mutant: the scan ends at the first session that is not expired.
ReapCheck_Breaks(i) ==
    /\ victim = Absent /\ i \in todo
    /\ todo' = IF child[i] = "expired" THEN todo \ {i} ELSE {}
    /\ victim' = IF child[i] = "expired" THEN i ELSE Absent
    /\ UNCHANGED <<serving, index, rings, child, call, adopted>>

\* One session of the snapshot: ExitedAt, compared with now.
ReapCheck(i) ==
    /\ victim = Absent /\ i \in todo
    /\ todo' = todo \ {i}
    /\ victim' = IF child[i] = "expired" THEN i ELSE Absent
    /\ UNCHANGED <<serving, index, rings, child, call, adopted>>

\* Mutant: the table entry goes, the name stays.
Remove_KeepsName ==
    /\ victim # Absent
    /\ byID' = [byID EXCEPT ![victim] = Absent]
    /\ ringReserved' = ringReserved - ringByID[victim]
    /\ ringByID' = [ringByID EXCEPT ![victim] = 0]
    /\ victim' = Absent
    /\ UNCHANGED <<serving, byName, sname, child, call, todo, adopted>>

\* Remove, with whatever name the session has by now.
Remove ==
    /\ victim # Absent
    /\ byID' = [byID EXCEPT ![victim] = Absent]
    /\ ringReserved' = ringReserved - ringByID[victim]
    /\ ringByID' = [ringByID EXCEPT ![victim] = 0]
    /\ byName' = Bind(sname[victim], Absent)
    /\ victim' = Absent
    /\ UNCHANGED <<serving, sname, child, call, todo, adopted>>

-----------------------------------------------------------------------------
MaybeNames == Names \cup {NoName}

SpawnStep(c) == SpawnChild(c) \/ SpawnCommit(c) \/ SpawnAbort(c)
ReapStep == ReapList \/ (\E i \in Ids : ReapCheck(i)) \/ Remove

Next ==
    \/ \E i \in Ids, n \in MaybeNames, size \in Sizes : Adopt(i, n, size)
    \/ Serve
    \/ \E c \in Callers, n \in MaybeNames, size \in Sizes : SpawnReserve(c, n, size)
    \/ \E c \in Callers : SpawnStep(c)
    \/ \E x \in Ids \cup Names, new \in MaybeNames : Rename(x, new)
    \/ \E i \in Ids : Exit(i) \/ Expire(i)
    \/ ReapStep

\* A spawn in flight returns, the housekeeping ticker keeps ticking and time
\* passes.  No call and no exit is assumed to happen.
Fairness ==
    /\ WF_vars(Serve)
    /\ \A c \in Callers : WF_vars(SpawnStep(c))
    /\ \A i \in Ids : WF_vars(Expire(i))
    /\ WF_vars(ReapStep)

Spec == Init /\ [][Next]_vars /\ Fairness

-----------------------------------------------------------------------------
(* Properties. *)

\* Types.
TypeOK ==
    /\ serving \in BOOLEAN
    /\ byID \in [Ids -> Ids \cup {Absent, Nil}]
    /\ byName \in [Names -> Ids \cup {Absent, Nil}]
    /\ ringByID \in [Ids -> Nat] /\ ringReserved \in Int
    /\ sname \in [Ids -> MaybeNames]
    /\ child \in [Ids -> {"none", "running", "exited", "expired"}]
    /\ call \in [Callers -> [pc : {"idle", "spawning", "commit"},
                             id : Ids \cup {Nil}, name : MaybeNames]]
    /\ todo \subseteq Ids /\ victim \in Ids \cup {Absent}
    /\ adopted \in [count : Nat, bytes : Nat]

\* The name index is exactly the inverse of the registered sessions' names, in
\* every interleaving of spawns, renames and reaps: no stale entry, no session
\* missing from it, no name with two sessions (registry.go byName).
IndexExact ==
    \A n \in Names, i \in Ids : byName[n] = i <=> byID[i] = i /\ sname[i] = n

\* A name is reserved exactly while one spawn that asked for it is in flight,
\* and so is an id: a failed or finished spawn leaves no placeholder behind.
InFlight == {c \in Callers : call[c].pc # "idle"}
PlaceholdersOwned ==
    /\ \A i \in Ids : byID[i] = Nil <=> \E c \in InFlight : call[c].id = i
    /\ \A n \in Names : byName[n] = Nil <=> \E c \in InFlight : call[c].name = n
    /\ \A c, d \in InFlight : c # d => /\ call[c].id # call[d].id
                                       /\ call[c].name = call[d].name => call[c].name = NoName

\* Neither cap is passed, concurrent spawns included: only what was adopted at
\* boot, which no cap governs, can exceed them.
CapsHold ==
    /\ Cardinality(Registered) <= MaxSessions \/ Cardinality(Registered) <= adopted.count
    /\ ringReserved <= RingTotalCap \/ ringReserved <= adopted.bytes

\* Looking up an id finds that session and no other, whatever names were given
\* to sessions, and a name finds a session of that name; a placeholder is never
\* returned as a session ("nil placeholders are never visible", registry.go:80).
LookupSound ==
    \A x \in Ids \cup Names :
        /\ x \in Ids => Lookup(x) \in {Absent, Nil, x}
        /\ Lookup(x) \in Ids => x = Lookup(x) \/ sname[Lookup(x)] = x

\* No child is forgotten while it runs: it is registered, or the spawn that
\* started it is still to register it.
RunningIsOwned ==
    \A i \in Ids : child[i] = "running" =>
        byID[i] = i \/ \E c \in Callers : call[c].pc = "commit" /\ call[c].id = i

\* What the reaper took from List stays a registered session until the reaper
\* itself removes it, though the lock is released in between: it never holds a
\* nil placeholder nor removes a session twice (registry.go ReapExpired, Remove).
SnapshotLive ==
    /\ \A i \in todo : byID[i] = i
    /\ victim # Absent => byID[victim] = victim

\* A name in use changes hands only by being given up first.
NameNeverStolen ==
    [][\A n \in Names : byName[n] \in Ids => byName'[n] \in {byName[n], Absent}]_vars

\* An exited session is eventually dropped and gives its capacity back.
ExitedReaped == \A i \in Ids : child[i] \in {"exited", "expired"} ~> byID[i] = Absent
=============================================================================
