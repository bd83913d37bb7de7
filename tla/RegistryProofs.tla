--------------------------- MODULE RegistryProofs ---------------------------
(***************************************************************************)
(* The registry keeps its two tables consistent for any set of ids, names, *)
(* callers and ring sizes, stays within its caps, and its running total of *)
(* ring memory is the sum of the reservations.                             *)
(***************************************************************************)
EXTENDS MCRegistry, FiniteSetTheorems, WellFoundedInduction, TLAPS

\* A table entry is missing, a placeholder or the session of that id.
SelfID == \A i \in Ids : byID[i] \in {Absent, Nil, i}

\* What a caller in flight knows: its id has no child before the spawn, and the
\* child it started carries the name it reserved.
FlightOK ==
    \A c \in Callers :
        /\ call[c].pc = "idle" => call[c] = Idle
        /\ call[c].pc # "idle" => call[c].id \in Ids
        /\ call[c].pc = "spawning" => child[call[c].id] = "none"
        /\ call[c].pc = "commit" => sname[call[c].id] = call[c].name

\* What the reaper holds is still registered: nobody else removes sessions.
ReapOK ==
    /\ \A i \in todo : byID[i] = i
    /\ victim # Absent => byID[victim] = victim /\ child[victim] = "expired"
                          /\ victim \notin todo

\* Before serving, everything in the table was adopted.
BootOK ==
    ~serving => /\ Cardinality(Registered) <= adopted.count
                /\ ringReserved <= adopted.bytes

TableInv ==
    /\ SelfID /\ FlightOK /\ ReapOK
    /\ IndexExact /\ PlaceholdersOwned /\ RunningIsOwned

-----------------------------------------------------------------------------
(* Types. *)

\* The types hold initially.
LEMMA TypeInit == Init => TypeOK
<1> SUFFICES ASSUME Init PROVE TypeOK OBVIOUS
<1>1. Idle \in [pc : {"idle", "spawning", "commit"}, id : Ids \cup {Nil}, name : MaybeNames]
  BY DEF Idle, MaybeNames
<1>2. call \in [Callers -> [pc : {"idle", "spawning", "commit"},
                           id : Ids \cup {Nil}, name : MaybeNames]]
  BY <1>1 DEF Init
<1>3. adopted \in [count : Nat, bytes : Nat]
  BY DEF Init
<1>4. /\ byID \in [Ids -> Ids \cup {Absent, Nil}] /\ byName \in [Names -> Ids \cup {Absent, Nil}]
      /\ sname \in [Ids -> MaybeNames]
  BY DEF Init, MaybeNames
<1>5. /\ child \in [Ids -> {"none", "running", "exited", "expired"}]
      /\ ringByID \in [Ids -> Nat] /\ ringReserved \in Int
  BY DEF Init
<1> QED BY <1>2, <1>3, <1>4, <1>5 DEF Init, TypeOK

\* Every step keeps the types: a caller in flight has an id, so what is written
\* to the tables is written at an id.
LEMMA TypeNext ==
  ASSUME TypeOK, FlightOK, [Next]_vars
  PROVE  TypeOK'
<1> USE NamesAssumption, SizesAssumption DEF TypeOK, MaybeNames, index, rings, reaper, Bind
<1>1. ASSUME NEW i \in Ids, NEW n \in MaybeNames, NEW size \in Sizes, Adopt(i, n, size)
      PROVE  TypeOK'
  BY <1>1 DEF Adopt
<1>2. CASE Serve
  BY <1>2 DEF Serve
<1>3. ASSUME NEW c \in Callers, NEW n \in MaybeNames, NEW size \in Sizes, SpawnReserve(c, n, size)
      PROVE  TypeOK'
  BY <1>3 DEF SpawnReserve
<1>4. ASSUME NEW c \in Callers, SpawnStep(c)
      PROVE  TypeOK'
  <2>0. Idle \in [pc : {"idle", "spawning", "commit"}, id : Ids \cup {Nil}, name : MaybeNames]
    BY DEF Idle
  <2>1. CASE SpawnChild(c)
    BY <2>1 DEF SpawnChild, FlightOK
  <2>2. CASE SpawnCommit(c)
    BY <2>0, <2>2 DEF SpawnCommit, FlightOK
  <2>3. CASE SpawnAbort(c)
    BY <2>0, <2>3 DEF SpawnAbort, FlightOK
  <2> QED BY <1>4, <2>1, <2>2, <2>3 DEF SpawnStep
<1>5. ASSUME NEW x \in Ids \cup Names, NEW new \in MaybeNames, Rename(x, new)
      PROVE  TypeOK'
  <2>1. Lookup(x) \in Ids
    BY <1>5 DEF Rename, Lookup
  <2> QED BY <1>5, <2>1 DEF Rename
<1>6. ASSUME NEW i \in Ids, Exit(i) \/ Expire(i)
      PROVE  TypeOK'
  BY <1>6 DEF Exit, Expire
<1>7. CASE ReapStep
  BY <1>7 DEF ReapStep, ReapList, ReapCheck, Remove
<1>8. CASE UNCHANGED vars
  BY <1>8 DEF vars
<1> QED BY <1>1, <1>2, <1>3, <1>4, <1>5, <1>6, <1>7, <1>8 DEF Next

-----------------------------------------------------------------------------
(* The tables. *)

\* Empty tables are consistent.
LEMMA TableInit == Init => TableInv
  BY NamesAssumption DEF Init, TableInv, SelfID, FlightOK, ReapOK, IndexExact,
     PlaceholdersOwned, RunningIsOwned, InFlight, Idle

\* An adopted session enters both tables under an unused id and name.
LEMMA TableAdopt ==
  ASSUME TypeOK, TableInv, NEW i \in Ids, NEW n \in MaybeNames, NEW size \in Sizes,
         Adopt(i, n, size)
  PROVE  TableInv'
<1> USE NamesAssumption DEF TypeOK, TableInv, Adopt, Bind, MaybeNames, reaper
<1>0. byID[i] = Absent /\ child[i] = "none"
  BY DEF Minted
<1>1. SelfID'
  BY DEF SelfID
<1>2. FlightOK'
  BY <1>0 DEF FlightOK, PlaceholdersOwned, InFlight, Idle
<1>3. ReapOK'
  BY <1>0 DEF ReapOK
<1>4. IndexExact'
  BY <1>0 DEF IndexExact
<1>5. PlaceholdersOwned'
  BY <1>0 DEF PlaceholdersOwned, InFlight
<1>6. RunningIsOwned'
  BY <1>0 DEF RunningIsOwned
<1> QED BY <1>1, <1>2, <1>3, <1>4, <1>5, <1>6

\* A spawn reserves an unused id and an unused name, or none.
LEMMA TableReserve ==
  ASSUME TypeOK, TableInv, NEW c \in Callers, NEW n \in MaybeNames, NEW size \in Sizes,
         SpawnReserve(c, n, size)
  PROVE  TableInv'
<1> USE NamesAssumption DEF TypeOK, TableInv, Bind, MaybeNames, reaper
<1> PICK i \in Ids \ Minted :
          /\ byID' = [byID EXCEPT ![i] = Nil]
          /\ ringByID' = [ringByID EXCEPT ![i] = size]
          /\ call' = [call EXCEPT ![c] = [pc |-> "spawning", id |-> i, name |-> n]]
  BY DEF SpawnReserve
<1>0. /\ byID[i] = Absent /\ child[i] = "none" /\ \A d \in Callers : call[d].id # i
      /\ call[c].pc = "idle"
      /\ n # NoName => byName[n] = Absent
      /\ byName' = Bind(n, Nil)
      /\ UNCHANGED <<sname, child, todo, victim>>
  BY DEF Minted, SpawnReserve
<1>1. SelfID'
  BY <1>0 DEF SelfID
<1>2. FlightOK'
  BY <1>0 DEF FlightOK, Idle
<1>3. ReapOK'
  BY <1>0 DEF ReapOK
<1>4. IndexExact'
  BY <1>0 DEF IndexExact
<1>5. PlaceholdersOwned'
  <2>1. \A d \in Callers : d # c => call'[d] = call[d]
    OBVIOUS
  <2>2. call'[c] = [pc |-> "spawning", id |-> i, name |-> n]
    OBVIOUS
  <2>3. InFlight' = InFlight \cup {c}
    BY <2>1, <2>2 DEF InFlight
  <2>4. c \notin InFlight
    BY <1>0 DEF InFlight
  <2>5. \A j \in Ids : byID'[j] = Nil <=> \E d \in InFlight' : call'[d].id = j
    BY <1>0, <2>1, <2>2, <2>3, <2>4 DEF PlaceholdersOwned, InFlight
  <2>6. \A m \in Names : byName'[m] = Nil <=> \E d \in InFlight' : call'[d].name = m
    BY <1>0, <2>1, <2>2, <2>3, <2>4 DEF PlaceholdersOwned, InFlight
  <2>7. \A d, e \in InFlight' : d # e =>
            /\ call'[d].id # call'[e].id
            /\ call'[d].name = call'[e].name => call'[d].name = NoName
    BY <1>0, <2>1, <2>2, <2>3, <2>4 DEF PlaceholdersOwned, InFlight
  <2> QED BY <2>5, <2>6, <2>7 DEF PlaceholdersOwned
<1>6. RunningIsOwned'
  BY <1>0 DEF RunningIsOwned
<1> QED BY <1>1, <1>2, <1>3, <1>4, <1>5, <1>6

\* The child starts under the reserved id and name.
LEMMA TableChild ==
  ASSUME TypeOK, TableInv, NEW c \in Callers, SpawnChild(c)
  PROVE  TableInv'
<1> USE NamesAssumption DEF TypeOK, TableInv, SpawnChild, MaybeNames, rings, reaper
<1>0. /\ call[c].id \in Ids /\ byID[call[c].id] = Nil /\ child[call[c].id] = "none"
      /\ c \in InFlight /\ call[c].name \in MaybeNames
  BY DEF FlightOK, PlaceholdersOwned, InFlight
<1>1. SelfID'
  BY DEF SelfID
<1>2. \A d \in Callers : d # c /\ call[d].pc # "idle" => call[d].id # call[c].id
  BY <1>0 DEF PlaceholdersOwned, InFlight
<1>3. FlightOK'
  BY <1>0, <1>2 DEF FlightOK, Idle
<1>4. ReapOK'
  BY <1>0 DEF ReapOK
<1>5. IndexExact'
  BY <1>0 DEF IndexExact
<1>6. PlaceholdersOwned'
  <2>1. InFlight' = InFlight
    BY DEF InFlight
  <2>2. \A d \in Callers : call'[d].id = call[d].id /\ call'[d].name = call[d].name
    OBVIOUS
  <2> QED BY <2>1, <2>2 DEF PlaceholdersOwned, InFlight
<1>7. RunningIsOwned'
  BY <1>0 DEF RunningIsOwned
<1> QED BY <1>1, <1>3, <1>4, <1>5, <1>6, <1>7

\* The session takes the place of its own placeholders.
LEMMA TableCommit ==
  ASSUME TypeOK, TableInv, NEW c \in Callers, SpawnCommit(c)
  PROVE  TableInv'
<1> USE NamesAssumption DEF TypeOK, TableInv, SpawnCommit, Bind, MaybeNames, rings, reaper
<1>0. /\ call[c].id \in Ids /\ byID[call[c].id] = Nil
      /\ c \in InFlight /\ call[c].name \in MaybeNames
      /\ sname[call[c].id] = call[c].name
      /\ call[c].name # NoName => byName[call[c].name] = Nil
  BY DEF FlightOK, PlaceholdersOwned, InFlight
<1>1. SelfID'
  BY DEF SelfID
<1>2. \A d \in InFlight : d # c => /\ call[d].id # call[c].id
                                   /\ call[d].name = call[c].name => call[d].name = NoName
  BY <1>0 DEF PlaceholdersOwned
<1>3. FlightOK'
  BY <1>0 DEF FlightOK, Idle
<1>4. ReapOK'
  BY <1>0 DEF ReapOK
<1>5. IndexExact'
  BY <1>0 DEF IndexExact
<1>6. PlaceholdersOwned'
  <2>1. InFlight' = InFlight \ {c}
    BY DEF InFlight, Idle
  <2>2. \A d \in InFlight' : call'[d] = call[d] /\ d # c
    BY <2>1 DEF InFlight
  <2>3. \A j \in Ids : byID'[j] = Nil <=> \E d \in InFlight' : call'[d].id = j
    BY <1>0, <1>2, <2>1, <2>2 DEF PlaceholdersOwned
  <2>4. \A m \in Names : byName'[m] = Nil <=> \E d \in InFlight' : call'[d].name = m
    BY <1>0, <1>2, <2>1, <2>2 DEF PlaceholdersOwned
  <2>5. \A d, e \in InFlight' : d # e =>
            /\ call'[d].id # call'[e].id
            /\ call'[d].name = call'[e].name => call'[d].name = NoName
    BY <2>1, <2>2 DEF PlaceholdersOwned
  <2> QED BY <2>3, <2>4, <2>5 DEF PlaceholdersOwned
<1>7. RunningIsOwned'
  BY <1>0 DEF RunningIsOwned, InFlight
<1> QED BY <1>1, <1>3, <1>4, <1>5, <1>6, <1>7

\* A failed spawn takes its own placeholders away.
LEMMA TableAbort ==
  ASSUME TypeOK, TableInv, NEW c \in Callers, SpawnAbort(c)
  PROVE  TableInv'
<1> USE NamesAssumption DEF TypeOK, TableInv, SpawnAbort, Bind, MaybeNames, reaper
<1>0. /\ call[c].id \in Ids /\ byID[call[c].id] = Nil /\ child[call[c].id] = "none"
      /\ c \in InFlight /\ call[c].name \in MaybeNames
      /\ call[c].name # NoName => byName[call[c].name] = Nil
  BY DEF FlightOK, PlaceholdersOwned, InFlight
<1>1. SelfID'
  BY DEF SelfID
<1>2. \A d \in InFlight : d # c => /\ call[d].id # call[c].id
                                   /\ call[d].name = call[c].name => call[d].name = NoName
  BY <1>0 DEF PlaceholdersOwned
<1>3. FlightOK'
  BY <1>0 DEF FlightOK, Idle
<1>4. ReapOK'
  BY <1>0 DEF ReapOK
<1>5. IndexExact'
  BY <1>0 DEF IndexExact
<1>6. PlaceholdersOwned'
  <2>1. InFlight' = InFlight \ {c}
    BY DEF InFlight, Idle
  <2>2. \A d \in InFlight' : call'[d] = call[d] /\ d # c
    BY <2>1 DEF InFlight
  <2>3. \A j \in Ids : byID'[j] = Nil <=> \E d \in InFlight' : call'[d].id = j
    BY <1>0, <1>2, <2>1, <2>2 DEF PlaceholdersOwned
  <2>4. \A m \in Names : byName'[m] = Nil <=> \E d \in InFlight' : call'[d].name = m
    BY <1>0, <1>2, <2>1, <2>2 DEF PlaceholdersOwned
  <2>5. \A d, e \in InFlight' : d # e =>
            /\ call'[d].id # call'[e].id
            /\ call'[d].name = call'[e].name => call'[d].name = NoName
    BY <2>1, <2>2 DEF PlaceholdersOwned
  <2> QED BY <2>3, <2>4, <2>5 DEF PlaceholdersOwned
<1>7. RunningIsOwned'
  BY <1>0 DEF RunningIsOwned, InFlight
<1> QED BY <1>1, <1>3, <1>4, <1>5, <1>6, <1>7

\* A rename moves the session's own entry to a free name.
LEMMA TableRename ==
  ASSUME TypeOK, TableInv, NEW x \in Ids \cup Names, NEW new \in MaybeNames,
         Rename(x, new)
  PROVE  TableInv'
<1> USE NamesAssumption DEF TypeOK, TableInv, MaybeNames, rings, reaper
<1> DEFINE s == Lookup(x)
<1>0. s \in Ids /\ byID[s] = s
  BY DEF Rename, Lookup, SelfID, IndexExact
<1>a. /\ new # NoName => byName[new] \in {Absent, s}
      /\ byName' = [m \in Names |-> IF m = new THEN s
                                    ELSE IF m = sname[s] THEN Absent ELSE byName[m]]
      /\ sname' = [sname EXCEPT ![s] = new]
      /\ UNCHANGED <<byID, child, call, todo, victim>>
  BY DEF Rename
<1> HIDE DEF s
<1>1. SelfID'
  BY <1>a DEF SelfID
<1>2. FlightOK'
  <2>1. \A c \in Callers : call[c].pc = "commit" => call[c].id # s
    BY <1>0 DEF PlaceholdersOwned, InFlight, FlightOK
  <2> QED BY <1>0, <1>a, <2>1 DEF FlightOK, Idle
<1>3. ReapOK'
  BY <1>a DEF ReapOK
<1>4. IndexExact'
  BY <1>0, <1>a DEF IndexExact
<1>5. PlaceholdersOwned'
  <2>1. InFlight' = InFlight
    BY <1>a DEF InFlight
  <2>2. \A m \in Names : byName'[m] = Nil <=> byName[m] = Nil
    BY <1>0, <1>a DEF IndexExact
  <2> QED BY <1>a, <2>1, <2>2 DEF PlaceholdersOwned
<1>6. RunningIsOwned'
  BY <1>a DEF RunningIsOwned
<1> QED BY <1>1, <1>2, <1>3, <1>4, <1>5, <1>6

\* Exits and the passing of time leave the tables alone.
LEMMA TableExit ==
  ASSUME TypeOK, TableInv, NEW i \in Ids, Exit(i) \/ Expire(i)
  PROVE  TableInv'
<1> USE DEF TypeOK, TableInv, Exit, Expire, index, rings, reaper
<1>1. SelfID' /\ IndexExact'
  BY DEF SelfID, IndexExact
<1>2. FlightOK'
  BY DEF FlightOK, Idle
<1>3. ReapOK'
  BY DEF ReapOK
<1>4. PlaceholdersOwned'
  BY DEF PlaceholdersOwned, InFlight
<1>5. RunningIsOwned'
  BY DEF RunningIsOwned
<1> QED BY <1>1, <1>2, <1>3, <1>4, <1>5

\* The reaper removes a session that has expired, with the name it has now.
LEMMA TableReap ==
  ASSUME TypeOK, TableInv, ReapStep
  PROVE  TableInv'
<1> USE NamesAssumption DEF TypeOK, TableInv, MaybeNames, index, rings
<1>1. CASE ReapList \/ \E i \in Ids : ReapCheck(i)
  <2> USE <1>1 DEF ReapList, ReapCheck
  <2>1. ReapOK'
    BY DEF ReapOK, SelfID
  <2>2. SelfID' /\ IndexExact' /\ RunningIsOwned'
    BY DEF SelfID, IndexExact, RunningIsOwned
  <2>3. FlightOK'
    BY DEF FlightOK, Idle
  <2>4. PlaceholdersOwned'
    BY DEF PlaceholdersOwned, InFlight
  <2> QED BY <2>1, <2>2, <2>3, <2>4
<1>2. CASE Remove
  <2> USE <1>2
  <2> PICK v \in Ids : v = victim
    BY DEF Remove
  <2>0. /\ byID[v] = v /\ child[v] = "expired" /\ v \notin todo
        /\ sname[v] # NoName => byName[sname[v]] = v
    BY DEF Remove, ReapOK, IndexExact
  <2>1. /\ byID' = [byID EXCEPT ![v] = Absent]
        /\ byName' = [m \in Names |-> IF m = sname[v] THEN Absent ELSE byName[m]]
        /\ victim' = Absent
        /\ UNCHANGED <<sname, child, call, todo>>
    BY DEF Remove, Bind
  <2>2. SelfID'
    BY <2>0, <2>1 DEF SelfID
  <2>3. FlightOK'
    BY <2>1 DEF FlightOK, Idle
  <2>4. ReapOK'
    BY <2>0, <2>1 DEF ReapOK
  <2>5. IndexExact'
    BY <2>0, <2>1 DEF IndexExact
  <2>6. PlaceholdersOwned'
    <3>1. InFlight' = InFlight
      BY <2>1 DEF InFlight
    <3>2. \A m \in Names : byName'[m] = Nil <=> byName[m] = Nil
      BY <2>0, <2>1
    <3>3. \A i \in Ids : byID'[i] = Nil <=> byID[i] = Nil
      BY <2>0, <2>1
    <3> QED BY <2>1, <3>1, <3>2, <3>3 DEF PlaceholdersOwned
  <2>7. RunningIsOwned'
    BY <2>0, <2>1 DEF RunningIsOwned
  <2> QED BY <2>2, <2>3, <2>4, <2>5, <2>6, <2>7
<1> QED BY <1>1, <1>2 DEF ReapStep

\* Every step keeps the tables consistent.
LEMMA TableNext ==
  ASSUME TypeOK, TableInv, [Next]_vars
  PROVE  TableInv'
<1>1. CASE UNCHANGED vars
  BY <1>1 DEF vars, index, rings, reaper, TableInv, SelfID, FlightOK, ReapOK,
     IndexExact, PlaceholdersOwned, RunningIsOwned, InFlight, Idle
<1>2. CASE Serve
  BY <1>2 DEF Serve, index, rings, reaper, TableInv, SelfID, FlightOK, ReapOK,
     IndexExact, PlaceholdersOwned, RunningIsOwned, InFlight, Idle
<1>3. CASE \E c \in Callers : SpawnStep(c)
  BY <1>3, TableChild, TableCommit, TableAbort DEF SpawnStep
<1>4. CASE ReapStep
  BY <1>4, TableReap
<1>5. CASE \E i \in Ids : Exit(i) \/ Expire(i)
  BY <1>5, TableExit
<1>6. CASE \E i \in Ids, n \in MaybeNames, size \in Sizes : Adopt(i, n, size)
  BY <1>6, TableAdopt
<1>7. CASE \E c \in Callers, n \in MaybeNames, size \in Sizes : SpawnReserve(c, n, size)
  BY <1>7, TableReserve
<1>8. CASE \E x \in Ids \cup Names, new \in MaybeNames : Rename(x, new)
  BY <1>8, TableRename
<1> QED BY <1>1, <1>2, <1>3, <1>4, <1>5, <1>6, <1>7, <1>8 DEF Next

-----------------------------------------------------------------------------
(* The theorems. *)

\* The registry's tables are well typed and consistent in every reachable state.
THEOREM RegistryInvariance == Spec => [](TypeOK /\ TableInv)
<1>1. Init => TypeOK /\ TableInv
  BY TypeInit, TableInit
<1>2. TypeOK /\ TableInv /\ [Next]_vars => (TypeOK /\ TableInv)'
  BY TypeNext, TableNext DEF TableInv
<1> QED BY <1>1, <1>2, PTL DEF Spec

\* The name index is the inverse of the sessions' names (registry.go byName).
THEOREM IndexIsExact == Spec => []IndexExact
<1>1. TableInv => IndexExact
  BY DEF TableInv
<1> QED BY <1>1, RegistryInvariance, PTL

\* Every variable keeps its type (registry.go struct).
THEOREM RegistryTypes == Spec => []TypeOK
<1> QED BY RegistryInvariance, PTL

\* Placeholders exist exactly while their spawn is in flight (registry.go Spawn).
THEOREM PlaceholdersAreOwned == Spec => []PlaceholdersOwned
<1>1. TableInv => PlaceholdersOwned
  BY DEF TableInv
<1> QED BY <1>1, RegistryInvariance, PTL

\* No running child is dropped by the reaper or lost between the two halves of
\* Spawn (registry.go Spawn, ReapExpired).
THEOREM RunningChildrenAreOwned == Spec => []RunningIsOwned
<1>1. TableInv => RunningIsOwned
  BY DEF TableInv
<1> QED BY <1>1, RegistryInvariance, PTL

\* The reaper's snapshot stays valid while the lock is released (registry.go
\* ReapExpired, Remove).
THEOREM SnapshotStaysLive == Spec => []SnapshotLive
<1>1. TableInv => SnapshotLive
  BY DEF TableInv, ReapOK, SnapshotLive
<1> QED BY <1>1, RegistryInvariance, PTL

\* Lookup never answers with a session other than the one addressed, even when
\* names look like ids (registry.go Lookup).
THEOREM LookupIsSound == Spec => []LookupSound
<1>1. TypeOK /\ TableInv => LookupSound
  BY NamesAssumption DEF TypeOK, TableInv, SelfID, IndexExact, LookupSound, Lookup
<1> QED BY <1>1, RegistryInvariance, PTL

\* No step takes a name away from a registered session and gives it to another
\* at once (registry.go Rename, Spawn).
THEOREM NamesAreNeverStolen == Spec => NameNeverStolen
<1> DEFINE Kept == \A n \in Names : byName[n] \in Ids => byName'[n] \in {byName[n], Absent}
<1>1. ASSUME TypeOK, TableInv, [Next]_vars PROVE Kept
  <2> USE NamesAssumption DEF TypeOK, MaybeNames, Bind, index, rings
  <2>1. CASE UNCHANGED vars
    BY <2>1 DEF vars
  <2>2. CASE Serve
    BY <2>2 DEF Serve
  <2>3. ASSUME NEW c \in Callers, SpawnStep(c) PROVE Kept
    <3>1. call[c].pc # "idle" => \A n \in Names : call[c].name = n => byName[n] = Nil
      BY <1>1, <2>3 DEF TableInv, PlaceholdersOwned, InFlight
    <3> QED BY <2>3, <3>1 DEF SpawnStep, SpawnChild, SpawnCommit, SpawnAbort
  <2>4. CASE ReapStep
    BY <2>4 DEF ReapStep, ReapList, ReapCheck, Remove
  <2>5. CASE \E i \in Ids : Exit(i) \/ Expire(i)
    BY <2>5 DEF Exit, Expire
  <2>6. CASE \E i \in Ids, n \in MaybeNames, size \in Sizes : Adopt(i, n, size)
    BY <2>6 DEF Adopt
  <2>7. CASE \E c \in Callers, n \in MaybeNames, size \in Sizes : SpawnReserve(c, n, size)
    BY <2>7 DEF SpawnReserve
  <2>8. CASE \E x \in Ids \cup Names, new \in MaybeNames : Rename(x, new)
    BY <2>8 DEF Rename
  <2> HIDE DEF Kept
  <2> QED BY <1>1, <2>1, <2>2, <2>3, <2>4, <2>5, <2>6, <2>7, <2>8 DEF Next
<1>2. TypeOK /\ TableInv /\ [Next]_vars => [Kept]_vars
  BY <1>1
<1> QED BY <1>2, RegistryInvariance, PTL DEF Spec, NameNeverStolen

-----------------------------------------------------------------------------
(* The caps. *)

CapInv == BootOK /\ CapsHold

\* The table is finite, so its size is a number.
LEMMA RegisteredSize ==
  /\ IsFiniteSet(Registered)
  /\ Cardinality(Registered) \in Nat
  BY IdsAssumption, FS_Subset, FS_CardinalityType DEF Registered

\* Every step keeps the registry within its caps, or within what was adopted.
LEMMA CapNext ==
  ASSUME TypeOK, TableInv, CapInv, [Next]_vars
  PROVE  CapInv'
<1> USE CapsAssumption, SizesAssumption, NamesAssumption
<1>0. /\ IsFiniteSet(Registered) /\ Cardinality(Registered) \in Nat
      /\ adopted.count \in Nat /\ adopted.bytes \in Nat /\ ringReserved \in Int
  BY RegisteredSize DEF TypeOK
<1>1. ASSUME UNCHANGED <<serving, ringReserved, adopted>>, Registered' = Registered
      PROVE  CapInv'
  BY <1>1 DEF CapInv, BootOK, CapsHold
<1>2. ASSUME NEW i \in Ids, Registered' = Registered \ {i}, i \in Registered,
             ringReserved' <= ringReserved, ringReserved' \in Int, UNCHANGED <<serving, adopted>>
      PROVE  CapInv'
  <2>1. Cardinality(Registered') = Cardinality(Registered) - 1
    BY <1>0, <1>2, FS_RemoveElement
  <2> QED BY <1>0, <1>2, <2>1 DEF CapInv, BootOK, CapsHold
<1>3. ASSUME NEW i \in Ids, NEW n \in MaybeNames, NEW size \in Sizes, Adopt(i, n, size)
      PROVE  CapInv'
  <2>1. Registered' = Registered \cup {i} /\ i \notin Registered
    BY <1>3 DEF Adopt, Registered, Minted, TypeOK
  <2>2. Cardinality(Registered') = Cardinality(Registered) + 1
    BY <1>0, <2>1, FS_AddElement
  <2> QED BY <1>0, <1>3, <2>2 DEF Adopt, CapInv, BootOK, CapsHold
<1>4. CASE Serve
  BY <1>0, <1>4 DEF Serve, index, rings, CapInv, BootOK, CapsHold, Registered
<1>5. ASSUME NEW c \in Callers, NEW n \in MaybeNames, NEW size \in Sizes, SpawnReserve(c, n, size)
      PROVE  CapInv'
  <2> PICK i \in Ids \ Minted : byID' = [byID EXCEPT ![i] = Nil]
    BY <1>5 DEF SpawnReserve
  <2>1. Registered' = Registered \cup {i} /\ i \notin Registered
    BY DEF Registered, Minted, TypeOK
  <2>2. Cardinality(Registered') = Cardinality(Registered) + 1
    BY <1>0, <2>1, FS_AddElement
  <2> QED BY <1>0, <1>5, <2>2 DEF SpawnReserve, CapInv, BootOK, CapsHold
<1>6. ASSUME NEW c \in Callers, SpawnStep(c)
      PROVE  CapInv'
  <2>0. call[c].pc # "idle" => call[c].id \in Ids /\ byID[call[c].id] = Nil
    BY DEF TableInv, FlightOK, PlaceholdersOwned, InFlight
  <2>1. CASE SpawnChild(c)
    BY <1>1, <2>1 DEF SpawnChild, rings, Registered
  <2>2. CASE SpawnCommit(c)
    <3>1. Registered' = Registered
      BY <2>0, <2>2 DEF SpawnCommit, Registered, TypeOK
    <3> QED BY <1>1, <2>2, <3>1 DEF SpawnCommit, rings
  <2>3. CASE SpawnAbort(c)
    <3>1. Registered' = Registered \ {call[c].id} /\ call[c].id \in Registered
      BY <2>0, <2>3 DEF SpawnAbort, Registered, TypeOK
    <3>2. ringReserved' <= ringReserved /\ ringReserved' \in Int
      BY <1>0, <2>0, <2>3 DEF SpawnAbort, TypeOK
    <3> QED BY <1>2, <2>0, <2>3, <3>1, <3>2 DEF SpawnAbort
  <2> QED BY <1>6, <2>1, <2>2, <2>3 DEF SpawnStep
<1>7. CASE \E x \in Ids \cup Names, new \in MaybeNames : Rename(x, new)
  BY <1>1, <1>7 DEF Rename, rings, Registered
<1>8. CASE \E i \in Ids : Exit(i) \/ Expire(i)
  BY <1>1, <1>8 DEF Exit, Expire, index, rings, Registered
<1>9. CASE ReapStep
  <2>1. CASE ReapList \/ \E i \in Ids : ReapCheck(i)
    BY <1>1, <2>1 DEF ReapList, ReapCheck, index, rings, Registered
  <2>2. CASE Remove
    <3>0. victim \in Ids /\ byID[victim] = victim
      BY <2>2 DEF Remove, TypeOK, TableInv, ReapOK
    <3>1. Registered' = Registered \ {victim} /\ victim \in Registered
      BY <2>2, <3>0 DEF Remove, Registered, TypeOK
    <3>2. ringReserved' <= ringReserved /\ ringReserved' \in Int
      BY <1>0, <2>2, <3>0 DEF Remove, TypeOK
    <3> QED BY <1>2, <2>2, <3>0, <3>1, <3>2 DEF Remove
  <2> QED BY <1>9, <2>1, <2>2 DEF ReapStep
<1>10. CASE UNCHANGED vars
  BY <1>1, <1>10 DEF vars, index, rings, Registered
<1> QED BY <1>3, <1>4, <1>5, <1>6, <1>7, <1>8, <1>9, <1>10 DEF Next

\* Concurrent spawns never pass either cap; only adoption can, and spawns are
\* then refused (registry.go Spawn, Adopt).
THEOREM CapsAreKept == Spec => []CapsHold
<1>1. Init => CapInv
  <2> SUFFICES ASSUME Init PROVE CapInv OBVIOUS
  <2>1. Registered = {}
    BY DEF Init, Registered
  <2> QED BY <2>1, CapsAssumption, FS_EmptySet DEF Init, CapInv, BootOK, CapsHold
<1>2. (TypeOK /\ TableInv) /\ CapInv /\ [Next]_vars => CapInv'
  BY CapNext
<1>3. CapInv => CapsHold
  BY DEF CapInv
<1> QED BY <1>1, <1>2, <1>3, RegistryInvariance, PTL DEF Spec

-----------------------------------------------------------------------------
(* The sum over the table of reservations. *)

\* A set of natural numbers with an element has a least one.
LEMMA Least ==
    ASSUME NEW T, T \subseteq Nat, T # {}
    PROVE  \E x \in T : \A y \in T : x <= y
<1>. DEFINE R == OpToRel(<, Nat)
<1>1. IsWellFoundedOn(R, Nat)
  BY NatLessThanWellFounded
<1>2. \A x, y \in Nat : x < y => <<x, y>> \in R
  BY DEF OpToRel
<1>. HIDE DEF R
<1>3. PICK x \in T : \A y \in T : ~ (<<y, x>> \in R)
  BY <1>1, WFMin
<1>4. \A y \in T : ~ (y < x)
  BY <1>2, <1>3
<1>5. \A y \in T : x <= y
  BY <1>4
<1>. QED BY <1>5

\* The element a sum takes next.
First(s) == CHOOSE x \in s : TRUE

\* One step of the sum of f over s, t being the sums over smaller sets.
SumStep(f, t, s) == IF s = {} THEN 0 ELSE f[First(s)] + t[s \ {First(s)}]

\* t sums f over each set of ids.
Sums(f, t) == \A s \in SUBSET Ids : t[s] = SumStep(f, t, s)

\* What summing takes from a set leaves a smaller one.
LEMMA Smaller ==
    ASSUME NEW s \in SUBSET Ids, NEW x \in s
    PROVE  /\ s \ {x} \in SUBSET Ids /\ IsFiniteSet(s)
           /\ Cardinality(s) \in Nat /\ Cardinality(s \ {x}) \in Nat
           /\ Cardinality(s \ {x}) < Cardinality(s)
<1>1. IsFiniteSet(s) /\ Cardinality(s) \in Nat
  BY IdsAssumption, FS_Subset, FS_CardinalityType
<1>2. Cardinality(s \ {x}) = Cardinality(s) - 1 /\ IsFiniteSet(s \ {x})
  BY <1>1, FS_RemoveElement
<1>3. Cardinality(s \ {x}) \in Nat
  BY <1>2, FS_CardinalityType
<1>. QED BY <1>1, <1>2, <1>3

\* A set of sets of ids with an element has one whose proper subsets are not in it.
LEMMA SmallestSet ==
    ASSUME NEW B, B \subseteq SUBSET Ids, B # {}
    PROVE  \E s \in B : \A x \in s : s \ {x} \notin B
<1>. DEFINE T == {n \in Nat : \E s \in B : n = Cardinality(s)}
<1>1. \A s \in B : Cardinality(s) \in Nat
  BY IdsAssumption, FS_Subset, FS_CardinalityType
<1>2. T \subseteq Nat /\ T # {}
  <2>1. PICK s \in B : TRUE
    OBVIOUS
  <2>2. Cardinality(s) \in T
    BY <1>1
  <2>. QED BY <2>2
<1>3. PICK n \in T : \A k \in T : n <= k
  <2>. HIDE DEF T
  <2>. QED BY <1>2, Least
<1>4. PICK s \in B : n = Cardinality(s)
  OBVIOUS
<1>5. ASSUME NEW x \in s, s \ {x} \in B PROVE FALSE
  <2>1. Cardinality(s \ {x}) < Cardinality(s) /\ Cardinality(s \ {x}) \in Nat
    BY Smaller
  <2>2. Cardinality(s \ {x}) \in T
    BY <2>1, <1>5
  <2>. HIDE DEF T
  <2>3. n <= Cardinality(s \ {x})
    BY <2>2, <1>3
  <2>4. PICK d \in Nat, e \in Nat : d = Cardinality(s \ {x}) /\ e = Cardinality(s) /\ d < e
    BY <2>1, <1>1
  <2>5. e <= d
    BY <2>3, <2>4, <1>4, Zenon
  <2>. QED BY <2>4, <2>5
<1>. QED BY <1>5

\* The element a sum takes is one of the set.
LEMMA FirstIn == ASSUME NEW s, s # {} PROVE First(s) \in s
BY DEF First

\* Sums exist: what a set's sum is follows from the sums over smaller sets.
LEMMA SumsExist ==
    ASSUME NEW f
    PROVE  \E t : /\ Sums(f, t)
                  /\ t = [s \in SUBSET Ids |-> SumStep(f, t, s)]
<1>. DEFINE Upto(n) == {s \in SUBSET Ids : Cardinality(s) <= n}
            Solves(t, n) == t = [s \in SUBSET Ids |-> IF s \in Upto(n) THEN SumStep(f, t, s) ELSE 0]
            Bad == {n \in Nat : ~ \E t : Solves(t, n)}
<1>0. \A s \in SUBSET Ids : Cardinality(s) \in Nat /\ (s # {} => Cardinality(s) > 0)
  BY IdsAssumption, FS_Subset, FS_CardinalityType, FS_EmptySet
<1>1. ASSUME NEW n \in Nat PROVE \E t : Solves(t, n)
  <2>1. SUFFICES ASSUME Bad # {} PROVE FALSE
    OBVIOUS
  <2>2. PICK m \in Bad : \A k \in Bad : m <= k
    <3>1. Bad \subseteq Nat /\ Bad # {}
      BY <2>1
    <3>. HIDE DEF Bad
    <3>. QED BY <3>1, Least
  <2>3. m \in Nat /\ ~ \E t : Solves(t, m)
    OBVIOUS
  <2>4. CASE m = 0
    <3>. DEFINE z == [s \in SUBSET Ids |-> 0]
    <3>1. \A s \in Upto(m) : s = {}
      BY <1>0, <2>4
    <3>2. \A s \in SUBSET Ids : (IF s \in Upto(m) THEN SumStep(f, z, s) ELSE 0) = 0
      BY <3>1 DEF SumStep
    <3>3. Solves(z, m)
      BY <3>2
    <3>. QED BY <3>3, <2>3
  <2>5. CASE m # 0
    <3>1. PICK k \in Nat : m = k + 1
      BY <2>3, <2>5
    <3>2. PICK t : Solves(t, k)
      <4>0. ~ (m <= k)
        BY <3>1
      <4>1. k \notin Bad
        BY <4>0, <2>2, Zenon
      <4>. QED BY <4>1
    <3>3. PICK g : g = [s \in SUBSET Ids |-> IF s \in Upto(m) THEN SumStep(f, t, s) ELSE 0]
      OBVIOUS
    <3>4. \A s \in Upto(k) : s \in Upto(m) /\ g[s] = t[s]
      <4>1. SUFFICES ASSUME NEW s \in Upto(k) PROVE s \in Upto(m) /\ g[s] = t[s]
        OBVIOUS
      <4>2. s \in SUBSET Ids /\ s \in Upto(m)
        BY <1>0, <3>1
      <4>3. t[s] = SumStep(f, t, s)
        BY <4>2, <3>2
      <4>. QED BY <4>2, <4>3, <3>3
    <3>5. ASSUME NEW s \in Upto(m) PROVE SumStep(f, t, s) = SumStep(f, g, s)
      <4>1. CASE s = {}
        BY <4>1 DEF SumStep
      <4>2. CASE s # {}
        <5>1. First(s) \in s
          BY <4>2, FirstIn
        <5>2. s \ {First(s)} \in Upto(k)
          <6>1. s \in SUBSET Ids /\ Cardinality(s) <= k + 1 /\ Cardinality(s) \in Nat
            BY <3>1, <1>0
          <6>2. s \ {First(s)} \in SUBSET Ids /\ Cardinality(s \ {First(s)}) < Cardinality(s) /\ Cardinality(s \ {First(s)}) \in Nat
            BY <5>1, <6>1, Smaller
          <6>. QED BY <6>1, <6>2
        <5>. QED BY <4>2, <5>2, <3>4 DEF SumStep
      <4>. QED BY <4>1, <4>2
    <3>6. Solves(g, m)
      BY <3>3, <3>5
    <3>. QED BY <3>6, <2>3
  <2>. QED BY <2>4, <2>5
<1>2. PICK t : Solves(t, Cardinality(Ids))
  BY <1>0, <1>1
<1>3. \A s \in SUBSET Ids : s \in Upto(Cardinality(Ids))
  BY IdsAssumption, FS_Subset
<1>4. t = [s \in SUBSET Ids |-> SumStep(f, t, s)]
  BY <1>2, <1>3
<1>. QED BY <1>4 DEF Sums

\* A sum of whole numbers is one.
LEMMA SumIsInt ==
    ASSUME NEW f \in [Ids -> Int], NEW t, Sums(f, t), NEW s \in SUBSET Ids
    PROVE  t[s] \in Int
<1>. DEFINE B == {u \in SUBSET Ids : t[u] \notin Int}
<1>1. SUFFICES ASSUME B # {} PROVE FALSE
  OBVIOUS
<1>2. PICK u \in B : \A x \in u : u \ {x} \notin B
  <2>1. B \subseteq SUBSET Ids
    OBVIOUS
  <2>. HIDE DEF B
  <2>. QED BY <2>1, <1>1, SmallestSet
<1>3. u \in SUBSET Ids /\ t[u] \notin Int /\ \A x \in u : t[u \ {x}] \in Int /\ x \in Ids
  BY <1>2
<1>4. t[u] = SumStep(f, t, u)
  BY <1>3 DEF Sums
<1>5. CASE u = {}
  BY <1>3, <1>4, <1>5 DEF SumStep
<1>6. CASE u # {}
  <2>1. PICK c \in u : c = First(u)
    BY <1>6, FirstIn
  <2>2. t[u] = f[c] + t[u \ {c}]
    BY <2>1, <1>4, <1>6 DEF SumStep
  <2>. QED BY <2>2, <1>3
<1>. QED BY <1>5, <1>6

\* A sum is a number, and it does not matter which element is taken first.
LEMMA SumTakesAny ==
    ASSUME NEW f \in [Ids -> Int], NEW t, Sums(f, t), NEW s \in SUBSET Ids
    PROVE  t[s] \in Int /\ \A x \in s : t[s] = f[x] + t[s \ {x}]
<1>. DEFINE Good(u) == t[u] \in Int /\ \A x \in u : t[u] = f[x] + t[u \ {x}]
            B == {u \in SUBSET Ids : ~ Good(u)}
<1>1. SUFFICES ASSUME B # {} PROVE FALSE
  OBVIOUS
<1>2. PICK u \in B : \A x \in u : u \ {x} \notin B
  <2>1. B \subseteq SUBSET Ids
    OBVIOUS
  <2>. HIDE DEF B
  <2>. QED BY <2>1, <1>1, SmallestSet
<1>3. u \in SUBSET Ids /\ ~ Good(u) /\ \A x \in u : u \ {x} \in SUBSET Ids /\ Good(u \ {x})
  BY <1>2
<1>4. t[u] = SumStep(f, t, u)
  BY <1>3 DEF Sums
<1>5. CASE u = {}
  BY <1>3, <1>4, <1>5 DEF SumStep
<1>6. CASE u # {}
  <2>1. PICK c \in u : c = First(u)
    BY <1>6, FirstIn
  <2>2. t[u] = f[c] + t[u \ {c}]
    BY <2>1, <1>4, <1>6 DEF SumStep
  <2>3. c \in Ids /\ f[c] \in Int /\ t[u \ {c}] \in Int
    BY <1>3
  <2>4. t[u] \in Int
    BY <2>2, <2>3
  <2>5. ASSUME NEW x \in u PROVE t[u] = f[x] + t[u \ {x}]
    <3>1. CASE x = c
      BY <3>1, <2>2
    <3>2. CASE x # c
      <4>1. x \in u \ {c} /\ c \in u \ {x} /\ (u \ {c}) \ {x} = (u \ {x}) \ {c}
        BY <3>2
      <4>2. PICK v : v = (u \ {c}) \ {x} /\ v = (u \ {x}) \ {c}
        BY <4>1
      <4>3. t[u \ {c}] = f[x] + t[v] /\ t[u \ {x}] = f[c] + t[v]
        BY <4>1, <4>2, <1>3
      <4>4. t[v] \in Int /\ f[x] \in Int
        <5>1. x \in Ids /\ v \in SUBSET Ids
          BY <1>3, <4>2
        <5>. QED BY <5>1, SumIsInt
      <4>5. PICK p \in Int, q \in Int, r \in Int : p = f[c] /\ q = f[x] /\ r = t[v]
        BY <2>3, <4>4
      <4>6. t[u] = p + (q + r) /\ t[u \ {x}] = p + r
        BY <4>3, <4>5, <2>2
      <4>7. p + (q + r) = q + (p + r)
        OBVIOUS
      <4>. QED BY <4>5, <4>6, <4>7
    <3>. QED BY <3>1, <3>2
  <2>. QED BY <2>4, <2>5, <1>3
<1>. QED BY <1>5, <1>6

\* It is the sum that summing one element after another gives.
LEMMA SumOverSums ==
    ASSUME NEW f
    PROVE  \E t : Sums(f, t) /\ SumOver(f) = t[Ids]
<1>1. \E t : t = [s \in SUBSET Ids |-> IF s = {} THEN 0 ELSE f[First(s)] + t[s \ {First(s)}]]
  BY SumsExist DEF SumStep
<1>. DEFINE iter[s \in SUBSET Ids] == IF s = {} THEN 0 ELSE f[First(s)] + iter[s \ {First(s)}]
<1>2. SumOver(f) = iter[Ids]
  BY DEF SumOver, MapThenSumSet, MapThenFoldSet, First
<1>3. iter = [s \in SUBSET Ids |-> IF s = {} THEN 0 ELSE f[First(s)] + iter[s \ {First(s)}]]
  BY <1>1, Zenon
<1>. HIDE DEF iter
<1>4. Sums(f, iter)
  BY <1>3 DEF Sums, SumStep
<1>. QED BY <1>2, <1>4

\* Reservations that agree on a set have the same sum over it.
LEMMA SumsAgree ==
    ASSUME NEW f, NEW g, NEW t, NEW u, Sums(f, t), Sums(g, u),
           NEW s \in SUBSET Ids, \A x \in s : f[x] = g[x]
    PROVE  t[s] = u[s]
<1>. DEFINE B == {v \in SUBSET Ids : v \subseteq s /\ t[v] # u[v]}
<1>1. SUFFICES ASSUME B # {} PROVE FALSE
  OBVIOUS
<1>2. PICK v \in B : \A x \in v : v \ {x} \notin B
  <2>1. B \subseteq SUBSET Ids
    OBVIOUS
  <2>. HIDE DEF B
  <2>. QED BY <2>1, <1>1, SmallestSet
<1>3. v \in SUBSET Ids /\ v \subseteq s /\ t[v] # u[v] /\ \A x \in v : t[v \ {x}] = u[v \ {x}]
  BY <1>2
<1>4. t[v] = SumStep(f, t, v) /\ u[v] = SumStep(g, u, v)
  BY <1>3 DEF Sums
<1>5. CASE v = {}
  BY <1>3, <1>4, <1>5 DEF SumStep
<1>6. CASE v # {}
  <2>1. PICK c \in v : c = First(v)
    BY <1>6, FirstIn
  <2>2. t[v] = f[c] + t[v \ {c}] /\ u[v] = g[c] + u[v \ {c}]
    BY <2>1, <1>4, <1>6 DEF SumStep
  <2>3. f[c] = g[c] /\ t[v \ {c}] = u[v \ {c}]
    BY <1>3
  <2>. QED BY <2>2, <2>3, <1>3, Zenon
<1>. QED BY <1>5, <1>6

\* The sum over all the ids is one reservation and the sum of the others.
LEMMA SumsSplit ==
    ASSUME NEW f \in [Ids -> Int], NEW t, Sums(f, t), NEW i \in Ids
    PROVE  t[Ids] \in Int /\ t[Ids] = f[i] + t[Ids \ {i}] /\ t[Ids \ {i}] \in Int
<1>1. Ids \in SUBSET Ids /\ Ids \ {i} \in SUBSET Ids
  OBVIOUS
<1>2. PICK a \in SUBSET Ids, r \in SUBSET Ids : a = Ids /\ r = Ids \ {i}
  BY <1>1
<1>3. t[a] \in Int /\ \A x \in a : t[a] = f[x] + t[a \ {x}]
  BY SumTakesAny
<1>4. t[r] \in Int
  BY SumIsInt
<1>. QED BY <1>2, <1>3, <1>4, Zenon

\* Changing one reservation changes the sum by the difference.
LEMMA SumChange ==
    ASSUME NEW f \in [Ids -> Int], NEW g \in [Ids -> Int], NEW i \in Ids,
           \A j \in Ids : j # i => f[j] = g[j]
    PROVE  SumOver(f) \in Int /\ SumOver(g) = SumOver(f) - f[i] + g[i]
<1>1. PICK t : Sums(f, t) /\ SumOver(f) = t[Ids]
  BY SumOverSums
<1>2. PICK u : Sums(g, u) /\ SumOver(g) = u[Ids]
  BY SumOverSums
<1>3. PICK r : r = Ids \ {i} /\ r \in SUBSET Ids /\ Ids \in SUBSET Ids
  OBVIOUS
<1>4. t[Ids] \in Int /\ t[Ids] = f[i] + t[r] /\ t[r] \in Int
  BY <1>1, <1>3, SumsSplit, Zenon
<1>5. u[Ids] = g[i] + u[r]
  BY <1>2, <1>3, SumsSplit, Zenon
<1>6. t[r] = u[r]
  <2>1. \A x \in r : f[x] = g[x]
    BY <1>3
  <2>. QED BY <2>1, <1>1, <1>2, <1>3, SumsAgree
<1>7. PICK a \in Int, b \in Int, c \in Int : a = f[i] /\ b = g[i] /\ c = t[r]
  BY <1>4
<1>8. t[Ids] = a + c /\ u[Ids] = b + c
  BY <1>4, <1>5, <1>6, <1>7, Zenon
<1>9. b + c = (a + c) - a + b
  OBVIOUS
<1>10. SumOver(g) = SumOver(f) - a + b
  BY <1>1, <1>2, <1>8, <1>9, Zenon
<1>. QED BY <1>1, <1>4, <1>7, <1>10, Zenon

\* Nothing reserved, nothing summed.
LEMMA SumNone ==
    ASSUME NEW f \in [Ids -> {0}] PROVE SumOver(f) = 0
<1>1. PICK t : Sums(f, t) /\ SumOver(f) = t[Ids]
  BY SumOverSums
<1>2. PICK z : z = [s \in SUBSET Ids |-> 0]
  OBVIOUS
<1>3. Sums(f, z)
  <2>1. SUFFICES ASSUME NEW s \in SUBSET Ids PROVE SumStep(f, z, s) = 0
    BY <1>2 DEF Sums
  <2>2. CASE s = {}
    BY <2>2 DEF SumStep
  <2>3. CASE s # {}
    <3>1. First(s) \in s
      BY <2>3, FirstIn
    <3>2. f[First(s)] = 0 /\ z[s \ {First(s)}] = 0
      BY <3>1, <1>2
    <3>. QED BY <2>3, <3>2 DEF SumStep
  <2>. QED BY <2>2, <2>3
<1>4. Ids \in SUBSET Ids
  OBVIOUS
<1>5. t[Ids] = z[Ids]
  BY <1>1, <1>3, <1>4, SumsAgree
<1>. QED BY <1>1, <1>2, <1>4, <1>5

\* Changing one reservation and the total alike keeps the total a sum.
LEMMA ReserveChange ==
    ASSUME TypeOK, ReservedIsSum, NEW i \in Ids, NEW v \in Nat,
           ringByID' = [ringByID EXCEPT ![i] = v],
           ringReserved' = ringReserved - ringByID[i] + v,
           \A j \in Ids : byID'[j] = Absent => (j = i /\ v = 0) \/ (j # i /\ byID[j] = Absent)
    PROVE  ReservedIsSum'
<1>. DEFINE f == ringByID
            g == [ringByID EXCEPT ![i] = v]
<1>1. ringByID \in [Ids -> Nat]
  BY DEF TypeOK
<1>2. /\ ringByID \in [Ids -> Int] /\ g \in [Ids -> Int] /\ g[i] = v
      /\ \A j \in Ids : j # i => ringByID[j] = g[j]
  BY <1>1
<1>. HIDE DEF g
<1>3. SumOver(g) = SumOver(ringByID) - ringByID[i] + g[i]
  BY <1>2, SumChange
<1>4. ringReserved = SumOver(ringByID) /\ \A j \in Ids : byID[j] = Absent => ringByID[j] = 0
  BY DEF ReservedIsSum
<1>5. ringByID' = g
  BY DEF g
<1>6. ringReserved' = SumOver(ringByID')
  BY <1>2, <1>3, <1>4, <1>5, Zenon
<1>7. \A j \in Ids : byID'[j] = Absent => ringByID'[j] = 0
  BY <1>2, <1>4, <1>5
<1>. QED BY <1>6, <1>7 DEF ReservedIsSum

\* A step that leaves the reservations alone, and drops nobody, keeps the sum.
LEMMA ReserveSame ==
    ASSUME ReservedIsSum, UNCHANGED rings, \A j \in Ids : byID'[j] = Absent => byID[j] = Absent
    PROVE  ReservedIsSum'
<1>1. ringByID' = ringByID /\ ringReserved' = ringReserved
  BY DEF rings
<1>2. ringReserved = SumOver(ringByID) /\ \A j \in Ids : byID[j] = Absent => ringByID[j] = 0
  BY DEF ReservedIsSum
<1>3. ringReserved' = SumOver(ringByID')
  BY <1>1, <1>2, Zenon
<1>. QED BY <1>1, <1>2, <1>3 DEF ReservedIsSum

\* Each step reserves and gives back alike in the table and in the total.
LEMMA SumNext ==
    ASSUME TypeOK, TableInv, ReservedIsSum, [Next]_vars
    PROVE  ReservedIsSum'
<1>0. /\ ringByID \in [Ids -> Nat] /\ ringReserved \in Int
      /\ byID \in [Ids -> Ids \cup {Absent, Nil}] /\ Absent \notin Ids /\ Absent # Nil
  BY NamesAssumption DEF TypeOK
<1>0a. \A j \in Ids : byID[j] = Absent => ringByID[j] = 0
  BY DEF ReservedIsSum
<1>1. ASSUME NEW i \in Ids, NEW n \in MaybeNames, NEW size \in Sizes, Adopt(i, n, size)
      PROVE  ReservedIsSum'
  <2>1. byID[i] = Absent /\ ringByID[i] = 0 /\ size \in Nat
    BY <1>1, <1>0a, SizesAssumption DEF Adopt, Minted
  <2>2. /\ ringByID' = [ringByID EXCEPT ![i] = size]
        /\ ringReserved' = ringReserved - ringByID[i] + size
        /\ \A j \in Ids : byID'[j] = Absent => j # i /\ byID[j] = Absent
    BY <1>1, <2>1, <1>0 DEF Adopt
  <2>. QED BY <2>1, <2>2, ReserveChange
<1>2. ASSUME NEW c \in Callers, NEW n \in MaybeNames, NEW size \in Sizes, SpawnReserve(c, n, size)
      PROVE  ReservedIsSum'
  <2>1. PICK i \in Ids \ Minted : /\ byID' = [byID EXCEPT ![i] = Nil]
                                  /\ ringByID' = [ringByID EXCEPT ![i] = size]
    BY <1>2 DEF SpawnReserve
  <2>2. byID[i] = Absent /\ ringByID[i] = 0 /\ size \in Nat
    BY <1>0a, SizesAssumption DEF Minted
  <2>3. /\ ringReserved' = ringReserved - ringByID[i] + size
        /\ \A j \in Ids : byID'[j] = Absent => j # i /\ byID[j] = Absent
    BY <1>2, <2>1, <2>2, <1>0 DEF SpawnReserve
  <2>. QED BY <2>1, <2>2, <2>3, ReserveChange
<1>3. ASSUME NEW c \in Callers, SpawnStep(c) PROVE ReservedIsSum'
  <2>0. call[c].pc # "idle" => call[c].id \in Ids
    BY DEF TableInv, FlightOK
  <2>1. CASE SpawnChild(c)
    BY <2>1, ReserveSame DEF SpawnChild
  <2>2. CASE SpawnCommit(c)
    <3>1. UNCHANGED rings /\ \A j \in Ids : byID'[j] = Absent => byID[j] = Absent
      BY <2>0, <2>2, <1>0 DEF SpawnCommit
    <3>. QED BY <3>1, ReserveSame
  <2>3. CASE SpawnAbort(c)
    <3>1. PICK i \in Ids : i = call[c].id
      BY <2>0, <2>3 DEF SpawnAbort
    <3>2. /\ ringByID' = [ringByID EXCEPT ![i] = 0]
          /\ ringReserved' = ringReserved - ringByID[i] + 0
          /\ \A j \in Ids : byID'[j] = Absent => j = i \/ byID[j] = Absent
      BY <2>3, <3>1, <1>0 DEF SpawnAbort
    <3>3. \A j \in Ids : byID'[j] = Absent => (j = i /\ 0 = 0) \/ (j # i /\ byID[j] = Absent)
      BY <3>2
    <3>. QED BY <3>2, <3>3, ReserveChange
  <2>. QED BY <1>3, <2>1, <2>2, <2>3 DEF SpawnStep
<1>4. CASE Remove
  <2>1. PICK i \in Ids : i = victim
    BY <1>4, NamesAssumption DEF Remove, TypeOK
  <2>2. /\ ringByID' = [ringByID EXCEPT ![i] = 0]
        /\ ringReserved' = ringReserved - ringByID[i] + 0
        /\ \A j \in Ids : byID'[j] = Absent => j = i \/ byID[j] = Absent
    BY <1>4, <2>1, <1>0 DEF Remove
  <2>3. \A j \in Ids : byID'[j] = Absent => (j = i /\ 0 = 0) \/ (j # i /\ byID[j] = Absent)
    BY <2>2
  <2>. QED BY <2>2, <2>3, ReserveChange
<1>5. CASE \/ Serve \/ ReapList \/ \E i \in Ids : ReapCheck(i) \/ Exit(i) \/ Expire(i)
           \/ UNCHANGED vars
  <2>1. UNCHANGED rings /\ byID' = byID
    BY <1>5 DEF Serve, ReapList, ReapCheck, Exit, Expire, vars, index, rings
  <2>. QED BY <2>1, ReserveSame
<1>6. CASE \E x \in Ids \cup Names, new \in MaybeNames : Rename(x, new)
  <2>1. UNCHANGED rings /\ byID' = byID
    BY <1>6 DEF Rename, rings
  <2>. QED BY <2>1, ReserveSame
<1>. QED BY <1>1, <1>2, <1>3, <1>4, <1>5, <1>6 DEF Next, ReapStep

\* The running total is the sum of the reservations in the table, for any number of
\* sessions: no failed spawn and no reaped session leaves memory reserved
\* (registry.go Spawn, Adopt, Remove).
THEOREM ReservedIsSumAlways == Spec => []ReservedIsSum
<1>1. Init => ReservedIsSum
  <2>. SUFFICES ASSUME Init PROVE ReservedIsSum
    OBVIOUS
  <2>1. ringByID \in [Ids -> {0}] /\ ringReserved = 0
    BY DEF Init
  <2>2. SumOver(ringByID) = 0
    BY <2>1, SumNone
  <2>. QED BY <2>1, <2>2 DEF ReservedIsSum
<1>2. (TypeOK /\ TableInv) /\ ReservedIsSum /\ [Next]_vars => ReservedIsSum'
  BY SumNext
<1>. QED BY <1>1, <1>2, RegistryInvariance, PTL DEF Spec
=============================================================================
