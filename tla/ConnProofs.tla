----------------------------- MODULE ConnProofs -----------------------------
(***************************************************************************)
(* What a connection holds, it gives back, and a session counts its        *)
(* subscribers exactly, for any finite set of connections and any set of   *)
(* sessions.                                                               *)
(***************************************************************************)
EXTENDS Conn, FiniteSetTheorems, TLAPS

\* Nothing is known of a session that has not been spawned.
FreshInv ==
    \A s \in Sessions : state[s] = "none" =>
        /\ subscribers[s] = 0 /\ lock[s] = None
        /\ \A c \in Conns : att[c][s] = "none" /\ Arg(c) # s /\ s \notin todo[c]

\* Where the loop has ended: cleanup has closed the connection and emptied the map
\* of attachments.
EndInv ==
    \A c \in Conns :
        /\ at[c][1] \in {"hello", "loop", "reply", "attach", "input", "resize", "return"} =>
               ~ended[c] /\ todo[c] = {}
        /\ at[c][1] \in {"cleanup", "scan", "unlock", "gone"} => ended[c]
        /\ at[c][1] \in {"release", "term"} /\ ~ended[c] => todo[c] = {}
        /\ ended[c] => closed[c] /\ Attached(c) = {}
        /\ At(c, "gone") => todo[c] = {}

\* An attachment that is being made is in the map, one that is being released is
\* neither there nor waiting to be visited.
AttachInv ==
    \A c \in Conns :
        /\ At(c, "attach") => att[c][Arg(c)] # "none"
        /\ At(c, "release") => att[c][Arg(c)] = "none" /\ Arg(c) \notin todo[c]

\* A feed that runs belongs to an attachment that is not yet released.
FeedInv ==
    \A c \in Conns, f \in Sessions :
        feed[c][f] \in {"wait", "write"} => c \in Subscribed(f)

\* The count, as long as it is used.
CountInv ==
    \A s \in Sessions : Found(s) => subscribers[s] = Cardinality(Subscribed(s))

\* The scan has still to visit every session whose write lock the connection has.
ScanInv ==
    \A c \in Conns, s \in Sessions : Found(s) /\ lock[s] = c =>
        /\ ~At(c, "gone")
        /\ At(c, "scan") => s \in todo[c]
        /\ At(c, "unlock") => s \in todo[c] \cup {Arg(c)}

ConnInv == FreshInv /\ EndInv /\ AttachInv /\ FeedInv /\ CountInv /\ ScanInv

\* At most one resize is between the unlock and the terminal, unless they overlap;
\* the size stored is the one on its way, or has arrived.
SizeInv ==
    \A s \in Sessions : state[s] \in {"none", "running"} /\ s \notin overlap =>
        /\ \A c, d \in Resizing(s) : c = d
        /\ \A c \in Resizing(s) : size[s] = c
        /\ Resizing(s) = {} => size[s] = tty[s]

-----------------------------------------------------------------------------
(* Types. *)

\* Which pairs are places.
LEMMA PlacesHas ==
  /\ \A l \in Plain : <<l, None>> \in Places
  /\ \A l \in Acting, s \in Sessions : <<l, s>> \in Places
BY DEF Places, Plain, Acting

\* A loop that acts on something acts on a session, one that does not on nothing.
LEMMA ArgType ==
  ASSUME TypeOK, NEW c \in Conns
  PROVE  /\ at[c] = <<at[c][1], Arg(c)>>
         /\ \/ at[c][1] \in Acting /\ Arg(c) \in Sessions
            \/ at[c][1] \in Plain /\ Arg(c) = None
<1>1. at[c] \in Places
  BY DEF TypeOK
<1>2. CASE at[c] \in Plain \X {None}
  BY <1>2 DEF Arg
<1>3. CASE at[c] \in Acting \X Sessions
  BY <1>3 DEF Arg
<1> QED BY <1>1, <1>2, <1>3 DEF Places

\* A loop goes from place to place.
LEMMA PlaceNext ==
  ASSUME TypeOK, [Next]_vars
  PROVE  at' \in [Conns -> Places]
<1>0. /\ \A c \in Conns : \A l \in Plain : Goto(c, l, None) => at' \in [Conns -> Places]
      /\ \A c \in Conns : \A l \in Acting, s \in Sessions : Goto(c, l, s) => at' \in [Conns -> Places]
  <2>1. \A c \in Conns, p \in Places : [at EXCEPT ![c] = p] \in [Conns -> Places]
    BY DEF TypeOK
  <2> QED BY <2>1, PlacesHas DEF Goto
<1>00. at \in [Conns -> Places]
  BY DEF TypeOK
<1>1. CASE \E c \in Conns : Stall(c) \/ Disconnect(c) \/ \E f \in Sessions : FeedStep(c, f)
  BY <1>00, <1>1 DEF Stall, Disconnect, FeedStep, FeedTake, FeedWrote, FeedEnd, loop
<1>2. CASE \E c \in Conns : OnHello(c)
  BY <1>0, <1>2 DEF OnHello, Return, Plain, Acting
<1>3. CASE \E c \in Conns : OnQuery(c)
  BY <1>0, <1>3 DEF OnQuery, Answer, Plain, Acting
<1>4. CASE \E c \in Conns : ReadFails(c)
  BY <1>0, <1>4 DEF ReadFails, Return, Plain, Acting
<1>5. CASE \E c \in Conns : Reply(c)
  BY <1>0, <1>5 DEF Reply, Plain, Acting
<1>6. CASE \E c \in Conns : Setsize(c)
  BY <1>0, <1>6 DEF Setsize, Answer, Plain, Acting
<1>7. CASE \E c \in Conns : AttachStart(c)
  BY <1>0, <1>7 DEF AttachStart, Plain, Acting
<1>8. CASE \E c \in Conns : LingerKill(c)
  <2> PICK c \in Conns : LingerKill(c) BY <1>8
  <2>1. Arg(c) \in Sessions
    BY ArgType DEF LingerKill, At, Plain
  <2> QED BY <1>0, <2>1 DEF LingerKill, Back, Plain, Acting
<1>9. CASE \E c \in Conns : WriteInput(c)
  BY <1>0, <1>9 DEF WriteInput, Plain, Acting
<1>10. CASE \E c \in Conns : Cleanup(c)
  BY <1>0, <1>10 DEF Cleanup, Plain, Acting
<1>11. CASE \E c \in Conns : CleanupList(c)
  BY <1>0, <1>11 DEF CleanupList, Plain, Acting
<1>12. CASE \E c \in Conns : ScanRelease(c)
  BY <1>0, <1>12 DEF ScanRelease, Plain, Acting
<1>13. CASE \E c \in Conns : DropConn(c)
  BY <1>0, <1>13 DEF DropConn, Plain, Acting
<1>14. CASE \E c \in Conns : Release(c)
  <2> PICK c \in Conns : Release(c) BY <1>14
  <2>1. Arg(c) \in Sessions
    BY ArgType DEF Release, At, Plain
  <2> QED BY <1>0, <2>1 DEF Release, Back, Plain, Acting
<1>15. CASE \E c \in Conns, s \in Sessions : OnAttach(c, s)
  BY <1>0, <1>00, <1>15 DEF OnAttach, Plain, Acting
<1>16. CASE \E c \in Conns, s \in Sessions : OnDetach(c, s)
  BY <1>0, <1>00, <1>16 DEF OnDetach, Plain, Acting
<1>17. CASE \E c \in Conns, s \in Sessions : OnInput(c, s)
  BY <1>0, <1>00, <1>17 DEF OnInput, Plain, Acting
<1>18. CASE \E c \in Conns, s \in Sessions : OnTakeWrite(c, s)
  BY <1>0, <1>00, <1>18 DEF OnTakeWrite, Answer, Plain, Acting
<1>19. CASE \E c \in Conns, s \in Sessions : OnReleaseWrite(c, s)
  BY <1>0, <1>00, <1>19 DEF OnReleaseWrite, Answer, Plain, Acting
<1>20. CASE \E c \in Conns, s \in Sessions : OnKill(c, s)
  BY <1>0, <1>00, <1>20 DEF OnKill, Answer, Plain, Acting
<1>21. CASE \E c \in Conns, s \in Sessions : OnSpawn(c, s)
  BY <1>0, <1>00, <1>21 DEF OnSpawn, Answer, Plain, Acting
<1>22. CASE \E c \in Conns, s \in Sessions : OnResize(c, s)
  BY <1>0, <1>00, <1>22 DEF OnResize, Plain, Acting
<1>23. CASE \E c \in Conns, s \in Sessions : CleanupNext(c, s)
  BY <1>0, <1>00, <1>23 DEF CleanupNext, Plain, Acting
<1>24. CASE \E c \in Conns, s \in Sessions : ScanRead(c, s)
  BY <1>0, <1>00, <1>24 DEF ScanRead, Plain, Acting
<1>25. CASE \E s \in Sessions : ChildRead(s) \/ Exit(s) \/ Reap(s)
  BY <1>00, <1>25 DEF ChildRead, Exit, Reap, loop
<1>26. CASE UNCHANGED vars
  BY <1>00, <1>26 DEF vars, loop
<1> QED
  BY <1>1, <1>2, <1>3, <1>4, <1>5, <1>6, <1>7, <1>8, <1>9, <1>10, <1>11, <1>12, <1>13, <1>14, <1>15, <1>16, <1>17, <1>18, <1>19, <1>20, <1>21, <1>22, <1>23, <1>24, <1>25, <1>26
     DEF Next, Request, Step, Terminated

\* Every step keeps the types.  A released attachment was counted, so the count does
\* not fall below zero.
LEMMA TypeNext ==
  ASSUME TypeOK, CountInv, [Next]_vars
  PROVE  TypeOK'
<1>0. at' \in [Conns -> Places]
  BY PlaceNext
<1> USE <1>0, RoomAssumption DEF TypeOK, loop, net, pumps, grid, session
<1>1. CASE \E c \in Conns : Stall(c)
  BY <1>1 DEF Stall
<1>2. CASE \E c \in Conns : Disconnect(c)
  BY <1>2 DEF Disconnect
<1>3. CASE \E c \in Conns : OnHello(c)
  <2> PICK c \in Conns : OnHello(c) BY <1>3
  <2>1. UNCHANGED <<ended, net, att, pumps, todo, session>>
    BY DEF OnHello
  <2>2. \A token : ScopeFor(token) \in {"control", "ro", None}
    BY DEF ScopeFor
  <2>3. scope' \in [Conns -> {"control", "ro"}]
    BY <2>2 DEF OnHello
  <2>4. frames' = [frames EXCEPT ![c] = 0] \/ frames' = frames
    BY DEF OnHello, Return
  <2>5. frames' \in [Conns -> 0 .. MaxFrames]
    <3>1. 0 \in 0 .. MaxFrames /\ frames \in [Conns -> 0 .. MaxFrames]
      OBVIOUS
    <3>2. CASE frames' = [frames EXCEPT ![c] = 0]
      BY <3>1, <3>2, Zenon
    <3> QED BY <2>4, <3>1, <3>2
  <2> QED BY <2>1, <2>3, <2>5
<1>4. CASE \E c \in Conns : OnQuery(c)
  BY <1>4 DEF OnQuery, Frame
<1>5. CASE \E c \in Conns : ReadFails(c)
  BY <1>5 DEF ReadFails, Return
<1>6. CASE \E c \in Conns : Reply(c)
  BY <1>6 DEF Reply
<1>7. CASE \E c \in Conns : Setsize(c)
  <2> PICK c \in Conns : Setsize(c) BY <1>7
  <2>1. Arg(c) \in Sessions
    BY ArgType DEF Setsize, At, Plain
  <2> QED BY <2>1 DEF Setsize
<1>8. CASE \E c \in Conns : AttachStart(c)
  <2> PICK c \in Conns : AttachStart(c) BY <1>8
  <2>1. Arg(c) \in Sessions
    BY ArgType DEF AttachStart, At, Plain
  <2> QED BY <2>1 DEF AttachStart, FeedIs
<1>9. CASE \E c \in Conns : LingerKill(c)
  <2> PICK c \in Conns : LingerKill(c) BY <1>9
  <2>1. Arg(c) \in Sessions
    BY ArgType DEF LingerKill, At, Plain
  <2> QED BY <2>1 DEF LingerKill
<1>10. CASE \E c \in Conns : WriteInput(c)
  <2> PICK c \in Conns : WriteInput(c) BY <1>10
  <2>1. Arg(c) \in Sessions
    BY ArgType DEF WriteInput, At, Plain
  <2>2. CASE UNCHANGED bytes
    BY <2>2 DEF WriteInput
  <2>3. CASE bytes[Arg(c)] < Room /\ bytes' = [bytes EXCEPT ![Arg(c)] = @ + 1]
    <3>1. bytes[Arg(c)] \in 0 .. Room /\ bytes[Arg(c)] + 1 \in 0 .. Room
      BY <2>1, <2>3
    <3> QED BY <2>3, <3>1 DEF WriteInput
  <2> QED BY <2>2, <2>3 DEF WriteInput
<1>11. CASE \E c \in Conns : Cleanup(c)
  BY <1>11 DEF Cleanup, Attached
<1>12. CASE \E c \in Conns : CleanupList(c)
  BY <1>12 DEF CleanupList
<1>13. CASE \E c \in Conns : ScanRelease(c)
  <2> PICK c \in Conns : ScanRelease(c) BY <1>13
  <2>1. lock' \in [Sessions -> Conns \cup {None}]
    BY DEF ScanRelease, ReleaseWrite
  <2> QED BY <2>1 DEF ScanRelease
<1>14. CASE \E c \in Conns : DropConn(c)
  BY <1>14 DEF DropConn
<1>15. CASE \E c \in Conns : Release(c)
  <2> PICK c \in Conns : Release(c) BY <1>15
  <2>1. Arg(c) \in Sessions
    BY ArgType DEF Release, At, Plain
  <2>2. Found(Arg(c)) => subscribers[Arg(c)] > 0
    <3>0. at[c] = <<"release", Arg(c)>>
      BY ArgType DEF Release, At
    <3>1. c \in Subscribed(Arg(c)) /\ Subscribed(Arg(c)) \subseteq Conns
      BY <3>0 DEF Subscribed
    <3>2. Cardinality(Subscribed(Arg(c))) # 0 /\ Cardinality(Subscribed(Arg(c))) \in Nat
      BY <3>1, ConnsAssumption, FS_Subset, FS_EmptySet, FS_CardinalityType
    <3> QED BY <2>1, <3>2 DEF CountInv
  <2>3. subscribers' \in [Sessions -> Nat]
    BY <2>1, <2>2 DEF Release
  <2> QED BY <2>1, <2>3 DEF Release, FeedIs
<1>16. CASE \E c \in Conns, s \in Sessions : OnAttach(c, s)
  BY <1>16 DEF OnAttach, Frame
<1>17. CASE \E c \in Conns, s \in Sessions : OnDetach(c, s)
  BY <1>17 DEF OnDetach, Frame
<1>18. CASE \E c \in Conns, s \in Sessions : OnInput(c, s)
  BY <1>18 DEF OnInput, Control, Frame
<1>19. CASE \E c \in Conns, s \in Sessions : OnTakeWrite(c, s)
  BY <1>19 DEF OnTakeWrite, Control, Frame
<1>20. CASE \E c \in Conns, s \in Sessions : OnReleaseWrite(c, s)
  BY <1>20 DEF OnReleaseWrite, Control, Frame, ReleaseWrite
<1>21. CASE \E c \in Conns, s \in Sessions : OnKill(c, s)
  BY <1>21 DEF OnKill, Control, Frame
<1>22. CASE \E c \in Conns, s \in Sessions : OnSpawn(c, s)
  BY <1>22 DEF OnSpawn, Control, Frame
<1>23. CASE \E c \in Conns, s \in Sessions : OnResize(c, s)
  BY <1>23 DEF OnResize, Control, Frame
<1>24. CASE \E c \in Conns, s \in Sessions : CleanupNext(c, s)
  BY <1>24 DEF CleanupNext
<1>25. CASE \E c \in Conns, s \in Sessions : ScanRead(c, s)
  BY <1>25 DEF ScanRead
<1>26. CASE \E c \in Conns, s \in Sessions : FeedTake(c, s)
  BY <1>26 DEF FeedTake, FeedIs
<1>27. CASE \E c \in Conns, s \in Sessions : FeedWrote(c, s)
  BY <1>27 DEF FeedWrote, FeedIs
<1>28. CASE \E c \in Conns, s \in Sessions : FeedEnd(c, s)
  BY <1>28 DEF FeedEnd, FeedIs
<1>29. CASE \E s \in Sessions : ChildRead(s)
  BY <1>29 DEF ChildRead
<1>30. CASE \E s \in Sessions : Exit(s)
  BY <1>30 DEF Exit
<1>31. CASE \E s \in Sessions : Reap(s)
  BY <1>31 DEF Reap
<1>32. CASE UNCHANGED vars
  BY <1>32 DEF vars
<1> QED
  BY <1>1, <1>2, <1>3, <1>4, <1>5, <1>6, <1>7, <1>8, <1>9, <1>10, <1>11, <1>12, <1>13, <1>14, <1>15, <1>16, <1>17, <1>18, <1>19, <1>20, <1>21, <1>22, <1>23, <1>24, <1>25, <1>26, <1>27, <1>28, <1>29, <1>30, <1>31, <1>32
     DEF Next, Request, Step, FeedStep, Terminated

-----------------------------------------------------------------------------
(* The kinds of step. *)

\* Where a jump leads: the loop of c moves, the others stay.
LEMMA GotoAt ==
  ASSUME TypeOK, NEW c \in Conns, NEW l, NEW s, Goto(c, l, s)
  PROVE  /\ at'[c] = <<l, s>> /\ at'[c][1] = l /\ at'[c][2] = s
         /\ \A d \in Conns : d # c => at'[d] = at[d]
BY DEF Goto, TypeOK

\* The goroutine of a feed has not ended.
Runs(c, f) == feed[c][f] \in {"wait", "write"}

\* Every step of clients, children, the reaper and the feeds: no loop moves, and a
\* write lock is at most dropped.
Still ==
    /\ UNCHANGED <<at, att, todo, ended, subscribers>>
    /\ \A s \in Sessions : lock'[s] \in {lock[s], None}
    /\ \A c \in Conns : closed[c] => closed'[c]
    /\ \A c \in Conns, f \in Sessions : Runs(c, f)' => Runs(c, f)

\* A loop between frames, or at one that concerns no attachment.
Working == {"hello", "loop", "reply", "input", "resize"}

\* A step of such a loop.
Calm(c) ==
    /\ UNCHANGED <<att, feed, todo, ended, closed, subscribers>>
    /\ at[c][1] \in Working /\ at'[c][1] \in Working \cup {"return"}
    /\ \A d \in Conns : d # c => at'[d] = at[d]
    /\ at'[c][2] = None \/ Found(at'[c][2])
    /\ \A s \in Sessions : lock'[s] = lock[s] \/ (Found(s) /\ lock'[s] \in {None, c})

\* Every step is still, calm, or one that takes or gives back something.
LEMMA Kinds ==
  ASSUME TypeOK, [Next]_vars
  PROVE  \/ Still
         \/ \E c \in Conns : Calm(c)
         \/ \E c \in Conns : \/ AttachStart(c) \/ LingerKill(c) \/ Release(c) \/ Cleanup(c)
                             \/ CleanupList(c) \/ ScanRelease(c) \/ DropConn(c)
         \/ \E c \in Conns, s \in Sessions :
                \/ OnAttach(c, s) \/ OnDetach(c, s) \/ CleanupNext(c, s) \/ ScanRead(c, s)
<1> USE DEF At, loop, net, pumps, grid, session
<1>1. ASSUME NEW c \in Conns, Stall(c) \/ Disconnect(c) PROVE Still
  BY <1>1 DEF Stall, Disconnect, Still, Runs, TypeOK
<1>2. ASSUME NEW c \in Conns, NEW f \in Sessions, FeedStep(c, f) PROVE Still
  <2>1. UNCHANGED <<at, att, todo, ended, subscribers, lock, closed>>
    BY <1>2 DEF FeedStep, FeedTake, FeedWrote, FeedEnd
  <2>2. \A d \in Conns, g \in Sessions : Runs(d, g)' => Runs(d, g)
    <3>1. feed \in [Conns -> [Sessions -> {"none", "wait", "write", "done"}]]
      BY DEF TypeOK
    <3>2. Runs(c, f)
      BY <1>2 DEF FeedStep, FeedTake, FeedWrote, FeedEnd, Runs
    <3>3. \E v : FeedIs(c, f, v)
      BY <1>2 DEF FeedStep, FeedTake, FeedWrote, FeedEnd
    <3> QED BY <3>1, <3>2, <3>3 DEF FeedIs, Runs
  <2> QED BY <2>1, <2>2 DEF Still
<1>3. ASSUME NEW s \in Sessions, ChildRead(s) \/ Exit(s) \/ Reap(s) PROVE Still
  BY <1>3 DEF ChildRead, Exit, Reap, Still, Runs, TypeOK
<1>4. ASSUME UNCHANGED vars PROVE Still
  BY <1>4 DEF vars, Still, Runs
<1>5. ASSUME NEW c \in Conns, OnHello(c) PROVE Calm(c)
  <2>1. \E l \in {"loop", "return"} : Goto(c, l, None)
    BY <1>5 DEF OnHello, Return
  <2> QED BY <1>5, <2>1, GotoAt DEF OnHello, Calm, Working
<1>6. ASSUME NEW c \in Conns, OnQuery(c) PROVE Calm(c)
  BY <1>6, GotoAt DEF OnQuery, Frame, Answer, Calm, Working
<1>7. ASSUME NEW c \in Conns, ReadFails(c) PROVE Calm(c)
  BY <1>7, GotoAt DEF ReadFails, Return, Calm, Working
<1>8. ASSUME NEW c \in Conns, Reply(c) PROVE Calm(c)
  BY <1>8, GotoAt DEF Reply, Calm, Working
<1>9. ASSUME NEW c \in Conns, Setsize(c) PROVE Calm(c)
  BY <1>9, GotoAt DEF Setsize, Answer, Calm, Working
<1>10. ASSUME NEW c \in Conns, WriteInput(c) PROVE Calm(c)
  BY <1>10, GotoAt DEF WriteInput, Calm, Working
<1>11. ASSUME NEW c \in Conns, NEW s \in Sessions, OnInput(c, s) PROVE Calm(c)
  BY <1>11, GotoAt DEF OnInput, LookupForWrite, Control, Frame, Calm, Working
<1>12. ASSUME NEW c \in Conns, NEW s \in Sessions, OnTakeWrite(c, s) PROVE Calm(c)
  <2>1. \A r \in Sessions : lock'[r] = lock[r] \/ (Found(r) /\ lock'[r] \in {None, c})
    BY <1>12 DEF OnTakeWrite, LookupForWrite, TypeOK
  <2> QED BY <1>12, <2>1, GotoAt DEF OnTakeWrite, Control, Frame, Answer, Calm, Working
<1>13. ASSUME NEW c \in Conns, NEW s \in Sessions, OnReleaseWrite(c, s) PROVE Calm(c)
  <2>1. \A r \in Sessions : lock'[r] = lock[r] \/ (Found(r) /\ lock'[r] \in {None, c})
    BY <1>13 DEF OnReleaseWrite, ReleaseWrite, TypeOK
  <2> QED BY <1>13, <2>1, GotoAt DEF OnReleaseWrite, Control, Frame, Answer, Calm, Working
<1>14. ASSUME NEW c \in Conns, NEW s \in Sessions, OnKill(c, s) PROVE Calm(c)
  BY <1>14, GotoAt DEF OnKill, Control, Frame, Answer, Calm, Working
<1>15. ASSUME NEW c \in Conns, NEW s \in Sessions, OnSpawn(c, s) PROVE Calm(c)
  BY <1>15, GotoAt DEF OnSpawn, Control, Frame, Answer, Calm, Working
<1>16. ASSUME NEW c \in Conns, NEW s \in Sessions, OnResize(c, s) PROVE Calm(c)
  BY <1>16, GotoAt DEF OnResize, Control, Frame, Calm, Working
<1> QED
  BY <1>1, <1>2, <1>3, <1>4, <1>5, <1>6, <1>7, <1>8, <1>9, <1>10, <1>11, <1>12, <1>13, <1>14, <1>15, <1>16
     DEF Next, Request, Step, Terminated

\* A session is spawned once, and one that is found was found before or is new.
LEMMA StateNext ==
  ASSUME TypeOK, [Next]_vars, NEW s \in Sessions
  PROVE  /\ state'[s] = "none" => state[s] = "none"
         /\ state'[s] = "running" => state[s] \in {"none", "running"}
         /\ Found(s)' => state[s] # "reaped"
<1> USE DEF Found, TypeOK
<1>1. CASE state' = state
  BY <1>1
<1>2. ASSUME NEW c \in Conns, NEW r \in Sessions, OnSpawn(c, r)
      PROVE  state' = [state EXCEPT ![r] = "running"] /\ state[r] = "none"
  BY <1>2 DEF OnSpawn
<1>3. ASSUME NEW r \in Sessions, Exit(r)
      PROVE  state' = [state EXCEPT ![r] = "exited"] /\ state[r] = "running"
  BY <1>3 DEF Exit
<1>4. ASSUME NEW r \in Sessions, Reap(r)
      PROVE  state' = [state EXCEPT ![r] = "reaped"] /\ state[r] = "exited"
  BY <1>4 DEF Reap
<1>5. \/ state' = state
      \/ \E c \in Conns, r \in Sessions : OnSpawn(c, r)
      \/ \E r \in Sessions : Exit(r) \/ Reap(r)
  BY DEF Next, Request, Step, Terminated, Stall, Disconnect, OnHello, ReadFails, FeedStep, FeedTake,
         FeedWrote, FeedEnd, ChildRead, OnQuery, OnAttach, OnDetach, OnInput, OnTakeWrite,
         OnReleaseWrite, OnKill, OnResize, Reply, Setsize, AttachStart, Release, LingerKill,
         WriteInput, Cleanup, CleanupList, ScanRelease, DropConn, CleanupNext, ScanRead,
         vars, session
<1> QED BY <1>1, <1>2, <1>3, <1>4, <1>5

-----------------------------------------------------------------------------
(* The parts of the invariant. *)

\* The loop has ended exactly where cleanup runs.
LEMMA EndNext ==
  ASSUME TypeOK, EndInv, [Next]_vars
  PROVE  EndInv'
<1> USE DEF EndInv, Attached, At, Working
<1>1. CASE Still
  BY <1>1 DEF Still
<1>2. CASE \E c \in Conns : Calm(c)
  BY <1>2 DEF Calm
<1>3. ASSUME NEW c \in Conns, AttachStart(c) PROVE EndInv'
  <2>1. UNCHANGED <<att, todo, ended, closed>> /\ At(c, "attach") /\ Goto(c, "loop", None)
    BY <1>3 DEF AttachStart, net
  <2> QED BY <2>1, GotoAt
<1>4. ASSUME NEW c \in Conns, LingerKill(c) PROVE EndInv'
  <2>1. UNCHANGED <<att, todo, ended, closed>> /\ At(c, "term") /\ Goto(c, Back(c), None)
    BY <1>4 DEF LingerKill, net
  <2> QED BY <2>1, GotoAt DEF Back
<1>5. ASSUME NEW c \in Conns, Release(c) PROVE EndInv'
  <2>1. /\ UNCHANGED <<att, todo, ended, closed>> /\ At(c, "release")
        /\ Goto(c, Back(c), None) \/ Goto(c, "term", Arg(c))
    BY <1>5 DEF Release, net
  <2> QED BY <2>1, GotoAt DEF Back
<1>6. ASSUME NEW c \in Conns, Cleanup(c) PROVE EndInv'
  BY <1>6, GotoAt DEF Cleanup, TypeOK
<1>7. ASSUME NEW c \in Conns, CleanupList(c) PROVE EndInv'
  BY <1>7, GotoAt DEF CleanupList, TypeOK, net
<1>8. ASSUME NEW c \in Conns, ScanRelease(c) PROVE EndInv'
  <2>1. UNCHANGED <<att, todo, ended, closed>> /\ At(c, "unlock") /\ Goto(c, "scan", None)
    BY <1>8 DEF ScanRelease, net
  <2> QED BY <2>1, GotoAt
<1>9. ASSUME NEW c \in Conns, DropConn(c) PROVE EndInv'
  <2>1. /\ UNCHANGED <<att, todo, ended, closed>> /\ At(c, "scan") /\ Goto(c, "gone", None)
        /\ todo[c] = {}
    BY <1>9 DEF DropConn, net
  <2> QED BY <2>1, GotoAt
<1>10. ASSUME NEW c \in Conns, NEW s \in Sessions, OnAttach(c, s) PROVE EndInv'
  BY <1>10, GotoAt DEF OnAttach, Frame, TypeOK, net
<1>11. ASSUME NEW c \in Conns, NEW s \in Sessions, OnDetach(c, s) PROVE EndInv'
  BY <1>11, GotoAt DEF OnDetach, Frame, TypeOK, net
<1>12. ASSUME NEW c \in Conns, NEW s \in Sessions, CleanupNext(c, s) PROVE EndInv'
  BY <1>12, GotoAt DEF CleanupNext, TypeOK, net
<1>13. ASSUME NEW c \in Conns, NEW s \in Sessions, ScanRead(c, s) PROVE EndInv'
  BY <1>13, GotoAt DEF ScanRead, TypeOK, net
<1> QED
  BY Kinds, <1>1, <1>2, <1>3, <1>4, <1>5, <1>6, <1>7, <1>8, <1>9, <1>10, <1>11, <1>12, <1>13

\* An attachment enters the map before it is counted and leaves it before it is
\* released.
LEMMA AttachNext ==
  ASSUME TypeOK, EndInv, AttachInv, [Next]_vars
  PROVE  AttachInv'
<1> USE DEF AttachInv, At, Arg, Working
<1>1. CASE Still
  BY <1>1 DEF Still
<1>2. CASE \E c \in Conns : Calm(c)
  BY <1>2 DEF Calm
<1>3. ASSUME NEW c \in Conns, AttachStart(c) PROVE AttachInv'
  <2>1. UNCHANGED <<att, todo>> /\ Goto(c, "loop", None)
    BY <1>3 DEF AttachStart
  <2> QED BY <2>1, GotoAt
<1>4. ASSUME NEW c \in Conns, LingerKill(c) PROVE AttachInv'
  <2>1. UNCHANGED <<att, todo>> /\ Goto(c, Back(c), None)
    BY <1>4 DEF LingerKill
  <2> QED BY <2>1, GotoAt DEF Back
<1>5. ASSUME NEW c \in Conns, Release(c) PROVE AttachInv'
  <2>1. UNCHANGED <<att, todo>> /\ (Goto(c, Back(c), None) \/ Goto(c, "term", Arg(c)))
    BY <1>5 DEF Release
  <2> QED BY <2>1, GotoAt DEF Back
<1>6. ASSUME NEW c \in Conns, Cleanup(c) PROVE AttachInv'
  <2>1. /\ \A d \in Conns : d # c => att'[d] = att[d] /\ todo'[d] = todo[d]
        /\ Goto(c, "cleanup", None)
    BY <1>6 DEF Cleanup, TypeOK
  <2> QED BY <2>1, GotoAt
<1>7. ASSUME NEW c \in Conns, CleanupList(c) PROVE AttachInv'
  <2>1. /\ \A d \in Conns : d # c => att'[d] = att[d] /\ todo'[d] = todo[d]
        /\ Goto(c, "scan", None)
    BY <1>7 DEF CleanupList, TypeOK
  <2> QED BY <2>1, GotoAt
<1>8. ASSUME NEW c \in Conns, ScanRelease(c) PROVE AttachInv'
  <2>1. UNCHANGED <<att, todo>> /\ Goto(c, "scan", None)
    BY <1>8 DEF ScanRelease
  <2> QED BY <2>1, GotoAt
<1>9. ASSUME NEW c \in Conns, DropConn(c) PROVE AttachInv'
  <2>1. UNCHANGED <<att, todo>> /\ Goto(c, "gone", None)
    BY <1>9 DEF DropConn
  <2> QED BY <2>1, GotoAt
<1>10. ASSUME NEW c \in Conns, NEW s \in Sessions, OnAttach(c, s) PROVE AttachInv'
  <2>1. /\ \A d \in Conns : d # c => att'[d] = att[d]
        /\ att'[c][s] # "none" /\ UNCHANGED todo /\ Goto(c, "attach", s)
    BY <1>10 DEF OnAttach, TypeOK
  <2> QED BY <2>1, GotoAt
<1>11. ASSUME NEW c \in Conns, NEW s \in Sessions, OnDetach(c, s) PROVE AttachInv'
  <2>1. /\ \A d \in Conns : d # c => att'[d] = att[d]
        /\ att'[c][s] = "none" /\ UNCHANGED todo /\ Goto(c, "release", s)
    BY <1>11 DEF OnDetach, TypeOK
  <2>2. todo[c] = {}
    BY <1>11 DEF OnDetach, Frame, EndInv
  <2> QED BY <2>1, <2>2, GotoAt
<1>12. ASSUME NEW c \in Conns, NEW s \in Sessions, CleanupNext(c, s) PROVE AttachInv'
  <2>1. /\ \A d \in Conns : d # c => todo'[d] = todo[d]
        /\ s \notin todo'[c] /\ UNCHANGED att /\ Goto(c, "release", s)
    BY <1>12 DEF CleanupNext, TypeOK
  <2>2. att[c][s] = "none"
    BY <1>12 DEF CleanupNext, EndInv, Attached
  <2> QED BY <2>1, <2>2, GotoAt
<1>13. ASSUME NEW c \in Conns, NEW s \in Sessions, ScanRead(c, s) PROVE AttachInv'
  <2>1. /\ \A d \in Conns : d # c => todo'[d] = todo[d]
        /\ UNCHANGED att /\ At(c, "scan")
        /\ Goto(c, "unlock", s) \/ at' = at
    BY <1>13 DEF ScanRead, TypeOK
  <2> QED BY <2>1, GotoAt
<1> QED
  BY Kinds, <1>1, <1>2, <1>3, <1>4, <1>5, <1>6, <1>7, <1>8, <1>9, <1>10, <1>11, <1>12, <1>13

\* Who is subscribed changes where the count does: when an attachment starts and
\* when it is released.
LEMMA SubscribedNext ==
  ASSUME TypeOK, EndInv, AttachInv, [Next]_vars
  PROVE  /\ \A c \in Conns : AttachStart(c) =>
              /\ Arg(c) \in Sessions /\ c \notin Subscribed(Arg(c))
              /\ \A s \in Sessions : Subscribed(s)' =
                   IF s = Arg(c) THEN Subscribed(s) \cup {c} ELSE Subscribed(s)
         /\ \A c \in Conns : Release(c) =>
              /\ Arg(c) \in Sessions /\ c \in Subscribed(Arg(c))
              /\ \A s \in Sessions : Subscribed(s)' =
                   IF s = Arg(c) THEN Subscribed(s) \ {c} ELSE Subscribed(s)
         /\ \/ \A s \in Sessions : Subscribed(s)' = Subscribed(s)
            \/ \E c \in Conns : AttachStart(c) \/ Release(c)
<1> USE DEF EndInv, AttachInv, Attached, At, Subscribed
<1> DEFINE Same == \A s \in Sessions : Subscribed(s)' = Subscribed(s)
<1>1. ASSUME Still PROVE Same
  BY <1>1 DEF Still
<1>2. ASSUME NEW c \in Conns, Calm(c) PROVE Same
  <2>1. \A s : at[c] # <<"attach", s>> /\ at[c] # <<"release", s>>
               /\ at'[c] # <<"attach", s>> /\ at'[c] # <<"release", s>>
    BY <1>2 DEF Calm, Working
  <2> QED BY <1>2, <2>1 DEF Calm, Working
<1>3. ASSUME NEW c \in Conns, AttachStart(c)
      PROVE  /\ Arg(c) \in Sessions /\ c \notin Subscribed(Arg(c))
             /\ \A s \in Sessions : Subscribed(s)' =
                  IF s = Arg(c) THEN Subscribed(s) \cup {c} ELSE Subscribed(s)
  <2>1. UNCHANGED <<att, todo>> /\ At(c, "attach") /\ Goto(c, "loop", None)
    BY <1>3 DEF AttachStart
  <2>2. Arg(c) \in Sessions /\ at[c] = <<"attach", Arg(c)>> /\ todo[c] = {} /\ att[c][Arg(c)] # "none"
    BY <2>1, ArgType DEF Plain
  <2> QED BY <2>1, <2>2, GotoAt
<1>4. ASSUME NEW c \in Conns, LingerKill(c) PROVE Same
  <2>1. UNCHANGED <<att, todo>> /\ At(c, "term") /\ Goto(c, Back(c), None)
    BY <1>4 DEF LingerKill
  <2>2. ended[c] \/ todo[c] = {}
    BY <2>1
  <2>3. Back(c) = "cleanup" \/ (Back(c) = "loop" /\ todo[c] = {})
    BY <2>2 DEF Back
  <2>4. \A s : at[c] # <<"attach", s>> /\ at[c] # <<"release", s>>
               /\ at'[c] # <<"attach", s>> /\ at'[c] # <<"release", s>>
    BY <2>1, <2>3, GotoAt
  <2> QED BY <2>1, <2>3, <2>4, GotoAt
<1>5. ASSUME NEW c \in Conns, Release(c)
      PROVE  /\ Arg(c) \in Sessions /\ c \in Subscribed(Arg(c))
             /\ \A s \in Sessions : Subscribed(s)' =
                  IF s = Arg(c) THEN Subscribed(s) \ {c} ELSE Subscribed(s)
  <2>1. /\ UNCHANGED <<att, todo>> /\ At(c, "release")
        /\ Goto(c, Back(c), None) \/ Goto(c, "term", Arg(c))
    BY <1>5 DEF Release
  <2>2. /\ Arg(c) \in Sessions /\ at[c] = <<"release", Arg(c)>>
        /\ att[c][Arg(c)] = "none" /\ Arg(c) \notin todo[c]
    BY <2>1, ArgType DEF Plain
  <2>3. Back(c) = "cleanup" \/ (Back(c) = "loop" /\ todo[c] = {})
    BY <2>1 DEF Back
  <2>4. \A s : at'[c] # <<"attach", s>> /\ at'[c] # <<"release", s>>
    BY <2>1, <2>3, GotoAt
  <2>5. at'[c][1] \in {"cleanup", "term"} \/ todo[c] = {}
    BY <2>1, <2>3, GotoAt
  <2>6. \A d \in Conns : d # c => at'[d] = at[d]
    BY <2>1, GotoAt
  <2> QED BY <2>1, <2>2, <2>4, <2>5, <2>6
<1>6. ASSUME NEW c \in Conns, Cleanup(c) PROVE Same
  <2>1. /\ \A d \in Conns : d # c => att'[d] = att[d] /\ todo'[d] = todo[d]
        /\ \A s \in Sessions : att'[c][s] = "none" /\ (s \in todo'[c] <=> att[c][s] # "none")
        /\ Goto(c, "cleanup", None) /\ At(c, "return")
    BY <1>6 DEF Cleanup, TypeOK
  <2> QED BY <2>1, GotoAt
<1>7. ASSUME NEW c \in Conns, CleanupList(c) PROVE Same
  <2>1. /\ \A d \in Conns : d # c => todo'[d] = todo[d]
        /\ UNCHANGED att /\ Goto(c, "scan", None) /\ At(c, "cleanup") /\ todo[c] = {}
    BY <1>7 DEF CleanupList, TypeOK
  <2> QED BY <2>1, GotoAt
<1>8. ASSUME NEW c \in Conns, ScanRelease(c) PROVE Same
  <2>1. UNCHANGED <<att, todo>> /\ Goto(c, "scan", None) /\ At(c, "unlock")
    BY <1>8 DEF ScanRelease
  <2> QED BY <2>1, GotoAt
<1>9. ASSUME NEW c \in Conns, DropConn(c) PROVE Same
  <2>1. UNCHANGED <<att, todo>> /\ Goto(c, "gone", None) /\ At(c, "scan")
    BY <1>9 DEF DropConn
  <2> QED BY <2>1, GotoAt
<1>10. ASSUME NEW c \in Conns, NEW s \in Sessions, OnAttach(c, s) PROVE Same
  <2>1. /\ \A d \in Conns : d # c => att'[d] = att[d]
        /\ \A r \in Sessions : r # s => att'[c][r] = att[c][r]
        /\ att[c][s] = "none" /\ UNCHANGED todo /\ Goto(c, "attach", s) /\ At(c, "loop")
    BY <1>10 DEF OnAttach, Frame, TypeOK
  <2> QED BY <2>1, GotoAt
<1>11. ASSUME NEW c \in Conns, NEW s \in Sessions, OnDetach(c, s) PROVE Same
  <2>1. /\ \A d \in Conns : d # c => att'[d] = att[d]
        /\ \A r \in Sessions : r # s => att'[c][r] = att[c][r]
        /\ att[c][s] # "none" /\ att'[c][s] = "none"
        /\ UNCHANGED todo /\ Goto(c, "release", s) /\ At(c, "loop")
    BY <1>11 DEF OnDetach, Frame, TypeOK
  <2>2. todo[c] = {}
    BY <2>1
  <2> QED BY <2>1, <2>2, GotoAt
<1>12. ASSUME NEW c \in Conns, NEW s \in Sessions, CleanupNext(c, s) PROVE Same
  <2>1. /\ \A d \in Conns : d # c => todo'[d] = todo[d]
        /\ todo'[c] = todo[c] \ {s} /\ s \in todo[c]
        /\ UNCHANGED att /\ Goto(c, "release", s) /\ At(c, "cleanup")
    BY <1>12 DEF CleanupNext, TypeOK
  <2> QED BY <2>1, GotoAt
<1>13. ASSUME NEW c \in Conns, NEW s \in Sessions, ScanRead(c, s) PROVE Same
  <2>1. /\ \A d \in Conns : d # c => todo'[d] = todo[d]
        /\ UNCHANGED att /\ At(c, "scan")
        /\ Goto(c, "unlock", s) \/ at' = at
    BY <1>13 DEF ScanRead, TypeOK
  <2> QED BY <2>1, GotoAt
<1> HIDE DEF EndInv, AttachInv, Attached, At, Subscribed
<1> QED
  BY Kinds, <1>1, <1>2, <1>3, <1>4, <1>5, <1>6, <1>7, <1>8, <1>9, <1>10, <1>11, <1>12, <1>13

\* A session that is not spawned is on no list.
LEMMA FreshNext ==
  ASSUME TypeOK, FreshInv, [Next]_vars
  PROVE  FreshInv'
<1> SUFFICES ASSUME NEW s \in Sessions, state'[s] = "none"
             PROVE  /\ subscribers'[s] = 0 /\ lock'[s] = None
                    /\ \A c \in Conns : att'[c][s] = "none" /\ at'[c][2] # s /\ s \notin todo'[c]
  BY DEF FreshInv, Arg
<1>0. /\ state[s] = "none" /\ subscribers[s] = 0 /\ lock[s] = None /\ ~Found(s)
      /\ \A c \in Conns : att[c][s] = "none" /\ at[c][2] # s /\ s \notin todo[c]
  BY StateNext DEF FreshInv, Arg, Found
<1>00. None # s
  BY ConnsAssumption
<1> USE <1>0, <1>00
<1> DEFINE Goal == /\ subscribers'[s] = 0 /\ lock'[s] = None
                   /\ \A c \in Conns : att'[c][s] = "none" /\ at'[c][2] # s /\ s \notin todo'[c]
<1>1. ASSUME Still PROVE Goal
  BY <1>1 DEF Still
<1>2. ASSUME NEW c \in Conns, Calm(c) PROVE Goal
  BY <1>2 DEF Calm
<1>3. ASSUME NEW c \in Conns, AttachStart(c) PROVE Goal
  <2>1. UNCHANGED <<att, todo, lock>> /\ Goto(c, "loop", None) /\ subscribers'[s] = subscribers[s]
    BY <1>3 DEF AttachStart, Arg, TypeOK
  <2> QED BY <2>1, GotoAt
<1>4. ASSUME NEW c \in Conns, LingerKill(c) PROVE Goal
  <2>1. UNCHANGED <<att, todo, lock, subscribers>> /\ Goto(c, Back(c), None)
    BY <1>4 DEF LingerKill
  <2> QED BY <2>1, GotoAt
<1>5. ASSUME NEW c \in Conns, Release(c) PROVE Goal
  <2>1. /\ UNCHANGED <<att, todo, lock>> /\ subscribers'[s] = subscribers[s]
        /\ Goto(c, Back(c), None) \/ Goto(c, "term", at[c][2])
    BY <1>5 DEF Release, Arg, TypeOK
  <2> QED BY <2>1, GotoAt
<1>6. ASSUME NEW c \in Conns, Cleanup(c) PROVE Goal
  <2>1. /\ UNCHANGED <<lock, subscribers>> /\ Goto(c, "cleanup", None)
        /\ \A d \in Conns : att'[d][s] = "none" /\ s \notin todo'[d]
    BY <1>6 DEF Cleanup, Attached, TypeOK, session
  <2> QED BY <2>1, GotoAt
<1>7. ASSUME NEW c \in Conns, CleanupList(c) PROVE Goal
  <2>1. /\ UNCHANGED <<att, lock, subscribers>> /\ Goto(c, "scan", None)
        /\ \A d \in Conns : s \notin todo'[d]
    BY <1>7 DEF CleanupList, TypeOK, session
  <2> QED BY <2>1, GotoAt
<1>8. ASSUME NEW c \in Conns, ScanRelease(c) PROVE Goal
  <2>1. UNCHANGED <<att, todo, subscribers>> /\ Goto(c, "scan", None) /\ lock'[s] = lock[s]
    BY <1>8 DEF ScanRelease, ReleaseWrite, Arg, TypeOK
  <2> QED BY <2>1, GotoAt
<1>9. ASSUME NEW c \in Conns, DropConn(c) PROVE Goal
  <2>1. UNCHANGED <<att, todo, lock, subscribers>> /\ Goto(c, "gone", None)
    BY <1>9 DEF DropConn, session
  <2> QED BY <2>1, GotoAt
<1>10. ASSUME NEW c \in Conns, NEW r \in Sessions, OnAttach(c, r) PROVE Goal
  <2>1. /\ UNCHANGED <<todo, lock, subscribers>> /\ Goto(c, "attach", r) /\ r # s
        /\ \A d \in Conns : att'[d][s] = "none"
    BY <1>10 DEF OnAttach, session, TypeOK
  <2> QED BY <2>1, GotoAt
<1>11. ASSUME NEW c \in Conns, NEW r \in Sessions, OnDetach(c, r) PROVE Goal
  <2>1. /\ UNCHANGED <<todo, lock, subscribers>> /\ Goto(c, "release", r) /\ r # s
        /\ \A d \in Conns : att'[d][s] = "none"
    BY <1>11 DEF OnDetach, session, TypeOK
  <2> QED BY <2>1, GotoAt
<1>12. ASSUME NEW c \in Conns, NEW r \in Sessions, CleanupNext(c, r) PROVE Goal
  <2>1. /\ UNCHANGED <<att, lock, subscribers>> /\ Goto(c, "release", r) /\ r # s
        /\ \A d \in Conns : s \notin todo'[d]
    BY <1>12 DEF CleanupNext, session, TypeOK
  <2> QED BY <2>1, GotoAt
<1>13. ASSUME NEW c \in Conns, NEW r \in Sessions, ScanRead(c, r) PROVE Goal
  <2>1. /\ UNCHANGED <<att, lock, subscribers>> /\ r # s
        /\ at' = at \/ Goto(c, "unlock", r)
        /\ \A d \in Conns : s \notin todo'[d]
    BY <1>13 DEF ScanRead, session, TypeOK
  <2> QED BY <2>1, GotoAt
<1> QED
  BY Kinds, <1>1, <1>2, <1>3, <1>4, <1>5, <1>6, <1>7, <1>8, <1>9, <1>10, <1>11, <1>12, <1>13

\* The feed that starts is that of an attachment just counted, the one that is
\* forgotten has ended.
LEMMA FeedNext ==
  ASSUME TypeOK, EndInv, AttachInv, FeedInv, [Next]_vars
  PROVE  FeedInv'
<1>0. \A c \in Conns, f \in Sessions : Runs(c, f) => c \in Subscribed(f)
  BY DEF FeedInv, Runs
<1> SUFFICES \A c \in Conns, f \in Sessions : Runs(c, f)' => c \in Subscribed(f)'
  BY DEF FeedInv, Runs
<1>1. ASSUME NEW c \in Conns, AttachStart(c)
      PROVE  \A d \in Conns, f \in Sessions : Runs(d, f)' => d \in Subscribed(f)'
  <2>1. \A d \in Conns, f \in Sessions : Runs(d, f)' => Runs(d, f) \/ (d = c /\ f = Arg(c))
    BY <1>1 DEF AttachStart, FeedIs, Runs, TypeOK
  <2>2. /\ Arg(c) \in Sessions
        /\ \A s \in Sessions : Subscribed(s)' =
              IF s = Arg(c) THEN Subscribed(s) \cup {c} ELSE Subscribed(s)
    BY <1>1, SubscribedNext
  <2> QED BY <1>0, <2>1, <2>2
<1>2. ASSUME NEW c \in Conns, Release(c)
      PROVE  \A d \in Conns, f \in Sessions : Runs(d, f)' => d \in Subscribed(f)'
  <2>1. \A d \in Conns, f \in Sessions : Runs(d, f)' => Runs(d, f) /\ ~(d = c /\ f = Arg(c))
    BY <1>2 DEF Release, FeedIs, Runs, TypeOK
  <2>2. /\ Arg(c) \in Sessions
        /\ \A s \in Sessions : Subscribed(s)' =
              IF s = Arg(c) THEN Subscribed(s) \ {c} ELSE Subscribed(s)
    BY <1>2, SubscribedNext
  <2> QED BY <1>0, <2>1, <2>2
<1>3. CASE ~\E c \in Conns : AttachStart(c) \/ Release(c)
  <2>1. \A s \in Sessions : Subscribed(s)' = Subscribed(s)
    BY <1>3, SubscribedNext
  <2>2. \A c \in Conns, f \in Sessions : Runs(c, f)' => Runs(c, f)
    BY <1>3, Kinds DEF Still, Calm, Runs, LingerKill, Cleanup, CleanupList, ScanRelease, DropConn,
                  OnAttach, OnDetach, CleanupNext, ScanRead, pumps
  <2> QED BY <1>0, <2>1, <2>2
<1> QED BY <1>1, <1>2, <1>3

\* A session in the registry, or not yet in it, counts its subscribers exactly.
LEMMA CountNext ==
  ASSUME TypeOK, FreshInv, EndInv, AttachInv, CountInv, [Next]_vars
  PROVE  CountInv'
<1> SUFFICES ASSUME NEW s \in Sessions, Found(s)'
             PROVE  subscribers'[s] = Cardinality(Subscribed(s)')
  BY DEF CountInv
<1>1. subscribers[s] = Cardinality(Subscribed(s))
  <2>1. CASE Found(s)
    BY <2>1 DEF CountInv
  <2>2. CASE state[s] = "none"
    <3>1. subscribers[s] = 0 /\ \A c \in Conns : att[c][s] = "none" /\ Arg(c) # s /\ s \notin todo[c]
      BY <2>2 DEF FreshInv
    <3>2. \A c \in Conns : at[c] # <<"release", s>>
      BY <3>1 DEF Arg
    <3>3. Subscribed(s) = {}
      BY <3>1, <3>2 DEF Subscribed, Attached
    <3> QED BY <3>1, <3>3, FS_EmptySet
  <2> QED BY <2>1, <2>2, StateNext DEF TypeOK, Found
<1>2. IsFiniteSet(Subscribed(s)) /\ Cardinality(Subscribed(s)) \in Nat
  BY ConnsAssumption, FS_Subset, FS_CardinalityType DEF Subscribed
<1>3. ASSUME NEW c \in Conns, AttachStart(c)
      PROVE  subscribers'[s] = Cardinality(Subscribed(s)')
  <2>1. /\ Arg(c) \in Sessions /\ c \notin Subscribed(Arg(c))
        /\ Subscribed(s)' = IF s = Arg(c) THEN Subscribed(s) \cup {c} ELSE Subscribed(s)
    BY <1>3, SubscribedNext
  <2>2. subscribers'[s] = IF s = Arg(c) THEN subscribers[s] + 1 ELSE subscribers[s]
    BY <1>3, <2>1 DEF AttachStart, TypeOK
  <2>3. c \notin Subscribed(s) => Cardinality(Subscribed(s) \cup {c}) = Cardinality(Subscribed(s)) + 1
    BY <1>2, FS_AddElement
  <2> QED BY <1>1, <2>1, <2>2, <2>3
<1>4. ASSUME NEW c \in Conns, Release(c)
      PROVE  subscribers'[s] = Cardinality(Subscribed(s)')
  <2>1. /\ Arg(c) \in Sessions /\ c \in Subscribed(Arg(c))
        /\ Subscribed(s)' = IF s = Arg(c) THEN Subscribed(s) \ {c} ELSE Subscribed(s)
    BY <1>4, SubscribedNext
  <2>2. Found(s)
    BY <1>4 DEF Release, Found
  <2>3. subscribers'[s] = IF s = Arg(c) THEN subscribers[s] - 1 ELSE subscribers[s]
    BY <1>4, <2>1, <2>2 DEF Release, TypeOK
  <2>4. c \in Subscribed(s) => Cardinality(Subscribed(s) \ {c}) = Cardinality(Subscribed(s)) - 1
    BY <1>2, FS_RemoveElement
  <2> QED BY <1>1, <2>1, <2>3, <2>4
<1>5. CASE ~\E c \in Conns : AttachStart(c) \/ Release(c)
  <2>1. Subscribed(s)' = Subscribed(s)
    BY <1>5, SubscribedNext
  <2>2. subscribers' = subscribers
    BY <1>5, Kinds DEF Still, Calm, LingerKill, Cleanup, CleanupList, ScanRelease, DropConn,
                  OnAttach, OnDetach, CleanupNext, ScanRead, session
  <2> QED BY <1>1, <2>1, <2>2
<1> QED BY <1>3, <1>4, <1>5

\* The scan does not miss a write lock: the list is made once the loop reads no
\* more frames, so the connection takes no lock behind it.
LEMMA ScanNext ==
  ASSUME TypeOK, FreshInv, EndInv, ScanInv, [Next]_vars
  PROVE  ScanInv'
<1> SUFFICES ASSUME NEW d \in Conns, NEW s \in Sessions, Found(s)', lock'[s] = d
             PROVE  /\ at'[d][1] # "gone"
                    /\ at'[d][1] = "scan" => s \in todo'[d]
                    /\ at'[d][1] = "unlock" => s \in todo'[d] \cup {at'[d][2]}
  BY DEF ScanInv, At, Arg
<1> DEFINE Goal == /\ at'[d][1] # "gone"
                   /\ at'[d][1] = "scan" => s \in todo'[d]
                   /\ at'[d][1] = "unlock" => s \in todo'[d] \cup {at'[d][2]}
<1>00. d # None
  BY ConnsAssumption
<1>0. lock[s] = d => /\ Found(s) /\ at[d][1] # "gone"
                     /\ at[d][1] = "scan" => s \in todo[d]
                     /\ at[d][1] = "unlock" => s \in todo[d] \cup {at[d][2]}
  <2>1. lock[s] = d => Found(s)
    BY <1>00, StateNext DEF FreshInv, Found, TypeOK
  <2> QED BY <2>1 DEF ScanInv, At, Arg
<1> USE <1>0, <1>00
<1>1. ASSUME Still PROVE Goal
  BY <1>1 DEF Still
<1>2. ASSUME NEW c \in Conns, Calm(c) PROVE Goal
  BY <1>2 DEF Calm, Working
<1>3. ASSUME NEW c \in Conns, AttachStart(c) PROVE Goal
  <2>1. UNCHANGED <<todo, lock>> /\ Goto(c, "loop", None)
    BY <1>3 DEF AttachStart
  <2> QED BY <2>1, GotoAt
<1>4. ASSUME NEW c \in Conns, LingerKill(c) PROVE Goal
  <2>1. UNCHANGED <<todo, lock>> /\ Goto(c, Back(c), None) /\ Back(c) \in {"cleanup", "loop"}
    BY <1>4 DEF LingerKill, Back
  <2> QED BY <2>1, GotoAt
<1>5. ASSUME NEW c \in Conns, Release(c) PROVE Goal
  <2>1. /\ UNCHANGED <<todo, lock>> /\ Back(c) \in {"cleanup", "loop"}
        /\ Goto(c, Back(c), None) \/ Goto(c, "term", Arg(c))
    BY <1>5 DEF Release, Back
  <2> QED BY <2>1, GotoAt
<1>6. ASSUME NEW c \in Conns, Cleanup(c) PROVE Goal
  <2>1. /\ UNCHANGED lock /\ Goto(c, "cleanup", None)
        /\ \A e \in Conns : e # c => todo'[e] = todo[e]
    BY <1>6 DEF Cleanup, TypeOK, session
  <2> QED BY <2>1, GotoAt
<1>7. ASSUME NEW c \in Conns, CleanupList(c) PROVE Goal
  <2>1. /\ UNCHANGED lock /\ Goto(c, "scan", None)
        /\ \A e \in Conns : e # c => todo'[e] = todo[e]
        /\ Found(s) => s \in todo'[c]
    BY <1>7 DEF CleanupList, TypeOK, session
  <2> QED BY <2>1, GotoAt
<1>8. ASSUME NEW c \in Conns, ScanRelease(c) PROVE Goal
  <2>1. /\ UNCHANGED todo /\ Goto(c, "scan", None) /\ At(c, "unlock")
        /\ lock'[s] = IF s = at[c][2] /\ lock[s] = c THEN None ELSE lock[s]
    BY <1>8 DEF ScanRelease, ReleaseWrite, Arg, TypeOK
  <2> QED BY <2>1, GotoAt DEF At
<1>9. ASSUME NEW c \in Conns, DropConn(c) PROVE Goal
  <2>1. UNCHANGED <<todo, lock>> /\ Goto(c, "gone", None) /\ At(c, "scan") /\ todo[c] = {}
    BY <1>9 DEF DropConn, session
  <2> QED BY <2>1, GotoAt DEF At
<1>10. ASSUME NEW c \in Conns, NEW r \in Sessions, OnAttach(c, r) PROVE Goal
  <2>1. UNCHANGED <<todo, lock>> /\ Goto(c, "attach", r)
    BY <1>10 DEF OnAttach, session
  <2> QED BY <2>1, GotoAt
<1>11. ASSUME NEW c \in Conns, NEW r \in Sessions, OnDetach(c, r) PROVE Goal
  <2>1. UNCHANGED <<todo, lock>> /\ Goto(c, "release", r)
    BY <1>11 DEF OnDetach, session
  <2> QED BY <2>1, GotoAt
<1>12. ASSUME NEW c \in Conns, NEW r \in Sessions, CleanupNext(c, r) PROVE Goal
  <2>1. /\ UNCHANGED lock /\ Goto(c, "release", r)
        /\ \A e \in Conns : e # c => todo'[e] = todo[e]
    BY <1>12 DEF CleanupNext, session, TypeOK
  <2> QED BY <2>1, GotoAt
<1>13. ASSUME NEW c \in Conns, NEW r \in Sessions, ScanRead(c, r) PROVE Goal
  <2>1. /\ UNCHANGED lock /\ At(c, "scan")
        /\ IF lock[r] = c THEN Goto(c, "unlock", r) ELSE at' = at
        /\ todo'[c] = todo[c] \ {r}
        /\ \A e \in Conns : e # c => todo'[e] = todo[e]
    BY <1>13 DEF ScanRead, session, TypeOK
  <2> QED BY <2>1, GotoAt DEF At
<1> QED
  BY Kinds, <1>1, <1>2, <1>3, <1>4, <1>5, <1>6, <1>7, <1>8, <1>9, <1>10, <1>11, <1>12, <1>13

-----------------------------------------------------------------------------
(* The terminal's size. *)

\* Only a resize changes a size, and only its two halves who is between them.
LEMMA ResizeNext ==
  ASSUME TypeOK, [Next]_vars
  PROVE  \/ UNCHANGED <<size, tty, overlap>> /\ \A s \in Sessions : Resizing(s)' = Resizing(s)
         \/ \E c \in Conns : Setsize(c) \/ \E s \in Sessions : OnResize(c, s)
<1> DEFINE Same == UNCHANGED <<size, tty, overlap>> /\ \A s \in Sessions : Resizing(s)' = Resizing(s)
<1>0. ASSUME NEW c \in Conns, NEW l, NEW s, at[c][1] # "resize", l # "resize", Goto(c, l, s)
      PROVE  \A r \in Sessions : Resizing(r)' = Resizing(r)
  BY <1>0, GotoAt DEF Resizing
<1>1. ASSUME at' = at, UNCHANGED <<size, tty, overlap>> PROVE Same
  BY <1>1 DEF Resizing
<1> USE DEF At, loop, net, pumps, grid, session
<1>2. ASSUME NEW c \in Conns, Stall(c) \/ Disconnect(c) PROVE Same
  BY <1>1, <1>2 DEF Stall, Disconnect
<1>3. ASSUME NEW c \in Conns, NEW f \in Sessions, FeedStep(c, f) PROVE Same
  BY <1>1, <1>3 DEF FeedStep, FeedTake, FeedWrote, FeedEnd
<1>4. ASSUME NEW s \in Sessions, ChildRead(s) \/ Exit(s) \/ Reap(s) PROVE Same
  BY <1>1, <1>4 DEF ChildRead, Exit, Reap
<1>5. ASSUME UNCHANGED vars PROVE Same
  BY <1>1, <1>5 DEF vars
<1>6. ASSUME NEW c \in Conns, OnHello(c) PROVE Same
  <2>1. \E l \in {"loop", "return"} : Goto(c, l, None)
    BY <1>6 DEF OnHello, Return
  <2> QED BY <1>0, <1>6, <2>1 DEF OnHello
<1>7. ASSUME NEW c \in Conns, OnQuery(c) \/ ReadFails(c) \/ Reply(c) PROVE Same
  BY <1>0, <1>7 DEF OnQuery, Frame, Answer, ReadFails, Return, Reply
<1>8. ASSUME NEW c \in Conns, AttachStart(c) \/ WriteInput(c) PROVE Same
  BY <1>0, <1>8 DEF AttachStart, WriteInput
<1>9. ASSUME NEW c \in Conns, LingerKill(c) \/ Release(c) PROVE Same
  <2>1. Back(c) # "resize"
    BY DEF Back
  <2> QED BY <1>0, <1>9, <2>1 DEF LingerKill, Release
<1>10. ASSUME NEW c \in Conns, Cleanup(c) \/ CleanupList(c) \/ ScanRelease(c) \/ DropConn(c) PROVE Same
  BY <1>0, <1>10 DEF Cleanup, CleanupList, ScanRelease, DropConn
<1>11. ASSUME NEW c \in Conns, NEW s \in Sessions, OnAttach(c, s) \/ OnDetach(c, s) \/ OnInput(c, s)
       PROVE  Same
  BY <1>0, <1>11 DEF OnAttach, OnDetach, OnInput, Control, Frame
<1>12. ASSUME NEW c \in Conns, NEW s \in Sessions,
              OnTakeWrite(c, s) \/ OnReleaseWrite(c, s) \/ OnKill(c, s) \/ OnSpawn(c, s)
       PROVE  Same
  BY <1>0, <1>12 DEF OnTakeWrite, OnReleaseWrite, OnKill, OnSpawn, Control, Frame, Answer
<1>13. ASSUME NEW c \in Conns, NEW s \in Sessions, CleanupNext(c, s) \/ ScanRead(c, s) PROVE Same
  BY <1>0, <1>1, <1>13 DEF CleanupNext, ScanRead
<1> QED
  BY <1>2, <1>3, <1>4, <1>5, <1>6, <1>7, <1>8, <1>9, <1>10, <1>11, <1>12, <1>13
     DEF Next, Request, Step, Terminated

\* The size kept follows the terminal's.
LEMMA SizeNext ==
  ASSUME TypeOK, FreshInv, SizeInv, [Next]_vars
  PROVE  SizeInv'
<1> SUFFICES ASSUME NEW s \in Sessions, state'[s] \in {"none", "running"}, s \notin overlap'
             PROVE  /\ \A c, d \in Resizing(s)' : c = d
                    /\ \A c \in Resizing(s)' : size'[s] = c
                    /\ Resizing(s)' = {} => size'[s] = tty'[s]
  BY DEF SizeInv
<1>1. CASE UNCHANGED <<size, tty, overlap>> /\ \A r \in Sessions : Resizing(r)' = Resizing(r)
  <2>1. state[s] \in {"none", "running"}
    BY StateNext
  <2> QED BY <1>1, <2>1 DEF SizeInv
<1>2. ASSUME NEW c \in Conns, Setsize(c)
      PROVE  /\ \A e, d \in Resizing(s)' : e = d
             /\ \A d \in Resizing(s)' : size'[s] = d
             /\ Resizing(s)' = {} => size'[s] = tty'[s]
  <2>1. /\ UNCHANGED <<size, overlap, state>> /\ Goto(c, "reply", None) /\ At(c, "resize")
        /\ tty' = IF state[Arg(c)] = "running" THEN [tty EXCEPT ![Arg(c)] = c] ELSE tty
    BY <1>2 DEF Setsize, Answer
  <2>2. Arg(c) \in Sessions /\ at[c] = <<"resize", Arg(c)>>
    BY <2>1, ArgType DEF Plain, At
  <2>3. Resizing(s)' = Resizing(s) \ {c}
    BY <2>1, GotoAt DEF Resizing
  <2>4. CASE s = Arg(c)
    <3>1. c \in Resizing(s) /\ state[s] = "running"
      BY <2>1, <2>2, <2>4 DEF Resizing, FreshInv
    <3>2. tty'[s] = c
      BY <2>1, <2>4, <3>1 DEF TypeOK
    <3> QED BY <2>1, <2>3, <3>1, <3>2 DEF SizeInv
  <2>5. CASE s # Arg(c)
    <3>1. c \notin Resizing(s) /\ tty'[s] = tty[s]
      BY <2>1, <2>2, <2>5 DEF Resizing, TypeOK
    <3> QED BY <2>1, <2>3, <3>1 DEF SizeInv
  <2> QED BY <2>4, <2>5
<1>3. ASSUME NEW c \in Conns, NEW r \in Sessions, OnResize(c, r)
      PROVE  /\ \A e, d \in Resizing(s)' : e = d
             /\ \A d \in Resizing(s)' : size'[s] = d
             /\ Resizing(s)' = {} => size'[s] = tty'[s]
  <2>1. /\ UNCHANGED <<tty, state>> /\ Goto(c, "resize", r) /\ At(c, "loop")
        /\ size'[s] = (IF s = r THEN c ELSE size[s])
        /\ overlap' = IF Resizing(r) = {} THEN overlap \ {r} ELSE overlap \cup {r}
    BY <1>3 DEF OnResize, Control, Frame, TypeOK
  <2>2. Resizing(s)' = IF s = r THEN Resizing(s) \cup {c} ELSE Resizing(s)
    BY <2>1, GotoAt DEF Resizing, At
  <2> QED BY <2>1, <2>2 DEF SizeInv
<1> QED BY ResizeNext, <1>1, <1>2, <1>3

-----------------------------------------------------------------------------
(* The theorems. *)

\* A daemon that has just started satisfies the invariant.
LEMMA ConnInit ==
  ASSUME Init
  PROVE  TypeOK /\ ConnInv /\ SizeInv
<1> USE DEF Init
<1>1. TypeOK
  <2>1. at \in [Conns -> Places]
    BY PlacesHas DEF Plain
  <2>2. MaxFrames \in 0 .. MaxFrames /\ 0 \in 0 .. Room
    BY RoomAssumption
  <2> QED BY <2>1, <2>2 DEF TypeOK
<1>2. FreshInv
  BY ConnsAssumption DEF FreshInv, Arg
<1>3. EndInv /\ AttachInv
  BY DEF EndInv, AttachInv, Attached, At
<1>4. FeedInv /\ CountInv /\ ScanInv
  BY DEF FeedInv, CountInv, ScanInv, Found
<1>5. SizeInv
  BY DEF SizeInv, Resizing
<1> QED BY <1>1, <1>2, <1>3, <1>4, <1>5 DEF ConnInv

\* The invariant holds: types, the stages of cleanup, the map of attachments, feeds,
\* counts, the scan and the sizes.
THEOREM ConnInvariant == Spec => [](TypeOK /\ ConnInv /\ SizeInv)
<1>1. Init => TypeOK /\ ConnInv /\ SizeInv
  BY ConnInit
<1>2. ASSUME TypeOK, ConnInv, SizeInv, [Next]_vars PROVE TypeOK' /\ ConnInv' /\ SizeInv'
  BY <1>2, TypeNext, EndNext, AttachNext, FreshNext, FeedNext, CountNext, ScanNext, SizeNext DEF ConnInv
<1> QED BY <1>1, <1>2, PTL DEF Spec

\* The types; a release never takes a count below zero.
THEOREM ConnTypes == Spec => []TypeOK
BY ConnInvariant, PTL

\* "cleanup releases every resource the connection held" (conn.go:109): the count is
\* exact, and a connection that is gone has no feed, no subscription and no write
\* lock left.
THEOREM GoneHoldsNothingAlways == Spec => []GoneHoldsNothing
<1>1. TypeOK /\ ConnInv => GoneHoldsNothing
  <2> SUFFICES ASSUME TypeOK, ConnInv PROVE GoneHoldsNothing
    OBVIOUS
  <2>1. ASSUME NEW c \in Conns, At(c, "gone")
        PROVE  /\ closed[c]
               /\ \A f \in Sessions : feed[c][f] \in {"none", "done"}
               /\ \A s \in Sessions : Found(s) => lock[s] # c /\ c \notin Subscribed(s)
    <3>1. closed[c] /\ Attached(c) = {} /\ todo[c] = {}
      BY <2>1 DEF ConnInv, EndInv, At
    <3>2. \A s \in Sessions : c \notin Subscribed(s)
      BY <2>1, <3>1 DEF Subscribed, At
    <3>3. \A f \in Sessions : feed[c][f] \in {"none", "done"}
      BY <3>2 DEF ConnInv, FeedInv, TypeOK
    <3>4. \A s \in Sessions : Found(s) => lock[s] # c
      BY <2>1 DEF ConnInv, ScanInv
    <3> QED BY <3>1, <3>2, <3>3, <3>4
  <2> QED BY <2>1 DEF GoneHoldsNothing, ConnInv, CountInv
<1> QED BY <1>1, ConnInvariant, PTL

\* The size a session reports is its terminal's, unless resizes overlapped.
THEOREM SizeTrueAlways == Spec => []SizeTrue
<1>1. SizeInv => SizeTrue
  BY DEF SizeInv, SizeTrue
<1> QED BY <1>1, ConnInvariant, PTL
=============================================================================
