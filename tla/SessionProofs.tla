---------------------------- MODULE SessionProofs ----------------------------
(***************************************************************************)
(* Proofs about module Session, for any number of subscribers, bytes and   *)
(* rolled-back handovers.                                                  *)
(*                                                                         *)
(* The argument for the reader side: a pump that has not closed readerDone *)
(* is active.  There is at most one, and while there is one the channel    *)
(* s.readerDone is open; so PauseReader's wait on it ends only when no     *)
(* pump is active, and ResumeReader, which makes a new channel, starts its *)
(* pump when there is none (ReaderInv).  With one reader every byte is in  *)
(* the kernel, in that reader's hands or in the ring, and a pump leaves    *)
(* for finish only when the first two are empty for good (StreamInv).      *)
(***************************************************************************)
EXTENDS Session, FiniteSetTheorems, TLAPS

\* The pumps that have not closed readerDone.
Active(p) == pc[p] \in {"read", "store", "notify", "failed", "parking", "ending"}

\* Pumps that have not been started do not run, and a handover under way may
\* start one more.
StartInv ==
    /\ \A p \in Pumps : p > pumps => pc[p] = "none"
    /\ ctl # "idle" => pumps < MaxPumps

\* The state is exited from the moment finish is past its critical section.
ExitInv ==
    /\ RunningImpliesOpen
    /\ \A p \in Pumps : pc[p] \in {"closePtmx", "emit", "closeDone"} => state = "exited"

\* One active pump, and what each stage of a handover knows about it.
ReaderInv ==
    /\ \A p, q \in Pumps : Active(p) /\ Active(q) => p = q
    /\ \A p \in Pumps : Active(p) => readerDone \notin rdClosed
    /\ \A d \in rdClosed : d <= readerDone
    /\ ctl = "await" => ctlDone = readerDone
    /\ ctl = "failed" => state = "exited"
    /\ ctl \in {"held", "resume"} /\ state = "running" => readerDone \in rdClosed
    /\ ctl = "clear" => readerDone \notin rdClosed /\ \A p \in Pumps : ~Active(p)

\* An expired deadline fails a read only while the reader is being paused.
DeadlineInv ==
    /\ deadline => paused \/ ctl = "clear" \/ ~ptmxOpen
    /\ ctl = "deadline" => paused
    /\ \A p \in Pumps : pc[p] = "failed" /\ readErr[p] = "deadline" => paused

\* A pump on its way to finish, and one in finish.
Leaving(p) == \/ pc[p] \in {"ending", "wait", "flip", "closePtmx", "emit", "closeDone"}
              \/ pc[p] = "failed" /\ readErr[p] # "deadline"

\* The stream has come to its end and all of it is in the ring.
Drained == tty = "hup" /\ kbuf = 0 /\ ringEnd = produced

\* Where the bytes are.
StreamInv ==
    /\ \A p \in Pumps : pc[p] = "store" => kbuf + ringEnd + got[p] = produced
    /\ (\A p \in Pumps : pc[p] # "store") => kbuf + ringEnd = produced
    /\ \A p \in Pumps : pc[p] = "store" => got[p] > 0
    /\ \A p \in Pumps : Leaving(p) => Drained
    /\ state = "exited" \/ ~ptmxOpen => Drained

SafeInv == StartInv /\ ExitInv /\ ReaderInv /\ DeadlineInv /\ StreamInv

-----------------------------------------------------------------------------
\* A session just spawned satisfies the invariant.
LEMMA InitSafe == Init => TypeOK /\ SafeInv /\ NoLostWakeup
<1> SUFFICES ASSUME Init PROVE TypeOK /\ SafeInv /\ NoLostWakeup
  OBVIOUS
<1> USE MaxPumpsAssumption DEF Init, Pumps
<1>0. /\ adopted \in BOOLEAN /\ ptmxOpen \in BOOLEAN /\ paused \in BOOLEAN
      /\ deadline \in BOOLEAN /\ panicked \in BOOLEAN
  BY AdoptedAssumption, Zenon
<1>1. TypeOK
  BY <1>0, MaxOutAssumption DEF TypeOK, PumpPC
<1>2. StartInv /\ ExitInv
  BY DEF StartInv, ExitInv, RunningImpliesOpen
<1>3. ReaderInv
  BY DEF ReaderInv, Active
<1>4. DeadlineInv /\ StreamInv
  BY DEF DeadlineInv, StreamInv, Leaving, Drained
<1>5. NoLostWakeup
  BY DEF NoLostWakeup, Wakeable
<1> QED BY <1>1, <1>2, <1>3, <1>4, <1>5 DEF SafeInv

\* The type invariant is kept, given that a handover starts pumps within bounds.
LEMMA TypesKept ==
    ASSUME TypeOK, StartInv, [Next]_vars
    PROVE  TypeOK'
<1> USE MaxOutAssumption, MaxPumpsAssumption DEF TypeOK, Pumps, PumpPC, child, result, reader, handoff, waiting
<1>2. ASSUME NEW p \in Pumps, PumpStep(p) PROVE TypeOK'
  <2>1. CASE PumpRead(p)
    BY <2>1 DEF PumpRead
  <2>2. CASE PumpStore(p)
    BY <2>2 DEF PumpStore
  <2>3. CASE PumpNotify(p)
    BY <2>3 DEF PumpNotify, Broadcast
  <2>4. CASE PumpCheck(p)
    BY <2>4 DEF PumpCheck
  <2>5. CASE PumpCloseReaderDone(p)
    <3>1. panicked' \in BOOLEAN
      BY <2>5, Zenon DEF PumpCloseReaderDone
    <3>2. rdClosed' \subseteq Nat
      <4>1. CASE readerDone \in rdClosed
        BY <2>5, <4>1 DEF PumpCloseReaderDone
      <4>2. CASE readerDone \notin rdClosed
        <5>1. rdClosed' = rdClosed \cup {readerDone}
          BY <2>5, <4>2, Zenon DEF PumpCloseReaderDone
        <5> QED BY <5>1
      <4> QED BY <4>1, <4>2
    <3>3. pc' \in [Pumps -> PumpPC]
      BY <2>5 DEF PumpCloseReaderDone
    <3> QED BY <2>5, <3>1, <3>2, <3>3 DEF PumpCloseReaderDone
  <2>6. CASE FinishWait(p)
    BY <2>6 DEF FinishWait
  <2>7. CASE FinishFlip(p)
    BY <2>7 DEF FinishFlip, Broadcast
  <2>8. CASE FinishClosePtmx(p)
    <3>1. ptmxOpen' \in BOOLEAN
      BY <2>8, Zenon DEF FinishClosePtmx
    <3> QED BY <2>8, <3>1 DEF FinishClosePtmx
  <2>9. CASE FinishEmit(p)
    BY <2>9 DEF FinishEmit
  <2>10. CASE FinishCloseDone(p)
    BY <2>10 DEF FinishCloseDone
  <2> QED BY <1>2, <2>1, <2>2, <2>3, <2>4, <2>5, <2>6, <2>7, <2>8, <2>9, <2>10 DEF PumpStep
<1>3. CASE ChildWrite
  BY <1>3 DEF ChildWrite
<1>4. CASE ChildHangup
  BY <1>4 DEF ChildHangup
<1>5. CASE ChildDie
  BY <1>5 DEF ChildDie
<1>6. CASE PauseFlag
  BY <1>6 DEF PauseFlag
<1>7. CASE PauseDeadline
  BY <1>7 DEF PauseDeadline
<1>8. CASE PauseAwait
  BY <1>8 DEF PauseAwait
<1>9. CASE HandoverFail
  BY <1>9 DEF HandoverFail
<1>10. CASE ResumeFlag
  <2>1. paused' \in BOOLEAN
    BY <1>10, Zenon DEF ResumeFlag
  <2>2. readerDone' \in Nat /\ ctl' \in {"clear", "idle"}
    BY <1>10 DEF ResumeFlag
  <2> QED BY <1>10, <2>1, <2>2 DEF ResumeFlag
<1>11. CASE ResumeStart
  <2>1. deadline' \in BOOLEAN /\ ctl' = "idle"
    BY <1>11 DEF ResumeStart
  <2>2. pumps' \in Pumps
    BY <1>11 DEF ResumeStart, StartInv
  <2>3. pc' \in [Pumps -> PumpPC]
    BY <1>11 DEF ResumeStart, StartInv
  <2> QED BY <1>11, <2>1, <2>2, <2>3 DEF ResumeStart
<1>12. ASSUME NEW w \in Subs, WaitCheck(w) PROVE TypeOK'
  <2>1. after' \in [Subs -> Nat] /\ wpc' \in [Subs -> {"check", "blocked", "returned"}]
    BY <1>12 DEF WaitCheck
  <2> QED BY <1>12, <2>1 DEF WaitCheck
<1>13. ASSUME NEW w \in Subs, Cancel(w) PROVE TypeOK'
  BY <1>13 DEF Cancel, Broadcast
<1>14. ASSUME NEW w \in Subs, CancelWake(w) PROVE TypeOK'
  BY <1>14 DEF CancelWake, Broadcast
<1>15. CASE UNCHANGED vars
  BY <1>15 DEF vars
<1> QED BY <1>2, <1>3, <1>4, <1>5, <1>6, <1>7, <1>8, <1>9, <1>10, <1>11, <1>12, <1>13, <1>14, <1>15 DEF Next, CtlStep, Terminated

-----------------------------------------------------------------------------
(* The invariants, one action after the other. *)

\* A pump's step.
LEMMA PumpSafe ==
    ASSUME TypeOK, SafeInv, NEW p \in Pumps, PumpStep(p)
    PROVE  SafeInv'
<1> USE DEF TypeOK, SafeInv, child, result, reader, handoff, waiting, Pumps, PumpPC
<1>1. CASE PumpRead(p)
  <2>0. /\ pc[p] = "read" /\ pc'[p] \in {"failed", "store"}
        /\ \A q \in Pumps : q # p => pc'[q] = pc[q] /\ readErr'[q] = readErr[q]
        /\ UNCHANGED <<adopted, child, ringEnd, result, ptmxOpen, pumps, code, handoff>>
    BY <1>1 DEF PumpRead
  <2>1. StartInv'
    BY <2>0 DEF StartInv
  <2>2. ExitInv'
    BY <2>0 DEF ExitInv, RunningImpliesOpen
  <2>3. ReaderInv'
    <3>1. \A q \in Pumps : Active(q)' <=> Active(q)
      BY <2>0 DEF Active
    <3> QED BY <2>0, <3>1 DEF ReaderInv
  <2>4. DeadlineInv'
    <3>1. CASE pc'[p] = "failed" /\ readErr' = [readErr EXCEPT ![p] = "deadline"] /\ ptmxOpen /\ deadline
      <4>1. paused
        BY <2>0, <3>1 DEF DeadlineInv, ReaderInv, Active
      <4> QED BY <2>0, <3>1, <4>1 DEF DeadlineInv
    <3>2. CASE pc'[p] = "failed" /\ readErr' = [readErr EXCEPT ![p] = "eof"]
      BY <2>0, <3>2 DEF DeadlineInv
    <3>3. CASE pc'[p] = "store" /\ UNCHANGED readErr
      BY <2>0, <3>3 DEF DeadlineInv
    <3> QED BY <1>1, <3>1, <3>2, <3>3 DEF PumpRead
  <2>5. StreamInv'
    <3>0. \A q \in Pumps : pc[q] # "store"
      BY <2>0 DEF ReaderInv, Active
    <3>a. kbuf + ringEnd = produced
      BY <3>0 DEF StreamInv
    <3>1. CASE pc'[p] = "failed" /\ UNCHANGED <<kbuf, got>>
      <4>1. readErr'[p] = "deadline" \/ ~ptmxOpen \/ (kbuf = 0 /\ tty = "hup")
        BY <1>1, <3>1 DEF PumpRead
      <4>2. readErr'[p] # "deadline" => Drained
        BY <3>a, <4>1 DEF StreamInv, Drained
      <4>3. \A q \in Pumps : Leaving(q)' => Drained
        BY <2>0, <3>1, <4>2 DEF StreamInv, Leaving
      <4> QED BY <2>0, <3>0, <3>1, <4>3 DEF StreamInv, Drained
    <3>2. CASE pc'[p] = "store" /\ UNCHANGED readErr
      <4>1. PICK n \in 1 .. kbuf : kbuf' = kbuf - n /\ got' = [got EXCEPT ![p] = n]
        BY <1>1, <3>2 DEF PumpRead
      <4>2. ptmxOpen /\ kbuf # 0
        BY <1>1, <3>2, <4>1 DEF PumpRead
      <4>3. state = "running" /\ \A q \in Pumps : ~Leaving(q)
        BY <4>2 DEF StreamInv, Drained
      <4>4. \A q \in Pumps : ~Leaving(q)'
        BY <2>0, <3>2, <4>3 DEF Leaving
      <4>5. got'[p] > 0 /\ kbuf' + ringEnd' + got'[p] = produced'
        BY <2>0, <3>a, <4>1
      <4> QED BY <2>0, <3>0, <3>2, <4>2, <4>3, <4>4, <4>5 DEF StreamInv
    <3> QED BY <1>1, <3>1, <3>2 DEF PumpRead
  <2> QED BY <2>1, <2>2, <2>3, <2>4, <2>5
<1>2. CASE PumpStore(p)
  <2>1. StartInv'
    BY <1>2 DEF PumpStore, StartInv
  <2>2. ExitInv'
    BY <1>2 DEF PumpStore, ExitInv, RunningImpliesOpen
  <2>3. ReaderInv'
    BY <1>2 DEF PumpStore, ReaderInv, Active
  <2>4. DeadlineInv'
    BY <1>2 DEF PumpStore, DeadlineInv
  <2>5. StreamInv'
    <3>1. \A q \in Pumps : q # p => pc[q] # "store"
      BY <1>2 DEF PumpStore, ReaderInv, Active
    <3>2. state = "running" /\ ptmxOpen /\ \A q \in Pumps : ~Leaving(q)
      BY <1>2 DEF PumpStore, StreamInv, Drained
    <3> QED BY <1>2, <3>1, <3>2 DEF PumpStore, StreamInv, Leaving, Drained
  <2> QED BY <2>1, <2>2, <2>3, <2>4, <2>5
<1>3. CASE PumpNotify(p)
  <2>1. StartInv'
    BY <1>3 DEF PumpNotify, StartInv, Broadcast
  <2>2. ExitInv'
    BY <1>3 DEF PumpNotify, ExitInv, RunningImpliesOpen, Broadcast
  <2>3. ReaderInv'
    BY <1>3 DEF PumpNotify, ReaderInv, Active, Broadcast
  <2>4. DeadlineInv'
    BY <1>3 DEF PumpNotify, DeadlineInv, Broadcast
  <2>5. StreamInv'
    BY <1>3 DEF PumpNotify, StartInv, ExitInv, RunningImpliesOpen, ReaderInv, Active, DeadlineInv, StreamInv, Leaving, Drained, Broadcast
  <2> QED BY <2>1, <2>2, <2>3, <2>4, <2>5
<1>4. CASE PumpCheck(p)
  <2>1. StartInv'
    BY <1>4 DEF PumpCheck, StartInv
  <2>2. ExitInv'
    BY <1>4 DEF PumpCheck, ExitInv, RunningImpliesOpen
  <2>3. ReaderInv'
    BY <1>4 DEF PumpCheck, ReaderInv, Active
  <2>4. DeadlineInv'
    BY <1>4 DEF PumpCheck, DeadlineInv
  <2>5. StreamInv'
    BY <1>4 DEF PumpCheck, StartInv, ExitInv, RunningImpliesOpen, ReaderInv, Active, DeadlineInv, StreamInv, Leaving, Drained
  <2> QED BY <2>1, <2>2, <2>3, <2>4, <2>5
<1>5. CASE PumpCloseReaderDone(p)
  <2>1. StartInv'
    BY <1>5 DEF PumpCloseReaderDone, StartInv
  <2>2. ExitInv'
    BY <1>5 DEF PumpCloseReaderDone, ExitInv, RunningImpliesOpen
  <2>0. /\ readerDone \notin rdClosed
        /\ rdClosed' = rdClosed \cup {readerDone}
        /\ pc' = [pc EXCEPT ![p] = IF pc[p] = "parking" THEN "end" ELSE "wait"]
    BY <1>5 DEF PumpCloseReaderDone, ReaderInv, Active
  <2>3. ReaderInv'
    <3>1. \A q \in Pumps : ~Active(q)'
      BY <1>5, <2>0 DEF PumpCloseReaderDone, ReaderInv, Active
    <3>2. ctl # "clear" /\ UNCHANGED <<readerDone, ctl, ctlDone, state>>
      BY <1>5 DEF PumpCloseReaderDone, ReaderInv, Active
    <3> QED BY <2>0, <3>1, <3>2 DEF ReaderInv
  <2>4. DeadlineInv'
    BY <1>5 DEF PumpCloseReaderDone, DeadlineInv
  <2>5. StreamInv'
    <3>1. \A q \in Pumps : Leaving(q)' => Leaving(q)
      BY <1>5, <2>0 DEF PumpCloseReaderDone, Leaving
    <3>2. \A q \in Pumps : (pc'[q] = "store") = (pc[q] = "store")
      BY <1>5, <2>0 DEF PumpCloseReaderDone
    <3> QED BY <1>5, <3>1, <3>2 DEF PumpCloseReaderDone, StreamInv, Drained
  <2> QED BY <2>1, <2>2, <2>3, <2>4, <2>5
<1>6. CASE FinishWait(p)
  <2>1. StartInv'
    BY <1>6 DEF FinishWait, StartInv
  <2>2. ExitInv'
    BY <1>6 DEF FinishWait, ExitInv, RunningImpliesOpen
  <2>3. ReaderInv'
    BY <1>6 DEF FinishWait, ReaderInv, Active
  <2>4. DeadlineInv'
    BY <1>6 DEF FinishWait, DeadlineInv
  <2>5. StreamInv'
    BY <1>6 DEF FinishWait, StartInv, ExitInv, RunningImpliesOpen, ReaderInv, Active, DeadlineInv, StreamInv, Leaving, Drained
  <2> QED BY <2>1, <2>2, <2>3, <2>4, <2>5
<1>7. CASE FinishFlip(p)
  <2>1. StartInv'
    BY <1>7 DEF FinishFlip, StartInv, Broadcast
  <2>2. ExitInv'
    BY <1>7 DEF FinishFlip, ExitInv, RunningImpliesOpen, Broadcast
  <2>3. ReaderInv'
    BY <1>7 DEF FinishFlip, ReaderInv, Active, Broadcast
  <2>4. DeadlineInv'
    BY <1>7 DEF FinishFlip, DeadlineInv, Broadcast
  <2>5. StreamInv'
    BY <1>7 DEF FinishFlip, StartInv, ExitInv, RunningImpliesOpen, ReaderInv, Active, DeadlineInv, StreamInv, Leaving, Drained, Broadcast
  <2> QED BY <2>1, <2>2, <2>3, <2>4, <2>5
<1>8. CASE FinishClosePtmx(p)
  <2>1. StartInv'
    BY <1>8 DEF FinishClosePtmx, StartInv
  <2>2. ExitInv'
    BY <1>8 DEF FinishClosePtmx, ExitInv, RunningImpliesOpen
  <2>3. ReaderInv'
    BY <1>8 DEF FinishClosePtmx, ReaderInv, Active
  <2>4. DeadlineInv'
    BY <1>8 DEF FinishClosePtmx, DeadlineInv
  <2>5. StreamInv'
    BY <1>8 DEF FinishClosePtmx, StartInv, ExitInv, RunningImpliesOpen, ReaderInv, Active, DeadlineInv, StreamInv, Leaving, Drained
  <2> QED BY <2>1, <2>2, <2>3, <2>4, <2>5
<1>9. CASE FinishEmit(p)
  <2>1. StartInv'
    BY <1>9 DEF FinishEmit, StartInv
  <2>2. ExitInv'
    BY <1>9 DEF FinishEmit, ExitInv, RunningImpliesOpen
  <2>3. ReaderInv'
    BY <1>9 DEF FinishEmit, ReaderInv, Active
  <2>4. DeadlineInv'
    BY <1>9 DEF FinishEmit, DeadlineInv
  <2>5. StreamInv'
    BY <1>9 DEF FinishEmit, StartInv, ExitInv, RunningImpliesOpen, ReaderInv, Active, DeadlineInv, StreamInv, Leaving, Drained
  <2> QED BY <2>1, <2>2, <2>3, <2>4, <2>5
<1>10. CASE FinishCloseDone(p)
  <2>1. StartInv'
    BY <1>10 DEF FinishCloseDone, StartInv
  <2>2. ExitInv'
    BY <1>10 DEF FinishCloseDone, ExitInv, RunningImpliesOpen
  <2>3. ReaderInv'
    BY <1>10 DEF FinishCloseDone, ReaderInv, Active
  <2>4. DeadlineInv'
    BY <1>10 DEF FinishCloseDone, DeadlineInv
  <2>5. StreamInv'
    BY <1>10 DEF FinishCloseDone, StartInv, ExitInv, RunningImpliesOpen, ReaderInv, Active, DeadlineInv, StreamInv, Leaving, Drained
  <2> QED BY <2>1, <2>2, <2>3, <2>4, <2>5
<1> QED BY <1>1, <1>2, <1>3, <1>4, <1>5, <1>6, <1>7, <1>8, <1>9, <1>10 DEF PumpStep

\* A step of the child, or of a subscriber, leaves the reader side alone.
LEMMA OutsideSafe ==
    ASSUME TypeOK, SafeInv,
           \/ ChildWrite \/ ChildHangup \/ ChildDie
           \/ \E w \in Subs : WaitCheck(w) \/ Cancel(w) \/ CancelWake(w)
           \/ UNCHANGED vars
    PROVE  SafeInv'
<1> USE DEF TypeOK, SafeInv, child, result, reader, handoff, Pumps
<1>1. /\ UNCHANGED <<ringEnd, result, ptmxOpen, reader, handoff>>
      /\ \/ UNCHANGED <<tty, produced, kbuf>>
         \/ tty' = "hup" /\ UNCHANGED <<produced, kbuf>>
         \/ tty = "open" /\ produced' = produced + 1 /\ kbuf' = kbuf + 1 /\ UNCHANGED tty
  BY DEF ChildWrite, ChildHangup, ChildDie, WaitCheck, Cancel, CancelWake, vars
<1>2. StartInv'
  BY <1>1 DEF StartInv
<1>3. ExitInv'
  BY <1>1 DEF ExitInv, RunningImpliesOpen
<1>4. ReaderInv'
  BY <1>1 DEF ReaderInv, Active
<1>5. DeadlineInv'
  BY <1>1 DEF DeadlineInv
<1>6. StreamInv'
  <2>1. \A q \in Pumps : Leaving(q)' <=> Leaving(q)
    BY <1>1 DEF Leaving
  <2>2. Drained => Drained'
    BY <1>1 DEF Drained
  <2>3. ASSUME NEW q \in Pumps, pc[q] = "store"
        PROVE  kbuf' + ringEnd' + got[q] = produced'
    <3>1. kbuf + ringEnd + got[q] = produced /\ got[q] \in Nat
      BY <2>3 DEF StreamInv
    <3> QED BY <1>1, <3>1
  <2>4. (\A q \in Pumps : pc[q] # "store") => kbuf' + ringEnd' = produced'
    BY <1>1 DEF StreamInv
  <2> QED BY <1>1, <2>1, <2>2, <2>3, <2>4 DEF StreamInv
<1> QED BY <1>2, <1>3, <1>4, <1>5, <1>6

\* A step of the handover controller.
LEMMA CtlSafe ==
    ASSUME TypeOK, SafeInv, PauseFlag \/ CtlStep
    PROVE  SafeInv'
<1> USE MaxPumpsAssumption DEF TypeOK, SafeInv, child, result, reader, handoff, Pumps, PumpPC
<1>1. CASE PauseFlag
  <2>1. StartInv'
    BY <1>1 DEF PauseFlag, StartInv
  <2>2. ExitInv'
    BY <1>1 DEF PauseFlag, ExitInv, RunningImpliesOpen
  <2>3. ReaderInv'
    BY <1>1 DEF PauseFlag, ReaderInv, Active
  <2>4. DeadlineInv'
    <3>1. (paused => paused') /\ ctl # "clear"
      BY <1>1, Zenon DEF PauseFlag
    <3> QED BY <1>1, <3>1 DEF PauseFlag, DeadlineInv
  <2>5. StreamInv'
    BY <1>1 DEF PauseFlag, StreamInv, Leaving, Drained
  <2> QED BY <2>1, <2>2, <2>3, <2>4, <2>5
<1>2. CASE PauseDeadline
  <2>1. StartInv'
    BY <1>2 DEF PauseDeadline, StartInv
  <2>2. ExitInv'
    BY <1>2 DEF PauseDeadline, ExitInv, RunningImpliesOpen
  <2>3. ReaderInv'
    BY <1>2 DEF PauseDeadline, ReaderInv, Active, ExitInv, RunningImpliesOpen
  <2>4. DeadlineInv'
    BY <1>2 DEF PauseDeadline, DeadlineInv
  <2>5. StreamInv'
    BY <1>2 DEF PauseDeadline, StreamInv, Leaving, Drained
  <2> QED BY <2>1, <2>2, <2>3, <2>4, <2>5
<1>3. CASE PauseAwait
  <2>1. StartInv'
    BY <1>3 DEF PauseAwait, StartInv
  <2>2. ExitInv'
    BY <1>3 DEF PauseAwait, ExitInv, RunningImpliesOpen
  <2>3. ReaderInv'
    BY <1>3 DEF PauseAwait, ReaderInv, Active
  <2>4. DeadlineInv'
    BY <1>3 DEF PauseAwait, DeadlineInv
  <2>5. StreamInv'
    BY <1>3 DEF PauseAwait, StreamInv, Leaving, Drained
  <2> QED BY <2>1, <2>2, <2>3, <2>4, <2>5
<1>4. CASE HandoverFail
  <2>1. StartInv'
    BY <1>4 DEF HandoverFail, StartInv
  <2>2. ExitInv'
    BY <1>4 DEF HandoverFail, ExitInv, RunningImpliesOpen
  <2>3. ReaderInv'
    BY <1>4 DEF HandoverFail, ReaderInv, Active
  <2>4. DeadlineInv'
    BY <1>4 DEF HandoverFail, DeadlineInv
  <2>5. StreamInv'
    BY <1>4 DEF HandoverFail, StreamInv, Leaving, Drained
  <2> QED BY <2>1, <2>2, <2>3, <2>4, <2>5
<1>5. CASE ResumeFlag
  <2>1. StartInv'
    BY <1>5 DEF ResumeFlag, StartInv
  <2>2. ExitInv'
    BY <1>5 DEF ResumeFlag, ExitInv, RunningImpliesOpen
  <2>3. ReaderInv' /\ DeadlineInv'
    <3>1. CASE state = "running" /\ paused
      <4>1. \A q \in Pumps : ~Active(q)
        BY <1>5, <3>1 DEF ResumeFlag, ReaderInv
      <4>2. /\ readerDone' = readerDone + 1 /\ ctl' = "clear"
            /\ UNCHANGED <<pc, readErr, rdClosed, state, ctlDone, deadline, ptmxOpen>>
        BY <1>5, <3>1 DEF ResumeFlag
      <4>3. \A q \in Pumps : ~Active(q)'
        BY <4>1, <4>2 DEF Active
      <4>4. ReaderInv'
        BY <4>2, <4>3 DEF ReaderInv
      <4>5. DeadlineInv'
        BY <4>2, <4>3 DEF DeadlineInv, Active
      <4> QED BY <4>4, <4>5
    <3>2. CASE ~(state = "running" /\ paused)
      <4>1. /\ ctl = "resume" /\ ctl' = "idle"
            /\ UNCHANGED <<paused, readerDone, pc, readErr, rdClosed, state, ctlDone, deadline, ptmxOpen>>
        BY <1>5, <3>2 DEF ResumeFlag
      <4>2. ReaderInv'
        BY <4>1 DEF ReaderInv, Active
      <4>3. DeadlineInv'
        BY <4>1 DEF DeadlineInv
      <4> QED BY <4>2, <4>3
    <3> QED BY <3>1, <3>2
  <2>5. StreamInv'
    BY <1>5 DEF ResumeFlag, StreamInv, Leaving, Drained
  <2> QED BY <2>1, <2>2, <2>3, <2>5
<1>6. CASE ResumeStart
  <2>1. CASE ptmxOpen
    <3>0. /\ ctl = "clear" /\ ctl' = "idle" /\ pumps' = pumps + 1 /\ ~deadline'
          /\ pumps + 1 \in Pumps /\ pc[pumps + 1] = "none"
          /\ pc' = [pc EXCEPT ![pumps + 1] = "read"]
          /\ UNCHANGED <<adopted, child, kbuf, ringEnd, result, ptmxOpen, got,
                         readErr, code, paused, readerDone, rdClosed, ctlDone>>
      BY <1>6, <2>1 DEF ResumeStart, StartInv
    <3>1. /\ pc'[pumps + 1] = "read"
          /\ \A q \in Pumps : q # pumps + 1 => pc'[q] = pc[q]
      BY <3>0
    <3>2. StartInv'
      BY <3>0, <3>1 DEF StartInv
    <3>3. ExitInv'
      BY <3>0, <3>1 DEF ExitInv, RunningImpliesOpen
    <3>4. ReaderInv'
      BY <3>0, <3>1 DEF ReaderInv, Active
    <3>5. DeadlineInv'
      BY <3>0, <3>1 DEF DeadlineInv
    <3>6. StreamInv'
      BY <3>0, <3>1 DEF StreamInv, Leaving, Drained
    <3> QED BY <3>2, <3>3, <3>4, <3>5, <3>6
  <2>2. CASE ~ptmxOpen
    <3>0. /\ ctl = "clear" /\ ctl' = "idle"
          /\ UNCHANGED <<child, kbuf, ringEnd, result, ptmxOpen, reader,
                         paused, deadline, readerDone, rdClosed, ctlDone>>
      BY <1>6, <2>2 DEF ResumeStart
    <3>2. StartInv'
      BY <3>0 DEF StartInv
    <3>3. ExitInv'
      BY <3>0 DEF ExitInv, RunningImpliesOpen
    <3>4. ReaderInv'
      BY <3>0 DEF ReaderInv, Active
    <3>5. DeadlineInv'
      BY <2>2, <3>0 DEF DeadlineInv
    <3>6. StreamInv'
      BY <3>0 DEF StreamInv, Leaving, Drained
    <3> QED BY <3>2, <3>3, <3>4, <3>5, <3>6
  <2> QED BY <2>1, <2>2
<1> QED BY <1>1, <1>2, <1>3, <1>4, <1>5, <1>6 DEF CtlStep

\* Every step of the session keeps it.
LEMMA SafeKept ==
    ASSUME TypeOK, SafeInv, [Next]_vars
    PROVE  SafeInv'
BY OutsideSafe, CtlSafe, PumpSafe DEF Next, Terminated

-----------------------------------------------------------------------------
\* Every step that can make a sleeper's condition true leaves a broadcast
\* pending or makes one itself: the ring advances only to "notify", the exit
\* is recorded with its broadcast, a cancel leaves its AfterFunc to run.
LEMMA WakeKept ==
    ASSUME TypeOK, SafeInv, NoLostWakeup, [Next]_vars
    PROVE  NoLostWakeup'
<1> USE DEF TypeOK, child, result, reader, handoff, waiting, Pumps
<1>1. CASE /\ UNCHANGED <<ringEnd, state, waiting>>
           /\ \A q \in Pumps : pc[q] = "notify" => pc'[q] = "notify"
  BY <1>1 DEF NoLostWakeup, Wakeable
<1>2. ASSUME NEW p \in Pumps, PumpStep(p) PROVE NoLostWakeup'
  <2>1. CASE PumpStore(p)
    <3>1. pc'[p] = "notify"
      BY <2>1 DEF PumpStore
    <3> QED BY <3>1 DEF NoLostWakeup
  <2>2. CASE PumpNotify(p) \/ FinishFlip(p)
    <3>1. \A w \in Subs : wpc'[w] # "blocked"
      BY <2>2 DEF PumpNotify, FinishFlip, Broadcast
    <3> QED BY <3>1 DEF NoLostWakeup
  <2>3. CASE PumpRead(p)
    BY <1>1, <2>3 DEF PumpRead
  <2>4. CASE PumpCheck(p)
    BY <1>1, <2>4 DEF PumpCheck
  <2>5. CASE PumpCloseReaderDone(p)
    <3>1. \A q \in Pumps : pc[q] = "notify" => pc'[q] = "notify"
      BY <2>5 DEF PumpCloseReaderDone
    <3> QED BY <1>1, <2>5, <3>1 DEF PumpCloseReaderDone
  <2>6. CASE FinishWait(p)
    BY <1>1, <2>6 DEF FinishWait
  <2>7. CASE FinishClosePtmx(p)
    BY <1>1, <2>7 DEF FinishClosePtmx
  <2>8. CASE FinishEmit(p)
    BY <1>1, <2>8 DEF FinishEmit
  <2>9. CASE FinishCloseDone(p)
    BY <1>1, <2>9 DEF FinishCloseDone
  <2> QED BY <1>2, <2>1, <2>2, <2>3, <2>4, <2>5, <2>6, <2>7, <2>8, <2>9 DEF PumpStep
<1>3. CASE ChildWrite \/ ChildHangup \/ ChildDie \/ UNCHANGED vars
  BY <1>1, <1>3 DEF ChildWrite, ChildHangup, ChildDie, vars
<1>4. CASE PauseFlag \/ CtlStep
  <2>1. CASE ResumeStart
    <3>1. CASE ptmxOpen
      <4>1. pumps + 1 \in Pumps /\ pc[pumps + 1] = "none"
        BY <2>1, MaxPumpsAssumption DEF ResumeStart, SafeInv, StartInv
      <4>2. pc' = [pc EXCEPT ![pumps + 1] = "read"]
        BY <2>1, <3>1 DEF ResumeStart
      <4>3. \A q \in Pumps : pc[q] = "notify" => pc'[q] = "notify"
        BY <4>1, <4>2
      <4> QED BY <1>1, <2>1, <4>3 DEF ResumeStart
    <3>2. CASE ~ptmxOpen
      BY <1>1, <2>1, <3>2 DEF ResumeStart
    <3> QED BY <3>1, <3>2
  <2>2. CASE PauseFlag \/ PauseDeadline \/ PauseAwait \/ HandoverFail \/ ResumeFlag
    <3>1. UNCHANGED <<ringEnd, state, waiting, pc>>
      BY <2>2 DEF PauseFlag, PauseDeadline, PauseAwait, HandoverFail, ResumeFlag
    <3> QED BY <1>1, <3>1
  <2> QED BY <1>4, <2>1, <2>2 DEF CtlStep
<1>5. ASSUME NEW w \in Subs, WaitCheck(w) PROVE NoLostWakeup'
  <2>1. /\ \A v \in Subs : v # w => wpc'[v] = wpc[v] /\ after'[v] = after[v]
        /\ UNCHANGED <<ringEnd, state, cancelled, pc>>
    BY <1>5 DEF WaitCheck
  <2>2. wpc'[w] = "blocked" => after'[w] = after[w] /\ ~Wakeable(w)
    BY <1>5 DEF WaitCheck
  <2> QED BY <2>1, <2>2 DEF NoLostWakeup, Wakeable
<1>6. ASSUME NEW w \in Subs, Cancel(w) PROVE NoLostWakeup'
  <2>1. /\ \A v \in Subs : v # w => cancelled'[v] = cancelled[v]
        /\ cancelled'[w] = "cancelled" /\ UNCHANGED <<ringEnd, state, wpc, after, pc>>
    BY <1>6 DEF Cancel
  <2> QED BY <2>1 DEF NoLostWakeup, Wakeable
<1>7. ASSUME NEW w \in Subs, CancelWake(w) PROVE NoLostWakeup'
  <2>1. \A v \in Subs : wpc'[v] # "blocked"
    BY <1>7 DEF CancelWake, Broadcast
  <2> QED BY <2>1 DEF NoLostWakeup
<1> QED BY <1>2, <1>3, <1>4, <1>5, <1>6, <1>7 DEF Next, Terminated

-----------------------------------------------------------------------------
\* The inductive invariant holds in every state the session can reach.
THEOREM SessionInvariant == Spec => [](TypeOK /\ SafeInv /\ NoLostWakeup)
<1>1. TypeOK /\ SafeInv /\ NoLostWakeup /\ [Next]_vars
        => (TypeOK /\ SafeInv /\ NoLostWakeup)'
  BY TypesKept, SafeKept, WakeKept DEF SafeInv
<1> QED BY InitSafe, <1>1, PTL DEF Spec

\* Types: every variable of the session keeps its type.
THEOREM SessionTypes == Spec => []TypeOK
BY SessionInvariant, PTL

\* No lost wakeup (session.go readPump, finish, WaitOutput): a subscriber asleep
\* although its condition holds always has a broadcast on its way, whatever the
\* number of subscribers, pumps and rolled-back handovers.
THEOREM NoWakeupLost == Spec => []NoLostWakeup
BY SessionInvariant, PTL

\* One reader (session.go readPump, handover.go ResumeReader): never do two
\* pumps hold output at once, however often a handover is rolled back.
THEOREM OneReaderAlways == Spec => []OneReader
<1>1. TypeOK /\ SafeInv => OneReader
  <2> SUFFICES ASSUME TypeOK, SafeInv PROVE OneReader
    OBVIOUS
  <2> DEFINE R == {p \in Pumps : pc[p] \in {"read", "store", "notify"}}
  <2>1. \A p, q \in R : p = q
    BY DEF SafeInv, ReaderInv, Active
  <2>2. CASE R = {}
    BY <2>2, FS_EmptySet DEF OneReader
  <2>3. CASE R # {}
    <3>1. PICK p : R = {p}
      BY <2>1, <2>3
    <3>2. Cardinality({p}) = 1
      BY FS_Singleton
    <3> QED BY <3>1, <3>2 DEF OneReader
  <2> QED BY <2>2, <2>3
<1> QED BY SessionInvariant, <1>1, PTL

\* A recorded exit is final (session.go finish): when the state is exited, all
\* the child ever wrote is in the ring, also after rolled-back handovers.
THEOREM DrainedAtExit == Spec => []DrainedBeforeExit
<1>1. SafeInv => DrainedBeforeExit
  BY DEF SafeInv, StreamInv, Drained, DrainedBeforeExit
<1> QED BY SessionInvariant, <1>1, PTL

\* The master descriptor is open while the state is running (session.go Info
\* asks for its Fd only then).
THEOREM RunningIsOpen == Spec => []RunningImpliesOpen
<1>1. SafeInv => RunningImpliesOpen
  BY DEF SafeInv, ExitInv
<1> QED BY SessionInvariant, <1>1, PTL

\* Quiescence (handover.go PauseReader, HandoverState): from PauseReader's
\* return to the resume no byte enters the ring.
THEOREM QuiescenceKept == Spec => QuiescentWhileHeld
<1>1. TypeOK /\ SafeInv /\ [Next]_vars => [ctl = "held" /\ ctl' = "held" => ringEnd' = ringEnd]_vars
  <2> SUFFICES ASSUME TypeOK, SafeInv, Next, ctl = "held" PROVE ringEnd' = ringEnd
    BY DEF vars
  <2> USE DEF TypeOK, Pumps
  <2>1. \A p \in Pumps : pc[p] # "store"
    <3>1. CASE state = "running"
      BY <3>1 DEF SafeInv, ReaderInv, Active
    <3>2. ASSUME state = "exited", NEW p \in Pumps, pc[p] = "store" PROVE FALSE
      <4>1. kbuf + ringEnd + got[p] = produced /\ got[p] > 0 /\ got[p] \in Nat
        BY <3>2 DEF SafeInv, StreamInv
      <4>2. kbuf = 0 /\ ringEnd = produced
        BY <3>2 DEF SafeInv, StreamInv, Drained
      <4> QED BY <4>1, <4>2
    <3> QED BY <3>1, <3>2
  <2>2. ASSUME NEW p \in Pumps, PumpStep(p) PROVE ringEnd' = ringEnd
    BY <2>1, <2>2 DEF PumpStep, PumpRead, PumpStore, PumpNotify, PumpCheck,
       PumpCloseReaderDone, FinishWait, FinishFlip, FinishClosePtmx, FinishEmit, FinishCloseDone
  <2>3. CASE PauseFlag \/ CtlStep
    BY <2>3 DEF CtlStep, PauseFlag, PauseDeadline, PauseAwait, HandoverFail, ResumeFlag, ResumeStart
  <2>4. CASE \/ ChildWrite \/ ChildHangup \/ ChildDie \/ UNCHANGED vars
             \/ \E w \in Subs : WaitCheck(w) \/ Cancel(w) \/ CancelWake(w)
    BY <2>4 DEF ChildWrite, ChildHangup, ChildDie, WaitCheck, Cancel, CancelWake, vars
  <2> QED BY <2>2, <2>3, <2>4 DEF Next, Terminated
<1> QED BY SessionInvariant, <1>1, PTL DEF Spec, QuiescentWhileHeld
=============================================================================
