------------------------------- MODULE Session -------------------------------
(***************************************************************************)
(* One PTY session (pkg/host/session.go, pkg/host/handover.go): the child, *)
(* the read pump goroutines, the handover controller that pauses and, on   *)
(* rollback, resumes the pump, and the subscribers blocked in WaitOutput.  *)
(*                                                                         *)
(* Every step is one critical section of s.mu, one channel operation or    *)
(* one call on the PTY.  Output is counted, not spelled out: the ring is   *)
(* its end (module Ring shows that the count is enough), and the kernel's  *)
(* PTY buffer is the number of bytes waiting in it.  Closing a closed      *)
(* channel panics, which ends the daemon.                                  *)
(***************************************************************************)
EXTENDS Naturals, FiniteSets

CONSTANTS Subs,      \* subscribers calling WaitOutput
          Adopted,   \* the sessions' s.adopted values to start from
          Rollback,  \* whether a handover may fail and roll back
          MaxOut,    \* bound: bytes the child writes
          MaxPumps   \* bound: pump goroutines ever started

ASSUME AdoptedAssumption  == Adopted \subseteq BOOLEAN
ASSUME RollbackAssumption == Rollback \in BOOLEAN
ASSUME MaxOutAssumption   == MaxOut \in Nat
ASSUME MaxPumpsAssumption == MaxPumps \in Nat \ {0}

VARIABLES
    adopted,   \* s.adopted: not our child, cmd is nil
    tty,       \* "open" until every slave descriptor is closed, then "hup"
    proc,      \* "alive" until the child dies, then "dead"
    kbuf,      \* bytes in the kernel's PTY buffer
    produced,  \* history: bytes the child ever wrote
    ringEnd,   \* s.ring.LastSeq()
    state,     \* s.state
    exit,      \* s.exitCode: none yet, the wait status, or -1 for unknown
    ptmxOpen,  \* s.ptmx not closed
    paused,    \* s.paused
    deadline,  \* s.ptmx has an expired read deadline
    readerDone,\* which channel s.readerDone holds now
    rdClosed,  \* the readerDone channels that are closed
    pumps,     \* pump goroutines started so far: 1 .. pumps
    pc,        \* where each pump goroutine is
    got,       \* bytes a pump has read and not yet put in the ring
    readErr,   \* the error a pump's Read returned
    code,      \* finish()'s local exit code
    finished,  \* how often finish() closed s.done
    events,    \* exited events emitted
    panicked,  \* close of a closed channel
    ctl,       \* the handover controller
    ctlDone,   \* the channel PauseReader waits on
    wpc,       \* where each subscriber is
    after,     \* WaitOutput's afterSeq
    cancelled  \* "live", "cancelled" (ctx done, broadcast due), "gone"

child   == <<tty, proc, produced>>
result  == <<state, exit, finished, events>>
reader  == <<pumps, pc, got, readErr, code>>
handoff == <<paused, deadline, readerDone, rdClosed, ctl, ctlDone>>
waiting == <<wpc, after, cancelled>>
vars == <<adopted, child, kbuf, ringEnd, result, ptmxOpen, reader, handoff,
          waiting, panicked>>

Pumps == 1 .. MaxPumps

Init ==
    /\ adopted \in Adopted
    /\ tty = "open" /\ proc = "alive" /\ kbuf = 0 /\ produced = 0
    /\ ringEnd = 0
    /\ state = "running" /\ exit = "none" /\ finished = 0 /\ events = 0
    /\ ptmxOpen = TRUE
    /\ paused = FALSE /\ deadline = FALSE
    /\ readerDone = 1 /\ rdClosed = {}
    /\ pumps = 1
    /\ pc = [p \in Pumps |-> IF p = 1 THEN "read" ELSE "none"]
    /\ got = [p \in Pumps |-> 0]
    /\ readErr = [p \in Pumps |-> "nil"]
    /\ code = [p \in Pumps |-> "none"]
    /\ panicked = FALSE
    /\ ctl = "idle" /\ ctlDone = 0
    /\ wpc = [w \in Subs |-> "check"]
    /\ after = [w \in Subs |-> 0]
    /\ cancelled = [w \in Subs |-> "live"]

-----------------------------------------------------------------------------
(* The child and the kernel (external). *)

\* The child writes one byte to its terminal.
ChildWrite ==
    /\ tty = "open" /\ proc = "alive" /\ produced < MaxOut
    /\ produced' = produced + 1 /\ kbuf' = kbuf + 1
    /\ UNCHANGED <<adopted, tty, proc, ringEnd, result, ptmxOpen, reader,
                   handoff, waiting, panicked>>

\* The last slave descriptor closes: the child may live on without it.
ChildHangup ==
    /\ tty = "open" /\ tty' = "hup"
    /\ UNCHANGED <<adopted, proc, produced, kbuf, ringEnd, result, ptmxOpen,
                   reader, handoff, waiting, panicked>>

\* The child dies: another process may still hold the terminal open.
ChildDie ==
    /\ proc = "alive" /\ proc' = "dead"
    /\ UNCHANGED <<adopted, tty, produced, kbuf, ringEnd, result, ptmxOpen,
                   reader, handoff, waiting, panicked>>

-----------------------------------------------------------------------------
(* The condition variable: cond.Broadcast wakes everyone in its wait set. *)

Broadcast == wpc' = [w \in Subs |-> IF wpc[w] = "blocked" THEN "check" ELSE wpc[w]]

-----------------------------------------------------------------------------
(* readPump. *)

\* s.ptmx.Read: a closed file or an expired deadline wins over waiting bytes;
\* bytes win over the hangup; with none of these the goroutine blocks.
PumpRead(p) ==
    /\ pc[p] = "read"
    /\ \/ /\ ~ptmxOpen \/ (~deadline /\ kbuf = 0 /\ tty = "hup")
          /\ readErr' = [readErr EXCEPT ![p] = "eof"]
          /\ pc' = [pc EXCEPT ![p] = "failed"]
          /\ UNCHANGED <<kbuf, got>>
       \/ /\ ptmxOpen /\ deadline
          /\ readErr' = [readErr EXCEPT ![p] = "deadline"]
          /\ pc' = [pc EXCEPT ![p] = "failed"]
          /\ UNCHANGED <<kbuf, got>>
       \/ /\ ptmxOpen /\ ~deadline
          /\ \E n \in 1 .. kbuf : /\ kbuf' = kbuf - n
                                  /\ got' = [got EXCEPT ![p] = n]
          /\ pc' = [pc EXCEPT ![p] = "store"]
          /\ UNCHANGED readErr
    /\ UNCHANGED <<adopted, child, ringEnd, result, ptmxOpen, pumps, code,
                   handoff, waiting, panicked>>

\* s.ring.Write, then the monitor and the log, none of them under s.mu.
PumpStore(p) ==
    /\ pc[p] = "store"
    /\ ringEnd' = ringEnd + got[p]
    /\ got' = [got EXCEPT ![p] = 0]
    /\ pc' = [pc EXCEPT ![p] = "notify"]
    /\ UNCHANGED <<adopted, child, kbuf, result, ptmxOpen, pumps, readErr,
                   code, handoff, waiting, panicked>>

\* Lock, Broadcast, Unlock.
PumpNotify(p) ==
    /\ pc[p] = "notify"
    /\ Broadcast
    /\ pc' = [pc EXCEPT ![p] = "read"]
    /\ UNCHANGED <<adopted, child, kbuf, ringEnd, result, ptmxOpen, pumps, got,
                   readErr, code, handoff, after, cancelled, panicked>>

\* After an error, s.paused decides under s.mu between pausing and ending.
PumpCheck(p) ==
    /\ pc[p] = "failed"
    /\ pc' = [pc EXCEPT ![p] = IF paused /\ readErr[p] = "deadline"
                               THEN "parking" ELSE "ending"]
    /\ UNCHANGED <<adopted, child, kbuf, ringEnd, result, ptmxOpen, pumps, got,
                   readErr, code, handoff, waiting, panicked>>

\* close(s.readerDone), on the pause path and before finish().
PumpCloseReaderDone(p) ==
    /\ pc[p] \in {"parking", "ending"}
    /\ IF readerDone \in rdClosed
       THEN panicked' = TRUE /\ UNCHANGED <<rdClosed, pc>>
       ELSE /\ rdClosed' = rdClosed \cup {readerDone}
            /\ pc' = [pc EXCEPT ![p] = IF pc[p] = "parking" THEN "end" ELSE "wait"]
            /\ UNCHANGED panicked
    /\ UNCHANGED <<adopted, child, kbuf, ringEnd, result, ptmxOpen, pumps, got,
                   readErr, code, paused, deadline, readerDone, ctl, ctlDone,
                   waiting>>

-----------------------------------------------------------------------------
(* finish. *)

\* cmd.Wait, which an adopted session skips: its status is unknown.  A second
\* Wait on the same Cmd returns an error and may or may not find the status.
FinishWait(p) ==
    /\ pc[p] = "wait"
    /\ adopted \/ proc = "dead"
    /\ \E c \in IF adopted THEN {"unknown"}
                ELSE IF \E q \in Pumps : code[q] # "none" THEN {"status", "unknown"}
                ELSE {"status"} :
          code' = [code EXCEPT ![p] = c]
    /\ pc' = [pc EXCEPT ![p] = "flip"]
    /\ UNCHANGED <<adopted, child, kbuf, ringEnd, result, ptmxOpen, pumps, got,
                   readErr, handoff, waiting, panicked>>

\* Mutant: the exit is recorded without waking the subscribers.
FinishFlip_Silent(p) ==
    /\ pc[p] = "flip"
    /\ state' = "exited" /\ exit' = code[p]
    /\ pc' = [pc EXCEPT ![p] = "closePtmx"]
    /\ UNCHANGED <<adopted, child, kbuf, ringEnd, finished, events, ptmxOpen,
                   pumps, got, readErr, code, handoff, waiting, panicked>>

\* The transition to exited, under s.mu, with its broadcast.
FinishFlip(p) ==
    /\ pc[p] = "flip"
    /\ state' = "exited" /\ exit' = code[p]
    /\ Broadcast
    /\ pc' = [pc EXCEPT ![p] = "closePtmx"]
    /\ UNCHANGED <<adopted, child, kbuf, ringEnd, finished, events, ptmxOpen,
                   pumps, got, readErr, code, handoff, after, cancelled, panicked>>

\* s.ptmx.Close and the log's Close.
FinishClosePtmx(p) ==
    /\ pc[p] = "closePtmx"
    /\ ptmxOpen' = FALSE
    /\ pc' = [pc EXCEPT ![p] = "emit"]
    /\ UNCHANGED <<adopted, child, kbuf, ringEnd, result, pumps, got, readErr,
                   code, handoff, waiting, panicked>>

\* bus.EmitExited.
FinishEmit(p) ==
    /\ pc[p] = "emit"
    /\ events' = events + 1
    /\ pc' = [pc EXCEPT ![p] = "closeDone"]
    /\ UNCHANGED <<adopted, child, kbuf, ringEnd, state, exit, finished,
                   ptmxOpen, pumps, got, readErr, code, handoff, waiting, panicked>>

\* close(s.done).
FinishCloseDone(p) ==
    /\ pc[p] = "closeDone"
    /\ finished' = finished + 1
    /\ panicked' = (finished > 0)
    /\ pc' = [pc EXCEPT ![p] = "end"]
    /\ UNCHANGED <<adopted, child, kbuf, ringEnd, state, exit, events, ptmxOpen,
                   pumps, got, readErr, code, handoff, waiting>>

-----------------------------------------------------------------------------
(* PauseReader, and ResumeReader on rollback, called by one handover. *)

\* The critical section: an exited session has no reader to pause.
PauseFlag ==
    /\ ctl = "idle" /\ pumps < MaxPumps
    /\ IF state = "running" THEN paused' = TRUE /\ ctl' = "deadline"
                            ELSE ctl' = "held" /\ UNCHANGED paused
    /\ UNCHANGED <<adopted, child, kbuf, ringEnd, result, ptmxOpen, reader,
                   deadline, readerDone, rdClosed, ctlDone, waiting, panicked>>

\* Mutant: the handover goes on without waiting for the pump to exit.
PauseDeadline_NoWait ==
    /\ ctl = "deadline"
    /\ IF ptmxOpen THEN deadline' = TRUE /\ ctl' = "held" /\ ctlDone' = readerDone
                   ELSE ctl' = "failed" /\ UNCHANGED <<deadline, ctlDone>>
    /\ UNCHANGED <<adopted, child, kbuf, ringEnd, result, ptmxOpen, reader,
                   paused, readerDone, rdClosed, waiting, panicked>>

\* SetReadDeadline(now): an error on a closed file fails the handover.
PauseDeadline ==
    /\ ctl = "deadline"
    /\ IF ptmxOpen THEN deadline' = TRUE /\ ctl' = "await" /\ ctlDone' = readerDone
                   ELSE ctl' = "failed" /\ UNCHANGED <<deadline, ctlDone>>
    /\ UNCHANGED <<adopted, child, kbuf, ringEnd, result, ptmxOpen, reader,
                   paused, readerDone, rdClosed, waiting, panicked>>

\* <-s.readerDone: the session is now held for HandoverState.
PauseAwait ==
    /\ ctl = "await" /\ ctlDone \in rdClosed
    /\ ctl' = "held"
    /\ UNCHANGED <<adopted, child, kbuf, ringEnd, result, ptmxOpen, reader,
                   paused, deadline, readerDone, rdClosed, ctlDone, waiting, panicked>>

\* The handover fails after the pause, or because of it.
HandoverFail ==
    /\ ctl = "failed" \/ (ctl = "held" /\ Rollback)
    /\ ctl' = "resume"
    /\ UNCHANGED <<adopted, child, kbuf, ringEnd, result, ptmxOpen, reader,
                   paused, deadline, readerDone, rdClosed, ctlDone, waiting, panicked>>

\* ResumeReader's critical section.
ResumeFlag ==
    /\ ctl = "resume"
    /\ IF state = "running" /\ paused
       THEN paused' = FALSE /\ readerDone' = readerDone + 1 /\ ctl' = "clear"
       ELSE ctl' = "idle" /\ UNCHANGED <<paused, readerDone>>
    /\ UNCHANGED <<adopted, child, kbuf, ringEnd, result, ptmxOpen, reader,
                   deadline, rdClosed, ctlDone, waiting, panicked>>

\* Mutant: the expired deadline is left on the descriptor.
ResumeStart_DeadlineStays ==
    /\ ctl = "clear"
    /\ ctl' = "idle"
    /\ IF ptmxOpen THEN /\ pumps' = pumps + 1
                        /\ pc' = [pc EXCEPT ![pumps + 1] = "read"]
                   ELSE UNCHANGED <<pumps, pc>>
    /\ UNCHANGED <<adopted, child, kbuf, ringEnd, result, ptmxOpen, got,
                   readErr, code, paused, deadline, readerDone, rdClosed,
                   ctlDone, waiting, panicked>>

\* Mutant: the deadline is cleared but no pump is started.
ResumeStart_NoPump ==
    /\ ctl = "clear"
    /\ ctl' = "idle"
    /\ deadline' = (deadline /\ ~ptmxOpen)
    /\ UNCHANGED <<adopted, child, kbuf, ringEnd, result, ptmxOpen, reader,
                   paused, readerDone, rdClosed, ctlDone, waiting, panicked>>

\* SetReadDeadline(zero), then go s.readPump().
ResumeStart ==
    /\ ctl = "clear"
    /\ ctl' = "idle"
    /\ IF ptmxOpen THEN /\ deadline' = FALSE
                        /\ pumps' = pumps + 1
                        /\ pc' = [pc EXCEPT ![pumps + 1] = "read"]
                   ELSE UNCHANGED <<deadline, pumps, pc>>
    /\ UNCHANGED <<adopted, child, kbuf, ringEnd, result, ptmxOpen, got,
                   readErr, code, paused, readerDone, rdClosed, ctlDone,
                   waiting, panicked>>

-----------------------------------------------------------------------------
(* WaitOutput, in the subscriber's loop. *)

\* The predicate of the wait loop, evaluated under s.mu.
Wakeable(w) == ringEnd > after[w] \/ state = "exited" \/ cancelled[w] # "live"

\* Under s.mu: wait, releasing the lock and joining the wait set in one step,
\* or return; the caller then reads up to the returned seq and calls again,
\* until it is cancelled or has drained an exited session.
WaitCheck(w) ==
    /\ wpc[w] = "check"
    /\ IF ~Wakeable(w) THEN wpc' = [wpc EXCEPT ![w] = "blocked"] /\ UNCHANGED after
       ELSE /\ after' = [after EXCEPT ![w] = ringEnd]
            /\ wpc' = [wpc EXCEPT ![w] =
                         IF state = "exited" \/ cancelled[w] # "live"
                         THEN "returned" ELSE "check"]
    /\ UNCHANGED <<adopted, child, kbuf, ringEnd, result, ptmxOpen, reader,
                   handoff, cancelled, panicked>>

\* The subscriber's context ends.
Cancel(w) ==
    /\ cancelled[w] = "live" /\ wpc[w] # "returned"
    /\ cancelled' = [cancelled EXCEPT ![w] = "cancelled"]
    /\ UNCHANGED <<adopted, child, kbuf, ringEnd, result, ptmxOpen, reader,
                   handoff, wpc, after, panicked>>

\* The context.AfterFunc callback: lock, broadcast, unlock.
CancelWake(w) ==
    /\ cancelled[w] = "cancelled"
    /\ cancelled' = [cancelled EXCEPT ![w] = "gone"]
    /\ Broadcast
    /\ UNCHANGED <<adopted, child, kbuf, ringEnd, result, ptmxOpen, reader,
                   handoff, after, panicked>>

-----------------------------------------------------------------------------
PumpStep(p) ==
    \/ PumpRead(p) \/ PumpStore(p) \/ PumpNotify(p) \/ PumpCheck(p)
    \/ PumpCloseReaderDone(p)
    \/ FinishWait(p) \/ FinishFlip(p) \/ FinishClosePtmx(p) \/ FinishEmit(p)
    \/ FinishCloseDone(p)

CtlStep ==
    \/ PauseDeadline \/ PauseAwait \/ HandoverFail \/ ResumeFlag \/ ResumeStart

\* Nothing is left to do: the daemon crashed, or the child is gone, every
\* goroutine has returned and no handover is under way.
Terminated ==
    /\ \/ panicked
       \/ /\ proc = "dead" /\ tty = "hup"
          /\ \A p \in Pumps : pc[p] \in {"none", "end"}
          /\ \A w \in Subs : wpc[w] = "returned" \/ (wpc[w] = "blocked" /\ ctl = "held")
          /\ ctl \in {"idle", "held"}
    /\ UNCHANGED vars

Next ==
    \/ ~panicked /\ \/ ChildWrite \/ ChildHangup \/ ChildDie
                    \/ \E p \in Pumps : PumpStep(p)
                    \/ PauseFlag \/ CtlStep
                    \/ \E w \in Subs : WaitCheck(w) \/ Cancel(w) \/ CancelWake(w)
    \/ Terminated

\* The goroutines are scheduled and the handover runs to its end.  Nothing is
\* assumed of the child, of clients cancelling or of handovers starting.
Fairness ==
    /\ \A p \in Pumps : WF_vars(~panicked /\ PumpStep(p))
    /\ WF_vars(~panicked /\ CtlStep)
    /\ \A w \in Subs : WF_vars(~panicked /\ (WaitCheck(w) \/ CancelWake(w)))

Spec == Init /\ [][Next]_vars /\ Fairness

-----------------------------------------------------------------------------
(* Properties. *)

PumpPC == {"none", "read", "store", "notify", "failed", "parking", "ending",
           "wait", "flip", "closePtmx", "emit", "closeDone", "end"}

\* Types.
TypeOK ==
    /\ adopted \in BOOLEAN
    /\ tty \in {"open", "hup"} /\ proc \in {"alive", "dead"}
    /\ kbuf \in Nat /\ produced \in 0 .. MaxOut /\ ringEnd \in Nat
    /\ state \in {"running", "exited"}
    /\ exit \in {"none", "status", "unknown"}
    /\ finished \in Nat /\ events \in Nat
    /\ ptmxOpen \in BOOLEAN /\ paused \in BOOLEAN /\ deadline \in BOOLEAN
    /\ panicked \in BOOLEAN
    /\ pumps \in Pumps
    /\ readerDone \in Nat /\ rdClosed \subseteq Nat
    /\ pc \in [Pumps -> PumpPC]
    /\ got \in [Pumps -> Nat]
    /\ readErr \in [Pumps -> {"nil", "eof", "deadline"}]
    /\ code \in [Pumps -> {"none", "status", "unknown"}]
    /\ ctl \in {"idle", "deadline", "await", "held", "failed", "resume", "clear"}
    /\ ctlDone \in Nat
    /\ wpc \in [Subs -> {"check", "blocked", "returned"}]
    /\ after \in [Subs -> Nat]
    /\ cancelled \in [Subs -> {"live", "cancelled", "gone"}]

\* No lost wakeup: the ring advances outside s.mu, yet a subscriber asleep in
\* WaitOutput although its condition holds always has a broadcast on its way,
\* the pump's or its own AfterFunc's (session.go readPump, WaitOutput).
NoLostWakeup ==
    \A w \in Subs : wpc[w] = "blocked" /\ Wakeable(w) =>
        \/ \E p \in Pumps : pc[p] = "notify"
        \/ cancelled[w] = "cancelled"

\* "readPump is the one goroutine that owns reads from the PTY fd"
\* (session.go:269): across pauses, rollbacks and exits no two pumps hold
\* output at the same time, so bytes cannot enter the ring out of order.
OneReader ==
    Cardinality({p \in Pumps : pc[p] \in {"read", "store", "notify"}}) <= 1

\* A recorded exit is final: everything the child wrote is already in the ring,
\* so a subscriber that drains to LastSeq has seen the whole stream, even if
\* the child died during a handover that was rolled back.
DrainedBeforeExit == state = "exited" => ringEnd = produced

\* Info reads ptmx.Fd() whenever the state is running (session.go:331): the
\* descriptor is still open then.
RunningImpliesOpen == state = "running" => ptmxOpen

\* HandoverState needs "the ring ... quiescent" (handover.go:105): once
\* PauseReader has returned nothing enters the ring until the resume.
QuiescentWhileHeld == [][ctl = "held" /\ ctl' = "held" => ringEnd' = ringEnd]_vars

\* finish "Runs exactly once, from readPump" (session.go:321): at most one pump
\* is in finish or has been through it, so s.done is closed and the exited
\* event emitted at most once.
FinishOnce ==
    Cardinality({p \in Pumps : pc[p] \in {"wait", "flip", "closePtmx", "emit", "closeDone"}})
        + finished <= 1

\* A child that is dead and hung up is eventually reported: Done closes, unless
\* a handover took the session away or the daemon crashed.
ExitReported ==
    (proc = "dead" /\ tty = "hup") ~> (finished > 0 \/ ctl = "held" \/ panicked)

\* A subscriber never sleeps through what it waits for: output beyond afterSeq
\* or an exit always wakes it.
SubscriberWakes ==
    \A w \in Subs : (wpc[w] = "blocked" /\ Wakeable(w)) ~> (wpc[w] # "blocked" \/ panicked)
=============================================================================
