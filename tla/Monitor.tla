------------------------------ MODULE Monitor -------------------------------
(***************************************************************************)
(* The output monitor of a session (pkg/host/monitor.go): silence and      *)
(* activity edges, bells, and the OSC 133 marks a shell writes around the  *)
(* output of each command.  Each method runs under the monitor's mutex and *)
(* is an operator on the monitor m; m.out is what the call emits.          *)
(*                                                                         *)
(* Output is a sequence of symbols: "ESC", "]", "BEL", "ST" (the backslash *)
(* of ESC \), "C" and "D" for the payloads 133;C and 133;D, "x" for any    *)
(* other byte.  finishOSC looks only at how the payload begins, so only    *)
(* its first symbol is kept, and the bound on the capture leaves it alone. *)
(***************************************************************************)
EXTENDS Naturals, Sequences, SequencesExt

CONSTANT SilenceAfter

ASSUME SilenceAssumption == SilenceAfter \in Nat \ {0}

NoPayload == "none"

\* func NewMonitor
NewMonitor == [osc |-> "ground", payload |-> NoPayload, streamPos |-> 0,
               cmdStart |-> 0, lastStart |-> 0, lastEnd |-> 0,
               started |-> FALSE, lastOutput |-> 0, silent |-> FALSE, out |-> <<>>]

\* SetStreamPos on the fresh monitor of an adopted session.
SetStreamPos(pos, now) ==
    [NewMonitor EXCEPT !.streamPos = pos, !.started = TRUE, !.lastOutput = now]

Emitting(m, type, from, to) ==
    [m EXCEPT !.out = Append(@, [type |-> type, start |-> from, end |-> to])]

\* func finishOSC(endSeq)
FinishOSC(m, endSeq) ==
    CASE m.payload = "C" -> Emitting([m EXCEPT !.cmdStart = endSeq], "started", endSeq, 0)
      [] m.payload = "D" -> Emitting([m EXCEPT !.lastStart = m.cmdStart, !.lastEnd = endSeq],
                                     "finished", m.cmdStart, endSeq)
      [] OTHER -> m

\* One byte through the scanner; streamPos has been moved past it.
ScanByte(m, b) ==
    LET n == [m EXCEPT !.streamPos = @ + 1]
    IN  CASE m.osc = "ground" /\ b = "ESC" -> [n EXCEPT !.osc = "esc"]
          [] m.osc = "ground" /\ b = "BEL" -> Emitting(n, "bell", 0, 0)
          [] m.osc = "esc" /\ b = "]" -> [n EXCEPT !.osc = "osc", !.payload = NoPayload]
          [] m.osc = "esc" /\ b # "]" -> [n EXCEPT !.osc = "ground"]
          [] \/ m.osc = "osc" /\ b = "BEL"
             \/ m.osc = "oscEsc" /\ b = "ST" -> FinishOSC([n EXCEPT !.osc = "ground"], n.streamPos)
          [] m.osc = "osc" /\ b = "ESC" -> [n EXCEPT !.osc = "oscEsc"]
          [] m.osc = "osc" /\ b \notin {"BEL", "ESC"} /\ m.payload = NoPayload
               -> [n EXCEPT !.payload = b]
          [] m.osc = "oscEsc" /\ b # "ST" -> [n EXCEPT !.osc = "osc"]
          [] OTHER -> n

\* The monitor at the start of Feed: the activity edge.
Wake(m, now) ==
    [m EXCEPT !.out = IF m.started /\ now - m.lastOutput >= SilenceAfter
                      THEN <<[type |-> "activity", start |-> 0, end |-> 0]>> ELSE <<>>,
              !.started = TRUE, !.lastOutput = now, !.silent = FALSE]

\* Mutant: the scanner begins every chunk in the ground state.
Feed_Resets(m, p, now) == FoldLeft(ScanByte, [Wake(m, now) EXCEPT !.osc = "ground"], p)

\* func Feed(p, now): the activity edge, then the scan.
Feed(m, p, now) == FoldLeft(ScanByte, Wake(m, now), p)

\* func Tick(now): silence, once per quiet period.
Tick(m, now) ==
    IF m.started /\ ~m.silent /\ now - m.lastOutput >= SilenceAfter
    THEN Emitting([m EXCEPT !.silent = TRUE, !.out = <<>>], "silence", m.streamPos, 0)
    ELSE [m EXCEPT !.out = <<>>]

\* func LastCommand()
LastCommand(m) == [start |-> m.lastStart, end |-> m.lastEnd, ok |-> m.lastEnd # 0]
=============================================================================
