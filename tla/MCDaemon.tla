------------------------------ MODULE MCDaemon ------------------------------
(***************************************************************************)
(* Three processes in one home directory.  Once owners, handovers or a     *)
(* shutdown have crossed, what the run still asks is about the lock: it    *)
(* goes on from there without children and signals, which are nothing to   *)
(* the lock (a signalled daemon lets go of it as one that dies does).      *)
(***************************************************************************)
EXTENDS Daemon

LockOnceCrossed == crossed => sig = {} /\ \A k \in Kids : kid[k] = "none"
=============================================================================
