--------------------------- MODULE RetainedWindow ---------------------------
(***************************************************************************)
(* What a session's scrollback promises its readers, with no buffer in     *)
(* sight: a window holding the newest Cap bytes of the stream and the      *)
(* sequence number after its last byte.  A write slides the window; moving *)
(* the scrollback to another daemon does not show.                         *)
(***************************************************************************)
EXTENDS Naturals, Sequences

CONSTANTS Byte,    \* the byte values
          Cap,     \* how many bytes are retained
          Chunks   \* the byte strings one write may carry

VARIABLES window,  \* the retained bytes, oldest first
          lastSeq  \* the seq after the newest byte

wvars == <<window, lastSeq>>

\* The newest Cap elements of s, all of s when it is shorter.
Newest(s) == IF Len(s) <= Cap THEN s ELSE SubSeq(s, Len(s) - Cap + 1, Len(s))

WInit == window = <<>> /\ lastSeq = 0

\* p joins the stream and pushes out what no longer fits.
Slide(p) ==
    /\ window' = Newest(window \o p)
    /\ lastSeq' = lastSeq + Len(p)

WNext == \E p \in Chunks : Slide(p)

WSpec == WInit /\ [][WNext]_wvars
=============================================================================
