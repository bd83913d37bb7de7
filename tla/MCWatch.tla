------------------------------- MODULE MCWatch ------------------------------
(***************************************************************************)
(* A small ring and a watch on it: every write of up to 5 bytes over two   *)
(* values on a ring of 3, so that short, wrapping, exactly filling and     *)
(* oversized writes all happen, at every alignment of the write index, and *)
(* the ring can overtake the watch.                                        *)
(***************************************************************************)
EXTENDS Watch

MaxChunk == 5

\* The empty write is among them: Write must ignore it.
MCChunks == UNION {[1 .. n -> Byte] : n \in 0 .. MaxChunk}

\* A pattern of two bytes that does not overlap itself.
MCPattern == <<1, 0>>
=============================================================================
