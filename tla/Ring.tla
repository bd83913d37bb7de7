-------------------------------- MODULE Ring --------------------------------
(***************************************************************************)
(* The byte ring behind every session (pkg/host/ring.go).  All fields are  *)
(* read and written under one RWMutex, so each method is one step.         *)
(*                                                                         *)
(* The circular buffer, its copies and its index arithmetic are kept as    *)
(* the code has them.  The history variable stream holds every byte ever   *)
(* written and is what the replay is compared with.  The uint64 sequence   *)
(* axis is unbounded here: wrapping it takes 2^64 bytes of output.         *)
(***************************************************************************)
EXTENDS Naturals, Integers, Sequences

CONSTANTS Byte,    \* the byte values
          Zero,    \* the byte a fresh buffer is filled with
          Cap,     \* len(r.buf)
          Chunks,  \* the byte strings one Write may carry
          MaxSeq   \* bound: bytes ever written

ASSUME ByteAssumption   == Zero \in Byte
ASSUME CapAssumption    == Cap \in Nat \ {0}
ASSUME ChunksAssumption == Chunks \subseteq Seq(Byte)
ASSUME MaxSeqAssumption == MaxSeq \in Nat

VARIABLES buf,     \* r.buf
          end,     \* r.end, the seq after the newest byte
          filled,  \* r.filled, how many bytes are valid
          next,    \* r.next, the index the next byte lands at
          stream   \* history: every byte ever written, in order

vars == <<buf, end, filled, next, stream>>

Slots == 0 .. Cap - 1

-----------------------------------------------------------------------------
(* Methods. *)

\* What copy moves when a bytes are there and b fit; also how filled is clamped.
Lesser(a, b) == IF a <= b THEN a ELSE b

\* The buffer after Write(p) on a buffer b whose next index is nx: one copy of
\* the newest Cap bytes when p covers everything, otherwise a copy up to the
\* end of the array and a second one, from its start, of what did not fit.
WriteBuf(b, nx, p) ==
    IF Len(p) >= Cap
    THEN [i \in Slots |-> p[Len(p) - Cap + i + 1]]
    ELSE LET n == Lesser(Cap - nx, Len(p))
         IN  [i \in Slots |-> IF i < Len(p) - n THEN p[n + i + 1]
                              ELSE IF nx <= i /\ i < nx + n THEN p[i - nx + 1]
                              ELSE b[i]]

\* Mutant: an oversized write leaves the index where it was.
WriteNext_KeepsIndex(nx, p) ==
    IF Len(p) >= Cap THEN nx ELSE (nx + Len(p)) % Cap

WriteNext(nx, p) == IF Len(p) >= Cap THEN 0 ELSE (nx + Len(p)) % Cap

\* Mutant: a write replaces the count instead of adding to it.
WriteFilled_Forgets(f, p) == IF Len(p) >= Cap THEN Cap ELSE Lesser(Len(p), Cap)

WriteFilled(f, p) == IF Len(p) >= Cap THEN Cap ELSE Lesser(f + Len(p), Cap)

\* func (r *Ring) Write(p): an empty write returns before the lock.
Write(p) ==
    /\ Len(p) > 0
    /\ end + Len(p) <= MaxSeq
    /\ end' = end + Len(p)
    /\ buf' = WriteBuf(buf, next, p)
    /\ next' = WriteNext(next, p)
    /\ filled' = WriteFilled(filled, p)
    /\ stream' = stream \o p

\* The seq of the oldest retained byte.
Oldest == end - filled

\* replayLocked's copy: count bytes from the slot of the first one, wrapping.
CopyOut(count) ==
    LET start == (next - count + Cap * 2) % Cap
        n     == Lesser(Cap - start, count)
    IN  [k \in 1 .. count |-> IF k <= n THEN buf[start + k - 1]
                                        ELSE buf[k - n - 1]]

\* func (r *Ring) replayLocked(since)
ReplayFrom(since) ==
    IF since >= end
    THEN [data |-> <<>>, fromSeq |-> since, truncated |-> FALSE]
    ELSE LET from == IF since < Oldest THEN Oldest ELSE since
         IN  [data |-> CopyOut(end - from), fromSeq |-> from,
              truncated |-> since < Oldest]

\* func (r *Ring) Snapshot(), the data part (endSeq is end itself).
SnapshotData == ReplayFrom(end - filled).data

\* NewRingFromSnapshot on the other side of a handover: a fresh ring of the
\* same capacity takes the data in one Write and then the absolute end.
Handover ==
    LET data == SnapshotData
    IN  /\ buf' = IF Len(data) = 0 THEN [i \in Slots |-> Zero]
                  ELSE WriteBuf([i \in Slots |-> Zero], 0, data)
        /\ next' = IF Len(data) = 0 THEN 0 ELSE WriteNext(0, data)
        /\ filled' = IF Len(data) = 0 THEN 0 ELSE WriteFilled(0, data)
        /\ end' = end
        /\ UNCHANGED stream

-----------------------------------------------------------------------------
\* func NewRing(capBytes)
Init ==
    /\ buf = [i \in Slots |-> Zero]
    /\ end = 0
    /\ filled = 0
    /\ next = 0
    /\ stream = <<>>

Next == \/ \E p \in Chunks : Write(p)
        \/ Handover

Spec == Init /\ [][Next]_vars

-----------------------------------------------------------------------------
(* Properties. *)

\* Types: indices stay inside the array and the counters natural.
TypeOK ==
    /\ buf \in [Slots -> Byte]
    /\ end \in Nat
    /\ filled \in 0 .. Cap
    /\ next \in Slots
    /\ stream \in Seq(Byte)

\* The slot k places before index nx, circularly.
BackFrom(nx, k) == IF k <= nx THEN nx - k ELSE nx - k + Cap

\* The slot of the k-th newest byte.
Slot(k) == BackFrom(next, k)

\* The invariant behind replay: the ring counts the whole stream, retains as
\* much of it as fits, and the k-th newest slot holds the k-th newest byte,
\* whichever mixture of short, wrapping and oversized writes and of handovers
\* came before (ring.go Write, NewRingFromSnapshot).
RingHoldsNewest ==
    /\ end = Len(stream)
    /\ filled = Lesser(end, Cap)
    /\ \A k \in 1 .. filled : buf[Slot(k)] = stream[end - k + 1]

\* Reply r to a replay from since: the stream from r.fromSeq to its end, no
\* later than since unless the bytes in between are gone.
ReplyExact(since, r) ==
    IF since >= Len(stream)
    THEN r.data = <<>> /\ ~r.truncated /\ r.fromSeq = since
    ELSE /\ r.data = SubSeq(stream, r.fromSeq + 1, Len(stream))
         /\ r.truncated <=> since + Cap < Len(stream)
         /\ ~r.truncated => r.fromSeq = since
         /\ r.truncated => Len(r.data) = Cap

\* "A client that saw up to seq N reattaches with sinceSeq=N and replays
\* exactly the missed suffix" (ring.go:14): whatever since is asked for, the
\* reply is the stream from fromSeq to its end, fromSeq is since unless those
\* bytes are gone, and truncated says exactly whether they are.
ReplayExact == \A since \in 0 .. MaxSeq + 1 : ReplyExact(since, ReplayFrom(since))

\* Every replay is answered after a step as before it.
SameAnswers == \A since \in 0 .. MaxSeq + 1 : ReplayFrom(since)' = ReplayFrom(since)

\* "replay arithmetic stays valid across a daemon handover" (ring.go:92): the
\* adopting daemon answers every replay as the old one would have.
HandoverInvisible == [][Handover => SameAnswers]_vars

\* The ring implements the retained window: its replay from the oldest seq is
\* the window, a Write slides it and a handover changes nothing.
Window == INSTANCE RetainedWindow WITH window <- SnapshotData, lastSeq <- end
RefinesWindow == Window!WSpec
=============================================================================
