----------------------------- MODULE HostProofs -----------------------------
(***************************************************************************)
(* Theorems about the byte ring, the watches on it, the event bus, and     *)
(* what becomes of a session's output: the monitor, the durable log and    *)
(* the readers of both.  They hold for every capacity, byte set, set of    *)
(* writes, pattern, tail length, set of subscribers, buffer size and       *)
(* scenario.                                                               *)
(***************************************************************************)
EXTENDS Watch, OutputTap, FiniteSetTheorems, SequenceTheorems, WellFoundedInduction, TLAPS

USE DEF Slots

-----------------------------------------------------------------------------
(* Arithmetic and the effect of one write on the three fields. *)

\* The remainder that the code's index arithmetic needs: a value below three
\* capacities is reduced by subtracting at most two of them.
LEMMA ModSmall ==
    ASSUME NEW c \in Nat \ {0}, NEW x \in Nat, x < 3 * c
    PROVE  x % c = IF x < c THEN x ELSE IF x < 2 * c THEN x - c ELSE x - 2 * c
<1>1. CASE x < c
  BY <1>1, SMT
<1>2. CASE c <= x /\ x < 2 * c
  BY <1>2, SMT
<1>3. CASE 2 * c <= x
  BY <1>3, SMT
<1>. QED BY <1>1, <1>2, <1>3

\* Write advances the index by the length of p, wrapping once.
LEMMA WriteNextValue ==
    ASSUME NEW nx \in Slots, NEW p \in Seq(Byte)
    PROVE  /\ WriteNext(nx, p) \in Slots
           /\ Len(p) >= Cap => WriteNext(nx, p) = 0
           /\ Len(p) < Cap =>
                WriteNext(nx, p) = IF nx + Len(p) < Cap THEN nx + Len(p)
                                   ELSE nx + Len(p) - Cap
<1>1. CASE Len(p) >= Cap
  BY <1>1, CapAssumption DEF WriteNext
<1>2. CASE Len(p) < Cap
  <2>. DEFINE x == nx + Len(p)
  <2>1. x \in Nat /\ x < 2 * Cap /\ x < 3 * Cap
    BY <1>2, CapAssumption
  <2>2. WriteNext(nx, p) = x % Cap
    BY <1>2, CapAssumption DEF WriteNext
  <2>. HIDE DEF x
  <2>3. x % Cap = IF x < Cap THEN x ELSE x - Cap
    BY <2>1, ModSmall, CapAssumption
  <2>4. WriteNext(nx, p) \in Slots
    BY <2>1, <2>2, <2>3, CapAssumption
  <2>. QED BY <1>2, <2>2, <2>3, <2>4, CapAssumption DEF x
<1>. QED BY <1>1, <1>2, CapAssumption

\* Write saturates the count of valid bytes at the capacity.
LEMMA WriteFilledValue ==
    ASSUME NEW f \in 0 .. Cap, NEW p \in Seq(Byte)
    PROVE  /\ WriteFilled(f, p) \in 0 .. Cap
           /\ WriteFilled(f, p) = Lesser(f + Len(p), Cap)
BY CapAssumption DEF WriteFilled, Lesser

\* Write changes the buffer only to other buffers of the same size.
LEMMA WriteBufType ==
    ASSUME NEW b \in [Slots -> Byte], NEW nx \in Slots, NEW p \in Seq(Byte)
    PROVE  WriteBuf(b, nx, p) \in [Slots -> Byte]
<1>1. CASE Len(p) >= Cap
  BY <1>1, CapAssumption DEF WriteBuf
<1>2. CASE Len(p) < Cap
  BY <1>2, CapAssumption DEF WriteBuf, Lesser
<1>. QED BY <1>1, <1>2, CapAssumption

\* Counting back from the new index: the newest bytes are p's, the older ones
\* are where they were, as far as the capacity reaches.
LEMMA WriteBufValue ==
    ASSUME NEW b \in [Slots -> Byte], NEW nx \in Slots, NEW p \in Seq(Byte),
           NEW k \in 1 .. Cap
    PROVE  WriteBuf(b, nx, p)[BackFrom(WriteNext(nx, p), k)] =
               IF k <= Len(p) THEN p[Len(p) - k + 1]
               ELSE b[BackFrom(nx, k - Len(p))]
<1>1. CASE Len(p) >= Cap
  BY <1>1, WriteNextValue, CapAssumption DEF WriteBuf, BackFrom
<1>2. CASE Len(p) < Cap
  <2>. DEFINE m   == WriteNext(nx, p)
              n   == Lesser(Cap - nx, Len(p))
              new == BackFrom(m, k)
              W   == WriteBuf(b, nx, p)
  <2>1. m = IF nx + Len(p) < Cap THEN nx + Len(p) ELSE nx + Len(p) - Cap
    BY <1>2, WriteNextValue, CapAssumption
  <2>2. W = [i \in Slots |-> IF i < Len(p) - n THEN p[n + i + 1]
                             ELSE IF nx <= i /\ i < nx + n THEN p[i - nx + 1]
                             ELSE b[i]]
    BY <1>2, CapAssumption DEF WriteBuf
  <2>3. n = IF Cap - nx <= Len(p) THEN Cap - nx ELSE Len(p)
    BY DEF Lesser
  <2>. HIDE DEF m, n, W
  <2>4. new \in Slots
    BY <1>2, <2>1, CapAssumption DEF BackFrom
  <2>5. CASE k <= Len(p)
    <3>1. W[new] = p[Len(p) - k + 1]
      BY <1>2, <2>1, <2>2, <2>3, <2>4, <2>5, CapAssumption DEF BackFrom
    <3>. QED BY <2>5, <3>1 DEF W, m
  <2>6. CASE k > Len(p)
    <3>1. W[new] = b[BackFrom(nx, k - Len(p))]
      BY <1>2, <2>1, <2>2, <2>3, <2>4, <2>6, CapAssumption DEF BackFrom
    <3>. QED BY <2>6, <3>1 DEF W, m
  <2>. QED BY <2>5, <2>6
<1>. QED BY <1>1, <1>2, CapAssumption

\* The copy loop of replay returns the count newest bytes, oldest first.
LEMMA CopyOutValue ==
    ASSUME TypeOK, NEW count \in 0 .. Cap
    PROVE  /\ CopyOut(count) \in Seq(Byte)
           /\ Len(CopyOut(count)) = count
           /\ \A i \in 1 .. count : CopyOut(count)[i] = buf[Slot(count - i + 1)]
<1>. DEFINE x == next - count + Cap * 2
            start == x % Cap
            n == Lesser(Cap - start, count)
<1>1. x \in Nat /\ x < 3 * Cap
  BY CapAssumption DEF TypeOK
<1>2. start = IF x < Cap THEN x ELSE IF x < 2 * Cap THEN x - Cap ELSE x - 2 * Cap
  BY <1>1, ModSmall, CapAssumption
<1>3. start \in Slots /\ n \in 0 .. count
  BY <1>1, <1>2, CapAssumption DEF Lesser, TypeOK
<1>4. CopyOut(count) = [i \in 1 .. count |-> IF i <= n THEN buf[start + i - 1]
                                             ELSE buf[i - n - 1]]
  BY DEF CopyOut
<1>5. ASSUME NEW i \in 1 .. count
      PROVE  CopyOut(count)[i] = buf[Slot(count - i + 1)]
  BY <1>1, <1>2, <1>3, <1>4, CapAssumption DEF TypeOK, Slot, BackFrom, Lesser
<1>6. ASSUME NEW i \in 1 .. count
      PROVE  Slot(count - i + 1) \in Slots
  BY CapAssumption DEF TypeOK, Slot, BackFrom
<1>7. CopyOut(count) \in [1 .. count -> Byte]
  BY <1>4, <1>5, <1>6 DEF TypeOK
<1>. QED BY <1>4, <1>5, <1>7

-----------------------------------------------------------------------------
(* The inductive invariant. *)

RingInv == TypeOK /\ RingHoldsNewest

\* A new ring satisfies it (NewRing).
LEMMA RingInvInit == Init => RingInv
BY ByteAssumption, CapAssumption DEF Init, RingInv, TypeOK, RingHoldsNewest, Lesser

\* Write preserves it: the k newest slots are p's bytes, then the old newest.
LEMMA RingInvWrite ==
    ASSUME RingInv, NEW p \in Chunks, Write(p)
    PROVE  RingInv'
<1>. USE DEF RingInv
<1>1. p \in Seq(Byte)
  BY ChunksAssumption
<1>2. TypeOK'
  <2>1. buf' \in [Slots -> Byte]
    BY <1>1, WriteBufType DEF TypeOK, Write
  <2>2. next' \in Slots
    BY <1>1, WriteNextValue DEF TypeOK, Write
  <2>3. filled' \in 0 .. Cap
    BY <1>1, WriteFilledValue DEF TypeOK, Write
  <2>4. stream' \in Seq(Byte) /\ end' \in Nat
    BY <1>1 DEF TypeOK, Write
  <2>. QED BY <2>1, <2>2, <2>3, <2>4 DEF TypeOK
<1>3. end' = Len(stream') /\ filled' = Lesser(end', Cap)
  <2>1. filled' = Lesser(filled + Len(p), Cap)
    BY <1>1, WriteFilledValue DEF TypeOK, Write
  <2>. QED BY <1>1, <2>1, CapAssumption DEF TypeOK, RingHoldsNewest, Write, Lesser
<1>4. ASSUME NEW k \in 1 .. filled'
      PROVE  buf'[Slot(k)'] = stream'[end' - k + 1]
  <2>1. k \in 1 .. Cap /\ k <= end'
    BY <1>2, <1>3, CapAssumption DEF TypeOK, Lesser
  <2>2. buf'[Slot(k)'] = IF k <= Len(p) THEN p[Len(p) - k + 1]
                         ELSE buf[BackFrom(next, k - Len(p))]
    BY <1>1, <2>1, WriteBufValue DEF Write, TypeOK, Slot
  <2>3. stream' = stream \o p /\ end = Len(stream) /\ end' = end + Len(p)
    BY DEF Write, RingHoldsNewest
  <2>4. CASE k <= Len(p)
    BY <1>1, <2>1, <2>2, <2>3, <2>4 DEF TypeOK
  <2>5. CASE k > Len(p)
    <3>1. k - Len(p) \in 1 .. filled
      BY <1>1, <2>1, <2>3, <2>5, CapAssumption DEF TypeOK, RingHoldsNewest, Lesser
    <3>2. buf[BackFrom(next, k - Len(p))] = stream[end - (k - Len(p)) + 1]
      BY <3>1 DEF RingHoldsNewest, Slot
    <3>. QED BY <1>1, <2>1, <2>2, <2>3, <2>5, <3>1, <3>2 DEF TypeOK
  <2>. QED BY <1>1, <2>1, <2>4, <2>5
<1>. QED BY <1>2, <1>3, <1>4 DEF RingHoldsNewest

\* The snapshot is the retained suffix of the stream, newest bytes last.
EndsWith(s, t) == \A i \in 1 .. Len(t) : t[i] = s[Len(s) - Len(t) + i]

SnapshotIsSuffix ==
    /\ SnapshotData \in Seq(Byte)
    /\ Len(SnapshotData) = filled
    /\ EndsWith(stream, SnapshotData)

\* Snapshot copies out what the invariant says the ring holds.
LEMMA SnapshotValue == RingInv => SnapshotIsSuffix
<1>. SUFFICES ASSUME RingInv PROVE SnapshotIsSuffix
  OBVIOUS
<1>. USE DEF RingInv, SnapshotIsSuffix, EndsWith
<1>1. filled \in 0 .. Cap /\ filled <= end /\ end \in Nat
  BY CapAssumption DEF TypeOK, RingHoldsNewest, Lesser
<1>2. CASE filled = 0
  BY <1>1, <1>2 DEF SnapshotData, ReplayFrom
<1>3. CASE filled > 0
  <2>1. SnapshotData = CopyOut(filled)
    BY <1>1, <1>3 DEF SnapshotData, ReplayFrom, Oldest
  <2>2. ASSUME NEW i \in 1 .. filled
        PROVE  SnapshotData[i] = stream[end - filled + i]
    <3>1. SnapshotData[i] = buf[Slot(filled - i + 1)]
      BY <1>1, <2>1, CopyOutValue
    <3>2. filled - i + 1 \in 1 .. filled
      BY <1>1
    <3>. QED BY <1>1, <3>1, <3>2 DEF RingHoldsNewest
  <2>3. SnapshotData \in Seq(Byte) /\ Len(SnapshotData) = filled
    BY <1>1, <2>1, CopyOutValue
  <2>4. end = Len(stream)
    BY DEF RingHoldsNewest
  <2>. QED BY <2>2, <2>3, <2>4
<1>. QED BY <1>1, <1>2, <1>3

\* Rebuilding from a snapshot preserves it (NewRingFromSnapshot).
LEMMA RingInvHandover ==
    ASSUME RingInv, Handover
    PROVE  RingInv'
<1>. DEFINE data == SnapshotData
            fresh == [i \in Slots |-> Zero]
<1>1. /\ data \in Seq(Byte) /\ Len(data) = filled
      /\ \A i \in 1 .. filled : data[i] = stream[end - filled + i]
  BY SnapshotValue DEF SnapshotIsSuffix, EndsWith, RingInv, RingHoldsNewest
<1>2. filled \in 0 .. Cap /\ filled = Lesser(end, Cap) /\ end \in Nat
      /\ end = Len(stream) /\ stream \in Seq(Byte)
  BY DEF RingInv, TypeOK, RingHoldsNewest
<1>3. fresh \in [Slots -> Byte] /\ 0 \in Slots /\ 0 \in 0 .. Cap
  BY ByteAssumption, CapAssumption
<1>. HIDE DEF data, fresh
<1>4. end' = end /\ stream' = stream
  BY DEF Handover
<1>5. CASE Len(data) = 0
  <2>1. buf' = fresh /\ next' = 0 /\ filled' = 0
    BY <1>5 DEF Handover, data, fresh
  <2>. QED BY <1>1, <1>2, <1>3, <1>4, <1>5, <2>1
           DEF RingInv, TypeOK, RingHoldsNewest
<1>6. CASE Len(data) # 0
  <2>1. /\ buf' = WriteBuf(fresh, 0, data)
        /\ next' = WriteNext(0, data)
        /\ filled' = WriteFilled(0, data)
    BY <1>6 DEF Handover, data, fresh
  <2>2. TypeOK'
    BY <1>1, <1>2, <1>3, <1>4, <2>1, WriteBufType, WriteNextValue, WriteFilledValue
       DEF TypeOK
  <2>3. filled' = filled
    <3>1. filled' = Lesser(0 + Len(data), Cap)
      BY <1>1, <1>3, <2>1, WriteFilledValue
    <3>. QED BY <1>1, <1>2, <3>1, CapAssumption DEF Lesser
  <2>4. ASSUME NEW k \in 1 .. filled'
        PROVE  buf'[Slot(k)'] = stream'[end' - k + 1]
    <3>1. k \in 1 .. Cap /\ k <= Len(data) /\ filled - k + 1 \in 1 .. filled
      BY <1>1, <1>2, <2>3, CapAssumption
    <3>2. buf'[Slot(k)'] = data[Len(data) - k + 1]
      BY <1>1, <1>3, <2>1, <3>1, WriteBufValue DEF Slot
    <3>3. data[filled - k + 1] = stream[end - filled + (filled - k + 1)]
      BY <1>1, <3>1
    <3>. QED BY <1>1, <1>2, <1>4, <3>1, <3>2, <3>3
  <2>. QED BY <1>2, <1>4, <2>2, <2>3, <2>4 DEF RingInv, RingHoldsNewest
<1>. QED BY <1>1, <1>2, <1>5, <1>6

\* In every behaviour the indices stay in range and the ring holds exactly the
\* newest bytes of the stream, in order (ring.go Write, NewRingFromSnapshot).
THEOREM RingInvariance == Spec => []RingInv
<1>1. Init => RingInv
  BY RingInvInit
<1>2. RingInv /\ [Next]_vars => RingInv'
  <2>. SUFFICES ASSUME RingInv, [Next]_vars PROVE RingInv'
    OBVIOUS
  <2>1. ASSUME NEW p \in Chunks, Write(p) PROVE RingInv'
    BY <2>1, RingInvWrite
  <2>2. CASE Handover
    BY <2>2, RingInvHandover
  <2>3. CASE UNCHANGED vars
    BY <2>3 DEF vars, RingInv, TypeOK, RingHoldsNewest, Slot, BackFrom
  <2>. QED BY <2>1, <2>2, <2>3 DEF Next
<1>. QED BY <1>1, <1>2, PTL DEF Spec

\* The write index never leaves the array (ring.go Write).
THEOREM RingTypes == Spec => []TypeOK
<1>1. RingInv => TypeOK
  BY DEF RingInv
<1>. QED BY <1>1, RingInvariance, PTL

\* The k-th newest slot holds the k-th newest byte (ring.go Write).
THEOREM RingKeepsNewest == Spec => []RingHoldsNewest
<1>1. RingInv => RingHoldsNewest
  BY DEF RingInv
<1>. QED BY <1>1, RingInvariance, PTL

-----------------------------------------------------------------------------
(* What readers see. *)

\* The seq a replay from since starts at.
From(asked) == IF asked < end - filled THEN end - filled ELSE asked

\* The reply to a replay from since, read off the stream.
Reply(asked) == [data |-> SubSeq(stream, From(asked) + 1, end),
                 fromSeq |-> From(asked), truncated |-> asked < end - filled]

ReplayReplies == \A asked \in Nat : asked < end => ReplayFrom(asked) = Reply(asked)

\* Replay of a seq that is behind the end returns the rest of the stream, from
\* that seq or from the oldest retained byte, whichever is later.
LEMMA ReplayValue == RingInv => ReplayReplies
<1>. SUFFICES ASSUME RingInv, NEW asked \in Nat, asked < end
              PROVE  ReplayFrom(asked) = Reply(asked)
  BY DEF ReplayReplies
<1>. DEFINE first == From(asked)
            count == end - first
<1>1. /\ filled \in 0 .. Cap /\ filled <= end /\ filled > 0 /\ end \in Nat
      /\ Cap \in Nat /\ end = Len(stream) /\ stream \in Seq(Byte) /\ TypeOK
  BY CapAssumption DEF RingInv, TypeOK, RingHoldsNewest, Lesser
<1>2. first \in Nat /\ count \in 0 .. filled /\ count \in 0 .. Cap /\ first < end
  BY <1>1 DEF From
<1>3. ReplayFrom(asked) = [data |-> CopyOut(count), fromSeq |-> first,
                           truncated |-> asked < end - filled]
  BY <1>1 DEF ReplayFrom, Oldest, From
<1>. HIDE DEF first
<1>4. /\ CopyOut(count) \in Seq(Byte)
      /\ Len(CopyOut(count)) = count
  BY <1>1, <1>2, CopyOutValue
<1>5. ASSUME NEW i \in 1 .. count
      PROVE  CopyOut(count)[i] = stream[first + i]
  <2>1. CopyOut(count)[i] = buf[Slot(count - i + 1)]
    BY <1>1, <1>2, CopyOutValue
  <2>2. count - i + 1 \in 1 .. filled
    BY <1>1, <1>2
  <2>3. buf[Slot(count - i + 1)] = stream[end - (count - i + 1) + 1]
    BY <2>2 DEF RingInv, RingHoldsNewest
  <2>4. end - (count - i + 1) + 1 = first + i
    BY <1>1, <1>2
  <2>. QED BY <2>1, <2>3, <2>4
<1>6. /\ SubSeq(stream, first + 1, end) \in Seq(Byte)
      /\ Len(SubSeq(stream, first + 1, end)) = count
      /\ \A i \in 1 .. count : SubSeq(stream, first + 1, end)[i] = stream[first + i]
  <2>1. \A i \in first + 1 .. end : stream[i] \in Byte
    BY <1>1, <1>2, ElementOfSeq
  <2>2. first + 1 \in Int /\ end \in Int /\ end - (first + 1) + 1 = count
    BY <1>1, <1>2
  <2>3. /\ SubSeq(stream, first + 1, end) \in Seq(Byte)
        /\ Len(SubSeq(stream, first + 1, end)) = count
        /\ \A i \in 1 .. count : SubSeq(stream, first + 1, end)[i] = stream[(first + 1) + i - 1]
    BY <1>2, <2>1, <2>2, SubSeqProperties
  <2>. QED BY <1>2, <2>3
<1>7. CopyOut(count) = SubSeq(stream, first + 1, end)
  BY <1>4, <1>5, <1>6, SeqEqual
<1>. QED BY <1>3, <1>7 DEF first, Reply

\* For every capacity, every history of writes and handovers and every seq a
\* client asks for, replay returns exactly the missed suffix and reports
\* truncation exactly when bytes the client missed are gone (ring.go:14).
THEOREM ReplayIsExact == Spec => []ReplayExact
<1>1. RingInv => ReplayExact
  <2>. SUFFICES ASSUME RingInv, NEW asked \in 0 .. MaxSeq + 1
                PROVE  ReplyExact(asked, ReplayFrom(asked))
    BY DEF ReplayExact
  <2>1. /\ asked \in Nat /\ end \in Nat /\ end = Len(stream) /\ stream \in Seq(Byte)
        /\ filled = Lesser(end, Cap) /\ Cap \in Nat \ {0}
    BY MaxSeqAssumption, CapAssumption DEF RingInv, TypeOK, RingHoldsNewest
  <2>2. CASE asked >= Len(stream)
    BY <2>1, <2>2 DEF ReplayFrom, ReplyExact
  <2>3. CASE asked < Len(stream)
    <3>1. ReplayFrom(asked) = Reply(asked)
      BY <2>1, <2>3, ReplayValue DEF ReplayReplies
    <3>2. (asked < end - filled) = (asked + Cap < Len(stream))
      BY <2>1, <2>3 DEF Lesser
    <3>3. asked < end - filled =>
              Len(SubSeq(stream, From(asked) + 1, end)) = Cap
      BY <2>1, <2>3 DEF Lesser, From
    <3>4. ~(asked < end - filled) => From(asked) = asked
      BY DEF From
    <3>. DEFINE r == ReplayFrom(asked)
    <3>5. /\ r.data = SubSeq(stream, From(asked) + 1, end)
          /\ r.fromSeq = From(asked)
      <4>1. /\ Reply(asked).data = SubSeq(stream, From(asked) + 1, end)
            /\ Reply(asked).fromSeq = From(asked)
        BY DEF Reply
      <4>. QED BY <3>1, <4>1
    <3>6. r.truncated <=> asked < end - filled
      <4>1. Reply(asked).truncated <=> asked < end - filled
        BY DEF Reply
      <4>. QED BY <3>1, <4>1
    <3>. HIDE DEF r
    <3>7. r.data = SubSeq(stream, r.fromSeq + 1, Len(stream))
      BY <2>1, <3>5
    <3>8. r.truncated <=> asked + Cap < Len(stream)
      BY <3>2, <3>6
    <3>9. /\ ~r.truncated => r.fromSeq = asked
          /\ r.truncated => Len(r.data) = Cap
      BY <3>3, <3>4, <3>5, <3>6
    <3>10. ~(asked >= Len(stream))
      BY <2>1, <2>3
    <3>11. ReplyExact(asked, r)
      BY <3>7, <3>8, <3>9, <3>10, Zenon DEF ReplyExact
    <3>. QED BY <3>11 DEF r
  <2>. QED BY <2>1, <2>2, <2>3
<1>. QED BY <1>1, RingInvariance, PTL

\* A handover leaves the counters and the history alone.
LEMMA HandoverKeeps ==
    ASSUME RingInv, RingInv', Handover
    PROVE  end' = end /\ stream' = stream /\ filled' = filled
<1>1. end' = end /\ stream' = stream
  BY DEF Handover
<1>. QED BY <1>1 DEF RingInv, RingHoldsNewest

\* A handover changes no reply to any replay (ring.go:92).
THEOREM HandoverIsInvisible == Spec => HandoverInvisible
<1>0. RingInv' => ReplayReplies'
  BY ReplayValue, PTL
<1>1. ASSUME RingInv, RingInv', Handover, NEW asked \in 0 .. MaxSeq + 1
      PROVE  ReplayFrom(asked)' = ReplayFrom(asked)
  <2>1. end' = end /\ stream' = stream /\ filled' = filled
    BY <1>1, HandoverKeeps
  <2>2. asked \in Nat /\ end \in Nat
    BY <1>1, MaxSeqAssumption DEF RingInv, TypeOK
  <2>3. CASE asked >= end
    BY <2>1, <2>2, <2>3 DEF ReplayFrom
  <2>4. CASE asked < end
    <3>1. ReplayFrom(asked) = Reply(asked)
      BY <1>1, <2>2, <2>4, ReplayValue DEF ReplayReplies
    <3>2. ReplayFrom(asked)' = Reply(asked)'
      BY <1>0, <1>1, <2>1, <2>2, <2>4 DEF ReplayReplies
    <3>3. Reply(asked)' = Reply(asked)
      BY <2>1 DEF Reply, From
    <3>. QED BY <3>1, <3>2, <3>3
  <2>. QED BY <2>2, <2>3, <2>4
<1>2. RingInv /\ RingInv' /\ [Next]_vars
      => [Handover => SameAnswers]_vars
  BY <1>1 DEF SameAnswers
<1>. QED BY <1>2, RingInvariance, PTL DEF Spec, HandoverInvisible

-----------------------------------------------------------------------------
(* The ring implements the retained window. *)

\* The lengths of a window before and after l more bytes.
LEMMA NewestLength ==
    ASSUME NEW a \in Nat, NEW l \in Nat, NEW c \in Nat, NEW o, NEW n,
           o = Lesser(a, c), n = Lesser(a + l, c)
    PROVE  /\ o <= a
           /\ o + l <= c => n = o + l
           /\ o + l > c => n = c
BY DEF Lesser

\* The newest Cap elements of a suffix of at most Cap elements extended by p
\* are the newest elements of the whole sequence extended by p.
LEMMA NewestOfSuffix ==
    ASSUME NEW st \in Seq(Byte), NEW p \in Seq(Byte),
           NEW old \in Seq(Byte), NEW new \in Seq(Byte),
           Len(old) = Lesser(Len(st), Cap), EndsWith(st, old),
           Len(new) = Lesser(Len(st) + Len(p), Cap), EndsWith(st \o p, new)
    PROVE  new = Window!Newest(old \o p)
<1>. DEFINE w == Window!Newest(old \o p)
<1>1. /\ Cap \in Nat /\ Len(st) \in Nat /\ Len(p) \in Nat
      /\ Len(old) \in Nat /\ Len(new) \in Nat
  BY CapAssumption, LenProperties
<1>2. /\ Len(old) <= Len(st)
      /\ Len(old) + Len(p) <= Cap =>
             Len(new) = Len(old) + Len(p)
      /\ Len(old) + Len(p) > Cap => Len(new) = Cap
  BY <1>1, NewestLength
<1>3. PICK s \in Seq(Byte) : s = old \o p
  BY ConcatProperties
<1>4. PICK t \in Seq(Byte) : t = st \o p
  BY ConcatProperties
<1>5. Len(s) = Len(old) + Len(p) /\ Len(t) = Len(st) + Len(p)
  BY <1>3, <1>4, ConcatProperties
<1>6. ASSUME NEW i \in 1 .. Len(s)
      PROVE  s[i] = t[Len(st) - Len(old) + i]
  <2>1. CASE i <= Len(old)
    <3>1. s[i] = old[i]
      BY <1>1, <1>3, <1>5, <2>1, ConcatProperties
    <3>2. old[i] = st[Len(st) - Len(old) + i]
      BY <1>1, <2>1 DEF EndsWith
    <3>3. t[Len(st) - Len(old) + i] = st[Len(st) - Len(old) + i]
      BY <1>1, <1>2, <1>4, <1>5, <2>1, ConcatProperties
    <3>. QED BY <3>1, <3>2, <3>3
  <2>2. CASE i > Len(old)
    <3>1. s[i] = p[i - Len(old)]
      BY <1>1, <1>3, <1>5, <2>2, ConcatProperties
    <3>. DEFINE j == Len(st) - Len(old) + i
    <3>2. j \in 1 .. Len(st) + Len(p) /\ ~(j <= Len(st)) /\ j - Len(st) = i - Len(old)
      BY <1>1, <1>2, <1>5, <2>2
    <3>. HIDE DEF j
    <3>3. t[j] = p[j - Len(st)]
      BY <1>4, <3>2, ConcatProperties
    <3>. QED BY <3>1, <3>2, <3>3 DEF j
  <2>. QED BY <1>1, <1>5, <2>1, <2>2
<1>7. ASSUME NEW i \in 1 .. Len(new) PROVE new[i] = t[Len(t) - Len(new) + i]
  BY <1>4 DEF EndsWith
<1>8. CASE Len(s) <= Cap
  <2>1. Len(new) = Len(s) /\ Len(st) - Len(old) = Len(t) - Len(new)
    BY <1>1, <1>2, <1>5, <1>8
  <2>2. ASSUME NEW i \in 1 .. Len(s) PROVE new[i] = s[i]
    BY <1>6, <1>7, <2>1
  <2>3. new = s
    BY <2>1, <2>2, SeqEqual
  <2>. QED BY <1>3, <1>8, <2>3 DEF Window!Newest
<1>9. CASE Len(s) > Cap
  <2>. DEFINE k == Len(s) - Cap
  <2>1. w = SubSeq(s, k + 1, Len(s))
    <3>1. ~(Len(s) <= Cap)
      BY <1>1, <1>5, <1>9
    <3>2. w = Window!Newest(s)
      BY <1>3
    <3>. QED BY <3>1, <3>2 DEF Window!Newest
  <2>2. /\ Len(new) = Cap /\ k \in Nat /\ Len(s) = k + Cap
        /\ Len(t) - Len(new) = Len(st) - Len(old) + k
    BY <1>1, <1>2, <1>5, <1>9
  <2>. HIDE DEF k, w
  <2>3. \A i \in k + 1 .. Len(s) : s[i] \in Byte
    BY <1>1, <2>2, ElementOfSeq
  <2>4. k + 1 \in Int /\ Len(s) \in Int /\ k + 1 <= Len(s) /\ Len(s) - (k + 1) + 1 = Cap
    BY <2>2, CapAssumption
  <2>5. /\ w \in Seq(Byte) /\ Len(w) = Cap
        /\ \A i \in 1 .. Cap : w[i] = s[(k + 1) + i - 1]
    BY <2>1, <2>3, <2>4, SubSeqProperties
  <2>6. ASSUME NEW i \in 1 .. Cap PROVE new[i] = w[i]
    <3>1. /\ k + i \in 1 .. Len(s) /\ (k + 1) + i - 1 = k + i
          /\ Len(st) - Len(old) + (k + i) = Len(t) - Len(new) + i
      BY <1>1, <1>5, <2>2
    <3>. QED BY <1>6, <1>7, <2>2, <2>5, <3>1
  <2>7. new = w
    BY <2>2, <2>5, <2>6, SeqEqual
  <2>. QED BY <2>7 DEF w
<1>. QED BY <1>1, <1>5, <1>8, <1>9

\* One Write slides the window by p.
LEMMA WriteSlides ==
    ASSUME RingInv, RingInv', NEW p \in Chunks, Write(p)
    PROVE  Window!Slide(p)
<1>0. RingInv' => SnapshotIsSuffix'
  BY SnapshotValue, PTL
<1>1. SnapshotIsSuffix /\ SnapshotIsSuffix'
  BY <1>0, SnapshotValue
<1>2. /\ end' = end + Len(p) /\ stream' = stream \o p /\ p \in Seq(Byte)
      /\ end = Len(stream) /\ stream \in Seq(Byte)
      /\ filled = Lesser(end, Cap) /\ filled' = Lesser(end', Cap)
  BY ChunksAssumption DEF Write, RingInv, TypeOK, RingHoldsNewest
<1>3. SnapshotData' = Window!Newest(SnapshotData \o p)
  <2>. DEFINE st == stream
              old == SnapshotData
              new == SnapshotData'
  <2>1. /\ old \in Seq(Byte) /\ Len(old) = Lesser(Len(st), Cap)
        /\ EndsWith(st, old)
    BY <1>1, <1>2 DEF SnapshotIsSuffix
  <2>2. /\ new \in Seq(Byte) /\ Len(new) = Lesser(Len(st) + Len(p), Cap)
        /\ EndsWith(st \o p, new)
    BY <1>1, <1>2 DEF SnapshotIsSuffix, EndsWith
  <2>. QED BY <1>2, <2>1, <2>2, NewestOfSuffix
<1>. QED BY <1>2, <1>3 DEF Window!Slide

\* Every behaviour of the ring is, seen through its snapshot, a behaviour of
\* the window: writes slide it, handovers stutter (ring.go:18).
THEOREM RingRefinesWindow == Spec => RefinesWindow
<1>0. RingInv' => SnapshotIsSuffix'
  BY SnapshotValue, PTL
<1>1. Init => Window!WInit
  BY DEF Init, Window!WInit, SnapshotData, ReplayFrom
<1>2. RingInv /\ RingInv' /\ [Next]_vars => [Window!WNext]_(Window!wvars)
  <2>. SUFFICES ASSUME RingInv, RingInv', [Next]_vars
                PROVE  [Window!WNext]_(Window!wvars)
    OBVIOUS
  <2>1. ASSUME NEW p \in Chunks, Write(p) PROVE Window!WNext
    BY <2>1, WriteSlides DEF Window!WNext
  <2>2. CASE Handover
    <3>1. end' = end /\ stream' = stream /\ filled' = filled
      BY <2>2, HandoverKeeps
    <3>2. SnapshotData' = SnapshotData
      <4>1. SnapshotIsSuffix /\ SnapshotIsSuffix'
        BY <1>0, SnapshotValue
      <4>. QED BY <3>1, <4>1, SeqEqual DEF SnapshotIsSuffix, EndsWith
    <3>. QED BY <3>1, <3>2 DEF Window!wvars
  <2>3. CASE UNCHANGED vars
    BY <2>3 DEF vars, Window!wvars, SnapshotData, ReplayFrom, Oldest, CopyOut
  <2>. QED BY <2>1, <2>2, <2>3 DEF Next
<1>. QED BY <1>1, <1>2, RingInvariance, PTL DEF Spec, RefinesWindow, Window!WSpec

-----------------------------------------------------------------------------
(* Induction over positions, and the scan for matches. *)

\* A set of natural numbers with an element has a least one.
LEMMA Least ==
    ASSUME NEW T, T \subseteq Nat, T # {}
    PROVE  \E x \in T : \A y \in T : x <= y
<1>. DEFINE R == OpToRel(<, Nat)
<1>1. IsWellFoundedOn(R, Nat)
  BY NatLessThanWellFounded
<1>2. \A x, y \in Nat : x < y => <<x, y>> \in R
  BY DEF OpToRel
<1>. HIDE DEF R
<1>3. PICK x \in T : \A y \in T : ~ (<<y, x>> \in R)
  BY <1>1, WFMin
<1>4. \A y \in T : ~ (y < x)
  BY <1>2, <1>3
<1>5. \A y \in T : x <= y
  BY <1>4
<1>. QED BY <1>5

\* A set of numbers up to N with an element has a greatest one: what makes a
\* scan's result provable, from the end of the buffer backwards.
LEMMA Greatest ==
    ASSUME NEW N \in Nat, NEW T, T \subseteq 1 .. N, T # {}
    PROVE  \E x \in T : \A y \in T : y <= x
<1>. DEFINE D == {n \in Nat : \E t \in T : n = N - t}
<1>1. D \subseteq Nat /\ D # {}
  <2>1. PICK t \in T : TRUE
    OBVIOUS
  <2>2. N - t \in D
    BY <2>1
  <2>. QED BY <2>2
<1>2. PICK d \in D : \A e \in D : d <= e
  <2>. HIDE DEF D
  <2>. QED BY <1>1, Least
<1>3. PICK x \in T : d = N - x
  OBVIOUS
<1>4. \A y \in T : N - x <= N - y
  BY <1>2, <1>3
<1>. QED BY <1>4

\* An occurrence inside b, byte by byte.
LEMMA OccursBytes ==
    ASSUME NEW b \in Seq(Byte), NEW i \in Nat, 1 <= i, i + Len(Pattern) - 1 <= Len(b)
    PROVE  OccursAt(b, i) <=> \A k \in 1 .. Len(Pattern) : b[i + k - 1] = Pattern[k]
<1>1. Pattern \in Seq(Byte) /\ Len(Pattern) \in Nat /\ Len(b) \in Nat
  BY PatternAssumption
<1>. DEFINE s == SubSeq(b, i, i + Len(Pattern) - 1)
<1>2. s \in Seq(Byte) /\ Len(s) = Len(Pattern) /\ \A k \in 1 .. Len(Pattern) : s[k] = b[i + k - 1]
  BY <1>1, SubSeqProperties
<1>3. OccursAt(b, i) <=> s = Pattern
  BY DEF OccursAt
<1>. HIDE DEF s
<1>4. s = Pattern <=> \A k \in 1 .. Len(Pattern) : s[k] = Pattern[k]
  BY <1>1, <1>2, SeqEqual
<1>. QED BY <1>2, <1>3, <1>4

\* One step of the scan, f being the rest of it.
FindBody(f, b, start, seen, i) ==
    IF i > Len(b) - Len(Pattern) + 1 THEN <<>>
    ELSE IF OccursAt(b, i)
         THEN (IF i - 1 + Len(Pattern) + start > seen THEN <<i>> ELSE <<>>)
              \o f[i + Len(Pattern)]
         ELSE f[i + 1]

\* A step of the scan depends on later ones only.
LEMMA FindBodyLater ==
    ASSUME NEW b \in Seq(Byte), NEW start, NEW seen, NEW f, NEW g,
           NEW i \in 1 .. Len(b) + Len(Pattern),
           \A j \in i + 1 .. Len(b) + Len(Pattern) : f[j] = g[j]
    PROVE  FindBody(f, b, start, seen, i) = FindBody(g, b, start, seen, i)
<1>1. Len(Pattern) \in Nat /\ Len(Pattern) >= 1 /\ Len(b) \in Nat
  BY PatternAssumption
<1>2. CASE i > Len(b) - Len(Pattern) + 1
  BY <1>2 DEF FindBody
<1>3. CASE ~ (i > Len(b) - Len(Pattern) + 1)
  <2>1. i + Len(Pattern) \in i + 1 .. Len(b) + Len(Pattern) /\ i + 1 \in i + 1 .. Len(b) + Len(Pattern)
    BY <1>1, <1>3
  <2>2. f[i + Len(Pattern)] = g[i + Len(Pattern)] /\ f[i + 1] = g[i + 1]
    BY <2>1
  <2>. QED BY <1>3, <2>2, Zenon DEF FindBody
<1>. QED BY <1>2, <1>3

\* f is the whole scan.
FindSolution(f, b, start, seen) ==
    f = [i \in 1 .. Len(b) + Len(Pattern) |-> FindBody(f, b, start, seen, i)]

\* The scan's recursion has a solution: it goes from a position to later ones, so
\* it can be built from the end of the buffer backwards.
LEMMA FindHasSolution ==
    ASSUME NEW b \in Seq(Byte), NEW start, NEW seen
    PROVE  \E f : FindSolution(f, b, start, seen)
<1>1. PICK N \in Nat : N = Len(b) + Len(Pattern) /\ N >= 1
  BY PatternAssumption
<1>. DEFINE Solves(f, m) == f = [i \in m .. N |-> FindBody(f, b, start, seen, i)]
            Bad == {m \in 1 .. N + 1 : ~ \E f : Solves(f, m)}
<1>2. SUFFICES ASSUME 1 \in Bad PROVE FALSE
  BY <1>1 DEF FindSolution
<1>3. PICK m \in Bad : \A y \in Bad : y <= m
  <2>1. Bad \subseteq 1 .. N + 1 /\ Bad # {} /\ N + 1 \in Nat
    BY <1>2
  <2>. HIDE DEF Bad
  <2>. QED BY <2>1, Greatest
<1>4. m \in 1 .. N + 1 /\ ~ \E f : Solves(f, m)
  OBVIOUS
<1>5. CASE m = N + 1
  <2>. DEFINE e == [i \in m .. N |-> <<>>]
  <2>1. Solves(e, m)
    BY <1>5
  <2>. QED BY <2>1, <1>4
<1>6. CASE m <= N
  <2>1. m + 1 \in 1 .. N + 1 /\ m + 1 \notin Bad
    BY <1>6, <1>3, <1>4
  <2>2. PICK f : Solves(f, m + 1)
    BY <2>1
  <2>. DEFINE g == [i \in m .. N |-> IF i = m THEN FindBody(f, b, start, seen, m) ELSE f[i]]
  <2>3. ASSUME NEW i \in m .. N
        PROVE  g[i] = FindBody(g, b, start, seen, i)
    <3>1. i \in 1 .. Len(b) + Len(Pattern)
      BY <1>1, <1>4
    <3>2. \A j \in i + 1 .. N : j \in m .. N /\ j # m /\ i \in Nat
      BY <1>4
    <3>3. \A j \in i + 1 .. N : g[j] = f[j]
      BY <3>2
    <3>4. FindBody(g, b, start, seen, i) = FindBody(f, b, start, seen, i)
      <4>. HIDE DEF g
      <4>. QED BY <3>1, <3>3, <1>1, FindBodyLater
    <3>5. CASE i = m
      BY <3>4, <3>5
    <3>6. CASE i # m
      <4>1. i \in m + 1 .. N
        BY <3>6, <1>4
      <4>2. f[i] = FindBody(f, b, start, seen, i)
        BY <4>1, <2>2
      <4>. QED BY <4>2, <3>4, <3>6
    <3>. QED BY <3>5, <3>6
  <2>4. Solves(g, m)
    <3>1. [i \in m .. N |-> g[i]] = [i \in m .. N |-> FindBody(g, b, start, seen, i)]
      BY <2>3
    <3>2. g = [i \in m .. N |-> g[i]]
      OBVIOUS
    <3>. HIDE DEF g
    <3>. QED BY <3>1, <3>2
  <2>. QED BY <2>4, <1>4
<1>. QED BY <1>4, <1>5, <1>6

\* What FindNew returns satisfies the recursion it is defined by.
LEMMA FindSteps ==
    ASSUME NEW b \in Seq(Byte), NEW start, NEW seen
    PROVE  \E f : /\ FindNew(b, start, seen) = f[1]
                  /\ \A i \in 1 .. Len(b) + Len(Pattern) : f[i] = FindBody(f, b, start, seen, i)
<1>1. \E f : FindSolution(f, b, start, seen)
  BY FindHasSolution, Zenon
<1>. DEFINE find[i \in 1 .. Len(b) + Len(Pattern)] ==
              IF i > Len(b) - Len(Pattern) + 1 THEN <<>>
              ELSE IF OccursAt(b, i)
                   THEN (IF i - 1 + Len(Pattern) + start > seen THEN <<i>> ELSE <<>>)
                        \o find[i + Len(Pattern)]
                   ELSE find[i + 1]
<1>2. FindNew(b, start, seen) = find[1]
  BY DEF FindNew
<1>3. find = [i \in 1 .. Len(b) + Len(Pattern) |-> FindBody(find, b, start, seen, i)]
  BY <1>1, Zenon DEF FindBody, FindSolution
<1>. HIDE DEF find
<1>4. \A i \in 1 .. Len(b) + Len(Pattern) : find[i] = FindBody(find, b, start, seen, i)
  BY <1>3
<1>. QED BY <1>2, <1>4

\* What a scan is to find in b: the occurrences that end after seq seen.
Wanted(b, start, seen) ==
    {p \in 1 .. Len(b) - Len(Pattern) + 1 : OccursAt(b, p) /\ p - 1 + Len(Pattern) + start > seen}

\* s lists elements of W from i on, each once and in order.
Lists(s, i, W) ==
    /\ s \in Seq(Nat)
    /\ \A k \in 1 .. Len(s) : s[k] \in W /\ i <= s[k]
    /\ \A j, k \in 1 .. Len(s) : j < k => s[j] < s[k]

\* s lists every element of W from i on.
ListsAll(s, i, W) == \A p \in W : i <= p => \E k \in 1 .. Len(s) : s[k] = p

\* t has what s has, and i.
HasAll(t, s, i) ==
    /\ \A p : (\E k \in 1 .. Len(s) : s[k] = p) => \E k \in 1 .. Len(t) : t[k] = p
    /\ \E k \in 1 .. Len(t) : t[k] = i

\* A list from a later position is one from an earlier position.
LEMMA ListsFromEarlier ==
    ASSUME NEW W, W \subseteq Nat, NEW i \in Nat, NEW j \in Nat, i <= j, NEW s, Lists(s, j, W)
    PROVE  Lists(s, i, W)
BY DEF Lists

\* An element goes in front of a list of later ones.
LEMMA ListsCons ==
    ASSUME NEW W, W \subseteq Nat, NEW i \in W, NEW m \in Nat, i < m, NEW s, Lists(s, m, W)
    PROVE  Lists(<<i>> \o s, i, W) /\ HasAll(<<i>> \o s, s, i)
<1>. DEFINE t == <<i>> \o s
<1>0. i \in Nat /\ s \in Seq(Nat)
  BY DEF Lists
<1>1. PICK n \in Nat : n = Len(s)
  BY <1>0
<1>2. t \in Seq(Nat) /\ Len(t) = n + 1 /\ t[1] = i
  BY <1>0, <1>1
<1>3. \A k \in 2 .. n + 1 : t[k] = s[k - 1]
  BY <1>0, <1>1
<1>3a. \A k \in 1 .. n : t[k + 1] = s[k]
  BY <1>0, <1>1
<1>. HIDE DEF t
<1>4. /\ \A k \in 1 .. n : s[k] \in W /\ m <= s[k] /\ s[k] \in Nat
      /\ \A j, k \in 1 .. n : j < k => s[j] < s[k]
  BY <1>0, <1>1 DEF Lists
<1>5. \A k \in 1 .. n + 1 : k = 1 \/ (k \in 2 .. n + 1 /\ k - 1 \in 1 .. n)
  OBVIOUS
<1>6. \A k \in 2 .. n + 1 : t[k] \in W /\ m <= t[k] /\ t[k] \in Nat
  BY <1>3, <1>4, <1>5
<1>7. \A k \in 1 .. n + 1 : t[k] \in W /\ i <= t[k]
  BY <1>0, <1>2, <1>5, <1>6
<1>8. ASSUME NEW j \in 1 .. n + 1, NEW k \in 1 .. n + 1, j < k
      PROVE  t[j] < t[k]
  <2>1. k \in 2 .. n + 1
    BY <1>8
  <2>2. CASE j = 1
    BY <2>1, <2>2, <1>0, <1>2, <1>6
  <2>3. CASE j # 1
    <3>1. j \in 2 .. n + 1 /\ j - 1 \in 1 .. n /\ k - 1 \in 1 .. n /\ j - 1 < k - 1
      BY <2>3, <2>1, <1>8
    <3>. QED BY <3>1, <2>1, <1>3, <1>4
  <2>. QED BY <2>2, <2>3
<1>9. Lists(t, i, W)
  BY <1>2, <1>7, <1>8 DEF Lists
<1>10. \A k \in 1 .. n : k + 1 \in 1 .. n + 1
  OBVIOUS
<1>11. \A p : (\E k \in 1 .. n : s[k] = p) => \E k \in 1 .. n + 1 : t[k] = p
  BY <1>3a, <1>10
<1>12. 1 \in 1 .. n + 1
  OBVIOUS
<1>13. HasAll(t, s, i)
  BY <1>1, <1>2, <1>11, <1>12 DEF HasAll
<1>. QED BY <1>9, <1>13 DEF t

\* A step of the scan lists the wanted positions from i on when the scan from every
\* later position does, and lists them all when no two occurrences overlap.
LEMMA FindBodyLists ==
    ASSUME NEW b \in Seq(Byte), NEW start \in Nat, NEW seen \in Nat, NEW f,
           NEW i \in 1 .. Len(b) + Len(Pattern),
           \A j \in i + 1 .. Len(b) + Len(Pattern) : Lists(f[j], j, Wanted(b, start, seen))
    PROVE  /\ Lists(FindBody(f, b, start, seen, i), i, Wanted(b, start, seen))
           /\ (/\ \A j \in i + 1 .. Len(b) + Len(Pattern) : ListsAll(f[j], j, Wanted(b, start, seen))
               /\ \A p, q \in 1 .. Len(b) - Len(Pattern) + 1 :
                     p < q /\ OccursAt(b, p) /\ OccursAt(b, q) => p + Len(Pattern) <= q)
              => ListsAll(FindBody(f, b, start, seen, i), i, Wanted(b, start, seen))
<1>1. Len(Pattern) \in Nat /\ Len(Pattern) >= 1 /\ Len(b) \in Nat
  BY PatternAssumption
<1>. DEFINE W == Wanted(b, start, seen)
            r == FindBody(f, b, start, seen, i)
            Apart == \A p, q \in 1 .. Len(b) - Len(Pattern) + 1 :
                        p < q /\ OccursAt(b, p) /\ OccursAt(b, q) => p + Len(Pattern) <= q
            LaterAll == \A j \in i + 1 .. Len(b) + Len(Pattern) : ListsAll(f[j], j, W)
<1>2. W \subseteq Nat /\ \A p \in W : /\ p \in 1 .. Len(b) - Len(Pattern) + 1
                                      /\ OccursAt(b, p)
                                      /\ p - 1 + Len(Pattern) + start > seen
  BY <1>1 DEF Wanted
<1>3. \A p \in 1 .. Len(b) - Len(Pattern) + 1 :
         OccursAt(b, p) /\ p - 1 + Len(Pattern) + start > seen => p \in W
  BY DEF Wanted
<1>4. \A j \in i + 1 .. Len(b) + Len(Pattern) : Lists(f[j], j, W)
  OBVIOUS
<1>. HIDE DEF W
<1>5. CASE i > Len(b) - Len(Pattern) + 1
  <2>1. r = <<>>
    BY <1>5 DEF FindBody
  <2>2. Lists(<<>>, i, W)
    BY DEF Lists
  <2>3. \A p \in W : ~ (i <= p)
    BY <1>1, <1>2, <1>5
  <2>4. ListsAll(r, i, W)
    BY <2>3 DEF ListsAll
  <2>. QED BY <2>1, <2>2, <2>4 DEF W
<1>6. CASE ~ (i > Len(b) - Len(Pattern) + 1) /\ OccursAt(b, i)
  <2>1. /\ i + Len(Pattern) \in i + 1 .. Len(b) + Len(Pattern) /\ i + Len(Pattern) \in Nat
        /\ i \in 1 .. Len(b) - Len(Pattern) + 1 /\ i \in Nat
    BY <1>1, <1>6
  <2>2. PICK s : s = f[i + Len(Pattern)]
    OBVIOUS
  <2>3. Lists(s, i + Len(Pattern), W) /\ s \in Seq(Nat)
    BY <2>1, <2>2, <1>4 DEF Lists
  <2>4. ASSUME Apart
        PROVE  \A p \in W : i <= p => p = i \/ i + Len(Pattern) <= p
    BY <2>4, <1>2, <1>6, <2>1
  <2>5. LaterAll => ListsAll(s, i + Len(Pattern), W)
    BY <2>1, <2>2
  <2>6. CASE i - 1 + Len(Pattern) + start > seen
    <3>1. i \in W /\ i < i + Len(Pattern)
      BY <2>6, <1>1, <1>3, <1>6, <2>1
    <3>2. r = <<i>> \o s
      BY <2>2, <2>6, <1>6 DEF FindBody
    <3>. HIDE DEF r
    <3>3. /\ Lists(r, i, W)
          /\ \A p : (\E k \in 1 .. Len(s) : s[k] = p) => \E k \in 1 .. Len(r) : r[k] = p
          /\ \E k \in 1 .. Len(r) : r[k] = i
      <4>1. PICK m \in Nat : m = i + Len(Pattern)
        BY <2>1
      <4>2. Lists(s, m, W) /\ i < m
        BY <4>1, <2>3, <3>1
      <4>3. Lists(<<i>> \o s, i, W) /\ HasAll(<<i>> \o s, s, i)
        BY <4>2, <3>1, <1>2, ListsCons
      <4>. QED BY <4>3, <3>2, Zenon DEF HasAll
    <3>4. ASSUME LaterAll, Apart
          PROVE  ListsAll(r, i, W)
      BY <3>4, <3>3, <2>4, <2>5, Zenon DEF ListsAll
    <3>. QED BY <3>3, <3>4, Zenon DEF W, r
  <2>7. CASE ~ (i - 1 + Len(Pattern) + start > seen)
    <3>1. r = <<>> \o s
      BY <2>2, <2>7, <1>6 DEF FindBody
    <3>2. r = s
      BY <3>1, <2>3
    <3>. HIDE DEF r
    <3>3. i <= i + Len(Pattern)
      BY <1>1, <2>1
    <3>4. Lists(r, i, W)
      BY <3>2, <3>3, <2>1, <2>3, <1>2, ListsFromEarlier
    <3>5. i \notin W
      BY <2>7, <1>2
    <3>6. ASSUME LaterAll, Apart
          PROVE  ListsAll(r, i, W)
      BY <3>2, <3>5, <3>6, <2>4, <2>5, Zenon DEF ListsAll
    <3>. QED BY <3>4, <3>6, Zenon DEF W, r
  <2>. QED BY <2>6, <2>7
<1>7. CASE ~ (i > Len(b) - Len(Pattern) + 1) /\ ~ OccursAt(b, i)
  <2>1. i + 1 \in i + 1 .. Len(b) + Len(Pattern) /\ i + 1 \in Nat /\ i \in Nat /\ i <= i + 1
    BY <1>1, <1>7
  <2>2. r = f[i + 1]
    BY <1>7 DEF FindBody
  <2>. HIDE DEF r
  <2>3. Lists(r, i, W)
    BY <2>1, <2>2, <1>2, <1>4, ListsFromEarlier
  <2>4. LaterAll => ListsAll(r, i + 1, W)
    BY <2>1, <2>2
  <2>5. \A p \in W : i <= p => i + 1 <= p
    BY <1>2, <1>7, <2>1
  <2>6. LaterAll => ListsAll(r, i, W)
    BY <2>4, <2>5, Zenon DEF ListsAll
  <2>. QED BY <2>3, <2>6, Zenon DEF W, r
<1>. QED BY <1>5, <1>6, <1>7

\* The scan finds wanted positions only, each once and in order, and all of them
\* when no two occurrences overlap.
LEMMA FindNewLists ==
    ASSUME NEW b \in Seq(Byte), NEW start \in Nat, NEW seen \in Nat
    PROVE  /\ Lists(FindNew(b, start, seen), 1, Wanted(b, start, seen))
           /\ (\A p, q \in 1 .. Len(b) - Len(Pattern) + 1 :
                  p < q /\ OccursAt(b, p) /\ OccursAt(b, q) => p + Len(Pattern) <= q)
              => ListsAll(FindNew(b, start, seen), 1, Wanted(b, start, seen))
<1>1. PICK N \in Nat : N = Len(b) + Len(Pattern) /\ N >= 1
  BY PatternAssumption
<1>2. PICK f : /\ FindNew(b, start, seen) = f[1]
               /\ \A i \in 1 .. N : f[i] = FindBody(f, b, start, seen, i)
  BY <1>1, FindSteps
<1>. DEFINE Apart == \A p, q \in 1 .. Len(b) - Len(Pattern) + 1 :
                        p < q /\ OccursAt(b, p) /\ OccursAt(b, q) => p + Len(Pattern) <= q
            Good(i) == /\ Lists(f[i], i, Wanted(b, start, seen))
                       /\ Apart => ListsAll(f[i], i, Wanted(b, start, seen))
            Bad == {i \in 1 .. N : ~ Good(i)}
<1>3. SUFFICES ASSUME 1 \in Bad PROVE FALSE
  <2>1. 1 \in 1 .. N
    BY <1>1
  <2>. QED BY <2>1, <1>2
<1>4. PICK i \in Bad : \A y \in Bad : y <= i
  <2>1. Bad \subseteq 1 .. N /\ Bad # {}
    BY <1>3
  <2>. HIDE DEF Bad
  <2>. QED BY <2>1, Greatest
<1>5. i \in 1 .. N /\ ~ Good(i)
  OBVIOUS
<1>6. \A j \in i + 1 .. N : j \in 1 .. N /\ ~ (j <= i)
  BY <1>5
<1>7. \A j \in i + 1 .. N : Good(j)
  BY <1>4, <1>6
<1>8. Good(i)
  <2>1. f[i] = FindBody(f, b, start, seen, i) /\ i \in 1 .. Len(b) + Len(Pattern)
    BY <1>1, <1>2, <1>5
  <2>2. \A j \in i + 1 .. Len(b) + Len(Pattern) : Lists(f[j], j, Wanted(b, start, seen))
    BY <1>1, <1>7
  <2>3. Apart => \A j \in i + 1 .. Len(b) + Len(Pattern) : ListsAll(f[j], j, Wanted(b, start, seen))
    BY <1>1, <1>7
  <2>. QED BY <2>1, <2>2, <2>3, FindBodyLists
<1>. QED BY <1>5, <1>8

-----------------------------------------------------------------------------
(* What a watch has seen and told, as facts about values. *)

\* The kept tail is the stream just before lastSeen, and it is short only while
\* nothing older was to be looked at.
Followed(str, begun, ts, ls, tl) ==
    /\ begun \in Nat /\ ts \in Nat /\ ls \in Nat
    /\ begun <= ts /\ ts <= ls /\ ls <= Len(str)
    /\ tl = SubSeq(str, ts + 1, ls)
    /\ ts = begun \/ ls - ts = Overlap

\* A report stands for an occurrence seen since the watch began.
TrueReport(str, begun, ls, r) ==
    /\ begun <= r.seq /\ r.seq + Len(Pattern) <= ls
    /\ OccursAt(str, r.seq + 1)
    /\ r.text = SubSeq(Pattern, 1, TextLen)

\* The reports are true and in the order of the stream.
ToldTruly(str, begun, ls, rp) ==
    /\ rp \in Seq([seq : Nat, text : Seq(Byte)])
    /\ \A k \in 1 .. Len(rp) : TrueReport(str, begun, ls, rp[k])
    /\ \A j, k \in 1 .. Len(rp) : j < k => rp[j].seq < rp[k].seq

\* Every occurrence seen has been reported.
ToldAll(str, begun, ls, rp) ==
    \A p \in begun + 1 .. ls - Len(Pattern) + 1 :
        OccursAt(str, p) => \E k \in 1 .. Len(rp) : rp[k].seq + 1 = p

\* A stretch of a sequence.
LEMMA Stretch ==
    ASSUME NEW s \in Seq(Byte), NEW m \in Nat, NEW n \in Nat, m <= n, n <= Len(s)
    PROVE  /\ SubSeq(s, m + 1, n) \in Seq(Byte)
           /\ Len(SubSeq(s, m + 1, n)) = n - m
           /\ \A i \in 1 .. n - m : SubSeq(s, m + 1, n)[i] = s[m + i]
<1>1. \A i \in m + 1 .. n : s[i] \in Byte
  OBVIOUS
<1>2. /\ SubSeq(s, m + 1, n) \in Seq(Byte)
      /\ Len(SubSeq(s, m + 1, n)) = IF m + 1 <= n THEN n - (m + 1) + 1 ELSE 0
      /\ \A i \in 1 .. n - (m + 1) + 1 : SubSeq(s, m + 1, n)[i] = s[m + 1 + i - 1]
  BY <1>1, SubSeqProperties
<1>. QED BY <1>2

\* Two adjacent stretches make one.
LEMMA StretchJoin ==
    ASSUME NEW s \in Seq(Byte), NEW l \in Nat, NEW m \in Nat, NEW n \in Nat,
           l <= m, m <= n, n <= Len(s)
    PROVE  SubSeq(s, l + 1, m) \o SubSeq(s, m + 1, n) = SubSeq(s, l + 1, n)
<1>1. /\ l + 1 \in 1 .. Len(s) + 1 /\ m \in (l + 1) - 1 .. Len(s) /\ n \in m .. Len(s)
  OBVIOUS
<1>. QED BY <1>1, ConcatAdjacentSubSeq

\* The end of a stretch.
LEMMA StretchEnd ==
    ASSUME NEW s \in Seq(Byte), NEW l \in Nat, NEW m \in Nat, NEW n \in Nat,
           l <= m, m <= n, n <= Len(s)
    PROVE  SubSeq(SubSeq(s, l + 1, n), m - l + 1, n - l) = SubSeq(s, m + 1, n)
<1>1. PICK x, z : x = SubSeq(s, l + 1, n) /\ z = SubSeq(s, m + 1, n)
  OBVIOUS
<1>2. /\ x \in Seq(Byte) /\ Len(x) = n - l /\ \A i \in 1 .. n - l : x[i] = s[l + i]
      /\ z \in Seq(Byte) /\ Len(z) = n - m /\ \A i \in 1 .. n - m : z[i] = s[m + i]
  <2>1. l <= n
    OBVIOUS
  <2>. QED BY <1>1, <2>1, Stretch
<1>3. PICK d \in Nat, e \in Nat : d = m - l /\ e = n - l
  OBVIOUS
<1>4. d <= e /\ e <= Len(x)
  BY <1>2, <1>3
<1>5. PICK y : y = SubSeq(x, d + 1, e)
  OBVIOUS
<1>6. y \in Seq(Byte) /\ Len(y) = e - d /\ \A i \in 1 .. e - d : y[i] = x[d + i]
  <2>1. x \in Seq(Byte) /\ d \in Nat /\ e \in Nat /\ d <= e /\ e <= Len(x)
    BY <1>2, <1>4
  <2>2. /\ SubSeq(x, d + 1, e) \in Seq(Byte) /\ Len(SubSeq(x, d + 1, e)) = e - d
        /\ \A i \in 1 .. e - d : SubSeq(x, d + 1, e)[i] = x[d + i]
    BY <2>1, Stretch, Zenon
  <2>. QED BY <2>2, <1>5, Zenon
<1>7. \A i \in 1 .. n - m : d + i \in 1 .. n - l /\ l + (d + i) = m + i /\ i \in 1 .. e - d
  BY <1>3
<1>8. Len(y) = Len(z) /\ \A i \in 1 .. Len(y) : y[i] = z[i]
  BY <1>2, <1>3, <1>6, <1>7
<1>9. y = z
  BY <1>2, <1>6, <1>8, SeqEqual
<1>. QED BY <1>1, <1>3, <1>5, <1>9, Zenon

\* A pattern that does not overlap itself has no two occurrences that overlap.
LEMMA OccurrencesApart ==
    ASSUME Suited, NEW b \in Seq(Byte),
           NEW p \in 1 .. Len(b) - Len(Pattern) + 1, NEW q \in 1 .. Len(b) - Len(Pattern) + 1,
           p < q, OccursAt(b, p), OccursAt(b, q)
    PROVE  p + Len(Pattern) <= q
<1>1. PICK m \in Nat, n \in Nat : m = Len(Pattern) /\ n = Len(b)
  BY PatternAssumption
<1>2. SUFFICES ASSUME q < p + m PROVE FALSE
  BY <1>1
<1>3. p \in Nat /\ q \in Nat /\ 1 <= p /\ 1 <= q /\ p + m - 1 <= n /\ q + m - 1 <= n
  BY <1>1
<1>4. /\ \A k \in 1 .. m : b[p + k - 1] = Pattern[k]
      /\ \A k \in 1 .. m : b[q + k - 1] = Pattern[k]
  BY <1>1, <1>3, OccursBytes
<1>5. PICK d \in Nat : d = q - p /\ d \in 1 .. m - 1
  BY <1>2, <1>3
<1>6. PICK i \in 1 .. m - d : Pattern[i] # Pattern[i + d]
  BY <1>1, <1>5 DEF Suited
<1>7. i \in 1 .. m /\ i + d \in 1 .. m /\ q + i - 1 = p + (i + d) - 1
  BY <1>3, <1>5
<1>. QED BY <1>4, <1>6, <1>7

\* An occurrence in a stretch of the stream is one in the stream.
LEMMA OccursInStretch ==
    ASSUME NEW str \in Seq(Byte), NEW ts \in Nat, NEW n \in Nat, ts <= n, n <= Len(str),
           NEW i \in Nat, 1 <= i, i + Len(Pattern) - 1 <= n - ts
    PROVE  OccursAt(SubSeq(str, ts + 1, n), i) <=> OccursAt(str, ts + i)
<1>1. PICK b : b = SubSeq(str, ts + 1, n)
  OBVIOUS
<1>2. b \in Seq(Byte) /\ Len(b) = n - ts /\ \A k \in 1 .. n - ts : b[k] = str[ts + k]
  BY <1>1, Stretch
<1>3. PICK m \in Nat : m = Len(Pattern)
  BY PatternAssumption
<1>4. OccursAt(b, i) <=> \A k \in 1 .. m : b[i + k - 1] = Pattern[k]
  BY <1>2, <1>3, OccursBytes
<1>5. OccursAt(str, ts + i) <=> \A k \in 1 .. m : str[ts + i + k - 1] = Pattern[k]
  <2>1. ts + i \in Nat /\ 1 <= ts + i /\ ts + i + m - 1 <= Len(str)
    BY <1>3
  <2>. QED BY <2>1, <1>3, OccursBytes
<1>6. \A k \in 1 .. m : i + k - 1 \in 1 .. n - ts /\ ts + (i + k - 1) = ts + i + k - 1
  BY <1>3
<1>7. \A k \in 1 .. m : b[i + k - 1] = str[ts + i + k - 1]
  BY <1>2, <1>6
<1>. QED BY <1>1, <1>4, <1>5, <1>7

\* What was found stays found as the stream grows.
LEMMA OccursInPrefix ==
    ASSUME NEW str \in Seq(Byte), NEW more \in Seq(Byte),
           NEW i \in Nat, 1 <= i, i + Len(Pattern) - 1 <= Len(str)
    PROVE  OccursAt(str \o more, i) <=> OccursAt(str, i)
<1>1. PICK m \in Nat : m = Len(Pattern)
  BY PatternAssumption
<1>2. PICK t : t = str \o more
  OBVIOUS
<1>3. t \in Seq(Byte) /\ Len(str) <= Len(t) /\ \A k \in 1 .. Len(str) : t[k] = str[k]
  BY <1>2
<1>4. OccursAt(str, i) <=> \A k \in 1 .. m : str[i + k - 1] = Pattern[k]
  BY <1>1, OccursBytes
<1>5. OccursAt(t, i) <=> \A k \in 1 .. m : t[i + k - 1] = Pattern[k]
  <2>1. i + m - 1 <= Len(t)
    BY <1>1, <1>3
  <2>. QED BY <2>1, <1>1, <1>3, OccursBytes
<1>6. \A k \in 1 .. m : i + k - 1 \in 1 .. Len(str)
  BY <1>1
<1>. QED BY <1>2, <1>3, <1>4, <1>5, <1>6

\* The text a report carries is the pattern's, up to the cap.
LEMMA TextValue ==
    ASSUME NEW b \in Seq(Byte), NEW i \in Nat, 1 <= i, i + Len(Pattern) - 1 <= Len(b), OccursAt(b, i)
    PROVE  /\ SubSeq(b, i, i + TextLen - 1) = SubSeq(Pattern, 1, TextLen)
           /\ SubSeq(Pattern, 1, TextLen) \in Seq(Byte)
<1>1. PICK m \in Nat, t \in Nat : m = Len(Pattern) /\ t = TextLen /\ t <= m
  BY PatternAssumption, MatchCapAssumption DEF TextLen, Lesser
<1>2. \A k \in 1 .. m : b[i + k - 1] = Pattern[k]
  BY <1>1, OccursBytes
<1>3. PICK j \in Nat, z \in Nat : j = i - 1 /\ z = 0
  OBVIOUS
<1>4. j <= j + t /\ j + t <= Len(b) /\ j + t \in Nat /\ (j + t) - j = t
  BY <1>1, <1>3
<1>5. PICK x, y : x = SubSeq(b, j + 1, j + t) /\ y = SubSeq(Pattern, z + 1, t)
  OBVIOUS
<1>6. x \in Seq(Byte) /\ Len(x) = t /\ \A k \in 1 .. t : x[k] = b[j + k]
  BY <1>4, <1>5, Stretch
<1>7. y \in Seq(Byte) /\ Len(y) = t /\ \A k \in 1 .. t : y[k] = Pattern[z + k]
  <2>1. Pattern \in Seq(Byte) /\ z <= t /\ t <= Len(Pattern) /\ t - z = t
    BY <1>1, <1>3, PatternAssumption
  <2>. QED BY <2>1, <1>5, Stretch
<1>8. \A k \in 1 .. t : k \in 1 .. m /\ j + k = i + k - 1 /\ z + k = k
  BY <1>1, <1>3
<1>9. \A k \in 1 .. t : x[k] = y[k]
  BY <1>2, <1>6, <1>7, <1>8
<1>10. x = y
  BY <1>6, <1>7, <1>9, SeqEqual
<1>11. j + 1 = i /\ j + t = i + TextLen - 1 /\ z + 1 = 1
  BY <1>1, <1>3
<1>. QED BY <1>1, <1>5, <1>7, <1>10, <1>11

\* Output does not disturb what a watch has seen and told.
LEMMA ToldAsStreamGrows ==
    ASSUME NEW str \in Seq(Byte), NEW more \in Seq(Byte),
           NEW begun, NEW ts, NEW ls, NEW tl, NEW rp,
           Followed(str, begun, ts, ls, tl), ToldTruly(str, begun, ls, rp)
    PROVE  /\ Followed(str \o more, begun, ts, ls, tl)
           /\ ToldTruly(str \o more, begun, ls, rp)
           /\ ToldAll(str, begun, ls, rp) => ToldAll(str \o more, begun, ls, rp)
<1>1. PICK t : t = str \o more
  OBVIOUS
<1>2. PICK n \in Nat, m \in Nat : n = Len(str) /\ m = Len(Pattern) /\ m >= 1
  BY PatternAssumption
<1>3. t \in Seq(Byte) /\ n <= Len(t) /\ \A k \in 1 .. n : t[k] = str[k]
  BY <1>1, <1>2
<1>4. begun \in Nat /\ ts \in Nat /\ ls \in Nat /\ begun <= ts /\ ts <= ls /\ ls <= n
  BY <1>2 DEF Followed
<1>5. SubSeq(t, ts + 1, ls) = SubSeq(str, ts + 1, ls)
  <2>1. PICK x, y : x = SubSeq(t, ts + 1, ls) /\ y = SubSeq(str, ts + 1, ls)
    OBVIOUS
  <2>2. ts \in Nat /\ ls \in Nat /\ ts <= ls /\ ls <= Len(t) /\ ls <= Len(str)
    BY <1>2, <1>3, <1>4
  <2>3. x \in Seq(Byte) /\ Len(x) = ls - ts /\ \A k \in 1 .. ls - ts : x[k] = t[ts + k]
    BY <2>1, <2>2, <1>3, Stretch, Zenon
  <2>4. y \in Seq(Byte) /\ Len(y) = ls - ts /\ \A k \in 1 .. ls - ts : y[k] = str[ts + k]
    BY <2>1, <2>2, Stretch, Zenon
  <2>5. \A k \in 1 .. ls - ts : ts + k \in 1 .. n
    BY <1>4
  <2>6. \A k \in 1 .. ls - ts : x[k] = y[k]
    BY <2>3, <2>4, <2>5, <1>3
  <2>7. x = y
    BY <2>3, <2>4, <2>6, SeqEqual
  <2>. QED BY <2>1, <2>7
<1>6. Followed(t, begun, ts, ls, tl)
  <2>1. ls <= Len(t)
    BY <1>3, <1>4
  <2>. QED BY <2>1, <1>5 DEF Followed
<1>7. \A i \in Nat : 1 <= i /\ i + m - 1 <= n => (OccursAt(t, i) <=> OccursAt(str, i))
  BY <1>1, <1>2, OccursInPrefix
<1>8. ToldTruly(t, begun, ls, rp)
  <2>1. \A k \in 1 .. Len(rp) : rp[k] \in [seq : Nat, text : Seq(Byte)]
    BY ElementOfSeq DEF ToldTruly
  <2>2. ASSUME NEW k \in 1 .. Len(rp)
        PROVE  TrueReport(t, begun, ls, rp[k])
    <3>1. rp[k].seq \in Nat
      BY <2>1
    <3>2. TrueReport(str, begun, ls, rp[k])
      BY DEF ToldTruly
    <3>3. rp[k].seq + 1 \in Nat /\ 1 <= rp[k].seq + 1 /\ rp[k].seq + 1 + m - 1 <= n
      BY <3>1, <3>2, <1>2, <1>4 DEF TrueReport
    <3>4. OccursAt(t, rp[k].seq + 1)
      BY <3>2, <3>3, <1>7 DEF TrueReport
    <3>. QED BY <3>2, <3>4 DEF TrueReport
  <2>. QED BY <2>2 DEF ToldTruly
<1>9. ASSUME ToldAll(str, begun, ls, rp) PROVE ToldAll(t, begun, ls, rp)
  <2>1. \A p \in begun + 1 .. ls - m + 1 : p \in Nat /\ 1 <= p /\ p + m - 1 <= n
    BY <1>2, <1>4
  <2>. QED BY <2>1, <1>2, <1>7, <1>9 DEF ToldAll
<1>. QED BY <1>1, <1>6, <1>8, <1>9

\* The reports a scan adds for the positions in new.
NewReports(b, ts, new) ==
    [k \in DOMAIN new |-> [seq |-> ts + new[k] - 1, text |-> SubSeq(b, new[k], new[k] + TextLen - 1)]]

\* The scan buffer b of a round that finds output, and how much of it is kept.
Scanned(str, ls, tl, b, keep) ==
    /\ ls < Len(str)
    /\ b = tl \o SubSeq(str, ls + 1, Len(str))
    /\ keep = Lesser(Len(b), Overlap)

\* A scan of tail and chunk keeps the tail adjacent to what was seen.
LEMMA ScanFollows ==
    ASSUME NEW str \in Seq(Byte), NEW begun, NEW ts, NEW ls, NEW tl, NEW b, NEW keep,
           Followed(str, begun, ts, ls, tl), Scanned(str, ls, tl, b, keep)
    PROVE  /\ b = SubSeq(str, ts + 1, Len(str)) /\ keep \in Nat
           /\ Followed(str, begun, Len(str) - keep, Len(str), SubSeq(b, Len(b) - keep + 1, Len(b)))
<1>1. PICK n \in Nat : n = Len(str)
  OBVIOUS
<1>2. /\ begun \in Nat /\ ts \in Nat /\ ls \in Nat /\ begun <= ts /\ ts <= ls /\ ls < n
      /\ tl = SubSeq(str, ts + 1, ls) /\ (ts = begun \/ ls - ts = Overlap)
  BY <1>1 DEF Followed, Scanned
<1>3. b = SubSeq(str, ts + 1, n)
  <2>1. ls <= n /\ n <= Len(str)
    BY <1>1, <1>2
  <2>2. SubSeq(str, ts + 1, ls) \o SubSeq(str, ls + 1, n) = SubSeq(str, ts + 1, n)
    BY <2>1, <1>2, StretchJoin
  <2>3. b = tl \o SubSeq(str, ls + 1, n)
    BY <1>1 DEF Scanned
  <2>. QED BY <2>2, <2>3, <1>2, Zenon
<1>4. PICK l \in Nat : l = Len(b) /\ l = n - ts
  <2>1. ts \in Nat /\ ts <= n /\ n <= Len(str)
    BY <1>1, <1>2
  <2>2. Len(SubSeq(str, ts + 1, n)) = n - ts
    BY <2>1, Stretch
  <2>3. Len(b) = n - ts
    BY <2>2, <1>3
  <2>4. n - ts \in Nat
    BY <2>1
  <2>. QED BY <2>3, <2>4
<1>5. keep \in Nat /\ keep <= l /\ (keep = l \/ keep = Overlap) /\ keep <= Overlap
  <2>1. keep = Lesser(l, Overlap)
    BY <1>4 DEF Scanned
  <2>. QED BY <2>1, OverlapAssumption DEF Lesser
<1>6. PICK u \in Nat : u = n - keep /\ ts <= u /\ u <= n
  BY <1>2, <1>4, <1>5
<1>7. SubSeq(b, u - ts + 1, n - ts) = SubSeq(str, u + 1, n)
  <2>1. ts \in Nat /\ u \in Nat /\ ts <= u /\ u <= n /\ n <= Len(str)
    BY <1>1, <1>2, <1>6
  <2>2. SubSeq(SubSeq(str, ts + 1, n), u - ts + 1, n - ts) = SubSeq(str, u + 1, n)
    BY <2>1, StretchEnd, Zenon
  <2>. QED BY <2>2, <1>3
<1>8. l - keep + 1 = u - ts + 1 /\ l = n - ts
  BY <1>2, <1>4, <1>5, <1>6
<1>9. u = begun \/ n - u = Overlap
  BY <1>2, <1>4, <1>5, <1>6, OverlapAssumption
<1>10. Followed(str, begun, u, n, SubSeq(b, l - keep + 1, l))
  <2>1. SubSeq(b, l - keep + 1, l) = SubSeq(str, u + 1, n)
    BY <1>7, <1>8
  <2>2. begun \in Nat /\ u \in Nat /\ n \in Nat /\ begun <= u /\ u <= n /\ n <= Len(str)
    BY <1>1, <1>2, <1>6
  <2>. QED BY <2>1, <2>2, <1>9, Zenon DEF Followed
<1>. QED BY <1>1, <1>3, <1>4, <1>5, <1>6, <1>10

\* R are true reports of the positions in new, in order, of occurrences that ended
\* after ls.
ReportsOf(str, begun, ts, ls, n, new, R) ==
    /\ R \in Seq([seq : Nat, text : Seq(Byte)]) /\ Len(R) = Len(new)
    /\ \A k \in 1 .. Len(R) : /\ R[k].seq = ts + new[k] - 1
                              /\ R[k].seq + Len(Pattern) > ls
                              /\ TrueReport(str, begun, n, R[k])
    /\ \A j, k \in 1 .. Len(R) : j < k => R[j].seq < R[k].seq

\* The reports of a scan are true, and in order among themselves.
LEMMA NewReportsTrue ==
    ASSUME NEW str \in Seq(Byte), NEW begun \in Nat, NEW ts \in Nat, NEW ls \in Nat, begun <= ts,
           NEW n \in Nat, n = Len(str), ts <= n,
           NEW b \in Seq(Byte), b = SubSeq(str, ts + 1, n), Len(b) = n - ts,
           NEW new, Lists(new, 1, Wanted(b, ts, ls))
    PROVE  ReportsOf(str, begun, ts, ls, n, new, NewReports(b, ts, new))
<1>1. PICK m \in Nat : m = Len(Pattern) /\ m >= 1
  BY PatternAssumption
<1>2. PICK c \in Nat : c = Len(new) /\ DOMAIN new = 1 .. c
  BY DEF Lists
<1>3. /\ \A k \in 1 .. c : new[k] \in Wanted(b, ts, ls) /\ new[k] \in Nat
      /\ \A j, k \in 1 .. c : j < k => new[j] < new[k]
  BY <1>2 DEF Lists
<1>4. \A k \in 1 .. c : /\ 1 <= new[k] /\ new[k] + m - 1 <= n - ts /\ OccursAt(b, new[k])
                        /\ new[k] - 1 + m + ts > ls
  BY <1>1, <1>3 DEF Wanted
<1>. DEFINE text(k) == SubSeq(b, new[k], new[k] + TextLen - 1)
            R == NewReports(b, ts, new)
<1>5. \A k \in 1 .. c : text(k) = SubSeq(Pattern, 1, TextLen) /\ text(k) \in Seq(Byte)
  <2>. SUFFICES ASSUME NEW k \in 1 .. c
                PROVE  text(k) = SubSeq(Pattern, 1, TextLen) /\ text(k) \in Seq(Byte)
    OBVIOUS
  <2>1. PICK i \in Nat : i = new[k] /\ 1 <= i /\ i + Len(Pattern) - 1 <= Len(b) /\ OccursAt(b, i)
    BY <1>1, <1>3, <1>4
  <2>2. SubSeq(b, i, i + TextLen - 1) = SubSeq(Pattern, 1, TextLen) /\ SubSeq(Pattern, 1, TextLen) \in Seq(Byte)
    BY <2>1, TextValue
  <2>. QED BY <2>1, <2>2, Zenon
<1>. HIDE DEF text
<1>6. R = [k \in 1 .. c |-> [seq |-> ts + new[k] - 1, text |-> text(k)]]
  BY <1>2 DEF NewReports, text
<1>. HIDE DEF R
<1>7. \A k \in 1 .. c : R[k].seq = ts + new[k] - 1 /\ R[k].text = text(k)
  BY <1>6
<1>8. R \in Seq([seq : Nat, text : Seq(Byte)]) /\ Len(R) = c
  <2>1. \A k \in 1 .. c : ts + new[k] - 1 \in Nat
    BY <1>3, <1>4
  <2>2. ASSUME NEW k \in 1 .. c
        PROVE  R[k] \in [seq : Nat, text : Seq(Byte)]
    <3>1. PICK q \in Nat, t \in Seq(Byte) : q = ts + new[k] - 1 /\ t = text(k)
      BY <2>1, <1>5
    <3>2. R[k] = [seq |-> q, text |-> t]
      BY <3>1, <1>6
    <3>3. [seq |-> q, text |-> t] \in [seq : Nat, text : Seq(Byte)]
      OBVIOUS
    <3>. QED BY <3>2, <3>3, Zenon
  <2>. QED BY <2>2, <1>6
<1>9. ASSUME NEW k \in 1 .. c
      PROVE  R[k].seq + m > ls
  <2>0. PICK i \in Nat : i = new[k] /\ 1 <= i /\ i - 1 + m + ts > ls
    BY <1>3, <1>4
  <2>1. PICK q \in Nat : q = ts + new[k] - 1 /\ q = ts + i - 1
    BY <2>0
  <2>2. q + m > ls
    BY <2>0, <2>1
  <2>3. R[k].seq = q
    BY <2>1, <1>7, Zenon
  <2>. QED BY <2>2, <2>3, Zenon
<1>10. ASSUME NEW k \in 1 .. c
       PROVE  TrueReport(str, begun, n, R[k])
  <2>1. PICK i \in Nat : i = new[k] /\ 1 <= i /\ i + Len(Pattern) - 1 <= n - ts /\ OccursAt(b, i)
    BY <1>1, <1>3, <1>4
  <2>2. OccursAt(b, i) <=> OccursAt(str, ts + i)
    <3>1. n <= Len(str)
      OBVIOUS
    <3>. QED BY <2>1, <3>1, OccursInStretch
  <2>3. R[k].seq = ts + i - 1 /\ R[k].text = SubSeq(Pattern, 1, TextLen)
    BY <2>1, <1>5, <1>7
  <2>4. R[k].seq + 1 = ts + i /\ begun <= R[k].seq /\ R[k].seq + Len(Pattern) <= n
    <3>1. 1 <= i /\ i + m - 1 <= n - ts
      BY <2>1, <1>1
    <3>2. PICK q \in Nat : q = ts + i - 1
      BY <3>1
    <3>3. q + 1 = ts + i /\ begun <= q /\ q + m <= n
      BY <3>1, <3>2
    <3>. QED BY <3>2, <3>3, <1>1, <2>3, Zenon
  <2>5. OccursAt(str, R[k].seq + 1)
    BY <2>1, <2>2, <2>4, Zenon
  <2>. QED BY <2>3, <2>4, <2>5 DEF TrueReport
<1>11. ASSUME NEW j \in 1 .. c, NEW k \in 1 .. c, j < k
       PROVE  R[j].seq < R[k].seq
  <2>1. new[j] \in Nat /\ new[k] \in Nat /\ new[j] < new[k]
    BY <1>3, <1>11
  <2>2. ts + new[j] - 1 < ts + new[k] - 1
    BY <2>1
  <2>. QED BY <2>2, <1>7, Zenon
<1>. QED BY <1>1, <1>2, <1>7, <1>8, <1>9, <1>10, <1>11 DEF R, ReportsOf

\* t has the reports of rp and of R.
HasBoth(t, rp, R) ==
    /\ \A p : (\E k \in 1 .. Len(rp) : rp[k].seq + 1 = p) => \E k \in 1 .. Len(t) : t[k].seq + 1 = p
    /\ \A p : (\E k \in 1 .. Len(R) : R[k].seq + 1 = p) => \E k \in 1 .. Len(t) : t[k].seq + 1 = p

\* Of two occurrences, the one that ended earlier began earlier.
LEMMA EndsEarlier ==
    ASSUME NEW q \in Nat, NEW r \in Nat, NEW m \in Nat, NEW ls \in Nat, q + m <= ls, r + m > ls
    PROVE  q < r
OBVIOUS

\* Reports of occurrences that ended later go behind the earlier ones.
LEMMA TellMore ==
    ASSUME NEW str, NEW begun \in Nat, NEW ls \in Nat, NEW n \in Nat, ls <= n,
           NEW rp, ToldTruly(str, begun, ls, rp), NEW ts, NEW new,
           NEW R, ReportsOf(str, begun, ts, ls, n, new, R)
    PROVE  ToldTruly(str, begun, n, rp \o R) /\ HasBoth(rp \o R, rp, R)
<1>1. PICK t : t = rp \o R
  OBVIOUS
<1>2. PICK m \in Nat : m = Len(Pattern)
  BY PatternAssumption
<1>3. /\ rp \in Seq([seq : Nat, text : Seq(Byte)])
      /\ \A k \in 1 .. Len(rp) : TrueReport(str, begun, ls, rp[k])
      /\ \A j, k \in 1 .. Len(rp) : j < k => rp[j].seq < rp[k].seq
  BY DEF ToldTruly
<1>3a. /\ R \in Seq([seq : Nat, text : Seq(Byte)])
       /\ \A k \in 1 .. Len(R) : R[k].seq + m > ls /\ TrueReport(str, begun, n, R[k])
       /\ \A j, k \in 1 .. Len(R) : j < k => R[j].seq < R[k].seq
  BY <1>2, Zenon DEF ReportsOf
<1>4. PICK x \in Nat, y \in Nat : x = Len(rp) /\ y = Len(R)
  BY <1>3, <1>3a
<1>5. t \in Seq([seq : Nat, text : Seq(Byte)]) /\ Len(t) = x + y
  BY <1>1, <1>3, <1>3a, <1>4, ConcatProperties
<1>6. \A k \in 1 .. x : t[k] = rp[k] /\ k \in 1 .. x + y
  BY <1>1, <1>3, <1>3a, <1>4, ConcatProperties
<1>7. \A k \in 1 .. y : t[x + k] = R[k] /\ x + k \in 1 .. x + y
  BY <1>1, <1>3, <1>3a, <1>4, ConcatProperties
<1>8. \A k \in 1 .. x + y : k \in 1 .. x \/ (k - x \in 1 .. y /\ x + (k - x) = k)
  OBVIOUS
<1>9. /\ \A k \in 1 .. x : rp[k].seq \in Nat /\ rp[k].seq + m <= ls
      /\ \A k \in 1 .. y : R[k].seq \in Nat /\ R[k].seq + m > ls
  <2>1. /\ \A k \in 1 .. x : rp[k] \in [seq : Nat, text : Seq(Byte)]
        /\ \A k \in 1 .. y : R[k] \in [seq : Nat, text : Seq(Byte)]
    BY <1>3, <1>3a, <1>4, ElementOfSeq
  <2>2. (\A k \in 1 .. x : rp[k].seq \in Nat) /\ (\A k \in 1 .. y : R[k].seq \in Nat)
    BY <2>1
  <2>3. \A k \in 1 .. x : rp[k].seq + m <= ls
    BY <1>2, <1>3, <1>4, Zenon DEF TrueReport
  <2>4. \A k \in 1 .. y : R[k].seq + m > ls
    BY <1>3a, <1>4, Zenon
  <2>. QED BY <2>2, <2>3, <2>4
<1>10. \A k \in 1 .. x : TrueReport(str, begun, n, rp[k])
  <2>. SUFFICES ASSUME NEW k \in 1 .. x PROVE TrueReport(str, begun, n, rp[k])
    OBVIOUS
  <2>1. TrueReport(str, begun, ls, rp[k])
    BY <1>3, <1>4
  <2>2. PICK q \in Nat : q = rp[k].seq /\ q + m <= ls
    BY <1>9
  <2>3. q + m <= n
    BY <2>2
  <2>. QED BY <2>1, <2>2, <2>3, <1>2, Zenon DEF TrueReport
<1>11. \A k \in 1 .. x + y : TrueReport(str, begun, n, t[k])
  <2>. SUFFICES ASSUME NEW k \in 1 .. x + y PROVE TrueReport(str, begun, n, t[k])
    OBVIOUS
  <2>1. CASE k \in 1 .. x
    BY <2>1, <1>6, <1>10, Zenon
  <2>2. CASE k - x \in 1 .. y
    <3>1. x + (k - x) = k
      OBVIOUS
    <3>2. t[k] = R[k - x]
      BY <2>2, <3>1, <1>7, Zenon
    <3>. QED BY <2>2, <3>2, <1>3a, <1>4, Zenon
  <2>. QED BY <2>1, <2>2, <1>8
<1>12. \A j \in 1 .. x, k \in 1 .. y : rp[j].seq < R[k].seq
  <2>. SUFFICES ASSUME NEW j \in 1 .. x, NEW k \in 1 .. y PROVE rp[j].seq < R[k].seq
    OBVIOUS
  <2>1. PICK q \in Nat, r \in Nat : q = rp[j].seq /\ r = R[k].seq /\ q + m <= ls /\ r + m > ls
    BY <1>9
  <2>2. q < r
    BY <2>1, EndsEarlier
  <2>. QED BY <2>1, <2>2, Zenon
<1>13. ASSUME NEW j \in 1 .. x + y, NEW k \in 1 .. x + y, j < k
       PROVE  t[j].seq < t[k].seq
  <2>1. CASE k \in 1 .. x
    <3>1. j \in 1 .. x
      BY <2>1, <1>13
    <3>. QED BY <2>1, <3>1, <1>3, <1>4, <1>6, <1>13, Zenon
  <2>2. CASE j \in 1 .. x /\ k - x \in 1 .. y
    <3>1. t[j] = rp[j]
      BY <2>2, <1>6
    <3>0. x + (k - x) = k
      OBVIOUS
    <3>2. t[k] = R[k - x]
      BY <2>2, <3>0, <1>7, Zenon
    <3>. QED BY <2>2, <3>1, <3>2, <1>12, Zenon
  <2>3. CASE j - x \in 1 .. y /\ k - x \in 1 .. y
    <3>1. x + (j - x) = j /\ x + (k - x) = k /\ j - x < k - x
      BY <1>13
    <3>2. t[j] = R[j - x] /\ t[k] = R[k - x]
      BY <2>3, <3>1, <1>7, Zenon
    <3>3. R[j - x].seq < R[k - x].seq
      BY <2>3, <3>1, <1>3a, <1>4, Zenon
    <3>. QED BY <3>2, <3>3, Zenon
  <2>4. CASE j - x \in 1 .. y /\ k \in 1 .. x
    BY <2>4, <1>13
  <2>. QED BY <2>1, <2>2, <2>3, <2>4, <1>8, Zenon
<1>14. ToldTruly(str, begun, n, t)
  BY <1>5, <1>11, <1>13 DEF ToldTruly
<1>15. \A p : (\E k \in 1 .. x : rp[k].seq + 1 = p) => \E k \in 1 .. x + y : t[k].seq + 1 = p
  BY <1>6, Zenon
<1>16. \A p : (\E k \in 1 .. y : R[k].seq + 1 = p) => \E k \in 1 .. x + y : t[k].seq + 1 = p
  BY <1>7, Zenon
<1>17. HasBoth(t, rp, R)
  BY <1>4, <1>5, <1>15, <1>16, Zenon DEF HasBoth
<1>. QED BY <1>1, <1>14, <1>17, Zenon

\* A scan's reports are true, and with a suited pattern none is missing.
LEMMA ScanTells ==
    ASSUME NEW str \in Seq(Byte), NEW begun, NEW ts, NEW ls, NEW tl, NEW b, NEW keep, NEW rp, NEW R,
           Followed(str, begun, ts, ls, tl), Scanned(str, ls, tl, b, keep),
           ToldTruly(str, begun, ls, rp), R = NewReports(b, ts, FindNew(b, ts, ls))
    PROVE  /\ ToldTruly(str, begun, Len(str), rp \o R)
           /\ Suited /\ ToldAll(str, begun, ls, rp) => ToldAll(str, begun, Len(str), rp \o R)
<1>1. PICK n \in Nat, m \in Nat : n = Len(str) /\ m = Len(Pattern) /\ m >= 1
  BY PatternAssumption
<1>2. /\ begun \in Nat /\ ts \in Nat /\ ls \in Nat /\ begun <= ts /\ ts <= ls /\ ls < n
      /\ (ts = begun \/ ls - ts = Overlap)
  BY <1>1 DEF Followed, Scanned
<1>3. b = SubSeq(str, ts + 1, n)
  BY <1>1, ScanFollows
<1>4. b \in Seq(Byte) /\ Len(b) = n - ts /\ ts <= n
  <2>1. ts \in Nat /\ ts <= n /\ n <= Len(str)
    BY <1>1, <1>2
  <2>2. SubSeq(str, ts + 1, n) \in Seq(Byte) /\ Len(SubSeq(str, ts + 1, n)) = n - ts
    BY <2>1, Stretch
  <2>. QED BY <2>1, <2>2, <1>3
<1>5. PICK new : new = FindNew(b, ts, ls)
  OBVIOUS
<1>6. Lists(new, 1, Wanted(b, ts, ls))
  BY <1>2, <1>4, <1>5, FindNewLists
<1>7. ReportsOf(str, begun, ts, ls, n, new, R)
  <2>1. R = NewReports(b, ts, new)
    BY <1>5
  <2>2. begun \in Nat /\ ts \in Nat /\ ls \in Nat /\ begun <= ts /\ n = Len(str)
    BY <1>1, <1>2
  <2>3. ReportsOf(str, begun, ts, ls, n, new, NewReports(b, ts, new))
    BY <2>2, <1>3, <1>4, <1>6, NewReportsTrue
  <2>. QED BY <2>1, <2>3, Zenon
<1>8. ToldTruly(str, begun, n, rp \o R) /\ HasBoth(rp \o R, rp, R)
  <2>1. ls <= n
    BY <1>2
  <2>. QED BY <2>1, <1>2, <1>7, TellMore
<1>9. ASSUME Suited, ToldAll(str, begun, ls, rp)
      PROVE  ToldAll(str, begun, n, rp \o R)
  <2>1. ListsAll(new, 1, Wanted(b, ts, ls))
    <3>1. \A p, q \in 1 .. Len(b) - Len(Pattern) + 1 :
             p < q /\ OccursAt(b, p) /\ OccursAt(b, q) => p + Len(Pattern) <= q
      BY <1>4, <1>9, OccurrencesApart
    <3>. QED BY <3>1, <1>2, <1>4, <1>5, FindNewLists
  <2>2. SUFFICES ASSUME NEW p \in begun + 1 .. n - m + 1, OccursAt(str, p)
                 PROVE  \/ \E k \in 1 .. Len(rp) : rp[k].seq + 1 = p
                        \/ \E k \in 1 .. Len(R) : R[k].seq + 1 = p
    BY <1>1, <1>8, Zenon DEF ToldAll, HasBoth
  <2>3. CASE p <= ls - m + 1
    <3>1. p \in begun + 1 .. ls - m + 1
      BY <2>3, <1>1, <1>2
    <3>. QED BY <3>1, <2>2, <1>1, <1>9 DEF ToldAll
  <2>4. CASE ~ (p <= ls - m + 1)
    <3>1. m <= Overlap + 1
      BY <1>1, <1>9 DEF Suited
    <3>2. ts < p
      BY <3>1, <2>4, <1>1, <1>2, OverlapAssumption
    <3>3. PICK i \in Nat : i = p - ts /\ 1 <= i /\ i + m - 1 <= n - ts /\ i - 1 + m + ts > ls
      BY <3>2, <2>4, <1>1, <1>2
    <3>4. p = ts + i
      BY <3>3, <1>2
    <3>5. OccursAt(b, i)
      <4>1. OccursAt(SubSeq(str, ts + 1, n), i) <=> OccursAt(str, ts + i)
        <5>1. n <= Len(str) /\ i + Len(Pattern) - 1 <= n - ts
          BY <1>1, <3>3
        <5>. QED BY <5>1, <1>2, <1>4, <3>3, OccursInStretch
      <4>. QED BY <4>1, <3>4, <2>2, <1>3, Zenon
    <3>6. i \in 1 .. Len(b) - Len(Pattern) + 1
      BY <3>3, <1>1, <1>4
    <3>7. i \in Wanted(b, ts, ls)
      BY <3>3, <3>5, <3>6, <1>1 DEF Wanted
    <3>8. PICK k \in 1 .. Len(new) : new[k] = i
      BY <3>3, <3>7, <2>1 DEF ListsAll
    <3>9. R[k].seq = ts + i - 1 /\ k \in 1 .. Len(R)
      BY <3>8, <1>7, Zenon DEF ReportsOf
    <3>10. ts + i - 1 + 1 = p
      BY <3>4, <1>2
    <3>. QED BY <3>9, <3>10, Zenon
  <2>. QED BY <2>3, <2>4
<1>. QED BY <1>1, <1>8, <1>9

-----------------------------------------------------------------------------
(* Watches. *)

\* The invariant behind the reports: a watch that runs and that the ring has not
\* overtaken holds the stream's bytes just before lastSeen as its tail and has told
\* what it saw; one that has not begun has told nothing.
WatchHolds(w) ==
    /\ wpc[w] \in {"none", "start"} => reports[w] = <<>> /\ tail[w] = <<>>
    /\ w \notin lapped /\ wpc[w] \notin {"none", "start"} =>
          /\ Followed(stream, since[w], tailStart[w], lastSeen[w], tail[w])
          /\ ToldTruly(stream, since[w], lastSeen[w], reports[w])
          /\ Suited => ToldAll(stream, since[w], lastSeen[w], reports[w])

\* Every watch has its own copy of runWatch's locals.
WatchShape ==
    /\ DOMAIN wpc = Watches /\ DOMAIN lastSeen = Watches /\ DOMAIN tail = Watches
    /\ DOMAIN tailStart = Watches /\ DOMAIN reports = Watches /\ DOMAIN since = Watches

WatchInv == RingInv /\ WatchShape /\ \A w \in Watches : WatchHolds(w)

\* A watch none of whose locals change holds what it held.
LEMMA WatchSame ==
    ASSUME NEW v \in Watches, WatchHolds(v), stream' = stream, wpc'[v] = wpc[v],
           reports'[v] = reports[v], tail'[v] = tail[v], tailStart'[v] = tailStart[v],
           lastSeen'[v] = lastSeen[v], since'[v] = since[v], v \in lapped => v \in lapped'
    PROVE  WatchHolds(v)'
BY Zenon DEF WatchHolds

\* At the beginning no watch has begun.
LEMMA WatchInitially ==
    ASSUME WatchInit PROVE WatchInv
<1>1. RingInv
  BY RingInvInit DEF WatchInit
<1>2. WatchShape
  BY DEF WatchInit, WatchShape, Empty
<1>3. \A w \in Watches : WatchHolds(w)
  BY DEF WatchInit, WatchHolds, Empty
<1>. QED BY <1>1, <1>2, <1>3 DEF WatchInv

\* Output reaches the stream behind what every watch has seen.
LEMMA OutputKeeps ==
    ASSUME WatchInv, NEW p \in Chunks, Output(p)
    PROVE  WatchInv'
<1>1. RingInv /\ WatchShape /\ \A w \in Watches : WatchHolds(w)
  BY DEF WatchInv
<1>2. RingInv'
  BY <1>1, RingInvWrite DEF Output
<1>3. /\ stream' = stream \o p /\ wpc' = wpc /\ reports' = reports /\ tail' = tail
      /\ tailStart' = tailStart /\ lastSeen' = lastSeen /\ since' = since /\ lapped' = lapped
  BY DEF Output, Write, wvars, scan
<1>4. stream \in Seq(Byte) /\ p \in Seq(Byte)
  BY <1>1, ChunksAssumption DEF RingInv, TypeOK
<1>5. ASSUME NEW w \in Watches PROVE WatchHolds(w)'
  <2>1. WatchHolds(w)
    BY <1>1
  <2>2. CASE w \notin lapped /\ wpc[w] \notin {"none", "start"}
    <3>1. /\ Followed(stream, since[w], tailStart[w], lastSeen[w], tail[w])
          /\ ToldTruly(stream, since[w], lastSeen[w], reports[w])
          /\ Suited => ToldAll(stream, since[w], lastSeen[w], reports[w])
      BY <2>1, <2>2 DEF WatchHolds
    <3>2. /\ Followed(stream \o p, since[w], tailStart[w], lastSeen[w], tail[w])
          /\ ToldTruly(stream \o p, since[w], lastSeen[w], reports[w])
          /\ Suited => ToldAll(stream \o p, since[w], lastSeen[w], reports[w])
      BY <3>1, <1>4, ToldAsStreamGrows
    <3>. QED BY <3>2, <2>2, <1>3, Zenon DEF WatchHolds
  <2>3. CASE ~ (w \notin lapped /\ wpc[w] \notin {"none", "start"})
    BY <2>1, <2>3, <1>3, Zenon DEF WatchHolds
  <2>. QED BY <2>2, <2>3
<1>6. WatchShape'
  BY <1>1, <1>3 DEF WatchShape
<1>. QED BY <1>2, <1>5, <1>6 DEF WatchInv

\* The steps that only move a watch on between runs of its loop, or that leave the
\* watches alone.
LEMMA PlainStepKeeps ==
    ASSUME WatchInv, stream' = stream, RingInv',
           reports' = reports, tail' = tail, tailStart' = tailStart, lastSeen' = lastSeen,
           since' = since, lapped' = lapped, DOMAIN wpc' = Watches,
           \A v \in Watches : wpc[v] \in {"none", "start"} <=> wpc'[v] \in {"none", "start"}
    PROVE  WatchInv'
<1>1. \A w \in Watches : WatchHolds(w)'
  <2>. SUFFICES ASSUME NEW w \in Watches PROVE WatchHolds(w)'
    OBVIOUS
  <2>1. WatchHolds(w)
    BY DEF WatchInv
  <2>. QED BY <2>1, Zenon DEF WatchHolds
<1>2. WatchShape'
  BY DEF WatchInv, WatchShape
<1>. QED BY <1>1, <1>2 DEF WatchInv

\* The ring's invariant is about the ring's variables.
LEMMA RingInvSame ==
    ASSUME RingInv, UNCHANGED vars PROVE RingInv'
BY DEF RingInv, TypeOK, RingHoldsNewest, Slot, vars

\* runWatch begins at the end of the stream, with no tail and nothing told.
LEMMA RunWatchKeeps ==
    ASSUME WatchInv, NEW w \in Watches, RunWatch(w)
    PROVE  WatchInv'
<1>1. RingInv /\ WatchShape /\ \A v \in Watches : WatchHolds(v)
  BY DEF WatchInv
<1>2. /\ stream' = stream /\ reports' = reports /\ tail' = tail /\ lapped' = lapped
      /\ wpc[w] = "start" /\ UNCHANGED vars
  BY DEF RunWatch, vars
<1>3. RingInv'
  BY <1>1, <1>2, RingInvSame
<1>4. WatchShape'
  BY <1>1, <1>2 DEF WatchShape, RunWatch
<1>5. /\ wpc'[w] = "scan" /\ lastSeen'[w] = end /\ tailStart'[w] = end /\ since'[w] = end
  BY <1>1 DEF RunWatch, WatchShape
<1>6. \A v \in Watches : v # w => /\ wpc'[v] = wpc[v] /\ lastSeen'[v] = lastSeen[v]
                                  /\ tailStart'[v] = tailStart[v] /\ since'[v] = since[v]
  BY <1>1 DEF RunWatch, WatchShape
<1>7. reports[w] = <<>> /\ tail[w] = <<>>
  BY <1>1, <1>2, Zenon DEF WatchHolds
<1>8. end \in Nat /\ end = Len(stream) /\ stream \in Seq(Byte)
  BY <1>1 DEF RingInv, TypeOK, RingHoldsNewest
<1>9. Followed(stream, end, end, end, <<>>)
  <2>1. SubSeq(stream, end + 1, end) = <<>>
    BY <1>8, SubSeqEmpty
  <2>. QED BY <2>1, <1>8 DEF Followed
<1>10. ToldTruly(stream, end, end, <<>>)
  BY EmptySeq DEF ToldTruly
<1>11. ToldAll(stream, end, end, <<>>)
  <2>1. Len(Pattern) \in Nat /\ Len(Pattern) >= 1
    BY PatternAssumption
  <2>2. \A p \in end + 1 .. end - Len(Pattern) + 1 : FALSE
    BY <2>1, <1>8
  <2>. QED BY <2>2 DEF ToldAll
<1>12. WatchHolds(w)'
  <2>1. wpc'[w] \notin {"none", "start"}
    BY <1>5
  <2>. QED BY <2>1, <1>2, <1>5, <1>7, <1>9, <1>10, <1>11, Zenon DEF WatchHolds
<1>13. \A v \in Watches : v # w => WatchHolds(v)'
  BY <1>1, <1>2, <1>6, WatchSame
<1>. QED BY <1>3, <1>4, <1>12, <1>13, Zenon DEF WatchInv

\* What a replay gives a watch that is behind the end and not overtaken.
LEMMA ReplayUnlapped ==
    ASSUME RingInv, NEW ls \in Nat, ls <= Len(stream), NEW r, r = ReplayFrom(ls),
           r.data # <<>>, ~ r.truncated
    PROVE  /\ ls < Len(stream) /\ r.data = SubSeq(stream, ls + 1, Len(stream))
           /\ r.fromSeq = ls /\ Len(r.data) = Len(stream) - ls
<1>1. /\ end \in Nat /\ end = Len(stream) /\ filled \in Nat /\ stream \in Seq(Byte)
  BY CapAssumption DEF RingInv, TypeOK, RingHoldsNewest
<1>2. ls < end
  <2>1. SUFFICES ASSUME ls >= end PROVE FALSE
    BY <1>1
  <2>2. r.data = <<>>
    BY <2>1 DEF ReplayFrom
  <2>. QED BY <2>2
<1>3. r = Reply(ls)
  BY <1>2, ReplayValue DEF ReplayReplies
<1>4. /\ r.truncated <=> ls < end - filled
      /\ r.fromSeq = From(ls) /\ r.data = SubSeq(stream, From(ls) + 1, end)
  <2>1. PICK d, f, c : d = SubSeq(stream, From(ls) + 1, end) /\ f = From(ls) /\ c = (ls < end - filled)
    OBVIOUS
  <2>2. r = [data |-> d, fromSeq |-> f, truncated |-> c]
    BY <2>1, <1>3, Zenon DEF Reply
  <2>3. r.data = d /\ r.fromSeq = f /\ r.truncated = c
    BY ONLY <2>2
  <2>. QED BY <2>1, <2>3, Zenon
<1>5. From(ls) = ls
  BY <1>4 DEF From
<1>6. r.data = SubSeq(stream, ls + 1, end) /\ r.fromSeq = ls
  BY <1>4, <1>5
<1>7. Len(SubSeq(stream, ls + 1, end)) = end - ls
  <2>1. ls <= end /\ end <= Len(stream)
    BY <1>1, <1>2
  <2>. QED BY <2>1, <1>1, Stretch
<1>. QED BY <1>1, <1>2, <1>6, <1>7, Zenon

\* A round of the loop: what it keeps and tells follows from what it kept and told.
LEMMA ScanKeeps ==
    ASSUME WatchInv, NEW w \in Watches, Scan(w)
    PROVE  WatchInv'
<1>1. RingInv /\ WatchShape /\ \A v \in Watches : WatchHolds(v)
  BY DEF WatchInv
<1>2. PICK r, ls, b, keep, R, e, g :
         /\ ls = lastSeen[w] /\ r = ReplayFrom(ls) /\ b = tail[w] \o r.data
         /\ keep = Lesser(Len(b), Overlap) /\ e = r.fromSeq + Len(r.data)
         /\ g = r.fromSeq + Len(r.data) - keep
         /\ R = NewReports(b, tailStart[w], FindNew(b, tailStart[w], ls))
  OBVIOUS
<1>3. /\ stream' = stream /\ since' = since /\ UNCHANGED vars
      /\ wpc[w] = "scan" /\ wpc' = [wpc EXCEPT ![w] = "wait"]
  BY DEF Scan, vars
<1>4. RingInv'
  BY <1>1, <1>3, RingInvSame
<1>5. wpc'[w] = "wait" /\ DOMAIN wpc' = Watches /\ \A v \in Watches : v # w => wpc'[v] = wpc[v]
  BY <1>1, <1>3 DEF WatchShape
<1>6. CASE r.data = <<>>
  <2>1. UNCHANGED <<lastSeen, tail, tailStart, reports, lapped>>
    BY <1>2, <1>6, Zenon DEF Scan
  <2>2. \A v \in Watches : wpc[v] \in {"none", "start"} <=> wpc'[v] \in {"none", "start"}
    BY <1>3, <1>5
  <2>. QED BY <2>1, <2>2, <1>3, <1>4, <1>5, PlainStepKeeps
<1>7. CASE r.data # <<>>
  <2>1. /\ reports' = [reports EXCEPT ![w] = @ \o R]
        /\ lastSeen' = [lastSeen EXCEPT ![w] = e]
        /\ tail' = [tail EXCEPT ![w] = SubSeq(b, Len(b) - keep + 1, Len(b))]
        /\ tailStart' = [tailStart EXCEPT ![w] = g]
        /\ lapped' = IF r.truncated THEN lapped \cup {w} ELSE lapped
    BY <1>2, <1>7, Zenon DEF Scan, NewReports, NewMatches
  <2>2. WatchShape'
    BY <2>1, <1>1, <1>3, <1>5 DEF WatchShape
  <2>3. /\ reports'[w] = reports[w] \o R /\ lastSeen'[w] = e
        /\ tail'[w] = SubSeq(b, Len(b) - keep + 1, Len(b))
        /\ tailStart'[w] = g
    BY <2>1, <1>1, Zenon DEF WatchShape
  <2>4. \A v \in Watches : v # w => /\ reports'[v] = reports[v] /\ lastSeen'[v] = lastSeen[v]
                                    /\ tail'[v] = tail[v] /\ tailStart'[v] = tailStart[v]
    BY <2>1, <1>1, Zenon DEF WatchShape
  <2>5. lapped \subseteq lapped'
    BY <2>1
  <2>6. \A v \in Watches : v # w => WatchHolds(v)'
    BY <2>4, <2>5, <1>1, <1>3, <1>5, WatchSame
  <2>7. WatchHolds(w)'
    <3>1. CASE w \in lapped'
      BY <3>1, <1>5 DEF WatchHolds
    <3>2. CASE w \notin lapped'
      <4>1. w \notin lapped /\ ~ r.truncated
        BY <3>2, <2>1
      <4>2. /\ Followed(stream, since[w], tailStart[w], ls, tail[w])
            /\ ToldTruly(stream, since[w], ls, reports[w])
            /\ Suited => ToldAll(stream, since[w], ls, reports[w])
        <5>1. wpc[w] \notin {"none", "start"}
          BY <1>3
        <5>. QED BY <4>1, <5>1, <1>1, <1>2, Zenon DEF WatchHolds
      <4>3. stream \in Seq(Byte)
        BY <1>1 DEF RingInv, TypeOK
      <4>4. ls \in Nat /\ ls <= Len(stream)
        BY <4>2 DEF Followed
      <4>5. /\ ls < Len(stream) /\ r.data = SubSeq(stream, ls + 1, Len(stream))
            /\ r.fromSeq = ls /\ Len(r.data) = Len(stream) - ls
        BY <4>1, <4>4, <1>1, <1>2, <1>7, ReplayUnlapped
      <4>6. Scanned(stream, ls, tail[w], b, keep)
        BY <4>5, <1>2, Zenon DEF Scanned
      <4>7. keep \in Nat /\ Followed(stream, since[w], Len(stream) - keep, Len(stream), SubSeq(b, Len(b) - keep + 1, Len(b)))
        BY <4>2, <4>3, <4>6, ScanFollows
      <4>8. /\ ToldTruly(stream, since[w], Len(stream), reports[w] \o R)
            /\ Suited => ToldAll(stream, since[w], Len(stream), reports[w] \o R)
        BY <4>2, <4>3, <4>6, <1>2, ScanTells
      <4>9. wpc'[w] \notin {"none", "start"}
        BY <1>5
      <4>10. /\ lastSeen'[w] = Len(stream) /\ tailStart'[w] = Len(stream) - keep
             /\ since'[w] = since[w]
        <5>1. PICK n \in Nat : n = Len(stream)
          BY <4>3
        <5>2. e = ls + (n - ls) /\ g = ls + ((n - ls) - keep)
          BY <5>1, <4>5, <1>2, Zenon
        <5>3. e = n /\ g = n - keep
          BY ONLY <5>2, <4>4, <4>7, n \in Nat
        <5>. QED BY <5>1, <5>3, <2>3, <1>3, Zenon
      <4>11. /\ Followed(stream', since'[w], tailStart'[w], lastSeen'[w], tail'[w])
             /\ ToldTruly(stream', since'[w], lastSeen'[w], reports'[w])
             /\ Suited => ToldAll(stream', since'[w], lastSeen'[w], reports'[w])
        BY <4>7, <4>8, <4>10, <2>3, <1>3, Zenon
      <4>. QED BY <4>9, <4>11, Zenon DEF WatchHolds
    <3>. QED BY <3>1, <3>2
  <2>. QED BY <1>4, <2>2, <2>6, <2>7, Zenon DEF WatchInv
<1>. QED BY <1>6, <1>7

\* Every step keeps the invariant.
LEMMA WatchNextKeeps ==
    ASSUME WatchInv, [WatchNext]_<<vars, wvars>>
    PROVE  WatchInv'
<1>0. RingInv /\ WatchShape
  BY DEF WatchInv
<1>1. ASSUME NEW p \in Chunks, Output(p) PROVE WatchInv'
  BY <1>1, OutputKeeps
<1>2. CASE SessionExit \/ UNCHANGED <<vars, wvars>>
  <2>1. UNCHANGED vars /\ UNCHANGED scan
    BY <1>2 DEF SessionExit, wvars
  <2>2. RingInv' /\ stream' = stream
    BY <2>1, <1>0, RingInvSame DEF vars
  <2>3. /\ wpc' = wpc /\ reports' = reports /\ tail' = tail /\ tailStart' = tailStart
        /\ lastSeen' = lastSeen /\ since' = since /\ lapped' = lapped
    BY <2>1 DEF scan
  <2>4. DOMAIN wpc' = Watches
    BY <2>3, <1>0 DEF WatchShape
  <2>. QED BY <2>2, <2>3, <2>4, PlainStepKeeps
<1>3. CASE CancelWatches
  <2>1. RingInv'
    BY <1>3, <1>0, RingInvSame DEF CancelWatches
  <2>2. WatchShape'
    BY <1>3 DEF CancelWatches, WatchShape, Empty
  <2>3. \A w \in Watches : WatchHolds(w)'
    BY <1>3 DEF CancelWatches, WatchHolds, Empty
  <2>. QED BY <2>1, <2>2, <2>3 DEF WatchInv
<1>4. CASE RingHandover
  <2>1. RingInv' /\ stream' = stream
    BY <1>4, <1>0, RingInvHandover DEF RingHandover, Handover
  <2>2. /\ wpc' = wpc /\ reports' = reports /\ tail' = tail /\ tailStart' = tailStart
        /\ lastSeen' = lastSeen /\ since' = since /\ lapped' = lapped
    BY <1>4 DEF RingHandover, wvars, scan
  <2>3. DOMAIN wpc' = Watches
    BY <2>2, <1>0 DEF WatchShape
  <2>. QED BY <2>1, <2>2, <2>3, PlainStepKeeps
<1>5. ASSUME NEW w \in Watches, OnWatch(w) \/ ScanFails(w) \/ Wait(w) PROVE WatchInv'
  <2>1. /\ UNCHANGED vars /\ stream' = stream /\ reports' = reports /\ tail' = tail
        /\ tailStart' = tailStart /\ lastSeen' = lastSeen /\ since' = since /\ lapped' = lapped
    BY <1>5 DEF OnWatch, ScanFails, Wait, vars
  <2>2. RingInv'
    BY <2>1, <1>0, RingInvSame
  <2>3. \/ wpc[w] = "none" /\ wpc' = [wpc EXCEPT ![w] = "start"]
        \/ wpc[w] = "scan" /\ wpc' = [wpc EXCEPT ![w] = "done"]
        \/ wpc[w] = "wait" /\ wpc' = [wpc EXCEPT ![w] = "scan"]
        \/ wpc[w] = "wait" /\ wpc' = [wpc EXCEPT ![w] = "done"]
    BY <1>5 DEF OnWatch, ScanFails, Wait
  <2>4. /\ DOMAIN wpc' = Watches
        /\ \A v \in Watches : wpc[v] \in {"none", "start"} <=> wpc'[v] \in {"none", "start"}
    BY <2>3, <1>0 DEF WatchShape
  <2>. QED BY <2>1, <2>2, <2>4, PlainStepKeeps
<1>6. ASSUME NEW w \in Watches, RunWatch(w) PROVE WatchInv'
  BY <1>6, RunWatchKeeps
<1>7. ASSUME NEW w \in Watches, Scan(w) PROVE WatchInv'
  BY <1>7, ScanKeeps
<1>. QED BY <1>1, <1>2, <1>3, <1>4, <1>5, <1>6, <1>7, Zenon DEF WatchNext

\* Watches beside output, exits, takeovers of the ring and cancellation keep their
\* tail and their reports true to the stream.
THEOREM WatchInvariance == WatchSpec => []WatchInv
<1>1. WatchInit => WatchInv
  BY WatchInitially
<1>2. WatchInv /\ [WatchNext]_<<vars, wvars>> => WatchInv'
  BY WatchNextKeeps
<1>. QED BY <1>1, <1>2, PTL DEF WatchSpec

\* What has been told is told of true occurrences, and all of those seen.
LEMMA WatchInvReported ==
    ASSUME WatchInv PROVE MatchesReported
<1>. DEFINE fired(w) == {reports[w][k].seq + 1 : k \in DOMAIN reports[w]}
<1>0. PICK m \in Nat, n \in Nat : m = Len(Pattern) /\ m >= 1 /\ n = Len(stream) /\ n = end
  <2>1. Len(Pattern) \in Nat /\ Len(Pattern) >= 1
    BY PatternAssumption
  <2>2. end \in Nat /\ end = Len(stream)
    BY DEF WatchInv, RingInv, TypeOK, RingHoldsNewest
  <2>. QED BY <2>1, <2>2
<1>1. ASSUME NEW w \in Watches \ lapped
      PROVE  /\ fired(w) \subseteq Occurrences(w)
             /\ \A k \in DOMAIN reports[w] : reports[w][k].text = SubSeq(Pattern, 1, TextLen)
             /\ \A j, k \in DOMAIN reports[w] : j < k => reports[w][j].seq < reports[w][k].seq
             /\ Suited /\ wpc[w] \in {"wait", "done"} /\ lastSeen[w] = end
                   => fired(w) = Occurrences(w)
  <2>1. WatchHolds(w)
    BY DEF WatchInv
  <2>2. CASE wpc[w] \in {"none", "start"}
    <3>1. reports[w] = <<>>
      BY <2>1, <2>2, Zenon DEF WatchHolds
    <3>2. DOMAIN reports[w] = {}
      BY <3>1
    <3>3. wpc[w] \notin {"wait", "done"}
      BY <2>2
    <3>. QED BY <3>2, <3>3
  <2>3. CASE wpc[w] \notin {"none", "start"}
    <3>1. /\ Followed(stream, since[w], tailStart[w], lastSeen[w], tail[w])
          /\ ToldTruly(stream, since[w], lastSeen[w], reports[w])
          /\ Suited => ToldAll(stream, since[w], lastSeen[w], reports[w])
      BY <2>1, <2>3, Zenon DEF WatchHolds
    <3>2. PICK x, l, rp : x = since[w] /\ l = lastSeen[w] /\ rp = reports[w]
      OBVIOUS
    <3>3. x \in Nat /\ l \in Nat /\ l <= n
      BY <3>1, <3>2, <1>0 DEF Followed
    <3>4. /\ rp \in Seq([seq : Nat, text : Seq(Byte)]) /\ DOMAIN rp = 1 .. Len(rp)
          /\ \A k \in 1 .. Len(rp) : TrueReport(stream, x, l, rp[k])
          /\ \A j, k \in 1 .. Len(rp) : j < k => rp[j].seq < rp[k].seq
      BY <3>1, <3>2, LenProperties DEF ToldTruly
    <3>5. ASSUME NEW k \in 1 .. Len(rp)
          PROVE  rp[k].seq + 1 \in Occurrences(w) /\ rp[k].text = SubSeq(Pattern, 1, TextLen)
      <4>1. rp[k] \in [seq : Nat, text : Seq(Byte)]
        BY <3>4, ElementOfSeq
      <4>2. PICK q \in Nat : q = rp[k].seq
        BY <4>1
      <4>3. x <= q /\ q + m <= l /\ OccursAt(stream, q + 1)
        BY <4>2, <3>4, <1>0, Zenon DEF TrueReport
      <4>4. q + 1 \in x + 1 .. n - m + 1
        BY <4>3, <3>3
      <4>5. q + 1 \in Occurrences(w)
        BY <4>3, <4>4, <3>2, <1>0 DEF Occurrences
      <4>. QED BY <4>2, <4>5, <3>4, Zenon DEF TrueReport
    <3>6. fired(w) \subseteq Occurrences(w)
      BY <3>2, <3>4, <3>5
    <3>7. ASSUME Suited, l = n
          PROVE  Occurrences(w) \subseteq fired(w)
      <4>1. SUFFICES ASSUME NEW p \in Occurrences(w) PROVE p \in fired(w)
        OBVIOUS
      <4>2. p \in x + 1 .. l - m + 1 /\ OccursAt(stream, p)
        BY <4>1, <3>2, <3>7, <1>0 DEF Occurrences
      <4>3. ToldAll(stream, x, l, rp)
        BY <3>1, <3>2, <3>7
      <4>4. PICK k \in 1 .. Len(rp) : rp[k].seq + 1 = p
        BY <4>2, <4>3, <1>0, Zenon DEF ToldAll
      <4>. QED BY <4>4, <3>2, <3>4
    <3>. QED BY <3>2, <3>4, <3>5, <3>6, <3>7, <1>0
  <2>. QED BY <2>2, <2>3
<1>. QED BY <1>1, Zenon DEF MatchesReported

\* Whatever the pattern, the tail length, the ring's capacity and the cutting of the
\* output into chunks, a watch reports occurrences in the output only, each once, in
\* order and with its text, and a watch with a suited pattern that has caught up has
\* reported all of them, unless the ring has overtaken it (watch.go runWatch).
THEOREM MatchesReportedAlways == WatchSpec => []MatchesReported
BY WatchInvariance, WatchInvReported, PTL

-----------------------------------------------------------------------------
(* The event bus. *)

\* Counters and channels of a connection.
BusTypes(c) ==
    /\ ch[c] \in Seq(Nat) /\ dropped[c] \in Nat /\ from[c] \in 0 .. Len(emitted)
    /\ cur[c] \in Nat /\ got[c][1] \in Nat /\ got[c][2] \in Nat

\* Nothing is there before Subscribe.
Unused(c) == c \notin subs /\ ch[c] = <<>> /\ dropped[c] = 0 /\ got[c] = <<0, 0>>

\* The account of a subscriber: what its client was sent, what its pump holds, what
\* is in its channel and what was dropped, in this order.
Account(c) ==
    /\ epump[c] \in {"recv", "write"} /\ got[c][2] <= Len(emitted)
    /\ \A i \in DOMAIN ch[c] : got[c][2] < ch[c][i] /\ ch[c][i] \in Due(c)
    /\ \A i, j \in DOMAIN ch[c] : i < j => ch[c][i] < ch[c][j]
    /\ epump[c] = "write" => /\ got[c][2] < cur[c] /\ cur[c] \in Due(c)
                             /\ \A i \in DOMAIN ch[c] : cur[c] < ch[c][i]
    /\ got[c][1] + (IF epump[c] = "write" THEN 1 ELSE 0) + Len(ch[c]) + dropped[c] = Cardinality(Due(c))

BusInv ==
    /\ \E S : emitted \in Seq(S)
    /\ subs \subseteq Conns
    /\ DOMAIN ch = Conns /\ DOMAIN dropped = Conns /\ DOMAIN from = Conns /\ DOMAIN cur = Conns
    /\ DOMAIN got = Conns /\ DOMAIN epump = Conns
    /\ \A c \in Conns : /\ BusTypes(c) /\ (epump[c] = "none" => Unused(c))
                        /\ c \in subs \ broken => Account(c)

\* What one more event does to the history.
LEMMA OneMore ==
    ASSUME BusInv, NEW e, emitted' = Append(emitted, e)
    PROVE  /\ Len(emitted) \in Nat /\ Len(emitted') = Len(emitted) + 1
           /\ emitted'[Len(emitted) + 1] = e
           /\ \A k \in 1 .. Len(emitted) : emitted'[k] = emitted[k]
           /\ \E S : emitted' \in Seq(S)
<1>1. PICK S : emitted \in Seq(S)
  BY DEF BusInv
<1>2. emitted \in Seq(S \cup {e}) /\ e \in S \cup {e}
  BY <1>1
<1>3. /\ Len(emitted) \in Nat /\ Len(emitted') = Len(emitted) + 1
      /\ emitted'[Len(emitted) + 1] = e
      /\ \A k \in 1 .. Len(emitted) : emitted'[k] = emitted[k]
      /\ emitted' \in Seq(S \cup {e})
  BY <1>2, AppendProperties, LenProperties
<1>. QED BY <1>3

\* The events due are finitely many.
LEMMA DueFinite ==
    ASSUME BusInv, NEW c \in Conns
    PROVE  IsFiniteSet(Due(c)) /\ Cardinality(Due(c)) \in Nat /\ Len(emitted) \in Nat
<1>1. PICK S : emitted \in Seq(S)
  BY DEF BusInv
<1>2. Len(emitted) \in Nat /\ from[c] + 1 \in Nat
  BY <1>1, LenProperties DEF BusInv, BusTypes
<1>3. IsFiniteSet(from[c] + 1 .. Len(emitted))
  BY <1>2, FS_Interval
<1>4. Due(c) \subseteq from[c] + 1 .. Len(emitted)
  BY DEF Due
<1>. QED BY <1>2, <1>3, <1>4, FS_Subset, FS_CardinalityType

\* One more event is due for those whose filter lets it through.
LEMMA DueGrows ==
    ASSUME BusInv, NEW scope, NEW ev, Emit(scope, ev), NEW c \in Conns
    PROVE  /\ Due(c)' = IF Wants(c, scope) THEN Due(c) \cup {Len(emitted) + 1} ELSE Due(c)
           /\ Len(emitted) + 1 \notin Due(c)
<1>. DEFINE e == [scope |-> scope, ev |-> ev]
            n == Len(emitted)
<1>1. emitted' = Append(emitted, e) /\ from' = from /\ filter' = filter
  BY DEF Emit
<1>2. /\ n \in Nat /\ Len(emitted') = n + 1 /\ emitted'[n + 1] = e
      /\ \A k \in 1 .. n : emitted'[k] = emitted[k]
  <2>. HIDE DEF e
  <2>. QED BY <1>1, OneMore
<1>3. e.scope = scope
  OBVIOUS
<1>4. from[c] \in 0 .. n
  BY DEF BusInv, BusTypes
<1>. HIDE DEF e, n
<1>5. Due(c) = {k \in from[c] + 1 .. n : Wants(c, emitted[k].scope)}
  BY DEF Due, n
<1>6. Due(c)' = {k \in from[c] + 1 .. n + 1 : Wants(c, emitted'[k].scope)}
  BY <1>1, <1>2 DEF Due, Wants
<1>7. \A k : k \in Due(c)' <=> k \in Due(c) \/ (k = n + 1 /\ Wants(c, scope))
  BY <1>2, <1>3, <1>4, <1>5, <1>6
<1>8. n + 1 \notin Due(c)
  BY <1>2, <1>5
<1>. QED BY <1>7, <1>8 DEF n

\* Emit: the event is queued behind the others, or counted.
LEMMA EmitAccount ==
    ASSUME BusInv, NEW scope, NEW ev, Emit(scope, ev)
    PROVE  BusInv'
<1>. DEFINE n == Len(emitted)
            full(c) == Len(ch[c]) >= Depth
            to(c) == c \in subs /\ Wants(c, scope)
<1>1. /\ DOMAIN ch' = Conns /\ DOMAIN dropped' = Conns
      /\ \A c \in Conns : ch'[c] = IF to(c) /\ ~full(c) THEN Append(ch[c], n + 1) ELSE ch[c]
      /\ \A c \in Conns : dropped'[c] = IF to(c) /\ full(c) THEN dropped[c] + 1 ELSE dropped[c]
      /\ UNCHANGED <<subs, epump, cur, got, broken, from>>
  BY DEF Emit, pumps
<1>2. n \in Nat /\ Len(emitted') = n + 1 /\ \E S : emitted' \in Seq(S)
  <2>1. emitted' = Append(emitted, [scope |-> scope, ev |-> ev])
    BY DEF Emit
  <2>. QED BY <2>1, OneMore
<1>3. ASSUME NEW c \in Conns
      PROVE  BusTypes(c)' /\ (epump'[c] = "none" => Unused(c)') /\ (c \in subs' \ broken' => Account(c)')
  <2>1. /\ ch[c] \in Seq(Nat) /\ dropped[c] \in Nat /\ from[c] \in 0 .. n
        /\ cur[c] \in Nat /\ got[c][1] \in Nat /\ got[c][2] \in Nat
    BY DEF BusInv, BusTypes
  <2>2. /\ Len(ch[c]) \in Nat /\ DOMAIN ch[c] = 1 .. Len(ch[c])
        /\ Append(ch[c], n + 1) \in Seq(Nat) /\ Len(Append(ch[c], n + 1)) = Len(ch[c]) + 1
        /\ DOMAIN Append(ch[c], n + 1) = 1 .. Len(ch[c]) + 1
        /\ Append(ch[c], n + 1)[Len(ch[c]) + 1] = n + 1
        /\ \A i \in 1 .. Len(ch[c]) : Append(ch[c], n + 1)[i] = ch[c][i]
    <3>1. n + 1 \in Nat
      BY <1>2
    <3>. HIDE DEF n
    <3>. QED BY <2>1, <3>1, AppendProperties, LenProperties
  <2>3. BusTypes(c)'
    <3>1. ch'[c] \in {ch[c], Append(ch[c], n + 1)} /\ dropped'[c] \in {dropped[c], dropped[c] + 1}
      <4>. HIDE DEF n, full, to
      <4>. QED BY <1>1
    <3>2. from[c] \in 0 .. n + 1
      BY <1>2, <2>1
    <3>3. ch'[c] \in Seq(Nat) /\ dropped'[c] \in Nat
      <4>1. ch[c] \in Seq(Nat) /\ Append(ch[c], n + 1) \in Seq(Nat) /\ dropped[c] \in Nat
        BY <2>1, <2>2
      <4>2. dropped[c] + 1 \in Nat
        BY <4>1
      <4>. QED BY <3>1, <4>1, <4>2, Zenon
    <3>. QED BY <1>1, <1>2, <2>1, <3>2, <3>3 DEF BusTypes
  <2>4. ASSUME epump'[c] = "none" PROVE Unused(c)'
    BY <1>1, <2>4 DEF BusInv, Unused
  <2>5. ASSUME c \in subs', c \notin broken' PROVE Account(c)'
    <3>1. Account(c) /\ c \in subs
      BY <1>1, <2>5 DEF BusInv
    <3>2. /\ Due(c)' = IF Wants(c, scope) THEN Due(c) \cup {n + 1} ELSE Due(c)
          /\ n + 1 \notin Due(c)
      BY DueGrows
    <3>3. IsFiniteSet(Due(c)) /\ Cardinality(Due(c)) \in Nat
      BY DueFinite
    <3>4. Due(c) \subseteq 1 .. n
      BY <1>2, <2>1 DEF Due
    <3>. DEFINE D == Due(c)
                h == IF epump[c] = "write" THEN 1 ELSE 0
    <3>7. got[c][2] <= Len(emitted')
      BY <1>2, <2>1, <3>1 DEF Account
    <3>5. CASE ~Wants(c, scope)
      BY <3>7, <1>1, <3>1, <3>2, <3>5 DEF Account
    <3>6. CASE Wants(c, scope)
      <4>1. Cardinality(Due(c)') = Cardinality(Due(c)) + 1
        BY <3>2, <3>3, <3>6, FS_AddElement
      <4>2. D \subseteq Due(c)' /\ n + 1 \in Due(c)'
        BY <3>2, <3>6
      <4>3. \A i \in 1 .. Len(ch[c]) : ch[c][i] \in D /\ ch[c][i] < n + 1 /\ got[c][2] < ch[c][i]
        <5>1. \A i \in 1 .. Len(ch[c]) : ch[c][i] \in Due(c) /\ got[c][2] < ch[c][i]
          <6>1. DOMAIN ch[c] = 1 .. Len(ch[c])
            BY <2>2, LenProperties
          <6>. QED BY <6>1, <3>1, Zenon DEF Account
        <5>2. \A d \in Due(c) : d < n + 1
          BY <1>2, <2>1, <3>4
        <5>. QED BY <5>1, <5>2, Zenon
      <4>4. got[c][2] < n + 1 /\ (epump[c] = "write" => cur[c] < n + 1)
        BY <1>2, <2>1, <3>1, <3>4 DEF Account
      <4>5. got[c][1] + h + Len(ch[c]) + dropped[c] = Cardinality(Due(c)) /\ h \in {0, 1}
        BY <3>1 DEF Account
      <4>. HIDE DEF h
      <4>8. ASSUME Len(ch'[c]) + dropped'[c] = Len(ch[c]) + dropped[c] + 1,
                   Len(ch'[c]) \in Nat, dropped'[c] \in Nat
            PROVE  got[c][1] + h + Len(ch'[c]) + dropped'[c] = Cardinality(Due(c)')
        <5>1. PICK q \in Nat, q1 \in Nat : q = Len(ch[c]) /\ q1 = Len(ch'[c])
          BY <2>2, <4>8
        <5>2. q1 + dropped'[c] = q + dropped[c] + 1
          BY <4>8, <5>1, Zenon
        <5>3. got[c][1] + h + q + dropped[c] = Cardinality(Due(c))
          BY <4>5, <5>1, Zenon
        <5>4. got[c][1] + h + q1 + dropped'[c] = Cardinality(Due(c)) + 1
          <6>1. got[c][1] \in Nat /\ h \in Nat /\ dropped[c] \in Nat /\ dropped'[c] \in Nat
            BY <2>1, <4>5, <4>8
          <6>. QED BY <5>2, <5>3, <6>1
        <5>. QED BY <4>1, <5>1, <5>4, Zenon
      <4>6. CASE full(c)
        <5>1. ch'[c] = ch[c] /\ dropped'[c] = dropped[c] + 1
          BY <1>1, <3>1, <3>6, <4>6
        <5>0. Len(ch'[c]) + dropped'[c] = Len(ch[c]) + dropped[c] + 1
          <6>1. Len(ch[c]) \in Nat /\ dropped[c] \in Nat /\ Len(Append(ch[c], n + 1)) = Len(ch[c]) + 1
            BY <2>1, <2>2
          <6>. HIDE DEF n
          <6>. QED BY <5>1, <6>1
        <5>2. got[c][1] + h + Len(ch'[c]) + dropped'[c] = Cardinality(Due(c)')
          BY <2>1, <2>2, <5>0, <5>1, <4>8
        <5>. QED BY <1>1, <3>1, <3>7, <4>2, <5>1, <5>2 DEF Account, h
      <4>7. CASE ~full(c)
        <5>1. ch'[c] = Append(ch[c], n + 1) /\ dropped'[c] = dropped[c]
          BY <1>1, <3>1, <3>6, <4>7
        <5>0. Len(ch'[c]) + dropped'[c] = Len(ch[c]) + dropped[c] + 1
          <6>1. Len(ch[c]) \in Nat /\ dropped[c] \in Nat /\ Len(Append(ch[c], n + 1)) = Len(ch[c]) + 1
            BY <2>1, <2>2
          <6>. HIDE DEF n
          <6>. QED BY <5>1, <6>1
        <5>2. got[c][1] + h + Len(ch'[c]) + dropped'[c] = Cardinality(Due(c)')
          BY <2>1, <2>2, <5>0, <5>1, <4>8
        <5>. DEFINE m == Len(ch[c])
        <5>3. /\ DOMAIN ch'[c] = 1 .. m + 1 /\ ch'[c][m + 1] = n + 1 /\ m \in Nat
              /\ \A i \in 1 .. m : ch'[c][i] = ch[c][i]
          BY <2>2, <5>1
        <5>. HIDE DEF m, n
        <5>4. \A i \in DOMAIN ch'[c] : got[c][2] < ch'[c][i] /\ ch'[c][i] \in Due(c)'
          BY <4>2, <4>3, <4>4, <5>3 DEF m
        <5>5. \A i, j \in DOMAIN ch'[c] : i < j => ch'[c][i] < ch'[c][j]
          <6>1. \A i, j \in 1 .. m : i < j => ch[c][i] < ch[c][j]
            BY <2>2, <3>1 DEF Account, m
          <6>. QED BY <4>3, <5>3, <6>1 DEF m
        <5>6. epump[c] = "write" => /\ got[c][2] < cur[c] /\ cur[c] \in Due(c)'
                                    /\ \A i \in DOMAIN ch'[c] : cur[c] < ch'[c][i]
          <6>1. epump[c] = "write" => /\ got[c][2] < cur[c] /\ cur[c] \in D
                                      /\ \A i \in 1 .. m : cur[c] < ch[c][i]
            BY <2>2, <3>1 DEF Account, m
          <6>. SUFFICES ASSUME epump[c] = "write"
                        PROVE  /\ got[c][2] < cur[c] /\ cur[c] \in Due(c)'
                               /\ \A i \in DOMAIN ch'[c] : cur[c] < ch'[c][i]
            OBVIOUS
          <6>2. cur[c] < n + 1 /\ got[c][2] < cur[c] /\ cur[c] \in Due(c)'
            BY <4>2, <4>4, <6>1
          <6>3. \A i \in 1 .. m + 1 : cur[c] < ch'[c][i]
            BY <5>3, <6>1, <6>2
          <6>. QED BY <5>3, <6>2, <6>3
        <5>. QED BY <1>1, <3>1, <3>7, <5>2, <5>4, <5>5, <5>6 DEF Account, h
      <4>. QED BY <4>6, <4>7
    <3>. QED BY <3>5, <3>6
  <2>. QED BY <2>3, <2>4, <2>5
<1>. QED BY <1>1, <1>2, <1>3 DEF BusInv, Emit, pumps

\* What BusInv says of one connection.
Kept(c) == BusTypes(c) /\ (epump[c] = "none" => Unused(c)) /\ (c \in subs \ broken => Account(c))

\* A connection that the step leaves alone.
LEMMA OthersSame ==
    ASSUME BusInv, NEW d \in Conns, UNCHANGED <<emitted, filter>>, ch'[d] = ch[d], dropped'[d] = dropped[d],
           from'[d] = from[d], cur'[d] = cur[d], got'[d] = got[d], epump'[d] = epump[d],
           d \in subs' => d \in subs, d \in broken => d \in broken'
    PROVE  Kept(d)'
<1>1. BusTypes(d) /\ (epump[d] = "none" => Unused(d)) /\ (d \in subs \ broken => Account(d))
  BY DEF BusInv
<1>2. BusTypes(d)'
  BY <1>1 DEF BusTypes
<1>3. epump'[d] = "none" => Unused(d)'
  BY <1>1 DEF Unused
<1>4. Due(d)' = Due(d)
  BY DEF Due, Wants
<1>5. d \in subs' \ broken' => Account(d)'
  BY <1>1, <1>4 DEF Account
<1>. QED BY <1>2, <1>3, <1>5 DEF Kept

\* A step of connection c.
LEMMA ConnSteps ==
    ASSUME BusInv, NEW c \in Conns, BusNext(c)
    PROVE  /\ UNCHANGED <<emitted, filter>> /\ subs' \subseteq Conns
           /\ DOMAIN ch' = Conns /\ DOMAIN dropped' = Conns /\ DOMAIN from' = Conns
           /\ DOMAIN cur' = Conns /\ DOMAIN got' = Conns /\ DOMAIN epump' = Conns
           /\ \A d \in Conns \ {c} :
                /\ ch'[d] = ch[d] /\ dropped'[d] = dropped[d] /\ from'[d] = from[d] /\ cur'[d] = cur[d]
                /\ got'[d] = got[d] /\ epump'[d] = epump[d]
                /\ d \in subs' => d \in subs
                /\ d \in broken => d \in broken'
<1>. USE DEF BusInv
<1>1. CASE Subscribe(c)
  BY <1>1 DEF Subscribe
<1>2. CASE PumpRecv(c)
  BY <1>2 DEF PumpRecv
<1>3. CASE PumpWrite(c)
  BY <1>3 DEF PumpWrite
<1>4. CASE PumpDrain(c)
  BY <1>4 DEF PumpDrain, pumps
<1>5. CASE PumpEnd(c)
  BY <1>5 DEF PumpEnd
<1>6. CASE Disconnect(c)
  BY <1>6 DEF Disconnect
<1>7. CASE Unsubscribe(c)
  BY <1>7 DEF Unsubscribe, pumps
<1>. QED BY <1>1, <1>2, <1>3, <1>4, <1>5, <1>6, <1>7 DEF BusNext, PumpStep

\* Its account afterwards.
LEMMA ConnKept ==
    ASSUME BusInv, NEW c \in Conns, BusNext(c)
    PROVE  Kept(c)'
<1>1. /\ BusTypes(c) /\ (epump[c] = "none" => Unused(c)) /\ (c \in subs \ broken => Account(c))
      /\ DOMAIN ch = Conns /\ DOMAIN dropped = Conns /\ DOMAIN from = Conns /\ DOMAIN cur = Conns
      /\ DOMAIN got = Conns /\ DOMAIN epump = Conns
  BY DEF BusInv
<1>2. /\ ch[c] \in Seq(Nat) /\ Len(emitted) \in Nat /\ cur[c] \in Nat /\ got[c][1] \in Nat
      /\ dropped[c] \in Nat
  BY <1>1, DueFinite DEF BusTypes
<1>3. ASSUME ch[c] # <<>>
      PROVE  /\ Head(ch[c]) = ch[c][1] /\ Tail(ch[c]) \in Seq(Nat) /\ Len(Tail(ch[c])) = Len(ch[c]) - 1
             /\ DOMAIN ch[c] = 1 .. Len(ch[c]) /\ Len(ch[c]) \in Nat /\ Len(ch[c]) >= 1
             /\ DOMAIN Tail(ch[c]) = 1 .. Len(ch[c]) - 1 /\ Head(ch[c]) \in Nat
             /\ \A i \in 1 .. Len(ch[c]) - 1 : Tail(ch[c])[i] = ch[c][i + 1]
  BY <1>2, <1>3, HeadTailProperties, LenProperties
<1>4. CASE Subscribe(c)
  <2>1. /\ epump[c] = "none" /\ subs' = subs \cup {c} /\ epump'[c] = "recv" /\ from'[c] = Len(emitted)
        /\ UNCHANGED <<emitted, filter, ch, dropped, cur, got, broken>>
    BY <1>1, <1>4 DEF Subscribe
  <2>2. Unused(c)
    BY <1>1, <2>1
  <2>3. BusTypes(c)'
    BY <1>1, <1>2, <2>1 DEF BusTypes
  <2>4. Due(c)' = {}
    BY <1>2, <2>1 DEF Due
  <2>5. Cardinality(Due(c)') = 0
    BY <2>4, FS_EmptySet
  <2>6. Account(c)'
    <3>1. ch'[c] = <<>> /\ dropped'[c] = 0 /\ got'[c][1] = 0
      BY <2>1, <2>2 DEF Unused
    <3>2. got'[c][2] = 0
      BY <2>1, <2>2 DEF Unused
    <3>. QED BY <1>2, <2>1, <2>5, <3>1, <3>2 DEF Account
  <2>. QED BY <2>1, <2>3, <2>6 DEF Kept
<1>5. CASE PumpRecv(c)
  <2>1. /\ epump[c] = "recv" /\ ch[c] # <<>> /\ epump'[c] = "write"
        /\ cur'[c] = Head(ch[c]) /\ ch'[c] = Tail(ch[c])
        /\ UNCHANGED <<emitted, filter, subs, dropped, got, broken, from>>
    BY <1>1, <1>5 DEF PumpRecv
  <2>2. BusTypes(c)'
    BY <1>1, <1>3, <2>1 DEF BusTypes
  <2>3. Due(c)' = Due(c)
    BY <2>1 DEF Due, Wants
  <2>4. ASSUME c \in subs, c \notin broken PROVE Account(c)'
    <3>. DEFINE m == Len(ch[c])
    <3>1. /\ \A i \in 1 .. m : got[c][2] < ch[c][i] /\ ch[c][i] \in Due(c)
          /\ \A i, j \in 1 .. m : i < j => ch[c][i] < ch[c][j]
          /\ got[c][1] + 0 + Len(ch[c]) + dropped[c] = Cardinality(Due(c))
          /\ got[c][2] <= Len(emitted)
      BY <1>1, <1>3, <2>1, <2>4 DEF Account
    <3>2. /\ m \in Nat /\ m >= 1 /\ DOMAIN ch'[c] = 1 .. m - 1 /\ cur'[c] = ch[c][1]
          /\ \A i \in 1 .. m - 1 : ch'[c][i] = ch[c][i + 1]
      BY <1>3, <2>1
    <3>3. got[c][1] + 1 + Len(ch'[c]) + dropped[c] = Cardinality(Due(c))
      <4>1. PICK q \in Nat, q1 \in Nat : q = Len(ch[c]) /\ q1 = Len(ch'[c]) /\ q1 = q - 1
        BY <1>3, <2>1
      <4>2. got[c][1] + 0 + q + dropped[c] = Cardinality(Due(c))
        BY <3>1, <4>1, Zenon
      <4>3. got[c][1] + 1 + q1 + dropped[c] = Cardinality(Due(c))
        <5>1. q1 = q - 1
          BY <4>1, Zenon
        <5>. QED BY <1>2, <4>2, <5>1
      <4>. QED BY <4>1, <4>3, Zenon
    <3>. HIDE DEF m
    <3>4. \A i \in DOMAIN ch'[c] : got[c][2] < ch'[c][i] /\ ch'[c][i] \in Due(c) /\ cur'[c] < ch'[c][i]
      BY <3>1, <3>2
    <3>5. \A i, j \in DOMAIN ch'[c] : i < j => ch'[c][i] < ch'[c][j]
      BY <3>1, <3>2
    <3>6. got[c][2] < cur'[c] /\ cur'[c] \in Due(c)
      BY <3>1, <3>2
    <3>. QED BY <2>1, <2>3, <3>1, <3>3, <3>4, <3>5, <3>6 DEF Account
  <2>. QED BY <2>1, <2>2, <2>4 DEF Kept
<1>6. CASE PumpWrite(c)
  <2>1. /\ epump[c] = "write" /\ epump'[c] \in {"drain", "recv"} /\ got'[c] \in {got[c], <<got[c][1] + 1, cur[c]>>}
        /\ c \notin broken => epump'[c] = "recv" /\ got'[c] = <<got[c][1] + 1, cur[c]>>
        /\ UNCHANGED <<emitted, filter, subs, ch, dropped, cur, broken, from>>
    BY <1>1, <1>6 DEF PumpWrite
  <2>2. Due(c)' = Due(c)
    BY <2>1 DEF Due, Wants
  <2>3. BusTypes(c)'
    BY <1>1, <1>2, <2>1 DEF BusTypes
  <2>4. ASSUME c \in subs, c \notin broken PROVE Account(c)'
    <3>1. /\ got[c][2] < cur[c] /\ cur[c] \in Due(c)
          /\ \A i \in DOMAIN ch[c] : cur[c] < ch[c][i] /\ ch[c][i] \in Due(c)
          /\ \A i, j \in DOMAIN ch[c] : i < j => ch[c][i] < ch[c][j]
          /\ got[c][1] + 1 + Len(ch[c]) + dropped[c] = Cardinality(Due(c))
      BY <1>1, <2>1, <2>4 DEF Account
    <3>2. got'[c][1] = got[c][1] + 1 /\ got'[c][2] = cur[c] /\ epump'[c] = "recv"
      BY <2>1, <2>4
    <3>3. got'[c][1] + 0 + Len(ch[c]) + dropped[c] = Cardinality(Due(c))
      <4>1. PICK q \in Nat : q = Len(ch[c])
        BY <1>2, LenProperties
      <4>2. got[c][1] + 1 + q + dropped[c] = Cardinality(Due(c))
        BY <3>1, <4>1, Zenon
      <4>3. got'[c][1] + 0 + q + dropped[c] = Cardinality(Due(c))
        BY <1>2, <3>2, <4>2
      <4>. QED BY <4>1, <4>3, Zenon
    <3>4. cur[c] <= Len(emitted)
      BY <3>1 DEF Due
    <3>. QED BY <2>1, <2>2, <3>1, <3>2, <3>3, <3>4 DEF Account
  <2>. QED BY <2>1, <2>3, <2>4 DEF Kept
<1>7. CASE PumpDrain(c)
  <2>1. /\ epump[c] = "drain" /\ ch[c] # <<>> /\ ch'[c] = Tail(ch[c])
        /\ UNCHANGED <<emitted, filter, subs, dropped, epump, cur, got, broken, from>>
    BY <1>1, <1>7 DEF PumpDrain, pumps
  <2>2. c \notin subs \ broken
    BY <1>1, <2>1 DEF Account
  <2>3. BusTypes(c)'
    BY <1>1, <1>3, <2>1 DEF BusTypes
  <2>. QED BY <2>1, <2>2, <2>3 DEF Kept
<1>8. CASE PumpEnd(c) \/ Disconnect(c) \/ Unsubscribe(c)
  <2>1. /\ epump'[c] \in {epump[c], "done"} /\ (epump'[c] # epump[c] => c \notin subs)
        /\ c \in subs' \ broken' => c \in subs \ broken
        /\ c \in subs' => c \in subs
        /\ UNCHANGED <<emitted, filter, ch, dropped, cur, got, from>>
    BY <1>1, <1>8 DEF PumpEnd, Disconnect, Unsubscribe, pumps
  <2>2. Due(c)' = Due(c)
    BY <2>1 DEF Due, Wants
  <2>3. BusTypes(c)'
    BY <1>1, <2>1 DEF BusTypes
  <2>4. epump'[c] = "none" => Unused(c)'
    BY <1>1, <2>1 DEF Unused
  <2>5. c \in subs' \ broken' => Account(c)'
    BY <1>1, <2>1, <2>2 DEF Account
  <2>. QED BY <2>3, <2>4, <2>5 DEF Kept
<1>. QED BY <1>4, <1>5, <1>6, <1>7, <1>8 DEF BusNext, PumpStep

\* Every step keeps the accounts.
LEMMA BusNextKeeps ==
    ASSUME BusInv, [BusStep]_bvars
    PROVE  BusInv'
<1>1. CASE UNCHANGED bvars
  <2>1. UNCHANGED <<emitted, filter, subs, ch, dropped, epump, cur, got, broken, from>>
    BY <1>1 DEF bvars, pumps
  <2>2. \A d \in Conns : Kept(d)'
    BY <2>1, OthersSame
  <2>. QED BY <2>1, <2>2 DEF BusInv, Kept
<1>2. ASSUME NEW scope, NEW ev, Emit(scope, ev) PROVE BusInv'
  BY <1>2, EmitAccount
<1>3. ASSUME NEW c \in Conns, BusNext(c) PROVE BusInv'
  <2>1. \A d \in Conns \ {c} : Kept(d)'
    BY <1>3, ConnSteps, OthersSame
  <2>2. Kept(c)'
    BY <1>3, ConnKept
  <2>3. \A d \in Conns : Kept(d)'
    BY <2>1, <2>2
  <2>. QED BY <1>3, <2>3, ConnSteps DEF BusInv, Kept
<1>4. CASE BusReset
  <2>1. /\ emitted' = <<>> /\ subs' = {} /\ DOMAIN ch' = Conns /\ DOMAIN dropped' = Conns
        /\ DOMAIN from' = Conns /\ DOMAIN cur' = Conns /\ DOMAIN got' = Conns /\ DOMAIN epump' = Conns
        /\ \A c \in Conns : /\ ch'[c] = <<>> /\ got'[c] = <<0, 0>> /\ dropped'[c] = 0 /\ from'[c] = 0
                             /\ epump'[c] = "done" /\ cur'[c] = 0
    BY <1>4 DEF BusReset
  <2>2. emitted' \in Seq(Nat) /\ Len(emitted') = 0
    BY <2>1
  <2>3. ASSUME NEW c \in Conns PROVE BusTypes(c)'
    <3>1. ch'[c] = <<>> /\ got'[c] = <<0, 0>> /\ dropped'[c] = 0 /\ from'[c] = 0 /\ cur'[c] = 0
      BY <2>1
    <3>2. ch'[c] \in Seq(Nat)
      BY <3>1
    <3>3. got'[c][1] = 0 /\ got'[c][2] = 0
      BY <3>1
    <3>. QED BY <2>2, <3>1, <3>2, <3>3 DEF BusTypes
  <2>. QED BY <2>1, <2>2, <2>3 DEF BusInv
<1>. QED BY <1>1, <1>2, <1>3, <1>4 DEF BusStep

\* The accounts are right at the start.
LEMMA BusInitially ==
    ASSUME BusInit
    PROVE  BusInv
<1>1. emitted \in Seq(Nat) /\ Len(emitted) = 0
  BY DEF BusInit
<1>2. \A c \in Conns : BusTypes(c) /\ Unused(c)
  BY <1>1 DEF BusInit, BusTypes, Unused
<1>. QED BY <1>1, <1>2 DEF BusInit, BusInv

\* A queue with one more in front.
LEMMA InFront ==
    ASSUME NEW m \in Nat, NEW q, NEW x, NEW queue, NEW lo, NEW D,
           queue[1] = x, \A i \in 2 .. m + 1 : queue[i] = q[i - 1],
           lo < x, x \in D, \A i \in 1 .. m : lo < q[i] /\ q[i] \in D /\ x < q[i],
           \A i, j \in 1 .. m : i < j => q[i] < q[j]
    PROVE  /\ \A i, j \in 1 .. m + 1 : i < j => queue[i] < queue[j]
           /\ \A i \in 1 .. m + 1 : lo < queue[i] /\ queue[i] \in D
<1>1. \A i \in 2 .. m + 1 : i - 1 \in 1 .. m
  OBVIOUS
<1>2. \A i \in 1 .. m + 1 : i = 1 \/ i \in 2 .. m + 1
  OBVIOUS
<1>3. \A i \in 1 .. m + 1 : lo < queue[i] /\ queue[i] \in D
  BY <1>1, <1>2
<1>4. ASSUME NEW i \in 1 .. m + 1, NEW j \in 1 .. m + 1, i < j PROVE queue[i] < queue[j]
  <2>1. j - 1 \in 1 .. m /\ queue[j] = q[j - 1]
    BY <1>4
  <2>2. CASE i = 1
    BY <2>1, <2>2
  <2>3. CASE i # 1
    <3>1. i - 1 \in 1 .. m /\ i - 1 < j - 1 /\ queue[i] = q[i - 1]
      BY <1>4, <2>3
    <3>. QED BY <2>1, <3>1
  <2>. QED BY <2>2, <2>3
<1>. QED BY <1>3, <1>4

\* Such a queue as a concatenation.
LEMMA PutBefore ==
    ASSUME NEW q \in Seq(Nat), NEW x \in Nat, NEW queue, queue = <<x>> \o q
    PROVE  /\ DOMAIN queue = 1 .. Len(q) + 1 /\ Len(queue) = Len(q) + 1 /\ queue[1] = x
           /\ \A i \in 2 .. Len(q) + 1 : queue[i] = q[i - 1]
<1>1. <<x>> \in Seq(Nat) /\ Len(<<x>>) = 1 /\ <<x>>[1] = x
  OBVIOUS
<1>. DEFINE s == <<x>>
<1>. HIDE DEF s
<1>2. s \in Seq(Nat) /\ Len(s) = 1 /\ s[1] = x
  BY <1>1 DEF s
<1>3. /\ DOMAIN (s \o q) = 1 .. Len(q) + 1 /\ Len(s \o q) = Len(q) + 1 /\ (s \o q)[1] = x
      /\ \A i \in 2 .. Len(q) + 1 : (s \o q)[i] = q[i - 1]
  <2>1. /\ s \o q \in Seq(Nat) /\ Len(s \o q) = Len(s) + Len(q)
        /\ \A i \in 1 .. Len(s) + Len(q) : (s \o q)[i] = IF i <= Len(s) THEN s[i] ELSE q[i - Len(s)]
    BY <1>2, ConcatProperties
  <2>2. Len(q) \in Nat /\ DOMAIN (s \o q) = 1 .. Len(s \o q)
    BY <2>1, LenProperties
  <2>. QED BY <1>2, <2>1, <2>2
<1>. QED BY <1>3 DEF s

\* What the pump holds and its channel, as one queue.
LEMMA AccountQueue ==
    ASSUME BusInv, NEW c \in subs \ broken, NEW queue, NEW m \in Nat
    PROVE  /\ m = Len(ch[c])
           /\ \/ epump[c] # "write" /\ queue = ch[c]
              \/ /\ epump[c] = "write" /\ DOMAIN queue = 1 .. m + 1 /\ Len(queue) = m + 1
                 /\ queue[1] = cur[c] /\ \A i \in 2 .. m + 1 : queue[i] = ch[c][i - 1]
           => /\ \A i, j \in DOMAIN queue : i < j => queue[i] < queue[j]
              /\ \A i \in DOMAIN queue : got[c][2] < queue[i] /\ queue[i] \in Due(c)
              /\ got[c][1] + Len(queue) + dropped[c] = Cardinality(Due(c))
<1>1. c \in Conns /\ Account(c) /\ BusTypes(c)
  BY DEF BusInv
<1>2. got[c][1] \in Nat /\ dropped[c] \in Nat
  BY <1>1 DEF BusTypes
<1>3. ASSUME m = Len(ch[c]), epump[c] = "write", DOMAIN queue = 1 .. m + 1, Len(queue) = m + 1,
             queue[1] = cur[c], \A i \in 2 .. m + 1 : queue[i] = ch[c][i - 1]
      PROVE  /\ \A i, j \in DOMAIN queue : i < j => queue[i] < queue[j]
             /\ \A i \in DOMAIN queue : got[c][2] < queue[i] /\ queue[i] \in Due(c)
             /\ got[c][1] + Len(queue) + dropped[c] = Cardinality(Due(c))
  <2>0. DOMAIN ch[c] = 1 .. m
    BY <1>1, <1>3, LenProperties DEF BusTypes
  <2>1. /\ got[c][2] < cur[c] /\ cur[c] \in Due(c)
        /\ \A i \in 1 .. m : got[c][2] < ch[c][i] /\ ch[c][i] \in Due(c) /\ cur[c] < ch[c][i]
        /\ \A i, j \in 1 .. m : i < j => ch[c][i] < ch[c][j]
    BY <1>1, <1>3, <2>0 DEF Account
  <2>2. got[c][1] + 1 + m + dropped[c] = Cardinality(Due(c))
    BY <1>1, <1>3 DEF Account
  <2>3. queue[1] = cur[c] /\ \A i \in 2 .. m + 1 : queue[i] = ch[c][i - 1]
    BY <1>3
  <2>4. /\ \A i, j \in 1 .. m + 1 : i < j => queue[i] < queue[j]
        /\ \A i \in 1 .. m + 1 : got[c][2] < queue[i] /\ queue[i] \in Due(c)
    BY <2>1, <2>3, InFront
  <2>5. got[c][1] + (m + 1) + dropped[c] = Cardinality(Due(c))
    BY <1>2, <2>2
  <2>. QED BY <1>3, <2>4, <2>5
<1>4. ASSUME m = Len(ch[c]), epump[c] # "write", queue = ch[c]
      PROVE  /\ \A i, j \in DOMAIN queue : i < j => queue[i] < queue[j]
             /\ \A i \in DOMAIN queue : got[c][2] < queue[i] /\ queue[i] \in Due(c)
             /\ got[c][1] + Len(queue) + dropped[c] = Cardinality(Due(c))
  <2>1. got[c][1] + 0 + m + dropped[c] = Cardinality(Due(c))
    BY <1>1, <1>4 DEF Account
  <2>2. got[c][1] + m + dropped[c] = Cardinality(Due(c))
    BY <1>2, <2>1
  <2>. QED BY <1>1, <1>4, <2>2 DEF Account
<1>. QED BY <1>3, <1>4

\* The account of every subscriber balances, whoever emits what and whenever
\* connections come and go (Emit, Subscribe, Unsubscribe and the pump of
\* onSubscribeEvents).
THEOREM BusInvariance == BusSpec => []BusInv
<1>1. BusInit => BusInv
  BY BusInitially
<1>2. BusInv /\ [BusStep]_bvars => BusInv'
  BY BusNextKeeps
<1>. QED BY <1>1, <1>2, PTL DEF BusSpec

\* The account of a subscriber, what its pump holds put before its channel.
LEMMA QueueAccount == BusInv => EventsAccounted
<1>1. ASSUME BusInv, NEW c \in subs \ broken, NEW queue,
             queue = (IF epump[c] = "write" THEN <<cur[c]>> ELSE <<>>) \o ch[c]
      PROVE  /\ \A i, j \in DOMAIN queue : i < j => queue[i] < queue[j]
             /\ \A i \in DOMAIN queue : got[c][2] < queue[i] /\ queue[i] \in Due(c)
             /\ got[c][1] + Len(queue) + dropped[c] = Cardinality(Due(c))
  <2>1. ch[c] \in Seq(Nat) /\ cur[c] \in Nat /\ Len(ch[c]) \in Nat
    BY <1>1, LenProperties DEF BusInv, BusTypes
  <2>2. ASSUME epump[c] = "write"
        PROVE  /\ DOMAIN queue = 1 .. Len(ch[c]) + 1 /\ Len(queue) = Len(ch[c]) + 1 /\ queue[1] = cur[c]
               /\ \A i \in 2 .. Len(ch[c]) + 1 : queue[i] = ch[c][i - 1]
    <3>1. queue = <<cur[c]>> \o ch[c]
      BY <1>1, <2>2
    <3>. QED BY <2>1, <3>1, PutBefore
  <2>3. ASSUME epump[c] # "write" PROVE queue = ch[c]
    BY <1>1, <2>1, <2>3
  <2>4. PICK m \in Nat : m = Len(ch[c])
    BY <2>1
  <2>5. \/ epump[c] # "write" /\ queue = ch[c]
        \/ /\ epump[c] = "write" /\ DOMAIN queue = 1 .. m + 1 /\ Len(queue) = m + 1
           /\ queue[1] = cur[c] /\ \A i \in 2 .. m + 1 : queue[i] = ch[c][i - 1]
    BY <2>2, <2>3, <2>4
  <2>. QED BY <1>1, <2>4, <2>5, AccountQueue
<1>. QED BY <1>1 DEF EventsAccounted

\* A subscriber gets the events of its scope in the order of emission, none twice,
\* and each one it does not get is counted as dropped (Emit's full channel), for any
\* number of connections, any filters and any buffer size.
THEOREM EventsAccountedAlways == BusSpec => []EventsAccounted
BY QueueAccount, BusInvariance, PTL

-----------------------------------------------------------------------------
(* Folding over a sequence, one element after another. *)

\* The greatest of some numbers up to n.
LEMMA MaxIn ==
    ASSUME NEW n \in Nat, NEW s \in SUBSET (1 .. n), s # {}
    PROVE  Max(s) \in s /\ \A y \in s : y <= Max(s)
<1>1. PICK x \in s : \A y \in s : y <= x
  BY Greatest
<1>2. \A y \in s : x >= y
  BY <1>1
<1>. HIDE <1>1
<1>3. Max(s) \in s /\ \A y \in s : Max(s) >= y
  BY <1>2, Zenon DEF Max
<1>. QED BY <1>3

\* One step of a fold of F over the positions s, t being the folds over fewer.
FoldStep(F, init, t, s) == IF s = {} THEN init ELSE F[<<t[s \ {Max(s)}], Max(s)>>]

\* What a fold takes from positions up to k + 1 leaves positions up to k.
LEMMA FewerPositions ==
    ASSUME NEW k \in Nat, NEW s \in SUBSET (1 .. k + 1), s # {}
    PROVE  s \ {Max(s)} \in SUBSET (1 .. k) /\ Max(s) \in 1 .. k + 1
<1>1. Max(s) \in s /\ \A y \in s : y <= Max(s)
  <2>1. k + 1 \in Nat
    OBVIOUS
  <2>. QED BY <2>1, MaxIn, Zenon
<1>2. PICK x \in 1 .. k + 1 : x = Max(s)
  BY <1>1
<1>3. \A y \in s \ {x} : y \in 1 .. k
  BY <1>1, <1>2
<1>. QED BY <1>2, <1>3

\* Folds exist: the fold over some positions follows from the folds over fewer.
LEMMA FoldHasSolution ==
    ASSUME NEW n \in Nat, NEW F, NEW init
    PROVE  \E t : t = [s \in SUBSET (1 .. n) |-> FoldStep(F, init, t, s)]
<1>. DEFINE Solves(t, k) == t = [s \in SUBSET (1 .. n) |->
                                   IF s \in SUBSET (1 .. k) THEN FoldStep(F, init, t, s) ELSE init]
            Bad == {k \in Nat : ~ \E t : Solves(t, k)}
<1>1. ASSUME NEW j \in Nat PROVE \E t : Solves(t, j)
  <2>1. SUFFICES ASSUME Bad # {} PROVE FALSE
    OBVIOUS
  <2>2. PICK m \in Bad : \A k \in Bad : m <= k
    <3>1. Bad \subseteq Nat /\ Bad # {}
      BY <2>1
    <3>. HIDE DEF Bad
    <3>. QED BY <3>1, Least
  <2>3. m \in Nat /\ ~ \E t : Solves(t, m)
    OBVIOUS
  <2>4. CASE m = 0
    <3>. DEFINE z == [s \in SUBSET (1 .. n) |-> init]
    <3>1. \A s \in SUBSET (1 .. m) : s = {}
      BY <2>4
    <3>2. \A s \in SUBSET (1 .. n) : (IF s \in SUBSET (1 .. m) THEN FoldStep(F, init, z, s) ELSE init) = init
      BY <3>1 DEF FoldStep
    <3>3. Solves(z, m)
      BY <3>2
    <3>. QED BY <3>3, <2>3
  <2>5. CASE m # 0
    <3>1. PICK k \in Nat : m = k + 1
      BY <2>3, <2>5
    <3>2. PICK t : Solves(t, k)
      <4>0. ~ (m <= k)
        BY <3>1
      <4>1. k \notin Bad
        BY <4>0, <2>2, Zenon
      <4>. QED BY <4>1
    <3>3. PICK g : g = [s \in SUBSET (1 .. n) |->
                          IF s \in SUBSET (1 .. m) THEN FoldStep(F, init, t, s) ELSE init]
      OBVIOUS
    <3>4. \A s \in SUBSET (1 .. n) : s \in SUBSET (1 .. k) => g[s] = t[s]
      <4>1. SUFFICES ASSUME NEW s \in SUBSET (1 .. n), s \in SUBSET (1 .. k) PROVE g[s] = t[s]
        OBVIOUS
      <4>2. s \in SUBSET (1 .. m)
        BY <4>1, <3>1
      <4>3. t[s] = FoldStep(F, init, t, s)
        BY <4>1, <3>2
      <4>. QED BY <4>2, <4>3, <3>3
    <3>5. ASSUME NEW s \in SUBSET (1 .. n), s \in SUBSET (1 .. m)
          PROVE  FoldStep(F, init, t, s) = FoldStep(F, init, g, s)
      <4>1. CASE s = {}
        BY <4>1 DEF FoldStep
      <4>2. CASE s # {}
        <5>1. s \ {Max(s)} \in SUBSET (1 .. k)
          BY <4>2, <3>1, <3>5, FewerPositions
        <5>2. s \ {Max(s)} \in SUBSET (1 .. n)
          OBVIOUS
        <5>3. g[s \ {Max(s)}] = t[s \ {Max(s)}]
          BY <5>1, <5>2, <3>4, Zenon
        <5>. QED BY <4>2, <5>3, Zenon DEF FoldStep
      <4>. QED BY <4>1, <4>2
    <3>6. Solves(g, m)
      <4>1. \A s \in SUBSET (1 .. n) :
              (IF s \in SUBSET (1 .. m) THEN FoldStep(F, init, t, s) ELSE init)
              = (IF s \in SUBSET (1 .. m) THEN FoldStep(F, init, g, s) ELSE init)
        BY <3>5
      <4>. QED BY <4>1, <3>3
    <3>. QED BY <3>6, <2>3
  <2>. QED BY <2>4, <2>5
<1>2. PICK t : Solves(t, n)
  BY <1>1
<1>3. \A s \in SUBSET (1 .. n) : (IF s \in SUBSET (1 .. n) THEN FoldStep(F, init, t, s) ELSE init) = FoldStep(F, init, t, s)
  OBVIOUS
<1>4. t = [s \in SUBSET (1 .. n) |-> FoldStep(F, init, t, s)]
  BY <1>2, <1>3
<1>. QED BY <1>4

\* t folds F over the positions up to n, from init, and h is the fold as it grows.
Folds(n, M, F, init, t, h) ==
    /\ t = [s \in SUBSET (1 .. n) |-> FoldStep(F, init, t, s)]
    /\ \A s \in SUBSET (1 .. n) : t[s] \in M
    /\ h[0] = init /\ h[n] = t[1 .. n]
    /\ \A k \in 0 .. n : h[k] \in M
    /\ \A k \in 1 .. n : h[k] = F[<<h[k - 1], k>>]

\* A fold of a function on M goes from one element of M to the next.
LEMMA FoldGrows ==
    ASSUME NEW n \in Nat, NEW M, NEW init \in M, NEW F \in [M \X (1 .. n) -> M]
    PROVE  \E t, h : Folds(n, M, F, init, t, h)
<1>1. PICK t : t = [s \in SUBSET (1 .. n) |-> FoldStep(F, init, t, s)]
  BY FoldHasSolution
<1>2. \A s \in SUBSET (1 .. n) : t[s] = FoldStep(F, init, t, s)
  BY <1>1
<1>. DEFINE Bad == {k \in Nat : \E s \in SUBSET (1 .. n) : s \in SUBSET (1 .. k) /\ t[s] \notin M}
<1>3. Bad = {}
  <2>1. SUFFICES ASSUME Bad # {} PROVE FALSE
    OBVIOUS
  <2>2. PICK m \in Bad : \A k \in Bad : m <= k
    <3>1. Bad \subseteq Nat /\ Bad # {}
      BY <2>1
    <3>. HIDE DEF Bad
    <3>. QED BY <3>1, Least
  <2>3. m \in Nat
    OBVIOUS
  <2>4. PICK s \in SUBSET (1 .. n) : s \in SUBSET (1 .. m) /\ t[s] \notin M
    OBVIOUS
  <2>5. s # {}
    BY <1>2, <2>4 DEF FoldStep
  <2>6. PICK k \in Nat : m = k + 1
    <3>1. ASSUME m = 0 PROVE FALSE
      <4>1. 1 .. m = {}
        BY <3>1
      <4>. QED BY <4>1, <2>4, <2>5
    <3>. QED BY <3>1, <2>3
  <2>7. s \ {Max(s)} \in SUBSET (1 .. k)
    BY <2>4, <2>5, <2>6, FewerPositions
  <2>8. t[s \ {Max(s)}] \in M
    <3>1. ~ (m <= k)
      BY <2>6
    <3>2. k \notin Bad
      BY <3>1, <2>2, Zenon
    <3>3. s \ {Max(s)} \in SUBSET (1 .. n)
      OBVIOUS
    <3>. QED BY <3>2, <3>3, <2>7
  <2>9. Max(s) \in 1 .. n
    BY <2>5, MaxIn
  <2>10. <<t[s \ {Max(s)}], Max(s)>> \in M \X (1 .. n)
    BY <2>8, <2>9
  <2>11. t[s] = F[<<t[s \ {Max(s)}], Max(s)>>]
    BY <1>2, <2>4, <2>5, Zenon DEF FoldStep
  <2>. QED BY <2>4, <2>10, <2>11
<1>4. \A s \in SUBSET (1 .. n) : t[s] \in M
  <2>1. n \notin Bad
    BY <1>3
  <2>. QED BY <2>1
<1>5. PICK h : h = [k \in 0 .. n |-> t[1 .. k]]
  OBVIOUS
<1>6. \A k \in 0 .. n : h[k] = t[1 .. k] /\ 1 .. k \in SUBSET (1 .. n)
  BY <1>5
<1>7. ASSUME NEW k \in 1 .. n PROVE h[k] = F[<<h[k - 1], k>>]
  <2>1. Max(1 .. k) = k
    <3>1. Max(1 .. k) \in 1 .. k /\ \A y \in 1 .. k : y <= Max(1 .. k)
      <4>1. k \in Nat /\ 1 .. k \in SUBSET (1 .. k) /\ 1 .. k # {}
        OBVIOUS
      <4>. QED BY <4>1, MaxIn
    <3>2. PICK x \in 1 .. k : x = Max(1 .. k)
      BY <3>1
    <3>3. k <= x
      BY <3>1, <3>2
    <3>. QED BY <3>2, <3>3
  <2>2. (1 .. k) \ {k} = 1 .. k - 1 /\ 1 .. k # {} /\ k - 1 \in 0 .. n /\ k \in 0 .. n
    OBVIOUS
  <2>3. t[1 .. k] = F[<<t[(1 .. k) \ {Max(1 .. k)}], Max(1 .. k)>>]
    BY <1>2, <1>6, <2>2, Zenon DEF FoldStep
  <2>. QED BY <1>6, <2>1, <2>2, <2>3, Zenon
<1>8. h[0] = init
  <2>1. 1 .. 0 = {} /\ 0 \in 0 .. n
    OBVIOUS
  <2>2. t[1 .. 0] = init
    BY <2>1, <1>2, <1>6, Zenon DEF FoldStep
  <2>. QED BY <2>1, <2>2, <1>6, Zenon
<1>9. \A k \in 0 .. n : h[k] \in M
  BY <1>4, <1>6
<1>10. h[n] = t[1 .. n]
  <2>1. n \in 0 .. n
    OBVIOUS
  <2>. QED BY <2>1, <1>6
<1>11. \A k \in 1 .. n : h[k] = F[<<h[k - 1], k>>]
  BY <1>7
<1>12. Folds(n, M, F, init, t, h)
  BY <1>1, <1>4, <1>8, <1>9, <1>10, <1>11, Zenon DEF Folds
<1>. QED BY <1>12

\* Over s, t and u agree if they do over fewer positions.
SameStep(t, u, s) == (s # {} => t[s \ {Max(s)}] = u[s \ {Max(s)}]) => t[s] = u[s]

\* Folds that agree on a step when they agree on fewer positions agree.
LEMMA FoldUnique ==
    ASSUME NEW n \in Nat, NEW t, NEW u,
           \A s \in SUBSET (1 .. n) : SameStep(t, u, s)
    PROVE  \A s \in SUBSET (1 .. n) : t[s] = u[s]
<1>. DEFINE Bad == {k \in Nat : \E s \in SUBSET (1 .. n) : s \in SUBSET (1 .. k) /\ t[s] # u[s]}
<1>1. Bad = {}
  <2>1. SUFFICES ASSUME Bad # {} PROVE FALSE
    OBVIOUS
  <2>2. PICK m \in Bad : \A k \in Bad : m <= k
    <3>1. Bad \subseteq Nat /\ Bad # {}
      BY <2>1
    <3>. HIDE DEF Bad
    <3>. QED BY <3>1, Least
  <2>3. m \in Nat
    OBVIOUS
  <2>4. PICK s \in SUBSET (1 .. n) : s \in SUBSET (1 .. m) /\ t[s] # u[s]
    OBVIOUS
  <2>5. s # {} /\ t[s \ {Max(s)}] # u[s \ {Max(s)}]
    BY <2>4 DEF SameStep
  <2>6. PICK k \in Nat : m = k + 1
    <3>1. ASSUME m = 0 PROVE FALSE
      <4>1. 1 .. m = {}
        BY <3>1
      <4>. QED BY <4>1, <2>4, <2>5
    <3>. QED BY <3>1, <2>3
  <2>7. s \ {Max(s)} \in SUBSET (1 .. k)
    BY <2>4, <2>5, <2>6, FewerPositions
  <2>8. k \notin Bad
    <3>1. ~ (m <= k)
      BY <2>6
    <3>. QED BY <3>1, <2>2, Zenon
  <2>9. s \ {Max(s)} \in SUBSET (1 .. n)
    OBVIOUS
  <2>. QED BY <2>5, <2>7, <2>8, <2>9
<1>2. n \notin Bad
  BY <1>1
<1>. QED BY <1>2

-----------------------------------------------------------------------------
(* The monitor. *)

Symbol == {"x", "BEL", "ESC", "]", "C", "D", "ST"}
Kinds == {"bell", "started", "finished", "activity", "silence", "log_broken", "exited", "other"}
EventRec == [type : Kinds, start : Nat, end : Nat]

Mon == [osc : {"ground", "esc", "osc", "oscEsc"}, payload : Symbol \cup {NoPayload},
        streamPos : Nat, cmdStart : Nat, lastStart : Nat, lastEnd : Nat, started : BOOLEAN,
        lastOutput : Nat, silent : BOOLEAN, out : Seq(EventRec)]

\* A command starts before it ends, and where the monitor has been.
InOrder(m) == m.cmdStart <= m.streamPos /\ m.lastStart <= m.lastEnd /\ m.lastEnd <= m.streamPos

WithOut(m, o) == [m EXCEPT !.out = o]

\* The events of a call that emits one more.
NewOut(m, type, a, b) == Append(m.out, [type |-> type, start |-> a, end |-> b])

\* Emitting changes nothing but the events of the call.
LEMMA EmittingType ==
    ASSUME NEW m \in Mon, NEW type \in Kinds, NEW a \in Nat, NEW b \in Nat
    PROVE  /\ NewOut(m, type, a, b) \in Seq(EventRec)
           /\ Emitting(m, type, a, b) = WithOut(m, NewOut(m, type, a, b))
<1>1. PICK e \in EventRec : e = [type |-> type, start |-> a, end |-> b]
  BY DEF EventRec
<1>2. PICK o \in Seq(EventRec) : o = Append(m.out, e) /\ o = NewOut(m, type, a, b)
  <2>1. m.out \in Seq(EventRec)
    BY DEF Mon
  <2>. QED BY <2>1, <1>1, AppendProperties DEF NewOut
<1>3. Emitting(m, type, a, b) = WithOut(m, o)
  BY <1>1, <1>2 DEF Emitting, WithOut
<1>. QED BY <1>2, <1>3, Zenon

\* The end of an OSC sequence keeps a monitor one, where it is.
LEMMA FinishType ==
    ASSUME NEW m \in Mon, InOrder(m)
    PROVE  /\ FinishOSC(m, m.streamPos) \in Mon /\ InOrder(FinishOSC(m, m.streamPos))
           /\ FinishOSC(m, m.streamPos).streamPos = m.streamPos
<1>1. /\ m.streamPos \in Nat /\ m.cmdStart \in Nat
      /\ "started" \in Kinds /\ "finished" \in Kinds
      /\ 0 \in Nat
  BY DEF Mon, Kinds
<1>2. CASE m.payload = "C"
  <2>0. PICK q : q = [m EXCEPT !.cmdStart = m.streamPos]
    OBVIOUS
  <2>1. q \in Mon /\ InOrder(q) /\ q.streamPos = m.streamPos
    BY <1>1, <2>0 DEF Mon, InOrder, WithOut
  <2>8. PICK ty \in Kinds : ty = "started"
    BY DEF Kinds
  <2>9. NewOut(q, ty, m.streamPos, 0) \in Seq(EventRec) /\ Emitting(q, ty, m.streamPos, 0) = WithOut(q, NewOut(q, ty, m.streamPos, 0))
    BY <1>1, <2>1, EmittingType
  <2>2. PICK o \in Seq(EventRec) : Emitting(q, "started", m.streamPos, 0) = WithOut(q, o)
    BY <2>8, <2>9, Zenon
  <2>3. FinishOSC(m, m.streamPos) = WithOut(q, o)
    BY <1>2, <2>0, <2>2 DEF FinishOSC
  <2>. QED BY <2>1, <2>3 DEF Mon, InOrder, WithOut
<1>3. CASE m.payload = "D"
  <2>0. PICK q : q = [m EXCEPT !.lastStart = m.cmdStart, !.lastEnd = m.streamPos]
    OBVIOUS
  <2>0a. PICK r : r = [m EXCEPT !.lastStart = m.cmdStart]
    OBVIOUS
  <2>0b. q = [r EXCEPT !.lastEnd = m.streamPos]
    BY <2>0, <2>0a
  <2>0c. /\ r \in Mon /\ r.lastStart = m.cmdStart /\ r.cmdStart = m.cmdStart
         /\ r.streamPos = m.streamPos
    BY <1>1, <2>0a DEF Mon
  <2>1. q \in Mon /\ InOrder(q) /\ q.streamPos = m.streamPos
    BY <1>1, <2>0b, <2>0c DEF Mon, InOrder, WithOut
  <2>8. PICK ty \in Kinds : ty = "finished"
    BY DEF Kinds
  <2>9. NewOut(q, ty, m.cmdStart, m.streamPos) \in Seq(EventRec) /\ Emitting(q, ty, m.cmdStart, m.streamPos) = WithOut(q, NewOut(q, ty, m.cmdStart, m.streamPos))
    BY <1>1, <2>1, EmittingType
  <2>2. PICK o \in Seq(EventRec) : Emitting(q, "finished", m.cmdStart, m.streamPos) = WithOut(q, o)
    BY <2>8, <2>9, Zenon
  <2>3. FinishOSC(m, m.streamPos) = WithOut(q, o)
    BY <1>3, <2>0, <2>2 DEF FinishOSC
  <2>. QED BY <2>1, <2>3 DEF Mon, InOrder, WithOut
<1>4. CASE m.payload # "C" /\ m.payload # "D"
  BY <1>4 DEF FinishOSC
<1>. QED BY <1>2, <1>3, <1>4

\* A byte through the scanner moves the monitor one byte on.
LEMMA ScanType ==
    ASSUME NEW m \in Mon, NEW b \in Symbol, InOrder(m)
    PROVE  /\ ScanByte(m, b) \in Mon /\ InOrder(ScanByte(m, b))
           /\ ScanByte(m, b).streamPos = m.streamPos + 1
<1>0. PICK n : n = [m EXCEPT !.streamPos = @ + 1]
  OBVIOUS
<1>1. /\ n \in Mon /\ InOrder(n) /\ n.streamPos = m.streamPos + 1
      /\ n.osc = m.osc /\ n.payload = m.payload
  BY <1>0 DEF Mon, InOrder, WithOut
<1>. DEFINE ends == (m.osc = "osc" /\ b = "BEL") \/ (m.osc = "oscEsc" /\ b = "ST")
<1>2. CASE m.osc = "ground" /\ b = "BEL"
  <2>0. "bell" \in Kinds /\ 0 \in Nat
    BY DEF Kinds
  <2>8. PICK ty \in Kinds : ty = "bell"
    BY DEF Kinds
  <2>9. NewOut(n, ty, 0, 0) \in Seq(EventRec) /\ Emitting(n, ty, 0, 0) = WithOut(n, NewOut(n, ty, 0, 0))
    BY <1>1, <2>0, EmittingType
  <2>1. PICK o \in Seq(EventRec) : Emitting(n, "bell", 0, 0) = WithOut(n, o)
    BY <2>8, <2>9, Zenon
  <2>2. ScanByte(m, b) = WithOut(n, o)
    BY <1>0, <1>2, <2>1 DEF ScanByte
  <2>. QED BY <1>1, <2>2 DEF Mon, InOrder, WithOut
<1>3. CASE ends
  <2>0. PICK q : q = [n EXCEPT !.osc = "ground"]
    OBVIOUS
  <2>1. q \in Mon /\ InOrder(q) /\ q.streamPos = n.streamPos
    BY <1>1, <2>0 DEF Mon, InOrder, WithOut
  <2>2. ScanByte(m, b) = FinishOSC(q, q.streamPos)
    BY <1>0, <1>1, <1>3, <2>0, <2>1 DEF ScanByte
  <2>. QED BY <1>1, <2>1, <2>2, FinishType
<1>4. CASE ~ ends /\ ~ (m.osc = "ground" /\ b = "BEL")
  <2>1. \/ ScanByte(m, b) = n
        \/ \E o \in {"ground", "esc", "osc", "oscEsc"} : ScanByte(m, b) = [n EXCEPT !.osc = o]
        \/ ScanByte(m, b) = [n EXCEPT !.payload = b]
        \/ ScanByte(m, b) = [n EXCEPT !.osc = "osc", !.payload = NoPayload]
    BY <1>0, <1>4 DEF ScanByte
  <2>. QED BY <1>1, <2>1 DEF Mon, InOrder, WithOut
<1>. QED BY <1>2, <1>3, <1>4

\* The scanner over a sequence of bytes.
ScanAll(m, p) == FoldLeft(ScanByte, m, p)

\* h is the monitor as the scanner goes through p.
Scans(m, p, h) ==
    /\ h[0] = m /\ ScanAll(m, p) = h[Len(p)]
    /\ \A k \in 0 .. Len(p) : h[k] \in Mon /\ InOrder(h[k])
    /\ \A k \in 1 .. Len(p) : h[k] = ScanByte(h[k - 1], p[k])

\* Scanning goes byte by byte.
LEMMA ScansGrow ==
    ASSUME NEW m \in Mon, InOrder(m), NEW p \in Seq(Symbol)
    PROVE  \E h : Scans(m, p, h)
<1>. DEFINE M == {x \in Mon : InOrder(x)}
<1>1. PICK n \in Nat : n = Len(p) /\ DOMAIN p = 1 .. n
  OBVIOUS
<1>2. PICK F : F = [z \in M \X (1 .. n) |-> ScanByte(z[1], p[z[2]])]
  OBVIOUS
<1>3. \A x \in M, k \in 1 .. n : ScanByte(x, p[k]) \in M
  <2>1. SUFFICES ASSUME NEW x \in M, NEW k \in 1 .. n PROVE ScanByte(x, p[k]) \in M
    OBVIOUS
  <2>2. p[k] \in Symbol
    BY <1>1, ElementOfSeq
  <2>. QED BY <2>2, ScanType
<1>4. F \in [M \X (1 .. n) -> M]
  BY <1>2, <1>3
<1>5. \A x \in M, k \in 1 .. n : F[<<x, k>>] = ScanByte(x, p[k])
  BY <1>2
<1>6. m \in M
  OBVIOUS
<1>7. PICK t, h : Folds(n, M, F, m, t, h)
  <2>. HIDE DEF M
  <2>. QED BY <1>4, <1>6, FoldGrows
<1>8. t = [s \in SUBSET DOMAIN p |-> IF s = {} THEN m ELSE ScanByte(t[s \ {Max(s)}], p[Max(s)])]
  <2>1. t = [s \in SUBSET (1 .. n) |-> FoldStep(F, m, t, s)]
    BY <1>7 DEF Folds
  <2>2. ASSUME NEW s \in SUBSET (1 .. n)
        PROVE  FoldStep(F, m, t, s) = IF s = {} THEN m ELSE ScanByte(t[s \ {Max(s)}], p[Max(s)])
    <3>1. CASE s = {}
      BY <3>1 DEF FoldStep
    <3>2. CASE s # {}
      <4>1. Max(s) \in 1 .. n
        BY <3>2, MaxIn
      <4>2. t[s \ {Max(s)}] \in M
        <5>1. s \ {Max(s)} \in SUBSET (1 .. n)
          OBVIOUS
        <5>. HIDE DEF M
        <5>. QED BY <5>1, <1>7 DEF Folds
      <4>3. F[<<t[s \ {Max(s)}], Max(s)>>] = ScanByte(t[s \ {Max(s)}], p[Max(s)])
        <5>. HIDE DEF M
        <5>. QED BY <4>1, <4>2, <1>5, Zenon
      <4>. QED BY <3>2, <4>3, Zenon DEF FoldStep
    <3>. QED BY <3>1, <3>2
  <2>. QED BY <1>1, <2>1, <2>2
<1>. DEFINE iter[s \in SUBSET DOMAIN p] == IF s = {} THEN m ELSE ScanByte(iter[s \ {Max(s)}], p[Max(s)])
<1>9. ScanAll(m, p) = iter[DOMAIN p]
  BY DEF ScanAll, FoldLeft, MapThenFoldSet
<1>10. iter = [s \in SUBSET DOMAIN p |-> IF s = {} THEN m ELSE ScanByte(iter[s \ {Max(s)}], p[Max(s)])]
  BY <1>8, Zenon
<1>. HIDE DEF iter
<1>11. \A s \in SUBSET (1 .. n) : t[s] = iter[s]
  <2>1. ASSUME NEW s \in SUBSET (1 .. n), s # {} => t[s \ {Max(s)}] = iter[s \ {Max(s)}]
        PROVE  t[s] = iter[s]
    <3>1. /\ t[s] = IF s = {} THEN m ELSE ScanByte(t[s \ {Max(s)}], p[Max(s)])
          /\ iter[s] = IF s = {} THEN m ELSE ScanByte(iter[s \ {Max(s)}], p[Max(s)])
      BY <1>1, <1>8, <1>10
    <3>. QED BY <2>1, <3>1
  <2>2. \A s \in SUBSET (1 .. n) : SameStep(t, iter, s)
    BY <2>1 DEF SameStep
  <2>. QED BY <2>2, FoldUnique, Zenon
<1>12. ScanAll(m, p) = h[n]
  <2>1. 1 .. n \in SUBSET (1 .. n)
    OBVIOUS
  <2>2. h[n] = t[1 .. n]
    BY <1>7 DEF Folds
  <2>. QED BY <1>1, <1>9, <1>11, <2>1, <2>2, Zenon
<1>13. \A k \in 1 .. n : h[k] = ScanByte(h[k - 1], p[k])
  <2>1. SUFFICES ASSUME NEW k \in 1 .. n PROVE h[k] = ScanByte(h[k - 1], p[k])
    OBVIOUS
  <2>2. k - 1 \in 0 .. n
    OBVIOUS
  <2>. HIDE DEF M
  <2>3. h[k] = F[<<h[k - 1], k>>] /\ h[k - 1] \in M
    BY <2>2, <1>7 DEF Folds
  <2>. QED BY <2>3, <1>5, Zenon
<1>14. h[0] = m /\ \A k \in 0 .. n : h[k] \in M
  <2>. HIDE DEF M
  <2>. QED BY <1>7 DEF Folds
<1>15. \A k \in 0 .. n : h[k] \in Mon /\ InOrder(h[k])
  BY <1>14
<1>. QED BY <1>1, <1>12, <1>13, <1>14, <1>15, Zenon DEF Scans

\* Two pieces of the wire.
Glue(a, item) == a \o Symbols[item]

\* h is the wire as the items of script are put on it.
Wired(script, h) ==
    /\ h[0] = <<>> /\ Wire(script) = h[Len(script)]
    /\ \A k \in 0 .. Len(script) : h[k] \in Seq(Symbol)
    /\ \A k \in 1 .. Len(script) : h[k] = Glue(h[k - 1], script[k])

\* Each item is a few bytes.
LEMMA SymbolsType ==
    ASSUME NEW item \in DOMAIN Symbols
    PROVE  Symbols[item] \in Seq(Symbol) /\ Len(Symbols[item]) \in 1 .. 5
<1>1. item \in {"text", "bell", "cstart", "cend", "title", "csi"}
  BY DEF Symbols
<1>2. CASE item = "text"
  BY <1>2 DEF Symbols, Symbol
<1>3. CASE item = "bell"
  BY <1>3 DEF Symbols, Symbol
<1>4. CASE item = "cstart"
  BY <1>4 DEF Symbols, Symbol
<1>5. CASE item = "cend"
  BY <1>5 DEF Symbols, Symbol
<1>6. CASE item = "title"
  BY <1>6 DEF Symbols, Symbol
<1>7. CASE item = "csi"
  BY <1>7 DEF Symbols, Symbol
<1>. QED BY <1>1, <1>2, <1>3, <1>4, <1>5, <1>6, <1>7

\* What is on the wire stays symbols.
LEMMA GlueType ==
    ASSUME NEW a \in Seq(Symbol), NEW item \in DOMAIN Symbols
    PROVE  /\ Glue(a, item) \in Seq(Symbol)
           /\ Len(Glue(a, item)) = Len(a) + Len(Symbols[item])
           /\ \A i \in 1 .. Len(a) : Glue(a, item)[i] = a[i]
           /\ \A i \in 1 .. Len(Symbols[item]) : Glue(a, item)[Len(a) + i] = Symbols[item][i]
<1>1. PICK q \in Seq(Symbol) : q = Symbols[item]
  BY SymbolsType
<1>. QED BY <1>1, ConcatProperties DEF Glue

\* The wire grows item by item.
LEMMA WireGrows ==
    ASSUME NEW p \in Seq(DOMAIN Symbols)
    PROVE  \E h : Wired(p, h)
<1>. DEFINE M == Seq(Symbol)
            m == <<>>
<1>1. PICK n \in Nat : n = Len(p) /\ DOMAIN p = 1 .. n
  OBVIOUS
<1>2. PICK F : F = [z \in M \X (1 .. n) |-> Glue(z[1], p[z[2]])]
  OBVIOUS
<1>3. \A x \in M, k \in 1 .. n : Glue(x, p[k]) \in M
  <2>1. SUFFICES ASSUME NEW x \in M, NEW k \in 1 .. n PROVE Glue(x, p[k]) \in M
    OBVIOUS
  <2>2. p[k] \in DOMAIN Symbols
    BY <1>1, ElementOfSeq
  <2>. QED BY <2>2, GlueType
<1>4. F \in [M \X (1 .. n) -> M]
  BY <1>2, <1>3
<1>5. \A x \in M, k \in 1 .. n : F[<<x, k>>] = Glue(x, p[k])
  BY <1>2
<1>6. m \in M
  OBVIOUS
<1>7. PICK t, h : Folds(n, M, F, m, t, h)
  <2>. HIDE DEF M
  <2>. QED BY <1>4, <1>6, FoldGrows
<1>8. t = [s \in SUBSET DOMAIN p |-> IF s = {} THEN m ELSE Glue(t[s \ {Max(s)}], p[Max(s)])]
  <2>1. t = [s \in SUBSET (1 .. n) |-> FoldStep(F, m, t, s)]
    BY <1>7 DEF Folds
  <2>2. ASSUME NEW s \in SUBSET (1 .. n)
        PROVE  FoldStep(F, m, t, s) = IF s = {} THEN m ELSE Glue(t[s \ {Max(s)}], p[Max(s)])
    <3>1. CASE s = {}
      BY <3>1 DEF FoldStep
    <3>2. CASE s # {}
      <4>1. Max(s) \in 1 .. n
        BY <3>2, MaxIn
      <4>2. t[s \ {Max(s)}] \in M
        <5>1. s \ {Max(s)} \in SUBSET (1 .. n)
          OBVIOUS
        <5>. HIDE DEF M
        <5>. QED BY <5>1, <1>7 DEF Folds
      <4>3. F[<<t[s \ {Max(s)}], Max(s)>>] = Glue(t[s \ {Max(s)}], p[Max(s)])
        <5>. HIDE DEF M
        <5>. QED BY <4>1, <4>2, <1>5, Zenon
      <4>. QED BY <3>2, <4>3, Zenon DEF FoldStep
    <3>. QED BY <3>1, <3>2
  <2>. QED BY <1>1, <2>1, <2>2
<1>. DEFINE iter[s \in SUBSET DOMAIN p] == IF s = {} THEN m ELSE Glue(iter[s \ {Max(s)}], p[Max(s)])
<1>9. Wire(p) = iter[DOMAIN p]
  BY DEF Wire, FoldLeft, MapThenFoldSet, Glue
<1>10. iter = [s \in SUBSET DOMAIN p |-> IF s = {} THEN m ELSE Glue(iter[s \ {Max(s)}], p[Max(s)])]
  BY <1>8, Zenon
<1>. HIDE DEF iter
<1>11. \A s \in SUBSET (1 .. n) : t[s] = iter[s]
  <2>1. ASSUME NEW s \in SUBSET (1 .. n), s # {} => t[s \ {Max(s)}] = iter[s \ {Max(s)}]
        PROVE  t[s] = iter[s]
    <3>1. /\ t[s] = IF s = {} THEN m ELSE Glue(t[s \ {Max(s)}], p[Max(s)])
          /\ iter[s] = IF s = {} THEN m ELSE Glue(iter[s \ {Max(s)}], p[Max(s)])
      BY <1>1, <1>8, <1>10
    <3>. QED BY <2>1, <3>1
  <2>2. \A s \in SUBSET (1 .. n) : SameStep(t, iter, s)
    BY <2>1 DEF SameStep
  <2>. QED BY <2>2, FoldUnique, Zenon
<1>12. Wire(p) = h[n]
  <2>1. 1 .. n \in SUBSET (1 .. n)
    OBVIOUS
  <2>2. h[n] = t[1 .. n]
    BY <1>7 DEF Folds
  <2>. QED BY <1>1, <1>9, <1>11, <2>1, <2>2, Zenon
<1>13. \A k \in 1 .. n : h[k] = Glue(h[k - 1], p[k])
  <2>1. SUFFICES ASSUME NEW k \in 1 .. n PROVE h[k] = Glue(h[k - 1], p[k])
    OBVIOUS
  <2>2. k - 1 \in 0 .. n
    OBVIOUS
  <2>. HIDE DEF M
  <2>3. h[k] = F[<<h[k - 1], k>>] /\ h[k - 1] \in M
    BY <2>2, <1>7 DEF Folds
  <2>. QED BY <2>3, <1>5, Zenon
<1>14. h[0] = m /\ \A k \in 0 .. n : h[k] \in M
  <2>. HIDE DEF M
  <2>. QED BY <1>7 DEF Folds
<1>. QED BY <1>1, <1>12, <1>13, <1>14, Zenon DEF Wired

\* A script's output is at most five bytes an item.
LEMMA WireLength ==
    ASSUME NEW p \in Seq(DOMAIN Symbols)
    PROVE  Wire(p) \in Seq(Symbol) /\ Len(Wire(p)) <= 5 * Len(p)
<1>1. PICK h : Wired(p, h)
  BY WireGrows
<1>2. PICK n \in Nat : n = Len(p)
  OBVIOUS
<1>3. /\ h[0] = <<>> /\ Wire(p) = h[n] /\ \A k \in 0 .. n : h[k] \in Seq(Symbol)
      /\ \A k \in 1 .. n : h[k] = Glue(h[k - 1], p[k])
  BY <1>1, <1>2 DEF Wired
<1>. DEFINE Bad == {k \in Nat : k <= n /\ ~ (Len(h[k]) <= 5 * k)}
<1>4. Bad = {}
  <2>1. SUFFICES ASSUME Bad # {} PROVE FALSE
    OBVIOUS
  <2>2. PICK m \in Bad : \A k \in Bad : m <= k
    <3>1. Bad \subseteq Nat /\ Bad # {}
      BY <2>1
    <3>. HIDE DEF Bad
    <3>. QED BY <3>1, Least
  <2>3. m \in Nat /\ m <= n /\ ~ (Len(h[m]) <= 5 * m)
    OBVIOUS
  <2>4. m # 0
    BY <2>3, <1>3
  <2>5. PICK k \in Nat : m = k + 1 /\ m - 1 = k /\ ~ (m <= k)
    BY <2>3, <2>4
  <2>6. k \notin Bad
    BY <2>2, <2>5, Zenon
  <2>7. Len(h[k]) <= 5 * k /\ h[k] \in Seq(Symbol) /\ p[m] \in DOMAIN Symbols
    BY <2>3, <2>5, <2>6, <1>2, <1>3, ElementOfSeq
  <2>8. h[m] = Glue(h[k], p[m])
    BY <2>3, <2>4, <2>5, <1>3
  <2>9. Len(Symbols[p[m]]) \in 1 .. 5
    BY <2>7, SymbolsType
  <2>10. Len(h[m]) = Len(h[k]) + Len(Symbols[p[m]])
    <3>1. PICK x \in Seq(Symbol), item \in DOMAIN Symbols : x = h[k] /\ item = p[m]
      BY <2>7, Zenon
    <3>2. Len(Glue(x, item)) = Len(x) + Len(Symbols[item])
      BY GlueType
    <3>. QED BY <3>1, <3>2, <2>8, Zenon
  <2>11. PICK a \in Nat, b \in 1 .. 5 : a = Len(h[k]) /\ b = Len(Symbols[p[m]])
    BY <2>7, <2>9
  <2>12. Len(h[m]) = a + b /\ a <= 5 * k
    BY <2>7, <2>10, <2>11, Zenon
  <2>13. a + b <= 5 * m
    BY <2>5, <2>12
  <2>. QED BY <2>3, <2>12, <2>13
<1>5. n \notin Bad
  BY <1>4
<1>. QED BY <1>2, <1>3, <1>5

\* A call of Feed moves the monitor on by what it is fed.
LEMMA FeedType ==
    ASSUME NEW m \in Mon, InOrder(m), NEW p \in Seq(Symbol), NEW t \in Nat
    PROVE  /\ Feed(m, p, t) \in Mon /\ InOrder(Feed(m, p, t))
           /\ Feed(m, p, t).streamPos = m.streamPos + Len(p)
<1>1. PICK w : w = Wake(m, t)
  OBVIOUS
<1>2. w \in Mon /\ InOrder(w) /\ w.streamPos = m.streamPos
  <2>1. PICK o : o = IF m.started /\ t - m.lastOutput >= SilenceAfter
                     THEN <<[type |-> "activity", start |-> 0, end |-> 0]>> ELSE <<>>
    OBVIOUS
  <2>2. o \in Seq(EventRec)
    <3>1. PICK e \in EventRec : e = [type |-> "activity", start |-> 0, end |-> 0]
      BY DEF EventRec, Kinds
    <3>. QED BY <2>1, <3>1
  <2>3. PICK x, y, z : x = WithOut(m, o) /\ y = [x EXCEPT !.started = TRUE] /\ z = [y EXCEPT !.lastOutput = t]
    OBVIOUS
  <2>4. w = [z EXCEPT !.silent = FALSE]
    BY <1>1, <2>1, <2>3 DEF Wake, WithOut
  <2>5. x \in Mon /\ InOrder(x) /\ x.streamPos = m.streamPos
    BY <2>2, <2>3 DEF Mon, InOrder, WithOut
  <2>6. y \in Mon /\ InOrder(y) /\ y.streamPos = m.streamPos
    BY <2>3, <2>5 DEF Mon, InOrder
  <2>7. z \in Mon /\ InOrder(z) /\ z.streamPos = m.streamPos
    BY <2>3, <2>6 DEF Mon, InOrder
  <2>. QED BY <2>4, <2>7 DEF Mon, InOrder
<1>3. PICK h : Scans(w, p, h)
  BY <1>2, ScansGrow
<1>4. PICK n \in Nat : n = Len(p)
  OBVIOUS
<1>5. /\ h[0] = w /\ ScanAll(w, p) = h[n]
      /\ \A k \in 0 .. n : h[k] \in Mon /\ InOrder(h[k])
      /\ \A k \in 1 .. n : h[k] = ScanByte(h[k - 1], p[k])
  BY <1>3, <1>4 DEF Scans
<1>6. PICK s \in Nat : s = m.streamPos
  BY DEF Mon
<1>. DEFINE Bad == {k \in Nat : k <= n /\ h[k].streamPos # s + k}
<1>7. Bad = {}
  <2>1. SUFFICES ASSUME Bad # {} PROVE FALSE
    OBVIOUS
  <2>2. PICK j \in Bad : \A k \in Bad : j <= k
    <3>1. Bad \subseteq Nat /\ Bad # {}
      BY <2>1
    <3>. HIDE DEF Bad
    <3>. QED BY <3>1, Least
  <2>3. j \in Nat /\ j <= n /\ h[j].streamPos # s + j
    OBVIOUS
  <2>4. j # 0
    BY <2>3, <1>2, <1>5, <1>6
  <2>5. PICK k \in Nat : j = k + 1 /\ j - 1 = k /\ ~ (j <= k)
    BY <2>3, <2>4
  <2>6. k \notin Bad
    BY <2>2, <2>5, Zenon
  <2>7. h[k].streamPos = s + k /\ h[k] \in Mon /\ InOrder(h[k]) /\ p[j] \in Symbol
    BY <2>3, <2>5, <2>6, <1>4, <1>5, ElementOfSeq
  <2>8. h[j] = ScanByte(h[k], p[j])
    BY <2>3, <2>4, <2>5, <1>5
  <2>9. h[j].streamPos = h[k].streamPos + 1
    BY <2>7, <2>8, ScanType
  <2>. QED BY <2>3, <2>5, <2>7, <2>9
<1>8. n \notin Bad
  BY <1>7
<1>9. Feed(m, p, t) = ScanAll(w, p)
  BY <1>1 DEF Feed, ScanAll, FoldLeft
<1>10. h[n] \in Mon /\ InOrder(h[n]) /\ h[n].streamPos = s + n
  BY <1>5, <1>8
<1>. QED BY <1>4, <1>5, <1>6, <1>9, <1>10, Zenon

-----------------------------------------------------------------------------
(* Positions, and the monitor beside the stream. *)

\* The positions from a up to b.
LEMMA PositionsType ==
    ASSUME NEW a \in Nat, NEW b \in Nat, a <= b
    PROVE  /\ Positions(a, b) \in Seq(Nat) /\ Len(Positions(a, b)) = b - a
           /\ \A k \in 1 .. b - a : Positions(a, b)[k] = a + k - 1
<1>1. Greater(b, a) - a = b - a /\ b - a \in Nat
  BY DEF Greater
<1>2. Positions(a, b) = [k \in 1 .. b - a |-> a + k - 1]
  BY <1>1 DEF Positions
<1>3. \A k \in 1 .. b - a : a + k - 1 \in Nat
  OBVIOUS
<1>. QED BY <1>1, <1>2, <1>3

\* Sequences of numbers with the same elements are the same.
LEMMA SameNumbers ==
    ASSUME NEW s \in Seq(Nat), NEW t \in Seq(Nat), Len(s) = Len(t),
           \A k \in 1 .. Len(s) : s[k] = t[k]
    PROVE  s = t
BY SeqEqual

\* Adjacent runs of positions make one.
LEMMA PositionsJoin ==
    ASSUME NEW a \in Nat, NEW b \in Nat, NEW c \in Nat, a <= b, b <= c
    PROVE  Positions(a, b) \o Positions(b, c) = Positions(a, c)
<1>1. PICK s, t, w : s = Positions(a, b) /\ t = Positions(b, c) /\ w = Positions(a, c)
  OBVIOUS
<1>2. /\ s \in Seq(Nat) /\ Len(s) = b - a /\ \A k \in 1 .. b - a : s[k] = a + k - 1
      /\ t \in Seq(Nat) /\ Len(t) = c - b /\ \A k \in 1 .. c - b : t[k] = b + k - 1
  BY <1>1, PositionsType
<1>3. w \in Seq(Nat) /\ Len(w) = c - a /\ \A k \in 1 .. c - a : w[k] = a + k - 1
  <2>1. a <= c
    OBVIOUS
  <2>. QED BY <1>1, <2>1, PositionsType
<1>4. PICK u : u = s \o t
  OBVIOUS
<1>5. /\ u \in Seq(Nat) /\ Len(u) = c - a /\ \A k \in 1 .. b - a : u[k] = s[k]
      /\ \A k \in 1 .. c - b : u[(b - a) + k] = t[k]
  <2>1. PICK l \in Nat, r \in Nat : l = b - a /\ r = c - b /\ l + r = c - a /\ Len(s) = l /\ Len(t) = r
    BY <1>2
  <2>2. /\ s \o t \in Seq(Nat) /\ Len(s \o t) = l + r /\ \A k \in 1 .. l : (s \o t)[k] = s[k]
        /\ \A k \in 1 .. r : (s \o t)[l + k] = t[k]
    <3>1. /\ s \o t \in Seq(Nat) /\ Len(s \o t) = Len(s) + Len(t)
          /\ \A k \in 1 .. Len(s) : (s \o t)[k] = s[k]
          /\ \A k \in 1 .. Len(t) : (s \o t)[Len(s) + k] = t[k]
      <4>1. s \in Seq(Nat) /\ t \in Seq(Nat)
        BY <1>2
      <4>. QED BY <4>1, ConcatProperties
    <3>. QED BY <2>1, <3>1, Zenon
  <2>. QED BY <1>4, <2>1, <2>2, Zenon
<1>6. ASSUME NEW k \in 1 .. c - a PROVE u[k] = w[k]
  <2>1. CASE k <= b - a
    BY <1>2, <1>3, <1>5, <2>1
  <2>2. CASE ~ (k <= b - a)
    <3>1. PICK j \in 1 .. c - b : k = (b - a) + j /\ b + j - 1 = a + k - 1
      <4>1. k - (b - a) \in 1 .. c - b /\ k = (b - a) + (k - (b - a))
        BY <2>2
      <4>. QED BY <4>1
    <3>. QED BY <1>2, <1>3, <1>5, <3>1
  <2>. QED BY <2>1, <2>2
<1>7. u = w
  BY <1>3, <1>5, <1>6, SameNumbers
<1>. QED BY <1>1, <1>4, <1>7

\* The beginning of a run of positions.
LEMMA PositionsCut ==
    ASSUME NEW a \in Nat, NEW b \in Nat, NEW c \in Nat, a <= b, b <= c
    PROVE  SubSeq(Positions(a, c), 1, b - a) = Positions(a, b)
<1>1. PICK s, w : s = Positions(a, b) /\ w = Positions(a, c)
  OBVIOUS
<1>2. s \in Seq(Nat) /\ Len(s) = b - a /\ \A k \in 1 .. b - a : s[k] = a + k - 1
  BY <1>1, PositionsType
<1>3. w \in Seq(Nat) /\ Len(w) = c - a /\ \A k \in 1 .. c - a : w[k] = a + k - 1
  <2>1. a <= c
    OBVIOUS
  <2>. QED BY <1>1, <2>1, PositionsType
<1>4a. PICK n \in Nat : n = b - a /\ n <= Len(w)
  BY <1>3
<1>4. PICK u : u = SubSeq(w, 1, n) /\ n = b - a /\ n \in Nat /\ n <= Len(w)
  BY <1>4a
<1>5. u \in Seq(Nat) /\ Len(u) = n /\ \A k \in 1 .. n : u[k] = w[k]
  <2>1. \A k \in 1 .. n : w[k] \in Nat
    BY <1>3, <1>4
  <2>2. /\ SubSeq(w, 1, n) \in Seq(Nat)
        /\ Len(SubSeq(w, 1, n)) = IF 1 <= n THEN n - 1 + 1 ELSE 0
        /\ \A i \in 1 .. n - 1 + 1 : SubSeq(w, 1, n)[i] = w[1 + i - 1]
    BY <2>1, <1>4, SubSeqProperties
  <2>. QED BY <2>2, <1>4
<1>6. \A k \in 1 .. n : u[k] = s[k]
  BY <1>2, <1>3, <1>4, <1>5
<1>7. u = s
  BY <1>2, <1>4, <1>5, <1>6, SameNumbers
<1>. QED BY <1>1, <1>4, <1>7

\* The output, the clock, and the monitor at the end of what was fed to it.
TapOK ==
    /\ sc \in Scenarios /\ bytes \in Seq(Symbol) /\ Len(bytes) < Wide
    /\ pos \in 0 .. Len(bytes) /\ now \in Nat
    /\ mon \in Mon /\ InOrder(mon) /\ mon.streamPos = pos

\* Forgetting the events of a call leaves a monitor that is where it was.
LEMMA Drained ==
    ASSUME NEW m \in Mon, InOrder(m)
    PROVE  /\ [m EXCEPT !.out = <<>>] \in Mon /\ InOrder([m EXCEPT !.out = <<>>])
           /\ [m EXCEPT !.out = <<>>].streamPos = m.streamPos
<1>1. PICK q : q = [m EXCEPT !.out = <<>>]
  OBVIOUS
<1>2. q \in Mon /\ InOrder(q) /\ q.streamPos = m.streamPos
  <2>0. <<>> \in Seq(EventRec)
    OBVIOUS
  <2>1. PICK o \in Seq(EventRec) : o = <<>>
    BY <2>0, Zenon
  <2>2. q = WithOut(m, o)
    BY <1>1, <2>1 DEF WithOut
  <2>. QED BY <2>2 DEF Mon, InOrder, WithOut
<1>. QED BY <1>1, <1>2

\* A new monitor.
LEMMA NewMonitorType ==
    /\ NewMonitor \in Mon /\ InOrder(NewMonitor) /\ NewMonitor.streamPos = 0
    /\ \A p \in Nat, t \in Nat : /\ SetStreamPos(p, t) \in Mon /\ InOrder(SetStreamPos(p, t))
                                 /\ SetStreamPos(p, t).streamPos = p
<1>1. NewMonitor \in Mon /\ InOrder(NewMonitor) /\ NewMonitor.streamPos = 0
  BY DEF NewMonitor, Mon, InOrder
<1>2. ASSUME NEW p \in Nat, NEW t \in Nat
      PROVE  SetStreamPos(p, t) \in Mon /\ InOrder(SetStreamPos(p, t)) /\ SetStreamPos(p, t).streamPos = p
  <2>1. PICK x : x = [NewMonitor EXCEPT !.streamPos = p]
    OBVIOUS
  <2>2. PICK y : y = [x EXCEPT !.started = TRUE]
    OBVIOUS
  <2>3. SetStreamPos(p, t) = [y EXCEPT !.lastOutput = t]
    BY <2>1, <2>2 DEF SetStreamPos
  <2>4. NewMonitor.cmdStart = 0 /\ NewMonitor.lastStart = 0 /\ NewMonitor.lastEnd = 0
    BY DEF NewMonitor
  <2>5. x \in Mon /\ InOrder(x) /\ x.streamPos = p
    BY <1>1, <2>1, <2>4 DEF Mon, InOrder
  <2>6. y \in Mon /\ InOrder(y) /\ y.streamPos = p
    BY <2>2, <2>5 DEF Mon, InOrder
  <2>. QED BY <2>3, <2>6 DEF Mon, InOrder
<1>. QED BY <1>1, <1>2

\* At the beginning nothing has been output.
LEMMA TapOKInit == TapInit => TapOK
<1>. SUFFICES ASSUME TapInit PROVE TapOK
  OBVIOUS
<1>1. sc \in Scenarios /\ bytes = Wire(sc.script) /\ pos = 0 /\ now = 0 /\ mon = NewMonitor
  BY DEF TapInit
<1>2. sc.script \in Seq(DOMAIN Symbols) /\ 5 * Len(sc.script) < Wide
  BY <1>1, ScenariosAssumption
<1>3. bytes \in Seq(Symbol) /\ Len(bytes) <= 5 * Len(sc.script)
  BY <1>1, <1>2, WireLength
<1>4. Len(bytes) < Wide
  <2>1. PICK a \in Nat, b \in Nat : a = Len(bytes) /\ b = Len(sc.script)
    BY <1>2, <1>3
  <2>2. a <= 5 * b /\ 5 * b < Wide
    BY <2>1, <1>2, <1>3, Zenon
  <2>3. a < Wide
    BY <2>2 DEF Wide
  <2>. QED BY <2>1, <2>3, Zenon
<1>. QED BY <1>1, <1>3, <1>4, NewMonitorType DEF TapOK

\* No step disturbs them.
LEMMA TapOKNext ==
    ASSUME TapOK, [TapNext]_tapVars
    PROVE  TapOK'
<1>0. /\ sc \in Scenarios /\ bytes \in Seq(Symbol) /\ Len(bytes) < Wide
      /\ pos \in Nat /\ pos <= Len(bytes) /\ Len(bytes) \in Nat /\ now \in Nat
      /\ mon \in Mon /\ InOrder(mon) /\ mon.streamPos = pos
  BY DEF TapOK
<1>. DEFINE MonKept == mon' \in Mon /\ InOrder(mon)' /\ mon'.streamPos = pos'
<1>1. ASSUME UNCHANGED <<sc, bytes>>, pos' \in 0 .. Len(bytes), now' \in Nat,
             mon' \in Mon, InOrder(mon'), mon'.streamPos = pos'
      PROVE  TapOK'
  BY <1>0, <1>1 DEF TapOK
<1>2. ASSUME UNCHANGED <<sc, bytes, pos, mon>>, now' \in Nat PROVE TapOK'
  BY <1>0, <1>1, <1>2
<1>3. ASSUME NEW n \in 1 .. Len(bytes), PumpOutput(n) PROVE TapOK'
  <2>1. n \in Nat /\ pos + n <= Len(bytes) /\ pos' = pos + n /\ UNCHANGED <<sc, bytes, now>>
    BY <1>0, <1>3 DEF PumpOutput
  <2>2. PICK p : p = SubSeq(bytes, pos + 1, pos + n)
    OBVIOUS
  <2>3. p \in Seq(Symbol) /\ Len(p) = n
    <3>1. \A i \in pos + 1 .. pos + n : bytes[i] \in Symbol
      BY <1>0, <2>1, ElementOfSeq
    <3>2. /\ SubSeq(bytes, pos + 1, pos + n) \in Seq(Symbol)
          /\ Len(SubSeq(bytes, pos + 1, pos + n)) = IF pos + 1 <= pos + n THEN pos + n - (pos + 1) + 1 ELSE 0
      BY <3>1, <1>0, <2>1, SubSeqProperties
    <3>. QED BY <3>2, <2>1, <2>2, <1>0
  <2>4. PICK f : f = Feed(mon, p, now)
    OBVIOUS
  <2>5. f \in Mon /\ InOrder(f) /\ f.streamPos = pos + n
    BY <1>0, <2>3, <2>4, FeedType
  <2>6. mon' = [f EXCEPT !.out = <<>>]
    BY <1>3, <2>2, <2>4 DEF PumpOutput
  <2>7. mon' \in Mon /\ InOrder(mon') /\ mon'.streamPos = pos + n
    BY <2>5, <2>6, Drained
  <2>. QED BY <1>0, <1>1, <2>1, <2>7
<1>4. CASE HousekeepingTick
  <2>1. PICK f : f = Tick(mon, now)
    OBVIOUS
  <2>2. f \in Mon /\ InOrder(f) /\ f.streamPos = pos
    <3>1. PICK q : q = [mon EXCEPT !.out = <<>>]
      OBVIOUS
    <3>2. q \in Mon /\ InOrder(q) /\ q.streamPos = pos
      BY <1>0, <3>1, Drained
    <3>3. CASE mon.started /\ ~mon.silent /\ now - mon.lastOutput >= SilenceAfter
      <4>1. PICK x : x = [mon EXCEPT !.silent = TRUE]
        OBVIOUS
      <4>2. PICK y : y = [x EXCEPT !.out = <<>>]
        OBVIOUS
      <4>3. x \in Mon /\ InOrder(x) /\ x.streamPos = pos
        BY <1>0, <4>1 DEF Mon, InOrder
      <4>4. y \in Mon /\ InOrder(y) /\ y.streamPos = pos
        BY <4>2, <4>3, Drained
      <4>5. f = Emitting(y, "silence", mon.streamPos, 0)
        BY <2>1, <3>3, <4>1, <4>2 DEF Tick
      <4>6. PICK ty \in Kinds : ty = "silence"
        BY DEF Kinds
      <4>7. NewOut(y, ty, pos, 0) \in Seq(EventRec) /\ Emitting(y, ty, pos, 0) = WithOut(y, NewOut(y, ty, pos, 0))
        BY <4>4, <1>0, EmittingType
      <4>8. PICK o \in Seq(EventRec) : f = WithOut(y, o)
        BY <4>5, <4>6, <4>7, <1>0, Zenon
      <4>. QED BY <4>4, <4>8 DEF Mon, InOrder, WithOut
    <3>4. CASE ~ (mon.started /\ ~mon.silent /\ now - mon.lastOutput >= SilenceAfter)
      BY <2>1, <3>1, <3>2, <3>4 DEF Tick
    <3>. QED BY <3>3, <3>4
  <2>3. mon' = [f EXCEPT !.out = <<>>] /\ UNCHANGED <<sc, bytes, pos, now>>
    BY <1>4, <2>1 DEF HousekeepingTick
  <2>4. mon' \in Mon /\ InOrder(mon') /\ mon'.streamPos = pos
    BY <2>2, <2>3, Drained
  <2>. QED BY <1>0, <1>1, <2>3, <2>4
<1>5. CASE TakenOver
  <2>1. mon' = SetStreamPos(pos, now) /\ UNCHANGED <<sc, bytes, pos, now>>
    BY <1>5 DEF TakenOver
  <2>2. mon' \in Mon /\ InOrder(mon') /\ mon'.streamPos = pos
    BY <1>0, <2>1, NewMonitorType
  <2>. QED BY <1>0, <1>1, <2>1, <2>2
<1>6. CASE Advance
  BY <1>0, <1>2, <1>6 DEF Advance
<1>7. CASE EmitNext \/ Finish \/ EmitOther \/ Crash \/ TailLog \/ TailAttach \/ UNCHANGED tapVars
  BY <1>0, <1>2, <1>7 DEF EmitNext, Finish, EmitOther, Crash, TailLog, TailAttach, tapVars, tvars
<1>8. CASE life # "crashed" /\ (\E c \in sc.conns : BusNext(c)) /\ UNCHANGED tvars
  BY <1>0, <1>2, <1>8 DEF tvars
<1>. QED BY <1>3, <1>4, <1>5, <1>6, <1>7, <1>8 DEF TapNext, PumpStep1, Terminated

\* The output and the monitor keep their types, and the monitor has seen every byte of
\* the output and no other (readPump's Feed after ring.Write).
LEMMA TapOKAlways == TapSpec => []TapOK
<1>. QED BY TapOKInit, TapOKNext, PTL DEF TapSpec

-----------------------------------------------------------------------------
(* REPLAY_COMMAND. *)

\* A difference that does not wrap.
LEMMA NoWrap ==
    ASSUME NEW a \in Nat, NEW b \in Nat, b <= a, a < Wide
    PROVE  USub(a, b) = a - b
<1>1. PICK d \in Nat : d = a - b /\ d < Wide /\ a + Wide - b = d + Wide
  BY DEF Wide
<1>2. (d + Wide) % Wide = d
  BY <1>1 DEF Wide
<1>. QED BY <1>1, <1>2 DEF USub

\* What the ring still has begins no later than the output ends.
LEMMA OldestType ==
    ASSUME pos \in Nat
    PROVE  OldestKept \in Nat /\ OldestKept <= pos
BY RingCapAssumption DEF OldestKept, Greater

\* The reply is the part of the command between its start, or the oldest byte, and
\* its end.
LEMMA CommandCut ==
    ASSUME TapOK, mon.lastEnd >= OldestKept
    PROVE  /\ ReplayCommand(mon).data = Positions(Greater(mon.lastStart, OldestKept), mon.lastEnd)
           /\ ReplayCommand(mon).truncated <=> mon.lastStart < OldestKept
<1>1. PICK s \in Nat, e \in Nat, q \in Nat :
         s = mon.lastStart /\ e = mon.lastEnd /\ q = pos /\ s <= e /\ e <= q /\ e < Wide
  BY DEF TapOK, Mon, InOrder, Wide
<1>2. PICK o \in Nat : o = OldestKept /\ o <= q /\ o <= e
  BY <1>1, OldestType
<1>3. PICK f \in Nat : f = Greater(s, o) /\ f <= e /\ (s >= q => f = s)
  BY <1>1, <1>2 DEF Greater
<1>4. PICK data : data = Positions(f, q) /\ Len(data) = q - f
  <2>1. f <= q
    BY <1>1, <1>3
  <2>. QED BY <2>1, PositionsType
<1>5. (IF s >= q THEN s ELSE Greater(s, o)) = f
  BY <1>3
<1>6. (IF e > f + Len(data) THEN f + Len(data) ELSE e) = e
  BY <1>1, <1>3, <1>4
<1>7. USub(e, f) = e - f
  BY <1>1, <1>3, NoWrap, Zenon
<1>8. (IF Len(data) > e - f THEN SubSeq(data, 1, e - f) ELSE data) = Positions(f, e)
  <2>1. SubSeq(data, 1, e - f) = Positions(f, e)
    <3>1. f <= e /\ e <= q
      BY <1>1, <1>3
    <3>2. SubSeq(Positions(f, q), 1, e - f) = Positions(f, e)
      BY <3>1, PositionsCut
    <3>. QED BY <3>2, <1>4, Zenon
  <2>2. Len(data) > e - f \/ e = q
    BY <1>1, <1>3, <1>4
  <2>. QED BY <2>1, <2>2, <1>4
<1>9. ReplayCommand(mon) = [start |-> f, end |-> e, truncated |-> s < o, data |-> Positions(f, e)]
  BY <1>1, <1>2, <1>4, <1>5, <1>6, <1>7, <1>8 DEF ReplayCommand
<1>10. ReplayCommand(mon).data = Positions(f, e)
  BY <1>9
<1>11. ReplayCommand(mon).truncated <=> s < o
  <2>1. PICK b : b = (s < o)
    OBVIOUS
  <2>2. ReplayCommand(mon) = [start |-> f, end |-> e, truncated |-> b, data |-> Positions(f, e)]
    BY <1>9, <2>1, Zenon
  <2>3. ReplayCommand(mon).truncated = b
    BY <2>2
  <2>. QED BY <2>1, <2>3, Zenon
<1>. QED BY <1>1, <1>2, <1>3, <1>10, <1>11, Zenon

-----------------------------------------------------------------------------
(* The durable log: what is written. *)

Cell   == [cell : {"header", "head", "byte"}, val : Nat]
LogSet == [file : Seq(Cell), buf : Seq(Cell), open : BOOLEAN, broken : BOOLEAN]

\* A log whose buffer holds no more than it can.
LogOK(l) == l \in LogSet /\ Len(l.buf) <= BufSize

\* What has been written to the log, on the file or not.
Written(l) == l.file \o l.buf

\* The log l with this file and buffer.
WithCells(l, f, b) == [file |-> f, buf |-> b, open |-> l.open, broken |-> l.broken]

\* A log is its four fields.
LEMMA LogFields ==
    ASSUME NEW l \in LogSet
    PROVE  /\ l.file \in Seq(Cell) /\ l.buf \in Seq(Cell) /\ l.open \in BOOLEAN /\ l.broken \in BOOLEAN
           /\ l = WithCells(l, l.file, l.buf)
BY DEF LogSet, WithCells

\* Concatenation, element by element.
LEMMA Joined ==
    ASSUME NEW s \in Seq(Cell), NEW t \in Seq(Cell)
    PROVE  /\ s \o t \in Seq(Cell) /\ Len(s \o t) = Len(s) + Len(t)
           /\ \A k \in 1 .. Len(s) : (s \o t)[k] = s[k]
           /\ \A k \in 1 .. Len(t) : (s \o t)[Len(s) + k] = t[k]
BY ConcatProperties

\* Concatenation is associative, and the empty sequence adds nothing.
LEMMA JoinedMore ==
    ASSUME NEW s \in Seq(Cell), NEW t \in Seq(Cell), NEW u \in Seq(Cell)
    PROVE  (s \o t) \o u = s \o (t \o u) /\ s \o <<>> = s /\ <<>> \o s = s
BY ConcatAssociative, ConcatEmptySeq

\* Concatenation is associative: this alone, for provers with much else to do.
LEMMA JoinedThree ==
    ASSUME NEW s \in Seq(Cell), NEW t \in Seq(Cell), NEW u \in Seq(Cell)
    PROVE  (s \o t) \o u = s \o (t \o u)
BY ConcatAssociative

\* The same of any sequences.
LEMMA ThreePieces ==
    \A X : \A a, b, c \in Seq(X) : (a \o b) \o c = a \o (b \o c)
BY ConcatAssociative

\* An element appended to two sequences is appended to the second.
AppendsAtEnd(a, b, e) == Append(a \o b, e) = a \o Append(b, e)

\* This is so, whatever the sequences are of.
LEMMA AppendMore ==
    \A X : \A a, b \in Seq(X), e \in X : AppendsAtEnd(a, b, e)
<1> SUFFICES ASSUME NEW X, NEW a \in Seq(X), NEW b \in Seq(X), NEW e \in X
             PROVE  Append(a \o b, e) = a \o Append(b, e)
  BY DEF AppendsAtEnd
<1>1. a \o b \in Seq(X) /\ <<e>> \in Seq(X)
  BY ONLY a \in Seq(X), b \in Seq(X), e \in X, ConcatProperties
<1>2. PICK w \in Seq(X) : w = a \o b
  BY <1>1
<1>3. PICK d \in Seq(X) : d = <<e>>
  BY <1>1
<1>4. Append(w, e) = w \o d /\ Append(b, e) = b \o d
  BY <1>3, AppendIsConcat
<1>5. (a \o b) \o d = a \o (b \o d)
  BY ONLY a \in Seq(X), b \in Seq(X), d \in Seq(X), ThreePieces
<1> QED BY ONLY <1>2, <1>4, <1>5, Zenon

\* A beginning and the rest make the whole.
LEMMA CutInTwo ==
    ASSUME NEW s \in Seq(Cell), NEW m \in Nat, m <= Len(s)
    PROVE  /\ SubSeq(s, 1, m) \in Seq(Cell) /\ Len(SubSeq(s, 1, m)) = m
           /\ \A k \in 1 .. m : SubSeq(s, 1, m)[k] = s[k]
           /\ SubSeq(s, m + 1, Len(s)) \in Seq(Cell) /\ Len(SubSeq(s, m + 1, Len(s))) = Len(s) - m
           /\ SubSeq(s, 1, m) \o SubSeq(s, m + 1, Len(s)) = s
<1>1. /\ SubSeq(s, 1, m) \in Seq(Cell)
      /\ Len(SubSeq(s, 1, m)) = IF 1 <= m THEN m - 1 + 1 ELSE 0
      /\ \A i \in 1 .. m - 1 + 1 : SubSeq(s, 1, m)[i] = s[1 + i - 1]
  <2>1. \A i \in 1 .. m : s[i] \in Cell
    BY ElementOfSeq
  <2>. QED BY <2>1, SubSeqProperties
<1>2. PICK n \in Nat : n = Len(s)
  OBVIOUS
<1>3. /\ SubSeq(s, m + 1, n) \in Seq(Cell)
      /\ Len(SubSeq(s, m + 1, n)) = IF m + 1 <= n THEN n - (m + 1) + 1 ELSE 0
  <2>1. \A i \in m + 1 .. n : s[i] \in Cell
    BY <1>2, ElementOfSeq
  <2>. QED BY <2>1, SubSeqProperties
<1>4. SubSeq(s, 1, m) \o SubSeq(s, m + 1, n) = SubSeq(s, 1, n)
  <2>1. 1 \in 1 .. Len(s) + 1 /\ m \in 1 - 1 .. Len(s) /\ n \in m .. Len(s)
    BY <1>2
  <2>. QED BY <2>1, ConcatAdjacentSubSeq
<1>5. SubSeq(s, 1, n) = s
  BY <1>2
<1>6. /\ Len(SubSeq(s, 1, m)) = m
      /\ \A k \in 1 .. m : SubSeq(s, 1, m)[k] = s[k]
  BY <1>1
<1>7. Len(SubSeq(s, m + 1, n)) = n - m
  BY <1>2, <1>3
<1>8. SubSeq(s, 1, m) \o SubSeq(s, m + 1, n) = s
  BY <1>4, <1>5, Zenon
<1>. QED BY <1>1, <1>2, <1>3, <1>6, <1>7, <1>8, Zenon

\* A buffered write loses nothing and puts nothing out of order.
LEMMA BufWriteKeeps ==
    ASSUME NEW l, LogOK(l), NEW p \in Seq(Cell)
    PROVE  /\ LogOK(BufWrite(l, p)) /\ Written(BufWrite(l, p)) = Written(l) \o p
           /\ BufWrite(l, p).open = l.open /\ BufWrite(l, p).broken = l.broken
<1>1. PICK f \in Seq(Cell), b \in Seq(Cell), o \in BOOLEAN, x \in BOOLEAN :
         /\ l = [file |-> f, buf |-> b, open |-> o, broken |-> x]
         /\ l.file = f /\ l.buf = b /\ l.open = o /\ l.broken = x /\ l \in LogSet
  BY LogFields DEF LogOK, WithCells
<1>2. PICK room \in Nat : room = BufSize - Len(b)
  BY <1>1, BufSizeAssumption DEF LogOK
<1>3. Written(l) = f \o b
  BY <1>1 DEF Written
<1>4. ASSUME NEW g \in Seq(Cell), NEW c \in Seq(Cell), Len(c) <= BufSize, g \o c = (f \o b) \o p,
             BufWrite(l, p) = [file |-> g, buf |-> c, open |-> o, broken |-> x]
      PROVE  /\ LogOK(BufWrite(l, p)) /\ Written(BufWrite(l, p)) = Written(l) \o p
             /\ BufWrite(l, p).open = l.open /\ BufWrite(l, p).broken = l.broken
  <2>1. PICK k : k = BufWrite(l, p)
    OBVIOUS
  <2>2. /\ k \in LogSet /\ k.file = g /\ k.buf = c /\ k.open = o /\ k.broken = x
    BY <1>4, <2>1 DEF LogSet
  <2>3. LogOK(k) /\ Written(k) = g \o c
    BY <1>4, <2>2 DEF LogOK, Written
  <2>. QED BY <1>1, <1>3, <1>4, <2>1, <2>2, <2>3, Zenon
<1>5. CASE Len(p) <= room
  <2>1. b \o p \in Seq(Cell) /\ Len(b \o p) <= BufSize
    BY <1>2, <1>5, Joined, BufSizeAssumption
  <2>2. f \o (b \o p) = (f \o b) \o p
    BY JoinedMore
  <2>3. BufWrite(l, p) = [file |-> f, buf |-> b \o p, open |-> o, broken |-> x]
    BY <1>1, <1>2, <1>5 DEF BufWrite
  <2>. QED BY <2>1, <2>2, <2>3, <1>4
<1>6. CASE ~ (Len(p) <= room) /\ b = <<>>
  <2>1. f \o p \in Seq(Cell) /\ <<>> \in Seq(Cell) /\ Len(<<>>) <= BufSize
    BY Joined, BufSizeAssumption
  <2>2. (f \o p) \o <<>> = (f \o b) \o p
    BY <1>6, <2>1, JoinedMore
  <2>3. BufWrite(l, p) = [file |-> f \o p, buf |-> <<>>, open |-> o, broken |-> x]
    BY <1>1, <1>2, <1>6 DEF BufWrite
  <2>. QED BY <2>1, <2>2, <2>3, <1>4
<1>7. CASE ~ (Len(p) <= room) /\ b # <<>>
  <2>0. /\ SubSeq(p, 1, room) \in Seq(Cell) /\ SubSeq(p, room + 1, Len(p)) \in Seq(Cell)
        /\ SubSeq(p, 1, room) \o SubSeq(p, room + 1, Len(p)) = p
    <3>1. room <= Len(p)
      BY <1>7
    <3>. QED BY <3>1, CutInTwo, Zenon
  <2>1. PICK first \in Seq(Cell), last \in Seq(Cell) :
           /\ first = SubSeq(p, 1, room) /\ last = SubSeq(p, room + 1, Len(p)) /\ first \o last = p
    BY <2>0, Zenon
  <2>3. CASE Len(last) > BufSize
    <3>1. f \o b \in Seq(Cell)
      BY Joined
    <3>2. (f \o b) \o p \in Seq(Cell) /\ <<>> \in Seq(Cell) /\ Len(<<>>) <= BufSize
      BY <3>1, Joined, BufSizeAssumption
    <3>3. ((f \o b) \o p) \o <<>> = (f \o b) \o p
      BY <3>2, JoinedMore
    <3>4. BufWrite(l, p) = [file |-> f \o b \o p, buf |-> <<>>, open |-> o, broken |-> x]
      BY <1>1, <1>2, <1>7, <2>1, <2>3 DEF BufWrite
    <3>. QED BY <3>2, <3>3, <3>4, <1>4
  <2>4. CASE ~ (Len(last) > BufSize)
    <3>1. f \o b \in Seq(Cell)
      BY Joined
    <3>2. (f \o b) \o first \in Seq(Cell)
      BY <3>1, Joined, Zenon
    <3>5. Len(last) <= BufSize
      BY <2>4, BufSizeAssumption
    <3>3. ((f \o b) \o first) \o last = (f \o b) \o p
      <4>1. PICK g \in Seq(Cell) : g = f \o b
        BY <3>1
      <4>2. (g \o first) \o last = g \o (first \o last)
        BY JoinedThree, Zenon
      <4>3. first \o last = p
        BY <2>1
      <4>. QED BY <4>1, <4>2, <4>3, Zenon
    <3>4. BufWrite(l, p) = [file |-> f \o b \o first, buf |-> last, open |-> o, broken |-> x]
      BY <1>1, <1>2, <1>7, <2>1, <2>4 DEF BufWrite
    <3>. QED BY <3>2, <3>3, <3>4, <3>5, <1>4
  <2>. QED BY <2>3, <2>4
<1>. QED BY <1>5, <1>6, <1>7

-----------------------------------------------------------------------------
(* The durable log: what is read back. *)

\* w is a whole log of the first d bytes of output: records begin at the cells of
\* DOMAIN P, which is a beginning of one more record at its end, and P says which
\* byte of the output a record begins with.
LogCells(w, d, P) ==
    /\ w \in Seq(Cell) /\ d \in Nat /\ Len(w) >= 1 /\ w[1] = Header
    /\ DOMAIN P \subseteq 2 .. Len(w) + 1 /\ P \in [DOMAIN P -> 0 .. d]
    /\ 2 \in DOMAIN P /\ P[2] = 0
    /\ Len(w) + 1 \in DOMAIN P /\ P[Len(w) + 1] = d
    /\ \A i \in DOMAIN P : i <= Len(w) =>
          \E v \in Nat :
             /\ w[i] = Head1(v) /\ i + v + 1 \in DOMAIN P /\ P[i + v + 1] = P[i] + v
             /\ \A k \in 1 .. v : w[i + k] = Byte1(P[i] + k - 1)

\* A record at the end of a whole log makes a whole log.
LEMMA CellsGrow ==
    ASSUME NEW w, NEW d, NEW P, LogCells(w, d, P), NEW n \in Nat,
           NEW u \in Seq(Cell), Len(u) = Len(w) + 1 + n,
           \A i \in 1 .. Len(w) : u[i] = w[i],
           u[Len(w) + 1] = Head1(n), \A k \in 1 .. n : u[Len(w) + 1 + k] = Byte1(d + k - 1)
    PROVE  \E Q : LogCells(u, d + n, Q)
<1>0. w \in Seq(Cell) /\ Len(w) >= 1
  BY DEF LogCells
<1>1. PICK e \in Nat : e = Len(w) /\ e >= 1
  BY <1>0
<1>2. PICK S : S = DOMAIN P
  OBVIOUS
<1>3. /\ d \in Nat /\ S \subseteq 2 .. e + 1 /\ 2 \in S /\ e + 1 \in S /\ w[1] = Header
      /\ \A i \in S : P[i] \in 0 .. d
      /\ P[2] = 0 /\ P[e + 1] = d
  BY <1>1, <1>2 DEF LogCells
<1>4. \A i \in S : i <= e =>
          \E v \in Nat :
             /\ w[i] = Head1(v) /\ i + v + 1 \in S /\ P[i + v + 1] = P[i] + v
             /\ \A k \in 1 .. v : w[i + k] = Byte1(P[i] + k - 1)
  BY <1>1, <1>2 DEF LogCells
<1>5. PICK z \in Nat : z = e + n + 2 /\ z = Len(u) + 1
  BY <1>1
<1>6. PICK Q : Q = [i \in S \cup {z} |-> IF i = z THEN d + n ELSE P[i]]
  OBVIOUS
<1>7. /\ DOMAIN Q = S \cup {z} /\ z \notin S
      /\ Q[z] = d + n /\ \A i \in S : Q[i] = P[i]
  BY <1>1, <1>3, <1>5, <1>6
<1>8. Q \in [DOMAIN Q -> 0 .. d + n]
  <2>1. \A i \in S \cup {z} : (IF i = z THEN d + n ELSE P[i]) \in 0 .. d + n
    BY <1>3
  <2>. QED BY <1>6, <1>7, <2>1
<1>9. ASSUME NEW i \in DOMAIN Q, i <= Len(u)
      PROVE  \E v \in Nat :
               /\ u[i] = Head1(v) /\ i + v + 1 \in DOMAIN Q /\ Q[i + v + 1] = Q[i] + v
               /\ \A k \in 1 .. v : u[i + k] = Byte1(Q[i] + k - 1)
  <2>1. i \in S /\ i \in 2 .. e + 1 /\ Q[i] = P[i]
    <3>1. i \in S \cup {z} /\ i # z
      BY <1>5, <1>7, <1>9
    <3>. QED BY <3>1, <1>3, <1>7
  <2>2. CASE i = e + 1
    <3>1. Q[i] = d /\ u[i] = Head1(n) /\ i + n + 1 = z
      BY <1>1, <1>3, <1>5, <2>1, <2>2
    <3>2. \A k \in 1 .. n : u[i + k] = Byte1(d + k - 1)
      BY <1>1, <2>2
    <3>. QED BY <1>7, <3>1, <3>2
  <2>3. CASE i <= e
    <3>1. PICK v \in Nat :
             /\ w[i] = Head1(v) /\ i + v + 1 \in S /\ P[i + v + 1] = P[i] + v
             /\ \A k \in 1 .. v : w[i + k] = Byte1(P[i] + k - 1)
      BY <1>4, <2>1, <2>3
    <3>2. i + v + 1 \in 2 .. e + 1
      BY <1>3, <3>1
    <3>3. u[i] = Head1(v)
      BY <1>1, <2>1, <2>3, <3>1
    <3>4. ASSUME NEW k \in 1 .. v PROVE u[i + k] = Byte1(Q[i] + k - 1)
      <4>1. i + k \in 1 .. e
        BY <2>1, <3>2
      <4>2. u[i + k] = w[i + k]
        BY <1>1, <4>1
      <4>. QED BY <2>1, <3>1, <4>2
    <3>5. Q[i + v + 1] = Q[i] + v /\ i + v + 1 \in DOMAIN Q
      BY <1>7, <2>1, <3>1
    <3>. QED BY <3>3, <3>4, <3>5
  <2>4. i = e + 1 \/ i <= e
    BY <1>1, <2>1
  <2>. QED BY <2>2, <2>3, <2>4
<1>10. /\ DOMAIN Q \subseteq 2 .. Len(u) + 1 /\ 2 \in DOMAIN Q /\ Q[2] = 0
       /\ Len(u) + 1 \in DOMAIN Q /\ Q[Len(u) + 1] = d + n
  <2>1. S \cup {z} \subseteq 2 .. z
    BY <1>3, <1>5
  <2>2. 2 \in DOMAIN Q /\ Q[2] = 0 /\ z \in DOMAIN Q /\ Q[z] = d + n
    BY <1>3, <1>7
  <2>. QED BY <1>5, <1>7, <2>1, <2>2, Zenon
<1>11. Len(u) >= 1 /\ u[1] = Header /\ d + n \in Nat
  BY <1>1, <1>3
<1>12. LogCells(u, d + n, Q)
  BY <1>8, <1>9, <1>10, <1>11, Zenon DEF LogCells
<1>. QED BY <1>12

\* The first log: the header.
LEMMA CellsBegin == \E P : LogCells(<<Header>>, 0, P)
<1>1. PICK P : P = [i \in {2} |-> 0]
  OBVIOUS
<1>2. DOMAIN P = {2} /\ P[2] = 0 /\ P \in [DOMAIN P -> 0 .. 0]
  BY <1>1
<1>3. <<Header>> \in Seq(Cell) /\ Len(<<Header>>) = 1 /\ <<Header>>[1] = Header
  BY DEF Header, Cell
<1>. QED BY <1>2, <1>3 DEF LogCells

\* A record that is there in full, before what follows it.
RecordRead(data, after) == [bytes |-> [k \in DOMAIN data |-> data[k].val] \o after.bytes,
                           garbage |-> after.garbage \/ \E k \in DOMAIN data : data[k].cell # "byte"]

\* What ReadSessionLog makes of cell i, given what it makes of later cells.
LogBody(f, i, g) ==
    IF i > Len(f) THEN [bytes |-> <<>>, garbage |-> FALSE]
    ELSE IF f[i].cell # "head" THEN [bytes |-> <<>>, garbage |-> TRUE]
    ELSE IF i + f[i].val > Len(f) THEN [bytes |-> <<>>, garbage |-> FALSE]
    ELSE RecordRead(SubSeq(f, i + 1, i + f[i].val), g[i + f[i].val + 1])

\* g is right about the cells from k on.
Reads(f, g, k) == \A i \in 2 .. Len(f) + 1 : i >= k => g[i] = LogBody(f, i, g)

\* The reading of a cell depends on later cells only.
LEMMA LaterCells ==
    ASSUME NEW f \in Seq(Cell), NEW i \in 2 .. Len(f) + 1, NEW g, NEW h,
           \A j \in 2 .. Len(f) + 1 : j > i => g[j] = h[j]
    PROVE  LogBody(f, i, g) = LogBody(f, i, h)
<1>1. CASE i > Len(f) \/ f[i].cell # "head" \/ i + f[i].val > Len(f)
  BY <1>1 DEF LogBody
<1>2. CASE ~ (i > Len(f)) /\ ~ (f[i].cell # "head") /\ ~ (i + f[i].val > Len(f))
  <2>1. f[i] \in Cell
    BY <1>2, ElementOfSeq
  <2>2. f[i].val \in Nat
    BY <2>1 DEF Cell
  <2>3. i + f[i].val + 1 \in 2 .. Len(f) + 1 /\ i + f[i].val + 1 > i
    BY <1>2, <2>2
  <2>4. g[i + f[i].val + 1] = h[i + f[i].val + 1]
    BY <2>3
  <2>. QED BY <1>2, <2>4 DEF LogBody
<1>. QED BY <1>1, <1>2

\* There is a reading of every cell.
LEMMA ReadingExists ==
    ASSUME NEW f \in Seq(Cell)
    PROVE  \E g : g = [i \in 2 .. Len(f) + 1 |-> LogBody(f, i, g)]
<1>1. PICK m \in Nat : m = Len(f)
  OBVIOUS
<1>2. PICK D : D = 2 .. m + 1
  OBVIOUS
<1>3. PICK K : K = {k \in Nat : \E g : DOMAIN g = D /\ Reads(f, g, k) /\ g = [i \in D |-> g[i]]}
  OBVIOUS
<1>4. m + 2 \in K
  <2>1. PICK g : g = [i \in D |-> 0]
    OBVIOUS
  <2>2. DOMAIN g = D /\ g = [i \in D |-> g[i]]
    BY <2>1
  <2>3. Reads(f, g, m + 2)
    BY <1>1 DEF Reads
  <2>. QED BY <1>3, <2>2, <2>3
<1>5. PICK k \in K : k \in Nat /\ \A j \in K : k <= j
  BY <1>3, <1>4, Least
<1>6. PICK g : DOMAIN g = D /\ Reads(f, g, k) /\ g = [i \in D |-> g[i]]
  BY <1>3, <1>5
<1>7. ASSUME k > 2 PROVE FALSE
  <2>1. PICK q \in Nat : k = q + 1 /\ q >= 2
    BY <1>5, <1>7
  <2>2. q \in D
    BY <1>1, <1>2, <1>4, <1>5, <2>1
  <2>3. PICK b : b = LogBody(f, q, g)
    OBVIOUS
  <2>4. PICK h : h = [i \in D |-> IF i = q THEN b ELSE g[i]]
    OBVIOUS
  <2>5. DOMAIN h = D /\ h = [i \in D |-> h[i]] /\ h[q] = b /\ \A i \in D : i # q => h[i] = g[i]
    BY <2>2, <2>4
  <2>6. ASSUME NEW i \in 2 .. Len(f) + 1, i >= q PROVE h[i] = LogBody(f, i, h)
    <3>1. \A j \in 2 .. Len(f) + 1 : j > i => g[j] = h[j]
      BY <1>1, <1>2, <2>1, <2>5, <2>6
    <3>2. LogBody(f, i, g) = LogBody(f, i, h)
      BY <3>1, LaterCells
    <3>3. CASE i = q
      BY <2>3, <2>5, <3>2, <3>3
    <3>4. CASE i # q
      <4>1. i >= k /\ i \in D /\ h[i] = g[i]
        BY <1>1, <1>2, <2>1, <2>5, <2>6, <3>4
      <4>2. g[i] = LogBody(f, i, g)
        BY <1>6, <4>1 DEF Reads
      <4>. QED BY <3>2, <4>1, <4>2
    <3>. QED BY <3>3, <3>4
  <2>7. Reads(f, h, q)
    BY <2>6 DEF Reads
  <2>8. q \in K
    BY <1>3, <2>5, <2>7
  <2>. QED BY <1>5, <2>1, <2>8
<1>8. \A i \in D : g[i] = LogBody(f, i, g)
  BY <1>1, <1>2, <1>5, <1>6, <1>7 DEF Reads
<1>9. g = [i \in D |-> LogBody(f, i, g)]
  BY <1>6, <1>8
<1>. QED BY <1>1, <1>2, <1>9

Reading(f, g) == g = [i \in 2 .. Len(f) + 1 |-> LogBody(f, i, g)]

\* ReadFrom is a reading.
LEMMA ReadingIs ==
    ASSUME NEW f \in Seq(Cell)
    PROVE  \E g : Reading(f, g) /\ ReadFrom(f) = g[2]
<1>1. PICK g : g = CHOOSE r : r = [i \in 2 .. Len(f) + 1 |-> LogBody(f, i, r)]
  OBVIOUS
<1>2. g = [i \in 2 .. Len(f) + 1 |-> LogBody(f, i, g)]
  BY <1>1, ReadingExists
<1>3. ReadFrom(f) = (CHOOSE r : r = [i \in 2 .. Len(f) + 1 |-> LogBody(f, i, r)])[2]
  BY DEF ReadFrom, LogBody, RecordRead
<1>. QED BY <1>1, <1>2, <1>3 DEF Reading

-----------------------------------------------------------------------------
(* The durable log: reading true. *)

\* s is what w begins with.
Begins(s, w) == \E m \in 0 .. Len(w) : s = SubSeq(w, 1, m)

\* A beginning of the first part is a beginning of the whole.
LEMMA BeginsJoined ==
    ASSUME NEW s \in Seq(Cell), NEW t \in Seq(Cell), NEW m \in 0 .. Len(s)
    PROVE  Begins(SubSeq(s, 1, m), s \o t)
<1>1. PICK w \in Seq(Cell) : w = s \o t
  BY Joined
<1>2. Len(w) = Len(s) + Len(t) /\ \A k \in 1 .. Len(s) : w[k] = s[k]
  BY <1>1, Joined
<1>3. m \in Nat /\ m <= Len(s) /\ m <= Len(w)
  BY <1>2
<1>4. PICK x, y : x = SubSeq(s, 1, m) /\ y = SubSeq(w, 1, m)
  OBVIOUS
<1>5. /\ x \in Seq(Cell) /\ Len(x) = m /\ \A k \in 1 .. m : x[k] = s[k]
      /\ y \in Seq(Cell) /\ Len(y) = m /\ \A k \in 1 .. m : y[k] = w[k]
  BY <1>3, <1>4, CutInTwo
<1>6. ASSUME NEW k \in 1 .. m PROVE x[k] = y[k]
  <2>1. k \in 1 .. Len(s)
    BY <1>3
  <2>. QED BY <1>2, <1>5, <2>1, Zenon
<1>7. x = y
  BY <1>5, <1>6, SeqEqual
<1>8. m \in 0 .. Len(w)
  BY <1>3
<1>. QED BY <1>1, <1>4, <1>7, <1>8 DEF Begins

\* The whole is a beginning of itself, and so is the first of two parts.
LEMMA BeginsWhole ==
    ASSUME NEW s \in Seq(Cell), NEW t \in Seq(Cell)
    PROVE  Begins(s, s) /\ Begins(s, s \o t)
<1>1. s = SubSeq(s, 1, Len(s)) /\ Len(s) \in 0 .. Len(s)
  OBVIOUS
<1>2. Begins(s, s)
  BY <1>1 DEF Begins
<1>3. Begins(SubSeq(s, 1, Len(s)), s \o t)
  BY <1>1, BeginsJoined
<1>. QED BY <1>1, <1>2, <1>3, Zenon

\* A record appended to a log that takes it is written after all the others.
LEMMA AppendKeeps ==
    ASSUME NEW l, LogOK(l), l.open, ~ l.broken, NEW first \in Nat, NEW n \in Nat
    PROVE  /\ LogOK(AppendRecord(l, first, n))
           /\ AppendRecord(l, first, n).open /\ ~ AppendRecord(l, first, n).broken
           /\ Written(AppendRecord(l, first, n))
                = (Written(l) \o <<Head1(n)>>) \o [k \in 1 .. n |-> Byte1(first + k - 1)]
<1>1. PICK h, p : h = <<Head1(n)>> /\ p = [k \in 1 .. n |-> Byte1(first + k - 1)]
  OBVIOUS
<1>2. h \in Seq(Cell)
  BY <1>1 DEF Head1, Cell
<1>3. p \in Seq(Cell)
  <2>1. \A k \in 1 .. n : Byte1(first + k - 1) \in Cell
    BY DEF Byte1, Cell
  <2>. QED BY <1>1, <2>1
<1>4. PICK a : a = BufWrite(l, h)
  OBVIOUS
<1>5. LogOK(a) /\ Written(a) = Written(l) \o h /\ a.open = l.open /\ a.broken = l.broken
  BY <1>2, <1>4, BufWriteKeeps
<1>6. PICK c : c = BufWrite(a, p)
  OBVIOUS
<1>7. LogOK(c) /\ Written(c) = Written(a) \o p /\ c.open = a.open /\ c.broken = a.broken
  BY <1>3, <1>5, <1>6, BufWriteKeeps
<1>8. AppendRecord(l, first, n) = c
  BY <1>1, <1>4, <1>6 DEF AppendRecord
<1>. QED BY <1>1, <1>5, <1>7, <1>8, Zenon

\* A whole log with the record of the next n bytes appended is a whole log.
LEMMA RecordGrows ==
    ASSUME NEW w, NEW d, NEW P, LogCells(w, d, P), NEW n \in Nat
    PROVE  \E Q : LogCells((w \o <<Head1(n)>>) \o [k \in 1 .. n |-> Byte1(d + k - 1)], d + n, Q)
<1>0. w \in Seq(Cell) /\ d \in Nat
  BY DEF LogCells
<1>1. PICK h, p : h = <<Head1(n)>> /\ p = [k \in 1 .. n |-> Byte1(d + k - 1)]
  OBVIOUS
<1>2. h \in Seq(Cell) /\ Len(h) = 1 /\ h[1] = Head1(n)
  BY <1>1 DEF Head1, Cell
<1>3. p \in Seq(Cell) /\ Len(p) = n /\ \A k \in 1 .. n : p[k] = Byte1(d + k - 1)
  <2>1. \A k \in 1 .. n : Byte1(d + k - 1) \in Cell
    BY <1>0 DEF Byte1, Cell
  <2>. QED BY <1>1, <2>1
<1>4. PICK v : v = w \o h
  OBVIOUS
<1>5. /\ v \in Seq(Cell) /\ Len(v) = Len(w) + 1
      /\ \A k \in 1 .. Len(w) : v[k] = w[k]
      /\ v[Len(w) + 1] = Head1(n)
  BY <1>0, <1>2, <1>4, Joined
<1>6. PICK u : u = v \o p
  OBVIOUS
<1>7. /\ u \in Seq(Cell) /\ Len(u) = Len(v) + n
      /\ \A k \in 1 .. Len(v) : u[k] = v[k]
      /\ \A k \in 1 .. n : u[Len(v) + k] = Byte1(d + k - 1)
  BY <1>3, <1>5, <1>6, Joined
<1>8. PICK e \in Nat : e = Len(w)
  BY <1>0
<1>9. /\ Len(u) = Len(w) + 1 + n
      /\ \A i \in 1 .. Len(w) : u[i] = w[i]
      /\ u[Len(w) + 1] = Head1(n) /\ \A k \in 1 .. n : u[Len(w) + 1 + k] = Byte1(d + k - 1)
  BY <1>5, <1>7, <1>8
<1>10. \E Q : LogCells(u, d + n, Q)
  BY <1>7, <1>9, CellsGrow
<1>. QED BY <1>1, <1>4, <1>6, <1>10, Zenon

\* The v cells after cell i.
LEMMA Slice ==
    ASSUME NEW f \in Seq(Cell), NEW i \in Nat, NEW v \in Nat, i >= 1, i + v <= Len(f)
    PROVE  /\ SubSeq(f, i + 1, i + v) \in Seq(Cell) /\ Len(SubSeq(f, i + 1, i + v)) = v
           /\ \A k \in 1 .. v : SubSeq(f, i + 1, i + v)[k] = f[i + k]
<1>1. \A k \in i + 1 .. i + v : f[k] \in Cell
  BY ElementOfSeq
<1>2. PICK x : x = SubSeq(f, i + 1, i + v)
  OBVIOUS
<1>3. /\ x \in Seq(Cell) /\ Len(x) = (IF i + 1 <= i + v THEN i + v - (i + 1) + 1 ELSE 0)
      /\ \A k \in 1 .. i + v - (i + 1) + 1 : x[k] = f[i + 1 + k - 1]
  BY <1>1, <1>2, SubSeqProperties
<1>4. Len(x) = v /\ \A k \in 1 .. v : x[k] = f[i + k]
  BY <1>3
<1>. QED BY <1>2, <1>3, <1>4, Zenon

\* f is the first m cells of w.
CutAt(f, w, m) == m \in Nat /\ m <= Len(w) /\ Len(f) = m /\ \A k \in 1 .. m : f[k] = w[k]

\* The reading of cell i is output from position p on, all of it when m is the whole of w.
RecordTrue(g, i, p, d, m, w) ==
    \E b \in p .. d : /\ g[i] = [bytes |-> Positions(p, b), garbage |-> FALSE]
                      /\ m = Len(w) => b = d

\* What is read from record i on of what a whole log begins with is the output from
\* that record on, up to the last record that is there in full.
LEMMA RecordsRead ==
    ASSUME NEW w, NEW d, NEW P, LogCells(w, d, P), NEW f \in Seq(Cell), NEW m, CutAt(f, w, m),
           NEW g, Reading(f, g)
    PROVE  \A i \in DOMAIN P : i <= m + 1 => RecordTrue(g, i, P[i], d, m, w)
<1>a. m \in Nat /\ m <= Len(w) /\ Len(f) = m /\ \A k \in 1 .. m : f[k] = w[k]
  BY DEF CutAt
<1>0. PICK S : S = DOMAIN P
  OBVIOUS
<1>1. /\ d \in Nat /\ S \subseteq 2 .. Len(w) + 1 /\ Len(w) \in Nat
      /\ \A i \in S : P[i] \in 0 .. d
      /\ P[Len(w) + 1] = d
  BY <1>0 DEF LogCells
<1>2. \A i \in S : i <= Len(w) =>
          \E v \in Nat :
             /\ w[i] = Head1(v) /\ i + v + 1 \in S /\ P[i + v + 1] = P[i] + v
             /\ \A k \in 1 .. v : w[i + k] = Byte1(P[i] + k - 1)
  BY <1>0 DEF LogCells
<1>. DEFINE Good(i) == RecordTrue(g, i, P[i], d, m, w)
            Bad == {i \in S : i <= m + 1 /\ ~ Good(i)}
<1>3. SUFFICES ASSUME Bad # {} PROVE FALSE
  BY <1>0
<1>4. PICK i \in Bad : \A j \in Bad : j <= i
  <2>1. m + 1 \in Nat /\ \A x \in S : x <= m + 1 => x \in 1 .. m + 1
    <3>1. ASSUME NEW x \in S, x <= m + 1 PROVE x \in 1 .. m + 1
      <4>1. x \in 2 .. Len(w) + 1
        BY <1>1
      <4>. QED BY <1>a, <1>1, <3>1, <4>1
    <3>. QED BY <1>a, <3>1
  <2>2. Bad \subseteq 1 .. m + 1 /\ Bad # {}
    <3>. HIDE DEF Good
    <3>. QED BY <1>3, <2>1, Zenon
  <2>. HIDE DEF Bad
  <2>. QED BY <2>1, <2>2, Greatest, Zenon
<1>. HIDE DEF Good
<1>5. i \in S /\ i <= m + 1 /\ ~ Good(i) /\ i \in 2 .. m + 1
  BY <1>a, <1>1
<1>5a. \A j \in S : j <= m + 1 /\ j > i => Good(j)
  BY <1>a, <1>1, <1>4
<1>. HIDE DEF Bad
<1>6. g[i] = LogBody(f, i, g)
  BY <1>a, <1>5 DEF Reading
<1>7. PICK a \in 0 .. d : a = P[i]
  BY <1>a, <1>1, <1>5
<1>8. Positions(a, a) = <<>>
  BY <1>7 DEF Positions, Greater
<1>9. CASE i = m + 1
  <2>0. i > Len(f)
    BY <1>a, <1>9
  <2>1. g[i] = [bytes |-> <<>>, garbage |-> FALSE]
    BY <1>6, <2>0, Zenon DEF LogBody
  <2>2. m = Len(w) => a = d
    BY <1>a, <1>1, <1>7, <1>9
  <2>3. a \in P[i] .. d
    BY <1>a, <1>1, <1>7
  <2>4. g[i] = [bytes |-> Positions(P[i], a), garbage |-> FALSE]
    BY <1>7, <1>8, <2>1, Zenon
  <2>. QED BY <1>5, <2>2, <2>3, <2>4, Zenon DEF Good, RecordTrue
<1>10. CASE i # m + 1
  <2>1. i <= m /\ i <= Len(w) /\ i \in 1 .. m
    BY <1>a, <1>1, <1>5, <1>10
  <2>2. PICK v \in Nat :
             /\ w[i] = Head1(v) /\ i + v + 1 \in S /\ P[i + v + 1] = a + v
             /\ \A k \in 1 .. v : w[i + k] = Byte1(a + k - 1)
    BY <1>a, <1>2, <1>5, <1>7, <2>1
  <2>3. f[i].cell = "head" /\ f[i].val = v
    BY <1>a, <2>1, <2>2 DEF Head1
  <2>4. PICK j \in Nat : j = i + v + 1 /\ j \in S /\ j > i
    BY <1>a, <1>5, <2>2
  <2>5. CASE i + v > m
    <3>1. g[i] = [bytes |-> <<>>, garbage |-> FALSE]
      BY <1>a, <1>6, <2>1, <2>3, <2>5 DEF LogBody
    <3>2. m # Len(w)
      <4>1. j \in 2 .. Len(w) + 1
        BY <1>a, <1>1, <2>4
      <4>. QED BY <1>1, <1>5, <1>a, <2>4, <2>5, <4>1
    <3>3. a \in P[i] .. d
      BY <1>a, <1>1, <1>7
    <3>4. g[i] = [bytes |-> Positions(P[i], a), garbage |-> FALSE]
      BY <1>7, <1>8, <3>1, Zenon
    <3>. QED BY <1>5, <3>2, <3>3, <3>4, Zenon DEF Good, RecordTrue
  <2>6. CASE ~ (i + v > m)
    <3>1. PICK c \in Nat : c = a + v /\ P[j] = c /\ a <= c
      BY <1>7, <2>2, <2>4
    <3>2. Good(j)
      <4>1. j <= m + 1
        BY <1>a, <1>5, <2>4, <2>6
      <4>. QED BY <1>5a, <2>4, <4>1, Zenon
    <3>3. PICK b \in c .. d : /\ g[j] = [bytes |-> Positions(c, b), garbage |-> FALSE]
                              /\ m = Len(w) => b = d
      BY <3>1, <3>2, Zenon DEF Good, RecordTrue
    <3>3a. b \in Nat /\ c <= b /\ b <= d /\ b \in a .. d
      BY <1>a, <1>1, <1>7, <3>1
    <3>4. PICK data : data = SubSeq(f, i + 1, i + v)
      OBVIOUS
    <3>5. DOMAIN data = 1 .. v /\ \A k \in 1 .. v : data[k] = Byte1(a + k - 1)
      <4>1. \A k \in 1 .. v : i + k \in 1 .. m /\ f[i + k] = w[i + k]
        BY <1>a, <1>5, <2>6
      <4>2. data \in Seq(Cell) /\ Len(data) = v /\ \A k \in 1 .. v : data[k] = f[i + k]
        <5>1. i \in Nat /\ i >= 1 /\ i + v <= Len(f)
          BY <1>a, <1>5, <2>6
        <5>. QED BY <3>4, <5>1, Slice, Zenon
      <4>3. DOMAIN data = 1 .. v
        BY <4>2
      <4>. QED BY <2>2, <4>1, <4>2, <4>3
    <3>6. [k \in DOMAIN data |-> data[k].val] = Positions(a, c)
      <4>1. ASSUME NEW k \in 1 .. v PROVE data[k].val = a + k - 1
        <5>1. PICK q : q = a + k - 1
          OBVIOUS
        <5>2. data[k] = Byte1(q)
          BY <3>5, <5>1
        <5>. QED BY <5>1, <5>2 DEF Byte1
      <4>2. Positions(a, c) = [k \in 1 .. v |-> a + k - 1]
        BY <1>7, <3>1 DEF Positions, Greater
      <4>. QED BY <3>5, <4>1, <4>2
    <3>7. ~ \E k \in DOMAIN data : data[k].cell # "byte"
      BY <3>5 DEF Byte1
    <3>8. LogBody(f, i, g) = [bytes |-> [k \in DOMAIN data |-> data[k].val] \o g[j].bytes,
                              garbage |-> g[j].garbage \/ \E k \in DOMAIN data : data[k].cell # "byte"]
      <4>1. ~ (i > Len(f)) /\ ~ (i + v > Len(f))
        BY <1>a, <2>1, <2>6
      <4>2. f[i].cell = "head" /\ f[i].val = v
        BY <2>3
      <4>3. j = i + v + 1 /\ data = SubSeq(f, i + 1, i + v)
        BY <2>4, <3>4
      <4>4. LogBody(f, i, g) = RecordRead(data, g[j])
        BY <4>1, <4>2, <4>3, Zenon DEF LogBody
      <4>. QED BY <4>4 DEF RecordRead
    <3>9. g[j].bytes = Positions(c, b) /\ g[j].garbage = FALSE
      BY <3>3
    <3>10. Positions(a, c) \o Positions(c, b) = Positions(a, b)
      <4>1. a \in Nat /\ a <= c /\ c <= b /\ b \in Nat /\ c \in Nat
        BY <1>7, <3>1, <3>3a
      <4>. QED BY <4>1, PositionsJoin, Zenon
    <3>11. (g[j].garbage \/ \E k \in DOMAIN data : data[k].cell # "byte") = FALSE
      BY <3>7, <3>9
    <3>12. g[i] = [bytes |-> Positions(a, b), garbage |-> FALSE]
      BY <1>6, <3>6, <3>8, <3>9, <3>10, <3>11, Zenon
    <3>. QED BY <1>5, <1>7, <3>3, <3>3a, <3>12, Zenon DEF Good, RecordTrue
  <2>. QED BY <1>a, <2>5, <2>6
<1>. QED BY <1>a, <1>9, <1>10

\* What is read back from l is output up to byte d, all of it if w is on the file.
ReadsUpTo(l, w, d) ==
    \E b \in 0 .. d : /\ ReadLog(l).bytes = Positions(0, b) /\ ReadLog(l).garbage = FALSE
                      /\ l.file = w => b = d

\* What is read back from the beginning of a whole log is the beginning of its output,
\* and all of it when the whole log is there.
LEMMA PrefixRead ==
    ASSUME NEW w, NEW d, NEW P, LogCells(w, d, P), NEW l, l.file \in Seq(Cell), Begins(l.file, w)
    PROVE  ReadsUpTo(l, w, d)
<1>. USE DEF ReadsUpTo
<1>1. PICK f \in Seq(Cell) : f = l.file
  OBVIOUS
<1>2. w \in Seq(Cell) /\ Len(w) >= 1 /\ w[1] = Header /\ d \in Nat
  BY DEF LogCells
<1>3. PICK m \in 0 .. Len(w) : f = SubSeq(w, 1, m)
  BY <1>1 DEF Begins
<1>4. m \in Nat /\ m <= Len(w) /\ Len(f) = m /\ \A k \in 1 .. m : f[k] = w[k]
  <2>1. m \in Nat /\ m <= Len(w)
    BY <1>2, <1>3
  <2>. QED BY <1>2, <1>3, <2>1, CutInTwo, Zenon
<1>5. CASE f = <<>>
  <2>1. ReadLog(l) = [ok |-> FALSE, bytes |-> <<>>, garbage |-> FALSE]
    BY <1>1, <1>5 DEF ReadLog
  <2>2. Positions(0, 0) = <<>>
    BY DEF Positions, Greater
  <2>3. f # w
    BY <1>2, <1>5
  <2>. QED BY <1>1, <1>2, <2>1, <2>2, <2>3
<1>6. CASE f # <<>>
  <2>1. m >= 1
    BY <1>4, <1>6, EmptySeq
  <2>2. f[1] = Header
    BY <1>2, <1>4, <2>1
  <2>3. PICK r : r = ReadFrom(f)
    OBVIOUS
  <2>4. ReadLog(l) = [ok |-> TRUE, bytes |-> r.bytes, garbage |-> r.garbage]
    BY <1>1, <1>6, <2>2, <2>3 DEF ReadLog
  <2>5. PICK g : Reading(f, g) /\ ReadFrom(f) = g[2]
    BY ReadingIs
  <2>6. \A i \in DOMAIN P : i <= m + 1 => RecordTrue(g, i, P[i], d, m, w)
    <3>1. CutAt(f, w, m)
      BY <1>4 DEF CutAt
    <3>. QED BY <2>5, <3>1, RecordsRead, Zenon
  <2>7. 2 \in DOMAIN P /\ P[2] = 0
    BY DEF LogCells
  <2>8. PICK b \in 0 .. d : /\ g[2] = [bytes |-> Positions(0, b), garbage |-> FALSE]
                            /\ m = Len(w) => b = d
    <3>1. 2 <= m + 1
      BY <1>4, <2>1
    <3>2. RecordTrue(g, 2, 0, d, m, w)
      BY <2>6, <2>7, <3>1, Zenon
    <3>. QED BY <3>2, Zenon DEF RecordTrue
  <2>9. f = w => b = d
    BY <1>4, <2>8
  <2>. QED BY <1>1, <2>3, <2>4, <2>5, <2>8, <2>9
<1>. QED BY <1>5, <1>6

-----------------------------------------------------------------------------
(* The durable log: the invariant. *)

\* The file of l is the beginning of a whole log w of d of the q bytes of output: all
\* of it is written unless the log broke, and on the file once the session has ended.
Follows(l, w, d, q, at) ==
    /\ d <= q /\ Begins(l.file, w)
    /\ ~ l.broken => Written(l) = w /\ d = q
    /\ at = "exited" /\ ~ l.broken => l.file = w

LogKept(l, q, at) == \E w, d, P : LogCells(w, d, P) /\ Follows(l, w, d, q, at)

LogInv ==
    /\ LogOK(log) /\ life \in {"running", "exited", "crashed"} /\ clean \in BOOLEAN
    /\ ~ sc.logged => log.file = <<>> /\ ~ log.open
    /\ sc.logged /\ life = "running" => log.open
    /\ sc.logged /\ clean => LogKept(log, pos, life)

\* A new log, and none.
LEMMA NewLogKept ==
    /\ LogOK(NewLog) /\ NewLog.open /\ LogKept(NewLog, 0, "running")
    /\ LogOK(NoLog) /\ NoLog.file = <<>> /\ ~ NoLog.open
<1>1. PICK l : l = [file |-> <<>>, buf |-> <<>>, open |-> TRUE, broken |-> FALSE]
  OBVIOUS
<1>2. /\ l \in LogSet /\ l.file = <<>> /\ l.buf = <<>> /\ l.open /\ ~ l.broken
      /\ <<>> \in Seq(Cell) /\ Len(<<>>) = 0
  BY <1>1 DEF LogSet
<1>3. LogOK(l) /\ Written(l) = <<>> \o <<>>
  BY <1>2, BufSizeAssumption DEF LogOK, Written
<1>4. PICK h \in Seq(Cell) : h = <<Header>>
  <2>1. <<Header>> \in Seq(Cell)
    BY DEF Header, Cell
  <2>. QED BY <2>1, Zenon
<1>5. PICK n : n = NewLog
  OBVIOUS
<1>6. n = BufWrite(l, h)
  BY <1>1, <1>4, <1>5 DEF NewLog
<1>7. LogOK(n) /\ Written(n) = Written(l) \o h /\ n.open = l.open /\ n.broken = l.broken
  BY <1>3, <1>4, <1>6, BufWriteKeeps
<1>8. Written(n) = <<Header>>
  BY <1>2, <1>3, <1>4, <1>7, JoinedMore
<1>9. n.file \in Seq(Cell) /\ n.buf \in Seq(Cell)
  BY <1>7, LogFields DEF LogOK
<1>10. Begins(n.file, <<Header>>)
  BY <1>8, <1>9, BeginsWhole DEF Written
<1>11. Follows(n, <<Header>>, 0, 0, "running")
  BY <1>8, <1>10 DEF Follows
<1>12. LogKept(n, 0, "running")
  BY <1>11, CellsBegin DEF LogKept
<1>13. LogOK(NoLog) /\ NoLog.file = <<>> /\ ~ NoLog.open
  BY <1>2, BufSizeAssumption DEF NoLog, LogOK, LogSet
<1>. QED BY <1>2, <1>5, <1>7, <1>12, <1>13

\* Keeping more output than there is a log of: a broken log falls behind.
LEMMA BrokenKept ==
    ASSUME NEW l, NEW q \in Nat, NEW n \in Nat, NEW at, l.broken, LogKept(l, q, at)
    PROVE  LogKept(l, q + n, at)
<1>1. PICK w, d, P : LogCells(w, d, P) /\ Follows(l, w, d, q, at)
  BY DEF LogKept
<1>2. d \in Nat
  BY <1>1 DEF LogCells
<1>3. Follows(l, w, d, q + n, at)
  BY <1>1, <1>2 DEF Follows
<1>. QED BY <1>1, <1>3 DEF LogKept

\* The next chunk is appended.
LEMMA AppendKept ==
    ASSUME NEW l, LogOK(l), l.open, ~ l.broken, NEW q \in Nat, NEW n \in Nat, LogKept(l, q, "running")
    PROVE  LogKept(AppendRecord(l, q, n), q + n, "running")
<1>1. PICK w, d, P : LogCells(w, d, P) /\ Follows(l, w, d, q, "running")
  BY DEF LogKept
<1>2. w \in Seq(Cell) /\ d \in Nat
  BY <1>1 DEF LogCells
<1>3. Written(l) = w /\ d = q
  BY <1>1 DEF Follows
<1>4. PICK a : a = AppendRecord(l, q, n)
  OBVIOUS
<1>5. PICK u : u = (w \o <<Head1(n)>>) \o [k \in 1 .. n |-> Byte1(q + k - 1)]
  OBVIOUS
<1>6. LogOK(a) /\ Written(a) = u
  BY <1>3, <1>4, <1>5, AppendKeeps
<1>7. PICK Q : LogCells(u, q + n, Q)
  BY <1>1, <1>3, <1>5, RecordGrows
<1>8. a.file \in Seq(Cell) /\ a.buf \in Seq(Cell)
  BY <1>6, LogFields DEF LogOK
<1>9. Begins(a.file, u)
  BY <1>6, <1>8, BeginsWhole DEF Written
<1>10. Follows(a, u, q + n, q + n, "running")
  BY <1>6, <1>9 DEF Follows
<1>. QED BY <1>4, <1>7, <1>10 DEF LogKept

\* The log z has on its file part of what the log a has.
Torn(z, a) ==
    \E f, b \in Seq(Cell) : \E m \in 0 .. Len(f) :
       /\ a.file = f /\ a.buf = b
       /\ z = [file |-> SubSeq(f, 1, m), buf |-> <<>>, open |-> TRUE, broken |-> TRUE]
       /\ LogOK(z)

\* An append that fails leaves part of what it would have written.
LEMMA FailureIs ==
    ASSUME NEW l, LogOK(l), l.open, ~ l.broken, NEW q \in Nat, NEW n \in Nat, NEW kept \in Nat,
           Len(l.file) + kept < Len(AppendRecord(l, q, n).file)
    PROVE  Torn(AppendFailed(l, q, n, kept), AppendRecord(l, q, n))
<1>1. PICK a : a = AppendRecord(l, q, n)
  OBVIOUS
<1>2. LogOK(a)
  BY <1>1, AppendKeeps
<1>3. PICK f \in Seq(Cell), b \in Seq(Cell) : a.file = f /\ a.buf = b
  BY <1>2, LogFields DEF LogOK
<1>5. PICK lf \in Seq(Cell) : lf = l.file
  BY LogFields DEF LogOK
<1>6. PICK m \in Nat : m = Len(lf) + kept /\ m \in 0 .. Len(f)
  BY <1>1, <1>3, <1>5
<1>7. PICK z : z = AppendFailed(l, q, n, kept)
  OBVIOUS
<1>8. z = [file |-> SubSeq(f, 1, m), buf |-> <<>>, open |-> l.open, broken |-> TRUE]
  <2>1. PICK x : x = [l EXCEPT !.broken = TRUE]
    OBVIOUS
  <2>2. x = [file |-> lf, buf |-> l.buf, open |-> l.open, broken |-> TRUE]
    BY <2>1, <1>5 DEF LogOK, LogSet
  <2>3. PICK y : y = [x EXCEPT !.file = SubSeq(a.file, 1, Len(x.file) + kept)]
    OBVIOUS
  <2>4. z = [y EXCEPT !.buf = <<>>]
    BY <1>1, <1>7, <2>1, <2>3 DEF AppendFailed
  <2>5. SubSeq(a.file, 1, Len(x.file) + kept) = SubSeq(f, 1, m)
    BY <1>3, <1>6, <2>2
  <2>. QED BY <2>2, <2>3, <2>4, <2>5
<1>9. LogOK(z)
  <2>1. SubSeq(f, 1, m) \in Seq(Cell) /\ <<>> \in Seq(Cell)
    BY <1>6, CutInTwo
  <2>2. z \in LogSet /\ z.buf = <<>>
    BY <1>8, <2>1 DEF LogSet
  <2>. QED BY <2>2, BufSizeAssumption DEF LogOK
<1>10. Torn(z, a)
  BY <1>3, <1>6, <1>8, <1>9 DEF Torn
<1>. QED BY <1>1, <1>7, <1>10

\* What it leaves is the beginning of a whole log.
LEMMA FailureKept ==
    ASSUME NEW l, LogOK(l), l.open, ~ l.broken, NEW q \in Nat, NEW n \in Nat, LogKept(l, q, "running"),
           NEW kept \in Nat, Len(l.file) + kept < Len(AppendRecord(l, q, n).file)
    PROVE  LogKept(AppendFailed(l, q, n, kept), q + n, "running")
<1>1. PICK a, z : a = AppendRecord(l, q, n) /\ z = AppendFailed(l, q, n, kept)
  OBVIOUS
<1>t. Torn(z, a)
  BY <1>1, FailureIs, Zenon
<1>2a. PICK f \in Seq(Cell), b \in Seq(Cell) : \E m \in 0 .. Len(f) :
         /\ a.file = f /\ a.buf = b
         /\ z = [file |-> SubSeq(f, 1, m), buf |-> <<>>, open |-> TRUE, broken |-> TRUE]
         /\ LogOK(z)
  BY <1>t, Zenon DEF Torn
<1>2. PICK m \in 0 .. Len(f) :
         /\ a.file = f /\ a.buf = b
         /\ z = [file |-> SubSeq(f, 1, m), buf |-> <<>>, open |-> TRUE, broken |-> TRUE]
  BY <1>2a
<1>3. LogKept(a, q + n, "running")
  BY <1>1, AppendKept
<1>4. PICK w, d, P : LogCells(w, d, P) /\ Follows(a, w, d, q + n, "running")
  BY <1>3 DEF LogKept
<1>5. ~ a.broken
  BY <1>1, AppendKeeps
<1>6. w = f \o b /\ d = q + n
  BY <1>2, <1>4, <1>5 DEF Follows, Written
<1>7. Begins(SubSeq(f, 1, m), w)
  BY <1>2, <1>6, BeginsJoined
<1>8. Follows(z, w, d, q + n, "running")
  BY <1>2, <1>6, <1>7 DEF Follows
<1>. QED BY <1>1, <1>4, <1>8 DEF LogKept

\* What a log that is closed or opened again is, whatever it holds.
LEMMA CloseOK ==
    ASSUME NEW l, LogOK(l)
    PROVE  /\ LogOK(Close(l)) /\ ~ Close(l).open /\ (~ l.open => Close(l).file = l.file)
           /\ LogOK(Reopen(l)) /\ Reopen(l).open = l.open
<1>1. PICK f \in Seq(Cell), b \in Seq(Cell), o \in BOOLEAN, x \in BOOLEAN :
         l.file = f /\ l.buf = b /\ l.open = o /\ l.broken = x /\ l = [file |-> f, buf |-> b, open |-> o, broken |-> x]
  BY LogFields DEF LogOK, WithCells
<1>2. <<>> \in Seq(Cell) /\ Len(<<>>) <= BufSize /\ f \o b \in Seq(Cell)
  BY Joined, BufSizeAssumption
<1>3. ASSUME NEW g \in Seq(Cell), NEW p \in BOOLEAN, NEW y \in BOOLEAN
      PROVE  LogOK([file |-> g, buf |-> <<>>, open |-> p, broken |-> y])
  BY <1>2 DEF LogOK, LogSet
<1>4. PICK c, r : c = Close(l) /\ r = Reopen(l)
  OBVIOUS
<1>5. c = [file |-> IF o /\ ~ x THEN f \o b ELSE f, buf |-> <<>>, open |-> FALSE, broken |-> x]
  BY <1>1, <1>4 DEF Close
<1>7. r = [file |-> f, buf |-> <<>>, open |-> o, broken |-> FALSE]
  BY <1>1, <1>4 DEF Reopen
<1>8. LogOK(c) /\ LogOK(r)
  BY <1>2, <1>3, <1>5, <1>7
<1>9. /\ LogOK(c) /\ ~ c.open /\ (~ l.open => c.file = l.file)
      /\ LogOK(r) /\ r.open = l.open
  BY <1>1, <1>5, <1>7, <1>8
<1>. QED BY <1>4, <1>9, Zenon

\* The log that is closed, left behind, or opened again keeps what it had.
LEMMA LogEnds ==
    ASSUME NEW l, LogOK(l), NEW q \in Nat, LogKept(l, q, "running")
    PROVE  /\ l.open => LogKept(Close(l), q, "exited")
           /\ LogKept(l, q, "crashed")
           /\ l.buf = <<>> /\ ~ l.broken => LogKept(Reopen(l), q, "running")
<1>1. PICK f \in Seq(Cell), b \in Seq(Cell), o \in BOOLEAN, x \in BOOLEAN :
         l.file = f /\ l.buf = b /\ l.open = o /\ l.broken = x /\ l = [file |-> f, buf |-> b, open |-> o, broken |-> x]
  BY LogFields DEF LogOK, WithCells
<1>2. PICK w, d, P : LogCells(w, d, P) /\ Follows(l, w, d, q, "running")
  BY DEF LogKept
<1>3. /\ w \in Seq(Cell) /\ d <= q /\ Begins(f, w)
      /\ ~ x => f \o b = w /\ d = q
  BY <1>1, <1>2 DEF LogCells, Follows, Written
<1>4. PICK c, r : c = Close(l) /\ r = Reopen(l)
  OBVIOUS
<1>5. ASSUME o PROVE LogKept(c, q, "exited")
  <2>1. c = [file |-> IF o /\ ~ x THEN f \o b ELSE f, buf |-> <<>>, open |-> FALSE, broken |-> x]
    BY <1>1, <1>4 DEF Close
  <2>2. Begins(w, w)
    BY <1>3, BeginsWhole
  <2>3. Written(c) = c.file
    <3>1. f \o b \in Seq(Cell)
      BY <1>1, Joined
    <3>2. PICK u \in Seq(Cell) : u = c.file /\ c.buf = <<>>
      BY <1>1, <2>1, <3>1
    <3>3. u \o <<>> = u
      BY JoinedMore
    <3>. QED BY <3>2, <3>3 DEF Written
  <2>4. Follows(c, w, d, q, "exited")
    BY <1>3, <1>5, <2>1, <2>2, <2>3 DEF Follows
  <2>. QED BY <1>2, <2>4 DEF LogKept
<1>6. LogKept(l, q, "crashed")
  <2>1. Follows(l, w, d, q, "crashed")
    BY <1>2 DEF Follows
  <2>. QED BY <1>2, <2>1 DEF LogKept
<1>7. ASSUME b = <<>>, ~ x PROVE LogKept(r, q, "running")
  <2>1. r = [file |-> f, buf |-> <<>>, open |-> o, broken |-> FALSE]
    BY <1>1, <1>4 DEF Reopen
  <2>2. Written(r) = f \o b
    BY <1>7, <2>1 DEF Written
  <2>3. Follows(r, w, d, q, "running")
    BY <1>3, <1>7, <2>1, <2>2 DEF Follows
  <2>. QED BY <1>2, <2>3 DEF LogKept
<1>8. /\ l.open => LogKept(c, q, "exited")
      /\ LogKept(l, q, "crashed")
      /\ l.buf = <<>> /\ ~ l.broken => LogKept(r, q, "running")
  BY <1>1, <1>5, <1>6, <1>7
<1>. QED BY <1>4, <1>8, Zenon

\* It holds at the beginning.
LEMMA LogInvInit == TapInit => LogInv
<1>. SUFFICES ASSUME TapInit PROVE LogInv
  OBVIOUS
<1>1. pos = 0 /\ life = "running" /\ clean = TRUE /\ log = IF sc.logged THEN NewLog ELSE NoLog
  BY DEF TapInit
<1>2. CASE sc.logged
  <2>1. log = NewLog
    BY <1>1, <1>2
  <2>. QED BY <1>1, <1>2, <2>1, NewLogKept DEF LogInv
<1>3. CASE ~ sc.logged
  <2>1. log = NoLog
    BY <1>1, <1>3
  <2>. QED BY <1>1, <1>3, <2>1, NewLogKept DEF LogInv
<1>. QED BY <1>2, <1>3

\* No step disturbs it.
LEMMA LogInvNext ==
    ASSUME TapOK, LogInv, [TapNext]_tapVars
    PROVE  LogInv'
<1>0. /\ LogOK(log) /\ life \in {"running", "exited", "crashed"} /\ clean \in BOOLEAN
      /\ ~ sc.logged => log.file = <<>> /\ ~ log.open
      /\ sc.logged /\ life = "running" => log.open
      /\ sc.logged /\ clean => LogKept(log, pos, life)
      /\ pos \in Nat /\ sc.logged \in BOOLEAN
  BY ScenariosAssumption DEF LogInv, TapOK
<1>1. ASSUME NEW n \in 1 .. Len(bytes), PumpOutput(n) PROVE LogInv'
  <2>1. /\ n \in Nat /\ life = "running" /\ pos' = pos + n /\ UNCHANGED <<sc, life, clean>>
    BY <1>1 DEF PumpOutput, Idle, TapOK
  <2>2. \/ log' = AppendRecord(log, pos, n)
        \/ /\ log.open /\ ~log.broken
           /\ \E kept \in {0, 1} :
                /\ Len(log.file) + kept < Len(AppendRecord(log, pos, n).file)
                /\ log' = AppendFailed(log, pos, n, kept)
    BY <1>1 DEF PumpOutput
  <2>3. CASE ~ log.open \/ log.broken
    <3>1. log' = log
      BY <2>2, <2>3 DEF AppendRecord
    <3>2. sc.logged /\ clean => LogKept(log, pos + n, life)
      BY <1>0, <2>1, <2>3, BrokenKept
    <3>. QED BY <1>0, <2>1, <3>1, <3>2 DEF LogInv
  <2>4. CASE log.open /\ ~ log.broken /\ log' = AppendRecord(log, pos, n)
    <3>1. LogOK(log') /\ log'.open
      BY <1>0, <2>1, <2>4, AppendKeeps
    <3>2. sc.logged /\ clean => LogKept(log', pos + n, life)
      BY <1>0, <2>1, <2>4, AppendKept
    <3>. QED BY <1>0, <2>1, <2>4, <3>1, <3>2 DEF LogInv
  <2>5. ASSUME log.open, ~ log.broken, NEW kept \in {0, 1},
               Len(log.file) + kept < Len(AppendRecord(log, pos, n).file),
               log' = AppendFailed(log, pos, n, kept)
        PROVE  LogInv'
    <3>1. sc.logged
      BY <1>0, <2>5
    <3>2. LogOK(log') /\ log'.open
      <4>1. Torn(log', AppendRecord(log, pos, n))
        BY <1>0, <2>1, <2>5, FailureIs
      <4>. QED BY <4>1 DEF Torn
    <3>3. clean => LogKept(log', pos + n, life)
      BY <1>0, <2>1, <2>5, <3>1, FailureKept
    <3>. QED BY <1>0, <2>1, <3>1, <3>2, <3>3 DEF LogInv
  <2>. QED BY <2>2, <2>3, <2>4, <2>5
<1>2. CASE Finish
  <2>1. life = "running" /\ life' = "exited" /\ log' = Close(log) /\ UNCHANGED <<sc, pos, clean>>
    BY <1>2 DEF Finish, Idle
  <2>2. LogOK(log') /\ ~ log'.open /\ (~ sc.logged => log'.file = <<>>)
    BY <1>0, <2>1, CloseOK
  <2>3. sc.logged /\ clean => LogKept(log', pos, "exited")
    BY <1>0, <2>1, LogEnds
  <2>. QED BY <1>0, <2>1, <2>2, <2>3 DEF LogInv
<1>3. CASE Crash
  <2>1. life = "running" /\ sc.logged /\ life' = "crashed" /\ UNCHANGED <<log, sc, pos, clean>>
    BY <1>3 DEF Crash
  <2>2. LogOK(log')
    BY <1>0, <2>1
  <2>3. clean => LogKept(log', pos, "crashed")
    BY <1>0, <2>1, LogEnds
  <2>. QED BY <1>0, <2>1, <2>2, <2>3 DEF LogInv
<1>4. CASE TakenOver
  <2>1. /\ life = "running" /\ log' = (IF sc.logged THEN Reopen(log) ELSE log) /\ UNCHANGED <<sc, pos, life>>
        /\ clean' = (clean /\ log.buf = <<>> /\ ~log.broken)
    BY <1>4 DEF TakenOver, Idle
  <2>2. CASE sc.logged
    <3>1. LogOK(log') /\ log'.open
      BY <1>0, <2>1, <2>2, CloseOK
    <3>2. clean' => LogKept(log', pos, "running")
      BY <1>0, <2>1, <2>2, LogEnds
    <3>. QED BY <1>0, <2>1, <2>2, <3>1, <3>2 DEF LogInv
  <2>3. CASE ~ sc.logged
    BY <1>0, <2>1, <2>3 DEF LogInv
  <2>. QED BY <1>0, <2>2, <2>3
<1>5. ASSUME UNCHANGED <<sc, pos, log, life, clean>> PROVE LogInv'
  BY <1>0, <1>5 DEF LogInv
<1>6. CASE EmitNext \/ HousekeepingTick \/ Advance \/ EmitOther \/ TailLog \/ TailAttach \/ UNCHANGED tapVars
  BY <1>5, <1>6 DEF EmitNext, HousekeepingTick, Advance, EmitOther, TailLog, TailAttach, tapVars, tvars
<1>7. CASE life # "crashed" /\ (\E c \in sc.conns : BusNext(c)) /\ UNCHANGED tvars
  BY <1>5, <1>7 DEF tvars
<1>. QED BY <1>1, <1>2, <1>3, <1>4, <1>6, <1>7 DEF TapNext, PumpStep1, Terminated

\* The log with its buffer on the file.
Flushed(l) == [l EXCEPT !.file = @ \o l.buf]

\* What is read back is output from the first byte on; the buffer has the rest, and
\* nothing once the session has ended.
LEMMA LogReads ==
    ASSUME TapOK, LogInv, clean
    PROVE  \E b \in 0 .. pos :
             /\ ReadLog(log).bytes = Positions(0, b) /\ ReadLog(log).garbage = FALSE
             /\ sc.logged /\ ~ log.broken =>
                  /\ ReadLog(Flushed(log)).bytes = Positions(0, pos) /\ Len(log.buf) <= BufSize
                  /\ life = "exited" => b = pos
<1>0. /\ LogOK(log) /\ pos \in Nat /\ sc.logged \in BOOLEAN
      /\ ~ sc.logged => log.file = <<>>
      /\ sc.logged => LogKept(log, pos, life)
  BY ScenariosAssumption DEF LogInv, TapOK
<1>1. CASE ~ sc.logged
  <2>1. ReadLog(log) = [ok |-> FALSE, bytes |-> <<>>, garbage |-> FALSE]
    BY <1>0, <1>1 DEF ReadLog
  <2>2. Positions(0, 0) = <<>>
    BY DEF Positions, Greater
  <2>. QED BY <1>0, <1>1, <2>1, <2>2
<1>2. CASE sc.logged
  <2>1. PICK w, d, P : LogCells(w, d, P) /\ Follows(log, w, d, pos, life)
    BY <1>0, <1>2 DEF LogKept
  <2>2. log.file \in Seq(Cell) /\ Begins(log.file, w) /\ d \in Nat /\ d <= pos
    BY <1>0, <2>1, LogFields DEF LogOK, Follows, LogCells
  <2>3. PICK b \in 0 .. d : /\ ReadLog(log).bytes = Positions(0, b) /\ ReadLog(log).garbage = FALSE
                            /\ log.file = w => b = d
    <3>1. ReadsUpTo(log, w, d)
      BY <2>1, <2>2, PrefixRead, Zenon
    <3>. QED BY <3>1, Zenon DEF ReadsUpTo
  <2>4. life = "exited" /\ ~ log.broken => b = pos
    BY <2>1, <2>3 DEF Follows
  <2>5. ASSUME ~ log.broken PROVE ReadLog(Flushed(log)).bytes = Positions(0, pos)
    <3>1. PICK l : l = Flushed(log)
      OBVIOUS
    <3>2. l.file = w /\ d = pos /\ w \in Seq(Cell)
      <4>1. Written(log) = w /\ d = pos /\ w \in Seq(Cell)
        BY <2>1, <2>5 DEF Follows, LogCells
      <4>2. PICK f \in Seq(Cell), c \in Seq(Cell), o \in BOOLEAN, x \in BOOLEAN :
              log.buf = c /\ log = [file |-> f, buf |-> c, open |-> o, broken |-> x]
        BY <1>0, LogFields DEF LogOK, WithCells
      <4>3. log.file = f
        BY <4>2
      <4>4. l.file = log.file \o log.buf
        BY <3>1, <4>2, <4>3 DEF Flushed
      <4>. QED BY <4>1, <4>4 DEF Written
    <3>3. Begins(l.file, w)
      BY <3>2, BeginsWhole
    <3>4. ReadsUpTo(l, w, d)
      BY <2>1, <3>2, <3>3, PrefixRead, Zenon
    <3>5. ReadLog(l).bytes = Positions(0, pos)
      BY <3>2, <3>4 DEF ReadsUpTo
    <3>. QED BY <3>1, <3>5
  <2>6. Len(log.buf) <= BufSize
    BY <1>0 DEF LogOK
  <2>. QED BY <1>0, <2>2, <2>3, <2>4, <2>5, <2>6
<1>. QED BY <1>0, <1>1, <1>2

\* The log invariant holds.
LEMMA LogInvAlways == TapSpec => [](TapOK /\ LogInv)
<1>1. TapInit => TapOK /\ LogInv
  BY TapOKInit, LogInvInit
<1>2. TapOK /\ LogInv /\ [TapNext]_tapVars => (TapOK /\ LogInv)'
  BY TapOKNext, LogInvNext
<1>. QED BY <1>1, <1>2, PTL DEF TapSpec

\* LogTrue: what is read back from the durable log is a prefix of the output, the
\* buffer has the rest unless the log broke, and nothing once the session has ended
\* (seslog.go:16-20, and Close).
THEOREM LogTrueAlways == TapSpec => []LogTrue
<1>1. TapOK /\ LogInv => LogTrue
  <2>. SUFFICES ASSUME TapOK, LogInv, clean
                PROVE  /\ ~ReadLog(log).garbage
                       /\ ReadLog(log).bytes = Positions(0, Len(ReadLog(log).bytes))
                       /\ sc.logged /\ ~log.broken =>
                            /\ ReadLog(Flushed(log)).bytes = Positions(0, pos)
                            /\ Len(log.buf) <= BufSize
                            /\ life = "exited" => ReadLog(log).bytes = ReadLog(Flushed(log)).bytes
    BY DEF LogTrue, Flushed
  <2>1. PICK b \in 0 .. pos :
             /\ ReadLog(log).bytes = Positions(0, b) /\ ReadLog(log).garbage = FALSE
             /\ sc.logged /\ ~ log.broken =>
                  /\ ReadLog(Flushed(log)).bytes = Positions(0, pos) /\ Len(log.buf) <= BufSize
                  /\ life = "exited" => b = pos
    BY LogReads
  <2>2. b \in Nat
    BY DEF TapOK
  <2>3. Len(Positions(0, b)) = b
    BY <2>2, PositionsType
  <2>. QED BY <2>1, <2>3
<1>. QED BY <1>1, LogInvAlways, PTL

-----------------------------------------------------------------------------
(* The tail command. *)

\* The sequence out is the output up to byte a and n bytes from b on, of q bytes that
\* are out; bytes are left out between the two only when the rest is a full ring.
Joins(out, a, b, n, q) ==
    /\ a \in Nat /\ b \in Nat /\ n \in Nat /\ a <= b /\ b + n <= q
    /\ out = Spliced(a, b, n) /\ Len(out) = a + n
    /\ a < b => n = RingCap

\* What tail has printed: the log's bytes, and after it attached those of the ring.
TailInv ==
    /\ tailer.at \in {"none", "attach", "failed", "done"}
    /\ clean /\ tailer.at # "done" => \E b \in 0 .. pos : tailer.out = Positions(0, b)
    /\ clean /\ tailer.at = "done" => \E a, b, n : Joins(tailer.out, a, b, n, pos)

\* The output up to b, and the rest of it.
LEMMA FromStart ==
    ASSUME NEW q \in Nat, NEW b \in 0 .. q
    PROVE  /\ b \in Nat /\ b <= q /\ Len(Positions(0, b)) = b
           /\ Positions(0, b) \o Positions(b, q) = Positions(0, q)
<1>1. b \in Nat /\ 0 \in Nat /\ 0 <= b /\ b <= q
  OBVIOUS
<1>2. Len(Positions(0, b)) = b - 0
  BY <1>1, PositionsType
<1>3. Positions(0, b) \o Positions(b, q) = Positions(0, q)
  BY <1>1, PositionsJoin
<1>. QED BY <1>1, <1>2, <1>3

\* A longer stream still has a beginning of that length.
LEMMA LongerTail ==
    ASSUME NEW p \in Nat, NEW q \in Nat, p <= q, NEW out, \E b \in 0 .. p : out = Positions(0, b)
    PROVE  \E b \in 0 .. q : out = Positions(0, b)
OBVIOUS

\* It holds at the beginning.
LEMMA TailInvInit == TapInit => TailInv
<1>. SUFFICES ASSUME TapInit PROVE TailInv
  OBVIOUS
<1>1. tailer = [at |-> "none", out |-> <<>>] /\ pos = 0
  BY DEF TapInit
<1>2. Positions(0, 0) = <<>>
  BY DEF Positions, Greater
<1>. QED BY <1>1, <1>2 DEF TailInv

\* The output up to byte a and what the ring has from there on.
LEMMA RingJoins ==
    ASSUME NEW q \in Nat, NEW a \in Nat, a <= q, NEW o \in Nat,
           o = IF q >= RingCap THEN q - RingCap ELSE 0,
           NEW f, f = IF a >= o THEN a ELSE o
    PROVE  \E n : Joins(Positions(0, a) \o Positions(f, q), a, f, n, q)
<1>1. f \in Nat /\ a <= f /\ f <= q /\ q - f \in Nat /\ f + (q - f) = q /\ (a < f => q - f = RingCap)
  BY RingCapAssumption
<1>2. /\ Positions(0, a) \in Seq(Nat) /\ Len(Positions(0, a)) = a
      /\ Positions(f, q) \in Seq(Nat) /\ Len(Positions(f, q)) = q - f
  <2>1. 0 <= a /\ a - 0 = a
    OBVIOUS
  <2>. QED BY <1>1, <2>1, PositionsType
<1>3. PICK s \in Seq(Nat), t \in Seq(Nat), n \in Nat :
        s = Positions(0, a) /\ t = Positions(f, q) /\ n = q - f /\ Len(s) = a /\ Len(t) = n
  BY <1>1, <1>2
<1>4. Len(s \o t) = a + n
  BY <1>3, ConcatProperties
<1>5. s \o t = Spliced(a, f, n)
  <2>1. f + n = q
    BY <1>1, <1>3
  <2>2. Spliced(a, f, n) = Positions(0, a) \o Positions(f, q)
    BY <2>1, Zenon DEF Spliced
  <2>. QED BY <1>3, <2>2, Zenon
<1>6. Joins(s \o t, a, f, n, q)
  <2>0. n = q - f
    BY <1>3, Zenon
  <2>1. f \in Nat /\ a <= f /\ f + n <= q /\ (a < f => n = RingCap)
    BY ONLY <1>1, <2>0, q \in Nat, a \in Nat
  <2>2. a \in Nat /\ n \in Nat
    BY <1>3
  <2>. QED BY ONLY <2>1, <2>2, <1>4, <1>5 DEF Joins
<1>7. Joins(Positions(0, a) \o Positions(f, q), a, f, n, q)
  BY <1>3, <1>6, Zenon
<1>. QED BY <1>7, Zenon

\* No step disturbs it.
LEMMA TailInvNext ==
    ASSUME TapOK, LogInv, TailInv, [TapNext]_tapVars
    PROVE  TailInv'
<1>0. /\ tailer.at \in {"none", "attach", "failed", "done"}
      /\ clean /\ tailer.at # "done" => \E b \in 0 .. pos : tailer.out = Positions(0, b)
      /\ clean /\ tailer.at = "done" => \E a, b, n : Joins(tailer.out, a, b, n, pos)
      /\ pos \in Nat /\ RingCap \in Nat
  BY RingCapAssumption DEF TailInv, TapOK
<1>1. ASSUME UNCHANGED tailer, pos' \in Nat, pos <= pos', clean' => clean PROVE TailInv'
  <2>1. ASSUME clean', tailer.at = "done" PROVE \E a, b, n : Joins(tailer.out, a, b, n, pos')
    <3>1. PICK a, b, n : Joins(tailer.out, a, b, n, pos)
      BY <1>0, <1>1, <2>1
    <3>2. Joins(tailer.out, a, b, n, pos')
      BY <1>0, <1>1, <3>1 DEF Joins
    <3>. QED BY <3>2
  <2>2. clean' /\ tailer.at # "done" => \E b \in 0 .. pos' : tailer.out = Positions(0, b)
    BY <1>0, <1>1, LongerTail
  <2>. QED BY <1>0, <1>1, <2>1, <2>2 DEF TailInv
<1>2. CASE TailLog
  <2>1. /\ tailer' = [at |-> IF ReadLog(log).ok THEN "attach" ELSE "failed", out |-> ReadLog(log).bytes]
        /\ UNCHANGED <<pos, clean>>
    BY <1>2 DEF TailLog
  <2>2. tailer'.at \in {"attach", "failed"} /\ tailer'.out = ReadLog(log).bytes
    BY <2>1
  <2>3. clean => \E b \in 0 .. pos : ReadLog(log).bytes = Positions(0, b)
    BY LogReads
  <2>. QED BY <2>1, <2>2, <2>3 DEF TailInv
<1>3. CASE TailAttach
  <2>1. /\ tailer.at = "attach" /\ UNCHANGED <<pos, clean>>
        /\ tailer' = [at |-> "done",
                      out |-> tailer.out \o Positions(Greater(Len(tailer.out), OldestKept), pos)]
    BY <1>3 DEF TailAttach
  <2>2. /\ tailer'.at = "done"
        /\ tailer'.out = tailer.out \o Positions(Greater(Len(tailer.out), OldestKept), pos)
    BY <2>1
  <2>3. ASSUME clean PROVE \E a, b, n : Joins(tailer'.out, a, b, n, pos)
    <3>1. PICK a \in Nat : tailer.out = Positions(0, a) /\ a <= pos
      BY <1>0, <2>1, <2>3
    <3>2. Len(tailer.out) = a
      <4>1. Len(Positions(0, a)) = a
        BY <1>0, <3>1, FromStart
      <4>. QED BY <3>1, <4>1
    <3>3. PICK o \in Nat : o = OldestKept /\ o = IF pos >= RingCap THEN pos - RingCap ELSE 0
      BY <1>0 DEF OldestKept, Greater
    <3>4. PICK f : f = Greater(Len(tailer.out), OldestKept)
      OBVIOUS
    <3>5. f = IF a >= o THEN a ELSE o
      BY <3>2, <3>3, <3>4 DEF Greater
    <3>6. \E n : Joins(Positions(0, a) \o Positions(f, pos), a, f, n, pos)
      BY <1>0, <3>1, <3>3, <3>5, RingJoins
    <3>7. tailer'.out = Positions(0, a) \o Positions(f, pos)
      BY <2>2, <3>1, <3>4
    <3>. QED BY <3>6, <3>7
  <2>. QED BY <2>1, <2>2, <2>3 DEF TailInv
<1>4. ASSUME NEW n \in 1 .. Len(bytes), PumpOutput(n) PROVE TailInv'
  <2>1. pos' = pos + n /\ n \in Nat /\ UNCHANGED <<tailer, clean>>
    BY <1>4 DEF PumpOutput, TapOK
  <2>. QED BY <1>0, <1>1, <2>1
<1>5. CASE TakenOver
  <2>1. UNCHANGED <<tailer, pos>> /\ (clean' => clean)
    BY <1>0, <1>5 DEF TakenOver
  <2>. QED BY <1>0, <1>1, <2>1
<1>6. CASE EmitNext \/ HousekeepingTick \/ Advance \/ EmitOther \/ Finish \/ Crash \/ UNCHANGED tapVars
  BY <1>0, <1>1, <1>6 DEF EmitNext, HousekeepingTick, Advance, EmitOther, Finish, Crash, tapVars, tvars
<1>7. CASE life # "crashed" /\ (\E c \in sc.conns : BusNext(c)) /\ UNCHANGED tvars
  BY <1>0, <1>1, <1>7 DEF tvars
<1>. QED BY <1>2, <1>3, <1>4, <1>5, <1>6, <1>7 DEF TapNext, PumpStep1, Terminated

\* TailSeamless: when tail comes to follow live it has printed the output from the first
\* byte on, each byte once and in order ("No overlap, no gap", tail.go:5), and left out
\* bytes only where the ring had lost some that were not in the log.
THEOREM TailSeamlessAlways == TapSpec => []TailSeamless
<1>1. TapInit => TapOK /\ LogInv /\ TailInv
  BY TapOKInit, LogInvInit, TailInvInit
<1>2. TapOK /\ LogInv /\ TailInv /\ [TapNext]_tapVars => (TapOK /\ LogInv /\ TailInv)'
  BY TapOKNext, LogInvNext, TailInvNext
<1>3. TapOK /\ TailInv => TailSeamless
  <2>. SUFFICES ASSUME TapOK, TailInv, tailer.at = "done", clean
                PROVE  \E n \in 0 .. Len(tailer.out), b \in 0 .. pos :
                         /\ tailer.out = Spliced(Len(tailer.out) - n, b, n)
                         /\ Len(tailer.out) - n <= b /\ (Len(tailer.out) - n < b => n = RingCap)
    BY DEF TailSeamless
  <2>1. PICK a, b, n : Joins(tailer.out, a, b, n, pos)
    BY DEF TailInv
  <2>2. PICK l \in Nat : l = Len(tailer.out) /\ n \in 0 .. l /\ b \in 0 .. pos /\ l - n = a
    BY <2>1 DEF Joins, TapOK
  <2>3. /\ tailer.out = Spliced(l - n, b, n) /\ l - n <= b /\ (l - n < b => n = RingCap)
    BY <2>1, <2>2 DEF Joins
  <2>. QED BY <2>2, <2>3
<1>. QED BY <1>1, <1>2, <1>3, PTL DEF TapSpec

-----------------------------------------------------------------------------
(* The bus beside the output. *)

\* What the session does to the bus is a step of the bus: an event is emitted, a
\* connection moves, or a takeover starts a new one.
LEMMA TapBusStep ==
    ASSUME TapOK, [TapNext]_tapVars
    PROVE  [BusStep]_bvars
<1>1. CASE EmitNext
  BY <1>1 DEF EmitNext, BusStep
<1>2. CASE EmitOther
  BY <1>2 DEF EmitOther, BusStep
<1>3. CASE TakenOver
  BY <1>3 DEF TakenOver, BusStep
<1>4. CASE \E c \in sc.conns : BusNext(c)
  <2>1. sc.conns \subseteq Conns
    BY ScenariosAssumption DEF TapOK
  <2>. QED BY <1>4, <2>1 DEF BusStep
<1>5. ASSUME NEW n \in 1 .. Len(bytes), PumpOutput(n) PROVE UNCHANGED bvars
  BY <1>5 DEF PumpOutput
<1>6. CASE HousekeepingTick \/ Advance \/ Finish \/ Crash \/ TailLog \/ TailAttach \/ UNCHANGED tapVars
  BY <1>6 DEF HousekeepingTick, Advance, Finish, Crash, TailLog, TailAttach, tapVars
<1>. QED BY <1>1, <1>2, <1>3, <1>4, <1>5, <1>6 DEF TapNext, PumpStep1, Terminated

\* The session's output, its log, its monitor and its takeovers use the bus as it is
\* meant to be used: their specification implies the bus's own.
THEOREM TapImplementsBus == TapSpec => BusSpec
<1>1. TapInit => BusInit
  BY DEF TapInit
<1>2. TapOK /\ [TapNext]_tapVars => [BusStep]_bvars
  BY TapBusStep
<1>. QED BY <1>1, <1>2, TapOKAlways, PTL DEF TapSpec, BusSpec

\* EventsAccounted: a subscriber gets the events of its scope in the order of emission,
\* none twice, and what it does not get is counted, with the session's own events.
THEOREM TapEventsAccounted == TapSpec => []EventsAccounted
BY TapImplementsBus, EventsAccountedAlways, PTL

-----------------------------------------------------------------------------
(* The events of some types. *)

\* What holds at first and is handed on holds up to n.
LEMMA UpTo ==
    ASSUME NEW n \in Nat, NEW T, 0 \in T, \A k \in 0 .. n - 1 : k \in T => k + 1 \in T
    PROVE  \A k \in 0 .. n : k \in T
<1>. DEFINE Bad == {k \in 0 .. n : k \notin T}
<1>1. SUFFICES ASSUME Bad # {} PROVE FALSE
  OBVIOUS
<1>2. PICK m \in Bad : \A k \in Bad : m <= k
  <2>1. Bad \subseteq Nat /\ Bad # {}
    BY <1>1
  <2>. HIDE DEF Bad
  <2>. QED BY <2>1, Least
<1>3. m \in 0 .. n /\ m \notin T /\ m # 0
  OBVIOUS
<1>4. PICK k \in 0 .. n - 1 : m = k + 1 /\ ~ (m <= k) /\ k \in 0 .. n
  <2>1. m - 1 \in 0 .. n - 1 /\ m = (m - 1) + 1 /\ ~ (m <= m - 1) /\ m - 1 \in 0 .. n
    BY <1>3
  <2>. QED BY <2>1
<1>5. k \in T
  <2>1. k \notin Bad
    BY <1>2, <1>4, Zenon
  <2>. QED BY <2>1, <1>4
<1>. QED BY <1>3, <1>4, <1>5

\* The events so far, and one more if it is of those types.
Picking(types, acc, e) == IF e.type \in types THEN Append(acc, e) ELSE acc

\* h is what has been picked as the events p go by.
Picked(S, types, p, h) ==
    /\ h[0] = <<>> /\ Only(types, p) = h[Len(p)]
    /\ \A k \in 0 .. Len(p) : h[k] \in Seq(S)
    /\ \A k \in 1 .. Len(p) : h[k] = Picking(types, h[k - 1], p[k])

\* Events are picked one by one.
LEMMA OnlyGrows ==
    ASSUME NEW S, NEW types, NEW p \in Seq(S)
    PROVE  \E h : Picked(S, types, p, h)
<1>. DEFINE M == Seq(S)
            m == <<>>
<1>1. PICK n \in Nat : n = Len(p) /\ DOMAIN p = 1 .. n
  OBVIOUS
<1>2. PICK F : F = [z \in M \X (1 .. n) |-> Picking(types, z[1], p[z[2]])]
  OBVIOUS
<1>3. \A x \in M, k \in 1 .. n : Picking(types, x, p[k]) \in M
  <2>1. SUFFICES ASSUME NEW x \in M, NEW k \in 1 .. n PROVE Picking(types, x, p[k]) \in M
    OBVIOUS
  <2>2. p[k] \in S
    BY <1>1, ElementOfSeq
  <2>3. Append(x, p[k]) \in M
    BY <2>2, AppendProperties
  <2>. QED BY <2>3 DEF Picking
<1>4. F \in [M \X (1 .. n) -> M]
  BY <1>2, <1>3
<1>5. \A x \in M, k \in 1 .. n : F[<<x, k>>] = Picking(types, x, p[k])
  BY <1>2
<1>6. m \in M
  OBVIOUS
<1>7. PICK t, h : Folds(n, M, F, m, t, h)
  <2>. HIDE DEF M
  <2>. QED BY <1>4, <1>6, FoldGrows
<1>8. t = [s \in SUBSET DOMAIN p |-> IF s = {} THEN m ELSE Picking(types, t[s \ {Max(s)}], p[Max(s)])]
  <2>1. t = [s \in SUBSET (1 .. n) |-> FoldStep(F, m, t, s)]
    BY <1>7 DEF Folds
  <2>2. ASSUME NEW s \in SUBSET (1 .. n)
        PROVE  FoldStep(F, m, t, s) = IF s = {} THEN m ELSE Picking(types, t[s \ {Max(s)}], p[Max(s)])
    <3>1. CASE s = {}
      BY <3>1 DEF FoldStep
    <3>2. CASE s # {}
      <4>1. Max(s) \in 1 .. n
        BY <3>2, MaxIn
      <4>2. t[s \ {Max(s)}] \in M
        <5>1. s \ {Max(s)} \in SUBSET (1 .. n)
          OBVIOUS
        <5>. HIDE DEF M
        <5>. QED BY <5>1, <1>7 DEF Folds
      <4>3. F[<<t[s \ {Max(s)}], Max(s)>>] = Picking(types, t[s \ {Max(s)}], p[Max(s)])
        <5>. HIDE DEF M
        <5>. QED BY <4>1, <4>2, <1>5, Zenon
      <4>. QED BY <3>2, <4>3, Zenon DEF FoldStep
    <3>. QED BY <3>1, <3>2
  <2>. QED BY <1>1, <2>1, <2>2
<1>. DEFINE iter[s \in SUBSET DOMAIN p] ==
        IF s = {} THEN m ELSE Picking(types, iter[s \ {Max(s)}], p[Max(s)])
<1>9. Only(types, p) = iter[DOMAIN p]
  BY DEF Only, FoldLeft, MapThenFoldSet, Picking
<1>10. iter = [s \in SUBSET DOMAIN p |->
                 IF s = {} THEN m ELSE Picking(types, iter[s \ {Max(s)}], p[Max(s)])]
  BY <1>8, Zenon
<1>. HIDE DEF iter
<1>11. \A s \in SUBSET (1 .. n) : t[s] = iter[s]
  <2>1. ASSUME NEW s \in SUBSET (1 .. n), s # {} => t[s \ {Max(s)}] = iter[s \ {Max(s)}]
        PROVE  t[s] = iter[s]
    <3>1. /\ t[s] = IF s = {} THEN m ELSE Picking(types, t[s \ {Max(s)}], p[Max(s)])
          /\ iter[s] = IF s = {} THEN m ELSE Picking(types, iter[s \ {Max(s)}], p[Max(s)])
      BY <1>1, <1>8, <1>10
    <3>. QED BY <2>1, <3>1
  <2>2. \A s \in SUBSET (1 .. n) : SameStep(t, iter, s)
    BY <2>1 DEF SameStep
  <2>. QED BY <2>2, FoldUnique, Zenon
<1>12. Only(types, p) = h[n]
  <2>1. 1 .. n \in SUBSET (1 .. n)
    OBVIOUS
  <2>2. h[n] = t[1 .. n]
    BY <1>7 DEF Folds
  <2>. QED BY <1>1, <1>9, <1>11, <2>1, <2>2, Zenon
<1>13. \A k \in 1 .. n : h[k] = Picking(types, h[k - 1], p[k])
  <2>1. SUFFICES ASSUME NEW k \in 1 .. n PROVE h[k] = Picking(types, h[k - 1], p[k])
    OBVIOUS
  <2>2. k - 1 \in 0 .. n
    OBVIOUS
  <2>. HIDE DEF M
  <2>3. h[k] = F[<<h[k - 1], k>>] /\ h[k - 1] \in M
    BY <2>2, <1>7 DEF Folds
  <2>. QED BY <2>3, <1>5, Zenon
<1>14. h[0] = m /\ \A k \in 0 .. n : h[k] \in M
  <2>. HIDE DEF M
  <2>. QED BY <1>7 DEF Folds
<1>. QED BY <1>1, <1>12, <1>13, <1>14, Zenon DEF Picked

\* Picking from two sequences, one after the other.
LEMMA OnlyConcat ==
    ASSUME NEW S, NEW types, NEW p \in Seq(S), NEW q \in Seq(S)
    PROVE  /\ Only(types, p) \in Seq(S)
           /\ Only(types, p \o q) = Only(types, p) \o Only(types, q)
<1>1. PICK m \in Nat, n \in Nat : m = Len(p) /\ n = Len(q)
  OBVIOUS
<1>2. PICK r \in Seq(S) : r = p \o q
  BY ConcatProperties
<1>3. /\ Len(r) = m + n /\ \A k \in 1 .. m : r[k] = p[k]
      /\ \A k \in 1 .. n : r[m + k] = q[k]
  <2>1. Len(r) = m + n /\ \A i \in 1 .. m + n : r[i] = IF i <= m THEN p[i] ELSE q[i - m]
    BY <1>1, <1>2, ConcatProperties, Zenon
  <2>. HIDE <1>2
  <2>2. \A k \in 1 .. n : m + k \in 1 .. m + n /\ ~ (m + k <= m) /\ (m + k) - m = k
    OBVIOUS
  <2>3. \A k \in 1 .. m : k \in 1 .. m + n /\ k <= m
    OBVIOUS
  <2>. QED BY <2>1, <2>2, <2>3
<1>4. PICK f, g, h : Picked(S, types, p, f) /\ Picked(S, types, q, g) /\ Picked(S, types, r, h)
  BY <1>2, OnlyGrows
<1>5. /\ f[0] = <<>> /\ Only(types, p) = f[m]
      /\ \A k \in 0 .. m : f[k] \in Seq(S)
      /\ \A k \in 1 .. m : f[k] = Picking(types, f[k - 1], p[k])
  BY <1>1, <1>4, Zenon DEF Picked
<1>6. /\ g[0] = <<>> /\ Only(types, q) = g[n]
      /\ \A k \in 0 .. n : g[k] \in Seq(S)
      /\ \A k \in 1 .. n : g[k] = Picking(types, g[k - 1], q[k])
  BY <1>1, <1>4, Zenon DEF Picked
<1>7. /\ h[0] = <<>> /\ Only(types, r) = h[m + n]
      /\ \A k \in 1 .. m + n : h[k] = Picking(types, h[k - 1], r[k])
  BY <1>3, <1>4, Zenon DEF Picked
<1>8. \A k \in 0 .. m : h[k] = f[k]
  <2>. DEFINE T == {k \in 0 .. m : h[k] = f[k]}
  <2>1. 0 \in T
    BY <1>5, <1>7
  <2>2. ASSUME NEW k \in 0 .. m - 1, k \in T PROVE k + 1 \in T
    <3>1. k + 1 \in 1 .. m /\ k + 1 \in 1 .. m + n /\ (k + 1) - 1 = k
      OBVIOUS
    <3>2. h[k + 1] = Picking(types, h[k], r[k + 1]) /\ f[k + 1] = Picking(types, f[k], p[k + 1])
      BY <3>1, <1>5, <1>7
    <3>. QED BY <2>2, <3>1, <3>2, <1>3
  <2>. HIDE DEF T
  <2>3. \A k \in 0 .. m : k \in T
    BY <2>1, <2>2, UpTo
  <2>. QED BY <2>3 DEF T
<1>9. \A k \in 0 .. n : h[m + k] = f[m] \o g[k]
  <2>. DEFINE T == {k \in 0 .. n : h[m + k] = f[m] \o g[k]}
  <2>0. PICK u \in Seq(S) : u = f[m]
    BY <1>5
  <2>1. 0 \in T
    <3>1. u \o <<>> = u
      BY ConcatEmptySeq
    <3>2. m + 0 = m /\ h[m] = f[m]
      <4>1. m \in 0 .. m /\ m + 0 = m
        OBVIOUS
      <4>. QED BY <4>1, <1>8, Zenon
    <3>3. h[m + 0] = f[m] \o g[0]
      BY <3>1, <3>2, <2>0, <1>6, Zenon
    <3>4. 0 \in 0 .. n
      OBVIOUS
    <3>. QED BY <3>3, <3>4
  <2>2. ASSUME NEW k \in 0 .. n - 1, k \in T PROVE k + 1 \in T
    <3>1. /\ k + 1 \in 1 .. n /\ m + (k + 1) \in 1 .. m + n /\ (m + (k + 1)) - 1 = m + k
          /\ (k + 1) - 1 = k /\ k \in 0 .. n /\ k + 1 \in 0 .. n
      OBVIOUS
    <3>2. h[m + (k + 1)] = Picking(types, h[m + k], r[m + (k + 1)])
      BY <3>1, <1>7
    <3>3. g[k + 1] = Picking(types, g[k], q[k + 1]) /\ r[m + (k + 1)] = q[k + 1]
      BY <3>1, <1>3, <1>6
    <3>4. PICK v \in Seq(S), e \in S : v = g[k] /\ e = q[k + 1]
      BY <3>1, <1>1, <1>6, ElementOfSeq
    <3>5. h[m + k] = u \o v
      BY <2>0, <2>2, <3>4
    <3>6. Append(u \o v, e) = u \o Append(v, e)
      <4>1. AppendsAtEnd(u, v, e)
        BY ONLY u \in Seq(S), v \in Seq(S), e \in S, AppendMore
      <4> QED BY ONLY <4>1 DEF AppendsAtEnd
    <3>7. h[m + (k + 1)] = Picking(types, u \o v, e) /\ g[k + 1] = Picking(types, v, e)
      BY <3>2, <3>3, <3>4, <3>5
    <3>8. Picking(types, u \o v, e) = u \o Picking(types, v, e)
      BY <3>6 DEF Picking
    <3>. QED BY <2>0, <3>1, <3>7, <3>8
  <2>. HIDE DEF T
  <2>3. \A k \in 0 .. n : k \in T
    BY <2>1, <2>2, UpTo
  <2>. QED BY <2>3 DEF T
<1>10. n \in 0 .. n /\ m \in 0 .. m
  OBVIOUS
<1>. QED BY <1>2, <1>5, <1>6, <1>7, <1>9, <1>10

\* Picking from one event or from none.
LEMMA OnlyOne ==
    ASSUME NEW types
    PROVE  /\ Only(types, <<>>) = <<>>
           /\ \A e : Only(types, <<e>>) = IF e.type \in types THEN <<e>> ELSE <<>>
<1>1. Only(types, <<>>) = <<>>
  <2>1. <<>> \in Seq({}) /\ Len(<<>>) = 0
    OBVIOUS
  <2>2. PICK h : Picked({}, types, <<>>, h)
    BY <2>1, OnlyGrows
  <2>. QED BY <2>1, <2>2 DEF Picked
<1>2. ASSUME NEW e PROVE Only(types, <<e>>) = IF e.type \in types THEN <<e>> ELSE <<>>
  <2>1. <<e>> \in Seq({e}) /\ Len(<<e>>) = 1 /\ <<e>>[1] = e /\ 1 \in 1 .. 1 /\ 1 - 1 = 0
    OBVIOUS
  <2>2. PICK h : Picked({e}, types, <<e>>, h)
    BY <2>1, OnlyGrows
  <2>3. h[0] = <<>> /\ Only(types, <<e>>) = h[1] /\ h[1] = Picking(types, h[1 - 1], <<e>>[1])
    BY <2>1, <2>2 DEF Picked
  <2>4. h[1] = Picking(types, <<>>, e)
    BY <2>1, <2>3
  <2>5. Append(<<>>, e) = <<e>>
    OBVIOUS
  <2>. QED BY <2>3, <2>4, <2>5 DEF Picking
<1>. QED BY <1>1, <1>2

-----------------------------------------------------------------------------
(* The items of a script on the wire. *)

\* at[k] is where the first k items end, and each is on the wire where the last ended.
Laid(script, at) ==
    /\ at[0] = 0 /\ at[Len(script)] = Len(Wire(script))
    /\ \A k \in 0 .. Len(script) : at[k] \in Nat
    /\ \A k \in 1 .. Len(script) :
         /\ at[k] = at[k - 1] + Len(Symbols[script[k]])
         /\ \A j \in 1 .. Len(Symbols[script[k]]) :
              Wire(script)[at[k - 1] + j] = Symbols[script[k]][j]

\* Every script is laid out on the wire item by item.
LEMMA WireLaid ==
    ASSUME NEW p \in Seq(DOMAIN Symbols)
    PROVE  \E at : Laid(p, at)
<1>1. PICK h : Wired(p, h)
  BY WireGrows
<1>2. PICK n \in Nat : n = Len(p)
  OBVIOUS
<1>3. /\ h[0] = <<>> /\ Wire(p) = h[n] /\ \A k \in 0 .. n : h[k] \in Seq(Symbol)
      /\ \A k \in 1 .. n : h[k] = Glue(h[k - 1], p[k])
  BY <1>1, <1>2 DEF Wired
<1>4. PICK at : at = [k \in 0 .. n |-> Len(h[k])]
  OBVIOUS
<1>5. \A k \in 0 .. n : at[k] = Len(h[k]) /\ at[k] \in Nat
  BY <1>3, <1>4
<1>6. ASSUME NEW k \in 1 .. n
      PROVE  /\ at[k] = at[k - 1] + Len(Symbols[p[k]]) /\ Len(Symbols[p[k]]) \in 1 .. 5
             /\ \A i \in 1 .. at[k - 1] : h[k][i] = h[k - 1][i]
             /\ \A j \in 1 .. Len(Symbols[p[k]]) : h[k][at[k - 1] + j] = Symbols[p[k]][j]
  <2>1. k - 1 \in 0 .. n /\ k \in 0 .. n
    OBVIOUS
  <2>2. PICK x \in Seq(Symbol), item \in DOMAIN Symbols : x = h[k - 1] /\ item = p[k]
    BY <2>1, <1>2, <1>3, ElementOfSeq
  <2>3. /\ Len(Glue(x, item)) = Len(x) + Len(Symbols[item])
        /\ \A i \in 1 .. Len(x) : Glue(x, item)[i] = x[i]
        /\ \A i \in 1 .. Len(Symbols[item]) : Glue(x, item)[Len(x) + i] = Symbols[item][i]
        /\ Len(Symbols[item]) \in 1 .. 5
    BY GlueType, SymbolsType
  <2>4. h[k] = Glue(x, item) /\ at[k - 1] = Len(x) /\ at[k] = Len(Glue(x, item))
    BY <2>1, <2>2, <1>3, <1>5
  <2>. QED BY <2>2, <2>3, <2>4, Zenon
<1>7. ASSUME NEW k \in 0 .. n
      PROVE  \A m \in 0 .. n : k <= m => at[k] <= at[m] /\ \A i \in 1 .. at[k] : h[m][i] = h[k][i]
  <2>. DEFINE T == {m \in 0 .. n : k <= m => at[k] <= at[m] /\ \A i \in 1 .. at[k] : h[m][i] = h[k][i]}
  <2>1. 0 \in T
    <3>1. k <= 0 => k = 0
      OBVIOUS
    <3>. QED BY <3>1, <1>5
  <2>2. ASSUME NEW m \in 0 .. n - 1, m \in T PROVE m + 1 \in T
    <3>1. CASE k <= m
      <4>1. m + 1 \in 1 .. n /\ (m + 1) - 1 = m /\ m \in 0 .. n /\ m + 1 \in 0 .. n
        OBVIOUS
      <4>2. /\ at[m + 1] = at[m] + Len(Symbols[p[m + 1]]) /\ Len(Symbols[p[m + 1]]) \in 1 .. 5
            /\ \A i \in 1 .. at[m] : h[m + 1][i] = h[m][i]
        BY <1>6, <4>1
      <4>3. at[k] \in Nat /\ at[m] \in Nat /\ at[m + 1] \in Nat
        BY <1>5, <4>1
      <4>4. at[k] <= at[m] /\ \A i \in 1 .. at[k] : h[m][i] = h[k][i]
        BY <2>2, <3>1
      <4>5. at[k] <= at[m + 1]
        BY <4>2, <4>3, <4>4
      <4>6. \A i \in 1 .. at[k] : i \in 1 .. at[m]
        BY <4>3, <4>4
      <4>7. \A i \in 1 .. at[k] : h[m + 1][i] = h[k][i]
        BY <4>2, <4>4, <4>6, Zenon
      <4>. QED BY <4>1, <4>5, <4>7
    <3>2. CASE k = m + 1
      <4>1. m + 1 \in 0 .. n /\ at[m + 1] \in Nat
        BY <1>5, <3>2
      <4>. QED BY <4>1, <3>2
    <3>3. CASE ~ (k <= m + 1)
      BY <3>3
    <3>. QED BY <3>1, <3>2, <3>3
  <2>. HIDE DEF T
  <2>3. \A m \in 0 .. n : m \in T
    BY <2>1, <2>2, UpTo
  <2>. QED BY <2>3 DEF T
<1>8. ASSUME NEW k \in 1 .. n, NEW j \in 1 .. Len(Symbols[p[k]])
      PROVE  Wire(p)[at[k - 1] + j] = Symbols[p[k]][j]
  <2>1. k \in 0 .. n /\ n \in 0 .. n /\ k <= n /\ k - 1 \in 0 .. n
    OBVIOUS
  <2>2. \A i \in 1 .. at[k] : h[n][i] = h[k][i]
    BY <2>1, <1>7
  <2>3. PICK a \in Nat, l \in 1 .. 5 : a = at[k - 1] /\ l = Len(Symbols[p[k]]) /\ at[k] = a + l
    BY <2>1, <1>5, <1>6
  <2>4. j \in 1 .. l
    BY <2>3
  <2>5. a + j \in 1 .. a + l
    BY <2>4
  <2>. QED BY <2>2, <2>3, <2>5, <1>3, <1>6
<1>9. at[0] = 0 /\ at[n] = Len(Wire(p))
  <2>1. 0 \in 0 .. n /\ n \in 0 .. n /\ Len(<<>>) = 0
    OBVIOUS
  <2>. QED BY <2>1, <1>3, <1>5
<1>10. Laid(p, at)
  BY <1>2, <1>5, <1>6, <1>8, <1>9, Zenon DEF Laid
<1>. QED BY <1>10

\* Items come one after the other.
LEMMA LaidInOrder ==
    ASSUME NEW p \in Seq(DOMAIN Symbols), NEW at, Laid(p, at)
    PROVE  \A k, m \in 0 .. Len(p) : k < m => at[k] < at[m]
<1>1. PICK n \in Nat : n = Len(p)
  OBVIOUS
<1>2. SUFFICES ASSUME NEW k \in 0 .. n PROVE \A m \in 0 .. n : k < m => at[k] < at[m]
  BY <1>1
<1>. DEFINE T == {m \in 0 .. n : k < m => at[k] < at[m]}
<1>3. 0 \in T
  OBVIOUS
<1>4. ASSUME NEW m \in 0 .. n - 1, m \in T PROVE m + 1 \in T
  <2>1. m + 1 \in 1 .. n /\ (m + 1) - 1 = m /\ m \in 0 .. n /\ m + 1 \in 0 .. n
    OBVIOUS
  <2>2. at[m + 1] = at[m] + Len(Symbols[p[m + 1]])
    BY <2>1, <1>1 DEF Laid
  <2>3. Len(Symbols[p[m + 1]]) \in 1 .. 5
    BY <2>1, <1>1, ElementOfSeq, SymbolsType
  <2>4. at[k] \in Nat /\ at[m] \in Nat
    BY <2>1, <1>1 DEF Laid
  <2>5. k < m + 1 => k < m \/ k = m
    OBVIOUS
  <2>6. k < m + 1 => at[k] < at[m + 1]
    <3>1. PICK x \in Nat, y \in Nat, l \in 1 .. 5 :
            x = at[k] /\ y = at[m] /\ l = Len(Symbols[p[m + 1]]) /\ at[m + 1] = y + l
      BY <2>2, <2>3, <2>4
    <3>2. k < m => x < y
      BY <1>4, <3>1
    <3>3. k = m => x = y
      BY <3>1
    <3>4. k < m + 1 => x < y + l
      BY <2>5, <3>2, <3>3
    <3>. QED BY <3>1, <3>4
  <2>. QED BY <2>1, <2>6
<1>. HIDE DEF T
<1>5. \A m \in 0 .. n : m \in T
  BY <1>3, <1>4, UpTo
<1>. QED BY <1>5 DEF T

-----------------------------------------------------------------------------
(* The scanner inside an item. *)

Marks == {"bell", "started", "finished"}

\* What an item is reported as when it ends at to and the open command began at cmd.
Report(cmd, item, to) ==
    CASE item = "bell"   -> <<[type |-> "bell", start |-> 0, end |-> 0]>>
      [] item = "cstart" -> <<[type |-> "started", start |-> to, end |-> 0]>>
      [] item = "cend"   -> <<[type |-> "finished", start |-> cmd, end |-> to]>>
      [] OTHER -> <<>>

\* The scanner after the first j symbols of an item.
Inside(m, item, j) ==
    /\ j = 0 => m.osc = "ground"
    /\ j = 1 => m.osc = "esc"
    /\ j = 2 => m.osc = "osc" /\ m.payload = NoPayload
    /\ j = 3 => m.osc = "osc" /\ m.payload = Symbols[item][3]
    /\ j = 4 => m.osc = "oscEsc" /\ m.payload = Symbols[item][3]

\* What a step of the scanner leaves as it is.
Unmoved(m, n) ==
    /\ n.cmdStart = m.cmdStart /\ n.out = m.out /\ n.silent = m.silent
    /\ n.lastStart = m.lastStart /\ n.lastEnd = m.lastEnd

\* The symbol that ends a command makes it the last one; any other leaves it as it is.
Closes(m, n, ends) ==
    /\ n.lastStart = IF ends THEN m.cmdStart ELSE m.lastStart
    /\ n.lastEnd = IF ends THEN m.streamPos + 1 ELSE m.lastEnd

\* A symbol that ends nothing changes the state of the scanner only.
LEMMA ScanInside ==
    ASSUME NEW m \in Mon, NEW b \in Symbol
    PROVE  /\ m.osc = "ground" /\ b \notin {"ESC", "BEL"} =>
                ScanByte(m, b).osc = "ground" /\ Unmoved(m, ScanByte(m, b))
           /\ m.osc = "ground" /\ b = "ESC" =>
                ScanByte(m, b).osc = "esc" /\ Unmoved(m, ScanByte(m, b))
           /\ m.osc = "esc" /\ b # "]" =>
                ScanByte(m, b).osc = "ground" /\ Unmoved(m, ScanByte(m, b))
           /\ m.osc = "esc" /\ b = "]" =>
                /\ ScanByte(m, b).osc = "osc" /\ ScanByte(m, b).payload = NoPayload
                /\ Unmoved(m, ScanByte(m, b))
           /\ m.osc = "osc" /\ m.payload = NoPayload /\ b \notin {"BEL", "ESC"} =>
                /\ ScanByte(m, b).osc = "osc" /\ ScanByte(m, b).payload = b
                /\ Unmoved(m, ScanByte(m, b))
           /\ m.osc = "osc" /\ b = "ESC" =>
                /\ ScanByte(m, b).osc = "oscEsc" /\ ScanByte(m, b).payload = m.payload
                /\ Unmoved(m, ScanByte(m, b))
<1>1. PICK n : n = [m EXCEPT !.streamPos = @ + 1]
  OBVIOUS
<1>2. n \in Mon /\ n.osc = m.osc /\ n.payload = m.payload /\ Unmoved(m, n)
  <2>0. m.streamPos + 1 \in Nat
    BY DEF Mon
  <2>1. n \in Mon
    BY <1>1, <2>0 DEF Mon
  <2>3. n.osc = m.osc /\ n.payload = m.payload
    BY <1>1 DEF Mon
  <2>2. /\ n.cmdStart = m.cmdStart /\ n.out = m.out /\ n.silent = m.silent
        /\ n.lastStart = m.lastStart /\ n.lastEnd = m.lastEnd
    BY <1>1 DEF Mon
  <2>. QED BY <2>1, <2>2, <2>3 DEF Unmoved
<1>3. m.osc = "ground" /\ b \notin {"ESC", "BEL"} => ScanByte(m, b) = n
  BY <1>1 DEF ScanByte
<1>4. /\ m.osc = "ground" /\ b = "ESC" => ScanByte(m, b) = [n EXCEPT !.osc = "esc"]
      /\ m.osc = "esc" /\ b # "]" => ScanByte(m, b) = [n EXCEPT !.osc = "ground"]
      /\ m.osc = "osc" /\ b = "ESC" => ScanByte(m, b) = [n EXCEPT !.osc = "oscEsc"]
  BY <1>1 DEF ScanByte
<1>5. m.osc = "osc" /\ m.payload = NoPayload /\ b \notin {"BEL", "ESC"} =>
        ScanByte(m, b) = [n EXCEPT !.payload = b]
  BY <1>1 DEF ScanByte
<1>6. m.osc = "esc" /\ b = "]" => ScanByte(m, b) = [n EXCEPT !.osc = "osc", !.payload = NoPayload]
  BY <1>1 DEF ScanByte
<1>7. PICK q : q = [n EXCEPT !.osc = "osc"]
  OBVIOUS
<1>8. q \in Mon /\ q.osc = "osc" /\ Unmoved(m, q)
  BY <1>2, <1>7 DEF Mon, Unmoved
<1>9. m.osc = "esc" /\ b = "]" => ScanByte(m, b) = [q EXCEPT !.payload = NoPayload]
  BY <1>6, <1>7
<1>. QED BY <1>2, <1>3, <1>4, <1>5, <1>8, <1>9 DEF Mon, Unmoved

\* The symbol that ends a bell or an OSC sequence reports it.
LEMMA ScanEnds ==
    ASSUME NEW m \in Mon, NEW b \in Symbol, InOrder(m)
    PROVE  /\ m.osc = "ground" /\ b = "BEL" =>
                /\ ScanByte(m, b).osc = "ground" /\ ScanByte(m, b).cmdStart = m.cmdStart
                /\ ScanByte(m, b).silent = m.silent /\ Closes(m, ScanByte(m, b), FALSE)
                /\ ScanByte(m, b).out = Append(m.out, [type |-> "bell", start |-> 0, end |-> 0])
           /\ (m.osc = "osc" /\ b = "BEL") \/ (m.osc = "oscEsc" /\ b = "ST") =>
                /\ ScanByte(m, b).osc = "ground" /\ ScanByte(m, b).silent = m.silent
                /\ Closes(m, ScanByte(m, b), m.payload = "D")
                /\ ScanByte(m, b).cmdStart =
                     IF m.payload = "C" THEN m.streamPos + 1 ELSE m.cmdStart
                /\ m.payload = "C" => ScanByte(m, b).out =
                     Append(m.out, [type |-> "started", start |-> m.streamPos + 1, end |-> 0])
                /\ m.payload = "D" => ScanByte(m, b).out =
                     Append(m.out, [type |-> "finished", start |-> m.cmdStart,
                                    end |-> m.streamPos + 1])
                /\ m.payload \notin {"C", "D"} => ScanByte(m, b).out = m.out
<1>1. PICK n : n = [m EXCEPT !.streamPos = @ + 1]
  OBVIOUS
<1>2. n \in Mon /\ n.streamPos = m.streamPos + 1 /\ n.payload = m.payload /\ n.osc = m.osc
      /\ Unmoved(m, n) /\ n.streamPos \in Nat /\ n.cmdStart \in Nat
  BY <1>1 DEF Mon, Unmoved
<1>3. CASE m.osc = "ground" /\ b = "BEL"
  <2>1. ScanByte(m, b) = Emitting(n, "bell", 0, 0)
    BY <1>1, <1>3 DEF ScanByte
  <2>2. Emitting(n, "bell", 0, 0) = WithOut(n, NewOut(n, "bell", 0, 0))
    <3>1. PICK ty \in Kinds : ty = "bell"
      BY DEF Kinds
    <3>2. Emitting(n, ty, 0, 0) = WithOut(n, NewOut(n, ty, 0, 0))
      BY <1>2, EmittingType
    <3>. QED BY <3>1, <3>2
  <2>3. PICK o : o = NewOut(n, "bell", 0, 0)
    OBVIOUS
  <2>4. ScanByte(m, b) = WithOut(n, o)
    BY <2>1, <2>2, <2>3
  <2>5. /\ ScanByte(m, b).osc = n.osc /\ ScanByte(m, b).cmdStart = n.cmdStart
        /\ ScanByte(m, b).silent = n.silent /\ ScanByte(m, b).out = o
        /\ ScanByte(m, b).lastStart = n.lastStart /\ ScanByte(m, b).lastEnd = n.lastEnd
    BY <2>4, <1>2 DEF WithOut, Mon
  <2>6. o = Append(m.out, [type |-> "bell", start |-> 0, end |-> 0])
    BY <2>3, <1>2 DEF NewOut, Unmoved
  <2>. QED BY <2>5, <2>6, <1>2, <1>3 DEF Unmoved, Closes
<1>4. CASE (m.osc = "osc" /\ b = "BEL") \/ (m.osc = "oscEsc" /\ b = "ST")
  <2>0. PICK q : q = [n EXCEPT !.osc = "ground"]
    OBVIOUS
  <2>1. q \in Mon /\ q.osc = "ground" /\ q.payload = m.payload /\ Unmoved(m, q)
        /\ q.streamPos = m.streamPos + 1 /\ q.streamPos \in Nat /\ q.cmdStart \in Nat
    BY <1>2, <2>0 DEF Mon, Unmoved
  <2>2. ScanByte(m, b) = FinishOSC(q, q.streamPos)
    BY <1>1, <1>2, <1>4, <2>0, <2>1 DEF ScanByte
  <2>3. CASE m.payload = "C"
    <3>1. PICK r : r = [q EXCEPT !.cmdStart = q.streamPos]
      OBVIOUS
    <3>2. r \in Mon /\ r.osc = "ground" /\ r.cmdStart = m.streamPos + 1 /\ r.out = m.out
          /\ r.silent = m.silent /\ r.lastStart = m.lastStart /\ r.lastEnd = m.lastEnd
      BY <2>1, <3>1 DEF Mon, Unmoved
    <3>3. Emitting(r, "started", q.streamPos, 0) = WithOut(r, NewOut(r, "started", q.streamPos, 0))
      <4>1. PICK ty \in Kinds : ty = "started"
        BY DEF Kinds
      <4>2. Emitting(r, ty, q.streamPos, 0) = WithOut(r, NewOut(r, ty, q.streamPos, 0))
        BY <2>1, <3>2, EmittingType
      <4>. QED BY <4>1, <4>2
    <3>4. PICK o : o = NewOut(r, "started", q.streamPos, 0)
      OBVIOUS
    <3>5. ScanByte(m, b) = WithOut(r, o)
      BY <2>1, <2>2, <2>3, <3>1, <3>3, <3>4 DEF FinishOSC
    <3>6. /\ ScanByte(m, b).osc = "ground" /\ ScanByte(m, b).cmdStart = m.streamPos + 1
          /\ ScanByte(m, b).silent = m.silent /\ ScanByte(m, b).out = o
          /\ ScanByte(m, b).lastStart = m.lastStart /\ ScanByte(m, b).lastEnd = m.lastEnd
      BY <3>2, <3>5 DEF WithOut, Mon
    <3>7. o = Append(m.out, [type |-> "started", start |-> m.streamPos + 1, end |-> 0])
      BY <3>2, <3>4, <2>1 DEF NewOut
    <3>. QED BY <3>6, <3>7, <2>3, <1>4 DEF Closes
  <2>4. CASE m.payload = "D"
    <3>1. PICK x : x = [q EXCEPT !.lastStart = q.cmdStart]
      OBVIOUS
    <3>2. PICK r : r = [x EXCEPT !.lastEnd = q.streamPos]
      OBVIOUS
    <3>3. r = [q EXCEPT !.lastStart = q.cmdStart, !.lastEnd = q.streamPos]
      BY <3>1, <3>2
    <3>4. /\ x \in Mon /\ x.osc = "ground" /\ x.cmdStart = m.cmdStart /\ x.out = m.out
          /\ x.silent = m.silent /\ x.lastStart = m.cmdStart
      BY <2>1, <3>1 DEF Mon, Unmoved
    <3>5. /\ r \in Mon /\ r.osc = "ground" /\ r.cmdStart = m.cmdStart /\ r.out = m.out
          /\ r.silent = m.silent /\ r.lastStart = m.cmdStart /\ r.lastEnd = m.streamPos + 1
      BY <2>1, <3>2, <3>4 DEF Mon
    <3>6. Emitting(r, "finished", q.cmdStart, q.streamPos)
            = WithOut(r, NewOut(r, "finished", q.cmdStart, q.streamPos))
      <4>1. PICK ty \in Kinds : ty = "finished"
        BY DEF Kinds
      <4>2. Emitting(r, ty, q.cmdStart, q.streamPos) = WithOut(r, NewOut(r, ty, q.cmdStart, q.streamPos))
        BY <2>1, <3>5, EmittingType
      <4>. QED BY <4>1, <4>2
    <3>7. PICK o : o = NewOut(r, "finished", q.cmdStart, q.streamPos)
      OBVIOUS
    <3>8. ScanByte(m, b) = WithOut(r, o)
      BY <2>1, <2>2, <2>4, <3>3, <3>6, <3>7 DEF FinishOSC
    <3>9. /\ ScanByte(m, b).osc = "ground" /\ ScanByte(m, b).cmdStart = r.cmdStart
          /\ ScanByte(m, b).silent = r.silent /\ ScanByte(m, b).out = o
          /\ ScanByte(m, b).lastStart = r.lastStart /\ ScanByte(m, b).lastEnd = r.lastEnd
      BY <3>5, <3>8 DEF WithOut, Mon
    <3>10. o = Append(m.out, [type |-> "finished", start |-> m.cmdStart, end |-> m.streamPos + 1])
      BY <3>5, <3>7, <2>1 DEF NewOut, Unmoved
    <3>. QED BY <3>5, <3>9, <3>10, <2>4, <1>4 DEF Closes
  <2>5. CASE m.payload \notin {"C", "D"}
    <3>1. ScanByte(m, b) = q
      BY <2>1, <2>2, <2>5 DEF FinishOSC
    <3>. QED BY <3>1, <2>1, <2>5, <1>4 DEF Unmoved, Closes
  <2>. QED BY <2>3, <2>4, <2>5
<1>. QED BY <1>3, <1>4

\* The events of some types in two calls.
LEMMA OnlyJoin ==
    \A types : \A p, q \in Seq(EventRec) :
        /\ Only(types, p) \in Seq(EventRec)
        /\ Only(types, p \o q) = Only(types, p) \o Only(types, q)
BY OnlyConcat

\* Three runs of events make one.
LEMMA ThreeRuns ==
    ASSUME NEW p \in Seq(EventRec), NEW q \in Seq(EventRec), NEW r \in Seq(EventRec)
    PROVE  p \o (q \o r) = (p \o q) \o r
<1>1. PICK S : S = EventRec
  OBVIOUS
<1>2. p \in Seq(S) /\ q \in Seq(S) /\ r \in Seq(S)
  BY <1>1
<1>. QED BY <1>2, ConcatAssociative

\* An item reports at most one event.
LEMMA ReportAdds ==
    ASSUME NEW m \in Mon, InOrder(m), NEW item \in DOMAIN Symbols, NEW cmd \in Nat, NEW to \in Nat
    PROVE  /\ Report(cmd, item, to) \in Seq(EventRec)
           /\ Only(Marks, Report(cmd, item, to)) = Report(cmd, item, to)
           /\ Only({"silence"}, Report(cmd, item, to)) = <<>>
           /\ item = "bell" => m.out \o Report(cmd, item, to)
                = Append(m.out, [type |-> "bell", start |-> 0, end |-> 0])
           /\ item = "cstart" => m.out \o Report(cmd, item, to)
                = Append(m.out, [type |-> "started", start |-> to, end |-> 0])
           /\ item = "cend" => m.out \o Report(cmd, item, to)
                = Append(m.out, [type |-> "finished", start |-> cmd, end |-> to])
           /\ item \in {"text", "title", "csi"} => m.out \o Report(cmd, item, to) = m.out
<1>1. m.out \in Seq(EventRec)
  BY DEF Mon
<1>2. ASSUME NEW e \in EventRec, e.type \in Marks, Report(cmd, item, to) = <<e>>
      PROVE  /\ Report(cmd, item, to) \in Seq(EventRec)
             /\ Only(Marks, Report(cmd, item, to)) = Report(cmd, item, to)
             /\ Only({"silence"}, Report(cmd, item, to)) = <<>>
             /\ m.out \o Report(cmd, item, to) = Append(m.out, e)
  <2>1. <<e>> \in Seq(EventRec)
    OBVIOUS
  <2>2. Append(m.out, e) = m.out \o <<e>>
    BY <1>1, AppendIsConcat
  <2>3. Only(Marks, <<e>>) = <<e>>
    BY <1>2, OnlyOne
  <2>4. e.type \notin {"silence"}
    BY <1>2 DEF Marks
  <2>5. Only({"silence"}, <<e>>) = <<>>
    BY <2>4, OnlyOne
  <2>. QED BY <1>2, <2>1, <2>2, <2>3, <2>5
<1>3. item \in {"text", "bell", "cstart", "cend", "title", "csi"}
  BY DEF Symbols
<1>4. CASE item = "bell"
  <2>1. PICK e \in EventRec : e = [type |-> "bell", start |-> 0, end |-> 0]
    BY DEF EventRec, Kinds
  <2>2. Report(cmd, item, to) = <<e>>
    BY <1>4, <2>1 DEF Report
  <2>3. e.type \in Marks
    BY <2>1 DEF Marks
  <2>. QED BY <1>2, <1>4, <2>1, <2>2, <2>3
<1>5. CASE item = "cstart"
  <2>1. PICK e \in EventRec : e = [type |-> "started", start |-> to, end |-> 0]
    BY DEF EventRec, Kinds
  <2>2. Report(cmd, item, to) = <<e>>
    BY <1>5, <2>1 DEF Report
  <2>3. e.type \in Marks
    BY <2>1 DEF Marks
  <2>. QED BY <1>2, <1>5, <2>1, <2>2, <2>3
<1>6. CASE item = "cend"
  <2>1. PICK e \in EventRec : e = [type |-> "finished", start |-> cmd, end |-> to]
    BY DEF EventRec, Kinds
  <2>2. Report(cmd, item, to) = <<e>>
    BY <1>6, <2>1 DEF Report
  <2>3. e.type \in Marks
    BY <2>1 DEF Marks
  <2>. QED BY <1>2, <1>6, <2>1, <2>2, <2>3
<1>7. CASE item \in {"text", "title", "csi"}
  <2>1. Report(cmd, item, to) = <<>>
    BY <1>7 DEF Report
  <2>2. <<>> \in Seq(EventRec) /\ m.out \o <<>> = m.out
    BY <1>1, ConcatEmptySeq
  <2>3. Only(Marks, <<>>) = <<>> /\ Only({"silence"}, <<>>) = <<>>
    BY OnlyOne
  <2>. QED BY <1>7, <2>1, <2>2, <2>3
<1>. QED BY <1>3, <1>4, <1>5, <1>6, <1>7

\* What a monitor at the end of an item has reported.
Reported(m, item) == m.out \o Report(m.cmdStart, item, m.streamPos + 1)

\* A symbol of an item takes the scanner further into it; the last one reports it.
LEMMA ScanItem ==
    ASSUME NEW m \in Mon, InOrder(m), NEW item \in DOMAIN Symbols, NEW j \in Nat,
           j < Len(Symbols[item]), Inside(m, item, j), NEW b, b = Symbols[item][j + 1]
    PROVE  /\ b \in Symbol /\ ScanByte(m, b).silent = m.silent
           /\ j + 1 < Len(Symbols[item]) =>
                Inside(ScanByte(m, b), item, j + 1) /\ Unmoved(m, ScanByte(m, b))
           /\ j + 1 = Len(Symbols[item]) =>
                /\ ScanByte(m, b).osc = "ground"
                /\ ScanByte(m, b).cmdStart =
                     IF item = "cstart" THEN m.streamPos + 1 ELSE m.cmdStart
                /\ ScanByte(m, b).out = Reported(m, item)
                /\ Closes(m, ScanByte(m, b), item = "cend")
<1>0. /\ m.cmdStart \in Nat /\ m.streamPos + 1 \in Nat
      /\ item \in {"text", "bell", "cstart", "cend", "title", "csi"}
  BY DEF Mon, Symbols
<1>. DEFINE Out == Reported(m, item)
<1>1. PICK n : n = ScanByte(m, b)
  OBVIOUS
<1>. DEFINE Goal == /\ b \in Symbol /\ n.silent = m.silent
                    /\ j + 1 < Len(Symbols[item]) => Inside(n, item, j + 1) /\ Unmoved(m, n)
                    /\ j + 1 = Len(Symbols[item]) =>
                         /\ n.osc = "ground" /\ n.out = Out /\ Closes(m, n, item = "cend")
                         /\ n.cmdStart = IF item = "cstart" THEN m.streamPos + 1 ELSE m.cmdStart
<1>2. /\ item = "bell" => Out = Append(m.out, [type |-> "bell", start |-> 0, end |-> 0])
      /\ item = "cstart" => Out = Append(m.out, [type |-> "started", start |-> m.streamPos + 1, end |-> 0])
      /\ item = "cend" => Out = Append(m.out, [type |-> "finished", start |-> m.cmdStart,
                                                end |-> m.streamPos + 1])
      /\ item \in {"text", "title", "csi"} => Out = m.out
  BY <1>0, ReportAdds DEF Reported
<1>. HIDE DEF Out
<1>3. ASSUME b \in Symbol
      PROVE  /\ m.osc = "ground" /\ b \notin {"ESC", "BEL"} => n.osc = "ground" /\ Unmoved(m, n)
             /\ m.osc = "ground" /\ b = "ESC" => n.osc = "esc" /\ Unmoved(m, n)
             /\ m.osc = "esc" /\ b # "]" => n.osc = "ground" /\ Unmoved(m, n)
             /\ m.osc = "esc" /\ b = "]" =>
                  n.osc = "osc" /\ n.payload = NoPayload /\ Unmoved(m, n)
             /\ m.osc = "osc" /\ m.payload = NoPayload /\ b \notin {"BEL", "ESC"} =>
                  n.osc = "osc" /\ n.payload = b /\ Unmoved(m, n)
             /\ m.osc = "osc" /\ b = "ESC" =>
                  n.osc = "oscEsc" /\ n.payload = m.payload /\ Unmoved(m, n)
  BY <1>1, <1>3, ScanInside, Zenon
<1>4. ASSUME b \in Symbol
      PROVE  /\ m.osc = "ground" /\ b = "BEL" =>
                  /\ n.osc = "ground" /\ n.cmdStart = m.cmdStart /\ n.silent = m.silent
                  /\ Closes(m, n, FALSE)
                  /\ n.out = Append(m.out, [type |-> "bell", start |-> 0, end |-> 0])
             /\ (m.osc = "osc" /\ b = "BEL") \/ (m.osc = "oscEsc" /\ b = "ST") =>
                  /\ n.osc = "ground" /\ n.silent = m.silent /\ Closes(m, n, m.payload = "D")
                  /\ n.cmdStart = IF m.payload = "C" THEN m.streamPos + 1 ELSE m.cmdStart
                  /\ m.payload = "C" => n.out =
                       Append(m.out, [type |-> "started", start |-> m.streamPos + 1, end |-> 0])
                  /\ m.payload = "D" => n.out =
                       Append(m.out, [type |-> "finished", start |-> m.cmdStart,
                                      end |-> m.streamPos + 1])
                  /\ m.payload \notin {"C", "D"} => n.out = m.out
  BY <1>1, <1>4, ScanEnds, Zenon
<1>5. /\ "x" \in Symbol /\ "BEL" \in Symbol /\ "ESC" \in Symbol /\ "]" \in Symbol
      /\ "C" \in Symbol /\ "D" \in Symbol /\ "ST" \in Symbol
  BY DEF Symbol
<1>. SUFFICES Goal
  BY <1>1 DEF Out
<1>6. ASSUME b \in Symbol, j + 1 < Len(Symbols[item]), Inside(n, item, j + 1), Unmoved(m, n)
      PROVE  Goal
  BY <1>6 DEF Unmoved
<1>7. ASSUME b \in Symbol, j + 1 = Len(Symbols[item]), n.silent = m.silent, n.osc = "ground",
             n.out = Out, n.cmdStart = IF item = "cstart" THEN m.streamPos + 1 ELSE m.cmdStart,
             Closes(m, n, item = "cend")
      PROVE  Goal
  BY <1>7
<1>. HIDE DEF Goal
<1>8. CASE item = "text"
  <2>0. Len(Symbols[item]) = 1 /\ Symbols[item][1] = "x"
    BY <1>8 DEF Symbols
  <2>1. j \in {0}
    BY <2>0
  <2>2. CASE j = 0
    <3>1. m.osc = "ground"
      BY <2>2, <2>0 DEF Inside
    <3>2. b = "x" /\ b \in Symbol /\ j + 1 = 1 /\ j + 1 = Len(Symbols[item])
      BY <2>2, <2>0, <1>5
    <3>3. n.osc = "ground" /\ n.silent = m.silent
      BY <3>1, <3>2, <1>3, <1>4 DEF Unmoved
    <3>4. n.cmdStart = IF item = "cstart" THEN m.streamPos + 1 ELSE m.cmdStart
      BY <3>1, <3>2, <1>3, <1>4, <1>8 DEF Unmoved
    <3>5. n.out = Out
      BY <3>1, <3>2, <1>2, <1>3, <1>4, <1>8 DEF Unmoved
    <3>6. Closes(m, n, item = "cend")
      BY <3>1, <3>2, <1>3, <1>4, <1>8 DEF Unmoved, Closes
    <3>. QED BY <3>2, <3>3, <3>4, <3>5, <3>6, <1>7
  <2>. QED BY <2>1, <2>2
<1>9. CASE item = "bell"
  <2>0. Len(Symbols[item]) = 1 /\ Symbols[item][1] = "BEL"
    BY <1>9 DEF Symbols
  <2>1. j \in {0}
    BY <2>0
  <2>2. CASE j = 0
    <3>1. m.osc = "ground"
      BY <2>2, <2>0 DEF Inside
    <3>2. b = "BEL" /\ b \in Symbol /\ j + 1 = 1 /\ j + 1 = Len(Symbols[item])
      BY <2>2, <2>0, <1>5
    <3>3. n.osc = "ground" /\ n.silent = m.silent
      BY <3>1, <3>2, <1>3, <1>4 DEF Unmoved
    <3>4. n.cmdStart = IF item = "cstart" THEN m.streamPos + 1 ELSE m.cmdStart
      BY <3>1, <3>2, <1>3, <1>4, <1>9 DEF Unmoved
    <3>5. n.out = Out
      BY <3>1, <3>2, <1>2, <1>3, <1>4, <1>9 DEF Unmoved
    <3>6. Closes(m, n, item = "cend")
      BY <3>1, <3>2, <1>3, <1>4, <1>9 DEF Unmoved, Closes
    <3>. QED BY <3>2, <3>3, <3>4, <3>5, <3>6, <1>7
  <2>. QED BY <2>1, <2>2
<1>10. CASE item = "cstart"
  <2>0. Len(Symbols[item]) = 4 /\ Symbols[item][1] = "ESC" /\ Symbols[item][2] = "]" /\ Symbols[item][3] = "C" /\ Symbols[item][4] = "BEL"
    BY <1>10 DEF Symbols
  <2>1. j \in {0, 1, 2, 3}
    BY <2>0
  <2>2. CASE j = 0
    <3>1. m.osc = "ground"
      BY <2>2, <2>0 DEF Inside
    <3>2. b = "ESC" /\ b \in Symbol /\ j + 1 = 1 /\ j + 1 < Len(Symbols[item])
      BY <2>2, <2>0, <1>5
    <3>3. n.osc = "esc" /\ Unmoved(m, n)
      BY <3>1, <3>2, <1>3
    <3>4. Inside(n, item, 1)
      BY <3>3, <2>0 DEF Inside
    <3>. QED BY <3>2, <3>3, <3>4, <1>6
  <2>3. CASE j = 1
    <3>1. m.osc = "esc"
      BY <2>3, <2>0 DEF Inside
    <3>2. b = "]" /\ b \in Symbol /\ j + 1 = 2 /\ j + 1 < Len(Symbols[item])
      BY <2>3, <2>0, <1>5
    <3>3. n.osc = "osc" /\ n.payload = NoPayload /\ Unmoved(m, n)
      BY <3>1, <3>2, <1>3
    <3>4. Inside(n, item, 2)
      BY <3>3, <2>0 DEF Inside
    <3>. QED BY <3>2, <3>3, <3>4, <1>6
  <2>4. CASE j = 2
    <3>1. m.osc = "osc" /\ m.payload = NoPayload
      BY <2>4, <2>0 DEF Inside
    <3>2. b = "C" /\ b \in Symbol /\ j + 1 = 3 /\ j + 1 < Len(Symbols[item])
      BY <2>4, <2>0, <1>5
    <3>3. n.osc = "osc" /\ n.payload = "C" /\ Unmoved(m, n)
      BY <3>1, <3>2, <1>3
    <3>4. Inside(n, item, 3)
      BY <3>3, <2>0 DEF Inside
    <3>. QED BY <3>2, <3>3, <3>4, <1>6
  <2>5. CASE j = 3
    <3>1. m.osc = "osc" /\ m.payload = "C"
      BY <2>5, <2>0 DEF Inside
    <3>2. b = "BEL" /\ b \in Symbol /\ j + 1 = 4 /\ j + 1 = Len(Symbols[item])
      BY <2>5, <2>0, <1>5
    <3>3. n.osc = "ground" /\ n.silent = m.silent
      BY <3>1, <3>2, <1>3, <1>4 DEF Unmoved
    <3>4. n.cmdStart = IF item = "cstart" THEN m.streamPos + 1 ELSE m.cmdStart
      BY <3>1, <3>2, <1>3, <1>4, <1>10 DEF Unmoved
    <3>5. n.out = Out
      BY <3>1, <3>2, <1>2, <1>3, <1>4, <1>10 DEF Unmoved
    <3>6. Closes(m, n, item = "cend")
      BY <3>1, <3>2, <1>3, <1>4, <1>10 DEF Unmoved, Closes
    <3>. QED BY <3>2, <3>3, <3>4, <3>5, <3>6, <1>7
  <2>. QED BY <2>1, <2>2, <2>3, <2>4, <2>5
<1>11. CASE item = "cend"
  <2>0. Len(Symbols[item]) = 5 /\ Symbols[item][1] = "ESC" /\ Symbols[item][2] = "]" /\ Symbols[item][3] = "D" /\ Symbols[item][4] = "ESC" /\ Symbols[item][5] = "ST"
    BY <1>11 DEF Symbols
  <2>1. j \in {0, 1, 2, 3, 4}
    BY <2>0
  <2>2. CASE j = 0
    <3>1. m.osc = "ground"
      BY <2>2, <2>0 DEF Inside
    <3>2. b = "ESC" /\ b \in Symbol /\ j + 1 = 1 /\ j + 1 < Len(Symbols[item])
      BY <2>2, <2>0, <1>5
    <3>3. n.osc = "esc" /\ Unmoved(m, n)
      BY <3>1, <3>2, <1>3
    <3>4. Inside(n, item, 1)
      BY <3>3, <2>0 DEF Inside
    <3>. QED BY <3>2, <3>3, <3>4, <1>6
  <2>3. CASE j = 1
    <3>1. m.osc = "esc"
      BY <2>3, <2>0 DEF Inside
    <3>2. b = "]" /\ b \in Symbol /\ j + 1 = 2 /\ j + 1 < Len(Symbols[item])
      BY <2>3, <2>0, <1>5
    <3>3. n.osc = "osc" /\ n.payload = NoPayload /\ Unmoved(m, n)
      BY <3>1, <3>2, <1>3
    <3>4. Inside(n, item, 2)
      BY <3>3, <2>0 DEF Inside
    <3>. QED BY <3>2, <3>3, <3>4, <1>6
  <2>4. CASE j = 2
    <3>1. m.osc = "osc" /\ m.payload = NoPayload
      BY <2>4, <2>0 DEF Inside
    <3>2. b = "D" /\ b \in Symbol /\ j + 1 = 3 /\ j + 1 < Len(Symbols[item])
      BY <2>4, <2>0, <1>5
    <3>3. n.osc = "osc" /\ n.payload = "D" /\ Unmoved(m, n)
      BY <3>1, <3>2, <1>3
    <3>4. Inside(n, item, 3)
      BY <3>3, <2>0 DEF Inside
    <3>. QED BY <3>2, <3>3, <3>4, <1>6
  <2>5. CASE j = 3
    <3>1. m.osc = "osc" /\ m.payload = "D"
      BY <2>5, <2>0 DEF Inside
    <3>2. b = "ESC" /\ b \in Symbol /\ j + 1 = 4 /\ j + 1 < Len(Symbols[item])
      BY <2>5, <2>0, <1>5
    <3>3. n.osc = "oscEsc" /\ n.payload = "D" /\ Unmoved(m, n)
      BY <3>1, <3>2, <1>3
    <3>4. Inside(n, item, 4)
      BY <3>3, <2>0 DEF Inside
    <3>. QED BY <3>2, <3>3, <3>4, <1>6
  <2>6. CASE j = 4
    <3>1. m.osc = "oscEsc" /\ m.payload = "D"
      BY <2>6, <2>0 DEF Inside
    <3>2. b = "ST" /\ b \in Symbol /\ j + 1 = 5 /\ j + 1 = Len(Symbols[item])
      BY <2>6, <2>0, <1>5
    <3>3. n.osc = "ground" /\ n.silent = m.silent
      BY <3>1, <3>2, <1>3, <1>4 DEF Unmoved
    <3>4. n.cmdStart = IF item = "cstart" THEN m.streamPos + 1 ELSE m.cmdStart
      BY <3>1, <3>2, <1>3, <1>4, <1>11 DEF Unmoved
    <3>5. n.out = Out
      BY <3>1, <3>2, <1>2, <1>3, <1>4, <1>11 DEF Unmoved
    <3>6. Closes(m, n, item = "cend")
      BY <3>1, <3>2, <1>3, <1>4, <1>11 DEF Unmoved, Closes
    <3>. QED BY <3>2, <3>3, <3>4, <3>5, <3>6, <1>7
  <2>. QED BY <2>1, <2>2, <2>3, <2>4, <2>5, <2>6
<1>12. CASE item = "title"
  <2>0. Len(Symbols[item]) = 4 /\ Symbols[item][1] = "ESC" /\ Symbols[item][2] = "]" /\ Symbols[item][3] = "x" /\ Symbols[item][4] = "BEL"
    BY <1>12 DEF Symbols
  <2>1. j \in {0, 1, 2, 3}
    BY <2>0
  <2>2. CASE j = 0
    <3>1. m.osc = "ground"
      BY <2>2, <2>0 DEF Inside
    <3>2. b = "ESC" /\ b \in Symbol /\ j + 1 = 1 /\ j + 1 < Len(Symbols[item])
      BY <2>2, <2>0, <1>5
    <3>3. n.osc = "esc" /\ Unmoved(m, n)
      BY <3>1, <3>2, <1>3
    <3>4. Inside(n, item, 1)
      BY <3>3, <2>0 DEF Inside
    <3>. QED BY <3>2, <3>3, <3>4, <1>6
  <2>3. CASE j = 1
    <3>1. m.osc = "esc"
      BY <2>3, <2>0 DEF Inside
    <3>2. b = "]" /\ b \in Symbol /\ j + 1 = 2 /\ j + 1 < Len(Symbols[item])
      BY <2>3, <2>0, <1>5
    <3>3. n.osc = "osc" /\ n.payload = NoPayload /\ Unmoved(m, n)
      BY <3>1, <3>2, <1>3
    <3>4. Inside(n, item, 2)
      BY <3>3, <2>0 DEF Inside
    <3>. QED BY <3>2, <3>3, <3>4, <1>6
  <2>4. CASE j = 2
    <3>1. m.osc = "osc" /\ m.payload = NoPayload
      BY <2>4, <2>0 DEF Inside
    <3>2. b = "x" /\ b \in Symbol /\ j + 1 = 3 /\ j + 1 < Len(Symbols[item])
      BY <2>4, <2>0, <1>5
    <3>3. n.osc = "osc" /\ n.payload = "x" /\ Unmoved(m, n)
      BY <3>1, <3>2, <1>3
    <3>4. Inside(n, item, 3)
      BY <3>3, <2>0 DEF Inside
    <3>. QED BY <3>2, <3>3, <3>4, <1>6
  <2>5. CASE j = 3
    <3>1. m.osc = "osc" /\ m.payload = "x"
      BY <2>5, <2>0 DEF Inside
    <3>2. b = "BEL" /\ b \in Symbol /\ j + 1 = 4 /\ j + 1 = Len(Symbols[item])
      BY <2>5, <2>0, <1>5
    <3>3. n.osc = "ground" /\ n.silent = m.silent
      BY <3>1, <3>2, <1>3, <1>4 DEF Unmoved
    <3>4. n.cmdStart = IF item = "cstart" THEN m.streamPos + 1 ELSE m.cmdStart
      BY <3>1, <3>2, <1>3, <1>4, <1>12 DEF Unmoved
    <3>5. n.out = Out
      BY <3>1, <3>2, <1>2, <1>3, <1>4, <1>12 DEF Unmoved
    <3>6. Closes(m, n, item = "cend")
      BY <3>1, <3>2, <1>3, <1>4, <1>12 DEF Unmoved, Closes
    <3>. QED BY <3>2, <3>3, <3>4, <3>5, <3>6, <1>7
  <2>. QED BY <2>1, <2>2, <2>3, <2>4, <2>5
<1>13. CASE item = "csi"
  <2>0. Len(Symbols[item]) = 2 /\ Symbols[item][1] = "ESC" /\ Symbols[item][2] = "x"
    BY <1>13 DEF Symbols
  <2>1. j \in {0, 1}
    BY <2>0
  <2>2. CASE j = 0
    <3>1. m.osc = "ground"
      BY <2>2, <2>0 DEF Inside
    <3>2. b = "ESC" /\ b \in Symbol /\ j + 1 = 1 /\ j + 1 < Len(Symbols[item])
      BY <2>2, <2>0, <1>5
    <3>3. n.osc = "esc" /\ Unmoved(m, n)
      BY <3>1, <3>2, <1>3
    <3>4. Inside(n, item, 1)
      BY <3>3, <2>0 DEF Inside
    <3>. QED BY <3>2, <3>3, <3>4, <1>6
  <2>3. CASE j = 1
    <3>1. m.osc = "esc"
      BY <2>3, <2>0 DEF Inside
    <3>2. b = "x" /\ b \in Symbol /\ j + 1 = 2 /\ j + 1 = Len(Symbols[item])
      BY <2>3, <2>0, <1>5
    <3>3. n.osc = "ground" /\ n.silent = m.silent
      BY <3>1, <3>2, <1>3, <1>4 DEF Unmoved
    <3>4. n.cmdStart = IF item = "cstart" THEN m.streamPos + 1 ELSE m.cmdStart
      BY <3>1, <3>2, <1>3, <1>4, <1>13 DEF Unmoved
    <3>5. n.out = Out
      BY <3>1, <3>2, <1>2, <1>3, <1>4, <1>13 DEF Unmoved
    <3>6. Closes(m, n, item = "cend")
      BY <3>1, <3>2, <1>3, <1>4, <1>13 DEF Unmoved, Closes
    <3>. QED BY <3>2, <3>3, <3>4, <3>5, <3>6, <1>7
  <2>. QED BY <2>1, <2>2, <2>3
<1>. QED BY <1>0, <1>8, <1>9, <1>10, <1>11, <1>12, <1>13

-----------------------------------------------------------------------------
(* The scanner along a script. *)

\* What the monitor should know after some items: the open command, the last one (from
\* ls to le) and the reports.
Said == [cmd : Nat, ls : Nat, le : Nat, evs : Seq(EventRec)]

\* The reports with those of one more item.
Longer(acc, item, to) == acc.evs \o Report(acc.cmd, item, to)

\* One item more, for a monitor that began at b.
Says(b, acc, item, from0, to) ==
    [cmd |-> IF from0 >= b /\ item = "cstart" THEN to ELSE acc.cmd,
     ls |-> IF from0 >= b /\ item = "cend" THEN acc.cmd ELSE acc.ls,
     le |-> IF from0 >= b /\ item = "cend" THEN to ELSE acc.le,
     evs |-> IF from0 >= b THEN Longer(acc, item, to) ELSE acc.evs]

\* g[k] is what a monitor that began at b should have said of the first k items.
Means(b, script, at, g) ==
    /\ g[0] = [cmd |-> 0, ls |-> 0, le |-> 0, evs |-> <<>>]
    /\ \A k \in 0 .. Len(script) : g[k] \in Said
    /\ \A k \in 1 .. Len(script) : g[k] = Says(b, g[k - 1], script[k], at[k - 1], at[k])

\* Every script means something to a monitor.
LEMMA MeansExists ==
    ASSUME NEW p \in Seq(DOMAIN Symbols), NEW at, Laid(p, at), NEW b \in Nat
    PROVE  \E g : Means(b, p, at, g)
<1>1. PICK n \in Nat : n = Len(p)
  OBVIOUS
<1>2. PICK F : F = [z \in Said \X (1 .. n) |-> Says(b, z[1], p[z[2]], at[z[2] - 1], at[z[2]])]
  OBVIOUS
<1>3. ASSUME NEW x \in Said, NEW k \in 1 .. n PROVE Says(b, x, p[k], at[k - 1], at[k]) \in Said
  <2>1. at[k] \in Nat /\ k \in 0 .. n
    BY <1>1 DEF Laid
  <2>2. x.cmd \in Nat /\ x.ls \in Nat /\ x.le \in Nat /\ x.evs \in Seq(EventRec)
    BY DEF Said
  <2>3. PICK item \in DOMAIN Symbols : item = p[k]
    BY <1>1, ElementOfSeq
  <2>4. PICK r \in Seq(EventRec) : r = Report(x.cmd, item, at[k])
    <3>1. NewMonitor \in Mon /\ InOrder(NewMonitor)
      BY NewMonitorType
    <3>. QED BY <3>1, <2>1, <2>2, ReportAdds
  <2>5. x.evs \o r \in Seq(EventRec)
    BY <2>2, ConcatProperties
  <2>. QED BY <2>1, <2>2, <2>3, <2>4, <2>5 DEF Says, Longer, Said
<1>4. F \in [Said \X (1 .. n) -> Said]
  BY <1>2, <1>3
<1>5. PICK m \in Said : m = [cmd |-> 0, ls |-> 0, le |-> 0, evs |-> <<>>]
  <2>1. <<>> \in Seq(EventRec)
    OBVIOUS
  <2>. QED BY <2>1 DEF Said
<1>6. PICK t, g : Folds(n, Said, F, m, t, g)
  BY <1>4, FoldGrows
<1>7. g[0] = m /\ (\A k \in 0 .. n : g[k] \in Said) /\ \A k \in 1 .. n : g[k] = F[<<g[k - 1], k>>]
  BY <1>6, Zenon DEF Folds
<1>8. ASSUME NEW k \in 1 .. n PROVE g[k] = Says(b, g[k - 1], p[k], at[k - 1], at[k])
  <2>1. k - 1 \in 0 .. n
    OBVIOUS
  <2>2. PICK x \in Said : x = g[k - 1]
    BY <2>1, <1>7
  <2>3. <<x, k>> \in Said \X (1 .. n)
    OBVIOUS
  <2>4. F[<<x, k>>] = Says(b, x, p[k], at[k - 1], at[k])
    BY <1>2, <2>3
  <2>. QED BY <2>2, <2>4, <1>7
<1>9. Means(b, p, at, g)
  BY <1>1, <1>5, <1>7, <1>8, Zenon DEF Means
<1>. QED BY <1>9

\* No item lies across b.
Whole(b, script, at) == \A k \in 1 .. Len(script) : ~ (at[k - 1] < b /\ b < at[k])

\* The monitor m is at p, inside item k + 1, and pre and its own events are what it
\* should have said of the first k.
TrackAt(m, p, script, at, g, pre, k) ==
    /\ m.streamPos = p /\ at[k] <= p
    /\ k < Len(script) => p < at[k + 1] /\ Inside(m, script[k + 1], p - at[k])
    /\ k = Len(script) => p = at[k]
    /\ m.cmdStart = g[k].cmd /\ m.lastStart = g[k].ls /\ m.lastEnd = g[k].le
    /\ pre \o Only(Marks, m.out) = g[k].evs

Track(m, p, script, at, g, pre) == \E k \in 0 .. Len(script) : TrackAt(m, p, script, at, g, pre, k)

\* A byte later it still is.
LEMMA TrackByte ==
    ASSUME NEW script \in Seq(DOMAIN Symbols), NEW at, NEW g, NEW b \in Nat, Laid(script, at),
           Means(b, script, at, g), Whole(b, script, at), NEW m \in Mon, InOrder(m),
           NEW p \in Nat, b <= p, p < Len(Wire(script)), NEW pre \in Seq(EventRec),
           Track(m, p, script, at, g, pre)
    PROVE  Track(ScanByte(m, Wire(script)[p + 1]), p + 1, script, at, g, pre)
<1>1. PICK n \in Nat : n = Len(script)
  OBVIOUS
<1>2. PICK k \in 0 .. n : TrackAt(m, p, script, at, g, pre, k)
  BY <1>1 DEF Track
<1>3. k # n
  BY <1>1, <1>2 DEF TrackAt, Laid
<1>4. k \in 0 .. n - 1 /\ k + 1 \in 1 .. n /\ (k + 1) - 1 = k /\ k + 1 \in 0 .. n
  BY <1>3
<1>5. PICK item \in DOMAIN Symbols : item = script[k + 1]
  BY <1>1, <1>4, ElementOfSeq
<1>6. PICK l \in 1 .. 5 : l = Len(Symbols[item])
  BY SymbolsType
<1>7. PICK a \in Nat : a = at[k] /\ at[k + 1] = a + l
  BY <1>1, <1>4, <1>5, <1>6 DEF Laid
<1>8. /\ m.streamPos = p /\ a <= p /\ p < a + l /\ Inside(m, item, p - a)
      /\ m.cmdStart = g[k].cmd /\ pre \o Only(Marks, m.out) = g[k].evs
      /\ m.lastStart = g[k].ls /\ m.lastEnd = g[k].le
  <2>1. k < Len(script)
    BY <1>1, <1>4
  <2>. QED BY <1>2, <1>5, <1>7, <2>1 DEF TrackAt
<1>9. PICK j \in Nat : j = p - a /\ p + 1 = a + (j + 1) /\ j < l /\ j + 1 \in 1 .. l
  <2>1. p - a \in Nat /\ p + 1 = a + ((p - a) + 1) /\ p - a < l /\ (p - a) + 1 \in 1 .. l
    BY <1>8
  <2>. QED BY <2>1
<1>10. PICK s : s = Wire(script)[p + 1]
  OBVIOUS
<1>11. s = Symbols[item][j + 1]
  <2>1. \A i \in 1 .. Len(Symbols[script[k + 1]]) :
          Wire(script)[at[(k + 1) - 1] + i] = Symbols[script[k + 1]][i]
    BY <1>1, <1>4 DEF Laid
  <2>2. \A i \in 1 .. l : Wire(script)[a + i] = Symbols[item][i]
    BY <2>1, <1>4, <1>5, <1>6, <1>7
  <2>. QED BY <2>2, <1>9, <1>10
<1>12. PICK q : q = ScanByte(m, s)
  OBVIOUS
<1>13. /\ s \in Symbol
       /\ j + 1 < l => Inside(q, item, j + 1) /\ Unmoved(m, q)
       /\ j + 1 = l =>
            /\ q.osc = "ground" /\ q.cmdStart = IF item = "cstart" THEN m.streamPos + 1 ELSE m.cmdStart
            /\ q.out = Reported(m, item) /\ Closes(m, q, item = "cend")
  <2>1. j < Len(Symbols[item]) /\ Inside(m, item, j)
    BY <1>6, <1>8, <1>9
  <2>2. /\ s \in Symbol /\ ScanByte(m, s).silent = m.silent
        /\ j + 1 < Len(Symbols[item]) =>
             Inside(ScanByte(m, s), item, j + 1) /\ Unmoved(m, ScanByte(m, s))
        /\ j + 1 = Len(Symbols[item]) =>
             /\ ScanByte(m, s).osc = "ground"
             /\ ScanByte(m, s).cmdStart = IF item = "cstart" THEN m.streamPos + 1 ELSE m.cmdStart
             /\ ScanByte(m, s).out = Reported(m, item)
             /\ Closes(m, ScanByte(m, s), item = "cend")
    BY <2>1, <1>11, ScanItem
  <2>. QED BY <2>2, <1>6, <1>12, Zenon
<1>14. q.streamPos = p + 1
  BY <1>8, <1>12, <1>13, ScanType
<1>15. CASE j + 1 < l
  <2>1. (p + 1) - a = j + 1 /\ a <= p + 1 /\ p + 1 < a + l
    BY <1>9, <1>15
  <2>2. /\ Inside(q, item, (p + 1) - a) /\ q.cmdStart = g[k].cmd /\ pre \o Only(Marks, q.out) = g[k].evs
        /\ q.lastStart = g[k].ls /\ q.lastEnd = g[k].le
    BY <2>1, <1>8, <1>13, <1>15 DEF Unmoved
  <2>3. k # Len(script)
    BY <1>1, <1>3
  <2>4. TrackAt(q, p + 1, script, at, g, pre, k)
    BY <2>1, <2>2, <2>3, <1>5, <1>7, <1>14 DEF TrackAt
  <2>. QED BY <2>4, <1>1, <1>10, <1>12 DEF Track
<1>16. CASE j + 1 = l
  <2>1. p + 1 = a + l /\ p + 1 = at[k + 1]
    BY <1>7, <1>9, <1>16
  <2>2. a >= b
    <3>1. ~ (at[k] < b /\ b < at[k + 1])
      BY <1>1, <1>4 DEF Whole
    <3>2. b < a + l
      BY <1>8
    <3>. QED BY <3>1, <3>2, <1>7
  <2>3. PICK x \in Said : /\ x = g[k] /\ x.cmd = m.cmdStart /\ x.evs = pre \o Only(Marks, m.out)
                          /\ x.ls = m.lastStart /\ x.le = m.lastEnd
    BY <1>1, <1>4, <1>8 DEF Means
  <2>4. PICK r \in Seq(EventRec) : r = Report(x.cmd, item, p + 1) /\ Only(Marks, r) = r
    <3>1. x.cmd \in Nat /\ p + 1 \in Nat
      BY DEF Said
    <3>. QED BY <3>1, ReportAdds
  <2>5. g[k + 1] = Says(b, x, item, a, p + 1)
    BY <2>1, <2>3, <1>1, <1>4, <1>5, <1>7 DEF Means
  <2>6. /\ g[k + 1].cmd = IF item = "cstart" THEN p + 1 ELSE m.cmdStart
        /\ g[k + 1].evs = (pre \o Only(Marks, m.out)) \o r
        /\ g[k + 1].ls = IF item = "cend" THEN m.cmdStart ELSE m.lastStart
        /\ g[k + 1].le = IF item = "cend" THEN p + 1 ELSE m.lastEnd
    BY <2>2, <2>3, <2>4, <2>5 DEF Says, Longer
  <2>7. PICK o \in Seq(EventRec) : o = m.out /\ q.out = o \o r
    BY <2>3, <2>4, <1>8, <1>13, <1>16 DEF Mon, Reported
  <2>8. PICK u \in Seq(EventRec) : u = Only(Marks, o) /\ Only(Marks, o \o r) = u \o r
    <3>1. Only(Marks, o) \in Seq(EventRec) /\ Only(Marks, o \o r) = Only(Marks, o) \o Only(Marks, r)
      BY OnlyJoin, Zenon
    <3>. QED BY <3>1, <2>4
  <2>9. pre \o Only(Marks, q.out) = g[k + 1].evs
    <3>1. pre \o (u \o r) = (pre \o u) \o r
      BY ThreeRuns, Zenon
    <3>. QED BY <3>1, <2>6, <2>7, <2>8
  <2>10. q.cmdStart = g[k + 1].cmd /\ q.osc = "ground"
    BY <2>6, <1>8, <1>13, <1>16
  <2>10a. q.lastStart = g[k + 1].ls /\ q.lastEnd = g[k + 1].le
    BY <2>6, <1>8, <1>13, <1>16 DEF Closes
  <2>11. ASSUME k + 1 < Len(script)
         PROVE  p + 1 < at[(k + 1) + 1] /\ Inside(q, script[(k + 1) + 1], (p + 1) - at[k + 1])
    <3>1. (k + 1) + 1 \in 0 .. Len(script) /\ k + 1 \in 0 .. Len(script) /\ k + 1 < (k + 1) + 1
      BY <2>11, <1>1, <1>4
    <3>2. at[k + 1] < at[(k + 1) + 1]
      BY <3>1, LaidInOrder
    <3>3. (p + 1) - at[k + 1] = 0
      BY <2>1
    <3>. QED BY <3>2, <3>3, <2>1, <2>10 DEF Inside
  <2>12. at[k + 1] <= p + 1
    BY <2>1
  <2>13. TrackAt(q, p + 1, script, at, g, pre, k + 1)
    BY <2>1, <2>9, <2>10, <2>10a, <2>11, <2>12, <1>14 DEF TrackAt
  <2>. QED BY <2>13, <1>1, <1>4, <1>10, <1>12 DEF Track
<1>. QED BY <1>9, <1>15, <1>16

\* The scanner never reports silence, and leaves that to the ticker.
LEMMA ScanQuiet ==
    ASSUME NEW m \in Mon, NEW b \in Symbol, InOrder(m)
    PROVE  /\ ScanByte(m, b).silent = m.silent
           /\ Only({"silence"}, ScanByte(m, b).out) = Only({"silence"}, m.out)
<1>1. PICK n : n = [m EXCEPT !.streamPos = @ + 1]
  OBVIOUS
<1>2. n \in Mon /\ Unmoved(m, n)
  <2>0. m.streamPos + 1 \in Nat
    BY DEF Mon
  <2>1. n \in Mon
    BY <1>1, <2>0 DEF Mon
  <2>2. /\ n.cmdStart = m.cmdStart /\ n.out = m.out /\ n.silent = m.silent
        /\ n.lastStart = m.lastStart /\ n.lastEnd = m.lastEnd
    BY <1>1 DEF Mon
  <2>. QED BY <2>1, <2>2 DEF Unmoved
<1>. DEFINE ends == (m.osc = "osc" /\ b = "BEL") \/ (m.osc = "oscEsc" /\ b = "ST")
            q == ScanByte(m, b)
<1>3. ASSUME q.out = m.out \/ \E e \in EventRec : e.type \in Marks /\ q.out = Append(m.out, e)
      PROVE  Only({"silence"}, q.out) = Only({"silence"}, m.out)
  <2>1. SUFFICES ASSUME NEW e \in EventRec, e.type \in Marks, q.out = Append(m.out, e)
                 PROVE  Only({"silence"}, q.out) = Only({"silence"}, m.out)
    BY <1>3
  <2>2. m.out \in Seq(EventRec) /\ <<e>> \in Seq(EventRec)
    BY DEF Mon
  <2>3. Append(m.out, e) = m.out \o <<e>>
    BY <2>2, AppendIsConcat
  <2>4. e.type \notin {"silence"}
    BY <2>1 DEF Marks
  <2>5. Only({"silence"}, <<e>>) = <<>>
    BY <2>4, OnlyOne
  <2>6. /\ Only({"silence"}, m.out) \in Seq(EventRec)
        /\ Only({"silence"}, m.out \o <<e>>) = Only({"silence"}, m.out) \o Only({"silence"}, <<e>>)
    BY <2>2, OnlyJoin
  <2>7. Only({"silence"}, m.out) \o <<>> = Only({"silence"}, m.out)
    BY <2>6, ConcatEmptySeq
  <2>. QED BY <2>1, <2>3, <2>5, <2>6, <2>7
<1>4. CASE m.osc = "ground" /\ b = "BEL"
  <2>1. PICK e \in EventRec : e = [type |-> "bell", start |-> 0, end |-> 0]
    BY DEF EventRec, Kinds
  <2>2. e.type \in Marks
    BY <2>1 DEF Marks
  <2>3. q.silent = m.silent /\ q.out = Append(m.out, e)
    BY <1>4, <2>1, ScanEnds
  <2>. QED BY <1>3, <2>2, <2>3
<1>5. CASE ends
  <2>0. m.streamPos + 1 \in Nat /\ m.cmdStart \in Nat
    BY DEF Mon
  <2>1. PICK e \in EventRec : e = [type |-> "started", start |-> m.streamPos + 1, end |-> 0]
    BY <2>0 DEF EventRec, Kinds
  <2>2. PICK f \in EventRec : f = [type |-> "finished", start |-> m.cmdStart, end |-> m.streamPos + 1]
    BY <2>0 DEF EventRec, Kinds
  <2>3. e.type \in Marks /\ f.type \in Marks
    BY <2>1, <2>2 DEF Marks
  <2>4. /\ q.silent = m.silent
        /\ m.payload = "C" => q.out = Append(m.out, e)
        /\ m.payload = "D" => q.out = Append(m.out, f)
        /\ m.payload \notin {"C", "D"} => q.out = m.out
    BY <1>5, <2>1, <2>2, ScanEnds
  <2>. QED BY <1>3, <2>3, <2>4
<1>6. CASE ~ ends /\ ~ (m.osc = "ground" /\ b = "BEL")
  <2>1. \/ ScanByte(m, b) = n
        \/ \E o \in {"ground", "esc", "osc", "oscEsc"} : ScanByte(m, b) = [n EXCEPT !.osc = o]
        \/ ScanByte(m, b) = [n EXCEPT !.payload = b]
        \/ ScanByte(m, b) = [n EXCEPT !.osc = "osc", !.payload = NoPayload]
    BY <1>1, <1>6 DEF ScanByte
  <2>2. q.silent = n.silent /\ q.out = n.out
    BY <2>1, <1>2 DEF Mon
  <2>. QED BY <2>2, <1>2, <1>3 DEF Unmoved
<1>. QED BY <1>4, <1>5, <1>6

\* A chunk of output wakes the monitor, which reports activity and nothing else.
LEMMA WakeIs ==
    ASSUME NEW m \in Mon, InOrder(m), NEW t \in Nat
    PROVE  /\ Wake(m, t) \in Mon /\ InOrder(Wake(m, t)) /\ Wake(m, t).streamPos = m.streamPos
           /\ Wake(m, t).osc = m.osc /\ Wake(m, t).payload = m.payload
           /\ Wake(m, t).cmdStart = m.cmdStart /\ Wake(m, t).silent = FALSE
           /\ Wake(m, t).lastStart = m.lastStart /\ Wake(m, t).lastEnd = m.lastEnd
           /\ Only(Marks, Wake(m, t).out) = <<>> /\ Only({"silence"}, Wake(m, t).out) = <<>>
<1>. DEFINE Same(x) == /\ x \in Mon /\ InOrder(x) /\ x.streamPos = m.streamPos /\ x.osc = m.osc
                       /\ x.payload = m.payload /\ x.cmdStart = m.cmdStart
                       /\ x.lastStart = m.lastStart /\ x.lastEnd = m.lastEnd
<1>1. PICK o : o = IF m.started /\ t - m.lastOutput >= SilenceAfter
                   THEN <<[type |-> "activity", start |-> 0, end |-> 0]>> ELSE <<>>
  OBVIOUS
<1>2. o \in Seq(EventRec) /\ Only(Marks, o) = <<>> /\ Only({"silence"}, o) = <<>>
  <2>1. PICK e \in EventRec : e = [type |-> "activity", start |-> 0, end |-> 0]
    BY DEF EventRec, Kinds
  <2>2. e.type \notin Marks /\ e.type \notin {"silence"}
    BY <2>1 DEF Marks
  <2>3. /\ Only(Marks, <<e>>) = <<>> /\ Only({"silence"}, <<e>>) = <<>>
        /\ Only(Marks, <<>>) = <<>> /\ Only({"silence"}, <<>>) = <<>>
    BY <2>2, OnlyOne
  <2>4. o = <<e>> \/ o = <<>>
    BY <1>1, <2>1
  <2>5. <<e>> \in Seq(EventRec) /\ <<>> \in Seq(EventRec)
    OBVIOUS
  <2>. QED BY <2>3, <2>4, <2>5
<1>3. PICK x, y, z : x = WithOut(m, o) /\ y = [x EXCEPT !.started = TRUE] /\ z = [y EXCEPT !.lastOutput = t]
  OBVIOUS
<1>4. Wake(m, t) = [z EXCEPT !.silent = FALSE]
  BY <1>1, <1>3 DEF Wake, WithOut
<1>5. Same(x) /\ x.out = o
  BY <1>2, <1>3 DEF Mon, InOrder, WithOut
<1>6. Same(y) /\ y.out = o
  BY <1>3, <1>5 DEF Mon, InOrder
<1>7. Same(z) /\ z.out = o
  BY <1>3, <1>6 DEF Mon, InOrder
<1>8. Same(Wake(m, t)) /\ Wake(m, t).out = o /\ Wake(m, t).silent = FALSE
  BY <1>4, <1>7 DEF Mon, InOrder
<1>. QED BY <1>2, <1>8

\* Nor does a call of Feed, and it ends the silence.
LEMMA FeedQuiet ==
    ASSUME NEW m \in Mon, InOrder(m), NEW p \in Seq(Symbol), NEW t \in Nat
    PROVE  Feed(m, p, t).silent = FALSE /\ Only({"silence"}, Feed(m, p, t).out) = <<>>
<1>1. PICK w \in Mon : w = Wake(m, t) /\ InOrder(w) /\ w.silent = FALSE /\ Only({"silence"}, w.out) = <<>>
  BY WakeIs
<1>2. PICK n \in Nat : n = Len(p)
  OBVIOUS
<1>3. PICK h : Scans(w, p, h)
  BY <1>1, ScansGrow
<1>4. /\ h[0] = w /\ ScanAll(w, p) = h[n]
      /\ \A k \in 0 .. n : h[k] \in Mon /\ InOrder(h[k])
      /\ \A k \in 1 .. n : h[k] = ScanByte(h[k - 1], p[k])
  BY <1>2, <1>3 DEF Scans
<1>. DEFINE T == {k \in 0 .. n : h[k].silent = FALSE /\ Only({"silence"}, h[k].out) = <<>>}
<1>5. 0 \in T
  BY <1>1, <1>4
<1>6. ASSUME NEW k \in 0 .. n - 1, k \in T PROVE k + 1 \in T
  <2>1. k + 1 \in 1 .. n /\ (k + 1) - 1 = k /\ k \in 0 .. n /\ k + 1 \in 0 .. n
    OBVIOUS
  <2>2. PICK x \in Mon, b \in Symbol : x = h[k] /\ InOrder(x) /\ b = p[k + 1]
    BY <2>1, <1>2, <1>4, ElementOfSeq
  <2>3. h[k + 1] = ScanByte(x, b)
    BY <2>1, <2>2, <1>4
  <2>4. x.silent = FALSE /\ Only({"silence"}, x.out) = <<>>
    BY <1>6, <2>2
  <2>5. /\ ScanByte(x, b).silent = x.silent
        /\ Only({"silence"}, ScanByte(x, b).out) = Only({"silence"}, x.out)
    BY <2>2, ScanQuiet
  <2>. QED BY <2>1, <2>3, <2>4, <2>5
<1>. HIDE DEF T
<1>7. \A k \in 0 .. n : k \in T
  BY <1>5, <1>6, UpTo
<1>8. n \in T
  BY <1>7
<1>9. Feed(m, p, t) = ScanAll(w, p)
  BY <1>1 DEF Feed, ScanAll, FoldLeft
<1>. QED BY <1>4, <1>8, <1>9 DEF T

\* A chunk further the monitor has still said what it should have.
LEMMA FeedTracks ==
    ASSUME NEW script \in Seq(DOMAIN Symbols), NEW at, NEW g, NEW b \in Nat, Laid(script, at),
           Means(b, script, at, g), Whole(b, script, at), NEW m \in Mon, InOrder(m), m.out = <<>>,
           NEW p \in Nat, b <= p, NEW c \in Nat, p + c <= Len(Wire(script)), NEW t \in Nat,
           NEW pre \in Seq(EventRec), Track(m, p, script, at, g, pre)
    PROVE  Track(Feed(m, SubSeq(Wire(script), p + 1, p + c), t), p + c, script, at, g, pre)
<1>1. PICK w \in Mon :
        /\ w = Wake(m, t) /\ InOrder(w) /\ w.streamPos = m.streamPos
        /\ w.osc = m.osc /\ w.payload = m.payload /\ w.cmdStart = m.cmdStart
        /\ w.lastStart = m.lastStart /\ w.lastEnd = m.lastEnd /\ Only(Marks, w.out) = <<>>
  BY WakeIs
<1>2. Track(w, p, script, at, g, pre)
  <2>1. PICK k \in 0 .. Len(script) : TrackAt(m, p, script, at, g, pre, k)
    BY DEF Track
  <2>2. Only(Marks, m.out) = <<>>
    BY OnlyOne
  <2>3. \A j : Inside(m, script[k + 1], j) => Inside(w, script[k + 1], j)
    BY <1>1 DEF Inside
  <2>4. TrackAt(w, p, script, at, g, pre, k)
    BY <2>1, <2>2, <2>3, <1>1 DEF TrackAt
  <2>. QED BY <2>4 DEF Track
<1>3. PICK wire \in Seq(Symbol) : wire = Wire(script)
  BY WireLength
<1>4. PICK q : q = SubSeq(wire, p + 1, p + c)
  OBVIOUS
<1>5. q \in Seq(Symbol) /\ Len(q) = c /\ \A k \in 1 .. c : q[k] = wire[p + k]
  <2>1. \A i \in p + 1 .. p + c : wire[i] \in Symbol
    <3>1. \A i \in p + 1 .. p + c : i \in 1 .. Len(wire)
      BY <1>3
    <3>. QED BY <3>1, ElementOfSeq
  <2>2. /\ SubSeq(wire, p + 1, p + c) \in Seq(Symbol)
        /\ Len(SubSeq(wire, p + 1, p + c)) = IF p + 1 <= p + c THEN p + c - (p + 1) + 1 ELSE 0
        /\ \A i \in 1 .. p + c - (p + 1) + 1 : SubSeq(wire, p + 1, p + c)[i] = wire[p + 1 + i - 1]
    BY <2>1, <1>3, SubSeqProperties
  <2>3. (IF p + 1 <= p + c THEN p + c - (p + 1) + 1 ELSE 0) = c /\ p + c - (p + 1) + 1 = c
    OBVIOUS
  <2>4. \A i \in 1 .. c : p + 1 + i - 1 = p + i
    OBVIOUS
  <2>5. \A i \in 1 .. c : SubSeq(wire, p + 1, p + c)[i] = wire[p + i]
    BY <2>2, <2>3, <2>4, Zenon
  <2>. QED BY <2>2, <2>3, <2>5, <1>4, Zenon
<1>6. PICK h : Scans(w, q, h)
  BY <1>1, <1>5, ScansGrow
<1>7. /\ h[0] = w /\ ScanAll(w, q) = h[c]
      /\ \A k \in 0 .. c : h[k] \in Mon /\ InOrder(h[k])
      /\ \A k \in 1 .. c : h[k] = ScanByte(h[k - 1], q[k])
  BY <1>5, <1>6 DEF Scans
<1>. DEFINE T == {k \in 0 .. c : Track(h[k], p + k, script, at, g, pre)}
<1>8. 0 \in T
  <2>1. p + 0 = p /\ 0 \in 0 .. c
    OBVIOUS
  <2>. QED BY <2>1, <1>2, <1>7
<1>9. ASSUME NEW k \in 0 .. c - 1, k \in T PROVE k + 1 \in T
  <2>1. /\ k + 1 \in 1 .. c /\ (k + 1) - 1 = k /\ k \in 0 .. c /\ k + 1 \in 0 .. c
        /\ p + (k + 1) = (p + k) + 1 /\ p + k \in Nat /\ b <= p + k
    OBVIOUS
  <2>2. p + k < Len(Wire(script))
    <3>1. Len(wire) \in Nat /\ p + c <= Len(wire)
      BY <1>3
    <3>2. p + k < Len(wire)
      BY <3>1
    <3>. QED BY <3>2, <1>3
  <2>3. PICK x \in Mon : x = h[k] /\ InOrder(x)
    BY <2>1, <1>7
  <2>4. h[k + 1] = ScanByte(x, Wire(script)[(p + k) + 1])
    BY <2>1, <2>3, <1>3, <1>5, <1>7
  <2>5. Track(x, p + k, script, at, g, pre)
    BY <1>9, <2>3
  <2>6. Track(ScanByte(x, Wire(script)[(p + k) + 1]), (p + k) + 1, script, at, g, pre)
    BY <2>1, <2>2, <2>3, <2>5, TrackByte
  <2>. QED BY <2>1, <2>4, <2>6
<1>. HIDE DEF T
<1>10. \A k \in 0 .. c : k \in T
  BY <1>8, <1>9, UpTo
<1>11. c \in T
  BY <1>10
<1>12. Feed(m, q, t) = ScanAll(w, q)
  BY <1>1 DEF Feed, ScanAll, FoldLeft
<1>13. Track(h[c], p + c, script, at, g, pre)
  BY <1>11 DEF T
<1>. QED BY <1>3, <1>4, <1>7, <1>12, <1>13

-----------------------------------------------------------------------------
(* What has been reported is what the script says. *)

\* What Truth has read off the script so far.
LastRead == [start : Nat, end : Nat, own : BOOLEAN]

ReadOff == [at : Nat, cmd : Nat, open : BOOLEAN, last : LastRead, cut : BOOLEAN, evs : Seq(EventRec)]

NothingRead == [at |-> 0, cmd |-> 0, open |-> FALSE,
                last |-> [start |-> 0, end |-> 0, own |-> FALSE], cut |-> FALSE, evs |-> <<>>]

\* What one more item adds to it.
LEMMA MeaningIs ==
    ASSUME NEW x \in ReadOff, NEW item \in DOMAIN Symbols, base \in Nat, pos \in Nat
    PROVE  /\ Meaning(x, item) \in ReadOff
           /\ Meaning(x, item).at = x.at + Len(Symbols[item])
           /\ Meaning(x, item).cut
                = (x.cut \/ (x.at < base /\ base < x.at + Len(Symbols[item])))
           /\ x.at >= base /\ x.at + Len(Symbols[item]) <= pos =>
                /\ Meaning(x, item).cmd = IF item = "cstart" THEN x.at + Len(Symbols[item]) ELSE x.cmd
                /\ Meaning(x, item).evs = x.evs \o Report(x.cmd, item, x.at + Len(Symbols[item]))
                /\ Meaning(x, item).last.start = IF item = "cend" THEN x.cmd ELSE x.last.start
                /\ Meaning(x, item).last.end =
                     IF item = "cend" THEN x.at + Len(Symbols[item]) ELSE x.last.end
           /\ ~ (x.at >= base /\ x.at + Len(Symbols[item]) <= pos) =>
                /\ Meaning(x, item).cmd = x.cmd /\ Meaning(x, item).evs = x.evs
                /\ Meaning(x, item).last = x.last
<1>1. PICK to \in Nat : to = x.at + Len(Symbols[item])
  <2>1. PICK l \in 1 .. 5 : l = Len(Symbols[item])
    BY SymbolsType
  <2>2. x.at + l \in Nat
    BY DEF ReadOff
  <2>. QED BY <2>1, <2>2
<1>2. /\ x.at \in Nat /\ x.cmd \in Nat /\ x.cut \in BOOLEAN /\ x.evs \in Seq(EventRec)
      /\ x.open \in BOOLEAN /\ x.last \in LastRead
  BY DEF ReadOff
<1>3. PICK r \in Seq(EventRec) : r = Report(x.cmd, item, to)
  <2>1. NewMonitor \in Mon /\ InOrder(NewMonitor)
    BY NewMonitorType
  <2>. QED BY <2>1, <1>2, ReportAdds
<1>4. PICK longer \in Seq(EventRec) : longer = x.evs \o r
  BY <1>2, ConcatProperties
<1>5. PICK seen \in BOOLEAN : seen = (x.at >= base /\ to <= pos)
  OBVIOUS
<1>6. PICK cut \in BOOLEAN : cut = (x.cut \/ (x.at < base /\ base < to))
  BY <1>2
<1>7. PICK cmd \in Nat : cmd = IF seen /\ item = "cstart" THEN to ELSE x.cmd
  BY <1>2
<1>8. PICK evs \in Seq(EventRec) : evs = IF seen THEN longer ELSE x.evs
  BY <1>2
<1>8a. PICK open \in BOOLEAN :
         open = IF seen /\ item \in {"cstart", "cend"} THEN item = "cstart" ELSE x.open
  BY <1>2
<1>8b. PICK done \in LastRead : done = [start |-> x.cmd, end |-> to, own |-> x.open]
  BY <1>2 DEF LastRead
<1>8c. PICK last \in LastRead : last = IF seen /\ item = "cend" THEN done ELSE x.last
  BY <1>2
<1>9. Meaning(x, item) = [at |-> to, cmd |-> cmd, open |-> open, last |-> last, cut |-> cut, evs |-> evs]
  BY <1>1, <1>3, <1>4, <1>5, <1>6, <1>7, <1>8, <1>8a, <1>8b, <1>8c DEF Meaning, Report
<1>10. /\ Meaning(x, item).at = to /\ Meaning(x, item).cmd = cmd /\ Meaning(x, item).last = last
       /\ Meaning(x, item).cut = cut /\ Meaning(x, item).evs = evs /\ Meaning(x, item) \in ReadOff
  BY <1>9 DEF ReadOff
<1>10a. seen => /\ Meaning(x, item).last.start = IF item = "cend" THEN x.cmd ELSE x.last.start
                /\ Meaning(x, item).last.end = IF item = "cend" THEN to ELSE x.last.end
  BY <1>8b, <1>8c, <1>10
<1>10b. ~ seen => Meaning(x, item).last = x.last
  BY <1>8c, <1>10
<1>11. Meaning(x, item).cut = (x.cut \/ (x.at < base /\ base < x.at + Len(Symbols[item])))
  BY <1>1, <1>6, <1>10
<1>12. seen => Meaning(x, item).cmd = IF item = "cstart" THEN to ELSE x.cmd
  BY <1>7, <1>10
<1>13. seen => Meaning(x, item).evs = longer
  BY <1>8, <1>10
<1>14. ~ seen => Meaning(x, item).cmd = x.cmd /\ Meaning(x, item).evs = x.evs
  BY <1>7, <1>8, <1>10
<1>. QED BY <1>1, <1>3, <1>4, <1>5, <1>10, <1>10a, <1>10b, <1>11, <1>12, <1>13, <1>14

\* h is what has been read off as the items of p go by.
ScriptRead(p, h) ==
    /\ h[0] = NothingRead /\ FoldLeft(Meaning, NothingRead, p) = h[Len(p)]
    /\ \A k \in 0 .. Len(p) : h[k] \in ReadOff
    /\ \A k \in 1 .. Len(p) : h[k] = Meaning(h[k - 1], p[k])

\* A script is read item by item.
LEMMA ReadingGrows ==
    ASSUME NEW p \in Seq(DOMAIN Symbols), base \in Nat, pos \in Nat
    PROVE  \E h : ScriptRead(p, h)
<1>. DEFINE M == ReadOff
            m == NothingRead
<1>1. PICK n \in Nat : n = Len(p) /\ DOMAIN p = 1 .. n
  OBVIOUS
<1>2. PICK F : F = [z \in M \X (1 .. n) |-> Meaning(z[1], p[z[2]])]
  OBVIOUS
<1>3. \A x \in M, k \in 1 .. n : Meaning(x, p[k]) \in M
  <2>1. SUFFICES ASSUME NEW x \in M, NEW k \in 1 .. n PROVE Meaning(x, p[k]) \in M
    OBVIOUS
  <2>2. p[k] \in DOMAIN Symbols
    BY <1>1, ElementOfSeq
  <2>. QED BY <2>2, MeaningIs
<1>4. F \in [M \X (1 .. n) -> M]
  BY <1>2, <1>3
<1>5. \A x \in M, k \in 1 .. n : F[<<x, k>>] = Meaning(x, p[k])
  BY <1>2
<1>6. m \in M
  <2>1. <<>> \in Seq(EventRec)
    OBVIOUS
  <2>. QED BY <2>1 DEF NothingRead, ReadOff, LastRead
<1>7. PICK t, h : Folds(n, M, F, m, t, h)
  <2>. HIDE DEF M
  <2>. QED BY <1>4, <1>6, FoldGrows
<1>8. t = [s \in SUBSET DOMAIN p |-> IF s = {} THEN m ELSE Meaning(t[s \ {Max(s)}], p[Max(s)])]
  <2>1. t = [s \in SUBSET (1 .. n) |-> FoldStep(F, m, t, s)]
    BY <1>7 DEF Folds
  <2>2. ASSUME NEW s \in SUBSET (1 .. n)
        PROVE  FoldStep(F, m, t, s) = IF s = {} THEN m ELSE Meaning(t[s \ {Max(s)}], p[Max(s)])
    <3>1. CASE s = {}
      BY <3>1 DEF FoldStep
    <3>2. CASE s # {}
      <4>1. Max(s) \in 1 .. n
        BY <3>2, MaxIn
      <4>2. t[s \ {Max(s)}] \in M
        <5>1. s \ {Max(s)} \in SUBSET (1 .. n)
          OBVIOUS
        <5>. HIDE DEF M
        <5>. QED BY <5>1, <1>7 DEF Folds
      <4>3. F[<<t[s \ {Max(s)}], Max(s)>>] = Meaning(t[s \ {Max(s)}], p[Max(s)])
        <5>. HIDE DEF M
        <5>. QED BY <4>1, <4>2, <1>5, Zenon
      <4>. QED BY <3>2, <4>3, Zenon DEF FoldStep
    <3>. QED BY <3>1, <3>2
  <2>. QED BY <1>1, <2>1, <2>2
<1>. DEFINE iter[s \in SUBSET DOMAIN p] ==
        IF s = {} THEN m ELSE Meaning(iter[s \ {Max(s)}], p[Max(s)])
<1>9. FoldLeft(Meaning, NothingRead, p) = iter[DOMAIN p]
  BY DEF FoldLeft, MapThenFoldSet
<1>10. iter = [s \in SUBSET DOMAIN p |->
                 IF s = {} THEN m ELSE Meaning(iter[s \ {Max(s)}], p[Max(s)])]
  BY <1>8, Zenon
<1>. HIDE DEF iter
<1>10a. PICK walk : walk = iter
  OBVIOUS
<1>11. \A s \in SUBSET (1 .. n) : t[s] = walk[s]
  <2>1. ASSUME NEW s \in SUBSET (1 .. n), s # {} => t[s \ {Max(s)}] = walk[s \ {Max(s)}]
        PROVE  t[s] = walk[s]
    <3>1. /\ t[s] = IF s = {} THEN m ELSE Meaning(t[s \ {Max(s)}], p[Max(s)])
          /\ walk[s] = IF s = {} THEN m ELSE Meaning(walk[s \ {Max(s)}], p[Max(s)])
      BY <1>1, <1>8, <1>10, <1>10a
    <3>. QED BY <2>1, <3>1
  <2>2. \A s \in SUBSET (1 .. n) : SameStep(t, walk, s)
    BY <2>1 DEF SameStep
  <2>3. n \in Nat
    OBVIOUS
  <2>. HIDE DEF M, m
  <2>. QED BY ONLY <2>2, <2>3, FoldUnique
<1>12. FoldLeft(Meaning, NothingRead, p) = h[n]
  <2>1. 1 .. n \in SUBSET (1 .. n)
    OBVIOUS
  <2>2. h[n] = t[1 .. n]
    BY <1>7 DEF Folds
  <2>. QED BY <1>1, <1>9, <1>10a, <1>11, <2>1, <2>2, Zenon
<1>13. \A k \in 1 .. n : h[k] = Meaning(h[k - 1], p[k])
  <2>1. SUFFICES ASSUME NEW k \in 1 .. n PROVE h[k] = Meaning(h[k - 1], p[k])
    OBVIOUS
  <2>2. k - 1 \in 0 .. n
    OBVIOUS
  <2>. HIDE DEF M
  <2>3. h[k] = F[<<h[k - 1], k>>] /\ h[k - 1] \in M
    BY <2>2, <1>7 DEF Folds
  <2>. QED BY <2>3, <1>5, Zenon
<1>14. h[0] = m /\ \A k \in 0 .. n : h[k] \in M
  <2>. HIDE DEF M
  <2>. QED BY <1>7 DEF Folds
<1>. QED BY <1>1, <1>12, <1>13, <1>14, Zenon DEF ScriptRead

\* Truth is what the monitor should have said of the items that are out.
LEMMA TruthSays ==
    ASSUME NEW at, NEW g, sc.script \in Seq(DOMAIN Symbols), base \in Nat, pos \in Nat,
           Laid(sc.script, at), Means(base, sc.script, at, g),
           NEW k \in 0 .. Len(sc.script), at[k] <= pos, k < Len(sc.script) => pos < at[k + 1]
    PROVE  /\ Truth.evs = g[k].evs /\ Truth.last.start = g[k].ls /\ Truth.last.end = g[k].le
           /\ ~ Truth.cut => Whole(base, sc.script, at)
<1>1. PICK p \in Seq(DOMAIN Symbols), n \in Nat, b \in Nat, q \in Nat :
        p = sc.script /\ n = Len(p) /\ b = base /\ q = pos
  OBVIOUS
<1>2. PICK h : ScriptRead(p, h)
  BY ReadingGrows
<1>3. /\ h[0] = NothingRead /\ Truth = h[n]
      /\ \A i \in 0 .. n : h[i] \in ReadOff
      /\ \A i \in 1 .. n : h[i] = Meaning(h[i - 1], p[i])
  BY <1>1, <1>2, Zenon DEF ScriptRead, Truth, NothingRead
<1>4. /\ at[0] = 0 /\ \A i \in 0 .. n : at[i] \in Nat
      /\ \A i \in 1 .. n : at[i] = at[i - 1] + Len(Symbols[p[i]])
  BY <1>1 DEF Laid
<1>5. /\ g[0] = [cmd |-> 0, ls |-> 0, le |-> 0, evs |-> <<>>]
      /\ \A i \in 0 .. n : g[i] \in Said
      /\ \A i \in 1 .. n : g[i] = Says(b, g[i - 1], p[i], at[i - 1], at[i])
  BY <1>1, Zenon DEF Means
<1>6. \A i, j \in 0 .. n : i < j => at[i] < at[j]
  BY <1>1, LaidInOrder
<1>7. k \in 0 .. n /\ at[k] <= q /\ (k < n => q < at[k + 1])
  BY <1>1
<1>. DEFINE Uncut(i) == \A j \in 1 .. i : ~ (at[j - 1] < b /\ b < at[j])
            Good(i) == /\ h[i].at = at[i] /\ (~ h[i].cut => Uncut(i))
                       /\ i <= k => /\ h[i].cmd = g[i].cmd /\ h[i].evs = g[i].evs
                                    /\ h[i].last.start = g[i].ls /\ h[i].last.end = g[i].le
                       /\ k <= i => /\ h[i].evs = g[k].evs
                                    /\ h[i].last.start = g[k].ls /\ h[i].last.end = g[k].le
            T == {i \in 0 .. n : Good(i)}
<1>8. 0 \in T
  <2>1. /\ h[0].at = 0 /\ h[0].cmd = 0 /\ h[0].evs = <<>> /\ h[0].cut = FALSE
        /\ g[0].cmd = 0 /\ g[0].evs = <<>> /\ g[0].ls = 0 /\ g[0].le = 0
        /\ h[0].last.start = 0 /\ h[0].last.end = 0
    BY <1>3, <1>5 DEF NothingRead
  <2>2. Uncut(0)
    OBVIOUS
  <2>3. k <= 0 => k = 0
    BY <1>7
  <2>4. Good(0)
    BY <2>1, <2>2, <2>3, <1>4
  <2>. QED BY <2>4
<1>9. ASSUME NEW i \in 0 .. n - 1, i \in T PROVE i + 1 \in T
  <2>1. i + 1 \in 1 .. n /\ (i + 1) - 1 = i /\ i \in 0 .. n /\ i + 1 \in 0 .. n /\ i \in Nat
    OBVIOUS
  <2>2. Good(i)
    BY <1>9
  <2>3. PICK x \in ReadOff, item \in DOMAIN Symbols, s \in Said :
          x = h[i] /\ item = p[i + 1] /\ s = g[i]
    BY <2>1, <1>1, <1>3, <1>5, ElementOfSeq
  <2>4. PICK f \in Nat, to \in Nat : f = at[i] /\ to = at[i + 1] /\ to = f + Len(Symbols[item])
    BY <2>1, <2>3, <1>4
  <2>5. x.at = f
    BY <2>2, <2>3, <2>4
  <2>6. PICK y : y = Meaning(x, item)
    OBVIOUS
  <2>7. h[i + 1] = y
    BY <2>1, <2>3, <2>6, <1>3
  <2>8. /\ y.at = to
        /\ y.cut = (x.cut \/ (f < b /\ b < to))
        /\ f >= b /\ to <= q =>
             /\ y.cmd = IF item = "cstart" THEN to ELSE x.cmd
             /\ y.evs = x.evs \o Report(x.cmd, item, to)
             /\ y.last.start = IF item = "cend" THEN x.cmd ELSE x.last.start
             /\ y.last.end = IF item = "cend" THEN to ELSE x.last.end
        /\ ~ (f >= b /\ to <= q) => y.cmd = x.cmd /\ y.evs = x.evs /\ y.last = x.last
    <3>1. base \in Nat /\ pos \in Nat
      OBVIOUS
    <3>2. /\ Meaning(x, item).at = x.at + Len(Symbols[item])
          /\ Meaning(x, item).cut
               = (x.cut \/ (x.at < base /\ base < x.at + Len(Symbols[item])))
          /\ x.at >= base /\ x.at + Len(Symbols[item]) <= pos =>
               /\ Meaning(x, item).cmd = IF item = "cstart" THEN x.at + Len(Symbols[item]) ELSE x.cmd
               /\ Meaning(x, item).evs = x.evs \o Report(x.cmd, item, x.at + Len(Symbols[item]))
               /\ Meaning(x, item).last.start = IF item = "cend" THEN x.cmd ELSE x.last.start
               /\ Meaning(x, item).last.end =
                    IF item = "cend" THEN x.at + Len(Symbols[item]) ELSE x.last.end
          /\ ~ (x.at >= base /\ x.at + Len(Symbols[item]) <= pos) =>
               /\ Meaning(x, item).cmd = x.cmd /\ Meaning(x, item).evs = x.evs
               /\ Meaning(x, item).last = x.last
      BY <3>1, MeaningIs
    <3>. QED BY <3>2, <2>4, <2>5, <2>6, <1>1
  <2>9. g[i + 1] = Says(b, s, item, f, to)
    BY <2>1, <2>3, <2>4, <1>5
  <2>10. ~ y.cut => Uncut(i + 1)
    <3>1. SUFFICES ASSUME ~ y.cut, NEW j \in 1 .. i + 1 PROVE ~ (at[j - 1] < b /\ b < at[j])
      OBVIOUS
    <3>2. ~ x.cut /\ ~ (f < b /\ b < to)
      BY <3>1, <2>8 DEF ReadOff
    <3>3. Uncut(i)
      BY <3>2, <2>2, <2>3
    <3>4. j \in 1 .. i \/ (j = i + 1 /\ j - 1 = i)
      BY <2>1
    <3>. QED BY <3>2, <3>3, <3>4, <2>4
  <2>11. ASSUME i + 1 <= k
         PROVE  /\ y.cmd = g[i + 1].cmd /\ y.evs = g[i + 1].evs
                /\ y.last.start = g[i + 1].ls /\ y.last.end = g[i + 1].le
    <3>1. to <= q
      <4>1. PICK z \in Nat : z = at[k] /\ z <= q
        BY <1>4, <1>7
      <4>2. i + 1 = k \/ i + 1 < k
        BY <2>11, <1>7
      <4>3. i + 1 < k => at[i + 1] < at[k]
        BY <2>1, <1>6, <1>7
      <4>4. to = z \/ to < z
        BY <4>1, <4>2, <4>3, <2>4
      <4>. QED BY <4>1, <4>4
    <3>2. i <= k
      BY <2>11, <1>7
    <3>3. x.cmd = s.cmd /\ x.evs = s.evs /\ x.last.start = s.ls /\ x.last.end = s.le
      BY <3>2, <2>2, <2>3
    <3>4. CASE f >= b
      <4>1. /\ y.cmd = IF item = "cstart" THEN to ELSE x.cmd
            /\ y.evs = x.evs \o Report(x.cmd, item, to)
            /\ y.last.start = IF item = "cend" THEN x.cmd ELSE x.last.start
            /\ y.last.end = IF item = "cend" THEN to ELSE x.last.end
        BY <3>1, <3>4, <2>8
      <4>2. /\ g[i + 1].cmd = IF item = "cstart" THEN to ELSE s.cmd
            /\ g[i + 1].ls = IF item = "cend" THEN s.cmd ELSE s.ls
            /\ g[i + 1].le = IF item = "cend" THEN to ELSE s.le
        BY <3>4, <2>9 DEF Says
      <4>3. g[i + 1].evs = Longer(s, item, to)
        BY <3>4, <2>9 DEF Says
      <4>4. y.evs = Longer(s, item, to)
        BY <4>1, <3>3 DEF Longer
      <4>. QED BY <4>1, <4>2, <4>3, <4>4, <3>3
    <3>5. CASE ~ (f >= b)
      <4>1. y.cmd = x.cmd /\ y.evs = x.evs /\ y.last = x.last
        BY <3>5, <2>8
      <4>. QED BY <4>1, <3>3, <3>5, <2>9 DEF Says
    <3>. QED BY <3>4, <3>5
  <2>12. ASSUME k <= i + 1
         PROVE  y.evs = g[k].evs /\ y.last.start = g[k].ls /\ y.last.end = g[k].le
    <3>1. CASE k = i + 1
      BY <3>1, <2>11, <2>1
    <3>2. CASE k <= i
      <4>1. q < to
        <5>1. k < n /\ k + 1 \in 0 .. n
          BY <3>2, <2>1, <1>7
        <5>2. PICK z \in Nat : z = at[k + 1] /\ q < z
          BY <5>1, <1>4, <1>7
        <5>3. i = k \/ k + 1 < i + 1
          BY <3>2, <1>7
        <5>4. k + 1 < i + 1 => at[k + 1] < at[i + 1]
          BY <5>1, <2>1, <1>6
        <5>5. to = z \/ z < to
          BY <5>2, <5>3, <5>4, <2>4
        <5>. QED BY <5>2, <5>5
      <4>2. ~ (to <= q)
        BY <4>1
      <4>3. y.evs = x.evs /\ y.last = x.last
        BY <4>2, <2>8
      <4>. QED BY <4>3, <3>2, <2>2, <2>3
    <3>. QED BY <3>1, <3>2, <2>1, <2>12, <1>7
  <2>13. Good(i + 1)
    BY <2>4, <2>7, <2>8, <2>10, <2>11, <2>12
  <2>. QED BY <2>1, <2>13
<1>. HIDE DEF T
<1>10. \A i \in 0 .. n : i \in T
  BY <1>8, <1>9, UpTo
<1>11. Good(n)
  BY <1>10 DEF T
<1>12. Truth.evs = g[k].evs /\ Truth.last.start = g[k].ls /\ Truth.last.end = g[k].le
  BY <1>3, <1>7, <1>11
<1>13. ~ Truth.cut => Whole(base, sc.script, at)
  BY <1>1, <1>3, <1>11 DEF Whole
<1>. QED BY <1>12, <1>13

\* Every place on the wire is in some item, or at the end.
LEMMA PlaceExists ==
    ASSUME NEW p \in Seq(DOMAIN Symbols), NEW at, Laid(p, at), NEW q \in Nat, q <= Len(Wire(p))
    PROVE  \E k \in 0 .. Len(p) : /\ at[k] <= q /\ (k < Len(p) => q < at[k + 1])
                                  /\ (k = Len(p) => q = at[k])
<1>1. PICK n \in Nat : n = Len(p)
  OBVIOUS
<1>2. at[0] = 0 /\ at[n] = Len(Wire(p)) /\ \A k \in 0 .. n : at[k] \in Nat
  BY <1>1 DEF Laid
<1>. DEFINE S == {k \in 0 .. n : at[k] <= q}
<1>3. PICK k \in S : \A j \in S : j <= k
  <2>1. 0 \in S
    BY <1>2
  <2>2. S \in SUBSET (0 .. n) /\ S # {}
    BY <2>1
  <2>3. PICK T : T = {n - j : j \in S}
    OBVIOUS
  <2>4. T \subseteq Nat /\ T # {}
    BY <2>2, <2>3
  <2>5. PICK x \in T : \A y \in T : x <= y
    BY <2>4, Least
  <2>6. PICK j \in S : x = n - j
    BY <2>3
  <2>7. \A i \in S : n - j <= n - i
    BY <2>3, <2>5, <2>6
  <2>8. \A i \in S : i <= j
    BY <2>7
  <2>. QED BY <2>8
<1>4. k < n => q < at[k + 1]
  <2>1. SUFFICES ASSUME k < n PROVE q < at[k + 1]
    OBVIOUS
  <2>2. k + 1 \in 0 .. n /\ ~ (k + 1 <= k)
    BY <2>1
  <2>3. k + 1 \notin S
    BY <2>2, <1>3, Zenon
  <2>. QED BY <2>2, <2>3, <1>2
<1>5. k = n => q = at[k]
  <2>1. SUFFICES ASSUME k = n PROVE q = at[k]
    OBVIOUS
  <2>2. at[n] \in Nat /\ at[n] <= q /\ q <= at[n]
    BY <2>1, <1>2
  <2>. QED BY <2>1, <2>2
<1>. QED BY <1>1, <1>4, <1>5

\* A monitor that begins between two items has said nothing yet, as it should.
LEMMA FreshTracks ==
    ASSUME NEW p \in Seq(DOMAIN Symbols), NEW at, NEW g, NEW b \in Nat, b <= Len(Wire(p)),
           Laid(p, at), Means(b, p, at, g), Whole(b, p, at),
           NEW m, m.osc = "ground", m.cmdStart = 0, m.out = <<>>, m.streamPos = b,
           m.lastStart = 0, m.lastEnd = 0
    PROVE  Track(m, b, p, at, g, <<>>)
<1>1. PICK n \in Nat : n = Len(p)
  OBVIOUS
<1>2. PICK k \in 0 .. n : at[k] <= b /\ (k < n => b < at[k + 1]) /\ (k = n => b = at[k])
  BY <1>1, PlaceExists
<1>3. \A i \in 0 .. n : at[i] \in Nat
  BY <1>1 DEF Laid
<1>4. at[k] = b
  <2>1. CASE k < n
    <3>1. k + 1 \in 1 .. n /\ (k + 1) - 1 = k
      BY <2>1
    <3>2. ~ (at[k] < b /\ b < at[k + 1])
      BY <3>1, <1>1 DEF Whole
    <3>. QED BY <3>2, <2>1, <1>2, <1>3
  <2>2. CASE k = n
    BY <2>2, <1>2
  <2>. QED BY <2>1, <2>2
<1>5. \A i, j \in 0 .. n : i < j => at[i] < at[j]
  BY <1>1, LaidInOrder
<1>. DEFINE T == {i \in 0 .. k : g[i].cmd = 0 /\ g[i].evs = <<>> /\ g[i].ls = 0 /\ g[i].le = 0}
<1>6. 0 \in T
  BY DEF Means
<1>7. ASSUME NEW i \in 0 .. k - 1, i \in T PROVE i + 1 \in T
  <2>1. i + 1 \in 1 .. n /\ (i + 1) - 1 = i /\ i \in 0 .. n /\ i < k /\ i + 1 \in 0 .. k
    OBVIOUS
  <2>2. at[i] < b /\ at[i] \in Nat
    BY <2>1, <1>3, <1>4, <1>5
  <2>3. g[i + 1] = Says(b, g[i], p[i + 1], at[i], at[i + 1])
    BY <2>1, <1>1 DEF Means
  <2>4. ~ (at[i] >= b)
    BY <2>2
  <2>5. /\ g[i + 1].cmd = g[i].cmd /\ g[i + 1].evs = g[i].evs
        /\ g[i + 1].ls = g[i].ls /\ g[i + 1].le = g[i].le
    BY <2>3, <2>4 DEF Says
  <2>. QED BY <2>1, <2>5, <1>7
<1>. HIDE DEF T
<1>8. \A i \in 0 .. k : i \in T
  <2>1. k \in Nat
    OBVIOUS
  <2>. QED BY <2>1, <1>6, <1>7, UpTo
<1>9. g[k].cmd = 0 /\ g[k].evs = <<>> /\ g[k].ls = 0 /\ g[k].le = 0
  BY <1>8 DEF T
<1>10. <<>> \o Only(Marks, <<>>) = <<>>
  <2>1. Only(Marks, <<>>) = <<>>
    BY OnlyOne
  <2>. QED BY <2>1
<1>11. Inside(m, p[k + 1], 0) /\ b - at[k] = 0
  BY <1>4 DEF Inside
<1>12. TrackAt(m, b, p, at, g, <<>>, k)
  BY <1>1, <1>2, <1>4, <1>9, <1>10, <1>11 DEF TrackAt
<1>. QED BY <1>1, <1>12 DEF Track

\* An event of another session, or of the daemon.
Other == [type |-> "other", start |-> 0, end |-> 0]

\* The session's events that are emitted, the others left out.
Told == [k \in DOMAIN emitted |-> IF emitted[k].scope = Session THEN emitted[k].ev ELSE Other]

\* The reports of silence s up to p: each is later than the one before, and where the
\* output went on after the last they are all behind it.
Quiet(s, p, silent) ==
    /\ s \in Seq(EventRec)
    /\ \A i, j \in DOMAIN s : i < j => s[i].start < s[j].start
    /\ \A i \in DOMAIN s : s[i].start <= p /\ (~ silent => s[i].start < p)

\* The monitor is where the script says, and so is what has been reported.
MarksInv ==
    /\ bytes = Wire(sc.script) /\ base \in Nat /\ base <= pos /\ mon.out = <<>>
    /\ outbox \in Seq(EventRec) /\ (\E S : emitted \in Seq(S)) /\ Told \in Seq(EventRec)
    /\ \E at, g : /\ Laid(sc.script, at) /\ Means(base, sc.script, at, g)
                  /\ Whole(base, sc.script, at) =>
                       Track(mon, pos, sc.script, at, g, Only(Marks, EventsSoFar))
    /\ Quiet(Only({"silence"}, EventsSoFar), pos, mon.silent)

\* The events so far are those emitted and those in the outbox.
LEMMA SoFar ==
    ASSUME outbox \in Seq(EventRec), Told \in Seq(EventRec), NEW types
    PROVE  /\ EventsSoFar = Told \o outbox
           /\ Only(types, EventsSoFar) = Only(types, Told) \o Only(types, outbox)
           /\ Only(types, Told) \in Seq(EventRec) /\ Only(types, outbox) \in Seq(EventRec)
           /\ Only(types, EventsSoFar) \in Seq(EventRec)
<1>1. PICK p \in Seq(EventRec), q \in Seq(EventRec) : p = Told /\ q = outbox
  OBVIOUS
<1>2. EventsSoFar = p \o q
  BY <1>1 DEF EventsSoFar, Told, Other
<1>3. /\ Only(types, p) \in Seq(EventRec) /\ Only(types, q) \in Seq(EventRec)
      /\ Only(types, p \o q) = Only(types, p) \o Only(types, q)
  BY OnlyJoin, Zenon
<1>4. Only(types, p) \o Only(types, q) \in Seq(EventRec)
  BY <1>3, ConcatProperties
<1>. QED BY <1>1, <1>2, <1>3, <1>4

\* An event is emitted.
LEMMA ToldOneMore ==
    ASSUME NEW S, emitted \in Seq(S), Told \in Seq(EventRec), NEW e, emitted' = Append(emitted, e),
           NEW ev \in EventRec, ev = IF e.scope = Session THEN e.ev ELSE Other
    PROVE  Told' = Told \o <<ev>> /\ emitted' \in Seq(S \cup {e})
<1>1. emitted \in Seq(S \cup {e}) /\ e \in S \cup {e}
  OBVIOUS
<1>2. /\ Len(emitted) \in Nat /\ Len(emitted') = Len(emitted) + 1
      /\ emitted'[Len(emitted) + 1] = e
      /\ \A k \in 1 .. Len(emitted) : emitted'[k] = emitted[k]
      /\ emitted' \in Seq(S \cup {e})
  BY <1>1, AppendProperties, LenProperties
<1>3a. PICK n \in Nat : n = Len(emitted)
  BY <1>2
<1>3b. PICK a, b : a = emitted /\ b = emitted'
  OBVIOUS
<1>3c. PICK p \in Seq(EventRec) : p = Told
  OBVIOUS
<1>3. n = Len(emitted) /\ a = emitted /\ b = emitted' /\ p = Told
  BY <1>3a, <1>3b, <1>3c
<1>4. DOMAIN a = 1 .. n /\ DOMAIN b = 1 .. n + 1
  BY <1>2, <1>3
<1>5. Len(p) = n /\ \A k \in 1 .. n : p[k] = IF a[k].scope = Session THEN a[k].ev ELSE Other
  BY <1>3, <1>4 DEF Told
<1>6. Told' = [k \in 1 .. n + 1 |-> IF b[k].scope = Session THEN b[k].ev ELSE Other]
  BY <1>3, <1>4 DEF Told
<1>7. PICK q \in Seq(EventRec) : q = Append(p, ev) /\ Len(q) = n + 1 /\ q[n + 1] = ev
                                 /\ \A k \in 1 .. n : q[k] = p[k]
  <2>1. /\ Append(p, ev) \in Seq(EventRec) /\ Len(Append(p, ev)) = Len(p) + 1
        /\ \A i \in 1 .. Len(p) : Append(p, ev)[i] = p[i]
        /\ Append(p, ev)[Len(p) + 1] = ev
    BY AppendProperties
  <2>. QED BY <2>1, <1>5
<1>8. \A k \in 1 .. n + 1 : q[k] = IF b[k].scope = Session THEN b[k].ev ELSE Other
  <2>1. \A k \in 1 .. n : b[k] = a[k]
    BY <1>2, <1>3
  <2>2. b[n + 1] = e
    BY <1>2, <1>3
  <2>3. \A k \in 1 .. n + 1 : k \in 1 .. n \/ k = n + 1
    OBVIOUS
  <2>4. q[n + 1] = IF b[n + 1].scope = Session THEN b[n + 1].ev ELSE Other
    BY <2>2, <1>7
  <2>5. \A k \in 1 .. n : q[k] = IF b[k].scope = Session THEN b[k].ev ELSE Other
    BY <2>1, <1>5, <1>7
  <2>. QED BY <2>3, <2>4, <2>5
<1>9. q = [k \in 1 .. n + 1 |-> q[k]]
  BY <1>7
<1>10. Told' = q
  BY <1>6, <1>8, <1>9
<1>11. Append(p, ev) = p \o <<ev>>
  BY AppendIsConcat
<1>. QED BY <1>2, <1>3, <1>7, <1>10, <1>11

\* What leaves the monitor and the marks alone keeps the invariant.
LEMMA MarksStay ==
    ASSUME MarksInv, UNCHANGED <<sc, bytes, base, pos, mon>>, outbox' \in Seq(EventRec),
           \E S : emitted' \in Seq(S), Told' \in Seq(EventRec),
           Only(Marks, EventsSoFar)' = Only(Marks, EventsSoFar),
           Only({"silence"}, EventsSoFar)' = Only({"silence"}, EventsSoFar)
    PROVE  MarksInv'
<1>1. PICK at, g : /\ Laid(sc.script, at) /\ Means(base, sc.script, at, g)
                   /\ Whole(base, sc.script, at) =>
                        Track(mon, pos, sc.script, at, g, Only(Marks, EventsSoFar))
  BY DEF MarksInv
<1>2. /\ bytes' = Wire(sc'.script) /\ base' \in Nat /\ base' <= pos' /\ mon'.out = <<>>
  BY DEF MarksInv
<1>3. /\ Laid(sc.script, at)' /\ Means(base, sc.script, at, g)'
      /\ Whole(base, sc.script, at)' =>
           Track(mon, pos, sc.script, at, g, Only(Marks, EventsSoFar))'
  BY <1>1
<1>4. Quiet(Only({"silence"}, EventsSoFar), pos, mon.silent)'
  BY DEF MarksInv
<1>. QED BY <1>2, <1>3, <1>4 DEF MarksInv

\* Emptying the monitor's events into what has been reported.
LEMMA DrainTracks ==
    ASSUME NEW f \in Mon, NEW m, m = [f EXCEPT !.out = <<>>], NEW p, NEW script, NEW at, NEW g,
           NEW pre \in Seq(EventRec), Track(f, p, script, at, g, pre)
    PROVE  /\ Track(m, p, script, at, g, pre \o Only(Marks, f.out))
           /\ m.silent = f.silent /\ m.out = <<>>
<1>1. PICK k \in 0 .. Len(script) : TrackAt(f, p, script, at, g, pre, k)
  BY DEF Track
<1>2. /\ m.osc = f.osc /\ m.payload = f.payload /\ m.streamPos = f.streamPos
      /\ m.cmdStart = f.cmdStart /\ m.silent = f.silent /\ m.out = <<>>
      /\ m.lastStart = f.lastStart /\ m.lastEnd = f.lastEnd
  BY DEF Mon
<1>3. \A j : Inside(f, script[k + 1], j) => Inside(m, script[k + 1], j)
  BY <1>2 DEF Inside
<1>4. PICK q \in Seq(EventRec) : q = pre \o Only(Marks, f.out)
  <2>1. f.out \in Seq(EventRec)
    BY DEF Mon
  <2>2. Only(Marks, f.out) \in Seq(EventRec)
    BY <2>1, OnlyJoin
  <2>. QED BY <2>2, ConcatProperties
<1>5. q \o Only(Marks, m.out) = q
  <2>1. Only(Marks, m.out) = <<>>
    BY <1>2, OnlyOne
  <2>2. q \o <<>> = q
    BY ConcatEmptySeq
  <2>. QED BY <2>1, <2>2
<1>6. TrackAt(m, p, script, at, g, q, k)
  BY <1>1, <1>2, <1>3, <1>4, <1>5 DEF TrackAt
<1>. QED BY <1>2, <1>4, <1>6 DEF Track

\* A new monitor tracks the script if no item lies across the place where it begins.
LEMMA FreshExists ==
    ASSUME NEW p \in Seq(DOMAIN Symbols), NEW b \in Nat, b <= Len(Wire(p)),
           NEW m, m.osc = "ground", m.cmdStart = 0, m.out = <<>>, m.streamPos = b,
           m.lastStart = 0, m.lastEnd = 0
    PROVE  \E at, g : /\ Laid(p, at) /\ Means(b, p, at, g)
                      /\ Whole(b, p, at) => Track(m, b, p, at, g, <<>>)
<1>1. PICK at : Laid(p, at)
  BY WireLaid
<1>2. PICK g : Means(b, p, at, g)
  BY <1>1, MeansExists
<1>3. Whole(b, p, at) => Track(m, b, p, at, g, <<>>)
  BY <1>1, <1>2, FreshTracks
<1>. QED BY <1>1, <1>2, <1>3

\* Nothing has been reported, so nothing of any type.
LEMMA NothingQuiet ==
    ASSUME NEW p
    PROVE  Quiet(<<>>, p, FALSE) /\ \A types : Only(types, <<>>) = <<>>
<1>1. <<>> \in Seq(EventRec) /\ DOMAIN <<>> = {}
  OBVIOUS
<1>. QED BY <1>1, OnlyOne DEF Quiet

\* Initially.
LEMMA MarksInvInit == TapInit => MarksInv
<1>. SUFFICES ASSUME TapInit PROVE MarksInv
  OBVIOUS
<1>1. /\ sc \in Scenarios /\ bytes = Wire(sc.script) /\ pos = 0 /\ base = 0 /\ mon = NewMonitor
      /\ outbox = <<>> /\ emitted = <<>>
  BY DEF TapInit, BusInit
<1>2. sc.script \in Seq(DOMAIN Symbols)
  BY <1>1, ScenariosAssumption
<1>3. /\ mon.osc = "ground" /\ mon.cmdStart = 0 /\ mon.out = <<>> /\ mon.streamPos = 0
      /\ mon.silent = FALSE /\ mon.lastStart = 0 /\ mon.lastEnd = 0
  BY <1>1 DEF NewMonitor
<1>4. Told = <<>> /\ EventsSoFar = <<>>
  <2>1. DOMAIN emitted = {}
    BY <1>1
  <2>2. Told = <<>>
    BY <2>1 DEF Told
  <2>3. Told \in Seq(EventRec) /\ outbox \in Seq(EventRec) /\ <<>> \o <<>> = <<>>
    BY <2>2, <1>1
  <2>4. EventsSoFar = Told \o outbox
    BY <2>3, SoFar
  <2>. QED BY <2>2, <2>3, <2>4, <1>1
<1>5a. PICK p \in Seq(DOMAIN Symbols) : p = sc.script
  BY <1>2
<1>5b. PICK m : m = mon
  OBVIOUS
<1>5. p = sc.script /\ m = mon
  BY <1>5a, <1>5b
<1>6. 0 <= Len(Wire(p)) /\ 0 \in Nat
  <2>1. Wire(p) \in Seq(Symbol)
    BY WireLength
  <2>. QED BY <2>1
<1>7. \E at, g : /\ Laid(p, at) /\ Means(0, p, at, g)
                 /\ Whole(0, p, at) => Track(m, 0, p, at, g, <<>>)
  BY <1>3, <1>5, <1>6, FreshExists
<1>8. Only(Marks, EventsSoFar) = <<>> /\ Quiet(Only({"silence"}, EventsSoFar), 0, FALSE)
  BY <1>4, NothingQuiet
<1>9. outbox \in Seq(EventRec) /\ (\E S : emitted \in Seq(S)) /\ Told \in Seq(EventRec)
  BY <1>1, <1>4
<1>10. /\ bytes = Wire(sc.script) /\ base \in Nat /\ base <= pos /\ mon.out = <<>>
  BY <1>1, <1>3
<1>11. \E at, g : /\ Laid(sc.script, at) /\ Means(base, sc.script, at, g)
                  /\ Whole(base, sc.script, at) =>
                       Track(mon, pos, sc.script, at, g, Only(Marks, EventsSoFar))
  BY <1>1, <1>5, <1>7, <1>8
<1>12. Quiet(Only({"silence"}, EventsSoFar), pos, mon.silent)
  BY <1>1, <1>3, <1>8
<1>. QED BY <1>9, <1>10, <1>11, <1>12 DEF MarksInv

\* A chunk of output.
LEMMA MarksPump ==
    ASSUME TapOK, MarksInv, NEW n \in 1 .. Len(bytes), PumpOutput(n)
    PROVE  MarksInv'
<1>0. /\ sc \in Scenarios /\ bytes \in Seq(Symbol) /\ pos \in Nat /\ Len(bytes) \in Nat
      /\ now \in Nat /\ mon \in Mon /\ InOrder(mon) /\ mon.streamPos = pos
  BY DEF TapOK
<1>1. /\ bytes = Wire(sc.script) /\ base \in Nat /\ base <= pos /\ mon.out = <<>>
      /\ Told \in Seq(EventRec) /\ (\E S : emitted \in Seq(S))
      /\ Quiet(Only({"silence"}, EventsSoFar), pos, mon.silent)
  BY DEF MarksInv
<1>2. PICK at, g : /\ Laid(sc.script, at) /\ Means(base, sc.script, at, g)
                   /\ Whole(base, sc.script, at) =>
                        Track(mon, pos, sc.script, at, g, Only(Marks, EventsSoFar))
  BY DEF MarksInv
<1>3. n \in Nat /\ pos + n <= Len(bytes) /\ pos' = pos + n /\ outbox = <<>>
      /\ UNCHANGED <<sc, bytes, now, base, emitted>>
  BY <1>0 DEF PumpOutput, Idle, bvars
<1>4. PICK p : p = SubSeq(bytes, pos + 1, pos + n)
  OBVIOUS
<1>5. p \in Seq(Symbol)
  <2>1. \A i \in pos + 1 .. pos + n : bytes[i] \in Symbol
    BY <1>0, <1>3, ElementOfSeq
  <2>. QED BY <2>1, <1>0, <1>3, <1>4, SubSeqProperties
<1>6. PICK f : f = Feed(mon, p, now)
  OBVIOUS
<1>7. f \in Mon /\ f.silent = FALSE /\ Only({"silence"}, f.out) = <<>>
  BY <1>0, <1>5, <1>6, FeedType, FeedQuiet
<1>8. /\ mon' = [f EXCEPT !.out = <<>>]
      /\ outbox' = f.out
         \/ outbox' = Append(f.out, [type |-> "log_broken", start |-> 0, end |-> 0])
  BY <1>4, <1>6 DEF PumpOutput
<1>9. PICK fo \in Seq(EventRec) : fo = f.out
  BY <1>7 DEF Mon
<1>10. /\ outbox' \in Seq(EventRec) /\ Only(Marks, outbox') = Only(Marks, fo)
       /\ Only({"silence"}, outbox') = <<>>
  <2>1. CASE outbox' = f.out
    BY <2>1, <1>7, <1>9
  <2>2. CASE outbox' = Append(f.out, [type |-> "log_broken", start |-> 0, end |-> 0])
    <3>1. PICK e \in EventRec : e = [type |-> "log_broken", start |-> 0, end |-> 0]
      BY DEF EventRec, Kinds
    <3>2. <<e>> \in Seq(EventRec) /\ e.type \notin Marks /\ e.type \notin {"silence"}
      BY <3>1 DEF Marks
    <3>3. outbox' = fo \o <<e>>
      BY <2>2, <3>1, <1>9, AppendIsConcat
    <3>4. Only(Marks, <<e>>) = <<>> /\ Only({"silence"}, <<e>>) = <<>>
      BY <3>2, OnlyOne
    <3>5. \A types : /\ Only(types, fo) \in Seq(EventRec)
                     /\ Only(types, fo \o <<e>>) = Only(types, fo) \o Only(types, <<e>>)
      BY <3>2, OnlyJoin
    <3>6. \A types : Only(types, fo) \o <<>> = Only(types, fo)
      BY <3>5, ConcatEmptySeq
    <3>7. fo \o <<e>> \in Seq(EventRec)
      BY <3>2, ConcatProperties
    <3>. QED BY <3>3, <3>4, <3>5, <3>6, <3>7, <1>7, <1>9
  <2>. QED BY <2>1, <2>2, <1>8
<1>11. Told' = Told
  BY <1>3 DEF Told
<1>12. PICK t \in Seq(EventRec) : t = Told /\ t = EventsSoFar
  <2>1. outbox \in Seq(EventRec) /\ EventsSoFar = Told \o outbox
    BY <1>1, SoFar DEF MarksInv
  <2>2. Told \o <<>> = Told
    BY <1>1, ConcatEmptySeq
  <2>. QED BY <2>1, <2>2, <1>1, <1>3
<1>13. PICK o \in Seq(EventRec) : o = outbox'
  BY <1>10
<1>14. EventsSoFar' = t \o o
  BY <1>11, <1>12, <1>13 DEF EventsSoFar, Told, Other
<1>15. \A types : /\ Only(types, t) \in Seq(EventRec)
                  /\ Only(types, t \o o) = Only(types, t) \o Only(types, o)
  BY OnlyJoin
<1>16. PICK pre \in Seq(EventRec) :
         pre = Only(Marks, EventsSoFar) /\ Only(Marks, EventsSoFar)' = pre \o Only(Marks, f.out)
  <2>1. Only(Marks, t) \in Seq(EventRec)
    BY <1>15
  <2>. QED BY <2>1, <1>9, <1>10, <1>12, <1>13, <1>14, <1>15
<1>17. Only({"silence"}, EventsSoFar)' = Only({"silence"}, EventsSoFar)
  <2>1. Only({"silence"}, t) \o <<>> = Only({"silence"}, t)
    BY <1>15, ConcatEmptySeq
  <2>. QED BY <2>1, <1>10, <1>12, <1>13, <1>14, <1>15
<1>18a. PICK b \in Nat, q \in Nat : b = base /\ q = pos
  BY <1>0, <1>1
<1>18b. PICK script \in Seq(DOMAIN Symbols) : script = sc.script
  BY <1>0, ScenariosAssumption
<1>18c. PICK m, s : m = mon' /\ s = mon
  OBVIOUS
<1>18. m = mon' /\ b = base /\ q = pos /\ script = sc.script /\ s = mon
  BY <1>18a, <1>18b, <1>18c
<1>19. Whole(b, script, at) => Track(m, q + n, script, at, g, pre \o Only(Marks, f.out))
  <2>1. SUFFICES ASSUME Whole(b, script, at)
                 PROVE  Track(m, q + n, script, at, g, pre \o Only(Marks, f.out))
    OBVIOUS
  <2>2. Track(s, q, script, at, g, pre)
    BY <2>1, <1>2, <1>16, <1>18
  <2>3. /\ Laid(script, at) /\ Means(b, script, at, g) /\ s \in Mon /\ InOrder(s) /\ s.out = <<>>
        /\ b <= q /\ q + n <= Len(Wire(script))
    BY <1>0, <1>1, <1>2, <1>3, <1>18
  <2>4. PICK c \in Nat : c = now
    BY <1>0
  <2>5. Track(Feed(s, SubSeq(Wire(script), q + 1, q + n), c), q + n, script, at, g, pre)
    BY <2>1, <2>2, <2>3, <1>3, FeedTracks
  <2>6. f = Feed(s, SubSeq(Wire(script), q + 1, q + n), c)
    BY <2>4, <1>1, <1>4, <1>6, <1>18
  <2>7. m = [f EXCEPT !.out = <<>>]
    BY <1>8, <1>18
  <2>. QED BY <2>5, <2>6, <2>7, <1>7, DrainTracks
<1>20. mon'.out = <<>> /\ mon'.silent = FALSE
  BY <1>7, <1>8 DEF Mon
<1>21. Quiet(Only({"silence"}, EventsSoFar), pos, mon.silent)'
  <2>1. PICK z \in Seq(EventRec) : z = Only({"silence"}, EventsSoFar)
    BY <1>1 DEF Quiet
  <2>2. /\ \A i, j \in DOMAIN z : i < j => z[i].start < z[j].start
        /\ \A i \in DOMAIN z : z[i].start <= pos
    BY <2>1, <1>1 DEF Quiet
  <2>3. \A i \in DOMAIN z : z[i].start \in Nat
    <3>1. \A i \in DOMAIN z : z[i] \in EventRec
      OBVIOUS
    <3>2. \A e \in EventRec : e.start \in Nat
      BY DEF EventRec
    <3>. QED BY <3>1, <3>2
  <2>4. \A i \in DOMAIN z : z[i].start <= pos + n /\ z[i].start < pos + n
    BY <2>2, <2>3, <1>0, <1>3
  <2>5. Quiet(z, pos + n, FALSE)
    BY <2>2, <2>4 DEF Quiet
  <2>. QED BY <2>1, <2>5, <1>3, <1>17, <1>20
<1>22. /\ Laid(sc.script, at)' /\ Means(base, sc.script, at, g)'
       /\ Whole(base, sc.script, at)' =>
            Track(mon, pos, sc.script, at, g, Only(Marks, EventsSoFar))'
  BY <1>2, <1>3, <1>16, <1>18, <1>19
<1>23. /\ bytes' = Wire(sc'.script) /\ base' \in Nat /\ base' <= pos' /\ Told' \in Seq(EventRec)
       /\ \E S : emitted' \in Seq(S)
  BY <1>0, <1>1, <1>3, <1>11
<1>. QED BY <1>10, <1>20, <1>21, <1>22, <1>23 DEF MarksInv

\* A monitor that differs in nothing the scanner uses tracks the script as well.
LEMMA SameTracks ==
    ASSUME NEW m, NEW n, n.osc = m.osc, n.payload = m.payload, n.streamPos = m.streamPos,
           n.cmdStart = m.cmdStart, n.out = m.out, n.lastStart = m.lastStart,
           n.lastEnd = m.lastEnd, NEW p, NEW script, NEW at, NEW g, NEW pre,
           Track(m, p, script, at, g, pre)
    PROVE  Track(n, p, script, at, g, pre)
<1>1. PICK k \in 0 .. Len(script) : TrackAt(m, p, script, at, g, pre, k)
  BY DEF Track
<1>2. \A j : Inside(m, script[k + 1], j) => Inside(n, script[k + 1], j)
  BY DEF Inside
<1>3. TrackAt(n, p, script, at, g, pre, k)
  BY <1>1, <1>2 DEF TrackAt
<1>. QED BY <1>3 DEF Track

\* An event that is neither a mark nor silence adds to neither, wherever it comes in.
LEMMA AddsNothing ==
    ASSUME NEW p \in Seq(EventRec), NEW q \in Seq(EventRec), NEW e \in EventRec, NEW types,
           e.type \notin types
    PROVE  Only(types, (p \o <<e>>) \o q) = Only(types, p \o q)
<1>1. <<e>> \in Seq(EventRec) /\ Only(types, <<e>>) = <<>>
  <2>1. <<e>> \in Seq(EventRec)
    OBVIOUS
  <2>2. Only(types, <<e>>) = <<>>
    BY OnlyOne, Zenon
  <2>. QED BY <2>1, <2>2
<1>2. PICK r \in Seq(EventRec) : r = p \o <<e>>
  BY <1>1, ConcatProperties
<1>3. Only(types, r) = Only(types, p)
  <2>1. Only(types, r) = Only(types, p) \o Only(types, <<e>>) /\ Only(types, p) \in Seq(EventRec)
    BY <1>1, <1>2, OnlyJoin
  <2>2. Only(types, p) \o <<>> = Only(types, p)
    BY <2>1, ConcatEmptySeq
  <2>. QED BY <2>1, <2>2, <1>1
<1>4. Only(types, r \o q) = Only(types, r) \o Only(types, q)
  BY OnlyJoin
<1>5. Only(types, p \o q) = Only(types, p) \o Only(types, q)
  BY OnlyJoin
<1>. QED BY <1>2, <1>3, <1>4, <1>5

\* The next event of the call in progress is emitted.
LEMMA MarksEmit == MarksInv /\ EmitNext => MarksInv'
<1>. SUFFICES ASSUME MarksInv, EmitNext PROVE MarksInv'
  OBVIOUS
<1>1. /\ outbox \in Seq(EventRec) /\ Told \in Seq(EventRec) /\ outbox # <<>>
      /\ outbox' = Tail(outbox) /\ UNCHANGED <<sc, bytes, base, pos, mon>>
      /\ emitted' = Append(emitted, [scope |-> Session, ev |-> Head(outbox)])
  BY DEF MarksInv, EmitNext, Emit
<1>2. PICK S : emitted \in Seq(S)
  BY DEF MarksInv
<1>3. PICK o \in Seq(EventRec) : o = outbox /\ o # <<>>
  BY <1>1
<1>4. Head(o) \in EventRec /\ Tail(o) \in Seq(EventRec) /\ o = <<Head(o)>> \o Tail(o)
  <2>1. Head(o) \in EventRec /\ Tail(o) \in Seq(EventRec)
    BY <1>3
  <2>2. o = <<Head(o)>> \o Tail(o)
    BY <1>3
  <2>. QED BY <2>1, <2>2
<1>5. PICK ev \in EventRec, tl \in Seq(EventRec) : ev = Head(o) /\ tl = Tail(o) /\ o = <<ev>> \o tl
  BY <1>4
<1>6. PICK e : e = [scope |-> Session, ev |-> ev]
  OBVIOUS
<1>7. emitted' = Append(emitted, e) /\ ev = IF e.scope = Session THEN e.ev ELSE Other
  BY <1>1, <1>3, <1>5, <1>6
<1>8. Told' = Told \o <<ev>> /\ emitted' \in Seq(S \cup {e})
  BY <1>1, <1>2, <1>7, ToldOneMore
<1>9. PICK t \in Seq(EventRec) : t = Told
  BY <1>1
<1>10. <<ev>> \in Seq(EventRec)
  OBVIOUS
<1>11. Told' = t \o <<ev>> /\ Told' \in Seq(EventRec)
  <2>1. t \o <<ev>> \in Seq(EventRec)
    BY <1>10, ConcatProperties
  <2>. QED BY <2>1, <1>8, <1>9
<1>12. outbox' = tl
  BY <1>1, <1>3, <1>5
<1>13. EventsSoFar' = (t \o <<ev>>) \o tl
  BY <1>11, <1>12 DEF EventsSoFar, Told, Other
<1>14. EventsSoFar = t \o (<<ev>> \o tl)
  BY <1>1, <1>3, <1>5, <1>9, SoFar
<1>15. t \o (<<ev>> \o tl) = (t \o <<ev>>) \o tl
  BY <1>10, ThreeRuns
<1>16. EventsSoFar' = EventsSoFar
  BY <1>13, <1>14, <1>15
<1>17. /\ Only(Marks, EventsSoFar)' = Only(Marks, EventsSoFar)
       /\ Only({"silence"}, EventsSoFar)' = Only({"silence"}, EventsSoFar)
  BY <1>16
<1>. QED BY <1>1, <1>8, <1>11, <1>12, <1>17, MarksStay

\* An event of others is emitted.
LEMMA MarksOther == MarksInv /\ EmitOther => MarksInv'
<1>. SUFFICES ASSUME MarksInv, EmitOther PROVE MarksInv'
  OBVIOUS
<1>1. /\ outbox \in Seq(EventRec) /\ Told \in Seq(EventRec)
      /\ UNCHANGED <<sc, bytes, base, pos, mon, outbox>>
      /\ emitted' = Append(emitted, [scope |-> Daemon, ev |-> Other])
  BY DEF MarksInv, EmitOther, Emit, Other
<1>2. PICK S : emitted \in Seq(S)
  BY DEF MarksInv
<1>3. PICK ev \in EventRec : ev = Other
  BY DEF EventRec, Kinds, Other
<1>4. PICK e : e = [scope |-> Daemon, ev |-> ev]
  OBVIOUS
<1>5. emitted' = Append(emitted, e) /\ ev = IF e.scope = Session THEN e.ev ELSE Other
  BY <1>1, <1>3, <1>4
<1>6. Told' = Told \o <<ev>> /\ emitted' \in Seq(S \cup {e})
  BY <1>1, <1>2, <1>5, ToldOneMore
<1>7. PICK t \in Seq(EventRec), o \in Seq(EventRec) : t = Told /\ o = outbox
  BY <1>1
<1>8. Told' = t \o <<ev>> /\ Told' \in Seq(EventRec)
  <2>1. <<ev>> \in Seq(EventRec)
    OBVIOUS
  <2>2. t \o <<ev>> \in Seq(EventRec)
    BY <2>1, ConcatProperties
  <2>. QED BY <2>2, <1>6, <1>7
<1>9. EventsSoFar' = (t \o <<ev>>) \o o
  BY <1>1, <1>7, <1>8 DEF EventsSoFar, Told, Other
<1>10. EventsSoFar = t \o o
  BY <1>1, <1>7, SoFar
<1>11. ev.type \notin Marks /\ ev.type \notin {"silence"}
  BY <1>3 DEF Other, Marks
<1>12. /\ Only(Marks, (t \o <<ev>>) \o o) = Only(Marks, t \o o)
       /\ Only({"silence"}, (t \o <<ev>>) \o o) = Only({"silence"}, t \o o)
  BY <1>11, AddsNothing
<1>13. /\ Only(Marks, EventsSoFar)' = Only(Marks, EventsSoFar)
       /\ Only({"silence"}, EventsSoFar)' = Only({"silence"}, EventsSoFar)
  BY <1>9, <1>10, <1>12
<1>. QED BY <1>1, <1>6, <1>8, <1>13, MarksStay

\* The session ends.
LEMMA MarksFinish == MarksInv /\ Finish => MarksInv'
<1>. SUFFICES ASSUME MarksInv, Finish PROVE MarksInv'
  OBVIOUS
<1>1. /\ outbox = <<>> /\ Told \in Seq(EventRec) /\ (\E S : emitted \in Seq(S))
      /\ UNCHANGED <<sc, bytes, base, pos, mon, emitted>>
      /\ outbox' = <<[type |-> "exited", start |-> 0, end |-> 0]>>
  BY DEF MarksInv, Finish, Idle, bvars
<1>2. PICK ev \in EventRec : ev = [type |-> "exited", start |-> 0, end |-> 0]
  BY DEF EventRec, Kinds
<1>3. PICK t \in Seq(EventRec) : t = Told
  BY <1>1
<1>4. <<ev>> \in Seq(EventRec) /\ outbox' = <<ev>> /\ Told' = t
  <2>1. <<ev>> \in Seq(EventRec)
    OBVIOUS
  <2>2. Told' = Told
    BY <1>1 DEF Told
  <2>. QED BY <2>1, <2>2, <1>1, <1>2, <1>3
<1>5. EventsSoFar' = t \o <<ev>>
  BY <1>4 DEF EventsSoFar, Told, Other
<1>6. EventsSoFar = t \o <<>> /\ <<>> \in Seq(EventRec)
  <2>1. outbox \in Seq(EventRec)
    BY <1>1
  <2>. QED BY <2>1, <1>1, <1>3, SoFar
<1>7. t \o <<>> = t /\ (t \o <<ev>>) \o <<>> = t \o <<ev>>
  <2>1. t \o <<ev>> \in Seq(EventRec)
    BY <1>4, ConcatProperties
  <2>. QED BY <2>1, ConcatEmptySeq
<1>8. ev.type \notin Marks /\ ev.type \notin {"silence"}
  BY <1>2 DEF Marks
<1>9. /\ Only(Marks, (t \o <<ev>>) \o <<>>) = Only(Marks, t \o <<>>)
      /\ Only({"silence"}, (t \o <<ev>>) \o <<>>) = Only({"silence"}, t \o <<>>)
  BY <1>6, <1>8, AddsNothing
<1>10. /\ Only(Marks, EventsSoFar)' = Only(Marks, EventsSoFar)
       /\ Only({"silence"}, EventsSoFar)' = Only({"silence"}, EventsSoFar)
  BY <1>5, <1>6, <1>7, <1>9
<1>11. (\E S : emitted' \in Seq(S)) /\ Told' \in Seq(EventRec) /\ outbox' \in Seq(EventRec)
  BY <1>1, <1>3, <1>4
<1>. QED BY <1>1, <1>10, <1>11, MarksStay

\* The session goes to a daemon with a new monitor and an empty bus.
LEMMA MarksTakenOver == TapOK /\ MarksInv /\ TakenOver => MarksInv'
<1>. SUFFICES ASSUME TapOK, MarksInv, TakenOver PROVE MarksInv'
  OBVIOUS
<1>1. /\ pos \in Nat /\ pos <= Len(bytes) /\ sc \in Scenarios /\ bytes = Wire(sc.script)
      /\ outbox = <<>> /\ mon' = SetStreamPos(pos, now) /\ base' = pos /\ emitted' = <<>>
      /\ UNCHANGED <<sc, bytes, pos, outbox>>
  BY DEF TapOK, MarksInv, TakenOver, Idle, BusReset
<1>2. /\ mon'.osc = "ground" /\ mon'.cmdStart = 0 /\ mon'.out = <<>> /\ mon'.streamPos = pos
      /\ mon'.silent = FALSE /\ mon'.lastStart = 0 /\ mon'.lastEnd = 0
  BY <1>1 DEF SetStreamPos, NewMonitor
<1>3. PICK p \in Seq(DOMAIN Symbols) : p = sc.script
  BY <1>1, ScenariosAssumption
<1>4. PICK b \in Nat : b = pos
  BY <1>1
<1>5. PICK m : m = mon'
  OBVIOUS
<1>6. \E at, g : /\ Laid(p, at) /\ Means(b, p, at, g)
                 /\ Whole(b, p, at) => Track(m, b, p, at, g, <<>>)
  BY <1>1, <1>2, <1>3, <1>4, <1>5, FreshExists
<1>7. Told' = <<>> /\ outbox' = <<>>
  <2>1. DOMAIN emitted' = {}
    BY <1>1
  <2>2. Told' = <<>>
    BY <2>1 DEF Told
  <2>. QED BY <2>2, <1>1
<1>8. EventsSoFar' = <<>>
  <2>1. EventsSoFar' = Told' \o outbox'
    BY DEF EventsSoFar, Told, Other
  <2>2. <<>> \o <<>> = <<>>
    OBVIOUS
  <2>. QED BY <2>1, <2>2, <1>7
<1>9. Only(Marks, EventsSoFar)' = <<>> /\ Quiet(Only({"silence"}, EventsSoFar), pos, mon.silent)'
  BY <1>1, <1>2, <1>8, NothingQuiet
<1>10. /\ bytes' = Wire(sc'.script) /\ base' \in Nat /\ base' <= pos' /\ mon'.out = <<>>
  BY <1>1, <1>2
<1>11. outbox' \in Seq(EventRec) /\ (\E S : emitted' \in Seq(S)) /\ Told' \in Seq(EventRec)
  <2>1. <<>> \in Seq(EventRec)
    OBVIOUS
  <2>. QED BY <2>1, <1>1, <1>7
<1>12. (\E at, g : /\ Laid(sc.script, at) /\ Means(base, sc.script, at, g)
                   /\ Whole(base, sc.script, at) =>
                        Track(mon, pos, sc.script, at, g, Only(Marks, EventsSoFar)))'
  BY <1>1, <1>3, <1>4, <1>5, <1>6, <1>9
<1>. QED BY <1>9, <1>10, <1>11, <1>12 DEF MarksInv

\* One report of silence more, after output that went on past the last one.
LEMMA OneMoreQuiet ==
    ASSUME NEW z, NEW p \in Nat, Quiet(z, p, FALSE), NEW e \in EventRec, e.start = p
    PROVE  Quiet(z \o <<e>>, p, TRUE)
<1>1. /\ z \in Seq(EventRec) /\ \A i, j \in DOMAIN z : i < j => z[i].start < z[j].start
      /\ \A i \in DOMAIN z : z[i].start <= p /\ z[i].start < p
  BY DEF Quiet
<1>2. PICK n \in Nat : n = Len(z) /\ DOMAIN z = 1 .. n
  BY <1>1
<1>3. PICK q : q = Append(z, e)
  OBVIOUS
<1>4. /\ q \in Seq(EventRec) /\ DOMAIN q = 1 .. n + 1 /\ q[n + 1] = e
      /\ \A k \in 1 .. n : q[k] = z[k]
  <2>1. /\ Append(z, e) \in Seq(EventRec) /\ Len(Append(z, e)) = Len(z) + 1
        /\ \A i \in 1 .. Len(z) : Append(z, e)[i] = z[i]
        /\ Append(z, e)[Len(z) + 1] = e
    BY <1>1, AppendProperties
  <2>. QED BY <2>1, <1>2, <1>3
<1>5. q = z \o <<e>>
  BY <1>1, <1>3, AppendIsConcat
<1>6. \A i \in 1 .. n + 1 : i \in 1 .. n \/ i = n + 1
  OBVIOUS
<1>7. \A i, j \in DOMAIN q : i < j => q[i].start < q[j].start
  <2>. SUFFICES ASSUME NEW i \in 1 .. n + 1, NEW j \in 1 .. n + 1, i < j
                PROVE  q[i].start < q[j].start
    BY <1>4
  <2>1. i \in 1 .. n
    OBVIOUS
  <2>2. CASE j \in 1 .. n
    BY <2>1, <2>2, <1>1, <1>2, <1>4
  <2>3. CASE j = n + 1
    BY <2>1, <2>3, <1>1, <1>2, <1>4
  <2>. QED BY <2>2, <2>3, <1>6
<1>8. \A i \in DOMAIN q : q[i].start <= p
  <2>1. \A i \in 1 .. n : q[i].start <= p
    BY <1>1, <1>2, <1>4
  <2>2. q[n + 1].start <= p
    BY <1>4
  <2>. QED BY <2>1, <2>2, <1>4, <1>6
<1>. QED BY <1>4, <1>5, <1>7, <1>8 DEF Quiet

\* The ticker reports silence.
LEMMA MarksTick == TapOK /\ MarksInv /\ HousekeepingTick => MarksInv'
<1>. SUFFICES ASSUME TapOK, MarksInv, HousekeepingTick PROVE MarksInv'
  OBVIOUS
<1>1. /\ outbox = <<>> /\ Told \in Seq(EventRec) /\ (\E S : emitted \in Seq(S))
      /\ UNCHANGED <<sc, bytes, base, pos, emitted>> /\ mon.out = <<>> /\ base \in Nat
      /\ base <= pos /\ bytes = Wire(sc.script) /\ pos \in Nat /\ mon \in Mon
      /\ mon.streamPos = pos /\ Quiet(Only({"silence"}, EventsSoFar), pos, mon.silent)
  BY DEF TapOK, MarksInv, HousekeepingTick, Idle, bvars
<1>2. PICK f : f = Tick(mon, now)
  OBVIOUS
<1>3. f.out # <<>> /\ mon' = [f EXCEPT !.out = <<>>] /\ outbox' = f.out
  BY <1>2 DEF HousekeepingTick
<1>4. mon.started /\ ~ mon.silent /\ now - mon.lastOutput >= SilenceAfter
  BY <1>1, <1>2, <1>3 DEF Tick, Mon
<1>5. PICK ev \in EventRec : ev = [type |-> "silence", start |-> pos, end |-> 0]
  BY <1>1 DEF EventRec, Kinds
<1>6. PICK y \in Mon : /\ y = [mon EXCEPT !.silent = TRUE, !.out = <<>>]
                       /\ y.out = <<>> /\ y.silent = TRUE
                       /\ y.osc = mon.osc /\ y.payload = mon.payload
                       /\ y.streamPos = mon.streamPos /\ y.cmdStart = mon.cmdStart
                       /\ y.lastStart = mon.lastStart /\ y.lastEnd = mon.lastEnd
  <2>1. PICK o \in Seq(EventRec) : o = <<>>
    <3>1. <<>> \in Seq(EventRec)
      OBVIOUS
    <3>. QED BY <3>1
  <2>2. PICK x : x = [mon EXCEPT !.silent = TRUE]
    OBVIOUS
  <2>3. PICK w : w = [x EXCEPT !.out = o]
    OBVIOUS
  <2>4. /\ x \in Mon /\ x.silent = TRUE /\ x.osc = mon.osc /\ x.payload = mon.payload
        /\ x.streamPos = mon.streamPos /\ x.cmdStart = mon.cmdStart
        /\ x.lastStart = mon.lastStart /\ x.lastEnd = mon.lastEnd
    BY <2>2, <1>1 DEF Mon
  <2>5. /\ w \in Mon /\ w.out = o /\ w.silent = TRUE /\ w.osc = x.osc /\ w.payload = x.payload
        /\ w.streamPos = x.streamPos /\ w.cmdStart = x.cmdStart
        /\ w.lastStart = x.lastStart /\ w.lastEnd = x.lastEnd
    BY <2>3, <2>4 DEF Mon
  <2>6. w = [mon EXCEPT !.silent = TRUE, !.out = <<>>]
    BY <2>1, <2>2, <2>3
  <2>. QED BY <2>1, <2>4, <2>5, <2>6
<1>7. f = [y EXCEPT !.out = Append(@, ev)]
  BY <1>1, <1>2, <1>4, <1>5, <1>6 DEF Tick, Emitting
<1>8. /\ f.osc = mon.osc /\ f.payload = mon.payload /\ f.streamPos = mon.streamPos
      /\ f.cmdStart = mon.cmdStart /\ f.silent = TRUE /\ f.out = Append(<<>>, ev)
      /\ mon' = [y EXCEPT !.out = <<>>]
  BY <1>3, <1>6, <1>7 DEF Mon
<1>9. outbox' = <<ev>> /\ <<ev>> \in Seq(EventRec)
  BY <1>3, <1>8
<1>10. /\ mon'.osc = mon.osc /\ mon'.payload = mon.payload /\ mon'.streamPos = mon.streamPos
       /\ mon'.cmdStart = mon.cmdStart /\ mon'.silent = TRUE /\ mon'.out = mon.out
       /\ mon'.lastStart = mon.lastStart /\ mon'.lastEnd = mon.lastEnd
  BY <1>1, <1>6, <1>8 DEF Mon
<1>11. PICK t \in Seq(EventRec) : t = Told
  BY <1>1
<1>12. Told' = t
  BY <1>1, <1>11 DEF Told
<1>13. EventsSoFar' = t \o <<ev>>
  BY <1>9, <1>12 DEF EventsSoFar, Told, Other
<1>14. EventsSoFar = t
  <2>1. outbox \in Seq(EventRec)
    BY <1>1
  <2>2. EventsSoFar = t \o <<>>
    BY <2>1, <1>1, <1>11, SoFar
  <2>. QED BY <2>2, ConcatEmptySeq
<1>15. ev.type \notin Marks /\ ev.type = "silence" /\ ev.start = pos
  BY <1>5 DEF Marks
<1>16. Only(Marks, EventsSoFar)' = Only(Marks, EventsSoFar)
  <2>1. <<>> \in Seq(EventRec)
    OBVIOUS
  <2>2. Only(Marks, (t \o <<ev>>) \o <<>>) = Only(Marks, t \o <<>>)
    BY <2>1, <1>15, AddsNothing
  <2>3. t \o <<ev>> \in Seq(EventRec)
    BY <1>9, ConcatProperties
  <2>4. (t \o <<ev>>) \o <<>> = t \o <<ev>> /\ t \o <<>> = t
    BY <2>3, ConcatEmptySeq
  <2>. QED BY <2>2, <2>4, <1>13, <1>14
<1>17. PICK z : z = Only({"silence"}, EventsSoFar)
  OBVIOUS
<1>18. Only({"silence"}, EventsSoFar)' = z \o <<ev>>
  <2>1. Only({"silence"}, t \o <<ev>>) = Only({"silence"}, t) \o Only({"silence"}, <<ev>>)
    BY <1>9, OnlyJoin
  <2>2. ev.type \in {"silence"}
    BY <1>15
  <2>3. Only({"silence"}, <<ev>>) = <<ev>>
    BY <2>2, OnlyOne, Zenon
  <2>. QED BY <2>1, <2>3, <1>13, <1>14, <1>17
<1>19. Quiet(Only({"silence"}, EventsSoFar), pos, mon.silent)'
  <2>1. PICK p \in Nat : p = pos
    BY <1>1
  <2>2. Quiet(z, p, FALSE)
    <3>1. Quiet(z, p, mon.silent)
      BY <2>1, <1>1, <1>17
    <3>. QED BY <3>1, <1>4 DEF Quiet
  <2>3. Quiet(z \o <<ev>>, p, TRUE)
    BY <2>1, <2>2, <1>15, OneMoreQuiet
  <2>. QED BY <2>1, <2>3, <1>1, <1>10, <1>18
<1>20. PICK at, g : /\ Laid(sc.script, at) /\ Means(base, sc.script, at, g)
                    /\ Whole(base, sc.script, at) =>
                         Track(mon, pos, sc.script, at, g, Only(Marks, EventsSoFar))
  BY DEF MarksInv
<1>21. PICK m, n : m = mon /\ n = mon'
  OBVIOUS
<1>22. Whole(base, sc.script, at) =>
         Track(n, pos, sc.script, at, g, Only(Marks, EventsSoFar))
  BY <1>10, <1>20, <1>21, SameTracks
<1>23. /\ Laid(sc.script, at)' /\ Means(base, sc.script, at, g)'
       /\ Whole(base, sc.script, at)' =>
            Track(mon, pos, sc.script, at, g, Only(Marks, EventsSoFar))'
  BY <1>1, <1>16, <1>20, <1>21, <1>22
<1>24. /\ bytes' = Wire(sc'.script) /\ base' \in Nat /\ base' <= pos' /\ mon'.out = <<>>
  BY <1>1, <1>10
<1>25. outbox' \in Seq(EventRec) /\ (\E S : emitted' \in Seq(S)) /\ Told' \in Seq(EventRec)
  BY <1>1, <1>9, <1>11, <1>12
<1>. QED BY <1>19, <1>23, <1>24, <1>25 DEF MarksInv

\* The other steps tell nobody anything.
LEMMA MarksSilent ==
    ASSUME MarksInv, UNCHANGED <<sc, bytes, base, pos, mon, outbox, emitted>>
    PROVE  MarksInv'
<1>1. /\ outbox' \in Seq(EventRec) /\ (\E S : emitted' \in Seq(S)) /\ Told' \in Seq(EventRec)
  BY DEF MarksInv, Told
<1>2. EventsSoFar' = EventsSoFar
  BY DEF EventsSoFar
<1>3. /\ Only(Marks, EventsSoFar)' = Only(Marks, EventsSoFar)
      /\ Only({"silence"}, EventsSoFar)' = Only({"silence"}, EventsSoFar)
  BY <1>2
<1>. QED BY <1>1, <1>3, MarksStay

\* No step disturbs it.
LEMMA MarksInvNext ==
    ASSUME TapOK, MarksInv, [TapNext]_tapVars
    PROVE  MarksInv'
<1>1. ASSUME NEW n \in 1 .. Len(bytes), PumpOutput(n) PROVE MarksInv'
  BY <1>1, MarksPump
<1>2. CASE EmitNext
  BY <1>2, MarksEmit
<1>3. CASE HousekeepingTick
  BY <1>3, MarksTick
<1>4. CASE EmitOther
  BY <1>4, MarksOther
<1>5. CASE Finish
  BY <1>5, MarksFinish
<1>6. CASE TakenOver
  BY <1>6, MarksTakenOver
<1>7. CASE Advance \/ Crash \/ TailLog \/ TailAttach \/ UNCHANGED tapVars
  <2>1. UNCHANGED <<sc, bytes, base, pos, mon, outbox, emitted>>
    BY <1>7 DEF Advance, Crash, TailLog, TailAttach, tapVars, tvars, bvars
  <2>. QED BY <2>1, MarksSilent
<1>8. CASE life # "crashed" /\ (\E c \in sc.conns : BusNext(c)) /\ UNCHANGED tvars
  <2>1. emitted' = emitted
    BY <1>8 DEF BusNext, Subscribe, PumpStep, PumpRecv, PumpDrain, PumpEnd, PumpWrite, Disconnect,
                Unsubscribe, bvars
  <2>2. UNCHANGED <<sc, bytes, base, pos, mon, outbox, emitted>>
    BY <1>8, <2>1 DEF tvars
  <2>. QED BY <2>2, MarksSilent
<1>. QED BY <1>1, <1>2, <1>3, <1>4, <1>5, <1>6, <1>7, <1>8 DEF TapNext, PumpStep1, Terminated

\* Unless a takeover cut a sequence, what has been reported and the last command are
\* what the script says.
LEMMA MonitorIsRight ==
    ASSUME TapOK, MarksInv, ~ Truth.cut
    PROVE  /\ Only(Marks, EventsSoFar) = Truth.evs
           /\ mon.lastStart = Truth.last.start /\ mon.lastEnd = Truth.last.end
<1>1. /\ sc \in Scenarios /\ pos \in Nat /\ base \in Nat /\ mon.out = <<>>
      /\ outbox \in Seq(EventRec) /\ Told \in Seq(EventRec)
  BY DEF TapOK, MarksInv
<1>2. PICK at, g : /\ Laid(sc.script, at) /\ Means(base, sc.script, at, g)
                   /\ Whole(base, sc.script, at) =>
                        Track(mon, pos, sc.script, at, g, Only(Marks, EventsSoFar))
  BY DEF MarksInv
<1>3. sc.script \in Seq(DOMAIN Symbols)
  BY <1>1, ScenariosAssumption
<1>4. pos <= Len(Wire(sc.script))
  BY DEF TapOK, MarksInv
<1>5. PICK q \in Nat, script \in Seq(DOMAIN Symbols) : q = pos /\ script = sc.script
  BY <1>1, <1>3
<1>6. PICK k0 \in 0 .. Len(script) : /\ at[k0] <= q /\ (k0 < Len(script) => q < at[k0 + 1])
                                     /\ (k0 = Len(script) => q = at[k0])
  BY <1>2, <1>4, <1>5, PlaceExists
<1>7. Whole(base, sc.script, at)
  <2>1. /\ k0 \in 0 .. Len(sc.script) /\ at[k0] <= pos
        /\ k0 < Len(sc.script) => pos < at[k0 + 1]
    BY <1>5, <1>6
  <2>. QED BY <2>1, <1>1, <1>2, <1>3, TruthSays
<1>8. PICK k \in 0 .. Len(sc.script) :
        TrackAt(mon, pos, sc.script, at, g, Only(Marks, EventsSoFar), k)
  BY <1>2, <1>7 DEF Track
<1>9. /\ at[k] <= pos /\ (k < Len(sc.script) => pos < at[k + 1])
      /\ Only(Marks, EventsSoFar) \o Only(Marks, mon.out) = g[k].evs
      /\ mon.lastStart = g[k].ls /\ mon.lastEnd = g[k].le
  BY <1>8 DEF TrackAt
<1>10. Truth.evs = g[k].evs /\ Truth.last.start = g[k].ls /\ Truth.last.end = g[k].le
  BY <1>1, <1>2, <1>3, <1>9, TruthSays
<1>11. Only(Marks, EventsSoFar) \o Only(Marks, mon.out) = Only(Marks, EventsSoFar)
  <2>1. PICK x \in Seq(EventRec) : x = Only(Marks, EventsSoFar)
    BY <1>1, SoFar
  <2>2. Only(Marks, mon.out) = <<>>
    BY <1>1, OnlyOne
  <2>3. x \o <<>> = x
    BY ConcatEmptySeq
  <2>. QED BY <2>1, <2>2, <2>3
<1>. QED BY <1>9, <1>10, <1>11

\* The invariant of the monitor and the script holds.
LEMMA MarksInvAlways == TapSpec => [](TapOK /\ MarksInv)
<1>1. TapInit => TapOK /\ MarksInv
  BY TapOKInit, MarksInvInit
<1>2. TapOK /\ MarksInv /\ [TapNext]_tapVars => (TapOK /\ MarksInv)'
  BY TapOKNext, MarksInvNext
<1>. QED BY <1>1, <1>2, PTL DEF TapSpec

\* MarksTrue: however the reads cut the output, whatever else is emitted in between and
\* wherever takeovers come (unless one cuts a sequence), the bells and marks reported are
\* exactly those in the output, and silence is reported at most once per quiet period.
THEOREM MarksTrueAlways == TapSpec => []MarksTrue
<1>1. TapOK /\ MarksInv => MarksTrue
  <2>. SUFFICES ASSUME TapOK, MarksInv PROVE MarksTrue
    OBVIOUS
  <2>1. Quiet(Only({"silence"}, EventsSoFar), pos, mon.silent)
    BY DEF MarksInv
  <2>2. \A i, j \in DOMAIN Only({"silence"}, EventsSoFar) :
          i < j => Only({"silence"}, EventsSoFar)[i].start < Only({"silence"}, EventsSoFar)[j].start
    BY <2>1 DEF Quiet
  <2>3. ~ Truth.cut => Only(Marks, EventsSoFar) = Truth.evs
    BY MonitorIsRight
  <2>. QED BY <2>2, <2>3 DEF MarksTrue, Marks
<1>. QED BY <1>1, MarksInvAlways, PTL

\* CommandReplayed: REPLAY_COMMAND finds a command when the output since the last takeover
\* has an end mark, and answers with what the ring still has of the output between the
\* last two marks, and whether something is missing (conn.go onReplayCommand), for any
\* output in any reads and any ring, with the exceptions CommandReplayed names: an end mark
\* without a start mark of its own, a command the ring has lost to the last byte, and a
\* takeover in the middle of a sequence.
THEOREM CommandReplayedAlways == TapSpec => []CommandReplayed
<1>1. TapOK /\ MarksInv => CommandReplayed
  <2>. SUFFICES ASSUME TapOK, MarksInv, ~ Truth.cut
                PROVE  /\ LastCommand(mon).ok <=> Truth.last.end # 0
                       /\ Truth.last.own /\ Truth.last.end >= OldestKept =>
                            /\ ReplayCommand(mon).data
                                 = Positions(Greater(Truth.last.start, OldestKept), Truth.last.end)
                            /\ ReplayCommand(mon).truncated <=> Truth.last.start < OldestKept
    BY DEF CommandReplayed
  <2>1. mon.lastStart = Truth.last.start /\ mon.lastEnd = Truth.last.end
    BY MonitorIsRight
  <2>2. LastCommand(mon).ok <=> Truth.last.end # 0
    BY <2>1 DEF LastCommand
  <2>3. mon.lastEnd >= OldestKept =>
          /\ ReplayCommand(mon).data = Positions(Greater(mon.lastStart, OldestKept), mon.lastEnd)
          /\ ReplayCommand(mon).truncated <=> mon.lastStart < OldestKept
    BY CommandCut
  <2>. QED BY <2>1, <2>2, <2>3
<1>. QED BY <1>1, MarksInvAlways, PTL
=============================================================================
