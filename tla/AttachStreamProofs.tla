------------------------- MODULE AttachStreamProofs -------------------------
(***************************************************************************)
(* What a consumer reads, for every ring capacity, chunk size and number   *)
(* of lost connections: in order, without a needless gap, to the end.      *)
(***************************************************************************)
EXTENDS AttachStream, SequenceTheorems, TLAPS

Early == {"attach", "read1", "read2", "reply"}
Output(i) == net[i].type = "output"
End(i)    == net[i].seq + Len(net[i].data)

\* The stages of a connection.
StageInv ==
    /\ ~up \/ stEnd # "open" => net = <<>>
    /\ stEnd = "lost" => ~up
    /\ stEnd = "exit" => spc = "off" /\ cpc # "attaching"
    /\ up /\ spc \in Early => net = <<>> /\ cpc = "attaching" /\ stSeq = since
    /\ up /\ spc \notin Early /\ cpc = "attaching" => net # <<>>
    /\ \A i \in 1 .. Len(net) : net[i].type \in {"ok", "notfound"} <=> i = 1 /\ cpc = "attaching"
    /\ cpc = "attaching" => stBuf = <<>>
    /\ cpc = "eof" => stEnd = "exit" /\ stBuf = <<>>

\* A drained stream has read up to lastSeq, or nothing at all.
NoteInv ==
    cpc \in {"attaching", "read"} /\ stBuf = <<>> => lastSeq = stSeq \/ (consumed = <<>> /\ lastSeq = 0)

\* Where the pump is on the sequence axis.
Reach == IF spc = "send" THEN sending[1] ELSE lastSeen
Pumping == up /\ spc \in {"replay", "send", "wait"}

\* The stream: what is consumed, then what is buffered.
ReadInv ==
    /\ \A i, j \in 1 .. Len(consumed) : i < j => consumed[i] < consumed[j]
    /\ \A i, j \in 1 .. Len(stBuf) : i < j => stBuf[i] < stBuf[j]
    /\ \A i \in 1 .. Len(consumed), j \in 1 .. Len(stBuf) : consumed[i] < stBuf[j]
    /\ \A i \in 1 .. Len(consumed) : consumed[i] < stSeq
    /\ \A i \in 1 .. Len(stBuf) : stBuf[i] < stSeq

\* The connection: frames that follow what the stream has, up to where the pump is.
NetInv ==
    /\ \A i \in 1 .. Len(net) : Output(i) =>
          /\ stSeq <= net[i].seq /\ Len(net[i].data) > 0
          /\ net[i].data = Interval(net[i].seq, End(i))
          /\ Pumping => End(i) <= Reach
    /\ \A i, j \in 1 .. Len(net) : i < j /\ Output(i) /\ Output(j) => End(i) <= net[j].seq
    /\ Pumping => stSeq <= Reach
    /\ spc = "send" => sending[1] < sending[2] /\ sending[2] <= ringEnd

Got(b)   == Contains(consumed, b) \/ Contains(stBuf, b)
InNet(b) == \E i \in 1 .. Len(net) : Output(i) /\ net[i].seq <= b /\ b < End(i)
Flow(to) == \A b \in Nat : stSeq <= b /\ b < to /\ Wanted(b) => b \in lost \/ InNet(b)

\* What was asked for and is missing was out of the ring.
GapInv ==
    /\ \A b \in Nat : b < stSeq /\ Wanted(b) => b \in lost \/ Got(b)
    /\ \A i \in 1 .. Len(net) : Output(i) => Flow(End(i))
    /\ Pumping => Flow(Reach)

\* An EXIT is the last frame, and everything is before it.
ExitInv ==
    /\ \A i \in 1 .. Len(net) : net[i].type = "exit" =>
          i = Len(net) /\ spc = "off" /\ exited /\ Flow(ringEnd)
    /\ stEnd = "exit" => exited /\ \A b \in Nat : b < ringEnd /\ Wanted(b) => b \in lost \/ Got(b)

\* A byte before everything the client has, will get or is being sent.
Ahead(b) ==
    /\ \A i \in 1 .. Len(consumed) : b < consumed[i]
    /\ \A i \in 1 .. Len(stBuf) : b < stBuf[i]
    /\ \A i \in 1 .. Len(net) : Output(i) => b < net[i].seq
    /\ spc = "send" => b < sending[1]

\* What the client was not told of is before everything it gets.
ToldInv == \A b \in lost : b < Oldest /\ (b \in told \/ Ahead(b))

-----------------------------------------------------------------------------
(* Types. *)

\* A frame joins the connection at its end.
LEMMA AppendNet ==
  ASSUME net \in Seq(Frame), NEW f \in Frame
  PROVE  /\ Append(net, f) \in Seq(Frame) /\ Len(Append(net, f)) = Len(net) + 1
         /\ \A i \in 1 .. Len(net) : Append(net, f)[i] = net[i]
         /\ Append(net, f)[Len(net) + 1] = f
BY AppendProperties

\* A frame leaves the connection at its head.
LEMMA TailNet ==
  ASSUME net \in Seq(Frame), net # <<>>
  PROVE  /\ Head(net) = net[1] /\ Head(net) \in Frame /\ Len(net) >= 1
         /\ Tail(net) \in Seq(Frame) /\ Len(Tail(net)) = Len(net) - 1
         /\ \A i \in 1 .. Len(net) - 1 : Tail(net)[i] = net[i + 1]
BY HeadTailProperties, EmptySeq

\* The kinds of frames.
LEMMA FrameKinds ==
  /\ [type |-> "notfound"] \in Frame /\ [type |-> "gone"] \in Frame /\ [type |-> "exit"] \in Frame
  /\ \A t \in BOOLEAN : [type |-> "ok", truncated |-> t] \in Frame
  /\ \A s \in Nat, d \in Seq(Positions) : [type |-> "output", seq |-> s, data |-> d] \in Frame
  /\ \A f \in Frame : /\ f.type \in {"notfound", "gone", "exit", "ok", "output"}
                      /\ f.type = "output" => f.seq \in Nat /\ f.data \in Seq(Positions)
BY DEF Frame

\* An interval of positions.
LEMMA IntervalType ==
  ASSUME NEW a \in Nat, NEW b \in Nat, a <= b, b <= MaxOut
  PROVE  /\ Interval(a, b) \in Seq(Positions) /\ Len(Interval(a, b)) = b - a
         /\ \A i \in 1 .. b - a : Interval(a, b)[i] = a + i - 1
<1>1. \A i \in 1 .. b - a : a + i - 1 \in Positions
  BY BoundsAssumption DEF Positions
<1>2. b - a \in Nat
  OBVIOUS
<1>3. Interval(a, b) \in [1 .. b - a -> Positions]
  BY <1>1 DEF Interval
<1>4. Interval(a, b) \in Seq(Positions)
  BY <1>2, <1>3, SeqDef
<1>5. Len(Interval(a, b)) = b - a
  <2>1. DOMAIN Interval(a, b) = 1 .. b - a /\ DOMAIN Interval(a, b) = 1 .. Len(Interval(a, b))
    BY <1>3, <1>4, LenProperties
  <2>2. Len(Interval(a, b)) \in Nat
    BY <1>4, LenProperties
  <2> QED BY <1>2, <2>1, <2>2
<1> QED BY <1>4, <1>5 DEF Interval

\* The ring's window.
LEMMA Window ==
  ASSUME ringEnd \in Nat
  PROVE  Oldest \in Nat /\ Oldest <= ringEnd /\ (ringEnd > 0 => Oldest < ringEnd)
BY CapAssumption DEF Oldest, Filled

\* Every step keeps the types.
LEMMA TypeNext ==
  ASSUME TypeOK, NetInv, [Next]_vars
  PROVE  TypeOK'
<1> USE BoundsAssumption DEF TypeOK, sessionVars, daemonVars, streamVars
<1>0. net \in Seq(Frame) /\ ringEnd \in Nat
  OBVIOUS
<1>1. CASE Produce \/ SessionExit \/ Reap
  <2>1. CASE Produce
    <3>1. PICK n \in 1 .. MaxOut - ringEnd : ringEnd' = ringEnd + n
      BY <2>1 DEF Produce
    <3>2. ringEnd' \in 0 .. MaxOut
      BY <3>1
    <3> QED BY <2>1, <3>2 DEF Produce
  <2> QED BY <1>1, <2>1 DEF SessionExit, Reap
<1>2. CASE OnAttachLookup
  <2>1. net' \in Seq(Frame)
    BY <1>0, <1>2, AppendNet, FrameKinds DEF OnAttachLookup, Send
  <2> QED BY <1>2, <2>1 DEF OnAttachLookup
<1>3. CASE OnAttachRead1 \/ OnAttachRead2
  BY <1>3 DEF OnAttachRead1, OnAttachRead2
<1>4. CASE OnAttachReply
  <2>1. net' \in Seq(Frame)
    <3> DEFINE t == since < USub(read1, IF read2 < Filled THEN read2 ELSE Filled)
    <3>1. net' = Append(net, [type |-> "ok", truncated |-> t]) \/ net' = net
      BY <1>4, Zenon DEF OnAttachReply, Send
    <3>2. t \in BOOLEAN
      OBVIOUS
    <3> HIDE DEF t
    <3>3. [type |-> "ok", truncated |-> t] \in Frame
      BY <3>2, FrameKinds, Zenon
    <3>4. Append(net, [type |-> "ok", truncated |-> t]) \in Seq(Frame)
      BY <1>0, <3>3, AppendNet, Zenon
    <3> QED BY <1>0, <3>1, <3>4, Zenon
  <2>2. told' \subseteq Nat
    <3>1. told' = told \/ told' = told \cup (since .. Oldest - 1)
      BY <1>4 DEF OnAttachReply
    <3>2. since .. Oldest - 1 \subseteq Nat
      BY <1>0, Window
    <3> QED BY <3>1, <3>2
  <2>3. lastSeen' = since /\ spc' = "replay" /\ UNCHANGED <<sessionVars, breaks, up, since, read1, read2, sending, lost,
                       cpc, streamVars, lastSeq, consumed>>
    BY <1>4 DEF OnAttachReply
  <2> QED BY <2>1, <2>2, <2>3
<1>5. CASE PumpReplay
  <2>1. net' \in Seq(Frame)
    BY <1>0, <1>5, AppendNet, FrameKinds DEF PumpReplay, Send
  <2>2. ReplayStart(lastSeen) \in Nat /\ (lastSeen < ringEnd => ReplayStart(lastSeen) < ringEnd)
    BY <1>0, Window DEF ReplayStart
  <2>3. told' \subseteq Nat
    <3>1. told' = told \/ told' = told \cup (lastSeen .. Oldest - 1)
      BY <1>5 DEF PumpReplay
    <3>2. lastSeen .. Oldest - 1 \subseteq Nat
      BY <1>0, Window
    <3> QED BY <3>1, <3>2
  <2>4. lost' \subseteq Positions
    <3>1. \/ lost' = lost
          \/ lastSeen < ringEnd /\ lost' = lost \cup (lastSeen .. ReplayStart(lastSeen) - 1)
      BY <1>5 DEF PumpReplay
    <3>2. lastSeen < ringEnd => lastSeen .. ReplayStart(lastSeen) - 1 \subseteq Positions
      BY <1>0, <2>2 DEF Positions
    <3> QED BY <3>1, <3>2
  <2>5. sending' \in (0 .. MaxOut) \X (0 .. MaxOut)
    BY <1>5, <2>2 DEF PumpReplay
  <2>6. spc' \in {"send", "wait"} /\ UNCHANGED <<sessionVars, breaks, up, since, read1, read2, lastSeen,
                   cpc, streamVars, lastSeq, consumed>>
    BY <1>5 DEF PumpReplay
  <2> QED BY <2>1, <2>3, <2>4, <2>5, <2>6
<1>6. CASE PumpSend
  <2> DEFINE from == sending[1]
             to   == IF sending[2] < from + Chunk THEN sending[2] ELSE from + Chunk
  <2>1. /\ from \in Nat /\ to \in Nat /\ from < to /\ to <= sending[2] /\ to <= MaxOut
        /\ sending[2] \in 0 .. MaxOut
    BY <1>6, ChunkAssumption DEF PumpSend, NetInv
  <2>2. /\ Send([type |-> "output", seq |-> from, data |-> Interval(from, to)])
        /\ sending' = <<to, sending[2]>>
        /\ spc' \in {"send", "wait"} /\ lastSeen' \in {lastSeen, sending[2]}
        /\ UNCHANGED <<sessionVars, breaks, up, since, read1, read2, lost, told,
                       cpc, streamVars, lastSeq, consumed>>
    BY <1>6 DEF PumpSend
  <2> HIDE DEF from, to
  <2>3. [type |-> "output", seq |-> from, data |-> Interval(from, to)] \in Frame
    BY <2>1, IntervalType, FrameKinds
  <2>4. net' \in Seq(Frame)
    BY <1>0, <2>2, <2>3, AppendNet DEF Send
  <2> QED BY <2>1, <2>2, <2>4
<1>7. CASE PumpWait
  <2>1. net' \in Seq(Frame)
    BY <1>0, <1>7, AppendNet, FrameKinds DEF PumpWait, Send
  <2> QED BY <1>7, <2>1 DEF PumpWait
<1>8. CASE PumpGone
  BY <1>8 DEF PumpGone
<1>9. CASE Break
  <2>1. net' \in Seq(Frame)
    BY <1>9, EmptySeq DEF Break
  <2>2. breaks' \in 0 .. MaxBreaks
    BY <1>9 DEF Break
  <2> QED BY <1>9, <2>1, <2>2 DEF Break
<1>10. CASE Receive
  <2>1. /\ net' \in Seq(Frame) /\ Head(net) \in Frame
        /\ UNCHANGED <<sessionVars, breaks, up, daemonVars, lastSeq, consumed>>
    BY <1>0, <1>10, TailNet DEF Receive
  <2>2. cpc' \in {"attaching", "read", "note", "eof", "failed"}
    BY <1>10 DEF Receive
  <2>3. stBuf' \in Seq(Positions) /\ stSeq' \in Nat /\ stEnd' \in {"open", "exit", "lost"}
    <3> DEFINE f == Head(net)
    <3>1. CASE f.type = "output" /\ stEnd = "open"
      <4>1. f.seq \in Nat /\ f.data \in Seq(Positions)
        BY <2>1, <3>1, FrameKinds
      <4>2. stBuf' = stBuf \o f.data /\ stSeq' = f.seq + Len(f.data) /\ stEnd' = stEnd
        BY <1>10, <3>1 DEF Receive, Deliver
      <4>3. stBuf \o f.data \in Seq(Positions) /\ Len(f.data) \in Nat
        BY <4>1, ConcatProperties, LenProperties
      <4> QED BY <4>1, <4>2, <4>3
    <3>2. CASE ~(f.type = "output" /\ stEnd = "open")
      BY <1>10, <3>2 DEF Receive, Deliver
    <3> QED BY <3>1, <3>2
  <2> QED BY <2>1, <2>2, <2>3
<1>11. CASE StreamRead
  <2> PICK n \in 1 .. Len(stBuf) : /\ consumed' = consumed \o SubSeq(stBuf, 1, n)
                                   /\ stBuf' = SubSeq(stBuf, n + 1, Len(stBuf))
    BY <1>11 DEF StreamRead
  <2>1. SubSeq(stBuf, 1, n) \in Seq(Positions) /\ SubSeq(stBuf, n + 1, Len(stBuf)) \in Seq(Positions)
    BY SubSeqProperties, ElementOfSeq, LenProperties
  <2>2. consumed' \in Seq(Positions) /\ stBuf' \in Seq(Positions)
    BY <2>1, ConcatProperties
  <2> QED BY <1>11, <2>2 DEF StreamRead
<1>12. CASE FollowerNote \/ FollowerEOF
  BY <1>12 DEF FollowerNote, FollowerEOF
<1>13. CASE FollowerReconnect
  <2>1. net' \in Seq(Frame) /\ stBuf' \in Seq(Positions)
    BY <1>13, EmptySeq DEF FollowerReconnect
  <2> QED BY <1>13, <2>1 DEF FollowerReconnect
<1>14. CASE UNCHANGED vars
  BY <1>14 DEF vars
<1> QED
  BY <1>1, <1>2, <1>3, <1>4, <1>5, <1>6, <1>7, <1>8, <1>9, <1>10, <1>11, <1>12, <1>13, <1>14
     DEF Next, PumpStep, ClientStep, Terminated

-----------------------------------------------------------------------------
(* The stages of a connection. *)

\* A frame is added to what is in flight.
LEMMA Grown ==
  ASSUME NEW f \in Frame, net \in Seq(Frame), Send(f)
  PROVE  /\ net' \in Seq(Frame) /\ Len(net) \in Nat /\ Len(net') = Len(net) + 1 /\ net' # <<>>
         /\ \A i \in 1 .. Len(net') : (i \in 1 .. Len(net) /\ net'[i] = net[i]) \/ (i = Len(net) + 1 /\ net'[i] = f)
         /\ \A i \in 1 .. Len(net) : i \in 1 .. Len(net') /\ net'[i] = net[i]
         /\ Len(net) + 1 \in 1 .. Len(net') /\ net'[Len(net) + 1] = f
<1>1. /\ Append(net, f) \in Seq(Frame) /\ Len(Append(net, f)) = Len(net) + 1
      /\ \A i \in 1 .. Len(net) : Append(net, f)[i] = net[i]
      /\ Append(net, f)[Len(net) + 1] = f
  BY AppendNet
<1>2. Len(net) \in Nat
  BY LenProperties
<1>3. net' = Append(net, f)
  BY DEF Send
<1>4. net' # <<>>
  <2>1. Len(<<>>) = 0
    OBVIOUS
  <2>2. Len(net) + 1 # 0
    BY <1>2
  <2>3. Len(net') = Len(net) + 1
    BY <1>1, <1>3, Zenon
  <2> QED BY <2>1, <2>2, <2>3, Zenon
<1> QED BY <1>1, <1>2, <1>3, <1>4

\* The first frame in flight is taken out.
LEMMA Shrunk ==
  ASSUME net \in Seq(Frame), net # <<>>, net' = Tail(net)
  PROVE  /\ net' \in Seq(Frame) /\ Len(net') = Len(net) - 1 /\ Head(net) = net[1] /\ Head(net) \in Frame
         /\ Len(net) \in Nat \ {0} /\ 1 \in 1 .. Len(net)
         /\ \A i \in 1 .. Len(net') : i + 1 \in 1 .. Len(net) /\ net'[i] = net[i + 1]
         /\ \A i \in 1 .. Len(net) : i = 1 \/ (i - 1 \in 1 .. Len(net') /\ net'[i - 1] = net[i])
<1>1. /\ Head(net) = net[1] /\ Head(net) \in Frame /\ Len(net) >= 1
      /\ net' \in Seq(Frame) /\ Len(net') = Len(net) - 1
      /\ \A i \in 1 .. Len(net) - 1 : net'[i] = net[i + 1]
  BY TailNet
<1>2. Len(net) \in Nat
  BY LenProperties
<1>3. ASSUME NEW i \in 1 .. Len(net), i # 1
      PROVE  i - 1 \in 1 .. Len(net') /\ net'[i - 1] = net[i]
  BY <1>1, <1>2, <1>3
<1> QED BY <1>1, <1>2, <1>3

\* Nothing in flight.
LEMMA NoFrames ==
  ASSUME net = <<>>
  PROVE  Len(net) = 0 /\ 1 .. Len(net) = {}
OBVIOUS

\* What OnAttachReply sends on a live connection.
LEMMA Replied ==
  ASSUME OnAttachReply
  PROVE  IF up THEN \E f \in Frame : Send(f) /\ f.type = "ok" ELSE net' = net
<1>1. CASE up
  <2> DEFINE t == since < USub(read1, IF read2 < Filled THEN read2 ELSE Filled)
             f == [type |-> "ok", truncated |-> t]
  <2>1. Send(f)
    BY <1>1, Zenon DEF OnAttachReply
  <2>2. t \in BOOLEAN
    OBVIOUS
  <2> HIDE DEF t
  <2>3. f \in Frame
    BY <2>2, FrameKinds, Zenon
  <2>4. f.type = "ok"
    OBVIOUS
  <2> HIDE DEF f
  <2> QED BY <1>1, <2>1, <2>3, <2>4
<1>2. CASE ~up
  BY <1>2 DEF OnAttachReply
<1> QED BY <1>1, <1>2

\* Every step keeps the stages.
LEMMA StageNext ==
  ASSUME TypeOK, StageInv, NetInv, ExitInv, [Next]_vars
  PROVE  StageInv'
<1> USE DEF sessionVars, daemonVars, streamVars
<1>0. net \in Seq(Frame) /\ Len(net) \in Nat
  BY LenProperties DEF TypeOK
<1>1. CASE Produce \/ SessionExit \/ Reap \/ UNCHANGED vars
  BY <1>1 DEF Produce, SessionExit, Reap, vars, StageInv, Early
<1>2. CASE OnAttachLookup
  <2>1. CASE reaped
    <3>1. /\ up /\ spc = "attach" /\ spc' = "off" /\ UNCHANGED <<up, stEnd, cpc, stSeq, since, stBuf>>
          /\ Send([type |-> "notfound"])
      BY <1>2, <2>1 DEF OnAttachLookup
    <3>2. net = <<>> /\ cpc = "attaching" /\ stEnd = "open"
      BY <3>1 DEF StageInv, Early, TypeOK
    <3>3. /\ net' # <<>> /\ \A i \in 1 .. Len(net') : i = 1 /\ net'[i] = [type |-> "notfound"]
      BY <1>0, <3>1, <3>2, Grown, FrameKinds
    <3> QED BY <3>1, <3>2, <3>3 DEF StageInv, Early
  <2>2. CASE ~reaped
    BY <1>2, <2>2 DEF OnAttachLookup, StageInv, Early
  <2> QED BY <2>1, <2>2
<1>3. CASE OnAttachRead1 \/ OnAttachRead2
  BY <1>3 DEF OnAttachRead1, OnAttachRead2, StageInv, Early
<1>4. CASE OnAttachReply
  <2>1. CASE up
    <3> PICK f \in Frame : Send(f) /\ f.type = "ok"
      BY <1>4, <2>1, Replied
    <3>1. /\ up /\ spc = "reply" /\ spc' = "replay" /\ UNCHANGED <<up, stEnd, cpc, stSeq, since, stBuf>>
      BY <1>4, <2>1 DEF OnAttachReply
    <3>2. net = <<>> /\ cpc = "attaching" /\ stEnd = "open"
      BY <3>1 DEF StageInv, Early, TypeOK
    <3>3. /\ net' # <<>> /\ \A i \in 1 .. Len(net') : i = 1 /\ net'[i] = f
      BY <1>0, <3>2, Grown
    <3> QED BY <3>1, <3>2, <3>3 DEF StageInv, Early
  <2>2. CASE ~up
    BY <1>4, <2>2 DEF OnAttachReply, StageInv, Early
  <2> QED BY <2>1, <2>2
<1>5. CASE PumpReplay \/ PumpSend \/ PumpWait
  <2>1. /\ up /\ spc \in {"replay", "send", "wait"} /\ UNCHANGED <<up, stEnd, cpc, stSeq, since, stBuf>>
        /\ spc' \in {"replay", "send", "wait", "off"}
    BY <1>5 DEF PumpReplay, PumpSend, PumpWait
  <2>2. net' = net \/ \E f \in Frame : Send(f) /\ f.type \notin {"ok", "notfound"}
    <3>1. CASE PumpReplay
      BY <3>1, FrameKinds DEF PumpReplay
    <3>2. CASE PumpSend
      <4> DEFINE f == [type |-> "output", seq |-> sending[1],
                       data |-> Interval(sending[1], IF sending[2] < sending[1] + Chunk THEN sending[2]
                                                     ELSE sending[1] + Chunk)]
      <4>1. Send(f) /\ f.type = "output"
        BY <3>2 DEF PumpSend
      <4>2. f \in Frame
        <5> DEFINE to == IF sending[2] < sending[1] + Chunk THEN sending[2] ELSE sending[1] + Chunk
        <5>1. sending[1] \in Nat /\ to \in Nat /\ sending[1] <= to /\ to <= MaxOut
          BY <3>2, ChunkAssumption, BoundsAssumption DEF PumpSend, TypeOK, NetInv
        <5> HIDE DEF to
        <5>2. Interval(sending[1], to) \in Seq(Positions)
          BY <5>1, IntervalType
        <5>3. [type |-> "output", seq |-> sending[1], data |-> Interval(sending[1], to)] \in Frame
          BY <5>1, <5>2, FrameKinds
        <5> QED BY <5>3 DEF to
      <4> QED BY <4>1, <4>2
    <3>3. CASE PumpWait
      BY <3>3, FrameKinds DEF PumpWait
    <3> QED BY <1>5, <3>1, <3>2, <3>3
  <2>3. stEnd = "open"
    BY <2>1 DEF StageInv, TypeOK
  <2>4. CASE net' = net
    BY <2>1, <2>3, <2>4 DEF StageInv, Early
  <2>5. CASE \E f \in Frame : Send(f) /\ f.type \notin {"ok", "notfound"}
    <3> PICK f \in Frame : Send(f) /\ f.type \notin {"ok", "notfound"}
      BY <2>5
    <3>1. /\ net' # <<>> /\ Len(net') = Len(net) + 1
          /\ \A i \in 1 .. Len(net') : (i \in 1 .. Len(net) /\ net'[i] = net[i]) \/ (i = Len(net) + 1 /\ net'[i] = f)
      BY <1>0, Grown
    <3>2. net # <<>> \/ cpc # "attaching"
      BY <2>1 DEF StageInv, Early
    <3>3. cpc = "attaching" => Len(net) >= 1
      BY <1>0, <3>2, EmptySeq
    <3>4. \A i \in 1 .. Len(net) : net[i].type \in {"ok", "notfound"} <=> i = 1 /\ cpc = "attaching"
      BY DEF StageInv
    <3>5. \A i \in 1 .. Len(net') : net'[i].type \in {"ok", "notfound"} <=> i = 1 /\ cpc = "attaching"
      BY <1>0, <3>1, <3>3, <3>4
    <3> QED BY <2>1, <2>3, <3>1, <3>5 DEF StageInv, Early
  <2> QED BY <2>2, <2>4, <2>5
<1>6. CASE PumpGone
  BY <1>6 DEF PumpGone, StageInv, Early
<1>7. CASE Break
  <2>1. net' = <<>> /\ ~up' /\ up /\ cpc # "eof" /\ UNCHANGED <<spc, cpc, stBuf, stSeq, since>>
        /\ stEnd' = IF stEnd = "open" THEN "lost" ELSE stEnd
    BY <1>7 DEF Break
  <2> QED BY <2>1 DEF StageInv, Early
<1>8. CASE Receive
  <2> DEFINE f == Head(net)
  <2>1. net # <<>> /\ net' = Tail(net) /\ UNCHANGED <<up, spc, since>>
    BY <1>8 DEF Receive
  <2>2. /\ up /\ stEnd = "open" /\ spc \notin Early
    BY <2>1 DEF StageInv, TypeOK
  <2>3. /\ net' \in Seq(Frame) /\ Len(net') = Len(net) - 1 /\ f = net[1] /\ f \in Frame
        /\ Len(net) \in Nat \ {0} /\ 1 \in 1 .. Len(net)
        /\ \A i \in 1 .. Len(net') : i + 1 \in 1 .. Len(net) /\ net'[i] = net[i + 1]
    BY <1>0, <2>1, Shrunk
  <2>4. cpc' = CASE f.type = "ok" -> "read" [] f.type = "notfound" -> "failed" [] OTHER -> cpc
    BY <1>8 DEF Receive
  <2>5. /\ f.type = "output" => stEnd' = stEnd
        /\ f.type = "exit" => stEnd' = "exit" /\ UNCHANGED stBuf
        /\ f.type \notin {"output", "exit"} => UNCHANGED streamVars
    BY <1>8, <2>2 DEF Receive, Deliver
  <2>6. \A i \in 1 .. Len(net) : net[i].type \in {"ok", "notfound"} <=> i = 1 /\ cpc = "attaching"
    BY DEF StageInv
  <2>7. cpc' # "attaching" /\ (f.type \notin {"ok", "notfound"} => cpc' = cpc) /\ (cpc' = "eof" => cpc = "eof")
    BY <2>3, <2>4, <2>6
  <2>8. \A i \in 1 .. Len(net') : net'[i].type \notin {"ok", "notfound"}
    BY <2>3, <2>6
  <2>9. f.type = "exit" => spc = "off" /\ Len(net) = 1
    BY <2>3 DEF ExitInv
  <2>10. f.type = "exit" => net' = <<>>
    BY <2>3, <2>9, EmptySeq
  <2>11. cpc # "eof"
    BY <2>2 DEF StageInv
  <2>12. f.type \in {"notfound", "gone", "exit", "ok", "output"}
    BY <2>3, FrameKinds
  <2>13. /\ ~up' \/ stEnd' # "open" => net' = <<>>
         /\ stEnd' = "lost" => ~up'
         /\ stEnd' = "exit" => spc' = "off" /\ cpc' # "attaching"
    BY <2>1, <2>2, <2>5, <2>7, <2>9, <2>10, <2>12
  <2> QED BY <2>1, <2>2, <2>7, <2>8, <2>11, <2>13 DEF StageInv
<1>9. CASE StreamRead
  BY <1>9 DEF StreamRead, StageInv, Early
<1>10. CASE FollowerNote \/ FollowerEOF
  BY <1>10 DEF FollowerNote, FollowerEOF, StageInv, Early
<1>11. CASE FollowerReconnect
  <2>1. net' = <<>> /\ up' /\ spc' = "attach" /\ stEnd' = "open" /\ cpc' = "attaching" /\ stSeq' = since' /\ stBuf' = <<>>
    BY <1>11 DEF FollowerReconnect
  <2> QED BY <2>1 DEF StageInv, Early
<1> QED
  BY <1>1, <1>2, <1>3, <1>4, <1>5, <1>6, <1>7, <1>8, <1>9, <1>10, <1>11
     DEF Next, PumpStep, ClientStep, Terminated

-----------------------------------------------------------------------------
(* What the stream hands out. *)

\* One sequence of positions after another.
LEMMA Joined ==
  ASSUME NEW u \in Seq(Positions), NEW v \in Seq(Positions), NEW w, w = u \o v
  PROVE  /\ w \in Seq(Positions) /\ Len(u) \in Nat /\ Len(v) \in Nat /\ Len(w) = Len(u) + Len(v)
         /\ \A i \in 1 .. Len(w) : \/ i \in 1 .. Len(u) /\ w[i] = u[i]
                                   \/ i - Len(u) \in 1 .. Len(v) /\ i > Len(u) /\ w[i] = v[i - Len(u)]
         /\ \A i \in 1 .. Len(u) : i \in 1 .. Len(w) /\ w[i] = u[i]
         /\ \A i \in 1 .. Len(v) : Len(u) + i \in 1 .. Len(w) /\ w[Len(u) + i] = v[i]
<1>1. Len(u) \in Nat /\ Len(v) \in Nat
  BY LenProperties
<1>2. /\ u \o v \in Seq(Positions) /\ Len(u \o v) = Len(u) + Len(v)
      /\ \A i \in 1 .. Len(u) + Len(v) : (u \o v)[i] = IF i <= Len(u) THEN u[i] ELSE v[i - Len(u)]
  BY ConcatProperties
<1> DEFINE m == Len(u)
           n == Len(v)
<1>3. /\ m \in Nat /\ n \in Nat /\ w \in Seq(Positions) /\ Len(w) = m + n
      /\ \A i \in 1 .. m + n : w[i] = IF i <= m THEN u[i] ELSE v[i - m]
  BY <1>1, <1>2, Zenon
<1> HIDE DEF m, n
<1>4. ASSUME NEW i \in 1 .. m + n
      PROVE  \/ i \in 1 .. m /\ w[i] = u[i]
             \/ i - m \in 1 .. n /\ i > m /\ w[i] = v[i - m]
  BY <1>3
<1>5. ASSUME NEW i \in 1 .. m
      PROVE  i \in 1 .. m + n /\ w[i] = u[i]
  <2>1. i \in 1 .. m + n /\ i <= m
    BY <1>3
  <2> QED BY <1>3, <2>1
<1>6. ASSUME NEW i \in 1 .. n
      PROVE  m + i \in 1 .. m + n /\ w[m + i] = v[i]
  <2>1. m + i \in 1 .. m + n /\ ~(m + i <= m) /\ (m + i) - m = i
    BY <1>3
  <2> QED BY <1>3, <2>1
<1> QED BY <1>3, <1>4, <1>5, <1>6 DEF m, n

\* A sequence of positions cut in two.
LEMMA Cut ==
  ASSUME NEW s \in Seq(Positions), NEW n \in 1 .. Len(s), NEW u, NEW v,
         u = SubSeq(s, 1, n), v = SubSeq(s, n + 1, Len(s))
  PROVE  /\ u \in Seq(Positions) /\ v \in Seq(Positions) /\ Len(s) \in Nat
         /\ Len(u) = n /\ Len(v) = Len(s) - n
         /\ \A i \in 1 .. n : i \in 1 .. Len(s) /\ u[i] = s[i]
         /\ \A i \in 1 .. Len(s) - n : n + i \in 1 .. Len(s) /\ v[i] = s[n + i]
<1>1. Len(s) \in Nat /\ n \in Nat /\ 1 <= n /\ n <= Len(s)
  BY LenProperties
<1>2. /\ u \in Seq(Positions) /\ v \in Seq(Positions)
  BY <1>1, SubSeqProperties, ElementOfSeq, LenProperties
<1>3. /\ Len(u) = n /\ \A i \in 1 .. n : u[i] = s[1 + i - 1]
  BY <1>1, SubSeqProperties
<1>4. /\ Len(v) = Len(s) - n /\ \A i \in 1 .. Len(s) - n : v[i] = s[n + 1 + i - 1]
  BY <1>1, SubSeqProperties
<1>5. \A i \in 1 .. n : 1 + i - 1 = i /\ i \in 1 .. Len(s)
  BY <1>1
<1>6. \A i \in 1 .. Len(s) - n : n + 1 + i - 1 = n + i /\ n + i \in 1 .. Len(s)
  BY <1>1
<1> QED BY <1>1, <1>2, <1>3, <1>4, <1>5, <1>6

\* What StreamRead moves from the stream to the consumer.
LEMMA ReadCuts ==
  ASSUME stBuf \in Seq(Positions), StreamRead
  PROVE  \E n \in 1 .. Len(stBuf), u, v \in Seq(Positions) :
           /\ consumed' = consumed \o u /\ stBuf' = v
           /\ Len(u) = n /\ Len(v) = Len(stBuf) - n
           /\ \A i \in 1 .. n : i \in 1 .. Len(stBuf) /\ u[i] = stBuf[i]
           /\ \A i \in 1 .. Len(stBuf) - n : n + i \in 1 .. Len(stBuf) /\ v[i] = stBuf[n + i]
<1>1. PICK n \in 1 .. Len(stBuf) : /\ consumed' = consumed \o SubSeq(stBuf, 1, n)
                                   /\ stBuf' = SubSeq(stBuf, n + 1, Len(stBuf))
  BY DEF StreamRead
<1>2. /\ SubSeq(stBuf, 1, n) \in Seq(Positions) /\ SubSeq(stBuf, n + 1, Len(stBuf)) \in Seq(Positions)
      /\ Len(SubSeq(stBuf, 1, n)) = n /\ Len(SubSeq(stBuf, n + 1, Len(stBuf))) = Len(stBuf) - n
      /\ \A i \in 1 .. n : i \in 1 .. Len(stBuf) /\ SubSeq(stBuf, 1, n)[i] = stBuf[i]
      /\ \A i \in 1 .. Len(stBuf) - n : n + i \in 1 .. Len(stBuf)
                                        /\ SubSeq(stBuf, n + 1, Len(stBuf))[i] = stBuf[n + i]
  BY Cut
<1> WITNESS n \in 1 .. Len(stBuf), SubSeq(stBuf, 1, n) \in Seq(Positions), SubSeq(stBuf, n + 1, Len(stBuf)) \in Seq(Positions)
<1> QED BY <1>1, <1>2

\* A sequence of positions has numbers in it.
LEMMA Numbers ==
  ASSUME NEW s \in Seq(Positions)
  PROVE  Len(s) \in Nat /\ \A i \in 1 .. Len(s) : s[i] \in Nat
<1>1. \A i \in 1 .. Len(s) : s[i] \in Positions
  BY ElementOfSeq
<1>2. \A p \in Positions : p \in Nat
  BY BoundsAssumption DEF Positions
<1>3. Len(s) \in Nat
  BY LenProperties
<1> QED BY <1>1, <1>2, <1>3

\* What a received frame does to the stream.
LEMMA Received ==
  ASSUME TypeOK, StageInv, NetInv, Receive
  PROVE  /\ net # <<>> /\ up /\ stEnd = "open" /\ net[1] \in Frame /\ Len(net) \in Nat \ {0}
         /\ UNCHANGED <<up, spc, consumed, lastSeq, since, ringEnd, exited, lost, told, sending, lastSeen>>
         /\ \/ /\ Output(1) /\ stSeq <= net[1].seq /\ net[1].seq \in Nat
               /\ net[1].data \in Seq(Positions) /\ Len(net[1].data) \in Nat \ {0}
               /\ \A i \in 1 .. Len(net[1].data) : net[1].data[i] = net[1].seq + i - 1
               /\ stBuf' = stBuf \o net[1].data /\ stSeq' = End(1) /\ UNCHANGED <<stEnd, cpc>>
            \/ /\ ~Output(1) /\ UNCHANGED <<stBuf, stSeq>>
               /\ cpc' \in {cpc, "read", "failed"} /\ (cpc' # cpc => cpc = "attaching")
               /\ stEnd' = IF net[1].type = "exit" THEN "exit" ELSE "open"
<1>1. /\ net # <<>> /\ net' = Tail(net)
      /\ UNCHANGED <<up, spc, consumed, lastSeq, since, ringEnd, exited, lost, told, sending, lastSeen>>
  BY DEF Receive, daemonVars, sessionVars
<1>2. up /\ stEnd = "open"
  BY <1>1 DEF StageInv, TypeOK
<1>3. net \in Seq(Frame)
  BY DEF TypeOK
<1>4. Head(net) = net[1] /\ net[1] \in Frame /\ Len(net) \in Nat \ {0} /\ 1 \in 1 .. Len(net)
  BY <1>1, <1>3, Shrunk
<1>5. /\ cpc' = CASE net[1].type = "ok" -> "read" [] net[1].type = "notfound" -> "failed" [] OTHER -> cpc
      /\ Deliver(net[1])
  BY <1>2, <1>4 DEF Receive
<1>6. /\ net[1].type \in {"notfound", "gone", "exit", "ok", "output"}
      /\ Output(1) => net[1].seq \in Nat /\ net[1].data \in Seq(Positions)
  BY <1>4, FrameKinds DEF Output
<1>7. CASE Output(1)
  <2>1. stSeq <= net[1].seq /\ Len(net[1].data) > 0 /\ net[1].data = Interval(net[1].seq, End(1))
    BY <1>4, <1>7 DEF NetInv
  <2>2. net[1].seq \in Nat /\ Len(net[1].data) \in Nat /\ net[1].data \in Seq(Positions)
    BY <1>6, <1>7, LenProperties
  <2>3. \A i \in 1 .. Len(net[1].data) : net[1].data[i] = net[1].seq + i - 1
    <3> DEFINE a == net[1].seq
               d == net[1].data
    <3>1. d = [i \in 1 .. (a + Len(d)) - a |-> a + i - 1] /\ a \in Nat /\ Len(d) \in Nat
      BY <2>1, <2>2 DEF Interval, End
    <3> HIDE DEF a, d
    <3>2. (a + Len(d)) - a = Len(d)
      BY <3>1
    <3>3. \A i \in 1 .. Len(d) : d[i] = a + i - 1
      BY <3>1, <3>2
    <3> QED BY <3>3 DEF a, d
  <2>4. stBuf' = stBuf \o net[1].data /\ stSeq' = End(1) /\ UNCHANGED <<stEnd, cpc>>
    BY <1>5, <1>7 DEF Deliver, Output, End
  <2> QED BY <1>1, <1>2, <1>4, <1>7, <2>1, <2>2, <2>3, <2>4
<1>8. CASE ~Output(1)
  <2>1. net[1].type \in {"ok", "notfound"} => cpc = "attaching"
    BY <1>4 DEF StageInv
  <2>2. /\ UNCHANGED <<stBuf, stSeq>>
        /\ stEnd' = IF net[1].type = "exit" THEN "exit" ELSE "open"
    BY <1>2, <1>5, <1>8 DEF Deliver, Output, streamVars
  <2>3. cpc' \in {cpc, "read", "failed"} /\ (cpc' # cpc => cpc = "attaching")
    BY <1>5, <2>1
  <2> QED BY <1>1, <1>2, <1>4, <1>8, <2>2, <2>3
<1> QED BY <1>7, <1>8

\* Every step keeps what the follower knows of the stream.
LEMMA NoteNext ==
  ASSUME TypeOK, StageInv, NetInv, NoteInv, [Next]_vars
  PROVE  NoteInv'
<1> USE DEF sessionVars, daemonVars, streamVars, NoteInv
<1>1. CASE Receive
  <2>1. CASE Output(1)
    <3>1. /\ net[1].data \in Seq(Positions) /\ Len(net[1].data) \in Nat \ {0}
          /\ stBuf' = stBuf \o net[1].data
      BY <1>1, <2>1, Received
    <3>2. Len(stBuf') = Len(stBuf) + Len(net[1].data) /\ Len(stBuf) \in Nat
      BY <3>1, Joined DEF TypeOK
    <3>3. Len(<<>>) = 0 /\ Len(stBuf') # 0
      BY <3>1, <3>2
    <3>4. stBuf' # <<>>
      BY <3>3, Zenon
    <3> QED BY <3>4
  <2>2. CASE ~Output(1)
    <3>1. /\ UNCHANGED <<stBuf, stSeq, consumed, lastSeq>>
          /\ cpc' \in {cpc, "read", "failed"} /\ (cpc' # cpc => cpc = "attaching")
      BY <1>1, <2>2, Received
    <3> QED BY <3>1
  <2> QED BY <2>1, <2>2
<1>2. CASE StreamRead \/ FollowerNote \/ FollowerEOF \/ FollowerReconnect
  BY <1>2 DEF StreamRead, FollowerNote, FollowerEOF, FollowerReconnect
<1>3. CASE Produce \/ SessionExit \/ Reap \/ PumpStep \/ Break \/ UNCHANGED vars
  <2>1. UNCHANGED <<cpc, stBuf, lastSeq, stSeq, consumed>>
    BY <1>3 DEF Produce, SessionExit, Reap, PumpStep, OnAttachLookup, OnAttachRead1, OnAttachRead2, OnAttachReply,
                PumpReplay, PumpSend, PumpWait, PumpGone, Break, vars
  <2> QED BY <2>1
<1> QED
  BY <1>1, <1>2, <1>3 DEF Next, ClientStep, Terminated

\* Every step keeps the stream in order.
LEMMA ReadNext ==
  ASSUME TypeOK, StageInv, NetInv, NoteInv, ReadInv, [Next]_vars
  PROVE  ReadInv'
<1> USE DEF sessionVars, daemonVars, streamVars
<1>0. /\ stBuf \in Seq(Positions) /\ consumed \in Seq(Positions) /\ stSeq \in Nat /\ Len(stBuf) \in Nat /\ Len(consumed) \in Nat
      /\ \A i \in 1 .. Len(stBuf) : stBuf[i] \in Nat
      /\ \A i \in 1 .. Len(consumed) : consumed[i] \in Nat
  BY Numbers DEF TypeOK
<1>1. CASE Receive
  <2>1. CASE Output(1)
    <3> DEFINE a == net[1].seq
               d == net[1].data
    <3>1. /\ stSeq <= a /\ a \in Nat /\ d \in Seq(Positions) /\ Len(d) \in Nat \ {0}
          /\ \A i \in 1 .. Len(d) : d[i] = a + i - 1
          /\ stBuf' = stBuf \o d /\ stSeq' = a + Len(d) /\ UNCHANGED consumed
      BY <1>1, <2>1, Received DEF End
    <3> HIDE DEF a, d
    <3> DEFINE b == stBuf'
    <3>2. \A i \in 1 .. Len(b) : \/ i \in 1 .. Len(stBuf) /\ b[i] = stBuf[i]
                                 \/ i - Len(stBuf) \in 1 .. Len(d) /\ i > Len(stBuf) /\ b[i] = d[i - Len(stBuf)]
      BY <1>0, <3>1, Joined
    <3> HIDE DEF b
    <3>3. \A i \in 1 .. Len(b) : \/ i \in 1 .. Len(stBuf) /\ b[i] = stBuf[i]
                                 \/ i > Len(stBuf) /\ b[i] = a + (i - Len(stBuf)) - 1 /\ i - Len(stBuf) \in 1 .. Len(d)
      BY <3>1, <3>2
    <3>4. \A i \in 1 .. Len(b) : b[i] < a + Len(d)
      <4> TAKE i \in 1 .. Len(b)
      <4>1. CASE i \in 1 .. Len(stBuf) /\ b[i] = stBuf[i]
        BY <1>0, <3>1, <4>1 DEF ReadInv
      <4>2. CASE i > Len(stBuf) /\ b[i] = a + (i - Len(stBuf)) - 1 /\ i - Len(stBuf) \in 1 .. Len(d)
        BY <1>0, <3>1, <4>2
      <4> QED BY <3>3, <4>1, <4>2
    <3>5. \A i, j \in 1 .. Len(b) : i < j => b[i] < b[j]
      <4> SUFFICES ASSUME NEW i \in 1 .. Len(b), NEW j \in 1 .. Len(b), i < j PROVE b[i] < b[j]
        OBVIOUS
      <4>0. Len(b) \in Nat
        BY <1>0, <3>1, Joined DEF b
      <4>1. CASE j \in 1 .. Len(stBuf) /\ b[j] = stBuf[j]
        BY <1>0, <3>3, <4>1 DEF ReadInv
      <4>2. CASE j > Len(stBuf) /\ b[j] = a + (j - Len(stBuf)) - 1 /\ j - Len(stBuf) \in 1 .. Len(d)
        <5>1. CASE i \in 1 .. Len(stBuf) /\ b[i] = stBuf[i]
          BY <1>0, <3>1, <4>2, <5>1 DEF ReadInv
        <5>2. CASE i > Len(stBuf) /\ b[i] = a + (i - Len(stBuf)) - 1
          BY <1>0, <3>1, <4>0, <4>2, <5>2
        <5> QED BY <3>3, <5>1, <5>2
      <4> QED BY <3>3, <4>1, <4>2
    <3>6. \A i \in 1 .. Len(consumed), j \in 1 .. Len(b) : consumed[i] < b[j]
      <4> TAKE i \in 1 .. Len(consumed), j \in 1 .. Len(b)
      <4>1. CASE j \in 1 .. Len(stBuf) /\ b[j] = stBuf[j]
        BY <4>1 DEF ReadInv
      <4>2. CASE j > Len(stBuf) /\ b[j] = a + (j - Len(stBuf)) - 1 /\ j - Len(stBuf) \in 1 .. Len(d)
        <5>1. consumed[i] < stSeq /\ consumed[i] \in Nat
          BY <1>0 DEF ReadInv
        <5> QED BY <1>0, <3>1, <4>2, <5>1
      <4> QED BY <3>3, <4>1, <4>2
    <3>7. \A i \in 1 .. Len(consumed) : consumed[i] < a + Len(d)
      <4> TAKE i \in 1 .. Len(consumed)
      <4>1. consumed[i] < stSeq /\ consumed[i] \in Nat
        BY <1>0 DEF ReadInv
      <4> QED BY <1>0, <3>1, <4>1
    <3> QED BY <3>1, <3>4, <3>5, <3>6, <3>7 DEF b, ReadInv
  <2>2. CASE ~Output(1)
    <3>1. /\ UNCHANGED <<stBuf, stSeq, consumed>>
      BY <1>1, <2>2, Received
    <3> QED BY <3>1 DEF ReadInv
  <2> QED BY <2>1, <2>2
<1>2. CASE StreamRead
  <2>1. PICK n \in 1 .. Len(stBuf), u, v \in Seq(Positions) :
           /\ consumed' = consumed \o u /\ stBuf' = v
           /\ Len(u) = n /\ Len(v) = Len(stBuf) - n
           /\ \A i \in 1 .. n : i \in 1 .. Len(stBuf) /\ u[i] = stBuf[i]
           /\ \A i \in 1 .. Len(stBuf) - n : n + i \in 1 .. Len(stBuf) /\ v[i] = stBuf[n + i]
    BY <1>0, <1>2, ReadCuts
  <2> DEFINE w == consumed'
  <2>3. consumed' = consumed \o u /\ stBuf' = v /\ stSeq' = stSeq
    BY <1>2, <2>1 DEF StreamRead
  <2>2. /\ Len(w) = Len(consumed) + Len(u)
        /\ \A i \in 1 .. Len(w) : \/ i \in 1 .. Len(consumed) /\ w[i] = consumed[i]
                                  \/ i - Len(consumed) \in 1 .. Len(u) /\ i > Len(consumed) /\ w[i] = u[i - Len(consumed)]
    BY <1>0, <2>3, Joined
  <2> HIDE DEF w
  <2> DEFINE m == Len(consumed)
             k == Len(stBuf)
  <2>4. \A i \in 1 .. Len(w) : \/ i \in 1 .. m /\ w[i] = consumed[i]
                               \/ i > m /\ i - m \in 1 .. n /\ i - m \in 1 .. k /\ w[i] = stBuf[i - m]
    <3> TAKE i \in 1 .. Len(w)
    <3>1. CASE i \in 1 .. m /\ w[i] = consumed[i]
      BY <3>1
    <3>2. CASE i - m \in 1 .. Len(u) /\ i > m /\ w[i] = u[i - m]
      BY <2>1, <3>2
    <3> QED BY <2>2, <3>1, <3>2
  <2>5. m \in Nat /\ k \in Nat /\ n \in 1 .. k /\ Len(w) = m + n /\ Len(v) = k - n
        /\ \A i \in 1 .. k - n : n + i \in 1 .. k /\ v[i] = stBuf[n + i]
    BY <1>0, <2>1, <2>2
  <2>6. /\ \A i, j \in 1 .. m : i < j => consumed[i] < consumed[j]
        /\ \A i, j \in 1 .. k : i < j => stBuf[i] < stBuf[j]
        /\ \A i \in 1 .. m, j \in 1 .. k : consumed[i] < stBuf[j]
        /\ \A i \in 1 .. m : consumed[i] < stSeq
        /\ \A i \in 1 .. k : stBuf[i] < stSeq
    BY DEF ReadInv
  <2> HIDE DEF m, k
  <2>7. \A i, j \in 1 .. Len(w) : i < j => w[i] < w[j]
    <3> SUFFICES ASSUME NEW i \in 1 .. Len(w), NEW j \in 1 .. Len(w), i < j PROVE w[i] < w[j]
      OBVIOUS
    <3>1. CASE j \in 1 .. m /\ w[j] = consumed[j]
      <4>1. i \in 1 .. m
        BY <2>5, <3>1
      <4>2. w[i] = consumed[i]
        BY <2>4, <2>5, <4>1
      <4> QED BY <2>6, <3>1, <4>1, <4>2
    <3>2. CASE j > m /\ j - m \in 1 .. n /\ j - m \in 1 .. k /\ w[j] = stBuf[j - m]
      <4>1. CASE i \in 1 .. m /\ w[i] = consumed[i]
        BY <2>6, <3>2, <4>1
      <4>2. CASE i > m /\ i - m \in 1 .. k /\ w[i] = stBuf[i - m]
        <5>1. i - m < j - m
          BY <2>5
        <5> QED BY <2>6, <3>2, <4>2, <5>1
      <4> QED BY <2>4, <4>1, <4>2
    <3> QED BY <2>4, <3>1, <3>2
  <2>8. \A i, j \in 1 .. Len(v) : i < j => v[i] < v[j]
    <3> SUFFICES ASSUME NEW i \in 1 .. Len(v), NEW j \in 1 .. Len(v), i < j PROVE v[i] < v[j]
      OBVIOUS
    <3>1. n + i \in 1 .. k /\ n + j \in 1 .. k /\ v[i] = stBuf[n + i] /\ v[j] = stBuf[n + j] /\ n + i < n + j
      BY <2>5
    <3> QED BY <2>6, <3>1
  <2>9. \A i \in 1 .. Len(w), j \in 1 .. Len(v) : w[i] < v[j]
    <3> TAKE i \in 1 .. Len(w), j \in 1 .. Len(v)
    <3>1. n + j \in 1 .. k /\ v[j] = stBuf[n + j]
      BY <2>5
    <3>2. CASE i \in 1 .. m /\ w[i] = consumed[i]
      BY <2>6, <3>1, <3>2
    <3>3. CASE i > m /\ i - m \in 1 .. n /\ i - m \in 1 .. k /\ w[i] = stBuf[i - m]
      <4>1. i - m < n + j
        BY <2>5, <3>3
      <4> QED BY <2>6, <3>1, <3>3, <4>1
    <3> QED BY <2>4, <3>2, <3>3
  <2>10. /\ \A i \in 1 .. Len(w) : w[i] < stSeq
         /\ \A i \in 1 .. Len(v) : v[i] < stSeq
    BY <2>4, <2>5, <2>6
  <2> QED BY <2>3, <2>7, <2>8, <2>9, <2>10 DEF ReadInv, w
<1>3. CASE FollowerReconnect
  <2>1. stSeq' = lastSeq /\ stBuf' = <<>> /\ consumed' = consumed
    BY <1>3 DEF FollowerReconnect
  <2>2. stBuf = <<>> /\ cpc \in {"attaching", "read"}
    BY <1>3 DEF FollowerReconnect, StageInv
  <2>3. lastSeq = stSeq \/ consumed = <<>>
    BY <2>2 DEF NoteInv
  <2>4. Len(<<>>) = 0 /\ 1 .. 0 = {}
    OBVIOUS
  <2>5. \A i \in 1 .. Len(consumed) : consumed[i] < lastSeq
    BY <2>3, <2>4 DEF ReadInv
  <2> QED BY <2>1, <2>4, <2>5 DEF ReadInv
<1>4. CASE Produce \/ SessionExit \/ Reap \/ PumpStep \/ Break \/ FollowerNote \/ FollowerEOF \/ UNCHANGED vars
  <2>1. UNCHANGED <<stBuf, stSeq, consumed>>
    BY <1>4 DEF Produce, SessionExit, Reap, PumpStep, OnAttachLookup, OnAttachRead1, OnAttachRead2, OnAttachReply,
                PumpReplay, PumpSend, PumpWait, PumpGone, Break, FollowerNote, FollowerEOF, vars
  <2> QED BY <2>1 DEF ReadInv
<1> QED
  BY <1>1, <1>2, <1>3, <1>4 DEF Next, ClientStep, Terminated

-----------------------------------------------------------------------------
(* What is in flight. *)

\* The numbers of an OUTPUT frame.
LEMMA OutputType ==
  ASSUME TypeOK, NEW i \in 1 .. Len(net), Output(i)
  PROVE  net[i].seq \in Nat /\ Len(net[i].data) \in Nat /\ End(i) \in Nat
<1>1. net[i] \in Frame
  BY ElementOfSeq DEF TypeOK
<1>2. net[i].seq \in Nat /\ net[i].data \in Seq(Positions)
  BY <1>1, FrameKinds DEF Output
<1>3. Len(net[i].data) \in Nat
  BY <1>2, LenProperties
<1> QED BY <1>2, <1>3 DEF End

\* Where the pump is.
LEMMA ReachType ==
  ASSUME TypeOK
  PROVE  Reach \in Nat
BY DEF TypeOK, Reach

\* No OUTPUT frame is added.
SameOutput == \A i \in 1 .. Len(net') : net'[i].type = "output" => i \in 1 .. Len(net) /\ net'[i] = net[i]

\* A step that sends another frame, or none, adds no OUTPUT frame.
LEMMA KeptOutput ==
  ASSUME net \in Seq(Frame), net' = net \/ net' = <<>> \/ \E f \in Frame : Send(f) /\ f.type # "output"
  PROVE  SameOutput
<1>1. CASE net' = net
  BY <1>1 DEF SameOutput
<1>2. CASE net' = <<>>
  <2>1. Len(<<>>) = 0 /\ 1 .. 0 = {}
    OBVIOUS
  <2> QED BY <1>2, <2>1 DEF SameOutput
<1>3. CASE \E f \in Frame : Send(f) /\ f.type # "output"
  <2> PICK f \in Frame : Send(f) /\ f.type # "output"
    BY <1>3
  <2>1. \A i \in 1 .. Len(net') : (i \in 1 .. Len(net) /\ net'[i] = net[i]) \/ (i = Len(net) + 1 /\ net'[i] = f)
    BY Grown
  <2> QED BY <2>1 DEF SameOutput
<1> QED BY <1>1, <1>2, <1>3

\* A step that adds no OUTPUT frame and does not take the pump back.
LEMMA NetSame ==
  ASSUME TypeOK, NetInv, SameOutput, UNCHANGED stSeq,
         Pumping' => Pumping /\ Reach \in Nat /\ Reach' \in Nat /\ Reach <= Reach',
         (spc = "send")' => (sending[1] < sending[2] /\ sending[2] <= ringEnd)'
  PROVE  NetInv'
<1>1. ASSUME NEW i \in 1 .. Len(net'), net'[i].type = "output"
      PROVE  /\ i \in 1 .. Len(net) /\ net'[i] = net[i] /\ Output(i) /\ End(i) \in Nat
             /\ stSeq <= net[i].seq /\ Len(net[i].data) > 0
             /\ net[i].data = Interval(net[i].seq, End(i))
             /\ Pumping => End(i) <= Reach
  <2>1. i \in 1 .. Len(net) /\ net'[i] = net[i]
    BY <1>1 DEF SameOutput
  <2>2. Output(i)
    BY <1>1, <2>1 DEF Output
  <2> QED BY <2>1, <2>2, OutputType DEF NetInv
<1>2. ASSUME NEW i \in 1 .. Len(net'), net'[i].type = "output"
      PROVE  /\ stSeq' <= net'[i].seq /\ Len(net'[i].data) > 0
             /\ net'[i].data = Interval(net'[i].seq, net'[i].seq + Len(net'[i].data))
             /\ Pumping' => net'[i].seq + Len(net'[i].data) <= Reach'
  <2>1. /\ i \in 1 .. Len(net) /\ net'[i] = net[i] /\ End(i) \in Nat
        /\ stSeq <= net[i].seq /\ Len(net[i].data) > 0
        /\ net[i].data = Interval(net[i].seq, End(i))
        /\ Pumping => End(i) <= Reach
    BY <1>1, <1>2
  <2>2. Pumping' => End(i) <= Reach'
    BY <2>1
  <2> QED BY <2>1, <2>2 DEF End
<1>3. ASSUME NEW i \in 1 .. Len(net'), NEW j \in 1 .. Len(net'), i < j, net'[i].type = "output", net'[j].type = "output"
      PROVE  net'[i].seq + Len(net'[i].data) <= net'[j].seq
  <2>1. /\ i \in 1 .. Len(net) /\ net'[i] = net[i] /\ Output(i)
        /\ j \in 1 .. Len(net) /\ net'[j] = net[j] /\ Output(j)
    BY <1>1, <1>3
  <2>2. End(i) <= net[j].seq
    BY <1>3, <2>1 DEF NetInv
  <2> QED BY <2>1, <2>2 DEF End
<1>4. Pumping' => stSeq' <= Reach'
  <2>1. Pumping => stSeq <= Reach
    BY DEF NetInv
  <2>2. stSeq \in Nat
    BY DEF TypeOK
  <2> QED BY <2>1, <2>2
<1> QED BY <1>2, <1>3, <1>4 DEF NetInv, Output, End

\* Where the next OUTPUT frame ends.
To == IF sending[2] < sending[1] + Chunk THEN sending[2] ELSE sending[1] + Chunk

\* What PumpSend sends, and how far the pump gets.
LEMMA Sent ==
  ASSUME TypeOK, NetInv, PumpSend
  PROVE  /\ spc = "send" /\ up /\ spc' \in {"send", "wait"}
         /\ UNCHANGED <<ringEnd, exited, reaped, breaks, up, since, lost, told, cpc, stBuf, stSeq, stEnd, lastSeq, consumed>>
         /\ To \in Nat /\ sending[1] \in Nat /\ sending[2] \in Nat /\ ringEnd \in Nat
         /\ sending[1] < To /\ To <= sending[2] /\ sending[2] <= ringEnd /\ ringEnd <= MaxOut
         /\ Reach = sending[1] /\ Reach' = To
         /\ spc' = "send" => sending'[1] = To /\ sending'[2] = sending[2] /\ To < sending[2]
         /\ \E f \in Frame : /\ Send(f) /\ f.type = "output" /\ f.seq = sending[1]
                             /\ f.data = Interval(sending[1], To) /\ Len(f.data) = To - sending[1]
<1>1. /\ spc = "send" /\ up /\ spc' \in {"send", "wait"}
      /\ UNCHANGED <<ringEnd, exited, reaped, breaks, up, since, lost, told, cpc, stBuf, stSeq, stEnd, lastSeq, consumed>>
      /\ sending' = <<To, sending[2]>>
      /\ IF To = sending[2] THEN spc' = "wait" /\ lastSeen' = sending[2] ELSE UNCHANGED <<spc, lastSeen>>
      /\ Send([type |-> "output", seq |-> sending[1], data |-> Interval(sending[1], To)])
  BY DEF PumpSend, To, sessionVars, streamVars
<1>2. sending[1] \in Nat /\ sending[2] \in Nat /\ ringEnd \in Nat /\ ringEnd <= MaxOut
  BY BoundsAssumption DEF TypeOK
<1>3. sending[1] < sending[2] /\ sending[2] <= ringEnd
  BY <1>1 DEF NetInv
<1>4. To \in Nat /\ sending[1] < To /\ To <= sending[2]
  BY <1>2, <1>3, ChunkAssumption DEF To
<1>5. To <= MaxOut /\ sending[1] <= To
  BY <1>2, <1>3, <1>4, BoundsAssumption
<1>6. Interval(sending[1], To) \in Seq(Positions) /\ Len(Interval(sending[1], To)) = To - sending[1]
  BY <1>2, <1>4, <1>5, IntervalType
<1> DEFINE f == [type |-> "output", seq |-> sending[1], data |-> Interval(sending[1], To)]
<1>7. f \in Frame
  BY <1>2, <1>6, FrameKinds
<1>8. f.type = "output" /\ f.seq = sending[1] /\ f.data = Interval(sending[1], To) /\ Len(f.data) = To - sending[1]
  BY <1>6
<1>9. Reach = sending[1] /\ Reach' = To
  BY <1>1 DEF Reach
<1>10. spc' = "send" => sending'[1] = To /\ sending'[2] = sending[2] /\ To < sending[2]
  BY <1>1, <1>2, <1>4
<1>11. Send(f)
  BY <1>1
<1> HIDE DEF f
<1>12. \E g \in Frame : /\ Send(g) /\ g.type = "output" /\ g.seq = sending[1]
                        /\ g.data = Interval(sending[1], To) /\ Len(g.data) = To - sending[1]
  BY <1>7, <1>8, <1>11
<1> QED BY <1>1, <1>2, <1>3, <1>4, <1>9, <1>10, <1>12

\* Every step keeps what is in flight.
LEMMA NetNext ==
  ASSUME TypeOK, TypeOK', StageInv, NetInv, [Next]_vars
  PROVE  NetInv'
<1> USE DEF sessionVars, daemonVars, streamVars
<1>0. /\ net \in Seq(Frame) /\ Reach \in Nat /\ Reach' \in Nat
      /\ spc = "send" => sending[1] < sending[2] /\ sending[2] <= ringEnd
  BY ReachType DEF TypeOK, Reach, NetInv
<1>1. CASE Produce
  <2>1. UNCHANGED <<net, stSeq, up, spc, sending, lastSeen>> /\ ringEnd \in Nat /\ ringEnd' \in Nat /\ ringEnd' >= ringEnd
    <3>1. PICK n \in 1 .. MaxOut - ringEnd : ringEnd' = ringEnd + n
      BY <1>1 DEF Produce
    <3>2. ringEnd \in Nat
      BY BoundsAssumption DEF TypeOK
    <3>3. ringEnd' \in Nat /\ ringEnd' >= ringEnd
      BY <3>1, <3>2
    <3> QED BY <1>1, <3>2, <3>3 DEF Produce
  <2>2. SameOutput
    BY <1>0, <2>1, KeptOutput
  <2>3. (spc = "send")' => (sending[1] < sending[2] /\ sending[2] <= ringEnd)'
    <3>1. sending[1] \in Nat /\ sending[2] \in Nat
      BY DEF TypeOK
    <3> QED BY <1>0, <2>1, <3>1
  <2>4. Pumping' => Pumping /\ Reach \in Nat /\ Reach' \in Nat /\ Reach <= Reach'
    BY <1>0, <2>1 DEF Pumping, Reach
  <2> QED BY <2>1, <2>2, <2>3, <2>4, NetSame
<1>2. CASE SessionExit \/ Reap \/ StreamRead \/ FollowerNote \/ FollowerEOF \/ UNCHANGED vars
  <2>1. UNCHANGED <<net, stSeq, up, spc, sending, lastSeen, ringEnd>>
    BY <1>2 DEF SessionExit, Reap, StreamRead, FollowerNote, FollowerEOF, vars
  <2>2. SameOutput
    BY <1>0, <2>1, KeptOutput
  <2>3. (spc = "send")' => (sending[1] < sending[2] /\ sending[2] <= ringEnd)'
    BY <1>0, <2>1
  <2>4. Pumping' => Pumping /\ Reach \in Nat /\ Reach' \in Nat /\ Reach <= Reach'
    BY <1>0, <2>1 DEF Pumping, Reach
  <2> QED BY <2>1, <2>2, <2>3, <2>4, NetSame
<1>3. CASE OnAttachLookup \/ OnAttachRead1 \/ OnAttachRead2 \/ PumpGone \/ Break
  <2>1. stSeq' = stSeq /\ sending' = sending /\ ringEnd' = ringEnd /\ ~Pumping'
    BY <1>3 DEF OnAttachLookup, OnAttachRead1, OnAttachRead2, PumpGone, Break, Pumping
  <2>2. net' = net \/ net' = <<>> \/ \E f \in Frame : Send(f) /\ f.type # "output"
    BY <1>3, FrameKinds DEF OnAttachLookup, OnAttachRead1, OnAttachRead2, PumpGone, Break
  <2>3. spc' = "send" => spc = "send"
    BY <1>3 DEF OnAttachLookup, OnAttachRead1, OnAttachRead2, PumpGone, Break
  <2>4. (spc = "send")' => (sending[1] < sending[2] /\ sending[2] <= ringEnd)'
    BY <1>0, <2>1, <2>3
  <2>5. SameOutput
    BY <1>0, <2>2, KeptOutput
  <2> QED BY <2>1, <2>4, <2>5, NetSame
<1>4. CASE OnAttachReply
  <2>1. spc = "reply" /\ spc' = "replay" /\ UNCHANGED <<up, stSeq, since>> /\ lastSeen' = since
    BY <1>4 DEF OnAttachReply
  <2>2. net = <<>>
    BY <2>1 DEF StageInv, Early
  <2>3. \A i \in 1 .. Len(net') : net'[i].type # "output"
    <3>1. CASE up
      <4> PICK f \in Frame : Send(f) /\ f.type = "ok"
        BY <1>4, <3>1, Replied
      <4>5. \A i \in 1 .. Len(net') : (i \in 1 .. Len(net) /\ net'[i] = net[i]) \/ (i = Len(net) + 1 /\ net'[i] = f)
        BY <1>0, Grown
      <4>6. 1 .. Len(net) = {}
        BY <2>2, NoFrames
      <4> QED BY <4>5, <4>6
    <3>2. CASE ~up
      <4>1. net' = <<>>
        BY <1>4, <2>2, <3>2 DEF OnAttachReply
      <4>2. Len(<<>>) = 0 /\ 1 .. 0 = {}
        OBVIOUS
      <4> QED BY <4>1, <4>2
    <3> QED BY <3>1, <3>2
  <2>4. Pumping' => stSeq' <= Reach'
    <3>1. up => stSeq = since
      BY <2>1 DEF StageInv, Early
    <3> QED BY <2>1, <3>1 DEF Pumping, Reach, TypeOK
  <2> QED BY <2>1, <2>3, <2>4 DEF NetInv, Output
<1>5. CASE PumpReplay
  <2>1. /\ up /\ spc = "replay" /\ UNCHANGED <<up, stSeq, lastSeen, ringEnd>>
        /\ \/ lastSeen < ringEnd /\ sending' = <<ReplayStart(lastSeen), ringEnd>> /\ spc' = "send"
           \/ spc' = "wait"
    BY <1>5 DEF PumpReplay
  <2>2. net' = net \/ \E f \in Frame : Send(f) /\ f.type # "output"
    BY <1>5, FrameKinds DEF PumpReplay
  <2>3. SameOutput
    BY <1>0, <2>2, KeptOutput
  <2>4. /\ ReplayStart(lastSeen) \in Nat /\ lastSeen \in Nat /\ lastSeen <= ReplayStart(lastSeen)
        /\ lastSeen < ringEnd => ReplayStart(lastSeen) < ringEnd
    <3>1. lastSeen \in Nat /\ ringEnd \in Nat
      BY BoundsAssumption DEF TypeOK
    <3> QED BY <3>1, Window DEF ReplayStart
  <2>5. (spc = "send")' => (sending[1] < sending[2] /\ sending[2] <= ringEnd)'
    BY <2>1, <2>4 DEF TypeOK
  <2>6. Pumping' => Pumping /\ Reach \in Nat /\ Reach' \in Nat /\ Reach <= Reach'
    BY <1>0, <2>1, <2>4 DEF Pumping, Reach
  <2> QED BY <2>1, <2>3, <2>5, <2>6, NetSame
<1>6. CASE PumpWait
  <2>1. /\ up /\ spc = "wait" /\ UNCHANGED <<up, stSeq, lastSeen, ringEnd>> /\ spc' \in {"off", "replay"}
    BY <1>6 DEF PumpWait
  <2>2. net' = net \/ \E f \in Frame : Send(f) /\ f.type # "output"
    BY <1>6, FrameKinds DEF PumpWait
  <2>3. SameOutput
    BY <1>0, <2>2, KeptOutput
  <2>5. (spc = "send")' => (sending[1] < sending[2] /\ sending[2] <= ringEnd)'
    BY <2>1
  <2>6. Pumping' => Pumping /\ Reach \in Nat /\ Reach' \in Nat /\ Reach <= Reach'
    BY <1>0, <2>1 DEF Pumping, Reach
  <2> QED BY <2>1, <2>3, <2>5, <2>6, NetSame
<1>7. CASE PumpSend
  <2> PICK f \in Frame : /\ Send(f) /\ f.type = "output" /\ f.seq = sending[1]
                         /\ f.data = Interval(sending[1], To) /\ Len(f.data) = To - sending[1]
    BY <1>7, Sent
  <2>1. /\ up /\ UNCHANGED <<up, stSeq, ringEnd>> /\ spc = "send"
        /\ To \in Nat /\ sending[1] \in Nat /\ sending[2] \in Nat /\ ringEnd \in Nat
        /\ sending[1] < To /\ To <= sending[2] /\ sending[2] <= ringEnd
        /\ Reach = sending[1] /\ Reach' = To
        /\ spc' = "send" => sending'[1] = To /\ sending'[2] = sending[2] /\ To < sending[2]
    BY <1>7, Sent
  <2>2. /\ \A i \in 1 .. Len(net') : (i \in 1 .. Len(net) /\ net'[i] = net[i]) \/ (i = Len(net) + 1 /\ net'[i] = f)
        /\ Len(net) \in Nat
    BY <1>0, Grown
  <2>3. Pumping /\ stSeq <= sending[1] /\ stSeq \in Nat
    BY <2>1 DEF Pumping, NetInv, TypeOK
  <2>4. f.seq + Len(f.data) = To
    BY <2>1
  <2>5. ASSUME NEW i \in 1 .. Len(net), Output(i)
        PROVE  /\ stSeq <= net[i].seq /\ Len(net[i].data) > 0
               /\ net[i].data = Interval(net[i].seq, End(i))
               /\ End(i) <= sending[1] /\ End(i) <= To
    <3>1. /\ stSeq <= net[i].seq /\ Len(net[i].data) > 0
          /\ net[i].data = Interval(net[i].seq, End(i))
          /\ End(i) <= Reach
      BY <2>3, <2>5 DEF NetInv
    <3>2. End(i) \in Nat
      BY <2>5, OutputType
    <3> QED BY <2>1, <3>1, <3>2
  <2>6. ASSUME NEW i \in 1 .. Len(net'), net'[i].type = "output"
        PROVE  /\ stSeq <= net'[i].seq /\ Len(net'[i].data) > 0
               /\ net'[i].data = Interval(net'[i].seq, net'[i].seq + Len(net'[i].data))
               /\ net'[i].seq + Len(net'[i].data) <= To
    <3>1. CASE i \in 1 .. Len(net) /\ net'[i] = net[i]
      BY <2>5, <2>6, <3>1 DEF Output, End
    <3>2. CASE net'[i] = f
      <4>1. stSeq <= f.seq /\ Len(f.data) > 0 /\ f.data = Interval(f.seq, f.seq + Len(f.data)) /\ f.seq + Len(f.data) <= To
        BY <2>1, <2>3, <2>4
      <4> QED BY <3>2, <4>1
    <3> QED BY <2>2, <3>1, <3>2
  <2>7. ASSUME NEW i \in 1 .. Len(net'), NEW j \in 1 .. Len(net'), i < j, net'[i].type = "output", net'[j].type = "output"
        PROVE  net'[i].seq + Len(net'[i].data) <= net'[j].seq
    <3>1. CASE j \in 1 .. Len(net) /\ net'[j] = net[j]
      <4>1. i \in 1 .. Len(net) /\ net'[i] = net[i]
        BY <2>2, <2>7, <3>1
      <4> QED BY <2>7, <3>1, <4>1 DEF NetInv, Output, End
    <3>2. CASE j = Len(net) + 1 /\ net'[j] = f
      <4>1. i \in 1 .. Len(net) /\ net'[i] = net[i]
        BY <2>2, <2>7, <3>2
      <4>2. End(i) <= sending[1]
        BY <2>5, <2>7, <4>1 DEF Output
      <4> QED BY <3>2, <4>1, <4>2 DEF End
    <3> QED BY <2>2, <3>1, <3>2
  <2>8. stSeq' <= Reach'
    BY <2>1, <2>3
  <2>9. (spc = "send")' => (sending[1] < sending[2] /\ sending[2] <= ringEnd)'
    BY <2>1
  <2> QED BY <2>1, <2>6, <2>7, <2>8, <2>9 DEF NetInv, Output, End
<1>8. CASE Receive
  <2>1. /\ net # <<>> /\ net' = Tail(net) /\ UNCHANGED <<up, spc, sending, lastSeen, ringEnd>>
    BY <1>8 DEF Receive
  <2>2. \A i \in 1 .. Len(net') : i + 1 \in 1 .. Len(net) /\ net'[i] = net[i + 1]
    BY <1>0, <2>1, Shrunk
  <2>3. 1 \in 1 .. Len(net) /\ Len(net) \in Nat /\ Len(net') = Len(net) - 1
    BY <1>0, <2>1, Shrunk
  <2>4. \/ Output(1) /\ stSeq' = End(1)
        \/ ~Output(1) /\ stSeq' = stSeq
    BY <1>8, Received
  <2>5. ASSUME NEW j \in 1 .. Len(net), j > 1, Output(j)
        PROVE  stSeq' <= net[j].seq
    BY <2>3, <2>4, <2>5 DEF NetInv
  <2>6. ASSUME NEW i \in 1 .. Len(net'), net'[i].type = "output"
        PROVE  /\ stSeq' <= net'[i].seq /\ Len(net'[i].data) > 0
               /\ net'[i].data = Interval(net'[i].seq, net'[i].seq + Len(net'[i].data))
               /\ Pumping => net'[i].seq + Len(net'[i].data) <= Reach
    <3>1. i + 1 \in 1 .. Len(net) /\ i + 1 > 1 /\ net'[i] = net[i + 1]
      BY <2>2
    <3>2. Output(i + 1)
      BY <2>6, <3>1 DEF Output
    <3>3. stSeq' <= net[i + 1].seq
      BY <2>5, <3>1, <3>2
    <3>4. /\ Len(net[i + 1].data) > 0 /\ net[i + 1].data = Interval(net[i + 1].seq, End(i + 1))
          /\ Pumping => End(i + 1) <= Reach
      BY <3>1, <3>2 DEF NetInv
    <3> QED BY <3>1, <3>3, <3>4 DEF End
  <2>7. ASSUME NEW i \in 1 .. Len(net'), NEW j \in 1 .. Len(net'), i < j, net'[i].type = "output", net'[j].type = "output"
        PROVE  net'[i].seq + Len(net'[i].data) <= net'[j].seq
    <3>1. /\ i + 1 \in 1 .. Len(net) /\ net'[i] = net[i + 1]
          /\ j + 1 \in 1 .. Len(net) /\ net'[j] = net[j + 1] /\ i + 1 < j + 1
      BY <2>2, <2>3, <2>7
    <3>2. Output(i + 1) /\ Output(j + 1)
      BY <2>7, <3>1 DEF Output
    <3>3. End(i + 1) <= net[j + 1].seq
      BY <3>1, <3>2 DEF NetInv
    <3> QED BY <3>1, <3>3 DEF End
  <2>8. Pumping => stSeq' <= Reach
    BY <2>3, <2>4 DEF NetInv
  <2>9. Pumping' = Pumping /\ Reach' = Reach
    BY <2>1 DEF Pumping, Reach
  <2>10. (spc = "send")' => (sending[1] < sending[2] /\ sending[2] <= ringEnd)'
    BY <1>0, <2>1
  <2> QED BY <2>6, <2>7, <2>8, <2>9, <2>10 DEF NetInv, Output, End
<1>9. CASE FollowerReconnect
  <2>1. net' = <<>> /\ spc' = "attach"
    BY <1>9 DEF FollowerReconnect
  <2>2. Len(<<>>) = 0 /\ 1 .. 0 = {}
    OBVIOUS
  <2> QED BY <2>1, <2>2 DEF NetInv, Pumping
<1> QED
  BY <1>1, <1>2, <1>3, <1>4, <1>5, <1>6, <1>7, <1>8, <1>9 DEF Next, PumpStep, ClientStep, Terminated

-----------------------------------------------------------------------------
(* Where the bytes are. *)

\* The stream's contents.
LEMMA Has ==
  ASSUME NEW s, NEW b
  PROVE  Contains(s, b) <=> \E i \in 1 .. Len(s) : s[i] = b
BY DEF Contains

\* What the stream has, it keeps until the consumer has it.
LEMMA GotStays ==
  ASSUME TypeOK, StageInv, NetInv, [Next]_vars, NEW b, Got(b)
  PROVE  Got(b)'
<1> USE DEF sessionVars, daemonVars, streamVars
<1>0. stBuf \in Seq(Positions) /\ consumed \in Seq(Positions)
  BY DEF TypeOK
<1>1. CASE Receive
  <2>1. CASE Output(1)
    <3>1. net[1].data \in Seq(Positions) /\ stBuf' = stBuf \o net[1].data /\ consumed' = consumed
      BY <1>1, <2>1, Received
    <3>2. \A i \in 1 .. Len(stBuf) : i \in 1 .. Len(stBuf') /\ stBuf'[i] = stBuf[i]
      BY <1>0, <3>1, Joined
    <3>3. Contains(stBuf, b) => Contains(stBuf', b)
      BY <3>2, Has
    <3> QED BY <3>1, <3>3 DEF Got
  <2>2. CASE ~Output(1)
    <3>1. UNCHANGED <<stBuf, consumed>>
      BY <1>1, <2>2, Received
    <3> QED BY <3>1 DEF Got
  <2> QED BY <2>1, <2>2
<1>2. CASE StreamRead
  <2>1. PICK n \in 1 .. Len(stBuf), u, v \in Seq(Positions) :
           /\ consumed' = consumed \o u /\ stBuf' = v
           /\ Len(u) = n /\ Len(v) = Len(stBuf) - n
           /\ \A i \in 1 .. n : i \in 1 .. Len(stBuf) /\ u[i] = stBuf[i]
           /\ \A i \in 1 .. Len(stBuf) - n : n + i \in 1 .. Len(stBuf) /\ v[i] = stBuf[n + i]
    BY <1>0, <1>2, ReadCuts
  <2>0. Len(stBuf) \in Nat
    BY <1>0, Numbers
  <2>2. consumed' = consumed \o u /\ stBuf' = v
    BY <2>1
  <2>3. /\ \A i \in 1 .. Len(consumed) : i \in 1 .. Len(consumed') /\ consumed'[i] = consumed[i]
        /\ \A i \in 1 .. Len(u) : Len(consumed) + i \in 1 .. Len(consumed') /\ consumed'[Len(consumed) + i] = u[i]
    BY <1>0, <2>2, Joined
  <2>4. CASE Contains(consumed, b)
    <3>1. Contains(consumed', b)
      BY <2>3, <2>4, Has
    <3> QED BY <3>1 DEF Got
  <2>5. CASE Contains(stBuf, b)
    <3> PICK i \in 1 .. Len(stBuf) : stBuf[i] = b
      BY <2>5, Has
    <3>1. CASE i <= n
      <4>1. i \in 1 .. n /\ i \in 1 .. Len(u) /\ u[i] = b
        BY <2>1, <3>1
      <4>2. Len(consumed) + i \in 1 .. Len(consumed') /\ consumed'[Len(consumed) + i] = b
        BY <2>3, <4>1
      <4>3. Contains(consumed', b)
        BY <4>2, Has
      <4> QED BY <4>3 DEF Got
    <3>2. CASE ~(i <= n)
      <4>1. i - n \in 1 .. Len(stBuf) - n /\ n + (i - n) = i
        BY <2>0, <3>2
      <4>2. i - n \in 1 .. Len(v) /\ v[i - n] = b
        BY <2>1, <4>1
      <4>3. Contains(stBuf', b)
        BY <2>2, <4>2, Has
      <4> QED BY <4>3 DEF Got
    <3> QED BY <3>1, <3>2
  <2> QED BY <2>4, <2>5 DEF Got
<1>3. CASE FollowerReconnect
  <2>1. consumed' = consumed /\ stBuf = <<>>
    BY <1>3 DEF FollowerReconnect, StageInv
  <2>2. Len(<<>>) = 0 /\ 1 .. 0 = {}
    OBVIOUS
  <2>3. ~Contains(stBuf, b)
    BY <2>1, <2>2, Has
  <2> QED BY <2>1, <2>3 DEF Got
<1>4. CASE Produce \/ SessionExit \/ Reap \/ PumpStep \/ Break \/ FollowerNote \/ FollowerEOF \/ UNCHANGED vars
  <2>1. UNCHANGED <<stBuf, consumed>>
    BY <1>4 DEF Produce, SessionExit, Reap, PumpStep, OnAttachLookup, OnAttachRead1, OnAttachRead2, OnAttachReply,
                PumpReplay, PumpSend, PumpWait, PumpGone, Break, FollowerNote, FollowerEOF, vars
  <2> QED BY <2>1 DEF Got
<1> QED
  BY <1>1, <1>2, <1>3, <1>4 DEF Next, ClientStep, Terminated

\* Flow after a step.
FlowNext(to) == \A b \in Nat : stSeq' <= b /\ b < to /\ Wanted(b) => b \in lost' \/ InNet(b)'

\* A frame more in flight leaves the others there.
LEMMA FlowStays ==
  ASSUME TypeOK, stSeq' = stSeq, lost \subseteq lost', net' = net \/ \E f \in Frame : Send(f)
  PROVE  /\ \A b \in Nat : InNet(b) => InNet(b)'
         /\ \A to \in Nat : Flow(to) => FlowNext(to)
<1>1. \A i \in 1 .. Len(net) : i \in 1 .. Len(net') /\ net'[i] = net[i]
  <2>1. CASE net' = net
    BY <2>1
  <2>2. CASE \E f \in Frame : Send(f)
    BY <2>2, Grown DEF TypeOK
  <2> QED BY <2>1, <2>2
<1>2. ASSUME NEW b \in Nat, InNet(b)
      PROVE  InNet(b)'
  <2> PICK i \in 1 .. Len(net) : net[i].type = "output" /\ net[i].seq <= b /\ b < net[i].seq + Len(net[i].data)
    BY <1>2 DEF InNet, Output, End
  <2>1. i \in 1 .. Len(net') /\ net'[i].type = "output" /\ net'[i].seq <= b /\ b < net'[i].seq + Len(net'[i].data)
    BY <1>1
  <2> QED BY <2>1 DEF InNet, Output, End
<1> QED BY <1>2 DEF Flow, FlowNext

\* The frame that is taken out of what is in flight is delivered.
LEMMA FlowShrinks ==
  ASSUME TypeOK, StageInv, NetInv, Receive
  PROVE  /\ \A b \in Nat : InNet(b) /\ stSeq' <= b => InNet(b)'
         /\ \A to \in Nat : Flow(to) => FlowNext(to)
<1>1. net # <<>> /\ net' = Tail(net) /\ lost' = lost
  BY DEF Receive, daemonVars
<1>2. \A i \in 1 .. Len(net) : i = 1 \/ (i - 1 \in 1 .. Len(net') /\ net'[i - 1] = net[i])
  BY <1>1, Shrunk DEF TypeOK
<1>3. (Output(1) /\ stSeq' = End(1)) \/ (~Output(1) /\ stSeq' = stSeq)
  BY Received
<1>4. ASSUME NEW b \in Nat, InNet(b), stSeq' <= b
      PROVE  InNet(b)'
  <2> PICK i \in 1 .. Len(net) : Output(i) /\ net[i].seq <= b /\ b < End(i)
    BY <1>4 DEF InNet
  <2>1. i # 1
    <3>1. ASSUME i = 1 PROVE FALSE
      <4>1. End(1) <= b /\ b < End(1) /\ End(1) \in Nat
        BY <1>3, <1>4, <3>1, OutputType
      <4> QED BY <4>1
    <3> QED BY <3>1
  <2>2. i - 1 \in 1 .. Len(net') /\ net'[i - 1] = net[i]
    BY <1>2, <2>1
  <2> DEFINE k == i - 1
  <2>3. k \in 1 .. Len(net') /\ net'[k].type = "output" /\ net'[k].seq <= b /\ b < net'[k].seq + Len(net'[k].data)
    BY <2>2 DEF Output, End
  <2> HIDE DEF k
  <2> QED BY <2>3 DEF InNet, Output, End
<1>5. stSeq <= stSeq' /\ stSeq \in Nat /\ stSeq' \in Nat
  <2>1. stSeq \in Nat
    BY DEF TypeOK
  <2>2. CASE Output(1)
    <3>1. 1 \in 1 .. Len(net)
      BY <1>1, Shrunk DEF TypeOK
    <3>2. stSeq <= net[1].seq /\ net[1].seq \in Nat /\ Len(net[1].data) \in Nat /\ stSeq' = net[1].seq + Len(net[1].data)
      BY <1>3, <2>2, <3>1, OutputType DEF NetInv, End
    <3> QED BY <2>1, <3>2
  <2> QED BY <1>3, <2>1, <2>2
<1>6. ASSUME NEW to \in Nat, Flow(to)
      PROVE  FlowNext(to)
  <2> SUFFICES ASSUME NEW b \in Nat, stSeq' <= b, b < to, Wanted(b) PROVE b \in lost' \/ InNet(b)'
    BY DEF FlowNext
  <2>1. stSeq <= b
    BY <1>5
  <2>2. b \in lost \/ InNet(b)
    BY <1>6, <2>1 DEF Flow
  <2> QED BY <1>1, <1>4, <2>2
<1> QED BY <1>4, <1>6

\* A step that adds no OUTPUT frame, as far as the pump has got.
LEMMA GapSame ==
  ASSUME TypeOK, StageInv, NetInv, GapInv, [Next]_vars, stSeq' = stSeq, SameOutput,
         \A to \in Nat : Flow(to) => FlowNext(to),
         Pumping' => FlowNext(Reach')
  PROVE  GapInv'
<1>1. ASSUME NEW b \in Nat, b < stSeq', Wanted(b)
      PROVE  b \in lost \/ Got(b)'
  <2>1. b \in lost \/ Got(b)
    BY <1>1 DEF GapInv
  <2> QED BY <2>1, GotStays
<1>2. lost \subseteq lost'
  BY DEF Next, PumpStep, ClientStep, Terminated, Produce, SessionExit, Reap, OnAttachLookup, OnAttachRead1,
         OnAttachRead2, OnAttachReply, PumpReplay, PumpSend, PumpWait, PumpGone, Break, Receive, StreamRead,
         FollowerNote, FollowerEOF, FollowerReconnect, daemonVars, vars
<1>3. ASSUME NEW i \in 1 .. Len(net'), net'[i].type = "output"
      PROVE  FlowNext(net'[i].seq + Len(net'[i].data))
  <2>1. i \in 1 .. Len(net) /\ net'[i] = net[i] /\ Output(i)
    BY <1>3 DEF SameOutput, Output
  <2>2. Flow(End(i)) /\ End(i) \in Nat
    BY <2>1, OutputType DEF GapInv
  <2>3. FlowNext(End(i))
    BY <2>2
  <2> QED BY <2>1, <2>3 DEF End
<1> QED BY <1>1, <1>2, <1>3 DEF GapInv, Flow, FlowNext, Output, End

\* Every step keeps account of the bytes.
LEMMA GapNext ==
  ASSUME TypeOK, TypeOK', StageInv, NetInv, NoteInv, GapInv, [Next]_vars
  PROVE  GapInv'
<1> USE DEF sessionVars, daemonVars, streamVars
<1>0. net \in Seq(Frame) /\ Reach \in Nat /\ (Pumping => Flow(Reach))
  BY ReachType DEF TypeOK, GapInv
<1>1. CASE Produce \/ SessionExit \/ Reap \/ StreamRead \/ FollowerNote \/ FollowerEOF \/ UNCHANGED vars
  <2>1. UNCHANGED <<net, stSeq, up, spc, sending, lastSeen, lost>>
    BY <1>1 DEF Produce, SessionExit, Reap, StreamRead, FollowerNote, FollowerEOF, vars
  <2>2. SameOutput
    BY <1>0, <2>1, KeptOutput
  <2>3. \A to \in Nat : Flow(to) => FlowNext(to)
    BY <2>1, FlowStays
  <2>4. Pumping' = Pumping /\ Reach' = Reach
    BY <2>1 DEF Pumping, Reach
  <2> QED BY <1>0, <2>1, <2>2, <2>3, <2>4, GapSame
<1>2. CASE OnAttachLookup \/ OnAttachRead1 \/ OnAttachRead2 \/ PumpGone
  <2>1. UNCHANGED <<stSeq, lost>> /\ ~Pumping'
    BY <1>2 DEF OnAttachLookup, OnAttachRead1, OnAttachRead2, PumpGone, Pumping
  <2>2. net' = net \/ \E f \in Frame : Send(f) /\ f.type # "output"
    BY <1>2, FrameKinds DEF OnAttachLookup, OnAttachRead1, OnAttachRead2, PumpGone
  <2>3. SameOutput
    BY <1>0, <2>2, KeptOutput
  <2>4. net' = net \/ \E f \in Frame : Send(f)
    BY <2>2
  <2>5. \A to \in Nat : Flow(to) => FlowNext(to)
    BY <2>1, <2>4, FlowStays
  <2> QED BY <2>1, <2>3, <2>5, GapSame
<1>3. CASE OnAttachReply
  <2>1. spc = "reply" /\ spc' = "replay" /\ UNCHANGED <<up, stSeq, since, lost>> /\ lastSeen' = since
    BY <1>3 DEF OnAttachReply
  <2>2. net' = net \/ \E f \in Frame : Send(f) /\ f.type # "output"
    BY <1>3, Replied
  <2>3. SameOutput
    BY <1>0, <2>2, KeptOutput
  <2>4. net' = net \/ \E f \in Frame : Send(f)
    BY <2>2
  <2>5. \A to \in Nat : Flow(to) => FlowNext(to)
    BY <2>1, <2>4, FlowStays
  <2>6. Pumping' => FlowNext(Reach')
    <3>1. up => stSeq = since
      BY <2>1 DEF StageInv, Early
    <3>2. Pumping' => Reach' = stSeq' /\ stSeq' \in Nat
      BY <2>1, <3>1 DEF Pumping, Reach, TypeOK
    <3> QED BY <3>2 DEF FlowNext
  <2> QED BY <2>1, <2>3, <2>5, <2>6, GapSame
<1>4. CASE PumpReplay
  <2>1. /\ up /\ spc = "replay" /\ UNCHANGED <<up, stSeq, lastSeen, ringEnd>>
        /\ \/ /\ lastSeen < ringEnd /\ sending' = <<ReplayStart(lastSeen), ringEnd>> /\ spc' = "send"
              /\ lost' = lost \cup (lastSeen .. ReplayStart(lastSeen) - 1)
           \/ spc' = "wait" /\ lost' = lost
    BY <1>4 DEF PumpReplay
  <2>2. net' = net \/ \E f \in Frame : Send(f) /\ f.type # "output"
    BY <1>4, FrameKinds DEF PumpReplay
  <2>3. SameOutput
    BY <1>0, <2>2, KeptOutput
  <2>4. net' = net \/ \E f \in Frame : Send(f)
    BY <2>2
  <2>5. \A to \in Nat : Flow(to) => FlowNext(to)
    BY <2>1, <2>4, FlowStays
  <2>6. Reach = lastSeen /\ Pumping /\ lastSeen \in Nat /\ FlowNext(lastSeen)
    BY <1>0, <2>1, <2>5 DEF Reach, Pumping, TypeOK
  <2>7. ReplayStart(lastSeen) \in Nat
    BY <1>0, Window, BoundsAssumption DEF ReplayStart, TypeOK
  <2>8. FlowNext(Reach')
    <3>1. CASE spc' = "wait"
      BY <2>1, <2>6, <3>1 DEF Reach
    <3>2. CASE spc' = "send"
      <4>1. Reach' = ReplayStart(lastSeen)
        BY <2>1, <3>2 DEF Reach
      <4>2. \A b \in Nat : b < ReplayStart(lastSeen) => b < lastSeen \/ b \in lost'
        BY <2>1, <2>6, <2>7, <3>2
      <4> QED BY <2>6, <4>1, <4>2 DEF FlowNext
    <3> QED BY <2>1, <3>1, <3>2
  <2> QED BY <2>1, <2>3, <2>5, <2>8, GapSame
<1>5. CASE PumpWait
  <2>1. /\ up /\ spc = "wait" /\ UNCHANGED <<up, stSeq, lastSeen, ringEnd, lost>> /\ spc' \in {"off", "replay"}
    BY <1>5 DEF PumpWait
  <2>2. net' = net \/ \E f \in Frame : Send(f) /\ f.type # "output"
    BY <1>5, FrameKinds DEF PumpWait
  <2>3. SameOutput
    BY <1>0, <2>2, KeptOutput
  <2>4. net' = net \/ \E f \in Frame : Send(f)
    BY <2>2
  <2>5. \A to \in Nat : Flow(to) => FlowNext(to)
    BY <2>1, <2>4, FlowStays
  <2>6. Pumping /\ (Pumping' => Reach' = Reach)
    BY <2>1 DEF Pumping, Reach
  <2> QED BY <1>0, <2>1, <2>3, <2>5, <2>6, GapSame
<1>6. CASE PumpSend
  <2> PICK f \in Frame : /\ Send(f) /\ f.type = "output" /\ f.seq = sending[1]
                         /\ f.data = Interval(sending[1], To) /\ Len(f.data) = To - sending[1]
    BY <1>6, Sent
  <2>1. /\ up /\ UNCHANGED <<up, stSeq, ringEnd, lost>> /\ spc = "send"
        /\ To \in Nat /\ sending[1] \in Nat /\ sending[1] < To
        /\ Reach = sending[1] /\ Reach' = To
    BY <1>6, Sent
  <2>2. /\ \A i \in 1 .. Len(net') : (i \in 1 .. Len(net) /\ net'[i] = net[i]) \/ (i = Len(net) + 1 /\ net'[i] = f)
        /\ Len(net) + 1 \in 1 .. Len(net') /\ net'[Len(net) + 1] = f
    BY <1>0, Grown
  <2>3. \A to \in Nat : Flow(to) => FlowNext(to)
    BY <2>1, FlowStays
  <2>4. Pumping /\ FlowNext(sending[1])
    BY <1>0, <2>1, <2>3 DEF Pumping
  <2>5. f.seq + Len(f.data) = To
    BY <2>1
  <2>6. ASSUME NEW b \in Nat, sending[1] <= b, b < To
        PROVE  InNet(b)'
    <3> DEFINE k == Len(net) + 1
    <3>1. k \in 1 .. Len(net') /\ net'[k].type = "output" /\ net'[k].seq <= b /\ b < net'[k].seq + Len(net'[k].data)
      BY <2>2, <2>5, <2>6
    <3> HIDE DEF k
    <3> QED BY <3>1 DEF InNet, Output, End
  <2>7. FlowNext(To)
    <3> SUFFICES ASSUME NEW b \in Nat, stSeq' <= b, b < To, Wanted(b) PROVE b \in lost' \/ InNet(b)'
      BY DEF FlowNext
    <3>1. CASE b < sending[1]
      BY <2>4, <3>1 DEF FlowNext
    <3>2. CASE sending[1] <= b
      BY <2>6, <3>2
    <3> QED BY <2>1, <3>1, <3>2
  <2>8. ASSUME NEW i \in 1 .. Len(net'), net'[i].type = "output"
        PROVE  FlowNext(net'[i].seq + Len(net'[i].data))
    <3>1. CASE i \in 1 .. Len(net) /\ net'[i] = net[i]
      <4>1. Output(i)
        BY <2>8, <3>1 DEF Output
      <4>2. Flow(End(i)) /\ End(i) \in Nat
        BY <3>1, <4>1, OutputType DEF GapInv
      <4>3. FlowNext(End(i))
        BY <2>3, <4>2
      <4> QED BY <3>1, <4>3 DEF End
    <3>2. CASE net'[i] = f
      BY <2>5, <2>7, <3>2
    <3> QED BY <2>2, <3>1, <3>2
  <2>9. ASSUME NEW b \in Nat, b < stSeq', Wanted(b)
        PROVE  b \in lost' \/ Got(b)'
    <3>1. b \in lost \/ Got(b)
      BY <2>1, <2>9 DEF GapInv
    <3> QED BY <2>1, <3>1, GotStays
  <2> QED BY <2>1, <2>7, <2>8, <2>9 DEF GapInv, Flow, FlowNext, Output, End
<1>7. CASE Break
  <2>1. net' = <<>> /\ ~up' /\ UNCHANGED <<lost, stSeq>>
    BY <1>7 DEF Break
  <2>2. Len(<<>>) = 0 /\ 1 .. 0 = {}
    OBVIOUS
  <2>3. ASSUME NEW b \in Nat, b < stSeq', Wanted(b)
        PROVE  b \in lost' \/ Got(b)'
    <3>1. b \in lost \/ Got(b)
      BY <2>1, <2>3 DEF GapInv
    <3> QED BY <2>1, <3>1, GotStays
  <2> QED BY <2>1, <2>2, <2>3 DEF GapInv, Pumping
<1>8. CASE Receive
  <2>1. \A to \in Nat : Flow(to) => FlowNext(to)
    BY <1>8, FlowShrinks
  <2>2. UNCHANGED <<up, spc, sending, lastSeen, lost>> /\ net # <<>> /\ net' = Tail(net)
    BY <1>8 DEF Receive
  <2>3. 1 \in 1 .. Len(net) /\ \A i \in 1 .. Len(net') : i + 1 \in 1 .. Len(net) /\ net'[i] = net[i + 1]
    BY <1>0, <2>2, Shrunk
  <2>4. ASSUME NEW i \in 1 .. Len(net'), net'[i].type = "output"
        PROVE  FlowNext(net'[i].seq + Len(net'[i].data))
    <3> DEFINE k == i + 1
    <3>1. k \in 1 .. Len(net) /\ net'[i] = net[k]
      BY <2>3
    <3> HIDE DEF k
    <3>2. Output(k)
      BY <2>4, <3>1 DEF Output
    <3>3. Flow(End(k)) /\ End(k) \in Nat
      BY <3>1, <3>2, OutputType DEF GapInv
    <3>4. FlowNext(End(k))
      BY <2>1, <3>3
    <3> QED BY <3>1, <3>4 DEF End
  <2>5. Pumping' => FlowNext(Reach')
    <3>1. Pumping' = Pumping /\ Reach' = Reach
      BY <2>2 DEF Pumping, Reach
    <3> QED BY <1>0, <2>1, <3>1
  <2>6. ASSUME NEW b \in Nat, b < stSeq', Wanted(b)
        PROVE  b \in lost' \/ Got(b)'
    <3>1. CASE b < stSeq
      <4>1. b \in lost \/ Got(b)
        BY <2>6, <3>1 DEF GapInv
      <4> QED BY <2>2, <4>1, GotStays
    <3>2. CASE ~(b < stSeq)
      <4>1. /\ Output(1) /\ stSeq' = End(1) /\ stBuf' = stBuf \o net[1].data
            /\ net[1].data \in Seq(Positions) /\ net[1].seq \in Nat /\ Len(net[1].data) \in Nat
            /\ \A i \in 1 .. Len(net[1].data) : net[1].data[i] = net[1].seq + i - 1
        BY <1>8, <2>6, <3>2, Received
      <4>2. stSeq <= b /\ b < End(1) /\ End(1) \in Nat
        BY <2>3, <2>6, <3>2, <4>1, OutputType DEF TypeOK
      <4>3. b \in lost \/ InNet(b)
        BY <2>3, <2>6, <4>1, <4>2 DEF GapInv, Flow
      <4>4. ASSUME InNet(b) PROVE Got(b)'
        <5> PICK i \in 1 .. Len(net) : Output(i) /\ net[i].seq <= b /\ b < End(i)
          BY <4>4 DEF InNet
        <5>1. i = 1
          <6>1. ASSUME i > 1 PROVE FALSE
            <7>1. End(1) <= net[i].seq /\ net[i].seq \in Nat
              BY <2>3, <4>1, <6>1, OutputType DEF NetInv
            <7> QED BY <4>2, <7>1
          <6> QED BY <6>1
        <5> DEFINE a == net[1].seq
                   d == net[1].data
                   k == b - a + 1
        <5>2. a <= b /\ b < a + Len(d) /\ a \in Nat /\ Len(d) \in Nat /\ \A j \in 1 .. Len(d) : d[j] = a + j - 1
          BY <4>1, <5>1 DEF End
        <5> HIDE DEF a, d
        <5>3. k \in 1 .. Len(d) /\ a + k - 1 = b
          BY <5>2
        <5>4. d[k] = b
          BY <5>2, <5>3
        <5> HIDE DEF k
        <5>5. d \in Seq(Positions) /\ stBuf' = stBuf \o d /\ stBuf \in Seq(Positions)
          BY <4>1 DEF d, TypeOK
        <5>6. \A j \in 1 .. Len(d) : Len(stBuf) + j \in 1 .. Len(stBuf') /\ stBuf'[Len(stBuf) + j] = d[j]
          BY <5>5, Joined
        <5>7. Contains(stBuf', b)
          BY <5>3, <5>4, <5>6, Has
        <5> QED BY <5>7 DEF Got
      <4> QED BY <2>2, <4>3, <4>4
    <3> QED BY <3>1, <3>2
  <2> QED BY <2>4, <2>5, <2>6 DEF GapInv, Flow, FlowNext, Output, End
<1>9. CASE FollowerReconnect
  <2>1. net' = <<>> /\ spc' = "attach" /\ lost' = lost /\ stSeq' = lastSeq
    BY <1>9 DEF FollowerReconnect
  <2>2. Len(<<>>) = 0 /\ 1 .. 0 = {}
    OBVIOUS
  <2>3. stBuf = <<>> /\ cpc \in {"attaching", "read"}
    BY <1>9 DEF FollowerReconnect, StageInv
  <2>4. lastSeq = stSeq \/ lastSeq = 0
    BY <2>3 DEF NoteInv
  <2>5. ASSUME NEW b \in Nat, b < stSeq', Wanted(b)
        PROVE  b \in lost' \/ Got(b)'
    <3>1. b < stSeq
      BY <2>1, <2>4, <2>5
    <3>2. b \in lost \/ Got(b)
      BY <2>5, <3>1 DEF GapInv
    <3> QED BY <2>1, <3>2, GotStays
  <2> QED BY <2>1, <2>2, <2>5 DEF GapInv, Pumping
<1> QED
  BY <1>1, <1>2, <1>3, <1>4, <1>5, <1>6, <1>7, <1>8, <1>9 DEF Next, PumpStep, ClientStep, Terminated

-----------------------------------------------------------------------------
(* The end of the stream. *)

\* A step that sends no EXIT.
LEMMA ExitSame ==
  ASSUME TypeOK, StageInv, NetInv, ExitInv, [Next]_vars, UNCHANGED <<ringEnd, stSeq>>, lost \subseteq lost', exited => exited',
         net' = net \/ net' = <<>> \/ \E f \in Frame : Send(f) /\ f.type # "exit" /\ spc # "off",
         spc = "off" => spc' = "off", stEnd' = "exit" => stEnd = "exit"
  PROVE  ExitInv'
<1>1. ASSUME NEW i \in 1 .. Len(net'), net'[i].type = "exit"
      PROVE  i = Len(net') /\ spc' = "off" /\ exited' /\ FlowNext(ringEnd')
  <2>1. CASE net' = net
    <3>1. i = Len(net') /\ spc = "off" /\ exited /\ Flow(ringEnd)
      BY <1>1, <2>1 DEF ExitInv
    <3>2. ringEnd \in Nat
      BY BoundsAssumption DEF TypeOK
    <3>3. FlowNext(ringEnd)
      BY <2>1, <3>1, <3>2, FlowStays
    <3> QED BY <3>1, <3>3
  <2>2. CASE net' = <<>>
    <3>1. Len(<<>>) = 0 /\ 1 .. 0 = {}
      OBVIOUS
    <3> QED BY <1>1, <2>2, <3>1
  <2>3. CASE \E f \in Frame : Send(f) /\ f.type # "exit" /\ spc # "off"
    <3> PICK f \in Frame : Send(f) /\ f.type # "exit" /\ spc # "off"
      BY <2>3
    <3>1. (i \in 1 .. Len(net) /\ net'[i] = net[i]) \/ (i = Len(net) + 1 /\ net'[i] = f)
      BY <1>1, Grown DEF TypeOK
    <3>2. i \in 1 .. Len(net) /\ net[i].type = "exit"
      BY <1>1, <3>1
    <3> QED BY <3>2 DEF ExitInv
  <2> QED BY <2>1, <2>2, <2>3
<1>2. ASSUME stEnd' = "exit"
      PROVE  exited' /\ \A b \in Nat : b < ringEnd' /\ Wanted(b) => b \in lost' \/ Got(b)'
  <2>1. exited /\ \A b \in Nat : b < ringEnd /\ Wanted(b) => b \in lost \/ Got(b)
    BY <1>2 DEF ExitInv
  <2>2. ASSUME NEW b \in Nat, b < ringEnd, Wanted(b)
        PROVE  b \in lost' \/ Got(b)'
    <3>1. b \in lost \/ Got(b)
      BY <2>1, <2>2
    <3> QED BY <3>1, GotStays
  <2> QED BY <2>1, <2>2
<1> QED BY <1>1, <1>2 DEF ExitInv, Flow, FlowNext

\* Every step keeps the end at the end.
LEMMA ExitNext ==
  ASSUME TypeOK, StageInv, NetInv, NoteInv, GapInv, ExitInv, [Next]_vars
  PROVE  ExitInv'
<1> USE DEF sessionVars, daemonVars, streamVars
<1>0. net \in Seq(Frame) /\ ringEnd \in Nat /\ Len(net) \in Nat
  BY BoundsAssumption, LenProperties DEF TypeOK
<1>1. CASE Produce
  <2>1. ~exited /\ UNCHANGED <<net, stEnd>>
    BY <1>1 DEF Produce
  <2> QED BY <2>1 DEF ExitInv
<1>2. CASE SessionExit \/ Reap \/ StreamRead \/ FollowerNote \/ FollowerEOF \/ UNCHANGED vars
  <2>1. UNCHANGED <<net, stSeq, spc, stEnd, lost, ringEnd>> /\ (exited => exited')
    BY <1>2 DEF SessionExit, Reap, StreamRead, FollowerNote, FollowerEOF, vars
  <2> QED BY <2>1, ExitSame
<1>3. CASE OnAttachLookup \/ OnAttachRead1 \/ OnAttachRead2 \/ PumpGone \/ Break
  <2>1. /\ UNCHANGED <<stSeq, ringEnd, lost, exited>> /\ (spc = "off" => spc' = "off")
        /\ stEnd' = "exit" => stEnd = "exit"
    BY <1>3 DEF OnAttachLookup, OnAttachRead1, OnAttachRead2, PumpGone, Break
  <2>2. net' = net \/ net' = <<>> \/ \E f \in Frame : Send(f) /\ f.type # "exit" /\ spc # "off"
    BY <1>3, FrameKinds DEF OnAttachLookup, OnAttachRead1, OnAttachRead2, PumpGone, Break
  <2> QED BY <2>1, <2>2, ExitSame
<1>4. CASE OnAttachReply
  <2>1. UNCHANGED <<stSeq, ringEnd, lost, exited, stEnd>> /\ spc = "reply"
    BY <1>4 DEF OnAttachReply
  <2>2. net' = net \/ net' = <<>> \/ \E f \in Frame : Send(f) /\ f.type # "exit" /\ spc # "off"
    BY <1>4, <2>1, Replied
  <2> QED BY <2>1, <2>2, ExitSame
<1>5. CASE PumpReplay
  <2>1. UNCHANGED <<stSeq, ringEnd, exited, stEnd>> /\ spc = "replay" /\ lost \subseteq lost'
    BY <1>5 DEF PumpReplay
  <2>2. net' = net \/ net' = <<>> \/ \E f \in Frame : Send(f) /\ f.type # "exit" /\ spc # "off"
    BY <1>5, FrameKinds DEF PumpReplay
  <2> QED BY <2>1, <2>2, ExitSame
<1>6. CASE PumpSend
  <2>1. UNCHANGED <<stSeq, ringEnd, exited, stEnd, lost>> /\ spc = "send"
    BY <1>6, Sent
  <2>2. \E f \in Frame : Send(f) /\ f.type = "output"
    BY <1>6, Sent
  <2>3. \E f \in Frame : Send(f) /\ f.type # "exit" /\ spc # "off"
    BY <2>1, <2>2
  <2> QED BY <2>1, <2>3, ExitSame
<1>7. CASE PumpWait
  <2>0. UNCHANGED <<stSeq, ringEnd, exited, stEnd, lost>> /\ spc = "wait" /\ up
    BY <1>7 DEF PumpWait
  <2>1. CASE exited /\ ringEnd = lastSeen
    <3> DEFINE f == [type |-> "exit"]
    <3>1. Send(f) /\ f \in Frame /\ spc' = "off"
      BY <1>7, <2>1, FrameKinds DEF PumpWait
    <3> HIDE DEF f
    <3>2. /\ Len(net') = Len(net) + 1
          /\ \A i \in 1 .. Len(net') : (i \in 1 .. Len(net) /\ net'[i] = net[i]) \/ (i = Len(net) + 1 /\ net'[i] = f)
      BY <1>0, <3>1, Grown
    <3>3. Flow(ringEnd)
      BY <2>0, <2>1 DEF GapInv, Pumping, Reach
    <3>4. FlowNext(ringEnd)
      BY <1>0, <2>0, <3>1, <3>3, FlowStays
    <3>5. ASSUME NEW i \in 1 .. Len(net'), net'[i].type = "exit"
          PROVE  i = Len(net')
      <4>1. ~(i \in 1 .. Len(net) /\ net'[i] = net[i])
        BY <2>0, <3>5 DEF ExitInv
      <4> QED BY <3>2, <4>1
    <3>6. stEnd # "exit"
      BY <2>0 DEF StageInv
    <3> QED BY <2>0, <2>1, <3>1, <3>4, <3>5, <3>6 DEF ExitInv, Flow, FlowNext
  <2>2. CASE ~(exited /\ ringEnd = lastSeen)
    <3>1. net' = net
      BY <1>7, <2>2 DEF PumpWait
    <3> QED BY <2>0, <3>1, ExitSame
  <2> QED BY <2>1, <2>2
<1>8. CASE Receive
  <2>1. UNCHANGED <<spc, exited, ringEnd, lost>> /\ net # <<>> /\ net' = Tail(net) /\ stEnd = "open"
    BY <1>8, Received DEF Receive
  <2>2. /\ 1 \in 1 .. Len(net) /\ Len(net') = Len(net) - 1
        /\ \A i \in 1 .. Len(net') : i + 1 \in 1 .. Len(net) /\ net'[i] = net[i + 1]
    BY <1>0, <2>1, Shrunk
  <2>3. ASSUME NEW i \in 1 .. Len(net'), net'[i].type = "exit"
        PROVE  i = Len(net') /\ spc' = "off" /\ exited' /\ FlowNext(ringEnd')
    <3>1. i + 1 \in 1 .. Len(net) /\ net[i + 1].type = "exit"
      BY <2>2, <2>3
    <3>2. i + 1 = Len(net) /\ spc = "off" /\ exited /\ Flow(ringEnd)
      BY <3>1 DEF ExitInv
    <3>3. FlowNext(ringEnd)
      BY <1>0, <1>8, <3>2, FlowShrinks
    <3>4. i = Len(net')
      BY <1>0, <2>2, <3>2
    <3> QED BY <2>1, <3>2, <3>3, <3>4
  <2>4. ASSUME stEnd' = "exit"
        PROVE  exited' /\ \A b \in Nat : b < ringEnd' /\ Wanted(b) => b \in lost' \/ Got(b)'
    <3>1. net[1].type = "exit" /\ stSeq' = stSeq
      BY <1>8, <2>1, <2>4, Received
    <3>2. Len(net) = 1 /\ exited /\ Flow(ringEnd)
      BY <2>2, <3>1 DEF ExitInv
    <3>3. ASSUME NEW b \in Nat, b < ringEnd, Wanted(b)
          PROVE  b \in lost \/ Got(b)
      <4>1. CASE b < stSeq
        BY <3>3, <4>1 DEF GapInv
      <4>2. CASE ~(b < stSeq)
        <5>1. stSeq <= b
          BY <4>2 DEF TypeOK
        <5>2. ~InNet(b)
          BY <3>1, <3>2 DEF InNet, Output
        <5> QED BY <3>2, <3>3, <5>1, <5>2 DEF Flow
      <4> QED BY <4>1, <4>2
    <3>4. ASSUME NEW b \in Nat, b < ringEnd', Wanted(b)
          PROVE  b \in lost' \/ Got(b)'
      <4>1. b \in lost \/ Got(b)
        BY <2>1, <3>3, <3>4
      <4> QED BY <2>1, <4>1, GotStays
    <3> QED BY <2>1, <3>2, <3>4
  <2> QED BY <2>3, <2>4 DEF ExitInv, Flow, FlowNext
<1>9. CASE FollowerReconnect
  <2>1. net' = <<>> /\ stEnd' = "open"
    BY <1>9 DEF FollowerReconnect
  <2>2. Len(<<>>) = 0 /\ 1 .. 0 = {}
    OBVIOUS
  <2> QED BY <2>1, <2>2 DEF ExitInv
<1> QED
  BY <1>1, <1>2, <1>3, <1>4, <1>5, <1>6, <1>7, <1>8, <1>9 DEF Next, PumpStep, ClientStep, Terminated

-----------------------------------------------------------------------------
(* What the client is told. *)

\* The window only moves on.
LEMMA OldestGrows ==
  ASSUME TypeOK, TypeOK', ringEnd' >= ringEnd
  PROVE  Oldest \in Nat /\ Oldest' \in Nat /\ Oldest <= Oldest'
<1>1. ringEnd \in Nat /\ ringEnd' \in Nat
  BY BoundsAssumption DEF TypeOK
<1> DEFINE W(n) == n - (IF n < Cap THEN n ELSE Cap)
<1>2. \A m, n \in Nat : m <= n => W(m) \in Nat /\ W(n) \in Nat /\ W(m) <= W(n)
  BY CapAssumption
<1>3. Oldest = W(ringEnd) /\ Oldest' = W(ringEnd')
  BY Zenon DEF Oldest, Filled
<1>4. ringEnd <= ringEnd'
  BY <1>1
<1> HIDE DEF W
<1> QED BY <1>1, <1>2, <1>3, <1>4

\* Every step but the pump's replay keeps a byte ahead.
LEMMA AheadStays ==
  ASSUME TypeOK, StageInv, NetInv, ReadInv, [Next]_vars, ~PumpReplay, NEW b \in Nat, Ahead(b)
  PROVE  Ahead(b)'
<1> USE DEF sessionVars, daemonVars, streamVars
<1>0. /\ net \in Seq(Frame) /\ stBuf \in Seq(Positions) /\ consumed \in Seq(Positions)
      /\ Len(stBuf) \in Nat /\ Len(consumed) \in Nat
  BY Numbers DEF TypeOK
<1>1. CASE Produce \/ SessionExit \/ Reap \/ FollowerNote \/ FollowerEOF \/ OnAttachLookup \/ OnAttachRead1
           \/ OnAttachRead2 \/ OnAttachReply \/ PumpWait \/ PumpGone \/ Break \/ UNCHANGED vars
  <2>1. UNCHANGED <<consumed, stBuf, sending>> /\ (spc' = "send" => spc = "send")
    BY <1>1 DEF Produce, SessionExit, Reap, FollowerNote, FollowerEOF, OnAttachLookup, OnAttachRead1,
                OnAttachRead2, OnAttachReply, PumpWait, PumpGone, Break, vars
  <2>2. net' = net \/ net' = <<>> \/ \E f \in Frame : Send(f) /\ f.type # "output"
    <3>1. CASE OnAttachReply
      BY <3>1, Replied
    <3>2. CASE ~OnAttachReply
      BY <1>1, <3>2, FrameKinds
         DEF Produce, SessionExit, Reap, FollowerNote, FollowerEOF, OnAttachLookup, OnAttachRead1,
             OnAttachRead2, PumpWait, PumpGone, Break, vars
    <3> QED BY <3>1, <3>2
  <2>3. SameOutput
    BY <1>0, <2>2, KeptOutput
  <2>4. \A i \in 1 .. Len(net') : net'[i].type = "output" => b < net'[i].seq
    BY <2>3 DEF SameOutput, Ahead, Output
  <2> QED BY <2>1, <2>4 DEF Ahead, Output
<1>2. CASE PumpSend
  <2> PICK f \in Frame : Send(f) /\ f.type = "output" /\ f.seq = sending[1]
    BY <1>2, Sent
  <2>1. /\ UNCHANGED <<stBuf, consumed>> /\ spc = "send" /\ To \in Nat /\ sending[1] \in Nat /\ sending[1] < To
        /\ spc' = "send" => sending'[1] = To
    BY <1>2, Sent
  <2>2. \A i \in 1 .. Len(net') : (i \in 1 .. Len(net) /\ net'[i] = net[i]) \/ (i = Len(net) + 1 /\ net'[i] = f)
    BY <1>0, Grown
  <2>3. b < sending[1] /\ b < To
    BY <2>1 DEF Ahead
  <2>4. \A i \in 1 .. Len(net') : net'[i].type = "output" => b < net'[i].seq
    BY <2>2, <2>3 DEF Ahead, Output
  <2> QED BY <2>1, <2>3, <2>4 DEF Ahead, Output
<1>3. CASE Receive
  <2>1. UNCHANGED <<consumed, spc, sending>> /\ net # <<>> /\ net' = Tail(net)
    BY <1>3 DEF Receive
  <2>2. /\ 1 \in 1 .. Len(net)
        /\ \A i \in 1 .. Len(net') : i + 1 \in 1 .. Len(net) /\ net'[i] = net[i + 1]
    BY <1>0, <2>1, Shrunk
  <2>3. \A i \in 1 .. Len(net') : net'[i].type = "output" => b < net'[i].seq
    BY <2>2 DEF Ahead, Output
  <2>4. \A i \in 1 .. Len(stBuf') : b < stBuf'[i]
    <3>1. CASE Output(1)
      <4> DEFINE a == net[1].seq
                 d == net[1].data
      <4>1. /\ a \in Nat /\ d \in Seq(Positions) /\ Len(d) \in Nat
            /\ \A i \in 1 .. Len(d) : d[i] = a + i - 1
            /\ stBuf' = stBuf \o d
        BY <1>3, <3>1, Received
      <4>2. b < a
        BY <2>2, <3>1 DEF Ahead
      <4> HIDE DEF a, d
      <4>3. \A i \in 1 .. Len(d) : b < d[i]
        BY <4>1, <4>2
      <4>4. \A i \in 1 .. Len(stBuf') : \/ i \in 1 .. Len(stBuf) /\ stBuf'[i] = stBuf[i]
                                        \/ i - Len(stBuf) \in 1 .. Len(d) /\ i > Len(stBuf) /\ stBuf'[i] = d[i - Len(stBuf)]
        BY <1>0, <4>1, Joined
      <4>5. \A i \in 1 .. Len(stBuf) : b < stBuf[i]
        BY DEF Ahead
      <4> QED BY <4>3, <4>4, <4>5
    <3>2. CASE ~Output(1)
      <4>1. stBuf' = stBuf
        BY <1>3, <3>2, Received
      <4> QED BY <4>1 DEF Ahead
    <3> QED BY <3>1, <3>2
  <2> QED BY <2>1, <2>3, <2>4 DEF Ahead, Output
<1>4. CASE StreamRead
  <2>1. PICK n \in 1 .. Len(stBuf), u, v \in Seq(Positions) :
           /\ consumed' = consumed \o u /\ stBuf' = v
           /\ Len(u) = n /\ Len(v) = Len(stBuf) - n
           /\ \A i \in 1 .. n : i \in 1 .. Len(stBuf) /\ u[i] = stBuf[i]
           /\ \A i \in 1 .. Len(stBuf) - n : n + i \in 1 .. Len(stBuf) /\ v[i] = stBuf[n + i]
    BY <1>0, <1>4, ReadCuts
  <2>2. consumed' = consumed \o u /\ stBuf' = v
    BY <2>1
  <2>3. \A i \in 1 .. Len(consumed') : \/ i \in 1 .. Len(consumed) /\ consumed'[i] = consumed[i]
                                       \/ i - Len(consumed) \in 1 .. Len(u) /\ i > Len(consumed) /\ consumed'[i] = u[i - Len(consumed)]
    BY <1>0, <2>2, Joined
  <2>4. (\A i \in 1 .. Len(u) : b < u[i]) /\ (\A i \in 1 .. Len(v) : b < v[i]) /\ \A i \in 1 .. Len(consumed) : b < consumed[i]
    BY <2>1 DEF Ahead
  <2>5. \A i \in 1 .. Len(consumed') : b < consumed'[i]
    BY <2>3, <2>4
  <2>6. UNCHANGED <<net, spc, sending>>
    BY <1>4 DEF StreamRead
  <2> QED BY <2>2, <2>4, <2>5, <2>6 DEF Ahead, Output
<1>5. CASE FollowerReconnect
  <2>1. consumed' = consumed /\ stBuf' = <<>> /\ net' = <<>> /\ spc' = "attach"
    BY <1>5 DEF FollowerReconnect
  <2>2. Len(<<>>) = 0 /\ 1 .. 0 = {}
    OBVIOUS
  <2> QED BY <2>1, <2>2 DEF Ahead
<1> QED
  BY <1>1, <1>2, <1>3, <1>4, <1>5 DEF Next, PumpStep, ClientStep, Terminated

\* Every step keeps what the client was told of.
LEMMA ToldNext ==
  ASSUME TypeOK, TypeOK', StageInv, NetInv, ReadInv, ToldInv, [Next]_vars
  PROVE  ToldInv'
<1> USE DEF sessionVars, daemonVars, streamVars
<1>1. CASE PumpReplay
  <2> DEFINE r == ReplayStart(lastSeen)
  <2>1. /\ up /\ spc = "replay" /\ UNCHANGED <<up, stSeq, lastSeen, ringEnd, stBuf, consumed>>
        /\ \/ /\ lastSeen < ringEnd /\ sending' = <<r, ringEnd>> /\ spc' = "send"
              /\ lost' = lost \cup (lastSeen .. r - 1)
           \/ spc' = "wait" /\ lost' = lost
        /\ told \subseteq told'
        /\ Truncated(lastSeen) /\ lastSeen > 0 => told' = told \cup (lastSeen .. Oldest - 1)
    BY <1>1 DEF PumpReplay
  <2>2. net \in Seq(Frame) /\ lastSeen \in Nat /\ ringEnd \in Nat /\ Oldest \in Nat /\ Oldest' = Oldest
    BY <2>1, Window, BoundsAssumption DEF TypeOK, Oldest, Filled
  <2>3. r \in Nat /\ r >= Oldest /\ (r = Oldest \/ r = lastSeen) /\ (lastSeen < r => Truncated(lastSeen) /\ r = Oldest)
    BY <2>2 DEF ReplayStart, Truncated
  <2> HIDE DEF r
  <2>4. net' = net \/ net' = <<>> \/ \E f \in Frame : Send(f) /\ f.type # "output"
    BY <1>1, FrameKinds DEF PumpReplay
  <2>5. SameOutput
    BY <2>2, <2>4, KeptOutput
  <2>6. spc' = "send" => sending'[1] = r
    BY <2>1
  <2>7. ASSUME NEW b \in Nat, Ahead(b), b < Oldest
        PROVE  Ahead(b)'
    <3>1. b < r
      BY <2>2, <2>3, <2>7
    <3>2. \A i \in 1 .. Len(net') : net'[i].type = "output" => b < net'[i].seq
      BY <2>5, <2>7 DEF SameOutput, Ahead, Output
    <3> QED BY <2>1, <2>6, <2>7, <3>1, <3>2 DEF Ahead, Output
  <2>8. ASSUME NEW b \in lost
        PROVE  b < Oldest /\ (b \in told' \/ Ahead(b)')
    <3>1. b < Oldest /\ (b \in told \/ Ahead(b))
      BY <2>8 DEF ToldInv, Ahead
    <3>2. b \in Nat
      BY BoundsAssumption DEF TypeOK, Positions
    <3> QED BY <2>1, <2>7, <3>1, <3>2
  <2>9. ASSUME NEW b \in lastSeen .. r - 1, lastSeen < ringEnd
        PROVE  b < Oldest /\ (b \in told' \/ Ahead(b)')
    <3>1. b \in Nat /\ lastSeen <= b /\ b < r /\ r = Oldest /\ Truncated(lastSeen)
      BY <2>2, <2>3
    <3>2. CASE lastSeen > 0
      BY <2>1, <2>2, <3>1, <3>2
    <3>3. CASE lastSeen = 0
      <4>0. Pumping /\ Reach = 0
        BY <2>1, <3>3 DEF Pumping, Reach
      <4>1. stSeq = 0
        BY <4>0 DEF NetInv, TypeOK
      <4>2. ASSUME NEW i \in 1 .. Len(net), Output(i) PROVE FALSE
        <5>1. End(i) <= 0 /\ Len(net[i].data) > 0
          BY <4>0, <4>2 DEF NetInv
        <5>2. net[i].seq \in Nat /\ Len(net[i].data) \in Nat
          BY <4>2, OutputType
        <5> QED BY <5>1, <5>2 DEF End
      <4>3. ASSUME NEW i \in 1 .. Len(consumed) PROVE FALSE
        <5>1. consumed[i] < 0 /\ consumed[i] \in Nat
          BY <4>1, <4>3, Numbers DEF ReadInv, TypeOK
        <5> QED BY <5>1
      <4>4. ASSUME NEW i \in 1 .. Len(stBuf) PROVE FALSE
        <5>1. stBuf[i] < 0 /\ stBuf[i] \in Nat
          BY <4>1, <4>4, Numbers DEF ReadInv, TypeOK
        <5> QED BY <5>1
      <4>5. Ahead(b)
        BY <2>1, <4>2, <4>3, <4>4 DEF Ahead
      <4> QED BY <2>7, <3>1, <4>5
    <3> QED BY <2>2, <3>2, <3>3
  <2>10. \A b \in lost' : b < Oldest' /\ (b \in told' \/ Ahead(b)')
    BY <2>1, <2>2, <2>8, <2>9
  <2> QED BY <2>10 DEF ToldInv, Ahead
<1>2. CASE ~PumpReplay
  <2>1. lost' = lost
    BY <1>2 DEF Next, PumpStep, ClientStep, Terminated, Produce, SessionExit, Reap, OnAttachLookup, OnAttachRead1,
         OnAttachRead2, OnAttachReply, PumpSend, PumpWait, PumpGone, Break, Receive, StreamRead,
         FollowerNote, FollowerEOF, FollowerReconnect, vars
  <2>2. told \subseteq told'
    BY <1>2 DEF Next, PumpStep, ClientStep, Terminated, Produce, SessionExit, Reap, OnAttachLookup, OnAttachRead1,
         OnAttachRead2, OnAttachReply, PumpSend, PumpWait, PumpGone, Break, Receive, StreamRead,
         FollowerNote, FollowerEOF, FollowerReconnect, vars
  <2>3. ringEnd' >= ringEnd
    <3>1. ringEnd \in Nat
      BY BoundsAssumption DEF TypeOK
    <3>2. CASE Produce
      <4> PICK n \in 1 .. MaxOut - ringEnd : ringEnd' = ringEnd + n
        BY <3>2 DEF Produce
      <4> QED BY <3>1
    <3>3. CASE ~Produce
      <4>1. ringEnd' = ringEnd
        BY <1>2, <3>3 DEF Next, PumpStep, ClientStep, Terminated, SessionExit, Reap, OnAttachLookup, OnAttachRead1,
         OnAttachRead2, OnAttachReply, PumpSend, PumpWait, PumpGone, Break, Receive, StreamRead,
         FollowerNote, FollowerEOF, FollowerReconnect, vars
      <4> QED BY <3>1, <4>1
    <3> QED BY <3>2, <3>3
  <2>4. Oldest \in Nat /\ Oldest' \in Nat /\ Oldest <= Oldest'
    BY <2>3, OldestGrows
  <2>5. ASSUME NEW b \in lost
        PROVE  b < Oldest' /\ (b \in told' \/ Ahead(b)')
    <3>1. b < Oldest /\ (b \in told \/ Ahead(b))
      BY <2>5 DEF ToldInv, Ahead
    <3>2. b \in Nat
      BY BoundsAssumption DEF TypeOK, Positions
    <3>3. b < Oldest'
      BY <2>4, <3>1, <3>2
    <3> QED BY <1>2, <2>2, <3>1, <3>2, <3>3, AheadStays
  <2> QED BY <2>1, <2>5 DEF ToldInv, Ahead
<1> QED BY <1>1, <1>2

-----------------------------------------------------------------------------
(* The theorems. *)

StreamInv == StageInv /\ NoteInv /\ ReadInv /\ NetInv /\ GapInv /\ ExitInv /\ ToldInv

\* The initial states.
LEMMA StreamInit ==
  ASSUME Init
  PROVE  TypeOK /\ StreamInv
<1> USE DEF Init
<1>1. <<>> \in Seq(Frame) /\ <<>> \in Seq(Positions) /\ Len(<<>>) = 0 /\ 1 .. 0 = {}
  OBVIOUS
<1>2. since \in Nat
  BY SinceAssumption
<1>3. TypeOK
  <2>1. 0 \in 0 .. MaxOut /\ 0 \in 0 .. MaxBreaks /\ sending \in (0 .. MaxOut) \X (0 .. MaxOut)
    BY BoundsAssumption
  <2>2. exited \in BOOLEAN /\ reaped \in BOOLEAN /\ up \in BOOLEAN
    BY Zenon
  <2> QED BY <1>1, <1>2, <2>1, <2>2 DEF TypeOK
<1>4. StageInv /\ NoteInv
  BY <1>1 DEF StageInv, NoteInv, Early
<1>5. ReadInv /\ NetInv /\ ToldInv /\ ExitInv
  BY <1>1 DEF ReadInv, NetInv, ToldInv, ExitInv, Pumping
<1>6. GapInv
  <2>1. ASSUME NEW b \in Nat, b < stSeq, Wanted(b) PROVE FALSE
    <3>1. since <= b /\ b < since
      BY <2>1 DEF Wanted
    <3> QED BY <1>2, <3>1
  <2> QED BY <1>1, <2>1 DEF GapInv, Pumping
<1> QED BY <1>3, <1>4, <1>5, <1>6 DEF StreamInv

\* The inductive invariant of the attach stream, for every ring capacity, chunk
\* size, socket capacity and number of lost connections.
THEOREM StreamInvariant == Spec => [](TypeOK /\ StreamInv)
<1>1. Init => TypeOK /\ StreamInv
  BY StreamInit
<1>2. TypeOK /\ StreamInv /\ [Next]_vars => (TypeOK /\ StreamInv)'
  <2> SUFFICES ASSUME TypeOK, StreamInv, [Next]_vars PROVE (TypeOK /\ StreamInv)'
    OBVIOUS
  <2>0. StageInv /\ NoteInv /\ ReadInv /\ NetInv /\ GapInv /\ ExitInv /\ ToldInv
    BY DEF StreamInv
  <2>1. TypeOK'
    BY <2>0, TypeNext
  <2>2. StageInv' /\ NoteInv'
    BY <2>0, StageNext, NoteNext
  <2>3. ReadInv' /\ NetInv'
    BY <2>0, <2>1, ReadNext, NetNext
  <2>4. GapInv' /\ ExitInv' /\ ToldInv'
    BY <2>0, <2>1, GapNext, ExitNext, ToldNext
  <2> QED BY <2>1, <2>2, <2>3, <2>4 DEF StreamInv
<1> QED BY <1>1, <1>2, PTL DEF Spec

\* Every variable keeps its type.
THEOREM StreamTypes == Spec => []TypeOK
BY StreamInvariant, PTL

\* A consumer never reads a byte twice or out of order, whatever connections
\* are lost while its Follower notes how far it is.
THEOREM InOrderAlways == Spec => []InOrder
<1>1. TypeOK /\ StreamInv => InOrder
  <2> SUFFICES ASSUME TypeOK, ReadInv, NEW i \in 1 .. Len(consumed) - 1 PROVE consumed[i] < consumed[i + 1]
    BY DEF StreamInv, InOrder
  <2>1. Len(consumed) \in Nat
    BY Numbers DEF TypeOK
  <2>2. i \in 1 .. Len(consumed) /\ i + 1 \in 1 .. Len(consumed) /\ i < i + 1
    BY <2>1
  <2> QED BY <2>2 DEF ReadInv
<1> QED BY <1>1, StreamInvariant, PTL

\* A byte that the consumer did not get, though it got a later one, had left
\* the ring when the pump went to send it, and the client was told.
THEOREM NoNeedlessGapAlways == Spec => []NoNeedlessGap
<1>1. TypeOK /\ StreamInv => NoNeedlessGap
  <2> SUFFICES ASSUME TypeOK, ReadInv, GapInv, ToldInv PROVE NoNeedlessGap
    BY DEF StreamInv
  <2>0. Len(consumed) \in Nat /\ \A i \in 1 .. Len(consumed) : consumed[i] \in Nat
    BY Numbers DEF TypeOK
  <2>1. ASSUME NEW i \in 1 .. Len(consumed), NEW b \in 0 .. consumed[i] - 1, Wanted(b)
        PROVE  b \in lost \/ \E j \in 1 .. i : consumed[j] = b
    <3>1. b \in Nat /\ b < consumed[i] /\ consumed[i] < stSeq /\ stSeq \in Nat
      BY <2>0 DEF ReadInv, TypeOK
    <3>2. b \in lost \/ Got(b)
      <4>1. b < stSeq
        BY <2>0, <3>1
      <4> QED BY <2>1, <3>1, <4>1 DEF GapInv
    <3>3. ~Contains(stBuf, b)
      <4>1. ASSUME NEW j \in 1 .. Len(stBuf), stBuf[j] = b PROVE FALSE
        <5>1. consumed[i] < b
          BY <4>1 DEF ReadInv
        <5> QED BY <2>0, <3>1, <5>1
      <4> QED BY <4>1, Has
    <3>4. ASSUME NEW j \in 1 .. Len(consumed), consumed[j] = b
          PROVE  j \in 1 .. i
      <4>1. ~(i < j)
        <5>1. ASSUME i < j PROVE FALSE
          <6>1. consumed[i] < b
            BY <3>4, <5>1 DEF ReadInv
          <6> QED BY <2>0, <3>1, <6>1
        <5> QED BY <5>1
      <4> QED BY <2>0, <4>1
    <3>5. Contains(consumed, b) => \E j \in 1 .. i : consumed[j] = b
      BY <3>4, Has
    <3> QED BY <3>2, <3>3, <3>5 DEF Got
  <2>2. ASSUME NEW b \in lost, consumed # <<>>, b > consumed[1]
        PROVE  b \in told
    <3>1. 1 \in 1 .. Len(consumed)
      <4>1. Len(consumed) # 0
        BY <2>2, EmptySeq DEF TypeOK
      <4> QED BY <2>0, <4>1
    <3>2. b \in Nat /\ consumed[1] \in Nat
      BY <2>0, <3>1, BoundsAssumption DEF TypeOK, Positions
    <3>3. ~(b < consumed[1])
      BY <2>2, <3>2
    <3> QED BY <2>2, <3>1, <3>3 DEF ToldInv, Ahead
  <2> QED BY <2>1, <2>2 DEF NoNeedlessGap
<1> QED BY <1>1, StreamInvariant, PTL

\* A consumer at the end of its stream has everything the session wrote but
\* what had left the ring.
THEOREM CompleteAtEOFAlways == Spec => []CompleteAtEOF
<1>1. TypeOK /\ StreamInv => CompleteAtEOF
  <2> SUFFICES ASSUME TypeOK, StageInv, ExitInv, cpc = "eof", NEW b \in 0 .. ringEnd - 1, Wanted(b)
               PROVE  b \in lost \/ Contains(consumed, b)
    BY DEF StreamInv, CompleteAtEOF
  <2>1. b \in Nat /\ b < ringEnd
    BY BoundsAssumption DEF TypeOK
  <2>2. stEnd = "exit" /\ stBuf = <<>>
    BY DEF StageInv
  <2>3. b \in lost \/ Got(b)
    BY <2>1, <2>2 DEF ExitInv
  <2>4. Len(<<>>) = 0 /\ 1 .. 0 = {}
    OBVIOUS
  <2>5. ~Contains(stBuf, b)
    BY <2>2, <2>4, Has
  <2> QED BY <2>3, <2>5 DEF Got
<1> QED BY <1>1, StreamInvariant, PTL
=============================================================================
