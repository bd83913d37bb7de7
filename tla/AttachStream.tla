---------------------------- MODULE AttachStream ----------------------------
(***************************************************************************)
(* One session's output on its way to one SDK consumer: the daemon's       *)
(* onAttach and pumpOutput (pkg/daemon/conn.go), the connection, the SDK's *)
(* Stream (pkg/client/stream.go) and the Follower that reconnects and      *)
(* resumes (pkg/client/follow.go).                                         *)
(*                                                                         *)
(* A byte is its position on the sequence axis, so a byte string is a      *)
(* half-open interval from .. to - 1.  The ring is its window, the newest  *)
(* Cap positions below ringEnd (module Ring proves that this is what it    *)
(* answers).  A connection may break at any moment and loses the frames in *)
(* flight; each connection has its own daemon-side pump.                   *)
(***************************************************************************)
EXTENDS Naturals, Integers, Sequences, SequencesExt

CONSTANTS Cap,        \* ring capacity
          Chunk,      \* outputChunkBytes
          SinceSet,   \* the sinceSeq values of the first attach (nil is 0)
          MaxOut,     \* bound: bytes of output
          MaxNet,     \* bound: frames in flight (a full socket blocks the pump)
          MaxBreaks   \* bound: connection losses

ASSUME CapAssumption    == Cap \in Nat \ {0}
ASSUME ChunkAssumption  == Chunk \in Nat \ {0}
ASSUME SinceAssumption  == SinceSet \subseteq Nat
ASSUME BoundsAssumption == MaxOut \in Nat /\ MaxNet \in Nat \ {0} /\ MaxBreaks \in Nat

VARIABLES
    ringEnd,   \* LastSeq of the session's ring
    exited,    \* the session has exited: its output is complete
    reaped,    \* the registry has dropped the exited session
    breaks,    \* connections lost so far
    up,        \* the current connection is alive
    net,       \* frames sent by the daemon and not yet read by the SDK
    spc,       \* where the daemon-side handler and pump are
    since,     \* the since of the current attach
    read1, read2,  \* onAttach's LastSeq reads while computing oldest
    lastSeen,  \* pumpOutput's lastSeen
    sending,   \* the interval pumpOutput is sending, <<from, to>>
    lost,      \* history: positions out of the ring when the pump skipped them
    told,      \* history: skipped positions the client was told of
    cpc,       \* where the consumer's Read is
    stBuf,     \* the Stream's buffer, positions in order
    stSeq,     \* the Stream's seq
    stEnd,     \* "open", "exit" (EXIT frame), "lost" (connection loss)
    lastSeq,   \* the Follower's lastSeq
    consumed   \* history: the positions the consumer has read, in order

sessionVars == <<ringEnd, exited, reaped>>
daemonVars  == <<spc, since, read1, read2, lastSeen, sending, lost, told>>
streamVars  == <<stBuf, stSeq, stEnd>>
vars == <<sessionVars, breaks, up, net, daemonVars, cpc, streamVars, lastSeq, consumed>>

\* The interval from .. to - 1 as a sequence of positions.
Interval(from, to) == [i \in 1 .. (to - from) |-> from + i - 1]

Filled == IF ringEnd < Cap THEN ringEnd ELSE Cap
Oldest == ringEnd - Filled

\* uint64 subtraction: below zero it wraps to a value above every seq in use.
USub(a, b) == IF a >= b THEN a - b ELSE a - b + 2 ^ 16

\* Where ReplayFrom(s) starts, and whether it was truncated.
ReplayStart(s) == IF s < Oldest THEN Oldest ELSE s
Truncated(s)   == s < Oldest

Init ==
    /\ ringEnd = 0 /\ exited = FALSE /\ reaped = FALSE
    /\ breaks = 0 /\ up = TRUE /\ net = <<>>
    /\ since \in SinceSet
    /\ spc = "attach"
    /\ read1 = 0 /\ read2 = 0 /\ lastSeen = 0 /\ sending = <<0, 0>>
    /\ lost = {} /\ told = {}
    /\ cpc = "attaching"
    /\ stBuf = <<>> /\ stSeq = since /\ stEnd = "open"
    /\ lastSeq = 0 /\ consumed = <<>>

-----------------------------------------------------------------------------
(* The session, seen from outside: see module Session. *)

Produce ==
    /\ ~exited /\ ringEnd < MaxOut
    /\ \E n \in 1 .. MaxOut - ringEnd : ringEnd' = ringEnd + n
    /\ UNCHANGED <<exited, reaped, breaks, up, net, daemonVars, cpc, streamVars,
                   lastSeq, consumed>>

SessionExit ==
    /\ ~exited /\ exited' = TRUE
    /\ UNCHANGED <<ringEnd, reaped, breaks, up, net, daemonVars, cpc, streamVars,
                   lastSeq, consumed>>

\* ReapExpired after the retention time.
Reap ==
    /\ exited /\ ~reaped /\ reaped' = TRUE
    /\ UNCHANGED <<ringEnd, exited, breaks, up, net, daemonVars, cpc, streamVars,
                   lastSeq, consumed>>

-----------------------------------------------------------------------------
(* onAttach: the lookup, then oldest from reads of a ring that moves on. *)

Send(f) == net' = Append(net, f)
Room    == Len(net) < MaxNet

OnAttachLookup ==
    /\ spc = "attach" /\ up
    /\ IF reaped THEN Room /\ Send([type |-> "notfound"]) /\ spc' = "off"
                 ELSE spc' = "read1" /\ UNCHANGED net
    /\ UNCHANGED <<sessionVars, breaks, up, since, read1, read2, lastSeen, sending,
                   lost, told, cpc, streamVars, lastSeq, consumed>>

\* The minuend sess.LastSeq().
OnAttachRead1 ==
    /\ spc = "read1"
    /\ read1' = ringEnd /\ spc' = "read2"
    /\ UNCHANGED <<sessionVars, breaks, up, net, since, read2, lastSeen, sending,
                   lost, told, cpc, streamVars, lastSeq, consumed>>

\* The sess.LastSeq() inside min.
OnAttachRead2 ==
    /\ spc = "read2"
    /\ read2' = ringEnd /\ spc' = "reply"
    /\ UNCHANGED <<sessionVars, breaks, up, net, since, read1, lastSeen, sending,
                   lost, told, cpc, streamVars, lastSeq, consumed>>

\* RingLen, the subtraction, AttachOK, and the start of the pump.  A write to a
\* dead connection fails and is ignored.
OnAttachReply ==
    LET used   == IF read2 < Filled THEN read2 ELSE Filled
        oldest == USub(read1, used)
        trunc  == since < oldest
    IN  /\ spc = "reply" /\ (Room \/ ~up)
        /\ IF up THEN Send([type |-> "ok", truncated |-> trunc]) ELSE UNCHANGED net
        /\ told' = IF up /\ trunc THEN told \cup (since .. Oldest - 1) ELSE told
        /\ lastSeen' = since
        /\ spc' = "replay"
        /\ UNCHANGED <<sessionVars, breaks, up, since, read1, read2, sending, lost,
                       cpc, streamVars, lastSeq, consumed>>

-----------------------------------------------------------------------------
(* pumpOutput. *)

\* ReplayFrom(lastSeen), and RING_GONE unless lastSeen is 0.
PumpReplay ==
    /\ spc = "replay" /\ up /\ Room
    /\ IF Truncated(lastSeen) /\ lastSeen > 0
       THEN /\ Send([type |-> "gone"])
            /\ told' = told \cup (lastSeen .. Oldest - 1)
       ELSE UNCHANGED <<net, told>>
    /\ lost' = IF lastSeen < ringEnd THEN lost \cup (lastSeen .. ReplayStart(lastSeen) - 1)
               ELSE lost
    /\ IF lastSeen < ringEnd
       THEN sending' = <<ReplayStart(lastSeen), ringEnd>> /\ spc' = "send"
       ELSE spc' = "wait" /\ UNCHANGED sending
    /\ UNCHANGED <<sessionVars, breaks, up, since, read1, read2, lastSeen,
                   cpc, streamVars, lastSeq, consumed>>

\* One OUTPUT frame of at most Chunk bytes; after the last, lastSeen moves on.
PumpSend ==
    LET from == sending[1]
        to   == IF sending[2] < from + Chunk THEN sending[2] ELSE from + Chunk
    IN  /\ spc = "send" /\ up /\ Room
        /\ Send([type |-> "output", seq |-> from, data |-> Interval(from, to)])
        /\ sending' = <<to, sending[2]>>
        /\ IF to = sending[2] THEN spc' = "wait" /\ lastSeen' = sending[2]
                              ELSE UNCHANGED <<spc, lastSeen>>
        /\ UNCHANGED <<sessionVars, breaks, up, since, read1, read2, lost, told,
                       cpc, streamVars, lastSeq, consumed>>

\* Mutant: the pump trusts WaitOutput's seq and skips to it.
PumpWait_SkipsAhead ==
    /\ spc = "wait" /\ up /\ (ringEnd > lastSeen \/ exited)
    /\ lastSeen' = ringEnd
    /\ IF exited /\ ringEnd = lastSeen
       THEN Room /\ Send([type |-> "exit"]) /\ spc' = "off"
       ELSE spc' = "replay" /\ UNCHANGED net
    /\ UNCHANGED <<sessionVars, breaks, up, since, read1, read2, sending, lost,
                   told, cpc, streamVars, lastSeq, consumed>>

\* Mutant: the exit is reported as soon as the session has exited.
PumpWait_ExitsEarly ==
    /\ spc = "wait" /\ up /\ (ringEnd > lastSeen \/ exited)
    /\ IF exited THEN Room /\ Send([type |-> "exit"]) /\ spc' = "off"
                 ELSE spc' = "replay" /\ UNCHANGED net
    /\ UNCHANGED <<sessionVars, breaks, up, since, read1, read2, lastSeen, sending,
                   lost, told, cpc, streamVars, lastSeq, consumed>>

\* Mutant: the exit is reported only once lastSeen is past the end.
PumpWait_ExitNever ==
    /\ spc = "wait" /\ up /\ (ringEnd > lastSeen \/ exited)
    /\ IF exited /\ ringEnd < lastSeen
       THEN Room /\ Send([type |-> "exit"]) /\ spc' = "off"
       ELSE spc' = "replay" /\ UNCHANGED net
    /\ UNCHANGED <<sessionVars, breaks, up, since, read1, read2, lastSeen, sending,
                   lost, told, cpc, streamVars, lastSeq, consumed>>

\* WaitOutput returns on output or exit; EXIT goes out once both agree that
\* nothing is left, otherwise the loop replays again.
PumpWait ==
    /\ spc = "wait" /\ up /\ (ringEnd > lastSeen \/ exited)
    /\ IF exited /\ ringEnd = lastSeen
       THEN Room /\ Send([type |-> "exit"]) /\ spc' = "off"
       ELSE spc' = "replay" /\ UNCHANGED net
    /\ UNCHANGED <<sessionVars, breaks, up, since, read1, read2, lastSeen, sending,
                   lost, told, cpc, streamVars, lastSeq, consumed>>

\* A dead connection: the decode loop's cleanup cancels the pump's context, or
\* its next write fails.
PumpGone ==
    /\ ~up /\ spc \in {"attach", "replay", "send", "wait"}
    /\ spc' = "off"
    /\ UNCHANGED <<sessionVars, breaks, up, net, since, read1, read2, lastSeen,
                   sending, lost, told, cpc, streamVars, lastSeq, consumed>>

-----------------------------------------------------------------------------
(* The connection and the SDK's demultiplexer. *)

\* The connection dies: what was in flight is gone, and failAll closes the
\* stream unless an EXIT already did.
Break ==
    /\ up /\ breaks < MaxBreaks
    /\ cpc # "eof"
    /\ breaks' = breaks + 1
    /\ up' = FALSE /\ net' = <<>>
    /\ stEnd' = IF stEnd = "open" THEN "lost" ELSE stEnd
    /\ UNCHANGED <<sessionVars, daemonVars, cpc, stBuf, stSeq, lastSeq, consumed>>

\* Mutant: the stream takes a repeated frame's bytes but not its seq.
Deliver_SeqStays(f) ==
    CASE f.type = "output" -> stBuf' = stBuf \o f.data /\ UNCHANGED <<stSeq, stEnd>>
      [] f.type = "exit"   -> stEnd' = "exit" /\ UNCHANGED <<stBuf, stSeq>>
      [] OTHER             -> UNCHANGED streamVars

\* Stream.deliver and Stream.exit; a RING_GONE push is dropped by pushErr.
Deliver(f) ==
    CASE f.type = "output" -> /\ stBuf' = stBuf \o f.data
                              /\ stSeq' = f.seq + Len(f.data)
                              /\ UNCHANGED stEnd
      [] f.type = "exit"   -> stEnd' = "exit" /\ UNCHANGED <<stBuf, stSeq>>
      [] OTHER             -> UNCHANGED streamVars

\* readLoop routes the next frame: responses settle the attach request, pushes
\* go to the stream, which was registered before the request was sent.
Receive ==
    /\ net # <<>>
    /\ LET f == Head(net)
       IN  /\ IF stEnd = "open" THEN Deliver(f) ELSE UNCHANGED streamVars
           /\ cpc' = CASE f.type = "ok"       -> "read"
                       [] f.type = "notfound" -> "failed"
                       [] OTHER               -> cpc
    /\ net' = Tail(net)
    /\ UNCHANGED <<sessionVars, breaks, up, daemonVars, lastSeq, consumed>>

-----------------------------------------------------------------------------
(* The consumer: Follower.Read over Stream.Read. *)

\* Stream.Read hands out a non-empty prefix of the buffer, under st.mu.
StreamRead ==
    /\ cpc = "read" /\ stBuf # <<>>
    /\ \E n \in 1 .. Len(stBuf) :
          /\ consumed' = consumed \o SubSeq(stBuf, 1, n)
          /\ stBuf' = SubSeq(stBuf, n + 1, Len(stBuf))
    /\ cpc' = "note"
    /\ UNCHANGED <<sessionVars, breaks, up, net, daemonVars, stSeq, stEnd, lastSeq>>

\* f.lastSeq = f.st.LastSeq(), a second acquisition of st.mu.
FollowerNote ==
    /\ cpc = "note"
    /\ lastSeq' = stSeq
    /\ cpc' = "read"
    /\ UNCHANGED <<sessionVars, breaks, up, net, daemonVars, streamVars, consumed>>

\* The drained stream ended with EXIT: io.EOF.
FollowerEOF ==
    /\ cpc = "read" /\ stBuf = <<>> /\ stEnd = "exit"
    /\ cpc' = "eof"
    /\ UNCHANGED <<sessionVars, breaks, up, net, daemonVars, streamVars, lastSeq, consumed>>

\* The drained stream ended with a connection loss, or an attach request of an
\* earlier reconnect failed with one: dial again and attach at lastSeq.  (The
\* very first attach failing this way is an error of Follow itself, after which
\* the caller calls Follow again: the same attach with lastSeq still 0.)
FollowerReconnect ==
    /\ ~up /\ spc = "off"
    /\ \/ cpc = "read" /\ stBuf = <<>> /\ stEnd = "lost"
       \/ cpc = "attaching"
    /\ up' = TRUE /\ net' = <<>>
    /\ since' = lastSeq /\ spc' = "attach"
    /\ stBuf' = <<>> /\ stSeq' = lastSeq /\ stEnd' = "open"
    /\ cpc' = "attaching"
    /\ UNCHANGED <<sessionVars, breaks, read1, read2, lastSeen, sending, lost, told,
                   lastSeq, consumed>>

-----------------------------------------------------------------------------
PumpStep ==
    \/ OnAttachLookup \/ OnAttachRead1 \/ OnAttachRead2 \/ OnAttachReply
    \/ PumpReplay \/ PumpSend \/ PumpWait \/ PumpGone

ClientStep == Receive \/ StreamRead \/ FollowerNote \/ FollowerEOF \/ FollowerReconnect

\* The consumer has its end of stream, or the daemon's definitive refusal.
Terminated == cpc \in {"eof", "failed"} /\ net = <<>> /\ UNCHANGED vars

Next ==
    \/ Produce \/ SessionExit \/ Reap
    \/ PumpStep
    \/ Break
    \/ ClientStep
    \/ Terminated

\* The daemon's goroutines are scheduled, and the consumer keeps reading and
\* redialling.  Nothing is assumed of the session or of the connection.
Fairness == WF_vars(PumpStep) /\ WF_vars(ClientStep)

Spec == Init /\ [][Next]_vars /\ Fairness

-----------------------------------------------------------------------------
(* Properties. *)

Positions == 0 .. MaxOut - 1

\* The frames of the daemon to this attachment.
Frame == [type : {"notfound", "gone", "exit"}] \cup [type : {"ok"}, truncated : BOOLEAN]
         \cup [type : {"output"}, seq : Nat, data : Seq(Positions)]

\* Types.
TypeOK ==
    /\ ringEnd \in 0 .. MaxOut /\ exited \in BOOLEAN /\ reaped \in BOOLEAN
    /\ breaks \in 0 .. MaxBreaks /\ up \in BOOLEAN
    /\ net \in Seq(Frame)
    /\ spc \in {"attach", "read1", "read2", "reply", "replay", "send", "wait", "off"}
    /\ since \in Nat /\ lastSeen \in Nat
    /\ read1 \in 0 .. MaxOut /\ read2 \in 0 .. MaxOut
    /\ sending \in (0 .. MaxOut) \X (0 .. MaxOut)
    /\ lost \subseteq Positions /\ told \subseteq Nat
    /\ cpc \in {"attaching", "read", "note", "eof", "failed"}
    /\ stEnd \in {"open", "exit", "lost"}
    /\ stSeq \in Nat /\ lastSeq \in Nat
    /\ stBuf \in Seq(Positions) /\ consumed \in Seq(Positions)

\* The positions every first attach asks for.
Wanted(b) == \A s \in SinceSet : s <= b

\* No byte reaches the consumer twice or out of order, across any number of
\* lost connections and resumes, although lastSeq is read in a second critical
\* section and may run ahead of what the consumer has seen.
InOrder == \A i \in 1 .. Len(consumed) - 1 : consumed[i] < consumed[i + 1]

\* "resumes exactly where you left off" (README.md:161): a byte the consumer
\* did not get, though it got a later one, had already left the ring when the
\* daemon went to send it, and one that fell out after the first byte it got was
\* announced by a RING_GONE or a truncated AttachOK.
NoNeedlessGap ==
    /\ \A i \in 1 .. Len(consumed) :
          \A b \in 0 .. consumed[i] - 1 :
              Wanted(b) => b \in lost \/ \E j \in 1 .. i : consumed[j] = b
    /\ \A b \in lost : consumed # <<>> /\ b > consumed[1] => b \in told

\* At the end of the stream the consumer has everything the session wrote
\* except what had left the ring: EXIT never overtakes output, and a resume
\* after the exit still delivers the tail (follow.go:7).
CompleteAtEOF ==
    cpc = "eof" => \A b \in 0 .. ringEnd - 1 : Wanted(b) => b \in lost \/ Contains(consumed, b)

\* The pump "Exits on ctx cancel ... or after the session exits and the stream
\* is fully drained (then it sends EXIT)" (conn.go:497): once the session has
\* exited, the consumer reaches its end of stream or learns the session is gone.
ExitReachesConsumer == exited ~> cpc \in {"eof", "failed"}
=============================================================================
