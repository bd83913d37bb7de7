--------------------------- MODULE TakeoverProofs ---------------------------
(***************************************************************************)
(* What a zero-downtime upgrade keeps, for every set of sessions, whatever *)
(* is attached, in flight or lingering, any set of new processes, at once  *)
(* or one after the other, and any number of failed attempts.              *)
(***************************************************************************)
EXTENDS Takeover, FiniteSetTheorems, SequenceTheorems, TLAPS

\* What travels over the private channel.
Msg == [session : Sessions, ring : 0 .. MaxOut] \cup [count : Nat]

Before  == {"stop", "close", "list", "pause"}
Sending == {"stream", "ack", "done"}
Taking  == {"recv", "adopt", "serving"}

IsState(m)  == "session" \in DOMAIN m
IsFinale(m) == "count" \in DOMAIN m
Mail(n)     == {chan[n][i] : i \in 1 .. Len(chan[n])}

\* The state of a session was sent to the new process.
Sent(n, s) == got[n][s] # Missing \/ \E m \in Mail(n) : IsState(m) /\ m.session = s

\* The channel carries states and finales.
ChanInv == chan \in [News -> Seq(Msg)]

\* Where the two processes can be.
Phase(n) ==
    /\ n \in acked => npc[n] \in {"adopt", "serving", "failed"}
                      /\ hpc[n] \in {"ack", "done", "rollback", "rolledback"}
    /\ npc[n] \in {"adopt", "serving"} \/ hpc[n] = "done" => n \in acked
    /\ npc[n] \in {"off", "asking"} => hpc[n] = "idle"
    /\ hpc[n] = "idle" => npc[n] \in {"off", "asking", "failed"}
    /\ hpc[n] \in Before => npc[n] \in {"wait", "failed"}
    /\ npc[n] = "wait" => hpc[n] \in Before \cup {"rollback", "rolledback"}
    /\ hpc[n] = "done" => handedOver

\* What the handover has still to visit, and what is in the channel when.
Work(n) ==
    /\ todo[n] \subseteq list[n]
    /\ hpc[n] \in {"idle", "ack", "done", "rolledback"} => todo[n] = {}
    /\ hpc[n] \in {"idle"} \cup Before => \A s \in Sessions : got[n][s] = Missing
    /\ npc[n] \notin Taking => Mail(n) = {}
    /\ \A m \in Mail(n) : IsFinale(m) => hpc[n] \in {"ack", "rollback", "rolledback"} \/ n \in acked

PhaseInv ==
    /\ ~oldUp => handedOver
    /\ handedOver => \E n \in News : hpc[n] = "done"
    /\ \A n \in News : Phase(n)
WorkInv  == \A n \in News : Work(n)

\* Who has the PTY of a session open.
Held(s) ==
    /\ child[s] = "none" <=> status[Old][s] = "none"
    /\ child[s] = "alive" => holders[s] # {}
    /\ s \in reading[Old] => oldUp
    /\ oldUp /\ status[Old][s] = "running" => Old \in holders[s]
    /\ \A d \in Daemons : status[d][s] = "exited" => child[s] = "dead" /\ kbuf[s] = 0

\* What the new process has of a session.
Moved(n, s) ==
    /\ Sent(n, s) => s \in list[n] /\ hpc[n] \in Sending \cup {"rollback", "rolledback"}
    /\ npc[n] \in Taking /\ Sent(n, s) => n \in holders[s] \/ (child[s] = "dead" /\ kbuf[s] = 0)
    /\ hpc[n] \in Sending /\ npc[n] \in Taking /\ s \in list[n] \ todo[n] => Sent(n, s)
    /\ status[n][s] # "none" => got[n][s] # Missing /\ n \in acked
    /\ s \in reading[n] => npc[n] \in Taking
    /\ s \in list[n] => status[Old][s] # "none"

HoldInv == (\A s \in Sessions : Held(s)) /\ \A n \in News, s \in Sessions : Moved(n, s)

\* Handovers that do not overlap are one at a time.
AloneInv == ~overlapped => \A m, n \in News : UnderWay(m) /\ UnderWay(n) => m = n

\* Who stopped the old daemon's reader of a session, and is still to restart it.
Stopped(n, s) ==
    \/ hpc[n] \in {"pause", "stream", "ack"} /\ s \in list[n]
    \/ hpc[n] = "rollback" /\ s \in todo[n]

\* The readers of the old daemon.
Paused(n, s) ==
    /\ hpc[n] \in Sending /\ s \in list[n] => s \notin reading[Old]
    /\ hpc[n] = "pause" /\ s \in list[n] \ todo[n] => s \notin reading[Old]

Read(s) ==
    acked = {} /\ status[Old][s] = "running" /\ s \notin reading[Old] => \E n \in News : Stopped(n, s)

PauseInv == ~overlapped => \A n \in News, s \in Sessions : Paused(n, s)
ReadInv  == \A s \in Sessions : Read(s)

\* The handovers that have closed the listener and not opened it again.
Deaf(n) == hpc[n] \in {"list", "pause", "stream", "ack", "rollback"}

\* The socket path, the listener and the flag that stops the accept loop.
PathInv ==
    acked = {} => /\ \/ path = Old /\ lnOpen
                     \/ path = "none" /\ ~lnOpen /\ \E n \in News : Deaf(n)
                  /\ closed => path = "none" \/ \E n \in News : hpc[n] = "close"

\* No ring has more than was read, and what was sent is no more than the ring.
Bounded(s) ==
    /\ \A d \in Daemons : ring[d][s] + kbuf[s] <= produced[s]
    /\ \A n \in News : got[n][s] # Missing => got[n][s] + kbuf[s] <= produced[s]
    /\ \A n \in News : \A m \in Mail(n) : IsState(m) /\ m.session = s => m.ring + kbuf[s] <= produced[s]

BoundInv == \A s \in Sessions : Bounded(s)

\* Whoever goes on with a session has everything.
ExactOld(s) ==
    /\ (\A n \in News : status[n][s] = "none") => ring[Old][s] + kbuf[s] = produced[s]
    /\ status[Old][s] = "exited" => ring[Old][s] = produced[s]

Exact(n, s) ==
    /\ status[n][s] # "none" => ring[n][s] + kbuf[s] = produced[s]
    /\ hpc[n] \in Sending /\ got[n][s] # Missing => got[n][s] = ring[Old][s]
    /\ hpc[n] \in Sending => \A m \in Mail(n) : IsState(m) /\ m.session = s => m.ring = ring[Old][s]

ExactInv == ~Crossed /\ ~overlapped => \A s \in Sessions : ExactOld(s) /\ \A n \in News : Exact(n, s)

\* Whose child may have died of the upgrade.
TouchInv ==
    /\ oldUp => touched \subseteq Clients \ Linger
    /\ \A n \in News : hpc[n] = "done" /\ npc[n] # "failed" => touched \cap list[n] \subseteq Clients \ Linger
    /\ \A s \in Sessions : client[s] # "gone" => s \in Clients

TakeoverInv ==
    /\ TypeOK /\ ChanInv /\ PhaseInv /\ WorkInv /\ HoldInv
    /\ AloneInv /\ PauseInv /\ ReadInv /\ PathInv /\ BoundInv /\ ExactInv /\ TouchInv

-----------------------------------------------------------------------------
(* The private channel. *)

\* The two kinds of messages.
LEMMA MsgKinds ==
  /\ \A s \in Sessions, r \in 0 .. MaxOut :
        LET m == [session |-> s, ring |-> r]
        IN  m \in Msg /\ IsState(m) /\ ~IsFinale(m) /\ m.session = s /\ m.ring = r
  /\ \A c \in Nat : [count |-> c] \in Msg /\ IsFinale([count |-> c]) /\ ~IsState([count |-> c])
  /\ \A m \in Msg : IsState(m) => m.session \in Sessions /\ m.ring \in 0 .. MaxOut /\ ~IsFinale(m)
BY DEF Msg, IsState, IsFinale

\* A message joins the channel.
LEMMA MailWrite ==
  ASSUME ChanInv, NEW n \in News, NEW m \in Msg, WriteCtrl(n, m)
  PROVE  /\ ChanInv' /\ Mail(n)' = Mail(n) \cup {m}
         /\ \A k \in News : k # n => chan'[k] = chan[k]
<1> DEFINE c == chan[n]
<1>1. c \in Seq(Msg) /\ Len(c) \in Nat
  BY LenProperties DEF ChanInv
<1>2. chan' = [chan EXCEPT ![n] = Append(c, m)]
  BY DEF WriteCtrl
<1> HIDE DEF c
<1>3. /\ Append(c, m) \in Seq(Msg) /\ Len(Append(c, m)) = Len(c) + 1
      /\ \A i \in 1 .. Len(c) : Append(c, m)[i] = c[i]
      /\ Append(c, m)[Len(c) + 1] = m
  BY <1>1, AppendProperties
<1> DEFINE e == Append(c, m)
<1>4. e \in Seq(Msg) /\ Len(e) = Len(c) + 1 /\ (\A i \in 1 .. Len(c) : e[i] = c[i]) /\ e[Len(c) + 1] = m
  BY <1>3
<1>5. chan' = [chan EXCEPT ![n] = e]
  BY <1>2
<1> HIDE DEF e
<1>6. chan'[n] = e /\ ChanInv' /\ \A k \in News : k # n => chan'[k] = chan[k]
  BY <1>4, <1>5 DEF ChanInv
<1>7. \A i \in 1 .. Len(e) : i \in 1 .. Len(c) \/ i = Len(c) + 1
  BY <1>1, <1>4
<1>8. {e[i] : i \in 1 .. Len(e)} = {c[i] : i \in 1 .. Len(c)} \cup {m}
  <2>1. \A i \in 1 .. Len(c) : i \in 1 .. Len(e)
    BY <1>1, <1>4
  <2>2. Len(c) + 1 \in 1 .. Len(e)
    BY <1>1, <1>4
  <2> QED BY <1>4, <1>7, <2>1, <2>2
<1> QED BY <1>6, <1>8 DEF Mail, c

\* A message leaves the channel.
LEMMA MailRead ==
  ASSUME ChanInv, NEW n \in News, chan[n] # <<>>, ReadCtrl(n)
  PROVE  /\ ChanInv' /\ Head(chan[n]) \in Mail(n) /\ Head(chan[n]) \in Msg
         /\ Mail(n)' \subseteq Mail(n) /\ Mail(n) \subseteq Mail(n)' \cup {Head(chan[n])}
         /\ \A k \in News : k # n => chan'[k] = chan[k]
<1> DEFINE c == chan[n]
           e == Tail(c)
<1>1. c \in Seq(Msg) /\ Len(c) \in Nat /\ c # <<>>
  BY LenProperties DEF ChanInv
<1>2. chan' = [chan EXCEPT ![n] = e]
  BY DEF ReadCtrl
<1>3. /\ Head(c) = c[1] /\ Head(c) \in Msg /\ Len(c) # 0
      /\ e \in Seq(Msg) /\ Len(e) = Len(c) - 1
      /\ \A i \in 1 .. Len(e) : e[i] = c[i + 1]
  BY <1>1, HeadTailProperties, EmptySeq
<1> HIDE DEF c, e
<1>4. chan'[n] = e /\ ChanInv' /\ \A k \in News : k # n => chan'[k] = chan[k]
  BY <1>2, <1>3 DEF ChanInv
<1>5. \A i \in 1 .. Len(e) : i + 1 \in 1 .. Len(c)
  BY <1>1, <1>3
<1>6. \A i \in 1 .. Len(c) : i = 1 \/ (i - 1 \in 1 .. Len(e) /\ e[i - 1] = c[i])
  <2> TAKE i \in 1 .. Len(c)
  <2>1. CASE i # 1
    <3>1. i - 1 \in 1 .. Len(e) /\ (i - 1) + 1 = i
      BY <1>1, <1>3, <2>1
    <3> QED BY <1>3, <3>1
  <2> QED BY <2>1
<1>7. 1 \in 1 .. Len(c)
  BY <1>1, <1>3
<1>8. {e[i] : i \in 1 .. Len(e)} \subseteq {c[i] : i \in 1 .. Len(c)}
  BY <1>3, <1>5
<1>9. {c[i] : i \in 1 .. Len(c)} \subseteq {e[i] : i \in 1 .. Len(e)} \cup {Head(c)}
  BY <1>3, <1>6
<1>10. Head(c) \in {c[i] : i \in 1 .. Len(c)}
  BY <1>3, <1>7
<1> QED BY <1>3, <1>4, <1>8, <1>9, <1>10 DEF Mail, c

\* The channel of a process that is gone.
LEMMA MailGone ==
  ASSUME ChanInv, NEW n \in News, chan' = [chan EXCEPT ![n] = <<>>]
  PROVE  /\ ChanInv' /\ Mail(n)' = {} /\ \A k \in News : k # n => chan'[k] = chan[k]
<1>1. chan'[n] = <<>> /\ ChanInv' /\ \A k \in News : k # n => chan'[k] = chan[k]
  BY DEF ChanInv
<1>2. Len(<<>>) = 0 /\ 1 .. 0 = {}
  OBVIOUS
<1> QED BY <1>1, <1>2 DEF Mail

\* A channel nobody touches.
LEMMA MailSame ==
  ASSUME NEW n \in News, chan'[n] = chan[n]
  PROVE  Mail(n)' = Mail(n)
BY DEF Mail

-----------------------------------------------------------------------------
(* Types. *)

\* The kernel's account of the descriptors.
LEMMA HoldType ==
  ASSUME TypeOK, NEW h \in [Sessions -> SUBSET Daemons], HoldersBecome(h)
  PROVE  /\ holders' = h /\ touched \subseteq touched' /\ touched' \subseteq Sessions
         /\ child' \in [Sessions -> {"none", "alive", "dead"}]
         /\ \A s \in Sessions : \/ child[s] = "alive" /\ h[s] = {} /\ child'[s] = "dead" /\ s \in touched'
                                \/ ~(child[s] = "alive" /\ h[s] = {}) /\ child'[s] = child[s]
                                   /\ (s \in touched' => s \in touched)
BY DEF HoldersBecome, TypeOK

\* Closing the descriptors of a process.
LEMMA WithoutType ==
  ASSUME TypeOK, NEW d \in Daemons
  PROVE  Without(d) \in [Sessions -> SUBSET Daemons] /\ \A s \in Sessions : Without(d)[s] = holders[s] \ {d}
BY DEF Without, TypeOK

\* Every step keeps the types.
LEMMA TypeNext ==
  ASSUME TypeOK, ChanInv, BoundInv, HoldInv, [Next]_vars
  PROVE  TypeOK' /\ ChanInv'
<1> USE SessionsAssumption, NewsAssumption, MaxOutAssumption DEF Daemons, kernel, history, hosts, server, handing, wire, taking, HGoto, NGoto
<1>0. Old \in Daemons /\ News \subseteq Daemons
  OBVIOUS
<1>1. ASSUME NEW s \in Sessions, ChildWrite(s) \/ ChildDie(s) \/ ConnCleanup(s) \/ LateSpawn(s)
      PROVE  TypeOK' /\ ChanInv'
  <2>1. CASE ChildWrite(s)
    <3>1. kbuf[s] + 1 \in 0 .. MaxOut /\ produced[s] + 1 \in 0 .. MaxOut
      BY <2>1, <1>0 DEF ChildWrite, TypeOK, BoundInv, Bounded
    <3> QED BY <2>1, <3>1 DEF ChildWrite, TypeOK, ChanInv
  <2>2. CASE ChildDie(s)
    BY <2>2 DEF ChildDie, TypeOK, ChanInv
  <2>3. CASE ConnCleanup(s)
    <3>1. child' \in [Sessions -> {"none", "alive", "dead"}] /\ touched' \subseteq Sessions
      <4>1. CASE s \notin Linger /\ status[Old][s] = "running" /\ child[s] = "alive"
        <5>1. child' = [child EXCEPT ![s] = "dead"] /\ touched' = touched \cup {s}
          BY <2>3, <4>1 DEF ConnCleanup
        <5> QED BY <5>1 DEF TypeOK
      <4>2. CASE ~(s \notin Linger /\ status[Old][s] = "running" /\ child[s] = "alive")
        BY <2>3, <4>2 DEF ConnCleanup, TypeOK
      <4> QED BY <4>1, <4>2
    <3>2. client' \in [Sessions -> {"open", "cleanup", "gone"}]
          /\ UNCHANGED <<kbuf, produced, holders, overlapped, hosts, path, lnOpen, closed, oldUp, handedOver, handing, wire, taking>>
      BY <2>3 DEF ConnCleanup, TypeOK
    <3> QED BY <3>1, <3>2 DEF TypeOK, ChanInv
  <2>4. CASE LateSpawn(s)
    BY <2>4 DEF LateSpawn, TypeOK, ChanInv
  <2> QED BY <1>1, <2>1, <2>2, <2>3, <2>4
<1>2. ASSUME NEW d \in Daemons, NEW s \in Sessions, PumpRead(d, s)
      PROVE  TypeOK' /\ ChanInv'
  <2>1. kbuf[s] - 1 \in 0 .. MaxOut /\ ring[d][s] + 1 \in 0 .. MaxOut
    BY <1>2 DEF PumpRead, TypeOK, BoundInv, Bounded
  <2> QED BY <1>2, <2>1 DEF PumpRead, TypeOK, ChanInv
<1>3. ASSUME NEW d \in Daemons, NEW s \in Sessions, PumpEnd(d, s)
      PROVE  TypeOK' /\ ChanInv'
  <2> DEFINE h == [holders EXCEPT ![s] = @ \ {d}]
  <2>1. h \in [Sessions -> SUBSET Daemons] /\ HoldersBecome(h)
    BY <1>3 DEF PumpEnd, TypeOK
  <2> HIDE DEF h
  <2>2. holders' = h /\ child' \in [Sessions -> {"none", "alive", "dead"}] /\ touched' \subseteq Sessions
    BY <2>1, HoldType
  <2>3. /\ status' \in [Daemons -> [Sessions -> {"none", "running", "exited"}]] /\ reading' \in [Daemons -> SUBSET Sessions]
        /\ \A e \in Daemons : \A r \in reading'[e] : status'[e][r] = "running"
    BY <1>3 DEF PumpEnd, TypeOK
  <2>4. UNCHANGED <<kbuf, produced, overlapped, ring, server, handing, wire, taking>>
    BY <1>3 DEF PumpEnd
  <2> QED BY <2>1, <2>2, <2>3, <2>4 DEF TypeOK, ChanInv
<1>4. ASSUME NEW n \in News, Connect(n) \/ OnHandoverReq(n) \/ HandoverStop(n) \/ HandoverClose(n) \/ HandoverList(n)
                             \/ HandoverDial(n) \/ HandoverAck(n) \/ HandoverFail(n) \/ Relisten(n) \/ Listen(n) \/ Retry(n)
      PROVE  TypeOK' /\ ChanInv'
  <2>1. CASE Connect(n)
    BY <2>1 DEF Connect, TypeOK, ChanInv
  <2>9. CASE OnHandoverReq(n)
    BY <2>9 DEF OnHandoverReq, TypeOK, ChanInv
  <2>10. CASE HandoverStop(n)
    BY <2>10 DEF HandoverStop, TypeOK, ChanInv
  <2>2. CASE HandoverClose(n)
    BY <2>2 DEF HandoverClose, TypeOK, ChanInv
  <2>3. CASE HandoverList(n)
    BY <2>3 DEF HandoverList, TypeOK, ChanInv
  <2>4. CASE HandoverDial(n)
    <3>1. hpc' \in [News -> {"idle", "stop", "close", "list", "pause", "stream", "ack", "done", "rollback", "rolledback"}]
          /\ todo' \in [News -> SUBSET Sessions]
      BY <2>4 DEF HandoverDial, TypeOK
    <3>2. npc' \in [News -> {"off", "asking", "wait", "recv", "adopt", "serving", "failed"}] /\ link' \in [News -> {"none", "open", "closed"}]
      BY <2>4 DEF HandoverDial, TypeOK
    <3>3. UNCHANGED <<kernel, hosts, server, list, chan, acked, got>>
      BY <2>4 DEF HandoverDial
    <3> QED BY <3>1, <3>2, <3>3 DEF TypeOK, ChanInv
  <2>5. CASE HandoverAck(n)
    BY <2>5 DEF HandoverAck, TypeOK, ChanInv
  <2>11. CASE HandoverFail(n)
    BY <2>11 DEF HandoverFail, TypeOK, ChanInv
  <2>6. CASE Relisten(n)
    BY <2>6 DEF Relisten, TypeOK, ChanInv
  <2>7. CASE Listen(n)
    BY <2>7 DEF Listen, TypeOK, ChanInv
  <2>8. CASE Retry(n)
    <3>1. Missing \in 0 .. Missing
      BY DEF Missing
    <3> QED BY <2>8, <3>1 DEF Retry, TypeOK, ChanInv
  <2> QED BY <1>4, <2>1, <2>2, <2>3, <2>4, <2>5, <2>6, <2>7, <2>8, <2>9, <2>10, <2>11
<1>5. ASSUME NEW n \in News, NEW s \in Sessions, HandoverPause(n, s) \/ RollbackResume(n, s) \/ AdoptSession(n, s)
      PROVE  TypeOK' /\ ChanInv'
  <2>1. CASE HandoverPause(n, s)
    BY <2>1 DEF HandoverPause, TypeOK, ChanInv
  <2>3. CASE RollbackResume(n, s)
    <3>1. reading' \in [Daemons -> SUBSET Sessions] /\ \A d \in Daemons : \A t \in reading'[d] : status[d][t] = "running"
      BY <2>3 DEF RollbackResume, TypeOK
    <3>2. todo' \in [News -> SUBSET Sessions] /\ UNCHANGED <<kernel, status, ring, server, hpc, list, wire, taking>>
      BY <2>3 DEF RollbackResume, TypeOK
    <3> QED BY <3>1, <3>2 DEF TypeOK, ChanInv
  <2>2. CASE AdoptSession(n, s)
    <3>1. got[n][s] \in 0 .. MaxOut
      <4>1. got[n][s] # Missing
        BY <2>2 DEF AdoptSession, Received
      <4>2. got[n][s] \in 0 .. Missing /\ Missing = MaxOut + 1
        BY DEF TypeOK, Missing
      <4> QED BY <4>1, <4>2
    <3> QED BY <2>2, <3>1 DEF AdoptSession, TypeOK, ChanInv
  <2> QED BY <1>5, <2>1, <2>2, <2>3
<1>6. ASSUME NEW n \in News, NEW s \in Sessions, HandoverStream(n, s)
      PROVE  TypeOK' /\ ChanInv'
  <2>1. [session |-> s, ring |-> ring[Old][s]] \in Msg
    BY MsgKinds DEF TypeOK
  <2>2. ChanInv'
    BY <1>6, <2>1, MailWrite DEF HandoverStream
  <2>3. holders' \in [Sessions -> SUBSET Daemons]
    BY <1>6 DEF HandoverStream, TypeOK
  <2>4. todo' \in [News -> SUBSET Sessions] /\ UNCHANGED <<child, kbuf, produced, history, hosts, server, hpc, list, link, taking>>
    BY <1>6 DEF HandoverStream, TypeOK
  <2> QED BY <2>2, <2>3, <2>4 DEF TypeOK
<1>7. ASSUME NEW n \in News, HandoverFinale(n)
      PROVE  TypeOK' /\ ChanInv'
  <2>1. Cardinality(list[n]) \in Nat
    <3>1. IsFiniteSet(list[n])
      BY FS_Subset DEF TypeOK
    <3> QED BY <3>1, FS_CardinalityType
  <2>2. [count |-> Cardinality(list[n])] \in Msg
    BY <2>1, MsgKinds
  <2>3. ChanInv'
    BY <1>7, <2>2, MailWrite DEF HandoverFinale
  <2> QED BY <1>7, <2>3 DEF HandoverFinale, TypeOK
<1>8. CASE Retire
  <2>1. Without(Old) \in [Sessions -> SUBSET Daemons]
    BY <1>0, WithoutType
  <2>2. child' \in [Sessions -> {"none", "alive", "dead"}] /\ touched' \subseteq Sessions /\ holders' \in [Sessions -> SUBSET Daemons]
    BY <1>8, <2>1, HoldType DEF Retire
  <2> QED BY <1>8, <2>2 DEF Retire, TypeOK, ChanInv
<1>9. ASSUME NEW n \in News, Exits(n)
      PROVE  /\ child' \in [Sessions -> {"none", "alive", "dead"}] /\ touched' \subseteq Sessions
             /\ holders' \in [Sessions -> SUBSET Daemons] /\ ChanInv'
             /\ npc' \in [News -> {"off", "asking", "wait", "recv", "adopt", "serving", "failed"}]
             /\ reading' = [reading EXCEPT ![n] = {}]
  <2>1. Without(n) \in [Sessions -> SUBSET Daemons] /\ HoldersBecome(Without(n))
    BY <1>0, <1>9, WithoutType DEF Exits
  <2>2. child' \in [Sessions -> {"none", "alive", "dead"}] /\ touched' \subseteq Sessions /\ holders' \in [Sessions -> SUBSET Daemons]
    BY <2>1, HoldType
  <2>3. ChanInv'
    BY <1>9, MailGone DEF Exits
  <2> QED BY <1>9, <2>2, <2>3 DEF Exits, TypeOK
<1>10. ASSUME NEW n \in News, TakeoverFail(n) \/ ServeFails(n)
       PROVE  TypeOK' /\ ChanInv'
  <2>1. Exits(n) /\ UNCHANGED <<kbuf, produced, overlapped, status, ring, server, handing, link, acked, got>>
    BY <1>10 DEF TakeoverFail, ServeFails
  <2>2. reading' \in [Daemons -> SUBSET Sessions] /\ \A d \in Daemons : \A s \in reading'[d] : s \in reading[d]
    BY <1>9, <2>1 DEF TypeOK
  <2> QED BY <1>9, <2>1, <2>2 DEF TypeOK
<1>11. ASSUME NEW n \in News, ReceiveSession(n)
       PROVE  TypeOK' /\ ChanInv'
  <2>1. ChanInv' /\ Head(chan[n]) \in Msg
    BY <1>11, MailRead DEF ReceiveSession
  <2>2. IsState(Head(chan[n]))
    BY <1>11 DEF ReceiveSession, IsState
  <2>3. Head(chan[n]).session \in Sessions /\ Head(chan[n]).ring \in 0 .. Missing
    BY <2>1, <2>2, MsgKinds DEF Missing
  <2>4. got' = [got EXCEPT ![n][Head(chan[n]).session] = Head(chan[n]).ring]
    BY <1>11 DEF ReceiveSession
  <2>5. got' \in [News -> [Sessions -> 0 .. Missing]]
    BY <2>3, <2>4 DEF TypeOK
  <2> QED BY <1>11, <2>1, <2>5 DEF ReceiveSession, TypeOK
<1>12. ASSUME NEW n \in News, ReceiveFinale(n)
       PROVE  TypeOK' /\ ChanInv'
  <2>1. CASE Exits(n) /\ UNCHANGED acked
    BY <1>9, <1>12, <2>1 DEF ReceiveFinale, TypeOK
  <2>2. CASE ReadCtrl(n) /\ acked' = acked \cup {n} /\ NGoto(n, "adopt") /\ UNCHANGED <<child, holders, touched, reading>>
    <3>1. ChanInv'
      BY <1>12, <2>2, MailRead DEF ReceiveFinale
    <3> QED BY <1>12, <2>2, <3>1 DEF ReceiveFinale, TypeOK
  <2> QED BY <1>12, <2>1, <2>2 DEF ReceiveFinale
<1>13. CASE UNCHANGED vars
  BY <1>13 DEF vars, TypeOK, ChanInv
<1> QED
  BY <1>1, <1>2, <1>3, <1>4, <1>5, <1>6, <1>7, <1>8, <1>10, <1>11, <1>12, <1>13
     DEF Next, PumpStep, HandoverStep, TakeoverStep, Settled

-----------------------------------------------------------------------------
(* What the steps that close descriptors do. *)

\* A session counts as sent as long as its state is in the channel or received.
LEMMA SentSame ==
  ASSUME NEW n \in News, NEW s \in Sessions, got'[n] = got[n], chan'[n] = chan[n]
  PROVE  Sent(n, s)' = Sent(n, s) /\ Mail(n)' = Mail(n)
<1>1. Mail(n)' = Mail(n)
  BY MailSame
<1> QED BY <1>1 DEF Sent

\* A pump ends only when the child is dead and drained: nothing is cut off.
LEMMA PumpEnds ==
  ASSUME TypeOK, HoldInv, NEW d \in Daemons, NEW s \in Sessions, PumpEnd(d, s)
  PROVE  /\ s \in reading[d] /\ child[s] = "dead" /\ kbuf[s] = 0 /\ status[d][s] = "running"
         /\ child' = child /\ touched' = touched
         /\ \A t \in Sessions : holders'[t] = IF t = s THEN holders[t] \ {d} ELSE holders[t]
         /\ \A e \in Daemons : reading'[e] = IF e = d THEN reading[e] \ {s} ELSE reading[e]
         /\ \A e \in Daemons, t \in Sessions : status'[e][t] = IF e = d /\ t = s THEN "exited" ELSE status[e][t]
         /\ UNCHANGED <<kbuf, produced, overlapped, ring, server, handing, wire, taking>>
<1> DEFINE h == [holders EXCEPT ![s] = @ \ {d}]
<1>1. /\ s \in reading[d] /\ ((child[s] = "dead" /\ kbuf[s] = 0) \/ d \notin holders[s])
      /\ reading' = [reading EXCEPT ![d] = @ \ {s}] /\ status' = [status EXCEPT ![d][s] = "exited"]
      /\ HoldersBecome(h)
      /\ UNCHANGED <<kbuf, produced, overlapped, ring, server, handing, wire, taking>>
  BY DEF PumpEnd
<1>2. h \in [Sessions -> SUBSET Daemons] /\ \A t \in Sessions : h[t] = IF t = s THEN holders[t] \ {d} ELSE holders[t]
  BY DEF TypeOK
<1> HIDE DEF h
<1>3. s \in reading[d] /\ status[d][s] = "running"
  BY <1>1 DEF TypeOK
<1>4. child[s] = "dead" /\ kbuf[s] = 0
  <2>1. CASE d = Old
    <3>1. Held(s)
      BY DEF HoldInv
    <3>2. oldUp /\ Old \in holders[s]
      BY <1>3, <2>1, <3>1 DEF Held
    <3> QED BY <1>1, <2>1, <3>2
  <2>2. CASE d \in News
    <3>1. Moved(d, s)
      BY <2>2 DEF HoldInv
    <3>2. npc[d] \in Taking /\ got[d][s] # Missing
      BY <1>3, <3>1 DEF Moved
    <3>3. Sent(d, s)
      BY <3>2 DEF Sent
    <3> QED BY <1>1, <3>1, <3>2, <3>3 DEF Moved
  <2> QED BY <2>1, <2>2 DEF Daemons
<1>5. /\ holders' = h /\ touched \subseteq touched' /\ touched' \subseteq Sessions
      /\ child' \in [Sessions -> {"none", "alive", "dead"}]
      /\ \A t \in Sessions : \/ child[t] = "alive" /\ h[t] = {} /\ child'[t] = "dead" /\ t \in touched'
                             \/ ~(child[t] = "alive" /\ h[t] = {}) /\ child'[t] = child[t]
                                /\ (t \in touched' => t \in touched)
  BY <1>1, <1>2, HoldType
<1>6. \A t \in Sessions : ~(child[t] = "alive" /\ h[t] = {})
  <2> TAKE t \in Sessions
  <2>1. Held(t)
    BY DEF HoldInv
  <2> QED BY <1>2, <1>4, <2>1 DEF Held
<1>7. child' = child
  <2>1. child \in [Sessions -> {"none", "alive", "dead"}] /\ \A t \in Sessions : child'[t] = child[t]
    BY <1>5, <1>6 DEF TypeOK
  <2> QED BY <1>5, <2>1
<1>8. touched' = touched
  BY <1>5, <1>6
<1>9. \A e \in Daemons : reading'[e] = IF e = d THEN reading[e] \ {s} ELSE reading[e]
  BY <1>1 DEF TypeOK
<1>10. \A e \in Daemons, t \in Sessions : status'[e][t] = IF e = d /\ t = s THEN "exited" ELSE status[e][t]
  BY <1>1 DEF TypeOK
<1> QED BY <1>1, <1>2, <1>3, <1>4, <1>5, <1>7, <1>8, <1>9, <1>10

\* What closing all descriptors of a process does to a session.
Closes(d, s) ==
    /\ holders'[s] = holders[s] \ {d}
    /\ \/ child[s] = "alive" /\ holders[s] \ {d} = {} /\ child'[s] = "dead" /\ s \in touched'
       \/ ~(child[s] = "alive" /\ holders[s] \ {d} = {}) /\ child'[s] = child[s] /\ (s \in touched' => s \in touched)

\* A process closes every descriptor it has.
LEMMA ClosesAll ==
  ASSUME TypeOK, NEW d \in Daemons, HoldersBecome(Without(d))
  PROVE  \A s \in Sessions : Closes(d, s)
<1> DEFINE h == Without(d)
<1>1. h \in [Sessions -> SUBSET Daemons] /\ (\A s \in Sessions : h[s] = holders[s] \ {d}) /\ HoldersBecome(h)
  BY WithoutType
<1> HIDE DEF h
<1>2. /\ holders' = h
      /\ \A s \in Sessions : \/ child[s] = "alive" /\ h[s] = {} /\ child'[s] = "dead" /\ s \in touched'
                             \/ ~(child[s] = "alive" /\ h[s] = {}) /\ child'[s] = child[s]
                                /\ (s \in touched' => s \in touched)
  BY <1>1, HoldType
<1> QED BY <1>1, <1>2 DEF Closes

\* The old daemon retires after its ACK; whoever is asking it fails.
LEMMA Retires ==
  ASSUME TypeOK, Retire
  PROVE  /\ oldUp /\ handedOver /\ ~oldUp' /\ ~lnOpen'
         /\ \A s \in Sessions : Closes(Old, s)
         /\ reading'[Old] = {} /\ \A n \in News : reading'[n] = reading[n]
         /\ \A n \in News : npc'[n] = IF npc[n] = "asking" THEN "failed" ELSE npc[n]
         /\ UNCHANGED <<kbuf, produced, overlapped, status, ring, path, closed, client, handedOver, handing, chan, acked, got>>
<1>1. \A s \in Sessions : Closes(Old, s)
  BY ClosesAll DEF Retire, Daemons
<1>2. reading'[Old] = {} /\ \A n \in News : reading'[n] = reading[n]
  BY NewsAssumption DEF Retire, TypeOK, Daemons
<1>3. \A n \in News : npc'[n] = IF npc[n] = "asking" THEN "failed" ELSE npc[n]
  BY DEF Retire
<1> QED BY <1>1, <1>2, <1>3 DEF Retire

\* A new process is gone.
Leaves(n) ==
    /\ npc' = [npc EXCEPT ![n] = "failed"] /\ chan' = [chan EXCEPT ![n] = <<>>]
    /\ \A s \in Sessions : Closes(n, s)
    /\ reading' = [reading EXCEPT ![n] = {}]
    /\ UNCHANGED <<kbuf, produced, overlapped, status, ring, server, handing, link, acked, got>>

\* An attempt that fails in the new process ends that process.
LEMMA Failing ==
  ASSUME TypeOK, NEW n \in News, TakeoverFail(n) \/ ServeFails(n)
  PROVE  Leaves(n)
<1>1. Exits(n) /\ UNCHANGED <<kbuf, produced, overlapped, status, ring, server, handing, link, acked, got>>
  BY DEF TakeoverFail, ServeFails
<1>2. \A s \in Sessions : Closes(n, s)
  BY <1>1, ClosesAll DEF Exits, Daemons
<1> QED BY <1>1, <1>2 DEF Exits, Leaves, NGoto

\* The finale is answered with an ACK, or the process gives up.
Acks(n) ==
    /\ npc[n] = "recv" /\ chan[n] # <<>> /\ IsFinale(Head(chan[n]))
    /\ ReadCtrl(n)
    /\ acked' = acked \cup {n} /\ npc' = [npc EXCEPT ![n] = "adopt"]
    /\ UNCHANGED <<kernel, hosts, server, handing, link, got>>

\* What the finale leads to.
LEMMA Finale ==
  ASSUME TypeOK, NEW n \in News, ReceiveFinale(n)
  PROVE  Leaves(n) \/ Acks(n)
<1>1. CASE Exits(n) /\ UNCHANGED acked
  <2>1. \A s \in Sessions : Closes(n, s)
    BY <1>1, ClosesAll DEF Exits, Daemons
  <2> QED BY <1>1, <2>1 DEF Exits, Leaves, NGoto, ReceiveFinale
<1>2. CASE ReadCtrl(n) /\ acked' = acked \cup {n} /\ NGoto(n, "adopt") /\ UNCHANGED <<child, holders, touched, reading>>
  BY <1>2 DEF ReceiveFinale, Acks, NGoto, IsFinale, kernel, history, hosts
<1> QED BY <1>1, <1>2 DEF ReceiveFinale

\* A step of one takeover, on either side.
OfOne(n) ==
    \/ Connect(n) \/ OnHandoverReq(n)
    \/ HandoverStep(n) \/ TakeoverStep(n) \/ ServeFails(n)
    \/ Retry(n)

\* What it leaves to another: only one that is still asking may find its connection
\* closed.
Same(k) ==
    /\ UNCHANGED <<hpc[k], list[k], todo[k], chan[k], got[k], reading[k], status[k], ring[k]>>
    /\ npc'[k] = npc[k] \/ (npc[k] = "asking" /\ npc'[k] = "failed")
    /\ k \in acked' <=> k \in acked

\* Takeovers do not touch each other's state.
LEMMA OthersStay ==
  ASSUME TypeOK, ChanInv, NEW n \in News, OfOne(n), NEW k \in News, k # n
  PROVE  Same(k)
<1> USE DEF kernel, history, hosts, server, handing, wire, taking, HGoto, NGoto
<1>b. k \in Daemons /\ Old \in Daemons /\ n \in Daemons /\ k # Old /\ n # Old
  BY NewsAssumption DEF Daemons
<1>1. CASE Connect(n) \/ OnHandoverReq(n) \/ HandoverStop(n) \/ HandoverClose(n) \/ HandoverList(n)
           \/ HandoverAck(n) \/ HandoverFail(n) \/ Relisten(n) \/ Listen(n) \/ Retry(n)
  BY <1>1 DEF Connect, OnHandoverReq, HandoverStop, HandoverClose, HandoverList, HandoverAck, HandoverFail,
              Relisten, Listen, Retry, TypeOK, Same
<1>2. CASE HandoverDial(n)
  BY <1>2 DEF HandoverDial, TypeOK, Same
<1>3. ASSUME NEW s \in Sessions, HandoverPause(n, s) \/ RollbackResume(n, s)
      PROVE  Same(k)
  BY <1>b, <1>3 DEF HandoverPause, RollbackResume, TypeOK, Same
<1>4. ASSUME NEW s \in Sessions, AdoptSession(n, s)
      PROVE  Same(k)
  BY <1>b, <1>4 DEF AdoptSession, TypeOK, Same
<1>5. ASSUME NEW s \in Sessions, HandoverStream(n, s)
      PROVE  Same(k)
  <2>1. chan'[k] = chan[k] /\ todo'[k] = todo[k]
    BY <1>5 DEF HandoverStream, WriteCtrl, ChanInv, TypeOK
  <2> QED BY <1>5, <2>1 DEF HandoverStream, Same
<1>6. CASE HandoverFinale(n)
  <2>1. chan'[k] = chan[k] /\ hpc'[k] = hpc[k]
    BY <1>6 DEF HandoverFinale, WriteCtrl, ChanInv, TypeOK
  <2> QED BY <1>6, <2>1 DEF HandoverFinale, Same
<1>7. CASE ReceiveSession(n)
  <2>1. chan'[k] = chan[k] /\ got'[k] = got[k]
    BY <1>7 DEF ReceiveSession, ReadCtrl, ChanInv, TypeOK
  <2> QED BY <1>7, <2>1 DEF ReceiveSession, Same
<1>8. CASE Leaves(n)
  <2>1. chan'[k] = chan[k] /\ npc'[k] = npc[k] /\ reading'[k] = reading[k]
    BY <1>b, <1>8 DEF Leaves, ChanInv, TypeOK
  <2> QED BY <1>8, <2>1 DEF Leaves, Same
<1>9. CASE Acks(n)
  <2>1. chan'[k] = chan[k] /\ npc'[k] = npc[k]
    BY <1>9 DEF Acks, ReadCtrl, ChanInv, TypeOK
  <2> QED BY <1>9, <2>1 DEF Acks, Same
<1>10. CASE TakeoverFail(n) \/ ServeFails(n) \/ ReceiveFinale(n)
  BY <1>8, <1>9, <1>10, Failing, Finale
<1> QED BY <1>1, <1>2, <1>3, <1>4, <1>5, <1>6, <1>7, <1>10 DEF OfOne, HandoverStep, TakeoverStep

\* They write to no ring of the old daemon, and nothing they take over is given up.
LEMMA OldStays ==
  ASSUME TypeOK, NEW n \in News, OfOne(n)
  PROVE  /\ UNCHANGED <<kbuf, produced, status[Old], ring[Old]>>
         /\ \A s \in Sessions : status[n][s] # "none" => status'[n][s] # "none"
<1> USE DEF kernel, history, hosts, server, handing, wire, taking, HGoto, NGoto
<1>1. ASSUME NEW s \in Sessions, AdoptSession(n, s)
      PROVE  /\ UNCHANGED <<kbuf, produced, status[Old], ring[Old]>>
             /\ \A r \in Sessions : status[n][r] # "none" => status'[n][r] # "none"
  BY <1>1, NewsAssumption DEF AdoptSession, TypeOK, Daemons
<1>2. CASE ~ \E s \in Sessions : AdoptSession(n, s)
  <2>1. UNCHANGED <<kbuf, produced, status, ring>>
    BY <1>2 DEF OfOne, HandoverStep, TakeoverStep, Connect, OnHandoverReq, HandoverStop, HandoverClose, HandoverList,
              HandoverDial, HandoverFinale, HandoverAck, HandoverFail, Relisten, ReceiveSession, ReceiveFinale, Listen,
              TakeoverFail, ServeFails, Retry, HandoverPause, HandoverStream, RollbackResume
  <2> QED BY <2>1
<1> QED BY <1>1, <1>2

-----------------------------------------------------------------------------
(* Where the two processes are. *)

\* Nothing of it moves.
LEMMA PhaseSame ==
  ASSUME PhaseInv, WorkInv, UNCHANGED <<hpc, list, todo, npc, acked, got, chan, handedOver, oldUp>>
  PROVE  PhaseInv' /\ WorkInv'
<1>1. PhaseInv'
  BY DEF PhaseInv, Phase
<1>2. \A n \in News : Mail(n)' = Mail(n)
  BY DEF Mail
<1> QED BY <1>1, <1>2 DEF WorkInv, Work

\* The steps of the two processes keep to the protocol.
LEMMA PhaseNext ==
  ASSUME TypeOK, ChanInv, PhaseInv, WorkInv, HoldInv, [Next]_vars
  PROVE  PhaseInv'
<1> USE DEF kernel, history, hosts, server, handing, wire, taking, HGoto, NGoto, Before, Taking
<1>1. ASSUME NEW s \in Sessions, ChildWrite(s) \/ ChildDie(s) \/ ConnCleanup(s) \/ LateSpawn(s)
      PROVE  PhaseInv'
  BY <1>1, PhaseSame DEF ChildWrite, ChildDie, ConnCleanup, LateSpawn
<1>2. ASSUME NEW d \in Daemons, NEW s \in Sessions, PumpRead(d, s) \/ PumpEnd(d, s)
      PROVE  PhaseInv'
  BY <1>2, PhaseSame DEF PumpRead, PumpEnd
<1>3. ASSUME NEW n \in News, NEW s \in Sessions, AdoptSession(n, s)
      PROVE  PhaseInv'
  BY <1>3, PhaseSame DEF AdoptSession
<1>4. CASE Retire
  <2>1. /\ handedOver' /\ UNCHANGED <<hpc, acked, handedOver>>
        /\ \A n \in News : npc'[n] = IF npc[n] = "asking" THEN "failed" ELSE npc[n]
    BY <1>4, Retires
  <2>2. ASSUME NEW n \in News PROVE Phase(n)'
    <3>1. Phase(n)
      BY DEF PhaseInv
    <3> QED BY <2>1, <3>1 DEF Phase
  <2> QED BY <2>1, <2>2 DEF PhaseInv
<1>5. ASSUME NEW n \in News,
             \/ Connect(n) \/ OnHandoverReq(n) \/ HandoverStop(n) \/ HandoverClose(n) \/ HandoverList(n)
             \/ HandoverDial(n) \/ HandoverFinale(n) \/ HandoverAck(n) \/ HandoverFail(n) \/ Relisten(n)
             \/ ReceiveSession(n) \/ ReceiveFinale(n) \/ TakeoverFail(n) \/ Listen(n) \/ ServeFails(n) \/ Retry(n)
             \/ \E s \in Sessions : HandoverPause(n, s) \/ HandoverStream(n, s) \/ RollbackResume(n, s)
      PROVE  Phase(n)'
  <2>0. Phase(n) /\ Work(n)
    BY DEF PhaseInv, WorkInv
  <2>1. CASE Connect(n)
    BY <2>0, <2>1 DEF Connect, Phase, TypeOK
  <2>2. CASE OnHandoverReq(n)
    BY <2>0, <2>2 DEF OnHandoverReq, Phase, TypeOK
  <2>3. CASE HandoverStop(n)
    BY <2>0, <2>3 DEF HandoverStop, Phase, TypeOK
  <2>4. CASE HandoverClose(n)
    BY <2>0, <2>4 DEF HandoverClose, Phase, TypeOK
  <2>5. CASE HandoverList(n)
    BY <2>0, <2>5 DEF HandoverList, Phase, TypeOK
  <2>6. CASE HandoverDial(n)
    BY <2>0, <2>6 DEF HandoverDial, Phase, TypeOK
  <2>7. CASE HandoverFinale(n)
    BY <2>0, <2>7 DEF HandoverFinale, Phase, TypeOK
  <2>8. CASE HandoverAck(n)
    BY <2>0, <2>8 DEF HandoverAck, Phase, TypeOK
  <2>9. CASE HandoverFail(n)
    BY <2>0, <2>9 DEF HandoverFail, Phase, TypeOK
  <2>10. CASE Relisten(n)
    BY <2>0, <2>10 DEF Relisten, Phase, TypeOK
  <2>11. CASE ReceiveSession(n)
    BY <2>0, <2>11 DEF ReceiveSession, Phase, TypeOK
  <2>12. CASE Leaves(n) /\ npc[n] \notin {"off", "asking"}
    BY <2>0, <2>12 DEF Leaves, Phase, TypeOK
  <2>13. CASE Acks(n)
    <3>1. Head(chan[n]) \in Mail(n)
      BY <2>13, MailRead DEF Acks
    <3>2. hpc[n] \in {"ack", "rollback", "rolledback"} \/ n \in acked
      BY <2>0, <2>13, <3>1 DEF Acks, Work
    <3> QED BY <2>0, <2>13, <3>2 DEF Acks, Phase, TypeOK
  <2>14. CASE Listen(n)
    BY <2>0, <2>14 DEF Listen, Phase, TypeOK
  <2>15. CASE Retry(n)
    BY <2>0, <2>15 DEF Retry, Phase, TypeOK
  <2>16. CASE \E s \in Sessions : HandoverPause(n, s) \/ HandoverStream(n, s) \/ RollbackResume(n, s)
    BY <2>0, <2>16 DEF HandoverPause, HandoverStream, RollbackResume, Phase
  <2>17. CASE TakeoverFail(n) \/ ServeFails(n)
    BY <2>12, <2>17, Failing DEF TakeoverFail, ServeFails
  <2>18. CASE ReceiveFinale(n)
    BY <2>12, <2>13, <2>18, Finale DEF ReceiveFinale
  <2> QED BY <1>5, <2>1, <2>2, <2>3, <2>4, <2>5, <2>6, <2>7, <2>8, <2>9, <2>10, <2>11, <2>14, <2>15, <2>16, <2>17, <2>18
<1>7. ASSUME NEW n \in News, OfOne(n)
      PROVE  /\ oldUp' = oldUp /\ (handedOver' = handedOver \/ HandoverAck(n))
             /\ \A k \in News : hpc[k] = "done" => hpc'[k] = "done"
  <2>1. \A k \in News : k # n => hpc'[k] = hpc[k]
    BY <1>7, OthersStay DEF Same
  <2>2. hpc[n] = "done" => hpc'[n] = "done"
    <3>1. Phase(n)
      BY DEF PhaseInv
    <3> QED BY <1>7, <3>1, Failing, Finale
            DEF OfOne, HandoverStep, TakeoverStep, Connect, OnHandoverReq, HandoverStop, HandoverClose, HandoverList,
                HandoverDial, HandoverFinale, HandoverAck, HandoverFail, Relisten, ReceiveSession, ReceiveFinale, Listen,
                TakeoverFail, ServeFails, Retry, HandoverPause, HandoverStream, RollbackResume, AdoptSession, Phase
  <2>3. oldUp' = oldUp /\ (handedOver' = handedOver \/ HandoverAck(n))
    BY <1>7 DEF OfOne, HandoverStep, TakeoverStep, Connect, OnHandoverReq, HandoverStop, HandoverClose, HandoverList,
                HandoverDial, HandoverFinale, HandoverAck, HandoverFail, Relisten, ReceiveSession, ReceiveFinale, Listen,
                TakeoverFail, ServeFails, Retry, HandoverPause, HandoverStream, RollbackResume, AdoptSession
  <2> QED BY <2>1, <2>2, <2>3
<1>8. ASSUME NEW n \in News, OfOne(n), Phase(n)'
      PROVE  PhaseInv'
  <2>1. ASSUME NEW k \in News, k # n PROVE Phase(k)'
    <3>1. Same(k) /\ Phase(k)
      BY <1>8, <2>1, OthersStay DEF PhaseInv
    <3>2. handedOver => handedOver'
      BY <1>7, <1>8 DEF HandoverAck
    <3> QED BY <3>1, <3>2 DEF Same, Phase
  <2>2. handedOver' => \E k \in News : hpc'[k] = "done"
    <3>1. CASE HandoverAck(n)
      BY <3>1 DEF HandoverAck, TypeOK
    <3>2. CASE handedOver' = handedOver
      BY <1>7, <1>8, <3>2 DEF PhaseInv
    <3> QED BY <1>7, <1>8, <3>1, <3>2
  <2>3. ~oldUp' => handedOver'
    BY <1>7, <1>8 DEF PhaseInv, HandoverAck
  <2> QED BY <1>8, <2>1, <2>2, <2>3 DEF PhaseInv
<1>9. ASSUME NEW n \in News, OfOne(n)
      PROVE  PhaseInv'
  <2>1. CASE \E s \in Sessions : AdoptSession(n, s)
    BY <1>3, <2>1
  <2>2. CASE ~ \E s \in Sessions : AdoptSession(n, s)
    <3>1. Phase(n)'
      BY <1>5, <1>9, <2>2 DEF OfOne, HandoverStep, TakeoverStep
    <3> QED BY <1>8, <1>9, <3>1
  <2> QED BY <2>1, <2>2
<1>6. CASE UNCHANGED vars
  BY <1>6, PhaseSame DEF vars
<1> QED
  BY <1>1, <1>2, <1>4, <1>6, <1>9 DEF Next, PumpStep, OfOne, Settled

\* The loops of the handover, and the channel, keep in step with them.
LEMMA WorkNext ==
  ASSUME TypeOK, ChanInv, PhaseInv, WorkInv, HoldInv, [Next]_vars
  PROVE  WorkInv'
<1> USE DEF kernel, history, hosts, server, handing, wire, taking, HGoto, NGoto, Before, Taking
<1>1. ASSUME NEW s \in Sessions, ChildWrite(s) \/ ChildDie(s) \/ ConnCleanup(s) \/ LateSpawn(s)
      PROVE  WorkInv'
  BY <1>1, PhaseSame DEF ChildWrite, ChildDie, ConnCleanup, LateSpawn
<1>2. ASSUME NEW d \in Daemons, NEW s \in Sessions, PumpRead(d, s) \/ PumpEnd(d, s)
      PROVE  WorkInv'
  BY <1>2, PhaseSame DEF PumpRead, PumpEnd
<1>3. ASSUME NEW n \in News, NEW s \in Sessions, AdoptSession(n, s)
      PROVE  WorkInv'
  BY <1>3, PhaseSame DEF AdoptSession
<1>4. CASE Retire
  <2>1. \A n \in News : Mail(n)' = Mail(n)
    BY <1>4, Retires DEF Mail
  <2>2. UNCHANGED <<hpc, list, todo, acked, got>>
        /\ \A n \in News : npc'[n] = IF npc[n] = "asking" THEN "failed" ELSE npc[n]
    BY <1>4, Retires
  <2> QED BY <2>1, <2>2 DEF WorkInv, Work
<1>5. ASSUME NEW n \in News,
             \/ Connect(n) \/ OnHandoverReq(n) \/ HandoverStop(n) \/ HandoverClose(n) \/ HandoverList(n)
             \/ HandoverDial(n) \/ HandoverFinale(n) \/ HandoverAck(n) \/ HandoverFail(n) \/ Relisten(n)
             \/ ReceiveSession(n) \/ ReceiveFinale(n) \/ TakeoverFail(n) \/ Listen(n) \/ ServeFails(n) \/ Retry(n)
             \/ \E s \in Sessions : HandoverPause(n, s) \/ HandoverStream(n, s) \/ RollbackResume(n, s)
      PROVE  Work(n)'
  <2>0. Phase(n) /\ Work(n)
    BY DEF PhaseInv, WorkInv
  <2>20. ASSUME chan' = chan PROVE Mail(n)' = Mail(n)
    BY <2>20, MailSame
  <2>1. CASE Connect(n)
    <3>1. Mail(n)' = Mail(n) /\ npc'[n] = "asking" /\ UNCHANGED <<hpc, list, todo, acked, got>>
      BY <2>1, <2>20 DEF Connect, TypeOK
    <3> QED BY <2>0, <2>1, <3>1 DEF Connect, Work
  <2>2. CASE OnHandoverReq(n)
    <3>1. Mail(n)' = Mail(n) /\ npc'[n] = "wait" /\ hpc'[n] = "stop" /\ hpc[n] = "idle" /\ UNCHANGED <<list, todo, acked, got>>
      BY <2>0, <2>2, <2>20 DEF OnHandoverReq, TypeOK, Phase
    <3> QED BY <2>0, <2>2, <3>1 DEF OnHandoverReq, Work
  <2>3. CASE HandoverStop(n)
    <3>1. Mail(n)' = Mail(n) /\ hpc'[n] = "close" /\ UNCHANGED <<npc, list, todo, acked, got>>
      BY <2>3, <2>20 DEF HandoverStop, TypeOK
    <3> QED BY <2>0, <2>3, <3>1 DEF HandoverStop, Work
  <2>4. CASE HandoverClose(n)
    <3>1. Mail(n)' = Mail(n) /\ npc'[n] = npc[n] /\ hpc'[n] = "list" /\ UNCHANGED <<list, todo, acked, got>>
      BY <2>0, <2>4, <2>20 DEF HandoverClose, TypeOK, Phase
    <3> QED BY <2>0, <2>4, <3>1 DEF HandoverClose, Work
  <2>5. CASE HandoverList(n)
    <3>1. Mail(n)' = Mail(n) /\ hpc'[n] = "pause" /\ todo'[n] = list'[n] /\ UNCHANGED <<npc, acked, got>>
      BY <2>5, <2>20 DEF HandoverList, TypeOK
    <3> QED BY <2>0, <2>5, <3>1 DEF HandoverList, Work
  <2>6. CASE HandoverDial(n)
    <3>1. Mail(n)' = Mail(n) /\ todo'[n] = list[n] /\ UNCHANGED <<list, acked, got>>
      BY <2>6, <2>20 DEF HandoverDial, TypeOK
    <3>2. hpc[n] = "pause" /\ hpc'[n] \in {"stream", "rollback"} /\ npc[n] \in {"wait", "failed"}
      BY <2>0, <2>6 DEF HandoverDial, TypeOK, Phase
    <3> QED BY <2>0, <3>1, <3>2 DEF Work
  <2>7. CASE HandoverFinale(n)
    <3>1. IsFiniteSet(list[n])
      BY SessionsAssumption, FS_Subset DEF TypeOK
    <3>2. [count |-> Cardinality(list[n])] \in Msg
      BY <3>1, FS_CardinalityType, MsgKinds
    <3>3. Mail(n)' = Mail(n) \cup {[count |-> Cardinality(list[n])]}
      BY <2>7, <3>2, MailWrite DEF HandoverFinale
    <3>4. hpc'[n] = "ack" /\ npc[n] = "recv" /\ todo[n] = {} /\ UNCHANGED <<npc, list, todo, acked, got>>
      BY <2>7 DEF HandoverFinale, TypeOK
    <3> QED BY <2>0, <3>3, <3>4 DEF Work
  <2>8. CASE HandoverAck(n)
    <3>1. Mail(n)' = Mail(n) /\ hpc'[n] = "done" /\ n \in acked /\ UNCHANGED <<npc, list, todo, acked, got>>
      BY <2>8, <2>20 DEF HandoverAck, TypeOK
    <3> QED BY <2>0, <2>8, <3>1 DEF HandoverAck, Work
  <2>9. CASE HandoverFail(n)
    <3>1. Mail(n)' = Mail(n) /\ hpc'[n] = "rollback" /\ todo'[n] = list[n] /\ UNCHANGED <<npc, list, acked, got>>
      BY <2>9, <2>20 DEF HandoverFail, TypeOK
    <3> QED BY <2>0, <3>1 DEF Work
  <2>10. CASE Relisten(n)
    <3>1. Mail(n)' = Mail(n) /\ hpc'[n] = "rolledback" /\ todo[n] = {} /\ UNCHANGED <<npc, list, todo, acked, got>>
      BY <2>10, <2>20 DEF Relisten, TypeOK
    <3> QED BY <2>0, <3>1 DEF Work
  <2>11. CASE ReceiveSession(n)
    <3>1. Mail(n)' \subseteq Mail(n) /\ Head(chan[n]) \in Mail(n)
      BY <2>11, MailRead DEF ReceiveSession
    <3>2. npc[n] = "recv" /\ UNCHANGED <<hpc, npc, list, todo, acked>>
      BY <2>11 DEF ReceiveSession
    <3>3. hpc[n] \notin {"idle"} \cup Before
      BY <2>0, <3>2 DEF Phase, Work
    <3> QED BY <2>0, <3>1, <3>2, <3>3 DEF Work
  <2>12. CASE Leaves(n)
    <3>1. Mail(n)' = {} /\ npc'[n] = "failed" /\ UNCHANGED <<hpc, list, todo, acked, got>>
      BY <2>12, MailGone DEF Leaves, TypeOK
    <3> QED BY <2>0, <3>1 DEF Work
  <2>13. CASE Acks(n)
    <3>1. Mail(n)' \subseteq Mail(n)
      BY <2>13, MailRead DEF Acks
    <3>2. n \in acked' /\ npc[n] = "recv" /\ npc'[n] = "adopt" /\ UNCHANGED <<hpc, list, todo, got>>
      BY <2>13 DEF Acks, TypeOK
    <3> QED BY <2>0, <3>1, <3>2 DEF Work
  <2>14. CASE Listen(n)
    <3>1. Mail(n)' = Mail(n) /\ npc'[n] = "serving" /\ UNCHANGED <<hpc, list, todo, acked, got>>
      BY <2>14, <2>20 DEF Listen, TypeOK
    <3> QED BY <2>0, <3>1 DEF Work
  <2>15. CASE Retry(n)
    <3>1. /\ Mail(n)' = Mail(n) /\ npc[n] = "failed" /\ hpc[n] \in {"idle", "rolledback"} /\ hpc'[n] = "idle"
          /\ list'[n] = {} /\ (\A s \in Sessions : got'[n][s] = Missing) /\ UNCHANGED <<todo, acked>>
      BY <2>15, <2>20 DEF Retry, TypeOK
    <3> QED BY <2>0, <3>1 DEF Work
  <2>16. ASSUME NEW s \in Sessions, HandoverPause(n, s) \/ RollbackResume(n, s)
         PROVE  Work(n)'
    <3>1. Mail(n)' = Mail(n) /\ todo'[n] \subseteq todo[n] /\ UNCHANGED <<hpc, npc, list, acked, got>>
      BY <2>16, <2>20 DEF HandoverPause, RollbackResume, TypeOK
    <3> QED BY <2>0, <3>1 DEF Work
  <2>17. ASSUME NEW s \in Sessions, HandoverStream(n, s)
         PROVE  Work(n)'
    <3> DEFINE m == [session |-> s, ring |-> ring[Old][s]]
    <3>1. ring[Old][s] \in 0 .. MaxOut
      BY DEF TypeOK, Daemons
    <3>2. m \in Msg /\ ~IsFinale(m)
      BY <3>1, MsgKinds
    <3>3. WriteCtrl(n, m)
      BY <2>17 DEF HandoverStream
    <3> HIDE DEF m
    <3>4. Mail(n)' = Mail(n) \cup {m}
      BY <3>2, <3>3, MailWrite
    <3>5. hpc[n] = "stream" /\ npc[n] = "recv" /\ todo'[n] \subseteq todo[n] /\ UNCHANGED <<hpc, npc, list, acked, got>>
      BY <2>17 DEF HandoverStream, TypeOK
    <3> QED BY <2>0, <3>2, <3>4, <3>5 DEF Work
  <2>18. CASE TakeoverFail(n) \/ ServeFails(n)
    BY <2>12, <2>18, Failing
  <2>19. CASE ReceiveFinale(n)
    BY <2>12, <2>13, <2>19, Finale
  <2> QED BY <1>5, <2>1, <2>2, <2>3, <2>4, <2>5, <2>6, <2>7, <2>8, <2>9, <2>10, <2>11, <2>14, <2>15, <2>16, <2>17, <2>18, <2>19
<1>7. ASSUME NEW n \in News, OfOne(n)
      PROVE  WorkInv'
  <2>1. ASSUME NEW k \in News, k # n PROVE Work(k)'
    <3>1. Same(k) /\ Work(k)
      BY <1>7, <2>1, OthersStay DEF WorkInv
    <3>2. Mail(k)' = Mail(k)
      BY <3>1, MailSame DEF Same
    <3> QED BY <3>1, <3>2 DEF Same, Work
  <2>2. CASE \E s \in Sessions : AdoptSession(n, s)
    BY <1>3, <2>2
  <2>3. CASE ~ \E s \in Sessions : AdoptSession(n, s)
    <3>1. Work(n)'
      BY <1>5, <1>7, <2>3 DEF OfOne, HandoverStep, TakeoverStep
    <3> QED BY <2>1, <3>1 DEF WorkInv
  <2> QED BY <2>2, <2>3
<1>6. CASE UNCHANGED vars
  BY <1>6, PhaseSame DEF vars
<1> QED
  BY <1>1, <1>2, <1>4, <1>6, <1>7 DEF Next, PumpStep, OfOne, Settled

-----------------------------------------------------------------------------
(* Who has the terminals. *)

\* Every step keeps the kernel's account.
LEMMA HeldNext ==
  ASSUME TypeOK, PhaseInv, HoldInv, [Next]_vars
  PROVE  \A t \in Sessions : Held(t)'
<1> SUFFICES ASSUME NEW t \in Sessions PROVE Held(t)'
  OBVIOUS
<1> USE DEF kernel, history, hosts, server, handing, wire, taking, HGoto, NGoto
<1>a. Held(t)
  BY DEF HoldInv
<1>b. Old \in Daemons /\ News \subseteq Daemons /\ \A n \in News : n # Old
  BY NewsAssumption DEF Daemons
<1>0. ASSUME UNCHANGED <<child, kbuf, holders, status, reading, oldUp>>
      PROVE  Held(t)'
  BY <1>0, <1>a DEF Held
<1>1. ASSUME NEW s \in Sessions, ChildWrite(s)
      PROVE  Held(t)'
  <2>1. child[s] = "alive" /\ (t # s => kbuf'[t] = kbuf[t]) /\ UNCHANGED <<child, holders, status, reading, oldUp>>
    BY <1>1 DEF ChildWrite, TypeOK
  <2>2. CASE t = s
    BY <1>a, <2>1, <2>2 DEF Held
  <2>3. CASE t # s
    BY <1>a, <2>1, <2>3 DEF Held
  <2> QED BY <2>2, <2>3
<1>2. ASSUME child'[t] = child[t] \/ (child[t] = "alive" /\ child'[t] = "dead"),
             UNCHANGED <<kbuf, holders, status, reading, oldUp>>
      PROVE  Held(t)'
  BY <1>2, <1>a DEF Held
<1>3. ASSUME NEW s \in Sessions, ChildDie(s)
      PROVE  Held(t)'
  <2>1. child'[t] = child[t] \/ (child[t] = "alive" /\ child'[t] = "dead")
    BY <1>3 DEF ChildDie, TypeOK
  <2> QED BY <1>2, <1>3, <2>1 DEF ChildDie
<1>4. ASSUME NEW s \in Sessions, ConnCleanup(s)
      PROVE  Held(t)'
  <2>1. child'[t] = child[t] \/ (child[t] = "alive" /\ child'[t] = "dead")
    <3>1. CASE s \notin Linger /\ status[Old][s] = "running" /\ child[s] = "alive"
      <4>1. child' = [child EXCEPT ![s] = "dead"]
        BY <1>4, <3>1 DEF ConnCleanup
      <4> QED BY <3>1, <4>1 DEF TypeOK
    <3>2. CASE ~(s \notin Linger /\ status[Old][s] = "running" /\ child[s] = "alive")
      BY <1>4, <3>2 DEF ConnCleanup
    <3> QED BY <3>1, <3>2
  <2> QED BY <1>2, <1>4, <2>1 DEF ConnCleanup
<1>5. ASSUME NEW s \in Sessions, LateSpawn(s)
      PROVE  Held(t)'
  <2>1. /\ oldUp /\ child[s] = "none" /\ UNCHANGED <<kbuf, oldUp>>
        /\ child'[s] = "alive" /\ holders'[s] = {Old} /\ status'[Old][s] = "running" /\ reading'[Old] = reading[Old] \cup {s}
        /\ t # s => child'[t] = child[t] /\ holders'[t] = holders[t]
        /\ \A d \in Daemons : (d # Old \/ t # s) => status'[d][t] = status[d][t]
    BY <1>5, <1>b DEF LateSpawn, TypeOK
  <2>2. CASE t = s
    BY <1>a, <1>b, <2>1, <2>2 DEF Held
  <2>3. CASE t # s
    BY <1>a, <1>b, <2>1, <2>3 DEF Held
  <2> QED BY <2>2, <2>3
<1>6. ASSUME NEW d \in Daemons, NEW s \in Sessions, PumpRead(d, s)
      PROVE  Held(t)'
  <2>1. kbuf[s] > 0 /\ (t # s => kbuf'[t] = kbuf[t]) /\ UNCHANGED <<child, holders, status, reading, oldUp>>
    BY <1>6 DEF PumpRead, TypeOK
  <2>2. CASE t = s
    BY <1>a, <2>1, <2>2 DEF Held
  <2>3. CASE t # s
    BY <1>a, <2>1, <2>3 DEF Held
  <2> QED BY <2>2, <2>3
<1>7. ASSUME NEW d \in Daemons, NEW s \in Sessions, PumpEnd(d, s)
      PROVE  Held(t)'
  <2>1. /\ child[s] = "dead" /\ kbuf[s] = 0 /\ status[d][s] = "running" /\ UNCHANGED <<child, kbuf, oldUp>>
        /\ \A e \in Daemons : e # d \/ t # s => status'[e][t] = status[e][t]
        /\ status'[d][s] = "exited" /\ reading'[Old] \subseteq reading[Old]
        /\ t # s => holders'[t] = holders[t]
        /\ holders'[s] = holders[s] \ {d}
    <3>1. /\ child[s] = "dead" /\ kbuf[s] = 0 /\ status[d][s] = "running"
          /\ UNCHANGED <<child, kbuf, oldUp>>
          /\ \A e \in Daemons : reading'[e] = IF e = d THEN reading[e] \ {s} ELSE reading[e]
      BY <1>7, PumpEnds
    <3>2. \A e \in Daemons : status'[e][t] = IF e = d /\ t = s THEN "exited" ELSE status[e][t]
      BY <1>7, PumpEnds
    <3>4. \A r \in Sessions : holders'[r] = IF r = s THEN holders[r] \ {d} ELSE holders[r]
      BY <1>7, PumpEnds
    <3>5. \A e \in Daemons, r \in Sessions : status'[e][r] = IF e = d /\ r = s THEN "exited" ELSE status[e][r]
      BY <1>7, PumpEnds
    <3>3. status'[d][s] = "exited" /\ (t # s => holders'[t] = holders[t]) /\ holders'[s] = holders[s] \ {d}
      BY <3>4, <3>5
    <3> QED BY <1>b, <3>1, <3>2, <3>3
  <2>2. CASE t = s
    BY <1>a, <1>b, <2>1, <2>2 DEF Held
  <2>3. CASE t # s
    BY <1>a, <1>b, <2>1, <2>3 DEF Held
  <2> QED BY <2>2, <2>3
<1>8. CASE Retire
  <2>1. ~oldUp' /\ Closes(Old, t) /\ reading'[Old] = {} /\ UNCHANGED <<kbuf, status>>
    BY <1>8, Retires
  <2> QED BY <1>a, <2>1 DEF Held, Closes
<1>9. ASSUME NEW n \in News, Leaves(n)
      PROVE  Held(t)'
  <2>1. Closes(n, t) /\ reading'[Old] = reading[Old] /\ UNCHANGED <<kbuf, status, oldUp>>
    BY <1>9, <1>b DEF Leaves, TypeOK
  <2> QED BY <1>a, <1>b, <2>1 DEF Held, Closes
<1>10. ASSUME NEW n \in News, TakeoverFail(n) \/ ServeFails(n) \/ ReceiveFinale(n)
       PROVE  Held(t)'
  <2>1. Leaves(n) \/ Acks(n)
    BY <1>10, Failing, Finale
  <2>2. CASE Acks(n)
    BY <1>0, <2>2 DEF Acks
  <2> QED BY <1>9, <2>1, <2>2
<1>11. ASSUME NEW n \in News,
             \/ Connect(n) \/ OnHandoverReq(n) \/ HandoverStop(n) \/ HandoverClose(n) \/ HandoverList(n)
             \/ HandoverDial(n) \/ HandoverFinale(n) \/ HandoverAck(n) \/ HandoverFail(n) \/ Relisten(n)
             \/ ReceiveSession(n) \/ Listen(n) \/ Retry(n)
       PROVE  Held(t)'
  BY <1>0, <1>11 DEF Connect, OnHandoverReq, HandoverStop, HandoverClose, HandoverList, HandoverDial, HandoverFinale,
        HandoverAck, HandoverFail, Relisten, ReceiveSession, Listen, Retry
<1>12. ASSUME NEW n \in News, NEW s \in Sessions, HandoverPause(n, s) \/ RollbackResume(n, s)
       PROVE  Held(t)'
  <2>1. oldUp /\ UNCHANGED <<child, kbuf, holders, status, oldUp>>
    BY <1>12 DEF HandoverPause, RollbackResume
  <2> QED BY <1>a, <2>1 DEF Held
<1>13. ASSUME NEW n \in News, NEW s \in Sessions, HandoverStream(n, s)
       PROVE  Held(t)'
  <2>1. holders[t] \subseteq holders'[t] /\ UNCHANGED <<child, kbuf, status, reading, oldUp>>
    BY <1>13 DEF HandoverStream, TypeOK
  <2> QED BY <1>a, <2>1 DEF Held
<1>14. ASSUME NEW n \in News, NEW s \in Sessions, AdoptSession(n, s)
       PROVE  Held(t)'
  <2>1. /\ reading'[Old] = reading[Old] /\ UNCHANGED <<child, kbuf, holders, oldUp>>
        /\ \A d \in Daemons : status'[d][t] = status[d][t] \/ (d # Old /\ status'[d][t] = "running")
        /\ status'[Old][t] = status[Old][t]
    BY <1>14, <1>b DEF AdoptSession, TypeOK
  <2> QED BY <1>a, <1>b, <2>1 DEF Held
<1>15. CASE UNCHANGED vars
  BY <1>0, <1>15 DEF vars
<1> QED
  BY <1>1, <1>3, <1>4, <1>5, <1>6, <1>7, <1>8, <1>10, <1>11, <1>12, <1>13, <1>14, <1>15
     DEF Next, PumpStep, HandoverStep, TakeoverStep, Settled

\* What the new process was sent stays its own.
LEMMA MovedNext ==
  ASSUME TypeOK, ChanInv, PhaseInv, WorkInv, HoldInv, [Next]_vars
  PROVE  \A k \in News, t \in Sessions : Moved(k, t)'
<1> SUFFICES ASSUME NEW k \in News, NEW t \in Sessions PROVE Moved(k, t)'
  OBVIOUS
<1> USE DEF kernel, history, hosts, server, handing, wire, taking, HGoto, NGoto
<1>a. Held(t) /\ Moved(k, t) /\ Phase(k) /\ Work(k)
  BY DEF HoldInv, PhaseInv, WorkInv
<1>b. Old \in Daemons /\ k \in Daemons /\ k # Old
  BY NewsAssumption DEF Daemons
<1>c. ASSUME UNCHANGED <<got, chan>> PROVE Sent(k, t)' = Sent(k, t)
  BY <1>c, SentSame
<1>0. ASSUME UNCHANGED <<child, kbuf, holders, status, reading, list, todo, hpc, npc, acked, got, chan>>
      PROVE  Moved(k, t)'
  BY <1>0, <1>a, <1>c DEF Moved
<1>1. ASSUME NEW s \in Sessions, ChildWrite(s)
      PROVE  Moved(k, t)'
  <2>1. /\ child[s] = "alive" /\ (t # s => kbuf'[t] = kbuf[t])
        /\ UNCHANGED <<child, holders, status, reading, list, todo, hpc, npc, acked, got>> /\ Sent(k, t)' = Sent(k, t)
    BY <1>1, <1>c DEF ChildWrite, TypeOK
  <2>2. CASE t = s
    BY <1>a, <2>1, <2>2 DEF Moved
  <2>3. CASE t # s
    BY <1>a, <2>1, <2>3 DEF Moved
  <2> QED BY <2>2, <2>3
<1>2. ASSUME child'[t] = child[t] \/ (child[t] = "alive" /\ child'[t] = "dead"),
             UNCHANGED <<kbuf, holders, status, reading, list, todo, hpc, npc, acked, got, chan>>
      PROVE  Moved(k, t)'
  BY <1>2, <1>a, <1>c DEF Moved
<1>3. ASSUME NEW s \in Sessions, ChildDie(s)
      PROVE  Moved(k, t)'
  <2>1. child'[t] = child[t] \/ (child[t] = "alive" /\ child'[t] = "dead")
    BY <1>3 DEF ChildDie, TypeOK
  <2> QED BY <1>2, <1>3, <2>1 DEF ChildDie
<1>4. ASSUME NEW s \in Sessions, ConnCleanup(s)
      PROVE  Moved(k, t)'
  <2>1. child'[t] = child[t] \/ (child[t] = "alive" /\ child'[t] = "dead")
    <3>1. CASE s \notin Linger /\ status[Old][s] = "running" /\ child[s] = "alive"
      <4>1. child' = [child EXCEPT ![s] = "dead"]
        BY <1>4, <3>1 DEF ConnCleanup
      <4> QED BY <3>1, <4>1 DEF TypeOK
    <3>2. CASE ~(s \notin Linger /\ status[Old][s] = "running" /\ child[s] = "alive")
      BY <1>4, <3>2 DEF ConnCleanup
    <3> QED BY <3>1, <3>2
  <2> QED BY <1>2, <1>4, <2>1 DEF ConnCleanup
<1>5. ASSUME NEW s \in Sessions, LateSpawn(s)
      PROVE  Moved(k, t)'
  <2>1. /\ child[s] = "none" /\ UNCHANGED <<kbuf, list, todo, hpc, npc, acked, got>> /\ Sent(k, t)' = Sent(k, t)
        /\ (t # s => child'[t] = child[t] /\ holders'[t] = holders[t])
        /\ status'[k][t] = status[k][t] /\ reading'[k] = reading[k]
        /\ (status'[Old][t] = status[Old][t] \/ (t = s /\ status'[Old][t] = "running"))
    BY <1>5, <1>b, <1>c DEF LateSpawn, TypeOK
  <2>2. CASE t = s
    <3>1. t \notin list[k]
      BY <1>a, <2>1, <2>2 DEF Held, Moved
    <3> QED BY <1>a, <2>1, <3>1 DEF Moved
  <2>3. CASE t # s
    BY <1>a, <2>1, <2>3 DEF Moved
  <2> QED BY <2>2, <2>3
<1>6. ASSUME NEW d \in Daemons, NEW s \in Sessions, PumpRead(d, s)
      PROVE  Moved(k, t)'
  <2>1. /\ kbuf[s] > 0 /\ (t # s => kbuf'[t] = kbuf[t]) /\ Sent(k, t)' = Sent(k, t)
        /\ UNCHANGED <<child, holders, status, reading, list, todo, hpc, npc, acked, got>>
    BY <1>6, <1>c DEF PumpRead, TypeOK
  <2>2. CASE t = s
    BY <1>a, <2>1, <2>2 DEF Moved
  <2>3. CASE t # s
    BY <1>a, <2>1, <2>3 DEF Moved
  <2> QED BY <2>2, <2>3
<1>7. ASSUME NEW d \in Daemons, NEW s \in Sessions, PumpEnd(d, s)
      PROVE  Moved(k, t)'
  <2>1. /\ child[s] = "dead" /\ kbuf[s] = 0 /\ status[d][s] = "running"
        /\ UNCHANGED <<child, kbuf, list, todo, hpc, npc, acked, got, chan>>
    BY <1>7, PumpEnds
  <2>2. \A e \in Daemons, r \in Sessions : status'[e][r] = IF e = d /\ r = s THEN "exited" ELSE status[e][r]
    BY <1>7, PumpEnds
  <2>3. \A r \in Sessions : holders'[r] = IF r = s THEN holders[r] \ {d} ELSE holders[r]
    BY <1>7, PumpEnds
  <2>4. \A e \in Daemons : reading'[e] = IF e = d THEN reading[e] \ {s} ELSE reading[e]
    BY <1>7, PumpEnds
  <2>5. /\ status'[k][t] # "none" <=> status[k][t] # "none"
        /\ status'[Old][t] # "none" <=> status[Old][t] # "none"
        /\ t # s => holders'[t] = holders[t]
        /\ reading'[k] \subseteq reading[k]
    BY <1>b, <2>1, <2>2, <2>3, <2>4
  <2>6. Sent(k, t)' = Sent(k, t)
    BY <1>c, <2>1
  <2>7. CASE t = s
    BY <1>a, <2>1, <2>5, <2>6, <2>7 DEF Moved
  <2>8. CASE t # s
    BY <1>a, <2>1, <2>5, <2>6, <2>8 DEF Moved
  <2> QED BY <2>7, <2>8
<1>8. CASE Retire
  <2>1. /\ Closes(Old, t) /\ reading'[k] = reading[k] /\ UNCHANGED <<kbuf, status, list, todo, hpc, acked, got, chan>>
        /\ npc'[k] = IF npc[k] = "asking" THEN "failed" ELSE npc[k]
    BY <1>8, Retires
  <2>2. Sent(k, t)' = Sent(k, t)
    BY <1>c, <2>1
  <2> QED BY <1>a, <1>b, <2>1, <2>2 DEF Moved, Closes, Taking
<1>9. ASSUME Leaves(k)
      PROVE  Moved(k, t)'
  <2>1. /\ npc'[k] = "failed" /\ Mail(k)' = {} /\ reading'[k] = {}
        /\ UNCHANGED <<status, list, todo, hpc, acked, got>>
    <3>1. Mail(k)' = {}
      BY <1>9, MailGone DEF Leaves
    <3>2. npc'[k] = "failed" /\ reading'[k] = {}
      BY <1>9, <1>b DEF Leaves, TypeOK
    <3> QED BY <1>9, <3>1, <3>2 DEF Leaves
  <2>2. Sent(k, t)' => Sent(k, t)
    BY <2>1 DEF Sent
  <2> QED BY <1>a, <2>1, <2>2 DEF Moved, Taking
<1>10. ASSUME Acks(k)
       PROVE  Moved(k, t)'
  <2>1. /\ Mail(k)' \subseteq Mail(k) /\ Mail(k) \subseteq Mail(k)' \cup {Head(chan[k])}
        /\ Head(chan[k]) \in Msg /\ IsFinale(Head(chan[k]))
    BY <1>10, MailRead DEF Acks
  <2>2. ~IsState(Head(chan[k]))
    BY <2>1, MsgKinds
  <2>3. /\ npc[k] = "recv" /\ npc'[k] = "adopt" /\ acked' = acked \cup {k}
        /\ UNCHANGED <<child, kbuf, holders, status, reading, list, todo, hpc, got>>
    BY <1>10 DEF Acks, TypeOK
  <2>4. Sent(k, t)' <=> Sent(k, t)
    BY <2>1, <2>2, <2>3 DEF Sent
  <2> QED BY <1>a, <2>3, <2>4 DEF Moved, Taking
<1>11. ASSUME TakeoverFail(k) \/ ServeFails(k) \/ ReceiveFinale(k)
       PROVE  Moved(k, t)'
  <2>1. Leaves(k) \/ Acks(k)
    BY <1>11, Failing, Finale
  <2> QED BY <1>b, <1>9, <1>10, <2>1
<1>12. ASSUME ReceiveSession(k)
       PROVE  Moved(k, t)'
  <2> DEFINE m == Head(chan[k])
  <2>1. /\ Mail(k)' \subseteq Mail(k) /\ Mail(k) \subseteq Mail(k)' \cup {m}
        /\ m \in Msg /\ m \in Mail(k)
    BY <1>b, <1>12, MailRead DEF ReceiveSession
  <2>2. IsState(m) /\ got' = [got EXCEPT ![k][m.session] = m.ring]
    BY <1>b, <1>12 DEF ReceiveSession, IsState
  <2>3. UNCHANGED <<child, kbuf, holders, status, reading, list, todo, hpc, npc, acked>>
    BY <1>12 DEF ReceiveSession
  <2> HIDE DEF m
  <2>4. m.session \in Sessions /\ m.ring # Missing
    BY <2>1, <2>2, MsgKinds, MaxOutAssumption DEF Missing
  <2>5. got'[k][t] = IF t = m.session THEN m.ring ELSE got[k][t]
    BY <2>2, <2>4 DEF TypeOK
  <2>6. Sent(k, t)' => Sent(k, t)
    BY <2>1, <2>2, <2>5 DEF Sent
  <2>7. Sent(k, t) => Sent(k, t)'
    BY <2>1, <2>2, <2>4, <2>5 DEF Sent
  <2>8. got[k][t] # Missing => got'[k][t] # Missing
    BY <2>4, <2>5
  <2> QED BY <1>a, <2>3, <2>6, <2>7, <2>8 DEF Moved
<1>13. ASSUME NEW s \in Sessions, HandoverStream(k, s)
       PROVE  Moved(k, t)'
  <2> DEFINE m == [session |-> s, ring |-> ring[Old][s]]
  <2>1. ring[Old][s] \in 0 .. MaxOut
    BY <1>b DEF TypeOK
  <2>2. m \in Msg /\ IsState(m) /\ m.session = s
    BY <2>1, MsgKinds
  <2>3. WriteCtrl(k, m)
    BY <1>b, <1>13 DEF HandoverStream
  <2> HIDE DEF m
  <2>4. Mail(k)' = Mail(k) \cup {m}
    BY <2>2, <2>3, MailWrite
  <2>5. /\ oldUp /\ hpc[k] = "stream" /\ s \in todo[k] /\ npc[k] = "recv" /\ todo'[k] = todo[k] \ {s}
        /\ UNCHANGED <<child, kbuf, status, reading, list, hpc, npc, acked, got>>
        /\ holders[t] \subseteq holders'[t] /\ (status[Old][s] = "running" => k \in holders'[s])
    BY <1>b, <1>13 DEF HandoverStream, TypeOK
  <2>6. Sent(k, t)' <=> Sent(k, t) \/ t = s
    BY <2>2, <2>4, <2>5 DEF Sent
  <2>7. CASE t # s
    BY <1>a, <2>5, <2>6, <2>7 DEF Moved
  <2>8. CASE t = s
    <3>1. t \in list[k]
      BY <1>a, <2>5, <2>8 DEF Work
    <3>2. status[Old][t] \in {"running", "exited"}
      BY <1>a, <1>b, <3>1 DEF Moved, TypeOK
    <3>3. k \in holders'[t] \/ (child[t] = "dead" /\ kbuf[t] = 0)
      BY <1>a, <1>b, <2>5, <2>8, <3>2 DEF Held
    <3> QED BY <1>a, <2>5, <2>6, <2>8, <3>1, <3>3 DEF Moved, Sending, Taking
  <2> QED BY <2>7, <2>8
<1>14. ASSUME HandoverFinale(k)
       PROVE  Moved(k, t)'
  <2>1. IsFiniteSet(list[k])
    BY SessionsAssumption, FS_Subset DEF TypeOK
  <2> DEFINE m == [count |-> Cardinality(list[k])]
  <2>2. m \in Msg /\ ~IsState(m)
    BY <2>1, FS_CardinalityType, MsgKinds
  <2>3. WriteCtrl(k, m)
    BY <1>b, <1>14 DEF HandoverFinale
  <2> HIDE DEF m
  <2>4. Mail(k)' = Mail(k) \cup {m}
    BY <2>2, <2>3, MailWrite
  <2>5. /\ hpc[k] = "stream" /\ hpc'[k] = "ack"
        /\ UNCHANGED <<child, kbuf, holders, status, reading, list, todo, npc, acked, got>>
    BY <1>b, <1>14 DEF HandoverFinale, TypeOK
  <2>6. Sent(k, t)' <=> Sent(k, t)
    BY <2>2, <2>4, <2>5 DEF Sent
  <2> QED BY <1>a, <2>5, <2>6 DEF Moved, Sending
<1>15. ASSUME NEW s \in Sessions, AdoptSession(k, s)
       PROVE  Moved(k, t)'
  <2>1. /\ npc[k] = "adopt" /\ got[k][s] # Missing /\ Sent(k, t)' = Sent(k, t)
        /\ UNCHANGED <<child, kbuf, holders, list, todo, hpc, npc, acked, got>>
    BY <1>b, <1>c, <1>15 DEF AdoptSession, Received
  <2>2. /\ status'[Old][t] = status[Old][t] /\ (t # s => status'[k][t] = status[k][t])
        /\ reading'[k] \subseteq reading[k] \cup {s}
    BY <1>b, <1>15 DEF AdoptSession, TypeOK
  <2>3. k \in acked
    BY <1>a, <2>1 DEF Phase
  <2>4. CASE t = s
    BY <1>a, <2>1, <2>2, <2>3, <2>4 DEF Moved, Taking
  <2>5. CASE t # s
    BY <1>a, <2>1, <2>2, <2>5 DEF Moved
  <2> QED BY <2>4, <2>5
<1>16. ASSUME Retry(k)
       PROVE  Moved(k, t)'
  <2>1. /\ npc[k] = "failed" /\ k \notin acked /\ npc'[k] = "off" /\ hpc'[k] = "idle" /\ list'[k] = {}
        /\ got'[k][t] = Missing /\ UNCHANGED <<child, kbuf, holders, status, reading, todo, chan, acked>>
    BY <1>b, <1>16 DEF Retry, TypeOK
  <2>2. Mail(k)' = {}
    BY <1>a, <2>1, MailSame DEF Work, Taking
  <2>3. ~Sent(k, t)'
    BY <2>1, <2>2 DEF Sent
  <2> QED BY <1>a, <2>1, <2>3 DEF Moved, Taking, Sending
<1>17. ASSUME UNCHANGED <<child, kbuf, holders, status, list, acked, got, chan>>,
              reading'[k] = reading[k],
              npc'[k] \in Taking <=> npc[k] \in Taking,
              hpc[k] \in Sending \cup {"rollback", "rolledback"} => hpc'[k] \in Sending \cup {"rollback", "rolledback"},
              hpc'[k] \in Sending => hpc[k] \in Sending /\ todo'[k] = todo[k]
       PROVE  Moved(k, t)'
  <2>1. Sent(k, t)' = Sent(k, t)
    BY <1>c, <1>17
  <2> QED BY <1>a, <1>17, <2>1 DEF Moved
<1>18. ASSUME \/ Connect(k) \/ OnHandoverReq(k) \/ HandoverStop(k)
             \/ HandoverAck(k) \/ HandoverFail(k) \/ Relisten(k) \/ Listen(k)
       PROVE  Moved(k, t)'
  <2>1. UNCHANGED <<child, kbuf, holders, status, list, acked, got, chan, reading>>
    BY <1>18 DEF Connect, OnHandoverReq, HandoverStop, HandoverAck, HandoverFail, Relisten, Listen
  <2>2. npc'[k] \in Taking <=> npc[k] \in Taking
    BY <1>b, <1>18 DEF Connect, OnHandoverReq, HandoverStop, HandoverAck, HandoverFail, Relisten, Listen, TypeOK, Taking
  <2>3. /\ hpc[k] \in Sending \cup {"rollback", "rolledback"} => hpc'[k] \in Sending \cup {"rollback", "rolledback"}
        /\ hpc'[k] \in Sending => hpc[k] \in Sending /\ todo'[k] = todo[k]
    BY <1>a, <1>b, <1>18 DEF Connect, OnHandoverReq, HandoverStop, HandoverAck, HandoverFail, Relisten, Listen, TypeOK, Sending, Phase
  <2> QED BY <1>17, <2>1, <2>2, <2>3
<1>19. ASSUME HandoverClose(k)
       PROVE  Moved(k, t)'
  <2>1. /\ hpc[k] = "close" /\ hpc'[k] = "list" /\ UNCHANGED <<child, kbuf, holders, status, list, acked, got, chan, reading>>
        /\ npc'[k] = IF npc[k] = "asking" THEN "failed" ELSE npc[k]
    BY <1>b, <1>19 DEF HandoverClose, TypeOK
  <2> QED BY <1>17, <2>1 DEF Sending, Taking
<1>20. ASSUME HandoverList(k)
       PROVE  Moved(k, t)'
  <2>1. /\ hpc[k] = "list" /\ hpc'[k] = "pause" /\ UNCHANGED <<child, kbuf, holders, status, npc, acked, got, chan, reading>>
        /\ (t \in list'[k] => status[Old][t] # "none")
    BY <1>b, <1>20 DEF HandoverList, TypeOK
  <2>2. ~Sent(k, t) /\ ~Sent(k, t)'
    BY <1>a, <1>c, <2>1 DEF Moved, Sending
  <2> QED BY <1>a, <2>1, <2>2 DEF Moved, Sending
<1>21. ASSUME HandoverDial(k)
       PROVE  Moved(k, t)'
  <2>1. /\ hpc[k] = "pause" /\ todo'[k] = list[k] /\ UNCHANGED <<child, kbuf, holders, status, list, acked, got, chan, reading>>
    BY <1>b, <1>21 DEF HandoverDial, TypeOK
  <2>2. ~Sent(k, t) /\ ~Sent(k, t)'
    BY <1>a, <1>c, <2>1 DEF Moved, Sending
  <2>3. npc[k] \notin Taking
    BY <1>a, <2>1 DEF Phase, Before, Taking
  <2> QED BY <1>a, <2>1, <2>2, <2>3 DEF Moved
<1>22. ASSUME NEW s \in Sessions, HandoverPause(k, s) \/ RollbackResume(k, s)
       PROVE  Moved(k, t)'
  <2>1. /\ hpc[k] \in {"pause", "rollback"} /\ UNCHANGED <<child, kbuf, holders, status, list, hpc, npc, acked, got, chan>>
    BY <1>b, <1>22 DEF HandoverPause, RollbackResume
  <2>2. reading'[k] = reading[k]
    BY <1>b, <1>22 DEF HandoverPause, RollbackResume, TypeOK
  <2> QED BY <1>17, <2>1, <2>2 DEF Sending
<1>23. CASE UNCHANGED vars
  BY <1>0, <1>23 DEF vars
<1>24. ASSUME NEW n \in News, n # k, OfOne(n)
       PROVE  Moved(k, t)'
  <2>1. /\ Same(k) /\ status'[Old] = status[Old] /\ kbuf' = kbuf
    BY <1>24, OthersStay, OldStays
  <2>2. Sent(k, t)' = Sent(k, t)
    BY <2>1, SentSame DEF Same
  <2>3. /\ k \in holders[t] => k \in holders'[t]
        /\ child[t] = "dead" => child'[t] = "dead"
    <3>1. CASE Leaves(n)
      <4>1. Closes(n, t)
        BY <3>1 DEF Leaves
      <4> QED BY <1>24, <4>1 DEF Closes
    <3>2. CASE Acks(n)
      BY <3>2 DEF Acks
    <3>3. ASSUME NEW s \in Sessions, HandoverStream(n, s)
          PROVE  holders[t] \subseteq holders'[t] /\ child' = child
      BY <3>3 DEF HandoverStream, TypeOK
    <3>4. CASE ~(\E s \in Sessions : HandoverStream(n, s)) /\ ~(TakeoverFail(n) \/ ServeFails(n) \/ ReceiveFinale(n))
      BY <1>24, <3>4 DEF OfOne, HandoverStep, TakeoverStep, Connect, OnHandoverReq, HandoverStop, HandoverClose, HandoverList,
                HandoverDial, HandoverFinale, HandoverAck, HandoverFail, Relisten, ReceiveSession, Listen,
                Retry, HandoverPause, RollbackResume, AdoptSession
    <3> QED BY <3>1, <3>2, <3>3, <3>4, Failing, Finale
  <2> QED BY <1>a, <2>1, <2>2, <2>3 DEF Moved, Same, Taking
<1>25. ASSUME NEW n \in News, OfOne(n)
       PROVE  Moved(k, t)'
  <2>1. CASE n = k
    BY <1>11, <1>12, <1>13, <1>14, <1>15, <1>16, <1>18, <1>19, <1>20, <1>21, <1>22, <1>25, <2>1
       DEF OfOne, HandoverStep, TakeoverStep
  <2> QED BY <1>24, <1>25, <2>1
<1> QED
  BY <1>1, <1>3, <1>4, <1>5, <1>6, <1>7, <1>8, <1>23, <1>25 DEF Next, PumpStep, OfOne, Settled

-----------------------------------------------------------------------------
(* The old daemon's readers and its socket. *)

\* Two handovers that overlapped have done so for good.
LEMMA OverlapStays ==
  ASSUME [Next]_vars, overlapped
  PROVE  overlapped'
<1> USE DEF kernel, history
<1>1. ASSUME NEW n \in News, OfOne(n)
      PROVE  overlapped'
  BY <1>1 DEF OfOne, HandoverStep, TakeoverStep, Connect, OnHandoverReq, HandoverStop, HandoverClose, HandoverList,
              HandoverDial, HandoverFinale, HandoverAck, HandoverFail, Relisten, ReceiveSession, ReceiveFinale, Listen,
              TakeoverFail, ServeFails, Retry, HandoverPause, HandoverStream, RollbackResume, AdoptSession
<1>2. ASSUME NEW s \in Sessions, ChildWrite(s) \/ ChildDie(s) \/ ConnCleanup(s) \/ LateSpawn(s)
      PROVE  overlapped'
  BY <1>2 DEF ChildWrite, ChildDie, ConnCleanup, LateSpawn
<1>3. ASSUME NEW d \in Daemons, NEW s \in Sessions, PumpRead(d, s) \/ PumpEnd(d, s)
      PROVE  overlapped'
  BY <1>3 DEF PumpRead, PumpEnd
<1>4. CASE Retire \/ UNCHANGED vars
  BY <1>4 DEF Retire, vars
<1> QED BY <1>1, <1>2, <1>3, <1>4 DEF Next, PumpStep, OfOne, Settled

\* A handover is under way only from the request that began it.
LEMMA Begins ==
  ASSUME TypeOK, ChanInv, [Next]_vars, NEW n \in News, UnderWay(n)', ~UnderWay(n)
  PROVE  OnHandoverReq(n)
<1> USE DEF kernel, history, hosts, server, handing, wire, taking, HGoto, NGoto
<1>0. ASSUME hpc'[n] = hpc[n] PROVE FALSE
  BY <1>0 DEF UnderWay
<1>1. ASSUME NEW m \in News, OfOne(m)
      PROVE  OnHandoverReq(n)
  <2>1. CASE m # n
    BY <1>0, <1>1, <2>1, OthersStay DEF Same
  <2>2. CASE m = n
    <3>1. CASE HandoverStop(n) \/ HandoverClose(n) \/ HandoverList(n) \/ HandoverDial(n) \/ HandoverFinale(n)
               \/ HandoverAck(n) \/ HandoverFail(n) \/ Relisten(n) \/ Retry(n)
      BY <3>1 DEF HandoverStop, HandoverClose, HandoverList, HandoverDial, HandoverFinale, HandoverAck, HandoverFail,
                  Relisten, Retry, UnderWay, TypeOK
    <3>2. CASE Connect(n) \/ ReceiveSession(n) \/ ReceiveFinale(n) \/ Listen(n) \/ TakeoverFail(n) \/ ServeFails(n)
               \/ \E s \in Sessions : HandoverPause(n, s) \/ HandoverStream(n, s) \/ RollbackResume(n, s) \/ AdoptSession(n, s)
      BY <1>0, <3>2 DEF Connect, ReceiveSession, ReceiveFinale, Listen, TakeoverFail, ServeFails,
                  HandoverPause, HandoverStream, RollbackResume, AdoptSession
    <3> QED BY <1>1, <2>2, <3>1, <3>2 DEF OfOne, HandoverStep, TakeoverStep
  <2> QED BY <2>1, <2>2
<1>2. ASSUME NEW s \in Sessions, ChildWrite(s) \/ ChildDie(s) \/ ConnCleanup(s) \/ LateSpawn(s)
      PROVE  FALSE
  BY <1>0, <1>2 DEF ChildWrite, ChildDie, ConnCleanup, LateSpawn
<1>3. ASSUME NEW d \in Daemons, NEW s \in Sessions, PumpRead(d, s) \/ PumpEnd(d, s)
      PROVE  FALSE
  BY <1>0, <1>3 DEF PumpRead, PumpEnd
<1>4. CASE Retire \/ UNCHANGED vars
  BY <1>0, <1>4 DEF Retire, vars
<1> QED BY <1>1, <1>2, <1>3, <1>4 DEF Next, PumpStep, OfOne, Settled

\* As long as none has overlapped another, they are one at a time.
LEMMA AloneNext ==
  ASSUME TypeOK, ChanInv, AloneInv, [Next]_vars
  PROVE  AloneInv'
<1> SUFFICES ASSUME ~overlapped', NEW m \in News, NEW n \in News, UnderWay(m)', UnderWay(n)', m # n PROVE FALSE
  BY DEF AloneInv
<1>1. ~overlapped
  BY OverlapStays
<1>2. ASSUME NEW i \in News, NEW j \in News, i # j, UnderWay(i), OnHandoverReq(j)
      PROVE  FALSE
  BY <1>2 DEF OnHandoverReq
<1>3. ASSUME NEW i \in News, NEW j \in News, i # j, UnderWay(i)', ~UnderWay(i), OnHandoverReq(j)
      PROVE  FALSE
  BY <1>3 DEF OnHandoverReq, HGoto, UnderWay, TypeOK
<1>4. CASE UnderWay(m) /\ UnderWay(n)
  BY <1>1, <1>4 DEF AloneInv
<1> QED BY <1>2, <1>3, <1>4, Begins

\* What is handed over is not read by the old daemon, and what is not is.
LEMMA PauseNext ==
  ASSUME TypeOK, ChanInv, PhaseInv, WorkInv, HoldInv, AloneInv, PauseInv, [Next]_vars
  PROVE  PauseInv'
<1> USE DEF kernel, history, hosts, server, handing, wire, taking, HGoto, NGoto
<1> SUFFICES ASSUME ~overlapped', NEW k \in News, NEW t \in Sessions PROVE Paused(k, t)'
  BY DEF PauseInv
<1>n. ~overlapped
  BY OverlapStays
<1>a. Held(t) /\ Moved(k, t) /\ Phase(k) /\ Work(k) /\ Paused(k, t)
  BY <1>n DEF HoldInv, PhaseInv, WorkInv, PauseInv
<1>b. Old \in Daemons /\ k \in Daemons /\ k # Old
  BY NewsAssumption DEF Daemons
<1>0. ASSUME UNCHANGED <<hpc, list, todo>>, t \in reading'[Old] => t \in reading[Old]
      PROVE  Paused(k, t)'
  BY <1>0, <1>a DEF Paused
<1>1. ASSUME NEW s \in Sessions, ChildWrite(s) \/ ChildDie(s) \/ ConnCleanup(s)
      PROVE  Paused(k, t)'
  BY <1>0, <1>1 DEF ChildWrite, ChildDie, ConnCleanup
<1>2. ASSUME NEW s \in Sessions, LateSpawn(s)
      PROVE  Paused(k, t)'
  <2>1. /\ child[s] = "none" /\ UNCHANGED <<hpc, list, todo, acked>>
        /\ status'[Old][t] = (IF t = s THEN "running" ELSE status[Old][t]) /\ reading'[Old] = reading[Old] \cup {s}
    BY <1>2, <1>b DEF LateSpawn, TypeOK
  <2>2. CASE t = s
    <3>1. t \notin list[k]
      BY <1>a, <2>1, <2>2 DEF Held, Moved
    <3> QED BY <1>a, <2>1, <2>2, <3>1 DEF Paused
  <2>3. CASE t # s
    BY <1>0, <2>1, <2>3
  <2> QED BY <2>2, <2>3
<1>3. ASSUME NEW d \in Daemons, NEW s \in Sessions, PumpRead(d, s)
      PROVE  Paused(k, t)'
  BY <1>0, <1>3 DEF PumpRead
<1>4. ASSUME NEW d \in Daemons, NEW s \in Sessions, PumpEnd(d, s)
      PROVE  Paused(k, t)'
  <2>1. \A e \in Daemons : reading'[e] = IF e = d THEN reading[e] \ {s} ELSE reading[e]
    BY <1>4, PumpEnds
  <2>2. \A e \in Daemons, r \in Sessions : status'[e][r] = IF e = d /\ r = s THEN "exited" ELSE status[e][r]
    BY <1>4, PumpEnds
  <2>3. UNCHANGED <<hpc, list, todo, acked>>
    BY <1>4, PumpEnds
  <2>4. reading'[Old] = (IF Old = d THEN reading[Old] \ {s} ELSE reading[Old])
        /\ status'[Old][t] = IF Old = d /\ t = s THEN "exited" ELSE status[Old][t]
    BY <1>b, <2>1, <2>2
  <2>5. CASE Old = d /\ t = s
    BY <1>a, <2>3, <2>4, <2>5 DEF Paused
  <2>6. CASE ~(Old = d /\ t = s)
    BY <1>0, <2>3, <2>4, <2>6
  <2> QED BY <2>5, <2>6
<1>5. CASE Retire
  <2>1. reading'[Old] = {} /\ UNCHANGED <<hpc, list, todo>>
    BY <1>5, Retires
  <2> QED BY <1>0, <2>1
<1>6. ASSUME TakeoverFail(k) \/ ServeFails(k) \/ ReceiveFinale(k)
      PROVE  Paused(k, t)'
  <2>1. CASE Leaves(k)
    <3>1. reading'[Old] = reading[Old] /\ UNCHANGED <<hpc, list, todo, acked, status>>
      BY <1>b, <2>1 DEF Leaves, TypeOK
    <3> QED BY <1>0, <3>1
  <2>2. CASE Acks(k)
    BY <1>0, <2>2 DEF Acks
  <2> QED BY <1>6, <1>b, <2>1, <2>2, Failing, Finale
<1>7. ASSUME NEW s \in Sessions, AdoptSession(k, s)
      PROVE  Paused(k, t)'
  <2>1. reading'[Old] = reading[Old] /\ status'[Old] = status[Old] /\ UNCHANGED <<hpc, list, todo, acked>>
    BY <1>7, <1>b DEF AdoptSession, TypeOK
  <2> QED BY <1>0, <2>1
<1>8. ASSUME Connect(k) \/ ReceiveSession(k) \/ Listen(k) \/ \E s \in Sessions : HandoverStream(k, s)
      PROVE  Paused(k, t)'
  <2>1. CASE Connect(k) \/ ReceiveSession(k) \/ Listen(k)
    BY <1>0, <2>1 DEF Connect, ReceiveSession, Listen
  <2>2. CASE \E s \in Sessions : HandoverStream(k, s)
    <3>1. hpc[k] = "stream" /\ UNCHANGED <<hpc, list, acked, status, reading>>
      BY <1>b, <2>2 DEF HandoverStream
    <3> QED BY <1>a, <3>1 DEF Paused
  <2> QED BY <1>8, <2>1, <2>2
<1>9. ASSUME OnHandoverReq(k) \/ HandoverStop(k) \/ HandoverClose(k)
      PROVE  Paused(k, t)'
  <2>1. hpc[k] \in {"idle", "stop", "close"}
    BY <1>a, <1>b, <1>9 DEF OnHandoverReq, HandoverStop, HandoverClose, Phase
  <2>2. hpc'[k] \in {"stop", "close", "list"} /\ UNCHANGED <<list, todo, acked, status, reading>>
    BY <1>b, <1>9 DEF OnHandoverReq, HandoverStop, HandoverClose, TypeOK
  <2> QED BY <1>a, <2>1, <2>2 DEF Paused, Sending
<1>10. ASSUME HandoverList(k)
       PROVE  Paused(k, t)'
  <2>1. hpc[k] = "list" /\ hpc'[k] = "pause" /\ todo'[k] = list'[k] /\ UNCHANGED <<acked, status, reading>>
    BY <1>b, <1>10 DEF HandoverList, TypeOK
  <2> QED BY <1>a, <2>1 DEF Paused, Sending
<1>11. ASSUME NEW s \in Sessions, HandoverPause(k, s)
       PROVE  Paused(k, t)'
  <2>1. /\ hpc[k] = "pause" /\ s \in todo[k] /\ todo'[k] = todo[k] \ {s} /\ reading'[Old] = reading[Old] \ {s}
        /\ UNCHANGED <<hpc, list, acked, status>>
    BY <1>b, <1>11 DEF HandoverPause, TypeOK
  <2>2. s \in list[k]
    BY <1>a, <2>1 DEF Work
  <2> QED BY <1>a, <2>1, <2>2 DEF Paused, Sending
<1>12. ASSUME HandoverDial(k)
       PROVE  Paused(k, t)'
  <2>1. /\ hpc[k] = "pause" /\ todo[k] = {} /\ todo'[k] = list[k] /\ hpc'[k] \in {"stream", "rollback"}
        /\ UNCHANGED <<list, acked, status, reading>>
    BY <1>b, <1>12 DEF HandoverDial, TypeOK
  <2> QED BY <1>a, <2>1 DEF Paused, Sending
<1>13. ASSUME HandoverFinale(k) \/ HandoverAck(k)
       PROVE  Paused(k, t)'
  <2>1. CASE HandoverFinale(k)
    <3>1. hpc[k] = "stream" /\ hpc'[k] = "ack" /\ UNCHANGED <<list, todo, acked, status, reading>>
      BY <1>b, <2>1 DEF HandoverFinale, TypeOK
    <3> QED BY <1>a, <3>1 DEF Paused, Sending
  <2>2. CASE HandoverAck(k)
    <3>1. hpc[k] = "ack" /\ k \in acked /\ hpc'[k] = "done" /\ UNCHANGED <<list, todo, acked, status, reading>>
      BY <1>b, <2>2 DEF HandoverAck, TypeOK
    <3> QED BY <1>a, <3>1 DEF Paused, Sending
  <2> QED BY <1>13, <2>1, <2>2
<1>14. ASSUME HandoverFail(k)
       PROVE  Paused(k, t)'
  <2>1. hpc[k] \in {"pause", "stream", "ack"} /\ hpc'[k] = "rollback" /\ todo'[k] = list[k] /\ UNCHANGED <<list, acked, status, reading>>
    BY <1>b, <1>14 DEF HandoverFail, TypeOK
  <2> QED BY <1>a, <2>1 DEF Paused, Sending
<1>15. ASSUME NEW s \in Sessions, RollbackResume(k, s)
       PROVE  Paused(k, t)'
  <2>1. /\ hpc[k] = "rollback" /\ todo'[k] = todo[k] \ {s} /\ UNCHANGED <<hpc, list, acked, status>>
        /\ reading'[Old] = IF status[Old][s] = "running" THEN reading[Old] \cup {s} ELSE reading[Old]
    BY <1>b, <1>15 DEF RollbackResume, TypeOK
  <2> QED BY <1>a, <2>1 DEF Paused, Sending
<1>16. ASSUME Relisten(k) \/ Retry(k)
       PROVE  Paused(k, t)'
  <2>1. CASE Relisten(k)
    <3>1. hpc[k] = "rollback" /\ todo[k] = {} /\ hpc'[k] = "rolledback" /\ UNCHANGED <<acked, status, reading>>
      BY <1>b, <2>1 DEF Relisten, TypeOK
    <3> QED BY <1>a, <3>1 DEF Paused, Sending
  <2>2. CASE Retry(k)
    <3>1. hpc[k] \in {"idle", "rolledback"} /\ hpc'[k] = "idle" /\ UNCHANGED <<acked, status, reading>>
      BY <1>b, <2>2 DEF Retry, TypeOK
    <3> QED BY <1>a, <3>1 DEF Paused, Sending
  <2> QED BY <1>16, <2>1, <2>2
<1>17. CASE UNCHANGED vars
  BY <1>0, <1>17 DEF vars
<1>18. ASSUME NEW n \in News, n # k, OfOne(n)
       PROVE  Paused(k, t)'
  <2>1. Same(k)
    BY <1>18, OthersStay
  <2>2. CASE \E s \in Sessions : RollbackResume(n, s)
    <3>1. UnderWay(n)
      BY <2>2 DEF RollbackResume, UnderWay
    <3>2. ~UnderWay(k)
      BY <1>n, <1>18, <3>1 DEF AloneInv
    <3> QED BY <2>1, <3>2 DEF Paused, Same, UnderWay, Sending
  <2>3. CASE ~ \E s \in Sessions : RollbackResume(n, s)
    <3>1. reading'[Old] \subseteq reading[Old]
      <4>1. CASE Leaves(n) \/ Acks(n)
        BY <1>b, <4>1, NewsAssumption DEF Leaves, Acks, TypeOK
      <4>2. ASSUME NEW s \in Sessions, AdoptSession(n, s) \/ HandoverPause(n, s)
            PROVE  reading'[Old] \subseteq reading[Old]
        BY <1>b, <4>2, NewsAssumption DEF AdoptSession, HandoverPause, TypeOK
      <4>3. CASE /\ ~(\E s \in Sessions : AdoptSession(n, s) \/ HandoverPause(n, s))
                 /\ ~(TakeoverFail(n) \/ ServeFails(n) \/ ReceiveFinale(n))
        BY <1>18, <2>3, <4>3 DEF OfOne, HandoverStep, TakeoverStep, Connect, OnHandoverReq, HandoverStop, HandoverClose, HandoverList,
                HandoverDial, HandoverFinale, HandoverAck, HandoverFail, Relisten, ReceiveSession, Listen,
                Retry, HandoverStream
      <4> QED BY <4>1, <4>2, <4>3, Failing, Finale
    <3> QED BY <1>a, <2>1, <3>1 DEF Paused, Same
  <2> QED BY <2>2, <2>3
<1>19. ASSUME NEW n \in News, OfOne(n)
       PROVE  Paused(k, t)'
  <2>1. CASE n = k
    BY <1>6, <1>7, <1>8, <1>9, <1>10, <1>11, <1>12, <1>13, <1>14, <1>15, <1>16, <1>19, <2>1
       DEF OfOne, HandoverStep, TakeoverStep
  <2> QED BY <1>18, <1>19, <2>1
<1> QED
  BY <1>1, <1>2, <1>3, <1>4, <1>5, <1>17, <1>19 DEF Next, PumpStep, OfOne, Settled

\* What the end of a pump does to the readers and the statuses of every daemon.
LEMMA PumpEndReaders ==
  ASSUME TypeOK, HoldInv, NEW d \in Daemons, NEW s \in Sessions, PumpEnd(d, s)
  PROVE  \A e \in Daemons : reading'[e] = IF e = d THEN reading[e] \ {s} ELSE reading[e]
BY PumpEnds

\* A reader that was stopped is still to be restarted.
LEMMA ReadNext ==
  ASSUME TypeOK, ChanInv, PhaseInv, WorkInv, HoldInv, ReadInv, [Next]_vars
  PROVE  ReadInv'
<1> USE DEF kernel, history, hosts, server, handing, wire, taking, HGoto, NGoto
<1> SUFFICES ASSUME NEW t \in Sessions, acked' = {}, status'[Old][t] = "running", t \notin reading'[Old]
             PROVE  \E k \in News : Stopped(k, t)'
  BY DEF ReadInv, Read
<1>a. Old \in Daemons /\ \A n \in News : n \in Daemons /\ n # Old
  BY NewsAssumption DEF Daemons
<1>b. acked = {} /\ status[Old][t] = "running" /\ t \notin reading[Old] => \E k \in News : Stopped(k, t)
  BY DEF ReadInv, Read
<1>0. ASSUME UNCHANGED <<hpc, list, todo>>, acked = {}, status[Old][t] = "running", t \notin reading[Old]
      PROVE  \E k \in News : Stopped(k, t)'
  BY <1>0, <1>b DEF Stopped
<1>1. ASSUME NEW s \in Sessions, ChildWrite(s) \/ ChildDie(s) \/ ConnCleanup(s)
      PROVE  \E k \in News : Stopped(k, t)'
  BY <1>0, <1>1 DEF ChildWrite, ChildDie, ConnCleanup
<1>2. ASSUME NEW s \in Sessions, LateSpawn(s)
      PROVE  \E k \in News : Stopped(k, t)'
  <2>1. /\ UNCHANGED <<hpc, list, todo, acked>> /\ reading'[Old] = reading[Old] \cup {s}
        /\ t # s => status'[Old][t] = status[Old][t]
    BY <1>2, <1>a DEF LateSpawn, TypeOK
  <2> QED BY <1>0, <2>1
<1>3. ASSUME NEW d \in Daemons, NEW s \in Sessions, PumpRead(d, s)
      PROVE  \E k \in News : Stopped(k, t)'
  BY <1>0, <1>3 DEF PumpRead
<1>4. ASSUME NEW d \in Daemons, NEW s \in Sessions, PumpEnd(d, s)
      PROVE  \E k \in News : Stopped(k, t)'
  <2>1. \A e \in Daemons : reading'[e] = IF e = d THEN reading[e] \ {s} ELSE reading[e]
    BY <1>4, PumpEndReaders
  <2>2. \A e \in Daemons, r \in Sessions : status'[e][r] = IF e = d /\ r = s THEN "exited" ELSE status[e][r]
    BY <1>4, PumpEnds
  <2>3. UNCHANGED <<hpc, list, todo, acked>>
    BY <1>4, PumpEnds
  <2>4. reading'[Old] = (IF Old = d THEN reading[Old] \ {s} ELSE reading[Old])
        /\ status'[Old][t] = IF Old = d /\ t = s THEN "exited" ELSE status[Old][t]
    BY <1>a, <2>1, <2>2
  <2> QED BY <1>0, <2>3, <2>4
<1>5. CASE Retire
  <2>1. handedOver /\ UNCHANGED acked
    BY <1>5, Retires
  <2> QED BY <2>1 DEF PhaseInv, Phase
<1>6. ASSUME NEW n \in News, TakeoverFail(n) \/ ServeFails(n) \/ ReceiveFinale(n)
      PROVE  \E k \in News : Stopped(k, t)'
  <2>1. CASE Leaves(n)
    <3>1. reading'[Old] = reading[Old] /\ UNCHANGED <<hpc, list, todo, acked, status>>
      BY <1>a, <2>1 DEF Leaves, TypeOK
    <3> QED BY <1>0, <3>1
  <2>2. CASE Acks(n)
    BY <2>2 DEF Acks
  <2> QED BY <1>6, <2>1, <2>2, Failing, Finale
<1>7. ASSUME NEW n \in News, NEW s \in Sessions, AdoptSession(n, s)
      PROVE  \E k \in News : Stopped(k, t)'
  <2>1. reading'[Old] = reading[Old] /\ status'[Old] = status[Old] /\ UNCHANGED <<hpc, list, todo, acked>>
    BY <1>7, <1>a DEF AdoptSession, TypeOK
  <2> QED BY <1>0, <2>1
<1>8. ASSUME NEW n \in News, Connect(n) \/ ReceiveSession(n) \/ Listen(n)
      PROVE  \E k \in News : Stopped(k, t)'
  BY <1>0, <1>8 DEF Connect, ReceiveSession, Listen
<1>9. ASSUME NEW n \in News, NEW s \in Sessions, HandoverPause(n, s)
      PROVE  \E k \in News : Stopped(k, t)'
  <2>1. /\ hpc[n] = "pause" /\ s \in todo[n] /\ UNCHANGED <<hpc, list, acked, status>>
        /\ reading'[Old] = reading[Old] \ {s} /\ \A k \in News : todo'[k] = todo[k] \/ k = n
    BY <1>9, <1>a DEF HandoverPause, TypeOK
  <2>2. CASE t = s
    <3>1. t \in list[n]
      BY <2>1, <2>2 DEF WorkInv, Work
    <3> QED BY <2>1, <3>1 DEF Stopped
  <2>3. CASE t # s
    BY <1>b, <2>1, <2>3 DEF Stopped
  <2> QED BY <2>2, <2>3
<1>10. ASSUME NEW n \in News, OfOne(n), UNCHANGED <<status, reading>>, acked' = acked,
              Stopped(n, t) => Stopped(n, t)'
       PROVE  \E k \in News : Stopped(k, t)'
  <2>1. PICK k \in News : Stopped(k, t)
    BY <1>b, <1>10
  <2>2. CASE k = n
    BY <1>10, <2>1, <2>2
  <2>3. CASE k # n
    <3>1. Same(k)
      BY <1>10, <2>3, OthersStay
    <3> QED BY <2>1, <3>1 DEF Stopped, Same
  <2> QED BY <2>2, <2>3
<1>11. ASSUME NEW n \in News, NEW s \in Sessions, HandoverStream(n, s)
       PROVE  \E k \in News : Stopped(k, t)'
  <2>1. hpc[n] = "stream" /\ UNCHANGED <<hpc, list, acked, status, reading>>
    BY <1>11 DEF HandoverStream
  <2> QED BY <1>10, <1>11, <2>1 DEF OfOne, HandoverStep, Stopped
<1>12. ASSUME NEW n \in News, NEW s \in Sessions, RollbackResume(n, s)
       PROVE  \E k \in News : Stopped(k, t)'
  <2>1. /\ hpc[n] = "rollback" /\ todo'[n] = todo[n] \ {s} /\ UNCHANGED <<hpc, list, acked, status>>
        /\ reading'[Old] = IF status[Old][s] = "running" THEN reading[Old] \cup {s} ELSE reading[Old]
        /\ \A k \in News : k # n => todo'[k] = todo[k]
    BY <1>12, <1>a DEF RollbackResume, TypeOK
  <2>2. t # s /\ status[Old][t] = "running" /\ t \notin reading[Old]
    BY <2>1
  <2>3. PICK k \in News : Stopped(k, t)
    BY <1>b, <2>1, <2>2
  <2> QED BY <2>1, <2>2, <2>3 DEF Stopped
<1>13. ASSUME NEW n \in News,
             \/ OnHandoverReq(n) \/ HandoverStop(n) \/ HandoverClose(n) \/ HandoverList(n) \/ HandoverDial(n)
             \/ HandoverFinale(n) \/ HandoverFail(n) \/ Relisten(n) \/ Retry(n)
       PROVE  \E k \in News : Stopped(k, t)'
  <2>1. OfOne(n) /\ UNCHANGED <<status, reading, acked>>
    BY <1>13 DEF OfOne, HandoverStep, OnHandoverReq, HandoverStop, HandoverClose, HandoverList, HandoverDial,
                 HandoverFinale, HandoverFail, Relisten, Retry
  <2>2. Phase(n) /\ Work(n)
    BY DEF PhaseInv, WorkInv
  <2>3. Stopped(n, t) => Stopped(n, t)'
    <3>1. CASE OnHandoverReq(n) \/ HandoverStop(n) \/ HandoverClose(n) \/ HandoverList(n) \/ Relisten(n) \/ Retry(n)
      BY <2>2, <3>1 DEF OnHandoverReq, HandoverStop, HandoverClose, HandoverList, Relisten, Retry, Stopped, Phase
    <3>2. CASE HandoverDial(n)
      <4>1. hpc[n] = "pause" /\ todo'[n] = list[n] /\ hpc'[n] \in {"stream", "rollback"} /\ UNCHANGED list
        BY <3>2 DEF HandoverDial, TypeOK
      <4> QED BY <4>1 DEF Stopped
    <3>3. CASE HandoverFinale(n)
      <4>1. hpc[n] = "stream" /\ hpc'[n] = "ack" /\ UNCHANGED list
        BY <3>3 DEF HandoverFinale, TypeOK
      <4> QED BY <4>1 DEF Stopped
    <3>4. CASE HandoverFail(n)
      <4>1. hpc[n] \in {"pause", "stream", "ack"} /\ todo'[n] = list[n] /\ hpc'[n] = "rollback" /\ UNCHANGED list
        BY <3>4 DEF HandoverFail, TypeOK
      <4> QED BY <4>1 DEF Stopped
    <3> QED BY <1>13, <3>1, <3>2, <3>3, <3>4
  <2> QED BY <1>10, <2>1, <2>3
<1>14. ASSUME NEW n \in News, HandoverAck(n)
       PROVE  \E k \in News : Stopped(k, t)'
  BY <1>14 DEF HandoverAck
<1>15. CASE UNCHANGED vars
  BY <1>0, <1>15 DEF vars
<1> QED
  BY <1>1, <1>2, <1>3, <1>4, <1>5, <1>6, <1>7, <1>8, <1>9, <1>11, <1>12, <1>13, <1>14, <1>15
     DEF Next, PumpStep, HandoverStep, TakeoverStep, Settled

\* The path and the listener.
LEMMA PathNext ==
  ASSUME TypeOK, ChanInv, PhaseInv, PathInv, [Next]_vars
  PROVE  PathInv'
<1> USE DEF kernel, history, hosts, server, handing, wire, taking, HGoto, NGoto
<1>0. ASSUME UNCHANGED <<path, lnOpen, closed, hpc>>, acked \subseteq acked'
      PROVE  PathInv'
  BY <1>0 DEF PathInv, Deaf
<1>1. ASSUME NEW s \in Sessions, ChildWrite(s) \/ ChildDie(s) \/ ConnCleanup(s) \/ LateSpawn(s)
      PROVE  PathInv'
  BY <1>0, <1>1 DEF ChildWrite, ChildDie, ConnCleanup, LateSpawn
<1>2. ASSUME NEW d \in Daemons, NEW s \in Sessions, PumpRead(d, s) \/ PumpEnd(d, s)
      PROVE  PathInv'
  BY <1>0, <1>2 DEF PumpRead, PumpEnd
<1>3. CASE Retire
  <2>1. handedOver /\ UNCHANGED acked
    BY <1>3, Retires
  <2> QED BY <2>1 DEF PathInv, PhaseInv, Phase
<1>4. ASSUME NEW n \in News, TakeoverFail(n) \/ ServeFails(n) \/ ReceiveFinale(n)
      PROVE  PathInv'
  <2>1. CASE Leaves(n)
    BY <1>0, <2>1 DEF Leaves
  <2>2. CASE Acks(n)
    BY <1>0, <2>2 DEF Acks
  <2> QED BY <1>4, <2>1, <2>2, Failing, Finale
<1>5. ASSUME NEW n \in News, NEW s \in Sessions,
             AdoptSession(n, s) \/ HandoverPause(n, s) \/ HandoverStream(n, s) \/ RollbackResume(n, s)
      PROVE  PathInv'
  BY <1>0, <1>5 DEF AdoptSession, HandoverPause, HandoverStream, RollbackResume
<1>6. ASSUME NEW n \in News, Connect(n) \/ ReceiveSession(n)
      PROVE  PathInv'
  BY <1>0, <1>6 DEF Connect, ReceiveSession
<1>7. ASSUME NEW n \in News, Listen(n) \/ HandoverAck(n)
      PROVE  PathInv'
  <2>1. n \in acked /\ UNCHANGED acked
    BY <1>7 DEF Listen, HandoverAck, PhaseInv, Phase
  <2> QED BY <2>1 DEF PathInv
<1>8. ASSUME NEW n \in News, UNCHANGED <<path, lnOpen, acked>>,
             \A k \in News : k # n => hpc'[k] = hpc[k],
             Deaf(n) => Deaf(n)',
             closed' => (closed /\ hpc[n] # "close") \/ hpc'[n] = "close" \/ path = "none"
      PROVE  PathInv'
  <2>1. SUFFICES ASSUME acked = {}
                 PROVE  /\ \/ path = Old /\ lnOpen
                           \/ path = "none" /\ ~lnOpen /\ \E k \in News : Deaf(k)'
                        /\ closed' => path = "none" \/ \E k \in News : hpc'[k] = "close"
    BY <1>8 DEF PathInv
  <2>2. (\E k \in News : Deaf(k)) => \E k \in News : Deaf(k)'
    BY <1>8 DEF Deaf
  <2> QED BY <1>8, <2>1, <2>2 DEF PathInv
<1>9. ASSUME NEW n \in News, OfOne(n)
      PROVE  \A k \in News : k # n => hpc'[k] = hpc[k]
  BY <1>9, OthersStay DEF Same
<1>10. ASSUME NEW n \in News, OnHandoverReq(n) \/ Retry(n)
       PROVE  PathInv'
  <2>1. Phase(n) /\ OfOne(n)
    BY <1>10 DEF PhaseInv, OfOne
  <2>2. hpc[n] \in {"idle", "rolledback"} /\ UNCHANGED <<path, lnOpen, closed, acked>>
    BY <1>10, <2>1 DEF OnHandoverReq, Retry, Phase
  <2> QED BY <1>8, <1>9, <2>1, <2>2 DEF Deaf
<1>11. ASSUME NEW n \in News, HandoverStop(n)
       PROVE  PathInv'
  <2>1. OfOne(n) /\ hpc[n] = "stop" /\ hpc'[n] = "close" /\ UNCHANGED <<path, lnOpen, acked>>
    BY <1>11 DEF OfOne, HandoverStep, HandoverStop, TypeOK
  <2> QED BY <1>8, <1>9, <2>1 DEF Deaf
<1>12. ASSUME NEW n \in News, HandoverClose(n)
       PROVE  PathInv'
  <2>1. hpc'[n] = "list" /\ path' = (IF lnOpen THEN "none" ELSE path) /\ lnOpen' = FALSE /\ UNCHANGED acked
    BY <1>12 DEF HandoverClose, TypeOK
  <2>2. Deaf(n)'
    BY <2>1 DEF Deaf
  <2> QED BY <2>1, <2>2 DEF PathInv
<1>13. ASSUME NEW n \in News, HandoverList(n) \/ HandoverDial(n) \/ HandoverFinale(n) \/ HandoverFail(n)
       PROVE  PathInv'
  <2>1. OfOne(n) /\ hpc[n] # "close" /\ UNCHANGED <<path, lnOpen, closed, acked>>
    BY <1>13 DEF OfOne, HandoverStep, HandoverList, HandoverDial, HandoverFinale, HandoverFail
  <2>2. hpc'[n] \in {"pause", "stream", "ack", "rollback"}
    BY <1>13 DEF HandoverList, HandoverDial, HandoverFinale, HandoverFail, TypeOK
  <2> QED BY <1>8, <1>9, <2>1, <2>2 DEF Deaf
<1>14. ASSUME NEW n \in News, Relisten(n)
       PROVE  PathInv'
  <2>1. OfOne(n) /\ hpc[n] = "rollback" /\ UNCHANGED acked
    BY <1>14 DEF OfOne, HandoverStep, Relisten
  <2>2. CASE path = "none"
    <3>1. path' = Old /\ lnOpen' /\ ~closed'
      BY <1>14, <2>2 DEF Relisten
    <3> QED BY <3>1 DEF PathInv
  <2>3. CASE path # "none"
    <3>1. UNCHANGED <<path, lnOpen, closed>>
      BY <1>14, <2>3 DEF Relisten
    <3>2. \A k \in News : hpc[k] = "close" => hpc'[k] = "close"
      BY <1>9, <2>1
    <3> QED BY <2>1, <2>3, <3>1, <3>2 DEF PathInv
  <2> QED BY <2>2, <2>3
<1>15. CASE UNCHANGED vars
  BY <1>0, <1>15 DEF vars
<1> QED
  BY <1>1, <1>2, <1>3, <1>4, <1>5, <1>6, <1>7, <1>10, <1>11, <1>12, <1>13, <1>14, <1>15
     DEF Next, PumpStep, HandoverStep, TakeoverStep, Settled

-----------------------------------------------------------------------------
(* The bytes. *)

\* No byte is counted twice.
LEMMA BoundNext ==
  ASSUME TypeOK, ChanInv, BoundInv, [Next]_vars
  PROVE  BoundInv'
<1> USE DEF kernel, history, hosts, server, handing, wire, taking, HGoto, NGoto
<1> SUFFICES ASSUME NEW t \in Sessions PROVE Bounded(t)'
  BY DEF BoundInv
<1>a. Bounded(t)
  BY DEF BoundInv
<1>b. Old \in Daemons /\ News \subseteq Daemons /\ MaxOut \in Nat
  BY MaxOutAssumption DEF Daemons
<1>c. /\ kbuf[t] \in Nat /\ produced[t] \in Nat
      /\ \A d \in Daemons : ring[d][t] \in Nat
      /\ \A n \in News : got[n][t] \in Nat
  BY MaxOutAssumption DEF TypeOK, Missing
<1>d. \A n \in News : \A m \in Mail(n) : m \in Msg /\ (IsState(m) => m.ring \in Nat)
  <2> TAKE n \in News
  <2> TAKE m \in Mail(n)
  <2>1. m \in Msg
    BY ElementOfSeq DEF Mail, ChanInv
  <2> QED BY <1>b, <2>1, MsgKinds
<1>0. ASSUME UNCHANGED <<kbuf, produced, ring, got>>, \A n \in News : Mail(n)' \subseteq Mail(n)
      PROVE  Bounded(t)'
  BY <1>0, <1>a DEF Bounded
<1>e. ASSUME UNCHANGED chan PROVE \A n \in News : Mail(n)' = Mail(n)
  BY <1>e DEF Mail
<1>1. ASSUME NEW s \in Sessions, ChildWrite(s)
      PROVE  Bounded(t)'
  <2>1. /\ UNCHANGED <<ring, got>> /\ (\A n \in News : Mail(n)' = Mail(n))
        /\ \/ kbuf'[t] = kbuf[t] + 1 /\ produced'[t] = produced[t] + 1
           \/ kbuf'[t] = kbuf[t] /\ produced'[t] = produced[t]
    BY <1>1, <1>e DEF ChildWrite, TypeOK
  <2> QED BY <1>a, <1>c, <1>d, <2>1 DEF Bounded
<1>2. ASSUME NEW d \in Daemons, NEW s \in Sessions, PumpRead(d, s)
      PROVE  Bounded(t)'
  <2>1. UNCHANGED <<produced, got>> /\ \A n \in News : Mail(n)' = Mail(n)
    BY <1>2, <1>e DEF PumpRead
  <2>2. kbuf'[t] = kbuf[t] \/ (kbuf[t] > 0 /\ kbuf'[t] = kbuf[t] - 1)
    BY <1>2 DEF PumpRead, TypeOK
  <2>3. \A e \in Daemons : ring'[e][t] = ring[e][t] \/ (ring'[e][t] = ring[e][t] + 1 /\ kbuf'[t] = kbuf[t] - 1)
    BY <1>2 DEF PumpRead, TypeOK
  <2>4. \A e \in Daemons : ring'[e][t] + kbuf'[t] <= produced[t]
    BY <1>a, <1>c, <2>2, <2>3 DEF Bounded
  <2> QED BY <1>a, <1>c, <1>d, <2>1, <2>2, <2>4 DEF Bounded
<1>3. ASSUME NEW n \in News, NEW s \in Sessions, AdoptSession(n, s)
      PROVE  Bounded(t)'
  <2>1. UNCHANGED <<kbuf, produced, got>> /\ (\A k \in News : Mail(k)' = Mail(k)) /\ got[n][s] # Missing
    BY <1>3, <1>e DEF AdoptSession, Received
  <2>2. \A e \in Daemons : ring'[e][t] = ring[e][t] \/ (t = s /\ ring'[e][t] = got[n][t])
    BY <1>3, <1>b DEF AdoptSession, TypeOK
  <2> QED BY <1>a, <2>1, <2>2 DEF Bounded
<1>4. ASSUME NEW n \in News, NEW s \in Sessions, HandoverStream(n, s)
      PROVE  Bounded(t)'
  <2> DEFINE m == [session |-> s, ring |-> ring[Old][s]]
  <2>1. ring[Old][s] \in 0 .. MaxOut
    BY <1>b DEF TypeOK
  <2>2. m \in Msg /\ m.session = s /\ m.ring = ring[Old][s]
    BY <2>1, MsgKinds
  <2>3. WriteCtrl(n, m) /\ UNCHANGED <<kbuf, produced, ring, got>>
    BY <1>4 DEF HandoverStream
  <2> HIDE DEF m
  <2>4. Mail(n)' = Mail(n) \cup {m} /\ \A k \in News : k # n => chan'[k] = chan[k]
    BY <2>2, <2>3, MailWrite
  <2>5. \A k \in News : \A x \in Mail(k)' : x \in Mail(k) \/ x = m
    BY <2>4 DEF Mail
  <2> QED BY <1>a, <1>b, <2>2, <2>3, <2>5 DEF Bounded
<1>5. ASSUME NEW n \in News, HandoverFinale(n)
      PROVE  Bounded(t)'
  <2> DEFINE m == [count |-> Cardinality(list[n])]
  <2>1. IsFiniteSet(list[n])
    BY SessionsAssumption, FS_Subset DEF TypeOK
  <2>2. m \in Msg /\ ~IsState(m)
    BY <2>1, FS_CardinalityType, MsgKinds
  <2>3. WriteCtrl(n, m) /\ UNCHANGED <<kbuf, produced, ring, got>>
    BY <1>5 DEF HandoverFinale
  <2> HIDE DEF m
  <2>4. Mail(n)' = Mail(n) \cup {m} /\ \A k \in News : k # n => chan'[k] = chan[k]
    BY <2>2, <2>3, MailWrite
  <2>5. \A k \in News : \A x \in Mail(k)' : x \in Mail(k) \/ x = m
    BY <2>4 DEF Mail
  <2> QED BY <1>a, <2>2, <2>3, <2>5 DEF Bounded
<1>6. ASSUME NEW n \in News, ReceiveSession(n)
      PROVE  Bounded(t)'
  <2> DEFINE m == Head(chan[n])
  <2>1. /\ Mail(n)' \subseteq Mail(n) /\ m \in Msg /\ m \in Mail(n)
        /\ \A k \in News : k # n => chan'[k] = chan[k]
    BY <1>6, MailRead DEF ReceiveSession
  <2>2. IsState(m) /\ got' = [got EXCEPT ![n][m.session] = m.ring] /\ UNCHANGED <<kbuf, produced, ring>>
    BY <1>6 DEF ReceiveSession, IsState
  <2> HIDE DEF m
  <2>3. \A k \in News : Mail(k)' \subseteq Mail(k)
    BY <2>1 DEF Mail
  <2>4. \A k \in News : got'[k][t] = got[k][t] \/ (k = n /\ m.session = t /\ got'[k][t] = m.ring)
    BY <2>1, <2>2, MsgKinds DEF TypeOK
  <2> QED BY <1>a, <2>1, <2>2, <2>3, <2>4 DEF Bounded
<1>7. ASSUME NEW n \in News, TakeoverFail(n) \/ ServeFails(n) \/ ReceiveFinale(n)
      PROVE  Bounded(t)'
  <2>1. CASE Leaves(n)
    <3>1. Mail(n)' = {} /\ \A k \in News : k # n => chan'[k] = chan[k]
      BY <2>1, MailGone DEF Leaves
    <3>2. \A k \in News : Mail(k)' \subseteq Mail(k)
      BY <3>1 DEF Mail
    <3> QED BY <1>0, <2>1, <3>2 DEF Leaves
  <2>2. CASE Acks(n)
    <3>1. Mail(n)' \subseteq Mail(n) /\ \A k \in News : k # n => chan'[k] = chan[k]
      BY <2>2, MailRead DEF Acks
    <3>2. \A k \in News : Mail(k)' \subseteq Mail(k)
      BY <3>1 DEF Mail
    <3> QED BY <1>0, <2>2, <3>2 DEF Acks
  <2> QED BY <1>7, <2>1, <2>2, Failing, Finale
<1>8. ASSUME NEW n \in News, Retry(n)
      PROVE  Bounded(t)'
  <2>1. UNCHANGED <<kbuf, produced, ring>> /\ (\A k \in News : Mail(k)' = Mail(k))
    BY <1>8, <1>e DEF Retry
  <2>2. \A k \in News : got'[k][t] = got[k][t] \/ got'[k][t] = Missing
    BY <1>8 DEF Retry, TypeOK
  <2> QED BY <1>a, <2>1, <2>2 DEF Bounded
<1>9. ASSUME NEW s \in Sessions, ChildDie(s) \/ ConnCleanup(s) \/ LateSpawn(s)
      PROVE  Bounded(t)'
  <2>1. UNCHANGED <<kbuf, produced, ring, got, chan>>
    BY <1>9 DEF ChildDie, ConnCleanup, LateSpawn
  <2> QED BY <1>0, <1>e, <2>1
<1>10. ASSUME NEW d \in Daemons, NEW s \in Sessions, PumpEnd(d, s)
       PROVE  Bounded(t)'
  <2>1. UNCHANGED <<kbuf, produced, ring, got, chan>>
    BY <1>10 DEF PumpEnd
  <2> QED BY <1>0, <1>e, <2>1
<1>11. ASSUME NEW n \in News,
             \/ Connect(n) \/ OnHandoverReq(n) \/ HandoverStop(n) \/ HandoverClose(n) \/ HandoverList(n)
             \/ HandoverDial(n) \/ HandoverAck(n) \/ HandoverFail(n) \/ Relisten(n) \/ Listen(n)
             \/ \E s \in Sessions : HandoverPause(n, s) \/ RollbackResume(n, s)
       PROVE  Bounded(t)'
  <2>1. UNCHANGED <<kbuf, produced, ring, got, chan>>
    BY <1>11 DEF Connect, OnHandoverReq, HandoverStop, HandoverClose, HandoverList, HandoverDial,
          HandoverAck, HandoverFail, Relisten, Listen, HandoverPause, RollbackResume
  <2> QED BY <1>0, <1>e, <2>1
<1>12. CASE Retire \/ UNCHANGED vars
  <2>1. UNCHANGED <<kbuf, produced, ring, got, chan>>
    BY <1>12 DEF Retire, vars
  <2> QED BY <1>0, <1>e, <2>1
<1> QED
  BY <1>1, <1>2, <1>3, <1>4, <1>5, <1>6, <1>7, <1>8, <1>9, <1>10, <1>11, <1>12
     DEF Next, PumpStep, HandoverStep, TakeoverStep, Settled

\* What has crossed stays so.
LEMMA CrossedStays ==
  ASSUME TypeOK, PhaseInv, [Next]_vars, Crossed
  PROVE  Crossed'
<1> USE DEF kernel, history, hosts, server, handing, wire, taking, HGoto, NGoto
<1>1. PICK k \in acked : hpc[k] \in {"rollback", "rolledback"}
  BY DEF Crossed
<1>2. k \in News /\ Phase(k)
  BY DEF TypeOK, PhaseInv
<1> SUFFICES k \in acked' /\ hpc'[k] \in {"rollback", "rolledback"}
  BY DEF Crossed
<1>3. ASSUME NEW s \in Sessions, ChildWrite(s) \/ ChildDie(s) \/ ConnCleanup(s) \/ LateSpawn(s)
      PROVE  k \in acked' /\ hpc'[k] \in {"rollback", "rolledback"}
  BY <1>1, <1>3 DEF ChildWrite, ChildDie, ConnCleanup, LateSpawn
<1>4. ASSUME NEW d \in Daemons, NEW s \in Sessions, PumpRead(d, s) \/ PumpEnd(d, s)
      PROVE  k \in acked' /\ hpc'[k] \in {"rollback", "rolledback"}
  BY <1>1, <1>4 DEF PumpRead, PumpEnd
<1>5. ASSUME NEW n \in News, TakeoverFail(n) \/ ServeFails(n) \/ ReceiveFinale(n)
      PROVE  k \in acked' /\ hpc'[k] \in {"rollback", "rolledback"}
  BY <1>1, <1>5 DEF TakeoverFail, ServeFails, ReceiveFinale
<1>6. ASSUME NEW n \in News, NEW s \in Sessions,
             AdoptSession(n, s) \/ HandoverPause(n, s) \/ HandoverStream(n, s) \/ RollbackResume(n, s)
      PROVE  k \in acked' /\ hpc'[k] \in {"rollback", "rolledback"}
  BY <1>1, <1>6 DEF AdoptSession, HandoverPause, HandoverStream, RollbackResume
<1>7. ASSUME NEW n \in News, Connect(n) \/ ReceiveSession(n) \/ Listen(n)
      PROVE  k \in acked' /\ hpc'[k] \in {"rollback", "rolledback"}
  BY <1>1, <1>7 DEF Connect, ReceiveSession, Listen
<1>8. ASSUME NEW n \in News, HandoverStop(n) \/ HandoverClose(n) \/ HandoverList(n) \/ HandoverDial(n)
                             \/ HandoverFinale(n) \/ HandoverAck(n) \/ HandoverFail(n)
      PROVE  k \in acked' /\ hpc'[k] \in {"rollback", "rolledback"}
  <2>1. n # k
    BY <1>1, <1>8 DEF HandoverStop, HandoverClose, HandoverList, HandoverDial, HandoverFinale, HandoverAck, HandoverFail
  <2>2. hpc'[k] = hpc[k]
    BY <1>2, <1>8, <2>1 DEF HandoverStop, HandoverClose, HandoverList, HandoverDial, HandoverFinale, HandoverAck, HandoverFail, TypeOK
  <2>3. UNCHANGED acked
    BY <1>8 DEF HandoverStop, HandoverClose, HandoverList, HandoverDial, HandoverFinale, HandoverAck, HandoverFail
  <2> QED BY <1>1, <2>2, <2>3
<1>9. ASSUME NEW n \in News, OnHandoverReq(n) \/ Retry(n)
      PROVE  k \in acked' /\ hpc'[k] \in {"rollback", "rolledback"}
  <2>1. n # k
    BY <1>1, <1>2, <1>9 DEF OnHandoverReq, Retry, Phase
  <2>2. hpc'[k] = hpc[k] /\ UNCHANGED acked
    BY <1>2, <1>9, <2>1 DEF OnHandoverReq, Retry, TypeOK
  <2> QED BY <1>1, <2>2
<1>10. ASSUME NEW n \in News, Relisten(n)
       PROVE  k \in acked' /\ hpc'[k] \in {"rollback", "rolledback"}
  BY <1>1, <1>2, <1>10 DEF Relisten, TypeOK
<1>11. CASE Retire \/ UNCHANGED vars
  BY <1>1, <1>11 DEF Retire, vars
<1> QED
  BY <1>3, <1>4, <1>5, <1>6, <1>7, <1>8, <1>9, <1>10, <1>11
     DEF Next, PumpStep, HandoverStep, TakeoverStep, Settled

\* What the old daemon reads, no new process has been sent for good.
LEMMA ReadByOne ==
  ASSUME PhaseInv, HoldInv, PauseInv, ~Crossed, ~overlapped, NEW k \in News, NEW t \in Sessions, t \in reading[Old]
  PROVE  status[k][t] = "none" /\ (hpc[k] \in Sending => ~Sent(k, t))
<1>1. Phase(k) /\ Moved(k, t) /\ Paused(k, t)
  BY DEF PhaseInv, HoldInv, PauseInv
<1>2. hpc[k] \in Sending => ~Sent(k, t)
  BY <1>1 DEF Moved, Paused
<1>3. ASSUME status[k][t] # "none" PROVE FALSE
  <2>1. k \in acked /\ Sent(k, t)
    BY <1>1, <1>3 DEF Moved, Sent
  <2>2. hpc[k] \in Sending
    BY <1>1, <2>1 DEF Phase, Crossed, Sending
  <2> QED BY <1>2, <2>1, <2>2
<1> QED BY <1>2, <1>3

\* Without a crossing or an overlap, one new process is acknowledged.
LEMMA OneAcked ==
  ASSUME PhaseInv, AloneInv, ~Crossed, ~overlapped, NEW m \in News, NEW n \in News, m \in acked, n \in acked
  PROVE  m = n
<1>1. ASSUME NEW k \in News, k \in acked PROVE UnderWay(k)
  BY <1>1 DEF PhaseInv, Phase, Crossed, UnderWay
<1> QED BY <1>1 DEF AloneInv

\* Unless an ACK crossed the deadline or handovers overlapped, whoever goes on with
\* a session has all of it.
LEMMA ExactNext ==
  ASSUME TypeOK, ChanInv, PhaseInv, WorkInv, HoldInv, AloneInv, PauseInv, ExactInv, [Next]_vars
  PROVE  ExactInv'
<1> USE DEF kernel, history, hosts, server, handing, wire, taking, HGoto, NGoto
<1> SUFFICES ASSUME ~Crossed', ~overlapped', NEW t \in Sessions
             PROVE  ExactOld(t)' /\ \A k \in News : Exact(k, t)'
  BY DEF ExactInv
<1>n. ~Crossed /\ ~overlapped
  BY CrossedStays, OverlapStays
<1>a. /\ Held(t) /\ ExactOld(t)
      /\ \A k \in News : Moved(k, t) /\ Phase(k) /\ Work(k) /\ Exact(k, t)
  BY <1>n DEF HoldInv, PhaseInv, WorkInv, ExactInv
<1>b. Old \in Daemons /\ \A k \in News : k \in Daemons /\ k # Old
  BY NewsAssumption DEF Daemons
<1>c. kbuf[t] \in Nat /\ produced[t] \in Nat /\ \A d \in Daemons : ring[d][t] \in Nat
  BY MaxOutAssumption DEF TypeOK
<1>0. ASSUME UNCHANGED <<kbuf, produced, ring, status, got, hpc, chan>>
      PROVE  ExactOld(t)' /\ \A k \in News : Exact(k, t)'
  BY <1>0, <1>a DEF ExactOld, Exact, Mail
<1>e. ASSUME UNCHANGED chan PROVE \A k \in News : Mail(k)' = Mail(k)
  BY <1>e, MailSame
<1>1. ASSUME NEW s \in Sessions, ChildWrite(s)
      PROVE  ExactOld(t)' /\ \A k \in News : Exact(k, t)'
  <2>1. /\ UNCHANGED <<child, ring, status, got, hpc>> /\ (\A k \in News : Mail(k)' = Mail(k)) /\ child[s] = "alive"
        /\ \/ t = s /\ kbuf'[t] = kbuf[t] + 1 /\ produced'[t] = produced[t] + 1
           \/ t # s /\ kbuf'[t] = kbuf[t] /\ produced'[t] = produced[t]
    BY <1>1, <1>e DEF ChildWrite, TypeOK
  <2>2. t = s => status[Old][t] # "exited"
    BY <1>a, <1>b, <2>1 DEF Held
  <2>3. ExactOld(t)'
    BY <1>a, <1>b, <1>c, <2>1, <2>2 DEF ExactOld
  <2>4. ASSUME NEW k \in News PROVE Exact(k, t)'
    <3>1. Exact(k, t) /\ ring[k][t] \in Nat
      BY <1>a, <1>b, <1>c
    <3> QED BY <1>c, <2>1, <3>1 DEF Exact
  <2> QED BY <2>3, <2>4
<1>2. ASSUME NEW d \in Daemons, NEW s \in Sessions, PumpRead(d, s)
      PROVE  ExactOld(t)' /\ \A k \in News : Exact(k, t)'
  <2>1. UNCHANGED <<produced, status, got, hpc>> /\ (\A k \in News : Mail(k)' = Mail(k)) /\ s \in reading[d] /\ kbuf[s] > 0
    BY <1>2, <1>e DEF PumpRead
  <2>2. kbuf'[t] = IF t = s THEN kbuf[t] - 1 ELSE kbuf[t]
    BY <1>2 DEF PumpRead, TypeOK
  <2>3. \A e \in Daemons : ring'[e][t] = IF e = d /\ t = s THEN ring[e][t] + 1 ELSE ring[e][t]
    BY <1>2 DEF PumpRead, TypeOK
  <2>5. CASE t # s
    <3>1. kbuf'[t] = kbuf[t] /\ \A e \in Daemons : ring'[e][t] = ring[e][t]
      BY <2>2, <2>3, <2>5
    <3> QED BY <1>a, <1>b, <2>1, <3>1 DEF ExactOld, Exact
  <2>6. CASE t = s /\ d = Old
    <3>1. \A k \in News : status[k][t] = "none" /\ (hpc[k] \in Sending => ~Sent(k, t))
      BY <1>n, <2>1, <2>6, ReadByOne
    <3>2. status[Old][t] = "running"
      BY <2>1, <2>6, <1>b DEF TypeOK
    <3>3. \A k \in News : hpc[k] \in Sending => got[k][t] = Missing /\ \A m \in Mail(k) : ~(IsState(m) /\ m.session = t)
      BY <3>1 DEF Sent
    <3>4. ring'[Old][t] = ring[Old][t] + 1 /\ kbuf'[t] = kbuf[t] - 1 /\ ring[Old][t] \in Nat
      BY <1>b, <1>c, <2>2, <2>3, <2>6
    <3>5. ring[Old][t] + kbuf[t] = produced[t]
      BY <1>a, <3>1 DEF ExactOld
    <3>6. ring'[Old][t] + kbuf'[t] = produced[t]
      BY <1>c, <3>4, <3>5
    <3>7. ExactOld(t)'
      BY <2>1, <3>2, <3>6 DEF ExactOld
    <3> QED BY <2>1, <3>1, <3>3, <3>7 DEF Exact
  <2>7. CASE t = s /\ d \in News
    <3>1. status[d][t] = "running" /\ status[Old][t] # "exited" /\ d \in acked
      BY <1>a, <1>b, <2>1, <2>7 DEF TypeOK, Held, Moved
    <3>2. \A k \in News : k # d => status[k][t] = "none"
      <4> TAKE k \in News
      <4>1. status[k][t] # "none" => k \in acked
        BY <1>a DEF Moved
      <4> QED BY <1>n, <2>7, <3>1, <4>1, OneAcked
    <3>3. ring'[Old][t] = ring[Old][t] /\ ring'[d][t] = ring[d][t] + 1 /\ kbuf'[t] = kbuf[t] - 1 /\ ring[d][t] \in Nat
      BY <1>b, <1>c, <2>2, <2>3, <2>7
    <3>4. ring[d][t] + kbuf[t] = produced[t]
      BY <1>a, <2>7, <3>1 DEF Exact
    <3>5. ring'[d][t] + kbuf'[t] = produced[t]
      BY <1>c, <3>3, <3>4
    <3>6. ExactOld(t)'
      BY <2>1, <2>7, <3>1 DEF ExactOld
    <3>7. ASSUME NEW k \in News PROVE Exact(k, t)'
      <4>1. Exact(k, t)
        BY <1>a
      <4>2. CASE k = d
        BY <2>1, <3>3, <3>5, <4>1, <4>2 DEF Exact
      <4>3. CASE k # d
        BY <2>1, <3>2, <3>3, <4>1, <4>3 DEF Exact
      <4> QED BY <4>2, <4>3
    <3> QED BY <3>6, <3>7
  <2> QED BY <2>5, <2>6, <2>7 DEF Daemons
<1>3. ASSUME NEW d \in Daemons, NEW s \in Sessions, PumpEnd(d, s)
      PROVE  ExactOld(t)' /\ \A k \in News : Exact(k, t)'
  <2>1. /\ child[s] = "dead" /\ kbuf[s] = 0 /\ status[d][s] = "running" /\ s \in reading[d]
        /\ UNCHANGED <<kbuf, produced, ring, hpc, got, chan>>
    BY <1>3, PumpEnds
  <2>2. \A e \in Daemons, r \in Sessions : status'[e][r] = IF e = d /\ r = s THEN "exited" ELSE status[e][r]
    BY <1>3, PumpEnds
  <2>3. status'[Old][t] = (IF Old = d /\ t = s THEN "exited" ELSE status[Old][t])
        /\ \A k \in News : status'[k][t] = "none" <=> status[k][t] = "none"
    BY <1>b, <2>1, <2>2
  <2>4. \A k \in News : Mail(k)' = Mail(k)
    BY <1>e, <2>1
  <2>5. status'[Old][t] = "exited" => ring[Old][t] = produced[t]
    <3>1. CASE t = s /\ d = Old
      <4>1. \A k \in News : status[k][t] = "none"
        BY <1>n, <2>1, <3>1, ReadByOne
      <4>2. ring[Old][t] \in Nat /\ ring[Old][t] + kbuf[t] = produced[t] /\ kbuf[t] = 0
        BY <1>a, <1>b, <1>c, <2>1, <3>1, <4>1 DEF ExactOld
      <4> QED BY <4>2
    <3>2. CASE ~(t = s /\ d = Old)
      BY <1>a, <2>3, <3>2 DEF ExactOld
    <3> QED BY <3>1, <3>2
  <2>6. ExactOld(t)'
    BY <1>a, <2>1, <2>3, <2>5 DEF ExactOld
  <2> QED BY <1>a, <2>1, <2>3, <2>4, <2>6 DEF Exact
<1>4. ASSUME NEW s \in Sessions, LateSpawn(s)
      PROVE  ExactOld(t)' /\ \A k \in News : Exact(k, t)'
  <2>1. /\ UNCHANGED <<kbuf, produced, ring, hpc, got>> /\ (\A k \in News : Mail(k)' = Mail(k) /\ status'[k][t] = status[k][t])
        /\ (status'[Old][t] = status[Old][t] \/ status'[Old][t] = "running")
    BY <1>4, <1>b, <1>e DEF LateSpawn, TypeOK
  <2> QED BY <1>a, <2>1 DEF ExactOld, Exact
<1>5. ASSUME NEW n \in News, OfOne(n), Exact(n, t)'
      PROVE  ExactOld(t)' /\ \A k \in News : Exact(k, t)'
  <2>1. /\ UNCHANGED <<kbuf, produced, status[Old], ring[Old]>>
        /\ status[n][t] # "none" => status'[n][t] # "none"
    BY <1>5, OldStays
  <2>2. \A k \in News : k # n => Same(k)
    BY <1>5, OthersStay
  <2>3. \A k \in News : k # n => Mail(k)' = Mail(k)
    BY <2>2 DEF Same, Mail
  <2>4. ASSUME NEW k \in News, k # n PROVE Exact(k, t)'
    BY <1>a, <2>1, <2>2, <2>3, <2>4 DEF Exact, Same
  <2>5. (\A k \in News : status'[k][t] = "none") => \A k \in News : status[k][t] = "none"
    BY <2>1, <2>2 DEF Same
  <2>6. ExactOld(t)'
    BY <1>a, <2>1, <2>5 DEF ExactOld
  <2> QED BY <1>5, <2>4, <2>6
<1>6. ASSUME NEW n \in News, UNCHANGED <<kbuf, produced, ring, status, got>>, Mail(n)' \subseteq Mail(n),
             hpc'[n] \in Sending => hpc[n] \in Sending
      PROVE  Exact(n, t)'
  BY <1>6, <1>a DEF Exact
<1>7. ASSUME NEW n \in News, NEW s \in Sessions, AdoptSession(n, s)
      PROVE  Exact(n, t)'
  <2>1. /\ npc[n] = "adopt" /\ got[n][s] # Missing /\ status[n][s] = "none"
        /\ UNCHANGED <<kbuf, produced, hpc, got>> /\ Mail(n)' = Mail(n)
    BY <1>7, <1>b, <1>e DEF AdoptSession, Received
  <2>2. /\ status'[Old][t] = status[Old][t] /\ ring'[Old][t] = ring[Old][t]
        /\ (t # s => status'[n][t] = status[n][t] /\ ring'[n][t] = ring[n][t])
        /\ (t = s => status'[n][t] = "running" /\ ring'[n][t] = got[n][t])
    BY <1>7, <1>b DEF AdoptSession, TypeOK
  <2>3. hpc[n] \in Sending /\ n \in acked
    BY <1>a, <1>n, <2>1 DEF Phase, Crossed, Sending
  <2>4. CASE t = s
    <3>1. \A k \in News : status[k][t] = "none"
      <4> TAKE k \in News
      <4>1. status[k][t] # "none" => k \in acked
        BY <1>a DEF Moved
      <4> QED BY <1>n, <2>1, <2>3, <2>4, <4>1, OneAcked
    <3>2. ring[Old][t] + kbuf[t] = produced[t]
      BY <1>a, <3>1 DEF ExactOld
    <3>3. Exact(n, t)
      BY <1>a
    <3> QED BY <2>1, <2>2, <2>3, <2>4, <3>2, <3>3 DEF Exact
  <2>5. CASE t # s
    BY <1>a, <2>1, <2>2, <2>5 DEF Exact
  <2> QED BY <2>4, <2>5
<1>8. ASSUME NEW n \in News, NEW s \in Sessions, HandoverStream(n, s)
      PROVE  Exact(n, t)'
  <2> DEFINE m == [session |-> s, ring |-> ring[Old][s]]
  <2>1. ring[Old][s] \in 0 .. MaxOut
    BY <1>b DEF TypeOK
  <2>2. m \in Msg /\ m.session = s /\ m.ring = ring[Old][s]
    BY <2>1, MsgKinds
  <2>3. WriteCtrl(n, m) /\ UNCHANGED <<kbuf, produced, ring, status, got, hpc>>
    BY <1>8 DEF HandoverStream
  <2> HIDE DEF m
  <2>4. Mail(n)' = Mail(n) \cup {m}
    BY <2>2, <2>3, MailWrite
  <2> QED BY <1>a, <2>2, <2>3, <2>4 DEF Exact
<1>9. ASSUME NEW n \in News, HandoverFinale(n)
      PROVE  Exact(n, t)'
  <2> DEFINE m == [count |-> Cardinality(list[n])]
  <2>1. IsFiniteSet(list[n])
    BY SessionsAssumption, FS_Subset DEF TypeOK
  <2>2. m \in Msg /\ ~IsState(m)
    BY <2>1, FS_CardinalityType, MsgKinds
  <2>3. WriteCtrl(n, m) /\ UNCHANGED <<kbuf, produced, ring, status, got>> /\ hpc[n] = "stream"
    BY <1>9 DEF HandoverFinale
  <2> HIDE DEF m
  <2>4. Mail(n)' = Mail(n) \cup {m}
    BY <2>2, <2>3, MailWrite
  <2> QED BY <1>a, <2>2, <2>3, <2>4 DEF Exact, Sending
<1>10. ASSUME NEW n \in News, ReceiveSession(n)
      PROVE  Exact(n, t)'
  <2> DEFINE m == Head(chan[n])
  <2>1. Mail(n)' \subseteq Mail(n) /\ m \in Msg /\ m \in Mail(n)
    BY <1>10, MailRead DEF ReceiveSession
  <2>2. IsState(m) /\ got' = [got EXCEPT ![n][m.session] = m.ring] /\ UNCHANGED <<kbuf, produced, ring, status, hpc>>
    BY <1>10 DEF ReceiveSession, IsState
  <2> HIDE DEF m
  <2>3. got'[n][t] = got[n][t] \/ (m.session = t /\ got'[n][t] = m.ring)
    BY <2>1, <2>2, MsgKinds DEF TypeOK
  <2> QED BY <1>a, <2>1, <2>2, <2>3 DEF Exact
<1>11. ASSUME NEW n \in News, TakeoverFail(n) \/ ServeFails(n) \/ ReceiveFinale(n)
      PROVE  Exact(n, t)'
  <2>1. CASE Leaves(n)
    <3>1. Mail(n)' = {}
      BY <2>1, MailGone DEF Leaves
    <3> QED BY <1>6, <2>1, <3>1 DEF Leaves
  <2>2. CASE Acks(n)
    <3>1. Mail(n)' \subseteq Mail(n)
      BY <2>2, MailRead DEF Acks
    <3> QED BY <1>6, <2>2, <3>1 DEF Acks
  <2> QED BY <1>11, <2>1, <2>2, Failing, Finale
<1>12. ASSUME NEW n \in News, Retry(n) \/ HandoverDial(n)
       PROVE  Exact(n, t)'
  <2>1. UNCHANGED <<kbuf, produced, ring, status>> /\ Mail(n)' = Mail(n)
    BY <1>12, <1>e DEF Retry, HandoverDial
  <2>2. CASE Retry(n)
    <3>1. hpc'[n] = "idle"
      BY <2>2 DEF Retry, TypeOK
    <3> QED BY <1>a, <2>1, <3>1 DEF Exact, Sending
  <2>3. CASE HandoverDial(n)
    <3>1. got' = got /\ hpc[n] = "pause"
      BY <2>3 DEF HandoverDial
    <3>2. got[n][t] = Missing /\ npc[n] \in {"wait", "failed"}
      BY <1>a, <3>1 DEF Work, Phase, Before
    <3>3. Mail(n) = {}
      BY <1>a, <3>2 DEF Work, Taking
    <3> QED BY <1>a, <2>1, <3>1, <3>2, <3>3 DEF Exact
  <2> QED BY <1>12, <2>2, <2>3
<1>13. ASSUME NEW n \in News,
             \/ Connect(n) \/ OnHandoverReq(n) \/ HandoverStop(n) \/ HandoverClose(n) \/ HandoverList(n)
             \/ HandoverAck(n) \/ HandoverFail(n) \/ Relisten(n) \/ Listen(n)
             \/ \E s \in Sessions : HandoverPause(n, s) \/ RollbackResume(n, s)
       PROVE  Exact(n, t)'
  <2>1. UNCHANGED <<kbuf, produced, ring, status, got, chan>>
    BY <1>13 DEF Connect, OnHandoverReq, HandoverStop, HandoverClose, HandoverList,
          HandoverAck, HandoverFail, Relisten, Listen, HandoverPause, RollbackResume
  <2>2. hpc'[n] \in Sending => hpc[n] \in Sending
    BY <1>13 DEF Connect, OnHandoverReq, HandoverStop, HandoverClose, HandoverList,
          HandoverAck, HandoverFail, Relisten, Listen, HandoverPause, RollbackResume, TypeOK, Sending
  <2> QED BY <1>6, <1>e, <2>1, <2>2
<1>14. ASSUME NEW n \in News, OfOne(n)
       PROVE  ExactOld(t)' /\ \A k \in News : Exact(k, t)'
  <2>1. Exact(n, t)'
    BY <1>7, <1>8, <1>9, <1>10, <1>11, <1>12, <1>13, <1>14 DEF OfOne, HandoverStep, TakeoverStep
  <2> QED BY <1>5, <1>14, <2>1
<1>15. ASSUME NEW s \in Sessions, ChildDie(s) \/ ConnCleanup(s)
       PROVE  ExactOld(t)' /\ \A k \in News : Exact(k, t)'
  BY <1>0, <1>15 DEF ChildDie, ConnCleanup
<1>16. CASE Retire \/ UNCHANGED vars
  BY <1>0, <1>16 DEF Retire, vars
<1> QED
  BY <1>1, <1>2, <1>3, <1>4, <1>14, <1>15, <1>16 DEF Next, PumpStep, OfOne, Settled

-----------------------------------------------------------------------------
(* The children. *)

\* A child that the old daemon still has is not cut off by another's exit.
LEMMA OldHolds ==
  ASSUME TypeOK, HoldInv, NEW s \in Sessions, oldUp, child[s] = "alive"
  PROVE  Old \in holders[s]
<1>1. Held(s)
  BY DEF HoldInv
<1>2. status[Old][s] \in {"none", "running", "exited"}
  BY DEF TypeOK, Daemons
<1> QED BY <1>1, <1>2 DEF Held, Daemons

\* What was handed over lives on in the new process.
LEMMA NewHolds ==
  ASSUME PhaseInv, WorkInv, HoldInv, NEW n \in News, NEW s \in Sessions,
         hpc[n] = "done", npc[n] # "failed", s \in list[n], child[s] = "alive"
  PROVE  n \in holders[s]
<1>1. Phase(n) /\ Work(n) /\ Moved(n, s)
  BY DEF PhaseInv, WorkInv, HoldInv
<1>2. npc[n] \in Taking /\ todo[n] = {}
  BY <1>1 DEF Phase, Work, Taking
<1>3. Sent(n, s)
  BY <1>1, <1>2 DEF Moved, Sending
<1> QED BY <1>1, <1>2, <1>3 DEF Moved

\* No child dies of the upgrade but by the linger policy, or one that was never
\* handed over.
LEMMA TouchNext ==
  ASSUME TypeOK, ChanInv, PhaseInv, WorkInv, HoldInv, TouchInv, [Next]_vars
  PROVE  TouchInv'
<1> USE DEF kernel, history, hosts, server, handing, wire, taking, HGoto, NGoto
<1>b. Old \in Daemons /\ News \subseteq Daemons /\ \A n \in News : n # Old
  BY NewsAssumption DEF Daemons
<1>0. ASSUME UNCHANGED <<touched, oldUp, hpc, npc, list, client>>
      PROVE  TouchInv'
  BY <1>0 DEF TouchInv
<1>1. ASSUME NEW s \in Sessions, ChildWrite(s) \/ ChildDie(s) \/ LateSpawn(s)
      PROVE  TouchInv'
  BY <1>0, <1>1 DEF ChildWrite, ChildDie, LateSpawn
<1>2. ASSUME NEW s \in Sessions, ConnCleanup(s)
      PROVE  TouchInv'
  <2>1. touched' \subseteq touched \cup (Clients \ Linger)
    <3>1. s \in Clients
      BY <1>2 DEF ConnCleanup, TouchInv
    <3>2. CASE s \notin Linger /\ status[Old][s] = "running" /\ child[s] = "alive"
      <4>1. touched' = touched \cup {s}
        BY <1>2, <3>2 DEF ConnCleanup
      <4> QED BY <3>1, <3>2, <4>1
    <3>3. CASE ~(s \notin Linger /\ status[Old][s] = "running" /\ child[s] = "alive")
      BY <1>2, <3>3 DEF ConnCleanup
    <3> QED BY <3>2, <3>3
  <2>2. UNCHANGED <<oldUp, hpc, npc, list>> /\ \A t \in Sessions : client'[t] # "gone" => client[t] # "gone"
    BY <1>2 DEF ConnCleanup, TypeOK
  <2> QED BY <2>1, <2>2 DEF TouchInv
<1>3. ASSUME NEW d \in Daemons, NEW s \in Sessions, PumpRead(d, s)
      PROVE  TouchInv'
  BY <1>0, <1>3 DEF PumpRead
<1>4. ASSUME NEW d \in Daemons, NEW s \in Sessions, PumpEnd(d, s)
      PROVE  TouchInv'
  <2>1. UNCHANGED <<touched, oldUp, hpc, npc, list, client>>
    BY <1>4, PumpEnds
  <2> QED BY <1>0, <2>1
<1>5. CASE Retire
  <2>1. /\ ~oldUp' /\ UNCHANGED <<hpc, list, client>>
        /\ \A n \in News : npc'[n] # "failed" => npc[n] # "failed"
    BY <1>5, Retires
  <2>2. \A s \in Sessions : Closes(Old, s)
    BY <1>5, Retires
  <2>3. touched' \subseteq Sessions
    BY <1>5, <1>b, WithoutType, HoldType DEF Retire
  <2>4. ASSUME NEW n \in News, hpc[n] = "done", npc[n] # "failed", NEW s \in Sessions, s \in touched', s \in list[n]
        PROVE  s \in touched
    <3>1. CASE child[s] = "alive"
      <4>1. n \in holders[s]
        BY <2>4, <3>1, NewHolds
      <4>2. holders[s] \ {Old} # {}
        BY <1>b, <4>1
      <4> QED BY <2>2, <2>4, <4>2 DEF Closes
    <3>2. CASE child[s] # "alive"
      BY <2>2, <2>4, <3>2 DEF Closes
    <3> QED BY <3>1, <3>2
  <2> QED BY <2>1, <2>3, <2>4 DEF TouchInv
<1>6. ASSUME NEW n \in News, Leaves(n), touched' \subseteq Sessions
      PROVE  TouchInv'
  <2>1. (\A m \in News : npc'[m] # "failed" => npc[m] # "failed" /\ m # n) /\ UNCHANGED <<oldUp, hpc, list, client>>
    BY <1>6 DEF Leaves, TypeOK
  <2>2. ASSUME NEW s \in Sessions, s \in touched', NEW d \in Daemons, d # n, child[s] = "alive" => d \in holders[s]
        PROVE  s \in touched
    <3>1. Closes(n, s)
      BY <1>6 DEF Leaves
    <3> QED BY <2>2, <3>1 DEF Closes
  <2>3. ASSUME oldUp, NEW s \in touched'
        PROVE  s \in Clients \ Linger
    <3>1. s \in Sessions /\ (child[s] = "alive" => Old \in holders[s])
      BY <1>6, <2>3, OldHolds
    <3>2. s \in touched
      BY <1>b, <2>2, <2>3, <3>1
    <3> QED BY <2>3, <3>2 DEF TouchInv
  <2>4. ASSUME NEW m \in News, hpc[m] = "done", npc[m] # "failed", m # n, NEW s \in touched', s \in list[m]
        PROVE  s \in Clients \ Linger
    <3>1. s \in Sessions /\ (child[s] = "alive" => m \in holders[s])
      BY <1>6, <2>4, NewHolds
    <3>2. s \in touched
      BY <1>b, <2>2, <2>4, <3>1
    <3> QED BY <2>4, <3>2 DEF TouchInv
  <2> QED BY <2>1, <2>3, <2>4 DEF TouchInv
<1>7. ASSUME NEW n \in News, TakeoverFail(n) \/ ServeFails(n) \/ ReceiveFinale(n)
      PROVE  TouchInv'
  <2>1. CASE Acks(n)
    <3>1. npc[n] = "recv" /\ UNCHANGED <<touched, oldUp, hpc, list, client>>
      BY <2>1 DEF Acks
    <3>2. \A m \in News : npc'[m] # "failed" => npc[m] # "failed"
      BY <2>1, <3>1 DEF Acks, TypeOK
    <3> QED BY <3>1, <3>2 DEF TouchInv
  <2>2. CASE Leaves(n)
    <3>1. touched' \subseteq Sessions
      <4>1. CASE Exits(n)
        BY <4>1, <1>b, WithoutType, HoldType DEF Exits
      <4>2. CASE UNCHANGED touched
        BY <4>2 DEF TypeOK
      <4> QED BY <1>7, <4>1, <4>2 DEF TakeoverFail, ServeFails, ReceiveFinale
    <3> QED BY <1>6, <2>2, <3>1
  <2> QED BY <1>7, <2>1, <2>2, Failing, Finale
<1>8. ASSUME NEW n \in News, NEW s \in Sessions,
             AdoptSession(n, s) \/ HandoverPause(n, s) \/ HandoverStream(n, s) \/ RollbackResume(n, s)
      PROVE  TouchInv'
  BY <1>0, <1>8 DEF AdoptSession, HandoverPause, HandoverStream, RollbackResume
<1>9. ASSUME NEW n \in News, ReceiveSession(n)
      PROVE  TouchInv'
  BY <1>0, <1>9 DEF ReceiveSession
<1>10. ASSUME NEW n \in News,
             \/ Connect(n) \/ OnHandoverReq(n) \/ HandoverStop(n) \/ HandoverList(n)
             \/ HandoverDial(n) \/ HandoverFinale(n) \/ HandoverFail(n) \/ Relisten(n) \/ Listen(n) \/ Retry(n)
       PROVE  TouchInv'
  <2>1. UNCHANGED <<touched, oldUp, client>> /\ OfOne(n)
    BY <1>10 DEF Connect, OnHandoverReq, HandoverStop, HandoverList, HandoverDial, HandoverFinale, HandoverFail,
          Relisten, Listen, Retry, OfOne, HandoverStep, TakeoverStep
  <2>2. Phase(n)
    BY DEF PhaseInv
  <2>3. hpc'[n] = "done" /\ npc'[n] # "failed" => hpc[n] = "done" /\ npc[n] # "failed" /\ list' = list
    <3>1. CASE Connect(n) \/ OnHandoverReq(n) \/ Listen(n) \/ Retry(n)
      BY <2>2, <3>1 DEF Connect, OnHandoverReq, Listen, Retry, TypeOK, Phase
    <3>2. CASE HandoverStop(n) \/ HandoverList(n) \/ HandoverDial(n) \/ HandoverFinale(n) \/ HandoverFail(n) \/ Relisten(n)
      BY <3>2 DEF HandoverStop, HandoverList, HandoverDial, HandoverFinale, HandoverFail, Relisten, TypeOK
    <3> QED BY <1>10, <3>1, <3>2
  <2>4. ASSUME NEW m \in News, hpc'[m] = "done", npc'[m] # "failed"
        PROVE  hpc[m] = "done" /\ npc[m] # "failed" /\ list'[m] = list[m]
    <3>1. CASE m = n
      BY <2>3, <2>4, <3>1
    <3>2. CASE m # n
      BY <2>1, <2>4, <3>2, OthersStay DEF Same
    <3> QED BY <3>1, <3>2
  <2> QED BY <2>1, <2>4 DEF TouchInv
<1>11. ASSUME NEW n \in News, HandoverClose(n)
       PROVE  TouchInv'
  <2>1. UNCHANGED <<touched, oldUp, list>> /\ hpc'[n] = "list" /\ (\A m \in News : m # n => hpc'[m] = hpc[m])
    BY <1>11 DEF HandoverClose, TypeOK
  <2>2. \A t \in Sessions : client'[t] # "gone" => client[t] # "gone"
    BY <1>11 DEF HandoverClose, TypeOK
  <2>3. \A m \in News : npc'[m] # "failed" => npc[m] # "failed"
    BY <1>11 DEF HandoverClose
  <2> QED BY <2>1, <2>2, <2>3 DEF TouchInv
<1>12. ASSUME NEW n \in News, HandoverAck(n)
       PROVE  TouchInv'
  <2>1. oldUp /\ UNCHANGED <<touched, oldUp, client>>
    BY <1>12 DEF HandoverAck
  <2> QED BY <2>1 DEF TouchInv
<1>13. CASE UNCHANGED vars
  BY <1>0, <1>13 DEF vars
<1> QED
  BY <1>1, <1>2, <1>3, <1>4, <1>5, <1>7, <1>8, <1>9, <1>10, <1>11, <1>12, <1>13
     DEF Next, PumpStep, HandoverStep, TakeoverStep, Settled

-----------------------------------------------------------------------------
(* The theorems. *)

\* Before the first attempt.
LEMMA TakeoverInit ==
  ASSUME Init
  PROVE  TakeoverInv
<1> USE DEF Init
<1>1. Old \in Daemons /\ \A n \in News : n \in Daemons /\ n # Old
  BY NewsAssumption DEF Daemons
<1>2. /\ child \in [Sessions -> {"none", "alive", "dead"}]
      /\ kbuf \in [Sessions -> 0 .. MaxOut] /\ produced \in [Sessions -> 0 .. MaxOut]
      /\ holders \in [Sessions -> SUBSET Daemons]
      /\ client \in [Sessions -> {"open", "cleanup", "gone"}]
  BY <1>1, MaxOutAssumption
<1>3. /\ status \in [Daemons -> [Sessions -> {"none", "running", "exited"}]]
      /\ reading \in [Daemons -> SUBSET Sessions]
      /\ ring \in [Daemons -> [Sessions -> 0 .. MaxOut]]
      /\ \A d \in Daemons : \A s \in reading[d] : status[d][s] = "running"
  BY MaxOutAssumption
<1>4. /\ path \in Daemons \cup {"none"} /\ lnOpen \in BOOLEAN /\ closed \in BOOLEAN
      /\ oldUp \in BOOLEAN /\ handedOver \in BOOLEAN
  BY <1>1
<1>5. /\ hpc \in [News -> {"idle", "stop", "close", "list", "pause", "stream", "ack", "done", "rollback", "rolledback"}]
      /\ list \in [News -> SUBSET Sessions] /\ todo \in [News -> SUBSET Sessions]
      /\ link \in [News -> {"none", "open", "closed"}] /\ acked \subseteq News
      /\ npc \in [News -> {"off", "asking", "wait", "recv", "adopt", "serving", "failed"}]
      /\ got \in [News -> [Sessions -> 0 .. Missing]] /\ touched \subseteq Sessions
  BY MaxOutAssumption DEF Missing
<1>6. TypeOK
  BY <1>2, <1>3, <1>4, <1>5 DEF TypeOK
<1>7. ChanInv /\ \A n \in News : Mail(n) = {}
  <2>1. \A n \in News : chan[n] = <<>>
    OBVIOUS
  <2>2. Len(<<>>) = 0 /\ 1 .. 0 = {} /\ <<>> \in Seq(Msg)
    OBVIOUS
  <2> QED BY <2>1, <2>2 DEF ChanInv, Mail
<1>8. \A n \in News : hpc[n] = "idle" /\ npc[n] = "off" /\ list[n] = {} /\ todo[n] = {} /\ reading[n] = {}
  BY <1>1
<1>9. \A n \in News, s \in Sessions : got[n][s] = Missing /\ status[n][s] = "none" /\ ~Sent(n, s)
  BY <1>1, <1>7 DEF Sent
<1>10. \A s \in Sessions : /\ kbuf[s] = 0 /\ produced[s] = 0 /\ \A d \in Daemons : ring[d][s] = 0
                           /\ \/ child[s] = "none" /\ status[Old][s] = "none" /\ s \notin reading[Old]
                              \/ child[s] = "alive" /\ status[Old][s] = "running" /\ s \in reading[Old] /\ holders[s] = {Old}
                           /\ \A d \in Daemons : status[d][s] # "exited"
  BY <1>1
<1>11. PhaseInv /\ WorkInv
  BY <1>7, <1>8, <1>9 DEF PhaseInv, Phase, WorkInv, Work, Before, Taking
<1>12. \A s \in Sessions : Held(s)
  BY <1>10 DEF Held
<1>13. \A n \in News, s \in Sessions : Moved(n, s)
  BY <1>8, <1>9 DEF Moved
<1>14. AloneInv /\ PauseInv /\ ReadInv
  BY <1>8, <1>10 DEF AloneInv, UnderWay, PauseInv, Paused, ReadInv, Read, Sending
<1>15. PathInv
  BY DEF PathInv
<1>16. BoundInv
  BY <1>7, <1>9, <1>10 DEF BoundInv, Bounded
<1>17. ExactInv
  BY <1>1, <1>7, <1>9, <1>10 DEF ExactInv, ExactOld, Exact
<1>18. TouchInv
  BY <1>8 DEF TouchInv
<1> QED BY <1>6, <1>7, <1>11, <1>12, <1>13, <1>14, <1>15, <1>16, <1>17, <1>18 DEF TakeoverInv, HoldInv

\* Through any number of attempts, at once or one after the other, that fail at any
\* step on either side (performHandover, RequestTakeover and Serve of takeover.go and
\* daemon.go), the invariant holds.
THEOREM TakeoverInvariant == Spec => []TakeoverInv
<1>1. Init => TakeoverInv
  BY TakeoverInit
<1>2. TakeoverInv /\ [Next]_vars => TakeoverInv'
  <2> SUFFICES ASSUME TakeoverInv, [Next]_vars PROVE TakeoverInv'
    OBVIOUS
  <2>0. TypeOK /\ ChanInv /\ PhaseInv /\ WorkInv /\ HoldInv
         /\ AloneInv /\ PauseInv /\ ReadInv /\ PathInv /\ BoundInv /\ ExactInv /\ TouchInv
    BY DEF TakeoverInv
  <2>1. TypeOK' /\ ChanInv'
    BY <2>0, TypeNext
  <2>2. PhaseInv' /\ WorkInv'
    BY <2>0, PhaseNext, WorkNext
  <2>3. HoldInv'
    BY <2>0, HeldNext, MovedNext DEF HoldInv
  <2>4. AloneInv' /\ PauseInv' /\ ReadInv' /\ PathInv'
    BY <2>0, AloneNext, PauseNext, ReadNext, PathNext
  <2>5. BoundInv' /\ ExactInv'
    BY <2>0, BoundNext, ExactNext
  <2>6. TouchInv'
    BY <2>0, TouchNext
  <2> QED BY <2>1, <2>2, <2>3, <2>4, <2>5, <2>6 DEF TakeoverInv
<1> QED BY <1>1, <1>2, PTL DEF Spec

\* Whichever daemon reads a session has exactly what the child wrote and is not
\* still in the kernel: PauseReader stops the old reader before the ring is copied,
\* and the new one starts from the copy (takeover.go, performHandover).  Excepted are
\* an ACK that crosses the deadline and handovers that overlap.
THEOREM ContiguousAlways == Spec => []StreamContiguous
<1>1. TakeoverInv => StreamContiguous
  <2> SUFFICES ASSUME TakeoverInv, ~Crossed, ~overlapped, NEW d \in Daemons, NEW s \in Sessions
               PROVE  /\ s \in reading[d] => ring[d][s] + kbuf[s] = produced[s]
                      /\ status[d][s] = "exited" => ring[d][s] = produced[s]
    BY DEF StreamContiguous
  <2>0. TypeOK /\ PhaseInv /\ HoldInv /\ PauseInv /\ ExactInv
    BY DEF TakeoverInv
  <2>1. ExactOld(s) /\ Held(s) /\ \A k \in News : Exact(k, s)
    BY <2>0 DEF ExactInv, HoldInv
  <2>2. CASE d = Old
    <3>1. s \in reading[Old] => \A k \in News : status[k][s] = "none"
      BY <2>0, ReadByOne
    <3> QED BY <2>1, <2>2, <3>1 DEF ExactOld
  <2>3. CASE d \in News
    <3>1. s \in reading[d] => status[d][s] = "running"
      BY <2>0, <2>3 DEF TypeOK
    <3>2. status[d][s] = "exited" => kbuf[s] = 0
      BY <2>1, <2>3 DEF Held
    <3>3. ring[d][s] \in Nat /\ Exact(d, s)
      BY <2>0, <2>1, <2>3, MaxOutAssumption DEF TypeOK
    <3> QED BY <3>1, <3>2, <3>3 DEF Exact
  <2> QED BY <2>2, <2>3 DEF Daemons
<1> QED BY <1>1, TakeoverInvariant, PTL

\* The sessions that were handed over are open in the new daemon before the old one
\* closes them, and none of their children dies of it (takeover.go:6), but for the
\* linger policy.
THEOREM HandedOverKeptAlways == Spec => []HandedOverKept
<1>1. TakeoverInv => HandedOverKept
  <2> SUFFICES ASSUME TakeoverInv, NEW n \in News, hpc[n] = "done", npc[n] # "failed", NEW s \in list[n]
               PROVE  /\ child[s] = "alive" => n \in holders[s]
                      /\ s \in touched => s \in Clients \ Linger
    BY DEF HandedOverKept
  <2>0. TypeOK /\ PhaseInv /\ WorkInv /\ HoldInv /\ TouchInv
    BY DEF TakeoverInv
  <2>1. s \in Sessions
    BY <2>0 DEF TypeOK
  <2>2. child[s] = "alive" => n \in holders[s]
    BY <2>0, <2>1, NewHolds
  <2>3. s \in touched => s \in Clients \ Linger
    BY <2>0 DEF TouchInv
  <2> QED BY <2>2, <2>3
<1> QED BY <1>1, TakeoverInvariant, PTL

\* A handover that fails before the ACK leaves the old daemon as it was: listening,
\* accepting and reading every session (rollback of performHandover).
THEOREM RollbackCompleteAlways == Spec => []RollbackComplete
<1>1. TakeoverInv => RollbackComplete
  <2> SUFFICES ASSUME TakeoverInv, acked = {}, \A n \in News : hpc[n] \in {"idle", "rolledback"}
               PROVE  /\ path = Old /\ lnOpen /\ ~closed
                      /\ \A s \in Sessions : status[Old][s] = "running" => s \in reading[Old]
    BY DEF RollbackComplete
  <2>1. path = Old /\ lnOpen /\ ~closed
    BY NewsAssumption DEF TakeoverInv, PathInv, Deaf, Old
  <2>2. \A s \in Sessions : status[Old][s] = "running" => s \in reading[Old]
    BY DEF TakeoverInv, ReadInv, Read, Stopped
  <2> QED BY <2>1, <2>2
<1> QED BY <1>1, TakeoverInvariant, PTL
=============================================================================
