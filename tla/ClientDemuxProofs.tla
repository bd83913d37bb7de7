--------------------------- MODULE ClientDemuxProofs ---------------------------
(***************************************************************************)
(* Theorems about ClientDemux for any finite number of goroutines and any  *)
(* number of requests and pushed frames: a stream is given only the output *)
(* and the refusals of its own attachment.                                 *)
(***************************************************************************)
EXTENDS ClientDemux, FiniteSetTheorems, SequenceTheorems, TLAPS

-----------------------------------------------------------------------------
(* The inductive invariant. *)

\* A caller whose request has a number.
Numbered(k) == pc[k] \in {"send", "wait"}

\* The requests that may still be made fit the bound.
CountInv == nextReq + Cardinality({k \in Callers : pc[k] = "request"}) <= MaxReq

\* A caller that makes a request has a number of its own, and until the result is
\* there the read loop finds a slot under it.
ReqInv ==
    /\ \A k \in Callers : Numbered(k) => req[k] \in 1 .. nextReq
    /\ \A j, k \in Callers : Numbered(j) /\ Numbered(k) /\ req[j] = req[k] => j = k
    /\ \A i \in Ids : slot[i] # None => i <= nextReq
    /\ \A i \in pending : slot[i] = None
    /\ \A k \in Callers : loop = "run" /\ pc[k] = "send" => slot[req[k]] = None
    /\ \A k \in Callers : loop = "run" /\ Numbered(k) /\ slot[req[k]] = None => req[k] \in pending
    /\ \A k \in Callers : op[k] \in {"attach", "detach"} => pc[k] \in {"request", "send", "wait"}
    /\ \A k \in Callers : pc[k] = "request" => op[k] # "detach"

\* The caller that waits for the request numbered i, if one does, is k.
For(i, k) == \A j \in Callers : Numbered(j) /\ req[j] = i => j = k /\ pc[j] = "wait"

\* A frame on its way to the daemon is the request its caller waits for, or was
\* given up.
UpFrame(f) ==
    /\ f.id <= nextReq /\ For(f.id, f.from)
    /\ Numbered(f.from) /\ req[f.from] = f.id => op[f.from] = f.op /\ slot[f.id] = None

UpInv == \A n \in DOMAIN up : up[n].op # "input" => UpFrame(up[n])

\* An answer likewise; an Attach that succeeded is answered with an attachment.
DownFrame(f) ==
    /\ f.id <= nextReq /\ For(f.id, f.for)
    /\ Numbered(f.for) /\ req[f.for] = f.id =>
         /\ slot[f.id] = None
         /\ f.result = "ok" /\ op[f.for] = "attach" => f.gen # 0

DownInv == \A n \in DOMAIN down : down[n].kind = "answer" => DownFrame(down[n])

\* A request is on its way, or its answer, and only once.
OnceInv ==
    /\ \A m, n \in DOMAIN up : up[m].op # "input" /\ up[m].id = up[n].id => m = n
    /\ \A m, n \in DOMAIN down :
          down[m].kind = "answer" /\ down[n].kind = "answer" /\ down[m].id = down[n].id => m = n
    /\ \A m \in DOMAIN up, n \in DOMAIN down : down[n].kind = "answer" => down[n].id # up[m].id

\* Nothing is on the way to a daemon that is gone, nor on a closed connection.
\* While the read loop runs, the registered stream is the one that is opening or
\* open; after it nothing is or becomes open.
StreamInv ==
    /\ conn # "open" => up = <<>>
    /\ conn = "closed" => down = <<>>
    /\ loop = "run" =>
         \A k \in Callers :
            /\ stream[k] \in {"opening", "open"} <=> streams = k
            /\ stream[k] = "opening" <=> op[k] = "attach"
            /\ op[k] = "detach" => stream[k] = "open"
    /\ loop = "done" =>
         /\ conn # "open"
         /\ \A k \in Callers : /\ stream[k] # "open"
                               /\ stream[k] = "opening" => op[k] = "attach" /\ pc[k] \in {"request", "send"}

\* The stream of k belongs to an attachment: Attach has returned it, or will.
Owned(k) == stream[k] = "open"
            \/ (stream[k] = "opening" /\ pc[k] = "wait" /\ slot[req[k]] = "ok")

IsPush(f)  == f.kind # "answer"
NoInput    == \A n \in DOMAIN up : up[n].op # "input"
NoPush     == \A n \in DOMAIN down : ~IsPush(down[n])

\* No Attach or Detach is forgotten: the caller of one on its way waits for it.
AwaitedInv ==
    /\ \A n \in DOMAIN up : up[n].op \in {"attach", "detach"} =>
         pc[up[n].from] = "wait" /\ req[up[n].from] = up[n].id
    /\ \A n \in DOMAIN down : down[n].kind = "answer" /\ down[n].gen # 0 =>
         /\ pc[down[n].for] = "wait" /\ req[down[n].for] = down[n].id
         /\ op[down[n].for] = "attach" /\ down[n].result = "ok"

\* An attachment that is announced: nothing is pushed before the answer, and what
\* is pushed after it is its own.
AnnouncedInv ==
    \A i \in DOMAIN down : down[i].kind = "answer" /\ down[i].gen # 0 =>
        /\ attached = down[i].gen /\ got[down[i].for] = {}
        /\ \A j \in DOMAIN down : IsPush(down[j]) => i < j /\ down[j].gen = down[i].gen

\* A stream with an attachment gets what is its own.
OwnedInv ==
    \A k \in Callers : Owned(k) =>
        /\ got[k] \subseteq {gen[k]}
        /\ \A j \in DOMAIN down : IsPush(down[j]) => down[j].gen = gen[k]
        /\ attached \in {0, gen[k]}
        /\ attached = 0 => /\ op[k] = "detach" /\ pc[k] = "wait"
                           /\ \A n \in DOMAIN up : up[n].id # req[k]

\* Input is on its way only for an open stream, and ahead of its Detach.
InputInv ==
    \A n \in DOMAIN up : up[n].op = "input" =>
        /\ attached # 0 /\ \E k \in Callers : stream[k] = "open"
        /\ \A m \in DOMAIN up : up[m].op = "detach" => n < m

\* When a Detach has its answer, the attachment has been heard of last, unless it
\* was refused.
DetachedInv ==
    \A k \in Callers : op[k] = "detach" /\ pc[k] = "wait" /\ conn = "open" =>
        /\ slot[req[k]] # None => NoInput /\ (attached = 0 => NoPush)
        /\ \A i \in DOMAIN down : down[i].kind = "answer" /\ down[i].id = req[k] =>
             NoInput /\ (attached = 0 => \A j \in DOMAIN down : IsPush(down[j]) => j < i)

\* Without an attachment on either side, nothing is left of an earlier one.
FreshInv ==
    conn = "open" /\ attached = 0 /\ (\A k \in Callers : ~Owned(k)) =>
        NoPush /\ \A k \in Callers : streams = k => got[k] = {}

FlowInv ==
    ~abandoned /\ loop = "run" =>
        AwaitedInv /\ AnnouncedInv /\ OwnedInv /\ InputInv /\ DetachedInv /\ FreshInv

-----------------------------------------------------------------------------
(* The bound, and types. *)

\* The goroutines about to make a request can be counted.
LEMMA RequestingFinite ==
    ASSUME NEW q
    PROVE  LET r == {k \in Callers : q[k] = "request"}
           IN  /\ IsFiniteSet(r) /\ Cardinality(r) \in Nat
               /\ \A k \in Callers : q[k] = "request" => Cardinality(r) > 0
<1>. DEFINE r == {k \in Callers : q[k] = "request"}
<1>1. IsFiniteSet(r) /\ Cardinality(r) \in Nat
  BY FS_Subset, FS_CardinalityType, CallersAssumption
<1>2. ASSUME NEW k \in Callers, q[k] = "request" PROVE Cardinality(r) > 0
  BY <1>1, <1>2, FS_EmptySet
<1>. QED BY <1>1, <1>2

\* A call that begins, and one that has reserved its number, finds one.
LEMMA Room ==
    ASSUME TypeOK, CountInv, NEW k \in Callers
    PROVE  MayCall(k) \/ pc[k] = "request" => nextReq + 1 \in Ids
<1>1. /\ Cardinality({j \in Callers : pc[j] = "request"}) \in Nat
      /\ pc[k] = "request" => Cardinality({j \in Callers : pc[j] = "request"}) > 0
  BY RequestingFinite
<1>2. nextReq \in Nat
  BY DEF TypeOK
<1>. QED BY <1>1, <1>2, BoundsAssumption DEF MayCall, CountInv, Ids

\* A caller that leaves "request", or stays where it is, adds nothing to the count.
LEMMA CountStays ==
    ASSUME TypeOK, CountInv, nextReq' = nextReq,
           \A j \in Callers : pc'[j] = "request" => pc[j] = "request"
    PROVE  CountInv'
<1>. DEFINE r == {j \in Callers : pc[j] = "request"}
            s == {j \in Callers : pc'[j] = "request"}
<1>1. s \subseteq r
  OBVIOUS
<1>2. IsFiniteSet(r)
  BY RequestingFinite
<1>3. Cardinality(s) <= Cardinality(r)
  BY <1>1, <1>2, FS_Subset
<1>4. Cardinality(s) \in Nat /\ Cardinality(r) \in Nat
  BY RequestingFinite
<1>. HIDE DEF r, s
<1>5. nextReq \in Nat /\ MaxReq \in Nat
  BY BoundsAssumption DEF TypeOK
<1>6. nextReq + Cardinality(r) <= MaxReq
  BY DEF CountInv, r
<1>7. nextReq' + Cardinality(s) <= MaxReq
  BY <1>3, <1>4, <1>5, <1>6
<1>. QED BY <1>7 DEF CountInv, s

\* A caller that goes to "request" was free to.
LEMMA CountGrows ==
    ASSUME TypeOK, CountInv, NEW k \in Callers, MayCall(k), nextReq' = nextReq, Goto(k, "request")
    PROVE  CountInv'
<1>. DEFINE r == {j \in Callers : pc[j] = "request"}
            s == {j \in Callers : pc'[j] = "request"}
<1>1. s = r \cup {k} /\ k \notin r
  BY DEF TypeOK, Goto, MayCall
<1>2. IsFiniteSet(r)
  BY RequestingFinite
<1>3. Cardinality(s) = Cardinality(r) + 1
  BY <1>1, <1>2, FS_AddElement
<1>4. Cardinality(s) \in Nat /\ Cardinality(r) \in Nat
  BY RequestingFinite
<1>. HIDE DEF r, s
<1>5. nextReq \in Nat /\ MaxReq \in Nat
  BY BoundsAssumption DEF TypeOK
<1>6. nextReq + Cardinality(r) < MaxReq
  BY DEF MayCall, r
<1>7. nextReq' + Cardinality(s) <= MaxReq
  BY <1>3, <1>4, <1>5, <1>6
<1>. QED BY <1>7 DEF CountInv, s

\* One that takes its number gives its reservation back; one that had none was
\* free to.
LEMMA CountMoves ==
    ASSUME TypeOK, CountInv, NEW k \in Callers, MayCall(k) \/ pc[k] = "request",
           nextReq' = nextReq + 1, Goto(k, "send")
    PROVE  CountInv'
<1>. DEFINE r == {j \in Callers : pc[j] = "request"}
            s == {j \in Callers : pc'[j] = "request"}
<1>1. s = r \ {k}
  BY DEF TypeOK, Goto
<1>2. IsFiniteSet(r)
  BY RequestingFinite
<1>3. Cardinality(s) = IF k \in r THEN Cardinality(r) - 1 ELSE Cardinality(r)
  <2>1. CASE k \in r
    BY <1>1, <1>2, <2>1, FS_RemoveElement
  <2>2. CASE k \notin r
    <3>1. s = r
      BY <1>1, <2>2
    <3>. QED BY <2>2, <3>1
  <2>. QED BY <2>1, <2>2
<1>4. Cardinality(s) \in Nat /\ Cardinality(r) \in Nat
  BY RequestingFinite
<1>5. k \in r <=> pc[k] = "request"
  OBVIOUS
<1>6. pc[k] # "request" => nextReq + Cardinality(r) < MaxReq
  BY DEF MayCall
<1>. HIDE DEF r, s
<1>7. nextReq \in Nat /\ MaxReq \in Nat
  BY BoundsAssumption DEF TypeOK
<1>8. nextReq + Cardinality(r) <= MaxReq
  BY DEF CountInv, r
<1>9. nextReq' + Cardinality(s) <= MaxReq
  BY <1>3, <1>4, <1>5, <1>6, <1>7, <1>8
<1>. QED BY <1>9 DEF CountInv, s

\* What a failed call does to the fields it touches.
LEMMA FailTypes ==
    ASSUME TypeOK, NEW k \in Callers, Fail(k)
    PROVE  /\ pc' = [pc EXCEPT ![k] = "idle"]
           /\ pc' \in [Callers -> {"idle", "request", "send", "wait", "register"}]
           /\ req' \in [Callers -> 0 .. MaxReq] /\ op' \in [Callers -> Calls]
           /\ streams' \in Callers \cup {None} /\ events' \in Callers \cup {None}
           /\ stream' \in [Callers -> {"none", "opening", "open", "ended"}]
           /\ evch' \in [Callers -> {"none", "opening", "open", "closed"}]
           /\ UNCHANGED <<watchers, watch, gen, got>>
<1>1. pc' = [pc EXCEPT ![k] = "idle"] /\ UNCHANGED <<watchers, watch, gen, got>>
  BY DEF Fail, Goto
<1>2. /\ pc' \in [Callers -> {"idle", "request", "send", "wait", "register"}]
      /\ req' \in [Callers -> 0 .. MaxReq] /\ op' \in [Callers -> Calls]
  BY BoundsAssumption DEF Fail, Goto, TypeOK, Calls
<1>3. streams' \in Callers \cup {None} /\ events' \in Callers \cup {None}
  BY DEF Fail, TypeOK
<1>4. stream' \in [Callers -> {"none", "opening", "open", "ended"}]
  BY DEF Fail, TypeOK
<1>5. evch' \in [Callers -> {"none", "opening", "open", "closed"}]
  BY DEF Fail, TypeOK
<1>. QED BY <1>1, <1>2, <1>3, <1>4, <1>5

\* The head of a queue and the rest of it.
LEMMA HeadTail ==
    ASSUME NEW S, NEW q \in Seq(S), q # <<>>
    PROVE  Head(q) \in S /\ Tail(q) \in Seq(S)
BY HeadTailProperties

USE DEF maps, callers, held, wires, daemon

\* What the daemon does with one frame: an answer to the request, a refusal or
\* nothing for Input, nothing for a list that does not fit into a frame.
LEMMA Handled ==
    ASSUME TypeOK, NEW f, f.from \in Callers, f.op \in Calls \cup {"input"},
           f.op # "input" => f.id \in Ids, Handle(f)
    PROVE  /\ down' \in Seq(Told) /\ attached' \in 0 .. attaches' /\ attaches' \in Nat
           /\ subbed' \in BOOLEAN
           /\ \/ down' = down /\ attached' = attached /\ f.op \in {"input", "ping"}
              \/ /\ down' = Append(down, [kind |-> "refusal", gen |-> attached])
                 /\ attached' = attached /\ f.op = "input"
              \/ /\ f.op # "input"
                 /\ \E r \in {"ok", "error"}, g \in Nat :
                      /\ down' = Append(down, [kind |-> "answer", id |-> f.id, result |-> r,
                                               gen |-> g, for |-> f.from])
                      /\ \/ /\ f.op = "attach" /\ r = "ok" /\ attached = 0
                            /\ attached' = g /\ g # 0
                         \/ f.op = "detach" /\ r = "ok" /\ attached' = 0 /\ g = 0
                         \/ f.op # "attach" /\ attached' = attached /\ g = 0
                         \/ r = "error" /\ attached' = attached /\ g = 0
<1>. DEFINE ans(r, g) == [kind |-> "answer", id |-> f.id, result |-> r, gen |-> g, for |-> f.from]
            ref == [kind |-> "refusal", gen |-> attached]
<1>1. /\ attached \in Nat /\ attaches \in Nat /\ attached <= attaches /\ subbed \in BOOLEAN
      /\ down \in Seq(Told)
  BY DEF TypeOK
<1>2. ASSUME f.op # "input", NEW r \in {"ok", "error"}, NEW g \in Nat
      PROVE  ans(r, g) \in Told /\ Append(down, ans(r, g)) \in Seq(Told)
  <2>1. ans(r, g) \in Told
    BY <1>2 DEF Told
  <2>. HIDE DEF ans
  <2>. QED BY <1>1, <2>1, AppendProperties
<1>3. ref \in Told /\ Append(down, ref) \in Seq(Told)
  <2>1. ref \in Told
    BY <1>1 DEF Told, Pushed
  <2>. HIDE DEF ref
  <2>. QED BY <1>1, <2>1, AppendProperties
<1>4. CASE /\ f.op = "attach" /\ attached = 0 /\ attached' = attaches + 1 /\ attaches' = attaches + 1
           /\ down' = Append(down, ans("ok", attaches + 1)) /\ UNCHANGED subbed
  <2>1. attaches + 1 \in Nat /\ attaches + 1 # 0
    BY <1>1
  <2>2. down' \in Seq(Told)
    BY <1>2, <1>4, <2>1
  <2>. QED BY <1>1, <1>4, <2>1, <2>2
<1>5. CASE /\ f.op = "detach" /\ attached # 0 /\ attached' = 0
           /\ down' = Append(down, ans("ok", 0)) /\ UNCHANGED <<attaches, subbed>>
  <2>1. down' \in Seq(Told)
    BY <1>2, <1>5
  <2>. QED BY <1>1, <1>5, <2>1
<1>6. CASE /\ f.op = "sub" /\ subbed' = TRUE
           /\ down' = Append(down, ans("ok", 0)) /\ UNCHANGED <<attached, attaches>>
  <2>1. down' \in Seq(Told)
    BY <1>2, <1>6
  <2>. QED BY <1>1, <1>6, <2>1
<1>7. CASE /\ f.op \in {"ping", "watch"}
           /\ down' = Append(down, ans("ok", 0)) /\ UNCHANGED daemon
  <2>1. down' \in Seq(Told)
    BY <1>2, <1>7
  <2>. QED BY <1>1, <1>7, <2>1
<1>8. CASE /\ f.op = "input" /\ down' \in {down, Append(down, ref)} /\ UNCHANGED daemon
  BY <1>1, <1>3, <1>8
<1>9. CASE /\ f.op # "input"
           /\ down' = Append(down, ans("error", 0)) /\ UNCHANGED daemon
  <2>1. down' \in Seq(Told)
    BY <1>2, <1>9
  <2>. QED BY <1>1, <1>9, <2>1
<1>10. CASE f.op = "ping" /\ UNCHANGED <<down, daemon>>
  BY <1>1, <1>10
<1>. QED BY <1>4, <1>5, <1>6, <1>7, <1>8, <1>9, <1>10 DEF Handle, Push

\* Every step keeps the types and the bound.
LEMMA TypeNext ==
    ASSUME TypeOK, CountInv, ReqInv, [Next]_vars
    PROVE  TypeOK' /\ CountInv'
<1>1. CASE UNCHANGED vars
  <2>1. CountInv'
    BY <1>1, CountStays DEF vars
  <2>. QED BY <1>1, <2>1 DEF vars, TypeOK
<1>2. ASSUME NEW k \in Callers, Attach(k) PROVE TypeOK' /\ CountInv'
  <2>1. CountInv'
    BY <1>2, CountGrows DEF Attach
  <2>. QED BY <1>2, <2>1 DEF Attach, Goto, TypeOK, Calls
<1>3. ASSUME NEW k \in Callers, SubscribeEvents(k) PROVE TypeOK' /\ CountInv'
  <2>1. CountInv'
    BY <1>3, CountGrows DEF SubscribeEvents
  <2>. QED BY <1>3, <2>1 DEF SubscribeEvents, Goto, TypeOK, Calls
<1>4. ASSUME NEW k \in Callers, Call(k) PROVE TypeOK' /\ CountInv'
  <2>1. CountInv'
    BY <1>4, CountMoves DEF Call
  <2>2. nextReq + 1 \in Ids
    BY <1>4, Room DEF Call
  <2>3. op' \in [Callers -> Calls]
    BY <1>4 DEF Call, TypeOK, Calls
  <2>4. /\ nextReq' \in 0 .. MaxReq /\ pending' \subseteq 1 .. nextReq'
        /\ req' \in [Callers -> 0 .. MaxReq]
        /\ pc' \in [Callers -> {"idle", "request", "send", "wait", "register"}]
    BY <1>4, <2>2, BoundsAssumption DEF Call, Goto, TypeOK, Ids
  <2>. QED BY <1>4, <2>1, <2>3, <2>4 DEF Call, TypeOK
<1>5. ASSUME NEW k \in Callers, Input(k) PROVE TypeOK' /\ CountInv'
  <2>1. CountInv'
    BY <1>5, CountStays DEF Input
  <2>2. [id |-> 0, op |-> "input", from |-> k] \in Asked
    BY DEF Asked
  <2>3. up' \in Seq(Asked)
    BY <1>5, <2>2, AppendProperties DEF Input, TypeOK
  <2>. QED BY <1>5, <2>1, <2>3 DEF Input, TypeOK
<1>6. ASSUME NEW k \in Callers, Request(k) PROVE TypeOK' /\ CountInv'
  <2>1. CASE closed
    <3>1. Fail(k) /\ UNCHANGED <<nextReq, pending, conn, closed, loop, slot, abandoned, wires, daemon>>
      BY <1>6, <2>1 DEF Request
    <3>2. CountInv'
      BY <3>1, CountStays, FailTypes DEF TypeOK
    <3>. QED BY <3>1, <3>2, FailTypes DEF TypeOK
  <2>2. CASE ~closed
    <3>1. /\ nextReq' = nextReq + 1 /\ pending' = pending \cup {nextReq + 1}
          /\ req' = [req EXCEPT ![k] = nextReq + 1] /\ Goto(k, "send") /\ pc[k] = "request"
          /\ UNCHANGED <<op, streams, events, watchers, held, conn, closed, loop, slot, abandoned,
                         wires, daemon>>
      BY <1>6, <2>2 DEF Request
    <3>2. CountInv'
      BY <3>1, CountMoves
    <3>3. nextReq + 1 \in Ids
      BY <3>1, Room
    <3>4. /\ nextReq' \in 0 .. MaxReq /\ pending' \subseteq 1 .. nextReq'
          /\ req' \in [Callers -> 0 .. MaxReq]
          /\ pc' \in [Callers -> {"idle", "request", "send", "wait", "register"}]
      BY <3>1, <3>3, BoundsAssumption DEF Goto, TypeOK, Ids
    <3>. QED BY <3>1, <3>2, <3>4 DEF TypeOK
  <2>. QED BY <2>1, <2>2
<1>7. ASSUME NEW k \in Callers, Send(k) PROVE TypeOK' /\ CountInv'
  <2>1. CASE conn = "open"
    <3>1. /\ up' = Append(up, [id |-> req[k], op |-> op[k], from |-> k]) /\ Goto(k, "wait")
          /\ UNCHANGED <<pending, streams, watchers, events, req, op, held, conn, closed, loop,
                         nextReq, slot, abandoned, down, daemon>>
      BY <1>7, <2>1 DEF Send
    <3>2. CountInv'
      BY <3>1, CountStays DEF Goto, TypeOK
    <3>3. req[k] \in Ids
      BY <1>7 DEF Send, ReqInv, Numbered, TypeOK, Ids
    <3>4. [id |-> req[k], op |-> op[k], from |-> k] \in Asked
      BY <3>3 DEF Asked, TypeOK
    <3>5. up' \in Seq(Asked)
      BY <3>1, <3>4, AppendProperties DEF TypeOK
    <3>6. pc' \in [Callers -> {"idle", "request", "send", "wait", "register"}]
      BY <3>1 DEF Goto, TypeOK
    <3>. QED BY <3>1, <3>2, <3>5, <3>6 DEF TypeOK
  <2>2. CASE conn # "open"
    <3>1. /\ pending' = pending \ {req[k]} /\ Fail(k)
          /\ UNCHANGED <<up, conn, closed, loop, nextReq, slot, abandoned, down, daemon>>
      BY <1>7, <2>2 DEF Send
    <3>2. CountInv'
      BY <3>1, CountStays, FailTypes DEF TypeOK
    <3>. QED BY <3>1, <3>2, FailTypes DEF TypeOK
  <2>. QED BY <2>1, <2>2
<1>8. ASSUME NEW k \in Callers, Settled(k) PROVE TypeOK' /\ CountInv'
  <2>1. /\ pc' \in [Callers -> {"idle", "request", "send", "wait", "register"}]
        /\ req' \in [Callers -> 0 .. MaxReq] /\ op' \in [Callers -> Calls]
        /\ slot' \in [Ids -> {None, "ok", "error", "closed"}]
        /\ UNCHANGED <<conn, closed, loop, nextReq, pending, watchers, events, gen, got,
                       abandoned, wires, daemon>>
    <3>1. /\ pc' = [pc EXCEPT ![k] = IF op[k] = "watch" THEN "register" ELSE "idle"]
          /\ req' = [req EXCEPT ![k] = 0] /\ op' = [op EXCEPT ![k] = "ping"]
          /\ slot' = [slot EXCEPT ![req[k]] = None]
          /\ UNCHANGED <<conn, closed, loop, nextReq, pending, watchers, events, gen, got,
                         abandoned, wires, daemon>>
      BY <1>8, Zenon DEF Settled, Goto
    <3>2. pc' \in [Callers -> {"idle", "request", "send", "wait", "register"}]
      BY <3>1 DEF TypeOK
    <3>3. req' \in [Callers -> 0 .. MaxReq] /\ op' \in [Callers -> Calls]
      BY <3>1, BoundsAssumption DEF TypeOK, Calls
    <3>4. slot' \in [Ids -> {None, "ok", "error", "closed"}]
      BY <3>1 DEF TypeOK
    <3>. QED BY <3>1, <3>2, <3>3, <3>4
  <2>2. CountInv'
    BY <1>8, CountStays DEF Settled, Goto, TypeOK
  <2>3. /\ streams' \in Callers \cup {None}
        /\ stream' \in [Callers -> {"none", "opening", "open", "ended"}]
        /\ evch' \in [Callers -> {"none", "opening", "open", "closed"}] /\ watch' = watch
    <3>1. CASE op[k] = "attach"
      BY <1>8, <3>1 DEF Settled, TypeOK
    <3>2. CASE op[k] = "detach"
      BY <1>8, <3>2 DEF Settled, TypeOK
    <3>3. CASE op[k] = "sub"
      BY <1>8, <3>3 DEF Settled, TypeOK
    <3>4. CASE op[k] \notin {"attach", "detach", "sub"}
      BY <1>8, <3>4 DEF Settled, TypeOK
    <3>. QED BY <3>1, <3>2, <3>3, <3>4
  <2>. QED BY <2>1, <2>2, <2>3 DEF TypeOK
<1>9. ASSUME NEW k \in Callers, Refused(k) PROVE TypeOK' /\ CountInv'
  <2>1. /\ Fail(k) /\ slot' = [slot EXCEPT ![req[k]] = None]
        /\ UNCHANGED <<conn, closed, loop, nextReq, pending, abandoned, wires, daemon>>
    BY <1>9 DEF Refused
  <2>2. CountInv'
    BY <2>1, CountStays, FailTypes DEF TypeOK
  <2>. QED BY <2>1, <2>2, FailTypes DEF TypeOK
<1>10. ASSUME NEW k \in Callers, GiveUp(k) PROVE TypeOK' /\ CountInv'
  <2>1. /\ Fail(k) /\ slot' = [slot EXCEPT ![req[k]] = None] /\ pending' = pending \ {req[k]}
        /\ abandoned' = (abandoned \/ op[k] \in {"attach", "detach"})
        /\ UNCHANGED <<conn, closed, loop, nextReq, wires, daemon>>
    BY <1>10 DEF GiveUp
  <2>2. CountInv'
    BY <2>1, CountStays, FailTypes DEF TypeOK
  <2>. QED BY <2>1, <2>2, FailTypes DEF TypeOK
<1>11. ASSUME NEW k \in Callers, RegisterWatch(k) PROVE TypeOK' /\ CountInv'
  <2>1. CountInv'
    BY <1>11, CountStays DEF RegisterWatch, Goto, TypeOK
  <2>. QED BY <1>11, <2>1 DEF RegisterWatch, Goto, TypeOK
<1>12. CASE Close \/ CloseConn \/ Lose
  <2>1. CountInv'
    BY <1>12, CountStays DEF Close, CloseConn, Lose
  <2>2. <<>> \in Seq(Asked) /\ <<>> \in Seq(Told)
    OBVIOUS
  <2>. QED BY <1>12, <2>1, <2>2 DEF Close, CloseConn, Lose, TypeOK
<1>13. CASE ReadFrame
  <2>. DEFINE f == Head(down)
  <2>1. CountInv'
    BY <1>13, CountStays DEF ReadFrame
  <2>2. f \in Told /\ down' \in Seq(Told)
    BY <1>13, HeadTail DEF ReadFrame, TypeOK
  <2>3. /\ pending' \subseteq 1 .. nextReq
        /\ slot' \in [Ids -> {None, "ok", "error", "closed"}] /\ gen' \in [Callers -> Nat]
        /\ got' \in [Callers -> SUBSET Nat]
    <3>1. CASE f.kind = "answer"
      <4>1. f.id \in Ids /\ f.result \in {"ok", "error"} /\ f.gen \in Nat /\ f.for \in Callers
        BY <2>2, <3>1 DEF Told, Pushed
      <4>2. /\ SettleSlot(f.id, f.result) /\ got' = got
            /\ gen' = IF f.gen # 0 /\ f.id \in pending THEN [gen EXCEPT ![f.for] = f.gen] ELSE gen
        BY <1>13, <3>1 DEF ReadFrame
      <4>. HIDE DEF f
      <4>. QED BY <4>1, <4>2 DEF SettleSlot, TypeOK
    <3>2. CASE f.kind # "answer"
      <4>1. f.gen \in Nat
        BY <2>2, <3>2 DEF Told, Pushed
      <4>2. (RouteOutput(f) \/ RoutePushError(f)) /\ UNCHANGED <<pending, slot, gen>>
        BY <1>13, <3>2 DEF ReadFrame
      <4>. HIDE DEF f
      <4>. QED BY <4>1, <4>2, CallersAssumption DEF RouteOutput, RoutePushError, TypeOK
    <3>. QED BY <3>1, <3>2
  <2>4. UNCHANGED <<conn, closed, loop, nextReq, streams, watchers, events, callers, stream, watch,
                    evch, abandoned, up, daemon>>
    BY <1>13 DEF ReadFrame
  <2>. QED BY <2>1, <2>2, <2>3, <2>4 DEF TypeOK
<1>14. CASE ReadFails
  <2>1. CountInv'
    BY <1>14, CountStays DEF ReadFails
  <2>. QED BY <1>14, <2>1 DEF ReadFails, FailAll, TypeOK
<1>15. CASE DaemonHandle
  <2>. DEFINE f == Head(up)
  <2>1. CountInv'
    BY <1>15, CountStays DEF DaemonHandle
  <2>2. f \in Asked /\ up' \in Seq(Asked)
    BY <1>15, HeadTail DEF DaemonHandle, TypeOK
  <2>3. Handle(f) /\ UNCHANGED <<conn, closed, loop, nextReq, maps, callers, held, abandoned>>
    BY <1>15 DEF DaemonHandle
  <2>4. f.from \in Callers /\ f.op \in Calls \cup {"input"} /\ (f.op # "input" => f.id \in Ids)
    BY <2>2 DEF Asked, Calls
  <2>. HIDE DEF f
  <2>5. /\ down' \in Seq(Told) /\ attached' \in 0 .. attaches' /\ attaches' \in Nat
        /\ subbed' \in BOOLEAN
    BY <2>3, <2>4, Handled DEF TypeOK
  <2>. QED BY <2>1, <2>2, <2>3, <2>5 DEF TypeOK
<1>16. CASE DaemonOutput
  <2>1. CountInv'
    BY <1>16, CountStays DEF DaemonOutput
  <2>2. [kind |-> "output", gen |-> attached] \in Told
    BY DEF Told, Pushed, TypeOK
  <2>3. down' \in Seq(Told)
    BY <1>16, <2>2, AppendProperties DEF DaemonOutput, Push, TypeOK
  <2>. QED BY <1>16, <2>1, <2>3 DEF DaemonOutput, TypeOK
<1>. QED BY <1>1, <1>2, <1>3, <1>4, <1>5, <1>6, <1>7, <1>8, <1>9, <1>10, <1>11, <1>12, <1>13,
            <1>14, <1>15, <1>16 DEF Next, CallerStep, Terminated
-----------------------------------------------------------------------------
(* What the steps do, point by point. *)

\* The call of k is over, in whatever way; the request it made has no slot any
\* more or leaves it.
Ends(k) ==
    /\ pc'[k] \in {"idle", "register"} /\ op'[k] = "ping"
    /\ \A j \in Callers : j # k => pc'[j] = pc[j] /\ req'[j] = req[j] /\ op'[j] = op[j]
    /\ \A i \in Ids : (i # req[k] => slot'[i] = slot[i]) /\ slot'[i] \in {None, slot[i]}
    /\ pending' \subseteq pending /\ \A i \in pending : i # req[k] => i \in pending'
    /\ Numbered(k) \/ (slot' = slot /\ pending' = pending)
    /\ \A i \in pending' : slot'[i] = slot[i]
    /\ UNCHANGED <<nextReq, loop, conn, wires, attached, gen, got>>

\* A call that fails, by point.
LEMMA FailPoints ==
    ASSUME TypeOK, NEW k \in Callers, Fail(k)
    PROVE  /\ pc'[k] = "idle" /\ op'[k] = "ping"
           /\ \A j \in Callers : j # k => /\ pc'[j] = pc[j] /\ req'[j] = req[j] /\ op'[j] = op[j]
                                          /\ stream'[j] = stream[j]
           /\ op[k] = "attach" => stream'[k] = "none" /\ streams' = None
           /\ op[k] = "detach" => stream'[k] = "ended" /\ streams' = None
           /\ op[k] \notin {"attach", "detach"} => stream' = stream /\ streams' = streams
           /\ UNCHANGED <<gen, got>>
<1>1. /\ pc'[k] = "idle" /\ op'[k] = "ping"
      /\ \A j \in Callers : j # k => pc'[j] = pc[j] /\ req'[j] = req[j] /\ op'[j] = op[j]
      /\ UNCHANGED <<gen, got>>
  BY DEF Fail, Goto, TypeOK
<1>2. \A j \in Callers : j # k => stream'[j] = stream[j]
  BY DEF Fail, TypeOK
<1>3. /\ op[k] = "attach" => stream'[k] = "none" /\ streams' = None
      /\ op[k] = "detach" => stream'[k] = "ended" /\ streams' = None
      /\ op[k] \notin {"attach", "detach"} => stream' = stream /\ streams' = streams
  BY DEF Fail, TypeOK
<1>. QED BY <1>1, <1>2, <1>3

\* The four ways a call fails: refused by a closed client, by a failing write, by
\* its answer, by its context.  The last counts when it was an Attach or a Detach.
LEMMA FailEnds ==
    ASSUME TypeOK, ReqInv, NEW k \in Callers,
           \/ Request(k) /\ closed
           \/ Send(k) /\ conn # "open"
           \/ Refused(k)
           \/ GiveUp(k)
    PROVE  /\ Fail(k) /\ Ends(k)
           /\ \/ pc[k] = "request"
              \/ pc[k] = "send" /\ conn # "open"
              \/ pc[k] = "wait" /\ slot[req[k]] \in {"error", "closed"}
              \/ pc[k] = "wait" /\ (op[k] \in {"attach", "detach"} => abandoned')
           /\ ~abandoned' => ~abandoned
<1>1. CASE Request(k) /\ closed
  <2>1. /\ Fail(k) /\ pc[k] = "request"
        /\ UNCHANGED <<nextReq, pending, conn, loop, slot, abandoned, wires, attached>>
    BY <1>1 DEF Request
  <2>. QED BY <2>1, FailPoints DEF Ends
<1>2. CASE Send(k) /\ conn # "open"
  <2>1. /\ Fail(k) /\ pc[k] = "send" /\ conn # "open" /\ pending' = pending \ {req[k]}
        /\ UNCHANGED <<nextReq, conn, loop, slot, abandoned, wires, attached>>
    BY <1>2 DEF Send
  <2>. QED BY <2>1, FailPoints DEF Ends, Numbered
<1>3. CASE Refused(k)
  <2>1. /\ Fail(k) /\ pc[k] = "wait" /\ slot[req[k]] \in {"error", "closed"}
        /\ slot' = [slot EXCEPT ![req[k]] = None]
        /\ UNCHANGED <<nextReq, pending, conn, loop, abandoned, wires, attached>>
    BY <1>3 DEF Refused
  <2>2. \A i \in Ids : (i # req[k] => slot'[i] = slot[i]) /\ slot'[i] \in {None, slot[i]}
    BY <2>1 DEF TypeOK
  <2>3. req[k] \notin pending
    BY <2>1, CallersAssumption DEF ReqInv
  <2>4. pending \subseteq Ids
    BY BoundsAssumption DEF TypeOK, Ids
  <2>. QED BY <2>1, <2>2, <2>3, <2>4, FailPoints DEF Ends, Numbered
<1>4. CASE GiveUp(k)
  <2>1. /\ Fail(k) /\ pc[k] = "wait" /\ pending' = pending \ {req[k]}
        /\ slot' = [slot EXCEPT ![req[k]] = None]
        /\ UNCHANGED <<nextReq, conn, loop, wires, attached>>
    BY <1>4 DEF GiveUp
  <2>2. \A i \in Ids : (i # req[k] => slot'[i] = slot[i]) /\ slot'[i] \in {None, slot[i]}
    BY <2>1 DEF TypeOK
  <2>3. (op[k] \in {"attach", "detach"} => abandoned') /\ (~abandoned' => ~abandoned)
    BY <1>4, Zenon DEF GiveUp
  <2>4. pending \subseteq Ids
    BY BoundsAssumption DEF TypeOK, Ids
  <2>. QED BY <2>1, <2>2, <2>3, <2>4, FailPoints DEF Ends, Numbered
<1>. QED BY <1>1, <1>2, <1>3, <1>4

\* A call that succeeds ends likewise.
LEMMA SettledEnds ==
    ASSUME TypeOK, ReqInv, NEW k \in Callers, Settled(k)
    PROVE  /\ Ends(k) /\ pc[k] = "wait" /\ slot[req[k]] = "ok" /\ abandoned' = abandoned
           /\ \A j \in Callers : j # k => stream'[j] = stream[j]
           /\ op[k] = "attach" => /\ stream'[k] = IF stream[k] = "opening" THEN "open" ELSE stream[k]
                                  /\ streams' = streams
           /\ op[k] = "detach" => stream'[k] = "ended" /\ streams' = None
           /\ op[k] \notin {"attach", "detach"} => stream' = stream /\ streams' = streams
<1>1. /\ pc[k] = "wait" /\ slot[req[k]] = "ok"
      /\ pc' = [pc EXCEPT ![k] = IF op[k] = "watch" THEN "register" ELSE "idle"]
      /\ req' = [req EXCEPT ![k] = 0] /\ op' = [op EXCEPT ![k] = "ping"]
      /\ slot' = [slot EXCEPT ![req[k]] = None]
      /\ UNCHANGED <<loop, conn, nextReq, pending, gen, got, abandoned, wires, attached>>
  BY Zenon DEF Settled, Goto
<1>2. req[k] \notin pending
  BY <1>1, CallersAssumption DEF ReqInv
<1>3. /\ pc'[k] \in {"idle", "register"} /\ op'[k] = "ping"
      /\ \A j \in Callers : j # k => pc'[j] = pc[j] /\ req'[j] = req[j] /\ op'[j] = op[j]
  BY <1>1 DEF TypeOK
<1>4. \A i \in Ids : (i # req[k] => slot'[i] = slot[i]) /\ slot'[i] \in {None, slot[i]}
  BY <1>1 DEF TypeOK
<1>5. pending \subseteq Ids
  BY BoundsAssumption DEF TypeOK, Ids
<1>6. Ends(k)
  BY <1>1, <1>2, <1>3, <1>4, <1>5 DEF Ends, Numbered
<1>7. CASE op[k] = "attach"
  BY <1>1, <1>6, <1>7 DEF Settled, TypeOK
<1>8. CASE op[k] = "detach"
  BY <1>1, <1>6, <1>8 DEF Settled, TypeOK
<1>9. CASE op[k] \notin {"attach", "detach"}
  BY <1>1, <1>6, <1>9 DEF Settled, TypeOK
<1>. QED BY <1>7, <1>8, <1>9

\* A request gets the next number and a slot under it.
Numbers(k) ==
    /\ pc'[k] = "send" /\ req'[k] = nextReq + 1
    /\ \A j \in Callers : j # k => pc'[j] = pc[j] /\ req'[j] = req[j] /\ op'[j] = op[j]
    /\ nextReq' = nextReq + 1 /\ nextReq + 1 \in Ids
    /\ pending' = pending \cup {nextReq + 1}
    /\ UNCHANGED <<slot, loop, conn, streams, stream, gen, got, wires, attached, abandoned>>

\* Request numbers an Attach or a subscription, Call the others.
LEMMA RequestNumbers ==
    ASSUME TypeOK, CountInv, NEW k \in Callers, Request(k), ~closed
    PROVE  Numbers(k) /\ pc[k] = "request" /\ op' = op
<1>1. /\ nextReq' = nextReq + 1 /\ pending' = pending \cup {nextReq + 1}
      /\ req' = [req EXCEPT ![k] = nextReq + 1] /\ Goto(k, "send") /\ pc[k] = "request"
      /\ UNCHANGED <<op, streams, held, conn, loop, slot, abandoned, wires, daemon>>
  BY DEF Request
<1>2. nextReq + 1 \in Ids
  BY <1>1, Room
<1>. QED BY <1>1, <1>2 DEF Numbers, Goto, TypeOK

\* A Detach is called on an open stream.
LEMMA CallNumbers ==
    ASSUME TypeOK, CountInv, NEW k \in Callers, Call(k)
    PROVE  /\ Numbers(k) /\ pc[k] = "idle"
           /\ op'[k] = "detach" => stream[k] = "open"
           /\ op'[k] \in {"detach", "ping", "watch"}
<1>1. /\ nextReq' = nextReq + 1 /\ pending' = pending \cup {nextReq + 1}
      /\ req' = [req EXCEPT ![k] = nextReq + 1] /\ Goto(k, "send") /\ pc[k] = "idle"
      /\ UNCHANGED <<streams, held, conn, loop, slot, abandoned, wires, daemon>>
  BY DEF Call, MayCall
<1>2. nextReq + 1 \in Ids
  BY Room DEF Call
<1>3. PICK o \in {"detach", "ping", "watch"} :
        op' = [op EXCEPT ![k] = o] /\ (o = "detach" => stream[k] = "open")
  BY DEF Call
<1>. QED BY <1>1, <1>2, <1>3 DEF Numbers, Goto, TypeOK

-----------------------------------------------------------------------------
(* Numbers and slots. *)

\* The end of a call frees its number.
LEMMA EndsReq ==
    ASSUME TypeOK, ReqInv, NEW k \in Callers, Ends(k)
    PROVE  ReqInv'
<1>1. \A j \in Callers : j # k /\ Numbered(j) /\ Numbered(k) => req[j] # req[k]
  BY DEF ReqInv
<1>2. \A j \in Callers : Numbered(j)' => j # k /\ Numbered(j) /\ req'[j] = req[j]
  BY DEF Ends, Numbered
<1>3. \A j \in Callers : Numbered(j) => req[j] \in Ids
  BY BoundsAssumption DEF ReqInv, TypeOK, Ids
<1>4. \A j \in Callers : Numbered(j)' => slot'[req'[j]] = slot[req[j]]
  BY <1>1, <1>2, <1>3 DEF Ends
<1>5. \A i \in Ids : slot'[i] # None => i <= nextReq'
  BY DEF Ends, ReqInv
<1>6. \A i \in pending' : slot'[i] = None
  BY DEF Ends, ReqInv
<1>7. \A j \in Callers : loop' = "run" /\ pc'[j] = "send" => slot'[req'[j]] = None
  BY <1>2, <1>4 DEF Ends, ReqInv, Numbered
<1>8. \A j \in Callers : loop' = "run" /\ Numbered(j)' /\ slot'[req'[j]] = None => req'[j] \in pending'
  BY <1>1, <1>2, <1>4 DEF Ends, ReqInv
<1>9. \A j \in Callers : /\ op'[j] \in {"attach", "detach"} => pc'[j] \in {"request", "send", "wait"}
                         /\ pc'[j] = "request" => op'[j] # "detach"
  BY DEF Ends, ReqInv
<1>10. /\ \A j \in Callers : Numbered(j)' => req'[j] \in 1 .. nextReq'
       /\ \A i, j \in Callers : Numbered(i)' /\ Numbered(j)' /\ req'[i] = req'[j] => i = j
  BY <1>2 DEF Ends, ReqInv
<1>. QED BY <1>5, <1>6, <1>7, <1>8, <1>9, <1>10 DEF ReqInv

\* A new number is nobody else's.
LEMMA NumbersReq ==
    ASSUME TypeOK, ReqInv, NEW k \in Callers, Numbers(k), op'[k] = "detach" => pc[k] = "idle"
    PROVE  ReqInv'
<1>1. nextReq \in Nat /\ nextReq' = nextReq + 1 /\ nextReq + 1 \in Ids /\ pending \subseteq 1 .. nextReq
  BY DEF TypeOK, Numbers
<1>2. slot[nextReq + 1] = None /\ slot' = slot /\ loop' = loop
  BY <1>1 DEF ReqInv, Numbers
<1>3. \A j \in Callers : j # k => /\ pc'[j] = pc[j] /\ req'[j] = req[j] /\ op'[j] = op[j]
                                  /\ Numbered(j)' <=> Numbered(j)
  BY DEF Numbers, Numbered
<1>4. pc'[k] = "send" /\ req'[k] = nextReq + 1 /\ pending' = pending \cup {nextReq + 1}
  BY DEF Numbers
<1>5. \A j \in Callers : Numbered(j)' => req'[j] \in 1 .. nextReq'
  BY <1>1, <1>3, <1>4 DEF ReqInv
<1>6. \A i, j \in Callers : Numbered(i)' /\ Numbered(j)' /\ req'[i] = req'[j] => i = j
  <2>1. \A j \in Callers : j # k /\ Numbered(j) => req[j] \in 1 .. nextReq
    BY DEF ReqInv
  <2>. QED BY <1>1, <1>3, <1>4, <2>1 DEF ReqInv
<1>7. /\ \A i \in Ids : slot'[i] # None => i <= nextReq'
      /\ \A i \in pending' : slot'[i] = None
  BY <1>1, <1>2, <1>4 DEF ReqInv, Ids
<1>8. \A j \in Callers : /\ loop' = "run" /\ pc'[j] = "send" => slot'[req'[j]] = None
                         /\ loop' = "run" /\ Numbered(j)' /\ slot'[req'[j]] = None => req'[j] \in pending'
  BY <1>2, <1>3, <1>4 DEF ReqInv
<1>9. \A j \in Callers : /\ op'[j] \in {"attach", "detach"} => pc'[j] \in {"request", "send", "wait"}
                         /\ pc'[j] = "request" => op'[j] # "detach"
  BY <1>3, <1>4 DEF ReqInv
<1>. QED BY <1>5, <1>6, <1>7, <1>8, <1>9 DEF ReqInv

\* Nothing a caller or the read loop keeps of requests changes.
ReqSame ==
    /\ \A j \in Callers : req'[j] = req[j]
    /\ UNCHANGED <<nextReq, slot, pending, loop>>
    /\ \A j \in Callers : (Numbered(j)' <=> Numbered(j))
    /\ \A j \in Callers : pc'[j] = "send" => pc[j] = "send"
    /\ \A j \in Callers : /\ op'[j] \in {"attach", "detach"} => pc'[j] \in {"request", "send", "wait"}
                          /\ pc'[j] = "request" => op'[j] # "detach"

\* Then they stay in order.
LEMMA SameReq ==
    ASSUME ReqInv, ReqSame
    PROVE  ReqInv'
BY DEF ReqInv, ReqSame

\* Every step keeps numbers and slots in order.
LEMMA ReqNext ==
    ASSUME TypeOK, CountInv, ReqInv, DownInv, [Next]_vars
    PROVE  ReqInv'
<1>1. CASE UNCHANGED vars
  <2>1. ReqSame
    BY <1>1 DEF vars, ReqSame, ReqInv, Numbered
  <2>. QED BY <2>1, SameReq
<1>2. ASSUME NEW k \in Callers, Attach(k) \/ SubscribeEvents(k) PROVE ReqInv'
  <2>1. /\ pc[k] = "idle" /\ pc' = [pc EXCEPT ![k] = "request"]
        /\ \E o \in {"attach", "sub"} : op' = [op EXCEPT ![k] = o]
        /\ UNCHANGED <<req, nextReq, slot, pending, loop>>
    BY <1>2 DEF Attach, SubscribeEvents, MayCall, Goto
  <2>2. ReqSame
    BY <2>1 DEF ReqSame, ReqInv, Numbered, TypeOK
  <2>. QED BY <2>2, SameReq
<1>3. ASSUME NEW k \in Callers, Call(k) PROVE ReqInv'
  BY <1>3, CallNumbers, NumbersReq
<1>4. ASSUME NEW k \in Callers, Request(k), ~closed PROVE ReqInv'
  <2>1. Numbers(k) /\ pc[k] = "request" /\ op' = op
    BY <1>4, RequestNumbers
  <2>2. op[k] # "detach"
    BY <2>1 DEF ReqInv
  <2>. QED BY <2>1, <2>2, NumbersReq
<1>5. ASSUME NEW k \in Callers, \/ Request(k) /\ closed
                                \/ Send(k) /\ conn # "open"
                                \/ Refused(k)
                                \/ GiveUp(k)
      PROVE  ReqInv'
  <2>1. Ends(k)
    BY <1>5, FailEnds
  <2>. QED BY <2>1, EndsReq
<1>6. ASSUME NEW k \in Callers, Settled(k) PROVE ReqInv'
  <2>1. Ends(k)
    BY <1>6, SettledEnds
  <2>. QED BY <2>1, EndsReq
<1>7. ASSUME NEW k \in Callers, Send(k), conn = "open" PROVE ReqInv'
  <2>1. /\ pc[k] = "send" /\ pc' = [pc EXCEPT ![k] = "wait"]
        /\ UNCHANGED <<req, op, nextReq, slot, pending, loop>>
    BY <1>7 DEF Send, Goto
  <2>2. ReqSame
    BY <2>1 DEF ReqSame, ReqInv, Numbered, TypeOK
  <2>. QED BY <2>2, SameReq
<1>8. ASSUME NEW k \in Callers, RegisterWatch(k) PROVE ReqInv'
  <2>1. /\ pc[k] = "register" /\ pc' = [pc EXCEPT ![k] = "idle"]
        /\ UNCHANGED <<req, op, nextReq, slot, pending, loop>>
    BY <1>8 DEF RegisterWatch, Goto
  <2>2. ReqSame
    BY <2>1 DEF ReqSame, ReqInv, Numbered, TypeOK
  <2>. QED BY <2>2, SameReq
<1>9. CASE \/ \E k \in Callers : Input(k)
           \/ Close \/ CloseConn \/ Lose \/ DaemonHandle \/ DaemonOutput
  <2>1. UNCHANGED <<pc, req, op, nextReq, slot, pending, loop>>
    BY <1>9 DEF Input, Close, CloseConn, Lose, DaemonHandle, DaemonOutput
  <2>2. ReqSame
    BY <2>1 DEF ReqSame, ReqInv, Numbered
  <2>. QED BY <2>2, SameReq
<1>10. CASE ReadFrame
  <2>1. UNCHANGED <<pc, req, op, nextReq, loop>>
    BY <1>10 DEF ReadFrame
  <2>2. CASE slot' = slot /\ pending' = pending
    <3>1. ReqSame
      BY <2>1, <2>2 DEF ReqSame, ReqInv, Numbered
    <3>. QED BY <3>1, SameReq
  <2>3. ASSUME NEW i \in Ids, NEW r \in {"ok", "error"}, SettleSlot(i, r),
                   \A k \in Callers : pc[k] = "send" => req[k] # i
        PROVE  ReqInv'
    <3>1. pending' = pending \ {i} /\ \A n \in Ids : n # i => slot'[n] = slot[n]
      BY <2>3 DEF SettleSlot, TypeOK
    <3>2. i \in pending => slot'[i] = r /\ i <= nextReq
      BY <2>3 DEF SettleSlot, TypeOK
    <3>3. i \notin pending => slot' = slot
      BY <2>3 DEF SettleSlot
    <3>4. r # None
      BY <2>3, CallersAssumption
    <3>5. pending \subseteq Ids
      BY BoundsAssumption DEF TypeOK, Ids
    <3>6. /\ \A n \in Ids : slot'[n] # None => n <= nextReq'
          /\ \A n \in pending' : slot'[n] = None
      BY <2>1, <3>1, <3>2, <3>3, <3>5 DEF ReqInv
    <3>7. \A k \in Callers : Numbered(k) => req[k] \in Ids
      BY BoundsAssumption DEF ReqInv, TypeOK, Ids
    <3>8. \A k \in Callers : loop' = "run" /\ Numbered(k)' /\ slot'[req'[k]] = None
                               => req'[k] \in pending'
      BY <2>1, <3>1, <3>2, <3>3, <3>4, <3>7 DEF ReqInv, Numbered
    <3>9. \A k \in Callers : loop' = "run" /\ pc'[k] = "send" => slot'[req'[k]] = None
      BY <2>1, <2>3, <3>1, <3>7 DEF ReqInv, Numbered
    <3>. QED BY <2>1, <3>6, <3>8, <3>9 DEF ReqInv, Numbered
  <2>4. Head(down) \in Told
    BY <1>10, HeadTail DEF ReadFrame, TypeOK
  <2>5. CASE Head(down).kind = "answer"
    <3>1. Head(down).id \in Ids /\ Head(down).result \in {"ok", "error"}
      BY <2>4, <2>5 DEF Told, Pushed
    <3>2. SettleSlot(Head(down).id, Head(down).result)
      BY <1>10, <2>5 DEF ReadFrame
    <3>3. \A k \in Callers : pc[k] = "send" => req[k] # Head(down).id
      <4>1. 1 \in DOMAIN down /\ down[1] = Head(down)
        BY <1>10 DEF ReadFrame, TypeOK
      <4>. QED BY <2>5, <4>1 DEF DownInv, DownFrame, For, Numbered
    <3>. QED BY <2>3, <3>1, <3>2, <3>3
  <2>6. CASE Head(down).kind # "answer"
    BY <1>10, <2>2, <2>6 DEF ReadFrame
  <2>. QED BY <2>5, <2>6
<1>11. CASE ReadFails
  <2>1. /\ UNCHANGED <<pc, req, op, nextReq>> /\ loop' = "done" /\ pending' = {}
        /\ slot' = [i \in Ids |-> IF i \in pending THEN "closed" ELSE slot[i]]
    BY <1>11 DEF ReadFails, FailAll
  <2>2. \A i \in Ids : slot'[i] # None => i <= nextReq'
    <3>1. \A i \in pending : i <= nextReq
      BY DEF TypeOK
    <3>. QED BY <2>1, <3>1 DEF ReqInv
  <2>. QED BY <2>1, <2>2 DEF ReqInv, Numbered
<1>. QED BY <1>1, <1>2, <1>3, <1>4, <1>5, <1>6, <1>7, <1>8, <1>9, <1>10, <1>11
         DEF Next, CallerStep, Terminated

-----------------------------------------------------------------------------
(* Frames on the way. *)

\* The places of a queue with one more frame, and without its first.
LEMMA Longer ==
    ASSUME NEW S, NEW q \in Seq(S), NEW e \in S
    PROVE  /\ Len(Append(q, e)) = Len(q) + 1 /\ Append(q, e)[Len(q) + 1] = e
           /\ DOMAIN Append(q, e) = 1 .. Len(q) + 1 /\ DOMAIN q = 1 .. Len(q) /\ Len(q) \in Nat
           /\ \A n \in DOMAIN q : Append(q, e)[n] = q[n]
           /\ \A n \in DOMAIN Append(q, e) : n \in DOMAIN q \/ n = Len(q) + 1
BY AppendProperties

\* The rest of a queue is the queue, one place down.
LEMMA Shorter ==
    ASSUME NEW S, NEW q \in Seq(S), q # <<>>
    PROVE  /\ 1 \in DOMAIN q /\ q[1] = Head(q) /\ DOMAIN q = 1 .. Len(q) /\ Len(q) \in Nat
           /\ DOMAIN Tail(q) = 1 .. Len(q) - 1
           /\ \A n \in DOMAIN Tail(q) : Tail(q)[n] = q[n + 1] /\ n + 1 \in DOMAIN q /\ n \in Nat /\ n >= 1
BY HeadTailProperties

\* Every frame is of its kind.
LEMMA Frames ==
    ASSUME TypeOK
    PROVE  /\ \A n \in DOMAIN up : /\ up[n] \in Asked /\ up[n].from \in Callers
                                   /\ up[n].op = "input" <=> up[n].id = 0
                                   /\ up[n].op # "input" => up[n].id \in Ids
           /\ \A n \in DOMAIN down :
                /\ down[n] \in Told /\ down[n].gen \in Nat
                /\ down[n].kind = "answer" => down[n].id \in Ids /\ down[n].for \in Callers
<1>1. /\ \A n \in DOMAIN up : up[n] \in Asked
      /\ \A n \in DOMAIN down : down[n] \in Told
  BY DEF TypeOK
<1>2. \A f \in Asked : /\ f.from \in Callers /\ (f.op = "input" <=> f.id = 0)
                       /\ f.op # "input" => f.id \in Ids
  BY BoundsAssumption DEF Asked, Calls, Ids
<1>3. \A f \in Told : /\ f.gen \in Nat
                      /\ f.kind = "answer" => f.id \in Ids /\ f.for \in Callers
  BY DEF Told, Pushed
<1>. QED BY <1>1, <1>2, <1>3

\* No caller takes up a number that is in use, nor changes its mind.
Quiet ==
    /\ nextReq <= nextReq'
    /\ \A j \in Callers : Numbered(j)' =>
         \/ req'[j] > nextReq
         \/ /\ Numbered(j) /\ req'[j] = req[j] /\ op'[j] = op[j]
            /\ pc[j] = "wait" => pc'[j] = "wait"

\* Then a frame stays what it is, if its slot was left alone or emptied.
LEMMA QuietFrame ==
    ASSUME TypeOK, TypeOK', Quiet,
           NEW i \in Ids, NEW k \in Callers, i <= nextReq, For(i, k),
           slot'[i] \in {None, slot[i]}
    PROVE  /\ i <= nextReq' /\ For(i, k)'
           /\ Numbered(k)' /\ req'[k] = i =>
                /\ Numbered(k) /\ req[k] = i /\ op'[k] = op[k]
                /\ slot[i] = None => slot'[i] = None
<1>1. i \in Nat /\ nextReq \in Nat /\ nextReq' \in Nat /\ nextReq <= nextReq'
  BY BoundsAssumption DEF Ids, Quiet, TypeOK
<1>2. \A j \in Callers : req'[j] \in Nat
  BY DEF TypeOK
<1>3. \A j \in Callers : Numbered(j)' /\ req'[j] = i =>
        /\ Numbered(j) /\ req[j] = i /\ op'[j] = op[j]
        /\ pc[j] = "wait" => pc'[j] = "wait"
  BY <1>1, <1>2 DEF Quiet
<1>4. For(i, k)'
  BY <1>3 DEF For
<1>. QED BY <1>1, <1>3, <1>4

\* Frames that were on the way before a quiet step stay what they are.
LEMMA QuietFrames ==
    ASSUME TypeOK, TypeOK', Quiet
    PROVE  /\ \A f \in Asked : /\ f.op # "input" /\ f.id \in Ids /\ f.from \in Callers
                               /\ UpFrame(f) /\ slot'[f.id] \in {None, slot[f.id]}
                               => UpFrame(f)'
           /\ \A f \in Told : /\ f.kind = "answer" /\ f.id \in Ids /\ f.for \in Callers
                              /\ DownFrame(f) /\ slot'[f.id] \in {None, slot[f.id]}
                              => DownFrame(f)'
<1>1. ASSUME NEW f \in Asked, f.op # "input", f.id \in Ids, f.from \in Callers, UpFrame(f),
             slot'[f.id] \in {None, slot[f.id]}
      PROVE  UpFrame(f)'
  <2>1. f.id <= nextReq /\ For(f.id, f.from)
    BY <1>1 DEF UpFrame
  <2>2. /\ f.id <= nextReq' /\ For(f.id, f.from)'
        /\ Numbered(f.from)' /\ req'[f.from] = f.id =>
             /\ Numbered(f.from) /\ req[f.from] = f.id /\ op'[f.from] = op[f.from]
             /\ slot[f.id] = None => slot'[f.id] = None
    BY <1>1, <2>1, QuietFrame
  <2>. QED BY <1>1, <2>2 DEF UpFrame
<1>2. ASSUME NEW f \in Told, f.kind = "answer", f.id \in Ids, f.for \in Callers, DownFrame(f),
             slot'[f.id] \in {None, slot[f.id]}
      PROVE  DownFrame(f)'
  <2>1. f.id <= nextReq /\ For(f.id, f.for)
    BY <1>2 DEF DownFrame
  <2>2. /\ f.id <= nextReq' /\ For(f.id, f.for)'
        /\ Numbered(f.for)' /\ req'[f.for] = f.id =>
             /\ Numbered(f.for) /\ req[f.for] = f.id /\ op'[f.for] = op[f.for]
             /\ slot[f.id] = None => slot'[f.id] = None
    BY <1>2, <2>1, QuietFrame
  <2>. QED BY <1>2, <2>2 DEF DownFrame
<1>. QED BY <1>1, <1>2

\* A quiet step that moves no frame.
LEMMA QuietSame ==
    ASSUME TypeOK, TypeOK', Quiet, UpInv, DownInv, OnceInv, UNCHANGED wires,
           \A i \in Ids : slot'[i] \in {None, slot[i]}
    PROVE  UpInv' /\ DownInv' /\ OnceInv'
<1>1. UpInv'
  <2>. SUFFICES ASSUME NEW n \in DOMAIN up, up[n].op # "input" PROVE UpFrame(up[n])'
    BY DEF UpInv
  <2>1. PICK f \in Asked : f = up[n]
    BY Frames
  <2>2. f.op # "input" /\ f.id \in Ids /\ f.from \in Callers /\ UpFrame(f)
    BY <2>1, Frames DEF UpInv, UpFrame, For
  <2>3. UpFrame(f)'
    BY <2>2, QuietFrames
  <2>. QED BY <2>1, <2>3 DEF UpFrame, For
<1>2. DownInv'
  <2>. SUFFICES ASSUME NEW n \in DOMAIN down, down[n].kind = "answer" PROVE DownFrame(down[n])'
    BY DEF DownInv
  <2>1. PICK f \in Told : f = down[n]
    BY Frames
  <2>2. f.kind = "answer" /\ f.id \in Ids /\ f.for \in Callers /\ DownFrame(f)
    BY <2>1, Frames DEF DownInv, DownFrame, For
  <2>3. DownFrame(f)'
    BY <2>2, QuietFrames
  <2>. QED BY <2>1, <2>3 DEF DownFrame, For
<1>3. OnceInv'
  BY DEF OnceInv
<1>. QED BY <1>1, <1>2, <1>3

\* The end of a call, a new number and the steps that do not concern requests are
\* quiet.
LEMMA EndsQuiet ==
    ASSUME TypeOK, NEW k \in Callers, Ends(k)
    PROVE  Quiet /\ UNCHANGED wires /\ \A i \in Ids : slot'[i] \in {None, slot[i]}
BY DEF Ends, Quiet, Numbered, TypeOK

\* A number that is new is no frame's.
LEMMA NumbersQuiet ==
    ASSUME TypeOK, NEW k \in Callers, Numbers(k)
    PROVE  Quiet /\ UNCHANGED wires /\ \A i \in Ids : slot'[i] \in {None, slot[i]}
<1>1. nextReq \in Nat /\ nextReq' = nextReq + 1 /\ req'[k] = nextReq + 1 /\ slot' = slot
  BY DEF Numbers, TypeOK
<1>2. \A j \in Callers : Numbered(j)' /\ j # k =>
        Numbered(j) /\ req'[j] = req[j] /\ op'[j] = op[j] /\ pc'[j] = pc[j]
  BY DEF Numbers, Numbered
<1>. QED BY <1>1, <1>2 DEF Quiet, Numbers

\* Callers whose numbers and slots stay.
LEMMA SameQuiet ==
    ASSUME TypeOK, UNCHANGED <<nextReq, req, slot>>,
           \A j \in Callers : Numbered(j)' =>
               Numbered(j) /\ op'[j] = op[j] /\ (pc[j] = "wait" => pc'[j] = "wait")
    PROVE  Quiet /\ \A i \in Ids : slot'[i] \in {None, slot[i]}
BY DEF Quiet, TypeOK

\* A step in which frames may be dropped, nothing else.
LEMMA Dropped ==
    ASSUME UpInv, DownInv, OnceInv, UNCHANGED <<nextReq, pc, req, op, slot>>,
           up' \in {up, <<>>}, down' \in {down, <<>>}
    PROVE  UpInv' /\ DownInv' /\ OnceInv'
<1>1. \A n \in DOMAIN up' : n \in DOMAIN up /\ up'[n] = up[n]
  OBVIOUS
<1>2. \A n \in DOMAIN down' : n \in DOMAIN down /\ down'[n] = down[n]
  OBVIOUS
<1>3. UpInv'
  BY <1>1 DEF UpInv, UpFrame, For, Numbered
<1>4. DownInv'
  BY <1>2 DEF DownInv, DownFrame, For, Numbered
<1>5. OnceInv'
  BY <1>1, <1>2 DEF OnceInv
<1>. QED BY <1>3, <1>4, <1>5

\* Send puts the request of k at the end: no frame has its number yet.
LEMMA SendFrames ==
    ASSUME TypeOK, TypeOK', ReqInv, UpInv, DownInv, OnceInv, loop = "run",
           NEW k \in Callers, Send(k), conn = "open"
    PROVE  UpInv' /\ DownInv' /\ OnceInv'
<1>. DEFINE e == [id |-> req[k], op |-> op[k], from |-> k]
<1>1. /\ pc[k] = "send" /\ pc' = [pc EXCEPT ![k] = "wait"] /\ up' = Append(up, e)
      /\ UNCHANGED <<req, op, nextReq, slot, down>>
  BY DEF Send, Goto
<1>2. req[k] \in Ids /\ req[k] <= nextReq /\ slot[req[k]] = None
  BY <1>1, BoundsAssumption DEF ReqInv, Numbered, TypeOK, Ids
<1>3. e \in Asked
  BY <1>2 DEF Asked, TypeOK
<1>4. /\ up'[Len(up) + 1] = e /\ Len(up) + 1 \notin DOMAIN up
      /\ \A n \in DOMAIN up : up'[n] = up[n] /\ n \in DOMAIN up'
      /\ \A n \in DOMAIN up' : n \in DOMAIN up \/ n = Len(up) + 1
  BY <1>1, <1>3, Longer DEF TypeOK
<1>5. Quiet /\ \A i \in Ids : slot'[i] \in {None, slot[i]}
  <2>1. \A j \in Callers : Numbered(j)' =>
          Numbered(j) /\ op'[j] = op[j] /\ (pc[j] = "wait" => pc'[j] = "wait")
    BY <1>1 DEF Numbered, TypeOK
  <2>. QED BY <1>1, <2>1, SameQuiet
<1>6. /\ \A n \in DOMAIN up : up[n].op # "input" => up[n].id # req[k]
      /\ \A n \in DOMAIN down : down[n].kind = "answer" => down[n].id # req[k]
  BY <1>1 DEF UpInv, UpFrame, DownInv, DownFrame, For, Numbered
<1>7. ASSUME NEW n \in DOMAIN up, up[n].op # "input" PROVE UpFrame(up[n])' /\ up'[n] = up[n]
  <2>1. PICK f \in Asked : f = up[n]
    BY Frames
  <2>2. f.op # "input" /\ f.id \in Ids /\ f.from \in Callers /\ UpFrame(f)
    BY <1>7, <2>1, Frames DEF UpInv, UpFrame, For
  <2>3. UpFrame(f)'
    BY <1>5, <2>2, QuietFrames
  <2>4. up'[n] = f
    BY <1>4, <2>1
  <2>. QED BY <1>4, <2>3, <2>4 DEF UpFrame, For
<1>8. UpInv'
  <2>. SUFFICES ASSUME NEW n \in DOMAIN up', up'[n].op # "input" PROVE UpFrame(up[n])'
    BY DEF UpInv
  <2>1. CASE n \in DOMAIN up
    BY <1>4, <1>7, <2>1
  <2>2. CASE n = Len(up) + 1
    <3>1. \A j \in Callers : Numbered(j)' /\ req'[j] = req[k] => j = k
      BY <1>1, <1>2 DEF ReqInv, Numbered, TypeOK
    <3>2. pc'[k] = "wait"
      BY <1>1 DEF TypeOK
    <3>3. up'[n].id = req[k] /\ up'[n].op = op[k] /\ up'[n].from = k
      BY <1>4, <2>2
    <3>. QED BY <1>1, <1>2, <3>1, <3>2, <3>3 DEF UpFrame, For
  <2>. QED BY <1>4, <2>1, <2>2
<1>9. DownInv'
  <2>. SUFFICES ASSUME NEW n \in DOMAIN down, down[n].kind = "answer" PROVE DownFrame(down[n])'
    BY <1>1 DEF DownInv
  <2>1. PICK f \in Told : f = down[n]
    BY Frames
  <2>2. f.kind = "answer" /\ f.id \in Ids /\ f.for \in Callers /\ DownFrame(f)
    BY <2>1, Frames DEF DownInv, DownFrame, For
  <2>3. DownFrame(f)'
    BY <1>5, <2>2, QuietFrames
  <2>. QED BY <1>1, <2>1, <2>3 DEF DownFrame, For
<1>10. OnceInv'
  <2>1. \A n \in DOMAIN up : up[n].op = "input" => up[n].id = 0
    BY Frames
  <2>2. req[k] # 0
    BY <1>2 DEF Ids
  <2>3. up'[Len(up) + 1].id = req[k]
    BY <1>4
  <2>4. \A n \in DOMAIN up : up[n].id # req[k]
    BY <1>6, <2>1, <2>2
  <2>5. \A m, n \in DOMAIN up' : up'[m].op # "input" /\ up'[m].id = up'[n].id => m = n
    BY <1>4, <2>3, <2>4 DEF OnceInv
  <2>6. \A m \in DOMAIN up', n \in DOMAIN down : down[n].kind = "answer" => down[n].id # up'[m].id
    BY <1>4, <1>6, <2>3 DEF OnceInv
  <2>. QED BY <1>1, <2>5, <2>6 DEF OnceInv
<1>. QED BY <1>8, <1>9, <1>10

\* Input has no number.
LEMMA InputFrames ==
    ASSUME TypeOK, TypeOK', UpInv, DownInv, OnceInv, NEW k \in Callers, Input(k)
    PROVE  UpInv' /\ DownInv' /\ OnceInv'
<1>. DEFINE e == [id |-> 0, op |-> "input", from |-> k]
<1>1. up' = Append(up, e) /\ UNCHANGED <<pc, req, op, nextReq, slot, down>>
  BY DEF Input
<1>2. e \in Asked
  BY DEF Asked
<1>3. /\ up'[Len(up) + 1].op = "input" /\ up'[Len(up) + 1].id = 0
      /\ \A n \in DOMAIN up : up'[n] = up[n]
      /\ \A n \in DOMAIN up' : n \in DOMAIN up \/ n = Len(up) + 1
  <2>1. e.op = "input" /\ e.id = 0
    OBVIOUS
  <2>. HIDE DEF e
  <2>2. up \in Seq(Asked)
    BY DEF TypeOK
  <2>. QED BY <1>1, <1>2, <2>1, <2>2, Longer
<1>4. UpInv'
  BY <1>1, <1>3 DEF UpInv, UpFrame, For, Numbered
<1>5. DownInv'
  BY <1>1 DEF DownInv, DownFrame, For, Numbered
<1>6. OnceInv'
  <2>1. /\ \A n \in DOMAIN up : up[n].op # "input" => up[n].id # 0
        /\ \A n \in DOMAIN down : down[n].kind = "answer" => down[n].id # 0
    BY Frames DEF Ids
  <2>2. \A m, n \in DOMAIN up' : up'[m].op # "input" /\ up'[m].id = up'[n].id => m = n
    BY <1>3, <2>1 DEF OnceInv
  <2>3. \A m \in DOMAIN up', n \in DOMAIN down : down[n].kind = "answer" => down[n].id # up'[m].id
    BY <1>3, <2>1 DEF OnceInv
  <2>. QED BY <1>1, <2>2, <2>3 DEF OnceInv
<1>. QED BY <1>4, <1>5, <1>6

\* A frame that is pushed answers nothing; frames may have been taken from the
\* front of the other queue.
LEMMA PushFrames ==
    ASSUME TypeOK, TypeOK', UpInv, DownInv, OnceInv, UNCHANGED <<pc, req, op, nextReq, slot>>,
           \/ up' = up
           \/ up # <<>> /\ up' = Tail(up),
           NEW e \in Told, down' \in {down, Append(down, e)}, e.kind # "answer"
    PROVE  UpInv' /\ DownInv' /\ OnceInv'
<1>1. \A n \in DOMAIN down' : down'[n].kind = "answer" => n \in DOMAIN down /\ down'[n] = down[n]
  BY Longer DEF TypeOK
<1>2. PICK d \in {0, 1} : \A n \in DOMAIN up' : n \in Nat /\ n + d \in DOMAIN up /\ up'[n] = up[n + d]
  <2>1. CASE up' = up
    <3>1. \A n \in DOMAIN up : n \in Nat /\ n + 0 = n
      <4>1. up \in Seq(Asked)
        BY DEF TypeOK
      <4>2. DOMAIN up = 1 .. Len(up) /\ Len(up) \in Nat
        BY <4>1, LenProperties
      <4>. QED BY <4>2
    <3>. QED BY <2>1, <3>1
  <2>2. CASE up # <<>> /\ up' = Tail(up)
    <3>1. \A n \in DOMAIN up' : n \in Nat /\ n + 1 \in DOMAIN up /\ up'[n] = up[n + 1]
      BY <2>2, Shorter DEF TypeOK
    <3>. QED BY <3>1
  <2>. QED BY <2>1, <2>2
<1>3. UpInv'
  BY <1>2 DEF UpInv, UpFrame, For, Numbered
<1>4. DownInv'
  BY <1>1 DEF DownInv, DownFrame, For, Numbered
<1>5. OnceInv'
  <2>1. \A m, n \in DOMAIN up' : up'[m].op # "input" /\ up'[m].id = up'[n].id => m = n
    <3>. SUFFICES ASSUME NEW m \in DOMAIN up', NEW n \in DOMAIN up',
                         up'[m].op # "input" /\ up'[m].id = up'[n].id
                  PROVE  m = n
      OBVIOUS
    <3>1. /\ m + d \in DOMAIN up /\ n + d \in DOMAIN up /\ m \in Nat /\ n \in Nat
          /\ up[m + d].op # "input" /\ up[m + d].id = up[n + d].id
      BY <1>2
    <3>2. m + d = n + d
      BY <3>1 DEF OnceInv
    <3>. QED BY <3>1, <3>2
  <2>2. \A m, n \in DOMAIN down' :
           down'[m].kind = "answer" /\ down'[n].kind = "answer" /\ down'[m].id = down'[n].id => m = n
    BY <1>1 DEF OnceInv
  <2>3. \A m \in DOMAIN up', n \in DOMAIN down' : down'[n].kind = "answer" => down'[n].id # up'[m].id
    BY <1>1, <1>2 DEF OnceInv
  <2>. QED BY <2>1, <2>2, <2>3 DEF OnceInv
<1>. QED BY <1>3, <1>4, <1>5

\* The answer takes the place of the request.
LEMMA AnswerFrames ==
    ASSUME TypeOK, TypeOK', UpInv, DownInv, OnceInv, UNCHANGED <<pc, req, op, nextReq, slot>>,
           up # <<>>, up' = Tail(up), Head(up).op # "input",
           NEW r \in {"ok", "error"}, NEW g \in Nat,
           r = "ok" /\ Head(up).op = "attach" => g # 0,
           down' = Append(down, [kind |-> "answer", id |-> Head(up).id, result |-> r,
                                 gen |-> g, for |-> Head(up).from])
    PROVE  UpInv' /\ DownInv' /\ OnceInv'
<1>. DEFINE e == [kind |-> "answer", id |-> Head(up).id, result |-> r, gen |-> g,
                  for |-> Head(up).from]
<1>1. /\ 1 \in DOMAIN up /\ up[1] = Head(up)
      /\ \A n \in DOMAIN up' : n \in Nat /\ n + 1 \in DOMAIN up /\ n + 1 # 1 /\ up'[n] = up[n + 1]
  BY Shorter DEF TypeOK
<1>2. up[1].id \in Ids /\ up[1].from \in Callers
  BY <1>1, Frames
<1>3. e \in Told
  BY <1>1, <1>2 DEF Told
<1>4. /\ down'[Len(down) + 1] = e
      /\ \A n \in DOMAIN down : down'[n] = down[n]
      /\ \A n \in DOMAIN down' : n \in DOMAIN down \/ n = Len(down) + 1
  <2>1. down' = Append(down, e) /\ down \in Seq(Told)
    BY DEF TypeOK
  <2>. HIDE DEF e
  <2>. QED BY <1>3, <2>1, Longer
<1>5. down'[Len(down) + 1].id = up[1].id
  BY <1>1, <1>4
<1>6. UpInv'
  BY <1>1 DEF UpInv, UpFrame, For, Numbered
<1>7. DownFrame(e)
  BY <1>1 DEF UpInv, UpFrame, DownFrame
<1>8. DownInv'
  <2>. SUFFICES ASSUME NEW n \in DOMAIN down', down'[n].kind = "answer" PROVE DownFrame(down[n])'
    BY DEF DownInv
  <2>1. CASE n \in DOMAIN down
    BY <1>4, <2>1 DEF DownInv, DownFrame, For, Numbered
  <2>2. CASE n = Len(down) + 1
    <3>1. down'[n] = e
      BY <1>4, <2>2
    <3>. HIDE DEF e
    <3>. QED BY <1>7, <3>1 DEF DownFrame, For, Numbered
  <2>. QED BY <1>4, <2>1, <2>2
<1>9. OnceInv'
  <2>1. \A m, n \in DOMAIN up' : up'[m].op # "input" /\ up'[m].id = up'[n].id => m = n
    BY <1>1 DEF OnceInv
  <2>2. \A m, n \in DOMAIN down' :
           down'[m].kind = "answer" /\ down'[n].kind = "answer" /\ down'[m].id = down'[n].id => m = n
    BY <1>1, <1>4, <1>5 DEF OnceInv
  <2>3. \A m \in DOMAIN up', n \in DOMAIN down' : down'[n].kind = "answer" => down'[n].id # up'[m].id
    <3>1. \A m \in DOMAIN up' : up'[m].id # up[1].id
      BY <1>1 DEF OnceInv
    <3>. QED BY <1>1, <1>4, <1>5, <3>1 DEF OnceInv
  <2>. QED BY <2>1, <2>2, <2>3 DEF OnceInv
<1>. QED BY <1>6, <1>8, <1>9

\* The frame that is read leaves the queue; no other has the number whose slot it
\* fills.
LEMMA ReadFrames ==
    ASSUME TypeOK, TypeOK', UpInv, DownInv, OnceInv, ReadFrame
    PROVE  UpInv' /\ DownInv' /\ OnceInv'
<1>1. /\ UNCHANGED <<pc, req, op, nextReq, up>> /\ down # <<>> /\ down' = Tail(down)
      /\ \/ Head(down).kind = "answer" /\ SettleSlot(Head(down).id, Head(down).result)
         \/ Head(down).kind # "answer" /\ slot' = slot
  BY DEF ReadFrame
<1>2. /\ 1 \in DOMAIN down /\ down[1] = Head(down)
      /\ \A n \in DOMAIN down' : n \in Nat /\ n + 1 \in DOMAIN down /\ n + 1 # 1 /\ down'[n] = down[n + 1]
  BY <1>1, Shorter DEF TypeOK
<1>3. \A i \in Ids : ~(down[1].kind = "answer" /\ i = down[1].id) => slot'[i] = slot[i]
  BY <1>1, <1>2, Frames DEF SettleSlot, TypeOK
<1>4. /\ \A n \in DOMAIN up : up[n].op # "input" => slot'[up[n].id] = slot[up[n].id]
      /\ \A n \in DOMAIN down' : down'[n].kind = "answer" => slot'[down'[n].id] = slot[down'[n].id]
  BY <1>2, <1>3, Frames DEF OnceInv
<1>5. UpInv'
  BY <1>1, <1>4 DEF UpInv, UpFrame, For, Numbered
<1>6. DownInv'
  BY <1>1, <1>2, <1>4 DEF DownInv, DownFrame, For, Numbered
<1>7. OnceInv'
  BY <1>1, <1>2 DEF OnceInv
<1>. QED BY <1>5, <1>6, <1>7

\* Every step keeps the frames on the way in order.
LEMMA FramesNext ==
    ASSUME TypeOK, CountInv, ReqInv, UpInv, DownInv, OnceInv, StreamInv, [Next]_vars
    PROVE  UpInv' /\ DownInv' /\ OnceInv'
<1>0. TypeOK'
  BY TypeNext
<1>1. CASE UNCHANGED vars
  BY <1>1, Dropped DEF vars
<1>2. ASSUME NEW k \in Callers, Attach(k) \/ SubscribeEvents(k) PROVE UpInv' /\ DownInv' /\ OnceInv'
  <2>1. /\ pc[k] = "idle" /\ pc' = [pc EXCEPT ![k] = "request"]
        /\ \E o \in {"attach", "sub"} : op' = [op EXCEPT ![k] = o]
        /\ UNCHANGED <<req, nextReq, slot, wires>>
    BY <1>2 DEF Attach, SubscribeEvents, MayCall, Goto
  <2>2. \A j \in Callers : Numbered(j)' =>
          Numbered(j) /\ op'[j] = op[j] /\ (pc[j] = "wait" => pc'[j] = "wait")
    BY <2>1 DEF Numbered, TypeOK
  <2>. QED BY <1>0, <2>1, <2>2, SameQuiet, QuietSame
<1>3. ASSUME NEW k \in Callers, Call(k) \/ (Request(k) /\ ~closed) PROVE UpInv' /\ DownInv' /\ OnceInv'
  <2>1. Numbers(k)
    BY <1>3, CallNumbers, RequestNumbers
  <2>. QED BY <1>0, <2>1, NumbersQuiet, QuietSame
<1>4. ASSUME NEW k \in Callers, \/ Request(k) /\ closed
                                \/ Send(k) /\ conn # "open"
                                \/ Refused(k)
                                \/ GiveUp(k)
                                \/ Settled(k)
      PROVE  UpInv' /\ DownInv' /\ OnceInv'
  <2>1. Ends(k)
    BY <1>4, FailEnds, SettledEnds
  <2>. QED BY <1>0, <2>1, EndsQuiet, QuietSame
<1>5. ASSUME NEW k \in Callers, Send(k), conn = "open" PROVE UpInv' /\ DownInv' /\ OnceInv'
  <2>1. loop = "run"
    BY <1>5 DEF StreamInv, TypeOK
  <2>. QED BY <1>0, <1>5, <2>1, SendFrames
<1>6. ASSUME NEW k \in Callers, RegisterWatch(k) PROVE UpInv' /\ DownInv' /\ OnceInv'
  <2>1. /\ pc[k] = "register" /\ pc' = [pc EXCEPT ![k] = "idle"]
        /\ UNCHANGED <<req, op, nextReq, slot, wires>>
    BY <1>6 DEF RegisterWatch, Goto
  <2>2. \A j \in Callers : Numbered(j)' =>
          Numbered(j) /\ op'[j] = op[j] /\ (pc[j] = "wait" => pc'[j] = "wait")
    BY <2>1 DEF Numbered, TypeOK
  <2>. QED BY <1>0, <2>1, <2>2, SameQuiet, QuietSame
<1>7. ASSUME NEW k \in Callers, Input(k) PROVE UpInv' /\ DownInv' /\ OnceInv'
  BY <1>0, <1>7, InputFrames
<1>8. CASE Close \/ CloseConn \/ Lose
  <2>1. UNCHANGED <<nextReq, pc, req, op, slot>> /\ up' \in {up, <<>>} /\ down' \in {down, <<>>}
    BY <1>8 DEF Close, CloseConn, Lose
  <2>. QED BY <2>1, Dropped
<1>9. CASE ReadFrame
  BY <1>0, <1>9, ReadFrames
<1>10. CASE ReadFails
  <2>1. up = <<>> /\ down = <<>> /\ UNCHANGED wires
    BY <1>10 DEF ReadFails, StreamInv
  <2>2. DOMAIN up' = {} /\ DOMAIN down' = {}
    BY <2>1
  <2>. QED BY <2>2 DEF UpInv, DownInv, OnceInv
<1>11. CASE DaemonHandle
  <2>1. /\ UNCHANGED <<pc, req, op, nextReq, slot>> /\ up # <<>> /\ up' = Tail(up)
        /\ Handle(Head(up))
    BY <1>11 DEF DaemonHandle
  <2>2. 1 \in DOMAIN up /\ up[1] = Head(up)
    BY <2>1, Shorter DEF TypeOK
  <2>3. /\ Head(up).from \in Callers /\ Head(up).op \in Calls \cup {"input"}
        /\ Head(up).op # "input" => Head(up).id \in Ids
    <3>1. \A f \in Asked : f.op \in Calls \cup {"input"}
      BY DEF Asked
    <3>. QED BY <2>2, <3>1, Frames
  <2>4. [kind |-> "refusal", gen |-> attached] \in Told
    BY DEF Told, Pushed, TypeOK
  <2>5. CASE down' \in {down, Append(down, [kind |-> "refusal", gen |-> attached])}
    BY <1>0, <2>1, <2>4, <2>5, PushFrames
  <2>6. ASSUME NEW r \in {"ok", "error"}, NEW g \in Nat, Head(up).op # "input",
               down' = Append(down, [kind |-> "answer", id |-> Head(up).id, result |-> r,
                                     gen |-> g, for |-> Head(up).from]),
               r = "ok" /\ Head(up).op = "attach" => g # 0
        PROVE  UpInv' /\ DownInv' /\ OnceInv'
    BY <1>0, <2>1, <2>6, AnswerFrames
  <2>. QED BY <2>1, <2>3, <2>5, <2>6, Handled
<1>12. CASE DaemonOutput
  <2>1. /\ UNCHANGED <<pc, req, op, nextReq, slot, up>>
        /\ down' = Append(down, [kind |-> "output", gen |-> attached])
    BY <1>12 DEF DaemonOutput, Push
  <2>2. [kind |-> "output", gen |-> attached] \in Told
    BY DEF Told, Pushed, TypeOK
  <2>. QED BY <1>0, <2>1, <2>2, PushFrames
<1>. QED BY <1>1, <1>2, <1>3, <1>4, <1>5, <1>6, <1>7, <1>8, <1>9, <1>10, <1>11, <1>12
         DEF Next, CallerStep, Terminated

-----------------------------------------------------------------------------
(* Streams and the end of the read loop. *)

\* Nothing of streams and callers that matters to them changes.
LEMMA StreamSame ==
    ASSUME StreamInv, UNCHANGED <<loop, stream, streams, op>>,
           conn # "open" => conn' # "open",
           conn' # "open" => up' = <<>>, conn' = "closed" => down' = <<>>,
           \A j \in Callers : pc[j] \in {"request", "send"} /\ loop = "done" => pc'[j] \in {"request", "send"}
    PROVE  StreamInv'
BY DEF StreamInv

\* Every step keeps the streams in order.
LEMMA StreamNext ==
    ASSUME TypeOK, CountInv, ReqInv, StreamInv, [Next]_vars
    PROVE  StreamInv'
<1>1. CASE UNCHANGED vars
  BY <1>1, StreamSame DEF vars, StreamInv
<1>2. ASSUME NEW k \in Callers, Attach(k) PROVE StreamInv'
  <2>1. /\ pc[k] = "idle" /\ streams = None /\ stream[k] \in {"none", "ended"} /\ streams' = k
        /\ pc'[k] = "request" /\ stream'[k] = "opening" /\ op'[k] = "attach"
        /\ \A j \in Callers : j # k => pc'[j] = pc[j] /\ stream'[j] = stream[j] /\ op'[j] = op[j]
        /\ UNCHANGED <<conn, loop, wires>>
    BY <1>2 DEF Attach, MayCall, Goto, TypeOK
  <2>. QED BY <2>1, CallersAssumption DEF StreamInv
<1>3. ASSUME NEW k \in Callers, SubscribeEvents(k) PROVE StreamInv'
  <2>1. /\ pc[k] = "idle" /\ pc'[k] = "request" /\ op'[k] = "sub"
        /\ \A j \in Callers : j # k => pc'[j] = pc[j] /\ op'[j] = op[j]
        /\ UNCHANGED <<conn, loop, wires, stream, streams>>
    BY <1>3 DEF SubscribeEvents, MayCall, Goto, TypeOK
  <2>2. op[k] \notin {"attach", "detach"}
    BY <2>1 DEF ReqInv
  <2>. QED BY <2>1, <2>2 DEF StreamInv
<1>4. ASSUME NEW k \in Callers, Call(k) PROVE StreamInv'
  <2>1. /\ Numbers(k) /\ pc[k] = "idle" /\ (op'[k] = "detach" => stream[k] = "open")
        /\ op'[k] \in {"detach", "ping", "watch"}
    BY <1>4, CallNumbers
  <2>2. op[k] \notin {"attach", "detach"}
    BY <2>1 DEF ReqInv
  <2>. QED BY <2>1, <2>2 DEF StreamInv, Numbers
<1>5. ASSUME NEW k \in Callers, Request(k), ~closed PROVE StreamInv'
  <2>1. Numbers(k) /\ pc[k] = "request" /\ op' = op
    BY <1>5, RequestNumbers
  <2>. QED BY <2>1 DEF StreamInv, Numbers
<1>6. ASSUME NEW k \in Callers, \/ Request(k) /\ closed
                                \/ Send(k) /\ conn # "open"
                                \/ Refused(k)
                                \/ GiveUp(k)
      PROVE  StreamInv'
  <2>1. Fail(k) /\ UNCHANGED <<conn, loop, wires>>
    BY <1>6, FailEnds DEF Ends
  <2>2. /\ pc'[k] = "idle" /\ op'[k] = "ping"
        /\ \A j \in Callers : j # k => pc'[j] = pc[j] /\ op'[j] = op[j] /\ stream'[j] = stream[j]
        /\ op[k] = "attach" => stream'[k] = "none" /\ streams' = None
        /\ op[k] = "detach" => stream'[k] = "ended" /\ streams' = None
        /\ op[k] \notin {"attach", "detach"} => stream' = stream /\ streams' = streams
    BY <2>1, FailPoints
  <2>. QED BY <2>1, <2>2, CallersAssumption DEF StreamInv
<1>7. ASSUME NEW k \in Callers, Settled(k) PROVE StreamInv'
  <2>1. /\ Ends(k) /\ pc[k] = "wait"
        /\ \A j \in Callers : j # k => stream'[j] = stream[j]
        /\ op[k] = "attach" => /\ stream'[k] = IF stream[k] = "opening" THEN "open" ELSE stream[k]
                               /\ streams' = streams
        /\ op[k] = "detach" => stream'[k] = "ended" /\ streams' = None
        /\ op[k] \notin {"attach", "detach"} => stream' = stream /\ streams' = streams
    BY <1>7, SettledEnds
  <2>2. /\ UNCHANGED <<conn, loop, wires>> /\ op'[k] = "ping"
        /\ \A j \in Callers : j # k => pc'[j] = pc[j] /\ op'[j] = op[j]
    BY <2>1 DEF Ends
  <2>. QED BY <2>1, <2>2, CallersAssumption DEF StreamInv
<1>8. ASSUME NEW k \in Callers, Send(k), conn = "open" PROVE StreamInv'
  <2>1. UNCHANGED <<conn, loop, stream, streams, op>>
    BY <1>8 DEF Send
  <2>2. loop # "done"
    BY <1>8 DEF StreamInv
  <2>. QED BY <1>8, <2>1, <2>2, StreamSame
<1>9. ASSUME NEW k \in Callers, RegisterWatch(k) PROVE StreamInv'
  <2>1. /\ UNCHANGED <<conn, loop, stream, streams, op, wires>>
        /\ pc[k] = "register" /\ pc' = [pc EXCEPT ![k] = "idle"]
    BY <1>9 DEF RegisterWatch, Goto
  <2>2. \A j \in Callers : pc[j] \in {"request", "send"} => pc'[j] \in {"request", "send"}
    BY <2>1 DEF TypeOK
  <2>. QED BY <2>1, <2>2, StreamSame DEF StreamInv
<1>10. CASE (\E k \in Callers : Input(k)) \/ DaemonHandle \/ DaemonOutput
  <2>1. conn = "open" /\ UNCHANGED <<conn, loop, stream, streams, op, pc>>
    BY <1>10 DEF Input, DaemonHandle, DaemonOutput
  <2>. QED BY <2>1, StreamSame
<1>11. CASE Close \/ CloseConn \/ Lose
  <2>1. UNCHANGED <<loop, stream, streams, op, pc>>
    BY <1>11 DEF Close, CloseConn, Lose
  <2>2. /\ conn' \in {"open", "lost", "closed"} /\ (conn # "open" => conn' # "open")
        /\ conn' # "open" => up' = <<>>
        /\ conn' = "closed" => down' = <<>>
    BY <1>11 DEF Close, CloseConn, Lose, StreamInv, TypeOK
  <2>. QED BY <2>1, <2>2, StreamSame
<1>12. CASE ReadFrame
  <2>1. conn # "closed" /\ UNCHANGED <<conn, loop, stream, streams, op, pc, up>>
    BY <1>12 DEF ReadFrame
  <2>. QED BY <2>1, StreamSame DEF StreamInv
<1>13. CASE ReadFails
  <2>1. /\ loop = "run" /\ conn # "open" /\ loop' = "done"
        /\ stream' = [k \in Callers |-> IF k = streams THEN "ended" ELSE stream[k]]
        /\ UNCHANGED <<conn, wires, op, pc>>
    BY <1>13 DEF ReadFails, FailAll
  <2>2. \A k \in Callers : stream'[k] \notin {"opening", "open"}
    BY <2>1 DEF StreamInv
  <2>. QED BY <2>1, <2>2 DEF StreamInv
<1>. QED BY <1>1, <1>2, <1>3, <1>4, <1>5, <1>6, <1>7, <1>8, <1>9, <1>10, <1>11, <1>12, <1>13
         DEF Next, CallerStep, Terminated

-----------------------------------------------------------------------------
(* Attachments. *)

\* Numbers, frames and streams are in order.
Order == TypeOK /\ CountInv /\ ReqInv /\ UpInv /\ DownInv /\ OnceInv /\ StreamInv

\* The parts of FlowInv.
Flow == AwaitedInv /\ AnnouncedInv /\ OwnedInv /\ InputInv /\ DetachedInv /\ FreshInv

\* While the read loop runs, an Attach or a Detach under way, and an attachment
\* that is announced, are those of the registered stream.
LEMMA Registered ==
    ASSUME Order, loop = "run"
    PROVE  /\ \A k \in Callers : Owned(k) => streams = k
           /\ \A k \in Callers : op[k] = "attach" => streams = k /\ stream[k] = "opening"
           /\ \A k \in Callers : op[k] = "detach" => streams = k /\ stream[k] = "open" /\ Owned(k)
           /\ \A k \in Callers : stream[k] = "open" => streams = k /\ Owned(k) /\ op[k] # "attach"
           /\ streams = None => \A k \in Callers : /\ stream[k] \notin {"opening", "open"}
                                                   /\ op[k] \notin {"attach", "detach"} /\ ~Owned(k)
BY CallersAssumption DEF Order, StreamInv, Owned

\* What a frame on its way says of its caller.
LEMMA Underway ==
    ASSUME Order, loop = "run", AwaitedInv
    PROVE  /\ \A n \in DOMAIN up : up[n].op \in {"attach", "detach"} =>
                /\ up[n].from \in Callers /\ pc[up[n].from] = "wait" /\ req[up[n].from] = up[n].id
                /\ op[up[n].from] = up[n].op /\ slot[up[n].id] = None /\ streams = up[n].from
           /\ \A n \in DOMAIN down : down[n].kind = "answer" /\ down[n].gen # 0 =>
                /\ down[n].for \in Callers /\ pc[down[n].for] = "wait"
                /\ req[down[n].for] = down[n].id /\ op[down[n].for] = "attach"
                /\ slot[down[n].id] = None /\ streams = down[n].for
                /\ \A k \in Callers : ~Owned(k)
<1>1. ASSUME NEW n \in DOMAIN up, up[n].op \in {"attach", "detach"}
      PROVE  /\ up[n].from \in Callers /\ pc[up[n].from] = "wait" /\ req[up[n].from] = up[n].id
             /\ op[up[n].from] = up[n].op /\ slot[up[n].id] = None /\ streams = up[n].from
  <2>1. up[n].from \in Callers /\ pc[up[n].from] = "wait" /\ req[up[n].from] = up[n].id
    BY <1>1, Frames DEF AwaitedInv, Order
  <2>2. op[up[n].from] = up[n].op /\ slot[up[n].id] = None
    BY <1>1, <2>1 DEF Order, UpInv, UpFrame, Numbered
  <2>. QED BY <1>1, <2>1, <2>2, Registered
<1>2. ASSUME NEW n \in DOMAIN down, down[n].kind = "answer", down[n].gen # 0
      PROVE  /\ down[n].for \in Callers /\ pc[down[n].for] = "wait"
             /\ req[down[n].for] = down[n].id /\ op[down[n].for] = "attach"
             /\ slot[down[n].id] = None /\ streams = down[n].for
             /\ \A k \in Callers : ~Owned(k)
  <2>1. /\ down[n].for \in Callers /\ pc[down[n].for] = "wait" /\ req[down[n].for] = down[n].id
        /\ op[down[n].for] = "attach"
    BY <1>2, Frames DEF AwaitedInv, Order
  <2>2. slot[down[n].id] = None
    BY <1>2, <2>1 DEF Order, DownInv, DownFrame, Numbered
  <2>3. streams = down[n].for /\ stream[down[n].for] = "opening"
    BY <2>1, Registered
  <2>4. \A k \in Callers : ~Owned(k)
    BY <2>1, <2>2, <2>3, Registered, CallersAssumption DEF Owned
  <2>. QED BY <2>1, <2>2, <2>3, <2>4
<1>. QED BY <1>1, <1>2

\* Steps of callers that have nothing to do with the registered stream, and a
\* Detach that begins.
Aside ==
    /\ UNCHANGED <<streams, stream, got, gen, wires, attached, conn, loop>>
    /\ \A j \in Callers : Owned(j)' <=> Owned(j)
    /\ \A j \in Callers : op[j] \in {"attach", "detach"} /\ pc[j] = "wait" =>
         op'[j] = op[j] /\ pc'[j] = "wait" /\ req'[j] = req[j] /\ slot'[req[j]] = slot[req[j]]
    /\ \A j \in Callers : op'[j] = "detach" /\ pc'[j] = "wait" => op[j] = "detach" /\ pc[j] = "wait"

\* Such steps leave the attachments as they are.
LEMMA AsideFlow ==
    ASSUME Order, Flow, loop = "run", Aside
    PROVE  Flow'
<1>1. AwaitedInv'
  <2>1. /\ \A n \in DOMAIN up : up[n].op \in {"attach", "detach"} =>
             pc'[up[n].from] = "wait" /\ req'[up[n].from] = up[n].id
        /\ \A n \in DOMAIN down : down[n].kind = "answer" /\ down[n].gen # 0 =>
             /\ pc'[down[n].for] = "wait" /\ req'[down[n].for] = down[n].id
             /\ op'[down[n].for] = "attach" /\ down[n].result = "ok"
    BY Underway DEF Flow, Aside, AwaitedInv
  <2>. QED BY <2>1 DEF AwaitedInv, Aside
<1>2. AnnouncedInv'
  BY DEF Flow, AnnouncedInv, Aside, IsPush
<1>3. OwnedInv'
  BY DEF Flow, OwnedInv, Aside, IsPush
<1>4. InputInv'
  BY DEF Flow, InputInv, Aside
<1>5. DetachedInv'
  BY DEF Flow, DetachedInv, Aside, IsPush, NoInput, NoPush
<1>6. FreshInv'
  BY DEF Flow, FreshInv, Aside, IsPush, NoPush
<1>. QED BY <1>1, <1>2, <1>3, <1>4, <1>5, <1>6 DEF Flow

\* The registered stream leaves: nothing of it may be on the way to be taken for
\* the next one's.
LEMMA LeavesFlow ==
    ASSUME Order, Order', Flow, loop' = "run", streams' = None, UNCHANGED <<conn, wires, attached>>,
           \A n \in DOMAIN up : up[n].op \notin {"attach", "detach", "input"},
           \A n \in DOMAIN down : down[n].kind = "answer" => down[n].gen = 0,
           conn = "open" /\ attached = 0 => NoPush
    PROVE  Flow'
<1>1. \A k \in Callers : ~Owned(k)' /\ op'[k] # "detach"
  BY CallersAssumption DEF Order, StreamInv, Owned
<1>2. AwaitedInv'
  BY DEF AwaitedInv
<1>3. AnnouncedInv'
  BY DEF AnnouncedInv
<1>4. OwnedInv'
  BY <1>1 DEF OwnedInv
<1>5. InputInv'
  BY DEF InputInv
<1>6. DetachedInv'
  BY <1>1 DEF DetachedInv
<1>7. FreshInv'
  BY CallersAssumption DEF FreshInv, NoPush, IsPush
<1>. QED BY <1>2, <1>3, <1>4, <1>5, <1>6, <1>7 DEF Flow

\* Attach finds nothing on the way of an earlier attachment, or one that the
\* daemon will refuse the new one for.
LEMMA AttachFlow ==
    ASSUME Order, Order', Flow, loop = "run", NEW k \in Callers, Attach(k)
    PROVE  Flow'
<1>1. /\ pc[k] = "idle" /\ streams = None /\ streams' = k /\ pc'[k] = "request" /\ got'[k] = {}
      /\ UNCHANGED <<conn, wires, attached, loop>>
  BY DEF Attach, MayCall, Goto, Order, TypeOK
<1>2. \A j \in Callers : /\ stream[j] \notin {"opening", "open"}
                         /\ op[j] \notin {"attach", "detach"} /\ ~Owned(j)
  BY <1>1, Registered
<1>3. \A j \in Callers : ~Owned(j)' /\ op'[j] # "detach"
  BY <1>1, Registered DEF Attach, Order, TypeOK, StreamInv, Owned
<1>4. /\ \A n \in DOMAIN up : up[n].op \notin {"attach", "detach"}
      /\ \A n \in DOMAIN down : down[n].kind = "answer" => down[n].gen = 0
  BY <1>2, Underway DEF Flow
<1>5. NoInput
  BY <1>2 DEF Flow, InputInv, NoInput
<1>6. AwaitedInv' /\ AnnouncedInv'
  BY <1>1, <1>4 DEF AwaitedInv, AnnouncedInv
<1>7. OwnedInv' /\ DetachedInv'
  BY <1>3 DEF OwnedInv, DetachedInv
<1>8. InputInv'
  BY <1>1, <1>5 DEF InputInv, NoInput
<1>9. FreshInv'
  BY <1>1, <1>2 DEF Flow, FreshInv, NoPush, IsPush
<1>. QED BY <1>6, <1>7, <1>8, <1>9 DEF Flow

\* A slot that is filled: nothing is on the way for its caller.
LEMMA Answered ==
    ASSUME Order, loop = "run", AwaitedInv, NEW k \in Callers, op[k] \in {"attach", "detach"},
           pc[k] # "wait" \/ slot[req[k]] # None
    PROVE  /\ \A n \in DOMAIN up : up[n].op \notin {"attach", "detach"}
           /\ \A n \in DOMAIN down : down[n].kind = "answer" => down[n].gen = 0
<1>1. streams = k
  BY Registered
<1>2. ASSUME NEW n \in DOMAIN up, up[n].op \in {"attach", "detach"} PROVE FALSE
  BY <1>1, <1>2, Underway
<1>3. ASSUME NEW n \in DOMAIN down, down[n].kind = "answer", down[n].gen # 0 PROVE FALSE
  BY <1>1, <1>3, Underway
<1>. QED BY <1>2, <1>3

\* A call that fails without its context ending.
LEMMA FailFlow ==
    ASSUME Order, Order', Flow, loop = "run", NEW k \in Callers, ~abandoned',
           \/ Request(k) /\ closed
           \/ Send(k) /\ conn # "open"
           \/ Refused(k)
           \/ GiveUp(k)
    PROVE  Flow'
<1>1. /\ Fail(k) /\ Ends(k)
      /\ \/ pc[k] = "request"
         \/ pc[k] = "send" /\ conn # "open"
         \/ pc[k] = "wait" /\ slot[req[k]] \in {"error", "closed"}
         \/ pc[k] = "wait" /\ op[k] \notin {"attach", "detach"}
  BY FailEnds DEF Order
<1>2. /\ \A j \in Callers : j # k => /\ pc'[j] = pc[j] /\ req'[j] = req[j] /\ op'[j] = op[j]
                                     /\ stream'[j] = stream[j]
      /\ op'[k] = "ping"
      /\ op[k] \in {"attach", "detach"} => streams' = None
      /\ op[k] \notin {"attach", "detach"} => stream' = stream /\ streams' = streams
      /\ UNCHANGED <<got, gen, conn, wires, attached, loop>>
  BY <1>1, FailPoints DEF Order, Ends
<1>3. CASE op[k] \notin {"attach", "detach"}
  <2>1. \A j \in Callers : j # k /\ Numbered(j) => slot'[req[j]] = slot[req[j]]
    <3>1. \A j \in Callers : Numbered(j) => req[j] \in Ids
      BY BoundsAssumption DEF Order, ReqInv, TypeOK, Ids
    <3>2. \A j \in Callers : j # k /\ Numbered(j) /\ Numbered(k) => req[j] # req[k]
      BY DEF Order, ReqInv
    <3>. QED BY <1>1, <3>1, <3>2 DEF Ends
  <2>2. stream[k] # "opening"
    BY <1>3 DEF Order, StreamInv
  <2>3. \A j \in Callers : Owned(j)' <=> Owned(j)
    BY <1>2, <1>3, <2>1, <2>2 DEF Owned, Numbered
  <2>4. Aside
    BY <1>2, <1>3, <2>1, <2>3 DEF Aside, Numbered
  <2>. QED BY <2>4, AsideFlow
<1>4. CASE op[k] \in {"attach", "detach"}
  <2>1. pc[k] # "wait" \/ slot[req[k]] \in {"error", "closed"}
    BY <1>1, <1>4
  <2>2. pc[k] # "wait" \/ slot[req[k]] # None
    BY <2>1, CallersAssumption
  <2>3. /\ \A n \in DOMAIN up : up[n].op \notin {"attach", "detach"}
        /\ \A n \in DOMAIN down : down[n].kind = "answer" => down[n].gen = 0
    BY <1>4, <2>2, Answered DEF Flow
  <2>4. CASE op[k] = "attach"
    <3>1. streams = k /\ stream[k] = "opening"
      BY <2>4, Registered
    <3>2. \A j \in Callers : ~Owned(j) /\ stream[j] # "open"
      BY <2>1, <3>1, Registered DEF Owned
    <3>3. NoInput
      BY <3>2 DEF Flow, InputInv, NoInput
    <3>4. conn = "open" /\ attached = 0 => NoPush
      BY <3>2 DEF Flow, FreshInv
    <3>. QED BY <1>2, <1>4, <2>3, <3>3, <3>4, LeavesFlow DEF NoInput
  <2>5. CASE op[k] = "detach"
    <3>1. pc[k] # "request"
      BY <2>5 DEF Order, ReqInv
    <3>2. conn = "open" => NoInput /\ (attached = 0 => NoPush)
      BY <1>1, <1>4, <2>2, <2>5, <3>1 DEF Flow, DetachedInv
    <3>3. conn # "open" => NoInput
      BY DEF Order, StreamInv, NoInput
    <3>. QED BY <1>2, <1>4, <2>3, <3>2, <3>3, LeavesFlow DEF NoInput
  <2>. QED BY <1>4, <2>4, <2>5
<1>. QED BY <1>3, <1>4

\* A call that succeeds: Attach hands out a stream that has its attachment, Detach
\* ends one that has been heard of last.
LEMMA SettledFlow ==
    ASSUME Order, Order', Flow, loop = "run", NEW k \in Callers, Settled(k)
    PROVE  Flow'
<1>1. /\ Ends(k) /\ pc[k] = "wait" /\ slot[req[k]] = "ok"
      /\ \A j \in Callers : j # k => stream'[j] = stream[j]
      /\ op[k] = "attach" => /\ stream'[k] = IF stream[k] = "opening" THEN "open" ELSE stream[k]
                             /\ streams' = streams
      /\ op[k] = "detach" => stream'[k] = "ended" /\ streams' = None
      /\ op[k] \notin {"attach", "detach"} => stream' = stream /\ streams' = streams
  BY SettledEnds DEF Order
<1>2. /\ \A j \in Callers : j # k => pc'[j] = pc[j] /\ req'[j] = req[j] /\ op'[j] = op[j]
      /\ op'[k] = "ping" /\ pc'[k] # "wait"
      /\ UNCHANGED <<got, gen, conn, wires, attached, loop>>
  BY <1>1 DEF Ends
<1>3. slot[req[k]] # None
  BY <1>1, CallersAssumption
<1>4. CASE op[k] \notin {"attach", "detach"}
  <2>1. \A j \in Callers : j # k /\ Numbered(j) => slot'[req[j]] = slot[req[j]]
    <3>1. \A j \in Callers : Numbered(j) => req[j] \in Ids
      BY BoundsAssumption DEF Order, ReqInv, TypeOK, Ids
    <3>2. \A j \in Callers : j # k /\ Numbered(j) /\ Numbered(k) => req[j] # req[k]
      BY DEF Order, ReqInv
    <3>. QED BY <1>1, <3>1, <3>2 DEF Ends
  <2>2. stream[k] # "opening"
    BY <1>4 DEF Order, StreamInv
  <2>3. \A j \in Callers : Owned(j)' <=> Owned(j)
    BY <1>1, <1>2, <1>4, <2>1, <2>2 DEF Owned, Numbered
  <2>4. Aside
    BY <1>1, <1>2, <1>4, <2>1, <2>3 DEF Aside, Numbered
  <2>. QED BY <2>4, AsideFlow
<1>5. CASE op[k] = "attach"
  <2>1. streams = k /\ stream[k] = "opening" /\ Owned(k) /\ stream'[k] = "open" /\ streams' = k
    BY <1>1, <1>5, Registered DEF Owned
  <2>2. /\ \A n \in DOMAIN up : up[n].op \notin {"attach", "detach"}
        /\ \A n \in DOMAIN down : down[n].kind = "answer" => down[n].gen = 0
    BY <1>3, <1>5, Answered DEF Flow
  <2>3. \A j \in Callers : (Owned(j)' => j = k) /\ op'[j] # "detach"
    BY <1>2, <2>1, Registered DEF Order, StreamInv, Owned
  <2>4. AwaitedInv' /\ AnnouncedInv'
    BY <1>2, <2>2 DEF AwaitedInv, AnnouncedInv
  <2>5. OwnedInv'
    <3>1. /\ got[k] \subseteq {gen[k]} /\ attached = gen[k] /\ attached # 0
          /\ \A j \in DOMAIN down : IsPush(down[j]) => down[j].gen = gen[k]
      BY <1>5, <2>1 DEF Flow, OwnedInv
    <3>. QED BY <1>2, <2>3, <3>1 DEF OwnedInv, IsPush
  <2>6. InputInv'
    <3>1. \A j \in Callers : stream[j] # "open"
      BY <2>1, Registered
    <3>2. \A n \in DOMAIN up : up[n].op # "input"
      BY <3>1 DEF Flow, InputInv
    <3>. QED BY <1>2, <3>2 DEF InputInv
  <2>7. DetachedInv'
    BY <2>3 DEF DetachedInv
  <2>8. FreshInv'
    BY <2>1 DEF FreshInv, Owned
  <2>. QED BY <2>4, <2>5, <2>6, <2>7, <2>8 DEF Flow
<1>6. CASE op[k] = "detach"
  <2>1. /\ \A n \in DOMAIN up : up[n].op \notin {"attach", "detach"}
        /\ \A n \in DOMAIN down : down[n].kind = "answer" => down[n].gen = 0
    BY <1>3, <1>6, Answered DEF Flow
  <2>2. conn = "open" => NoInput /\ (attached = 0 => NoPush)
    BY <1>1, <1>3, <1>6 DEF Flow, DetachedInv
  <2>3. conn # "open" => NoInput
    BY DEF Order, StreamInv, NoInput
  <2>. QED BY <1>1, <1>2, <1>6, <2>1, <2>2, <2>3, LeavesFlow DEF NoInput
<1>. QED BY <1>4, <1>5, <1>6

\* Send puts an Attach or a Detach behind all that was sent before it.
LEMMA SendFlow ==
    ASSUME Order, Order', Flow, loop = "run", NEW k \in Callers, Send(k), conn = "open"
    PROVE  Flow'
<1>. DEFINE e == [id |-> req[k], op |-> op[k], from |-> k]
            N == Len(up) + 1
<1>1. /\ pc[k] = "send" /\ pc' = [pc EXCEPT ![k] = "wait"] /\ up' = Append(up, e)
      /\ UNCHANGED <<req, op, nextReq, slot, down, stream, streams, gen, got, conn, attached, loop>>
  BY DEF Send, Goto
<1>2. req[k] \in Ids /\ req[k] <= nextReq /\ slot[req[k]] = None /\ op[k] \in Calls
  BY <1>1, BoundsAssumption DEF Order, ReqInv, Numbered, TypeOK, Ids
<1>3. e \in Asked
  BY <1>2 DEF Asked
<1>4. e.id = req[k] /\ e.op = op[k] /\ e.from = k /\ op[k] # "input"
  BY <1>2 DEF Calls
<1>5. /\ up'[N] = e /\ N \in DOMAIN up'
      /\ \A n \in DOMAIN up : up'[n] = up[n] /\ n < N
      /\ \A n \in DOMAIN up' : n \in DOMAIN up \/ n = N
  <2>1. up \in Seq(Asked)
    BY DEF Order, TypeOK
  <2>. HIDE DEF e
  <2>. QED BY <1>1, <1>3, <2>1, Longer
<1>. HIDE DEF e, N
<1>6. pc'[k] = "wait" /\ \A j \in Callers : j # k => pc'[j] = pc[j]
  BY <1>1 DEF Order, TypeOK
<1>7. \A j \in Callers : Owned(j)' <=> Owned(j)
  BY <1>1, <1>2, <1>6, CallersAssumption DEF Owned
<1>8. AwaitedInv'
  <2>1. \A n \in DOMAIN up : up[n].op \in {"attach", "detach"} =>
          pc'[up[n].from] = "wait" /\ req[up[n].from] = up[n].id
    BY <1>6, Underway DEF Flow
  <2>2. \A n \in DOMAIN down : down[n].kind = "answer" /\ down[n].gen # 0 =>
          /\ pc'[down[n].for] = "wait" /\ req[down[n].for] = down[n].id
          /\ op[down[n].for] = "attach" /\ down[n].result = "ok"
    BY <1>6, Underway DEF Flow, AwaitedInv
  <2>. QED BY <1>1, <1>4, <1>5, <1>6, <2>1, <2>2 DEF AwaitedInv
<1>9. AnnouncedInv'
  BY <1>1 DEF Flow, AnnouncedInv, IsPush
<1>10. OwnedInv'
  <2>. SUFFICES ASSUME NEW j \in Callers, Owned(j), attached = 0
                PROVE  /\ op[j] = "detach" /\ pc'[j] = "wait"
                       /\ \A n \in DOMAIN up' : up'[n].id # req[j]
    BY <1>1, <1>7 DEF Flow, OwnedInv, IsPush
  <2>1. op[j] = "detach" /\ pc[j] = "wait" /\ \A n \in DOMAIN up : up[n].id # req[j]
    BY DEF Flow, OwnedInv
  <2>2. req[k] # req[j]
    BY <1>1, <2>1 DEF Order, ReqInv, Numbered
  <2>. QED BY <1>4, <1>5, <1>6, <2>1, <2>2
<1>11. InputInv'
  BY <1>1, <1>4, <1>5 DEF Flow, InputInv
<1>12. DetachedInv'
  <2>1. NoInput => NoInput'
    BY <1>4, <1>5 DEF NoInput
  <2>2. \A n \in DOMAIN down : down[n].kind = "answer" => down[n].id # req[k]
    BY <1>1 DEF Order, DownInv, DownFrame, For, Numbered
  <2>3. NoPush' <=> NoPush
    BY <1>1 DEF NoPush, IsPush
  <2>. QED BY <1>1, <1>2, <1>6, <2>1, <2>2, <2>3 DEF Flow, DetachedInv, IsPush
<1>13. FreshInv'
  BY <1>1, <1>7 DEF Flow, FreshInv, NoPush, IsPush
<1>. QED BY <1>8, <1>9, <1>10, <1>11, <1>12, <1>13 DEF Flow

\* Input is sent on an open stream that no Detach is under way for.
LEMMA InputFlow ==
    ASSUME Order, Order', Flow, loop = "run", NEW k \in Callers, Input(k)
    PROVE  Flow'
<1>. DEFINE e == [id |-> 0, op |-> "input", from |-> k]
            N == Len(up) + 1
<1>1. /\ pc[k] = "idle" /\ stream[k] = "open" /\ up' = Append(up, e)
      /\ UNCHANGED <<pc, req, op, slot, down, stream, streams, gen, got, conn, attached, loop>>
  BY DEF Input
<1>2. e \in Asked
  BY DEF Asked
<1>3. e.id = 0 /\ e.op = "input"
  OBVIOUS
<1>4. /\ up'[N] = e /\ \A n \in DOMAIN up : up'[n] = up[n] /\ n < N
      /\ \A n \in DOMAIN up' : n \in DOMAIN up \/ n = N
  <2>1. up \in Seq(Asked)
    BY DEF Order, TypeOK
  <2>. HIDE DEF e
  <2>. QED BY <1>1, <1>2, <2>1, Longer
<1>. HIDE DEF e, N
<1>5. streams = k /\ Owned(k) /\ \A j \in Callers : op[j] = "detach" => j = k /\ pc[j] # "wait"
  BY <1>1, Registered
<1>6. attached # 0
  BY <1>1, <1>5 DEF Flow, OwnedInv
<1>7. \A n \in DOMAIN up : up[n].op # "detach"
  BY <1>5, Underway DEF Flow
<1>8. AwaitedInv'
  BY <1>1, <1>3, <1>4 DEF Flow, AwaitedInv
<1>9. AnnouncedInv'
  BY <1>1 DEF Flow, AnnouncedInv, IsPush
<1>10. OwnedInv'
  BY <1>1, <1>6 DEF Flow, OwnedInv, IsPush, Owned
<1>11. InputInv'
  BY <1>1, <1>3, <1>4, <1>6, <1>7 DEF InputInv
<1>12. DetachedInv'
  BY <1>1, <1>5 DEF DetachedInv
<1>13. FreshInv'
  BY <1>1, <1>6 DEF FreshInv
<1>. QED BY <1>8, <1>9, <1>10, <1>11, <1>12, <1>13 DEF Flow

\* The connection ends: frames are dropped, no new ones come.
LEMMA GoneFlow ==
    ASSUME Order, Flow, loop = "run", CloseConn \/ Lose
    PROVE  Flow'
<1>1. /\ conn' # "open" /\ up' = <<>> /\ down' \in {down, <<>>}
      /\ UNCHANGED <<pc, req, op, slot, stream, streams, gen, got, attached, loop>>
  BY DEF CloseConn, Lose
<1>2. DOMAIN up' = {} /\ \A n \in DOMAIN down' : n \in DOMAIN down /\ down'[n] = down[n]
  BY <1>1
<1>3. AwaitedInv' /\ InputInv'
  BY <1>1, <1>2 DEF Flow, AwaitedInv, InputInv
<1>4. AnnouncedInv'
  BY <1>1, <1>2 DEF Flow, AnnouncedInv, IsPush
<1>5. OwnedInv'
  BY <1>1, <1>2 DEF Flow, OwnedInv, Owned, IsPush
<1>6. DetachedInv' /\ FreshInv'
  BY <1>1 DEF DetachedInv, FreshInv
<1>. QED BY <1>3, <1>4, <1>5, <1>6 DEF Flow

\* Output is of the current attachment, which is the stream's or the one announced.
LEMMA OutputFlow ==
    ASSUME Order, Order', Flow, loop = "run", DaemonOutput
    PROVE  Flow'
<1>. DEFINE e == [kind |-> "output", gen |-> attached]
            N == Len(down) + 1
<1>1. /\ attached # 0 /\ down' = Append(down, e)
      /\ UNCHANGED <<pc, req, op, slot, up, stream, streams, gen, got, conn, attached, loop>>
  BY DEF DaemonOutput, Push
<1>2. e \in Told
  BY DEF Told, Pushed, Order, TypeOK
<1>3. e.kind = "output" /\ e.gen = attached
  OBVIOUS
<1>4. /\ down'[N] = e /\ \A n \in DOMAIN down : down'[n] = down[n] /\ n < N
      /\ \A n \in DOMAIN down' : n \in DOMAIN down \/ n = N
  <2>1. down \in Seq(Told)
    BY DEF Order, TypeOK
  <2>. HIDE DEF e
  <2>. QED BY <1>1, <1>2, <2>1, Longer
<1>. HIDE DEF e, N
<1>5. AwaitedInv'
  BY <1>1, <1>3, <1>4 DEF Flow, AwaitedInv
<1>6. AnnouncedInv'
  <2>. SUFFICES ASSUME NEW i \in DOMAIN down', down'[i].kind = "answer", down'[i].gen # 0
                PROVE  /\ attached' = down'[i].gen /\ got'[down'[i].for] = {}
                       /\ \A j \in DOMAIN down' : down'[j].kind # "answer" => i < j /\ down'[j].gen = down'[i].gen
    BY DEF AnnouncedInv, IsPush
  <2>1. i \in DOMAIN down /\ down'[i] = down[i]
    BY <1>3, <1>4
  <2>2. /\ attached = down[i].gen /\ got[down[i].for] = {} /\ i < N
        /\ \A j \in DOMAIN down : down[j].kind # "answer" => i < j /\ down[j].gen = down[i].gen
    BY <1>4, <2>1 DEF Flow, AnnouncedInv, IsPush
  <2>. QED BY <1>1, <1>3, <1>4, <2>1, <2>2
<1>7. OwnedInv'
  BY <1>1, <1>3, <1>4 DEF Flow, OwnedInv, IsPush, Owned
<1>8. InputInv'
  BY <1>1 DEF Flow, InputInv
<1>9. DetachedInv'
  <2>1. NoInput' <=> NoInput
    BY <1>1 DEF NoInput
  <2>. QED BY <1>1, <1>3, <1>4, <2>1 DEF Flow, DetachedInv
<1>10. FreshInv'
  BY <1>1 DEF FreshInv
<1>. QED BY <1>5, <1>6, <1>7, <1>8, <1>9, <1>10 DEF Flow

\* The frame that is read leaves the queue, and the others move up.
LEMMA ReadShift ==
    ASSUME Order, ReadFrame
    PROVE  /\ 1 \in DOMAIN down /\ down[1] = Head(down)
           /\ \A n \in DOMAIN down' :
                n \in Nat /\ n + 1 \in DOMAIN down /\ n + 1 # 1 /\ down'[n] = down[n + 1]
           /\ NoPush => NoPush'
           /\ UNCHANGED <<pc, req, op, stream, streams, conn, attached, loop, up, abandoned, nextReq>>
<1>1. /\ down \in Seq(Told) /\ down # <<>> /\ down' = Tail(down)
      /\ UNCHANGED <<pc, req, op, stream, streams, conn, attached, loop, up, abandoned, nextReq>>
  BY DEF ReadFrame, Order, TypeOK
<1>2. /\ 1 \in DOMAIN down /\ down[1] = Head(down)
      /\ \A n \in DOMAIN down' :
           n \in Nat /\ n + 1 \in DOMAIN down /\ n + 1 # 1 /\ down'[n] = down[n + 1]
  BY <1>1, Shorter
<1>. QED BY <1>1, <1>2 DEF NoPush, IsPush

\* The order of a Detach's answer and what is pushed is not changed by it.
LEMMA DetachShift ==
    ASSUME Order, DetachedInv, ReadFrame, NEW k \in Callers, op[k] = "detach", pc[k] = "wait", conn = "open"
    PROVE  \A i \in DOMAIN down' : down'[i].kind = "answer" /\ down'[i].id = req[k] =>
             NoInput /\ (attached = 0 => \A j \in DOMAIN down' : down'[j].kind # "answer" => j < i)
<1>. SUFFICES ASSUME NEW i \in DOMAIN down', down'[i].kind = "answer", down'[i].id = req[k]
              PROVE  NoInput /\ (attached = 0 => \A j \in DOMAIN down' : down'[j].kind # "answer" => j < i)
  OBVIOUS
<1>1. \A n \in DOMAIN down' : n \in Nat /\ n + 1 \in DOMAIN down /\ down'[n] = down[n + 1]
  BY ReadShift
<1>2. NoInput /\ (attached = 0 => \A j \in DOMAIN down : down[j].kind # "answer" => j < i + 1)
  BY <1>1 DEF DetachedInv, IsPush
<1>3. ASSUME attached = 0, NEW j \in DOMAIN down', down'[j].kind # "answer" PROVE j < i
  <2>1. j + 1 < i + 1
    BY <1>1, <1>2, <1>3
  <2>. QED BY <1>1, <2>1
<1>. QED BY <1>2, <1>3

\* An answer that brings no attachment: what its caller may conclude is unchanged,
\* but for a Detach, which now knows its answer.
LEMMA ReadPlainFlow ==
    ASSUME Order, Order', Flow, loop = "run", ReadFrame, Head(down).kind = "answer", Head(down).gen = 0
    PROVE  Flow'
<1>. DEFINE f == down[1]
<1>1. /\ 1 \in DOMAIN down /\ down[1] = Head(down)
      /\ \A n \in DOMAIN down' :
           n \in Nat /\ n + 1 \in DOMAIN down /\ n + 1 # 1 /\ down'[n] = down[n + 1]
      /\ NoPush => NoPush'
      /\ UNCHANGED <<pc, req, op, stream, streams, conn, attached, loop, up>>
  BY ReadShift
<1>2. f.kind = "answer" /\ f.gen = 0 /\ f.id \in Ids /\ f.result \in {"ok", "error"}
  <2>1. \A g \in Told : g.kind = "answer" => g.result \in {"ok", "error"}
    BY DEF Told, Pushed
  <2>. QED BY <1>1, <2>1, Frames DEF Order
<1>3. /\ pending' = pending \ {f.id} /\ gen' = gen /\ got' = got
      /\ slot' = IF f.id \in pending THEN [slot EXCEPT ![f.id] = f.result] ELSE slot
  BY <1>1, <1>2 DEF ReadFrame, SettleSlot
<1>4. \A i \in Ids : (i # f.id => slot'[i] = slot[i]) /\ slot'[i] \in {slot[i], f.result}
  BY <1>3 DEF Order, TypeOK
<1>5. \A k \in Callers : Numbered(k) => req[k] \in Ids
  BY BoundsAssumption DEF Order, ReqInv, TypeOK, Ids
<1>6. \A k \in Callers : Numbered(k) /\ req[k] = f.id =>
        /\ k = f.for /\ pc[k] = "wait" /\ slot[f.id] = None
        /\ op[k] = "attach" => f.result # "ok"
  BY <1>1, <1>2 DEF Order, DownInv, DownFrame, For
<1>7. \A k \in Callers : Owned(k)' <=> Owned(k)
  <2>. SUFFICES ASSUME NEW k \in Callers, stream[k] = "opening", pc[k] = "wait"
                PROVE  slot'[req[k]] = "ok" <=> slot[req[k]] = "ok"
    BY <1>1 DEF Owned
  <2>1. op[k] = "attach"
    BY DEF Order, StreamInv
  <2>. QED BY <1>4, <1>5, <1>6, <2>1, CallersAssumption DEF Numbered
<1>8. AwaitedInv'
  <2>1. \A n \in DOMAIN up : up[n].op \in {"attach", "detach"} =>
          pc[up[n].from] = "wait" /\ req[up[n].from] = up[n].id
    BY DEF Flow, AwaitedInv
  <2>2. \A n \in DOMAIN down : down[n].kind = "answer" /\ down[n].gen # 0 =>
          /\ pc[down[n].for] = "wait" /\ req[down[n].for] = down[n].id
          /\ op[down[n].for] = "attach" /\ down[n].result = "ok"
    BY DEF Flow, AwaitedInv
  <2>. QED BY <1>1, <2>1, <2>2 DEF AwaitedInv
<1>9. AnnouncedInv'
  <2>. SUFFICES ASSUME NEW i \in DOMAIN down', down'[i].kind = "answer", down'[i].gen # 0
                PROVE  /\ attached' = down'[i].gen /\ got'[down'[i].for] = {}
                       /\ \A j \in DOMAIN down' : down'[j].kind # "answer" => i < j /\ down'[j].gen = down'[i].gen
    BY DEF AnnouncedInv, IsPush
  <2>1. i + 1 \in DOMAIN down /\ down'[i] = down[i + 1] /\ i \in Nat
    BY <1>1
  <2>2. /\ attached = down[i + 1].gen /\ got[down[i + 1].for] = {}
        /\ \A j \in DOMAIN down : down[j].kind # "answer" => i + 1 < j /\ down[j].gen = down[i + 1].gen
    BY <2>1 DEF Flow, AnnouncedInv, IsPush
  <2>3. ASSUME NEW j \in DOMAIN down', down'[j].kind # "answer"
        PROVE  i < j /\ down'[j].gen = down'[i].gen
    <3>1. j + 1 \in DOMAIN down /\ down'[j] = down[j + 1] /\ j \in Nat
      BY <1>1
    <3>2. i + 1 < j + 1 /\ down[j + 1].gen = down[i + 1].gen
      BY <2>2, <2>3, <3>1
    <3>. QED BY <2>1, <3>1, <3>2
  <2>. QED BY <1>1, <1>3, <2>1, <2>2, <2>3
<1>10. OwnedInv'
  <2>. SUFFICES ASSUME NEW k \in Callers, Owned(k)
                PROVE  /\ got[k] \subseteq {gen[k]}
                       /\ \A j \in DOMAIN down' : down'[j].kind # "answer" => down'[j].gen = gen[k]
                       /\ attached \in {0, gen[k]}
                       /\ attached = 0 => /\ op[k] = "detach" /\ pc[k] = "wait"
                                          /\ \A n \in DOMAIN up : up[n].id # req[k]
    BY <1>1, <1>3, <1>7 DEF OwnedInv, IsPush
  <2>1. \A j \in DOMAIN down : down[j].kind # "answer" => down[j].gen = gen[k]
    BY DEF Flow, OwnedInv, IsPush
  <2>2. \A j \in DOMAIN down' : down'[j].kind # "answer" => down'[j].gen = gen[k]
    BY <1>1, <2>1
  <2>. QED BY <2>2 DEF Flow, OwnedInv
<1>11. InputInv'
  BY <1>1 DEF Flow, InputInv
<1>12. DetachedInv'
  <2>. SUFFICES ASSUME NEW k \in Callers, op[k] = "detach", pc[k] = "wait", conn = "open"
                PROVE  /\ slot'[req[k]] # None => NoInput /\ (attached = 0 => NoPush')
                       /\ \A i \in DOMAIN down' : down'[i].kind = "answer" /\ down'[i].id = req[k] =>
                            NoInput /\ (attached = 0 => \A j \in DOMAIN down' : down'[j].kind # "answer" => j < i)
    BY <1>1 DEF DetachedInv, NoInput, IsPush
  <2>1. /\ slot[req[k]] # None => NoInput /\ (attached = 0 => NoPush)
        /\ \A i \in DOMAIN down : down[i].kind = "answer" /\ down[i].id = req[k] =>
             NoInput /\ (attached = 0 => \A j \in DOMAIN down : down[j].kind # "answer" => j < i)
    BY DEF Flow, DetachedInv, IsPush
  <2>2. CASE f.id # req[k]
    <3>1. slot'[req[k]] = slot[req[k]]
      BY <1>4, <1>5, <2>2 DEF Numbered
    <3>2. \A i \in DOMAIN down' : down'[i].kind = "answer" /\ down'[i].id = req[k] =>
            NoInput /\ (attached = 0 => \A j \in DOMAIN down' : down'[j].kind # "answer" => j < i)
      BY DetachShift DEF Flow
    <3>. QED BY <1>1, <2>1, <3>1, <3>2
  <2>3. CASE f.id = req[k]
    <3>1. NoInput /\ (attached = 0 => \A j \in DOMAIN down : down[j].kind # "answer" => j < 1)
      BY <1>1, <1>2, <2>1, <2>3
    <3>2. attached = 0 => NoPush'
      <4>1. \A j \in DOMAIN down : j \in Nat /\ j >= 1
        <5>1. down \in Seq(Told)
          BY DEF Order, TypeOK
        <5>2. DOMAIN down = 1 .. Len(down) /\ Len(down) \in Nat
          BY <5>1, LenProperties
        <5>. QED BY <5>2
      <4>2. attached = 0 => NoPush
        BY <3>1, <4>1 DEF NoPush, IsPush
      <4>. QED BY <1>1, <4>2
    <3>3. \A i \in DOMAIN down' : down'[i].kind = "answer" => down'[i].id # req[k]
      BY <1>1, <1>2, <2>3 DEF Order, OnceInv
    <3>. QED BY <3>1, <3>2, <3>3
  <2>. QED BY <2>2, <2>3
<1>13. FreshInv'
  BY <1>1, <1>3, <1>7 DEF Flow, FreshInv
<1>. QED BY <1>8, <1>9, <1>10, <1>11, <1>12, <1>13 DEF Flow

\* The answer to an Attach: the stream has its attachment, and only what is its
\* own comes after.
LEMMA ReadAnnouncedFlow ==
    ASSUME Order, Order', Flow, loop = "run", ReadFrame, Head(down).kind = "answer", Head(down).gen # 0
    PROVE  Flow'
<1>. DEFINE f == down[1]
<1>1. /\ 1 \in DOMAIN down /\ down[1] = Head(down)
      /\ \A n \in DOMAIN down' :
           n \in Nat /\ n + 1 \in DOMAIN down /\ n + 1 # 1 /\ down'[n] = down[n + 1]
      /\ UNCHANGED <<pc, req, op, stream, streams, conn, attached, loop, up>>
  BY ReadShift
<1>2. f.kind = "answer" /\ f.gen # 0 /\ f.id \in Ids /\ f.gen \in Nat
  <2>1. \A g \in Told : g.gen \in Nat
    BY DEF Told, Pushed
  <2>. QED BY <1>1, <2>1, Frames DEF Order
<1>0. PICK k \in Callers : k = f.for
  BY <1>1, <1>2, Frames DEF Order
<1>3. /\ pc[k] = "wait" /\ req[k] = f.id /\ op[k] = "attach" /\ slot[f.id] = None
      /\ streams = k /\ \A j \in Callers : ~Owned(j)
  BY <1>0, <1>1, <1>2, Underway DEF Flow
<1>4. f.result = "ok"
  BY <1>1, <1>2 DEF Flow, AwaitedInv
<1>5. f.id \in pending
  BY <1>3 DEF Order, ReqInv, Numbered
<1>6. slot' = [slot EXCEPT ![f.id] = "ok"] /\ gen' = [gen EXCEPT ![k] = f.gen] /\ got' = got
  BY <1>0, <1>1, <1>2, <1>4, <1>5 DEF ReadFrame, SettleSlot
<1>7. slot'[req'[k]] = "ok" /\ gen'[k] = f.gen
  BY <1>1, <1>2, <1>3, <1>6 DEF Order, TypeOK
<1>8. /\ attached = f.gen /\ got[k] = {}
      /\ \A j \in DOMAIN down : down[j].kind # "answer" => down[j].gen = f.gen
  BY <1>0, <1>1, <1>2 DEF Flow, AnnouncedInv, IsPush
<1>9. stream[k] = "opening" /\ \A j \in Callers : j # k => stream[j] \notin {"opening", "open"}
  BY <1>3, Registered DEF Order, StreamInv
<1>10. (\A j \in Callers : Owned(j)' => j = k) /\ Owned(k)'
  BY <1>1, <1>3, <1>7, <1>9 DEF Owned
<1>11. \A n \in DOMAIN down' : down'[n].kind = "answer" => down'[n].gen = 0
  <2>. SUFFICES ASSUME NEW n \in DOMAIN down', down'[n].kind = "answer", down'[n].gen # 0
                PROVE  FALSE
    OBVIOUS
  <2>1. n + 1 \in DOMAIN down /\ n + 1 # 1 /\ down'[n] = down[n + 1]
    BY <1>1
  <2>2. down[n + 1].for = k /\ down[n + 1].id = f.id
    BY <1>3, <2>1, Underway DEF Flow
  <2>. QED BY <1>1, <1>2, <2>1, <2>2 DEF Order, OnceInv
<1>12. \A j \in Callers : op[j] # "detach" /\ stream[j] # "open"
  BY <1>3, <1>9 DEF Order, StreamInv
<1>13. AwaitedInv'
  <2>1. \A n \in DOMAIN up : up[n].op \in {"attach", "detach"} =>
          pc[up[n].from] = "wait" /\ req[up[n].from] = up[n].id
    BY DEF Flow, AwaitedInv
  <2>. QED BY <1>1, <1>11, <2>1 DEF AwaitedInv
<1>14. AnnouncedInv'
  BY <1>11 DEF AnnouncedInv
<1>15. OwnedInv'
  <2>1. \A j \in DOMAIN down' : down'[j].kind # "answer" => down'[j].gen = f.gen
    BY <1>1, <1>8
  <2>. QED BY <1>1, <1>2, <1>6, <1>7, <1>8, <1>10, <2>1 DEF OwnedInv, IsPush
<1>16. InputInv'
  <2>1. \A n \in DOMAIN up : up[n].op # "input"
    BY <1>12 DEF Flow, InputInv
  <2>. QED BY <1>1, <2>1 DEF InputInv
<1>17. DetachedInv'
  BY <1>1, <1>12 DEF DetachedInv
<1>18. FreshInv'
  BY <1>3, <1>10 DEF FreshInv
<1>. QED BY <1>13, <1>14, <1>15, <1>16, <1>17, <1>18 DEF Flow

\* What is pushed goes to the registered stream, and is its own.
LEMMA ReadPushFlow ==
    ASSUME Order, Order', Flow, loop = "run", ReadFrame, Head(down).kind # "answer"
    PROVE  Flow'
<1>. DEFINE f == down[1]
<1>1. /\ 1 \in DOMAIN down /\ down[1] = Head(down)
      /\ \A n \in DOMAIN down' :
           n \in Nat /\ n + 1 \in DOMAIN down /\ n + 1 # 1 /\ down'[n] = down[n + 1]
      /\ NoPush => NoPush'
      /\ UNCHANGED <<pc, req, op, stream, streams, conn, attached, loop, up>>
  BY ReadShift
<1>2. f.kind # "answer"
  BY <1>1
<1>3. /\ pending' = pending /\ slot' = slot /\ gen' = gen
      /\ got' = got \/ (streams # None /\ got' = [got EXCEPT ![streams] = @ \cup {f.gen}])
  BY <1>1, <1>2 DEF ReadFrame, RouteOutput, RoutePushError
<1>4. \A j \in Callers : /\ got'[j] \subseteq got[j] \cup {f.gen}
                         /\ j # streams => got'[j] = got[j]
  <2>1. got \in [Callers -> SUBSET Nat] /\ streams \in Callers \cup {None}
    BY DEF Order, TypeOK
  <2>2. CASE streams # None /\ got' = [got EXCEPT ![streams] = @ \cup {f.gen}]
    <3>1. got'[streams] = got[streams] \cup {f.gen} /\ \A j \in Callers : j # streams => got'[j] = got[j]
      BY <2>1, <2>2
    <3>. QED BY <3>1
  <2>. QED BY <1>3, <2>2
<1>5. \A j \in Callers : Owned(j)' <=> Owned(j)
  BY <1>1, <1>3 DEF Owned
<1>6. \A n \in DOMAIN down : down[n].kind = "answer" => down[n].gen = 0
  <2>. SUFFICES ASSUME NEW n \in DOMAIN down, down[n].kind = "answer", down[n].gen # 0
                PROVE  FALSE
    OBVIOUS
  <2>1. n < 1
    BY <1>1, <1>2 DEF Flow, AnnouncedInv, IsPush
  <2>2. down \in Seq(Told)
    BY DEF Order, TypeOK
  <2>3. DOMAIN down = 1 .. Len(down) /\ Len(down) \in Nat
    BY <2>2, LenProperties
  <2>. QED BY <2>1, <2>3
<1>7. AwaitedInv'
  <2>1. \A n \in DOMAIN up : up[n].op \in {"attach", "detach"} =>
          pc[up[n].from] = "wait" /\ req[up[n].from] = up[n].id
    BY DEF Flow, AwaitedInv
  <2>. QED BY <1>1, <1>6, <2>1 DEF AwaitedInv
<1>8. AnnouncedInv'
  BY <1>1, <1>6 DEF AnnouncedInv
<1>9. OwnedInv'
  <2>. SUFFICES ASSUME NEW k \in Callers, Owned(k)
                PROVE  /\ got'[k] \subseteq {gen[k]}
                       /\ \A j \in DOMAIN down' : down'[j].kind # "answer" => down'[j].gen = gen[k]
                       /\ attached \in {0, gen[k]}
                       /\ attached = 0 => /\ op[k] = "detach" /\ pc[k] = "wait"
                                          /\ \A n \in DOMAIN up : up[n].id # req[k]
    BY <1>1, <1>3, <1>5 DEF OwnedInv, IsPush
  <2>1. got[k] \subseteq {gen[k]} /\ \A j \in DOMAIN down : down[j].kind # "answer" => down[j].gen = gen[k]
    BY DEF Flow, OwnedInv, IsPush
  <2>2. \A j \in DOMAIN down' : down'[j].kind # "answer" => down'[j].gen = gen[k]
    BY <1>1, <2>1
  <2>3. got'[k] \subseteq {gen[k]}
    BY <1>1, <1>2, <1>4, <2>1
  <2>. QED BY <2>2, <2>3 DEF Flow, OwnedInv
<1>10. InputInv'
  BY <1>1 DEF Flow, InputInv
<1>11. DetachedInv'
  <2>. SUFFICES ASSUME NEW k \in Callers, op[k] = "detach", pc[k] = "wait", conn = "open"
                PROVE  /\ slot[req[k]] # None => NoInput /\ (attached = 0 => NoPush')
                       /\ \A i \in DOMAIN down' : down'[i].kind = "answer" /\ down'[i].id = req[k] =>
                            NoInput /\ (attached = 0 => \A j \in DOMAIN down' : down'[j].kind # "answer" => j < i)
    BY <1>1, <1>3 DEF DetachedInv, NoInput, IsPush
  <2>1. slot[req[k]] # None => NoInput /\ (attached = 0 => NoPush)
    BY DEF Flow, DetachedInv
  <2>2. \A i \in DOMAIN down' : down'[i].kind = "answer" /\ down'[i].id = req[k] =>
          NoInput /\ (attached = 0 => \A j \in DOMAIN down' : down'[j].kind # "answer" => j < i)
    BY DetachShift DEF Flow
  <2>. QED BY <1>1, <2>1, <2>2
<1>12. FreshInv'
  BY <1>1, <1>2, <1>5 DEF Flow, FreshInv, NoPush, IsPush
<1>. QED BY <1>7, <1>8, <1>9, <1>10, <1>11, <1>12 DEF Flow

\* The frame that the daemon handles leaves the queue, and the others move up.
LEMMA HandleShift ==
    ASSUME Order, DaemonHandle
    PROVE  /\ conn = "open" /\ 1 \in DOMAIN up /\ up[1] = Head(up) /\ Handle(up[1])
           /\ \A n \in DOMAIN up :  n \in Nat /\ n >= 1
           /\ \A n \in DOMAIN up' :
                n \in Nat /\ n >= 1 /\ n + 1 \in DOMAIN up /\ n + 1 # 1 /\ up'[n] = up[n + 1]
           /\ NoInput => NoInput'
           /\ UNCHANGED <<pc, req, op, slot, stream, streams, gen, got, conn, loop, abandoned>>
           /\ \A k \in Callers : Owned(k)' <=> Owned(k)
<1>1. /\ conn = "open" /\ up \in Seq(Asked) /\ up # <<>> /\ up' = Tail(up) /\ Handle(Head(up))
      /\ UNCHANGED <<pc, req, op, slot, stream, streams, gen, got, conn, loop, abandoned>>
  BY DEF DaemonHandle, Order, TypeOK
<1>2. /\ 1 \in DOMAIN up /\ up[1] = Head(up) /\ \A n \in DOMAIN up : n \in Nat /\ n >= 1
      /\ \A n \in DOMAIN up' :
           n \in Nat /\ n >= 1 /\ n + 1 \in DOMAIN up /\ n + 1 # 1 /\ up'[n] = up[n + 1]
  BY <1>1, Shorter
<1>3. NoInput => NoInput'
  BY <1>2 DEF NoInput
<1>4. \A k \in Callers : Owned(k)' <=> Owned(k)
  BY <1>1 DEF Owned
<1>. QED BY <1>1, <1>2, <1>3, <1>4

\* What the daemon sends comes last.
LEMMA Told1 ==
    ASSUME Order, NEW e \in Told, down' = Append(down, e)
    PROVE  /\ down'[Len(down) + 1] = e /\ Len(down) + 1 \in DOMAIN down'
           /\ \A n \in DOMAIN down : down'[n] = down[n] /\ n < Len(down) + 1
           /\ \A n \in DOMAIN down' : n \in DOMAIN down \/ n = Len(down) + 1
<1>1. down \in Seq(Told)
  BY DEF Order, TypeOK
<1>. QED BY <1>1, Longer

\* Requests that are still on their way are awaited as before.
LEMMA HandleAwaited ==
    ASSUME Order, Flow, DaemonHandle
    PROVE  \A n \in DOMAIN up' : up'[n].op \in {"attach", "detach"} =>
             pc'[up'[n].from] = "wait" /\ req'[up'[n].from] = up'[n].id
<1>1. \A n \in DOMAIN up : up[n].op \in {"attach", "detach"} =>
        pc[up[n].from] = "wait" /\ req[up[n].from] = up[n].id
  BY DEF Flow, AwaitedInv
<1>2. /\ \A n \in DOMAIN up' : n + 1 \in DOMAIN up /\ up'[n] = up[n + 1]
      /\ UNCHANGED <<pc, req>>
  BY HandleShift
<1>. QED BY <1>1, <1>2

\* Input is for the attachment of the open stream; a refusal is sent in its name.
LEMMA HandleInputFlow ==
    ASSUME Order, Order', Flow, loop = "run", DaemonHandle, up[1].op = "input", attached' = attached,
           NEW e \in Told, e.kind = "refusal", e.gen = attached, down' \in {down, Append(down, e)}
    PROVE  Flow'
<1>. DEFINE N == Len(down) + 1
<1>1. /\ 1 \in DOMAIN up /\ \A n \in DOMAIN up :  n \in Nat /\ n >= 1
      /\ \A n \in DOMAIN up' :
           n \in Nat /\ n >= 1 /\ n + 1 \in DOMAIN up /\ n + 1 # 1 /\ up'[n] = up[n + 1]
      /\ UNCHANGED <<pc, req, op, slot, stream, streams, gen, got, conn, loop>>
      /\ \A k \in Callers : Owned(k)' <=> Owned(k)
  BY HandleShift
<1>2. \A n \in DOMAIN down' : \/ n \in DOMAIN down /\ down'[n] = down[n]
                              \/ down'[n].kind = "refusal" /\ down'[n].gen = attached
  <2>1. CASE down' = Append(down, e)
    BY <2>1, Told1
  <2>. QED BY <2>1
<1>3. attached # 0 /\ \E k \in Callers : stream[k] = "open"
  BY <1>1 DEF Flow, InputInv
<1>4. PICK k \in Callers : stream[k] = "open"
  BY <1>3
<1>5. Owned(k) /\ streams = k /\ \A j \in Callers : Owned(j) => j = k
  BY <1>4, Registered
<1>6. attached = gen[k]
  BY <1>3, <1>5 DEF Flow, OwnedInv
<1>7. \A n \in DOMAIN down' : down'[n].kind = "answer" => down'[n].gen = 0
  <2>1. \A n \in DOMAIN down : down[n].kind = "answer" => down[n].gen = 0
    BY <1>5, Underway DEF Flow
  <2>. QED BY <1>2, <2>1
<1>8. AwaitedInv'
  BY <1>7, HandleAwaited DEF AwaitedInv
<1>9. AnnouncedInv'
  BY <1>7 DEF AnnouncedInv
<1>10. OwnedInv'
  <2>1. got[k] \subseteq {gen[k]} /\ \A j \in DOMAIN down : down[j].kind # "answer" => down[j].gen = gen[k]
    BY <1>5 DEF Flow, OwnedInv, IsPush
  <2>2. \A j \in DOMAIN down' : down'[j].kind # "answer" => down'[j].gen = gen[k]
    BY <1>2, <1>6, <2>1
  <2>. QED BY <1>1, <1>3, <1>5, <1>6, <2>1, <2>2 DEF OwnedInv, IsPush
<1>11. InputInv'
  <2>. SUFFICES ASSUME NEW n \in DOMAIN up', up'[n].op = "input",
                       NEW m \in DOMAIN up', up'[m].op = "detach"
                PROVE  n < m
    BY <1>1, <1>3 DEF InputInv
  <2>1. n + 1 < m + 1
    BY <1>1 DEF Flow, InputInv
  <2>. QED BY <1>1, <2>1
<1>12. DetachedInv'
  <2>. SUFFICES ASSUME NEW j \in Callers, op[j] = "detach", pc[j] = "wait", conn = "open"
                PROVE  /\ slot[req[j]] = None
                       /\ \A i \in DOMAIN down' : down'[i].kind = "answer" => down'[i].id # req[j]
    BY <1>1 DEF DetachedInv
  <2>1. ~NoInput
    BY <1>1 DEF NoInput
  <2>2. /\ slot[req[j]] = None
        /\ \A i \in DOMAIN down : down[i].kind = "answer" => down[i].id # req[j]
    BY <2>1 DEF Flow, DetachedInv
  <2>. QED BY <1>2, <2>2
<1>13. FreshInv'
  BY <1>3 DEF FreshInv
<1>. QED BY <1>8, <1>9, <1>10, <1>11, <1>12, <1>13 DEF Flow

\* A new attachment is announced when nothing of an earlier one is left.
LEMMA HandleAttachFlow ==
    ASSUME Order, Order', Flow, loop = "run", DaemonHandle, up[1].op = "attach", attached = 0,
           NEW e \in Told, e.kind = "answer", e.id = up[1].id, e.for = up[1].from, e.result = "ok",
           e.gen = attached', attached' # 0, down' = Append(down, e)
    PROVE  Flow'
<1>. DEFINE N == Len(down) + 1
<1>1. /\ 1 \in DOMAIN up /\ conn = "open"
      /\ \A n \in DOMAIN up' :
           n \in Nat /\ n >= 1 /\ n + 1 \in DOMAIN up /\ n + 1 # 1 /\ up'[n] = up[n + 1]
      /\ UNCHANGED <<pc, req, op, slot, stream, streams, gen, got, conn, loop>>
      /\ \A k \in Callers : Owned(k)' <=> Owned(k)
      /\ NoInput => NoInput'
  BY HandleShift
<1>2. /\ down'[N] = e /\ \A n \in DOMAIN down : down'[n] = down[n] /\ n < N
      /\ \A n \in DOMAIN down' : n \in DOMAIN down \/ n = N
  BY Told1
<1>. HIDE DEF N
<1>3. PICK k \in Callers : k = up[1].from
  BY <1>1, Frames DEF Order
<1>4. pc[k] = "wait" /\ req[k] = e.id /\ op[k] = "attach" /\ slot[e.id] = None /\ streams = k
  BY <1>1, <1>3, Underway DEF Flow
<1>5. \A j \in Callers : ~Owned(j) /\ op[j] # "detach"
  BY <1>4, Registered, CallersAssumption DEF Owned
<1>6. NoPush /\ got[k] = {}
  BY <1>1, <1>4, <1>5 DEF Flow, FreshInv
<1>7. NoInput
  BY DEF Flow, InputInv, NoInput
<1>8. \A n \in DOMAIN down : down[n].kind = "answer" => down[n].gen = 0
  BY DEF Flow, AnnouncedInv
<1>9. AwaitedInv'
  <2>1. \A n \in DOMAIN down' : down'[n].kind = "answer" /\ down'[n].gen # 0 => down'[n] = e
    BY <1>2, <1>8
  <2>. QED BY <1>1, <1>3, <1>4, <2>1, HandleAwaited DEF AwaitedInv
<1>10. AnnouncedInv'
  <2>1. \A n \in DOMAIN down' : down'[n].kind = "answer"
    BY <1>2, <1>6 DEF NoPush, IsPush
  <2>2. \A n \in DOMAIN down' : down'[n].gen # 0 => down'[n] = e
    BY <1>2, <1>8, <2>1
  <2>. QED BY <1>1, <1>3, <1>6, <2>1, <2>2 DEF AnnouncedInv, IsPush
<1>11. OwnedInv'
  BY <1>1, <1>5 DEF OwnedInv
<1>12. InputInv'
  BY <1>1, <1>7 DEF InputInv, NoInput
<1>13. DetachedInv'
  BY <1>1, <1>5 DEF DetachedInv
<1>14. FreshInv'
  BY DEF FreshInv
<1>. QED BY <1>9, <1>10, <1>11, <1>12, <1>13, <1>14 DEF Flow

\* Any other answer.  The daemon lets go of an attachment only when it answers the
\* Detach of its stream, and has then sent all it had to send for it.
LEMMA HandlePlainFlow ==
    ASSUME Order, Order', Flow, loop = "run", DaemonHandle, up[1].op # "input",
           NEW e \in Told, e.kind = "answer", e.id = up[1].id, e.for = up[1].from, e.gen = 0,
           attached' = attached \/ (up[1].op = "detach" /\ attached' = 0), down' = Append(down, e)
    PROVE  Flow'
<1>. DEFINE N == Len(down) + 1
<1>1. /\ 1 \in DOMAIN up /\ conn = "open" /\ \A n \in DOMAIN up :  n \in Nat /\ n >= 1
      /\ \A n \in DOMAIN up' :
           n \in Nat /\ n >= 1 /\ n + 1 \in DOMAIN up /\ n + 1 # 1 /\ up'[n] = up[n + 1]
      /\ UNCHANGED <<pc, req, op, slot, stream, streams, gen, got, conn, loop>>
      /\ \A k \in Callers : Owned(k)' <=> Owned(k)
      /\ NoInput => NoInput'
  BY HandleShift
<1>2. /\ down'[N] = e /\ \A n \in DOMAIN down : down'[n] = down[n] /\ n < N
      /\ \A n \in DOMAIN down' : n \in DOMAIN down \/ n = N
  BY Told1
<1>. HIDE DEF N
<1>3. attached' # attached =>
        /\ attached' = 0 /\ up[1].op = "detach" /\ up[1].from \in Callers /\ streams = up[1].from
        /\ op[up[1].from] = "detach" /\ pc[up[1].from] = "wait" /\ req[up[1].from] = up[1].id
        /\ slot[up[1].id] = None /\ Owned(up[1].from)
  BY <1>1, Underway, Registered DEF Flow
<1>4. \A n \in DOMAIN down' : /\ down'[n].kind = "answer" /\ down'[n].gen # 0 => n \in DOMAIN down
                              /\ down'[n].kind # "answer" => n \in DOMAIN down
  BY <1>2
<1>5. NoPush => NoPush'
  BY <1>2 DEF NoPush, IsPush
<1>6. AwaitedInv'
  <2>1. \A n \in DOMAIN down : down[n].kind = "answer" /\ down[n].gen # 0 =>
          /\ pc[down[n].for] = "wait" /\ req[down[n].for] = down[n].id
          /\ op[down[n].for] = "attach" /\ down[n].result = "ok"
    BY DEF Flow, AwaitedInv
  <2>. QED BY <1>1, <1>2, <1>4, <2>1, HandleAwaited DEF AwaitedInv
<1>7. AnnouncedInv'
  <2>. SUFFICES ASSUME NEW i \in DOMAIN down', down'[i].kind = "answer", down'[i].gen # 0
                PROVE  /\ attached' = down'[i].gen /\ got'[down'[i].for] = {}
                       /\ \A j \in DOMAIN down' : down'[j].kind # "answer" => i < j /\ down'[j].gen = down'[i].gen
    BY DEF AnnouncedInv, IsPush
  <2>1. i \in DOMAIN down /\ down'[i] = down[i]
    BY <1>2, <1>4
  <2>2. attached' = attached
    BY <1>3, <2>1, Underway DEF Flow
  <2>3. /\ attached = down[i].gen /\ got[down[i].for] = {}
        /\ \A j \in DOMAIN down : down[j].kind # "answer" => i < j /\ down[j].gen = down[i].gen
    BY <2>1 DEF Flow, AnnouncedInv, IsPush
  <2>. QED BY <1>1, <1>2, <1>4, <2>1, <2>2, <2>3
<1>8. OwnedInv'
  <2>. SUFFICES ASSUME NEW k \in Callers, Owned(k)
                PROVE  /\ got[k] \subseteq {gen[k]}
                       /\ \A j \in DOMAIN down' : down'[j].kind # "answer" => down'[j].gen = gen[k]
                       /\ attached' \in {0, gen[k]}
                       /\ attached' = 0 => /\ op[k] = "detach" /\ pc[k] = "wait"
                                           /\ \A n \in DOMAIN up' : up'[n].id # req[k]
    BY <1>1 DEF OwnedInv, IsPush
  <2>1. /\ got[k] \subseteq {gen[k]}
        /\ \A j \in DOMAIN down : down[j].kind # "answer" => down[j].gen = gen[k]
        /\ attached \in {0, gen[k]}
        /\ attached = 0 => /\ op[k] = "detach" /\ pc[k] = "wait"
                           /\ \A n \in DOMAIN up : up[n].id # req[k]
    BY DEF Flow, OwnedInv, IsPush
  <2>2. \A j \in DOMAIN down' : down'[j].kind # "answer" => down'[j].gen = gen[k]
    BY <1>2, <1>4, <2>1
  <2>3. CASE attached' = attached
    BY <1>1, <2>1, <2>2, <2>3
  <2>4. CASE attached' # attached
    <3>1. k = up[1].from
      BY <1>3, <2>4, Registered
    <3>2. \A n \in DOMAIN up' : up'[n].id # up[1].id
      BY <1>1 DEF Order, OnceInv
    <3>. QED BY <1>3, <2>1, <2>2, <2>4, <3>1, <3>2
  <2>. QED BY <2>3, <2>4
<1>9. InputInv'
  <2>. SUFFICES ASSUME NEW n \in DOMAIN up', up'[n].op = "input"
                PROVE  /\ attached' # 0 /\ \E k \in Callers : stream[k] = "open"
                       /\ \A m \in DOMAIN up' : up'[m].op = "detach" => n < m
    BY <1>1 DEF InputInv
  <2>1. /\ attached # 0 /\ \E k \in Callers : stream[k] = "open"
        /\ \A m \in DOMAIN up : up[m].op = "detach" => n + 1 < m
    BY <1>1 DEF Flow, InputInv
  <2>2. attached' = attached
    BY <1>1, <1>3, <2>1
  <2>3. \A m \in DOMAIN up' : up'[m].op = "detach" => n + 1 < m + 1
    BY <1>1, <2>1
  <2>. QED BY <1>1, <2>1, <2>2, <2>3
<1>10. DetachedInv'
  <2>. SUFFICES ASSUME NEW k \in Callers, op[k] = "detach", pc[k] = "wait"
                PROVE  /\ slot[req[k]] # None => NoInput' /\ (attached' = 0 => NoPush')
                       /\ \A i \in DOMAIN down' : down'[i].kind = "answer" /\ down'[i].id = req[k] =>
                            NoInput' /\ (attached' = 0 => \A j \in DOMAIN down' : down'[j].kind # "answer" => j < i)
    BY <1>1 DEF DetachedInv, IsPush
  <2>1. /\ slot[req[k]] # None => NoInput /\ (attached = 0 => NoPush)
        /\ \A i \in DOMAIN down : down[i].kind = "answer" /\ down[i].id = req[k] =>
             NoInput /\ (attached = 0 => \A j \in DOMAIN down : down[j].kind # "answer" => j < i)
    BY <1>1 DEF Flow, DetachedInv, IsPush
  <2>2. attached' # attached => k = up[1].from
    BY <1>3, Registered
  <2>3. slot[req[k]] # None => NoInput' /\ (attached' = 0 => NoPush')
    BY <1>1, <1>3, <1>5, <2>1, <2>2
  <2>4. ASSUME NEW i \in DOMAIN down, down[i].kind = "answer", down[i].id = req[k]
        PROVE  NoInput' /\ (attached' = 0 => \A j \in DOMAIN down' : down'[j].kind # "answer" => j < i)
    <3>1. attached' = attached
      BY <1>1, <1>3, <2>2, <2>4 DEF Order, OnceInv
    <3>. QED BY <1>1, <1>2, <1>4, <2>1, <2>4, <3>1
  <2>5. ASSUME e.id = req[k]
        PROVE  NoInput' /\ \A j \in DOMAIN down' : down'[j].kind # "answer" => j < N
    <3>1. op[k] = up[1].op
      BY <1>1, <2>5 DEF Order, UpInv, UpFrame, For, Numbered
    <3>2. \A n \in DOMAIN up : up[n].op = "input" => n < 1
      BY <1>1, <3>1 DEF Flow, InputInv
    <3>3. NoInput
      BY <1>1, <3>2 DEF NoInput
    <3>. QED BY <1>1, <1>2, <1>4, <3>3
  <2>. QED BY <1>2, <2>3, <2>4, <2>5
<1>11. FreshInv'
  <2>. SUFFICES ASSUME attached' = 0, \A k \in Callers : ~Owned(k)
                PROVE  NoPush' /\ \A k \in Callers : streams = k => got[k] = {}
    BY <1>1 DEF FreshInv
  <2>1. attached = 0
    BY <1>3
  <2>. QED BY <1>1, <1>5, <2>1 DEF Flow, FreshInv
<1>. QED BY <1>6, <1>7, <1>8, <1>9, <1>10, <1>11 DEF Flow

\* A request that gets no answer, or Input that is not refused.
LEMMA HandleSilentFlow ==
    ASSUME Order, Order', Flow, loop = "run", DaemonHandle, attached' = attached, down' = down
    PROVE  Flow'
<1>1. /\ conn = "open" /\ \A n \in DOMAIN up :  n \in Nat /\ n >= 1
      /\ \A n \in DOMAIN up' :
           n \in Nat /\ n >= 1 /\ n + 1 \in DOMAIN up /\ n + 1 # 1 /\ up'[n] = up[n + 1]
      /\ UNCHANGED <<pc, req, op, slot, stream, streams, gen, got, conn, loop>>
      /\ \A k \in Callers : Owned(k)' <=> Owned(k)
      /\ NoInput => NoInput'
  BY HandleShift
<1>2. NoPush' <=> NoPush
  BY DEF NoPush
<1>3. AwaitedInv'
  BY <1>1, HandleAwaited DEF Flow, AwaitedInv
<1>4. AnnouncedInv'
  BY <1>1 DEF Flow, AnnouncedInv
<1>5. OwnedInv'
  BY <1>1 DEF Flow, OwnedInv
<1>6. InputInv'
  <2>. SUFFICES ASSUME NEW n \in DOMAIN up', up'[n].op = "input"
                PROVE  /\ attached # 0 /\ \E k \in Callers : stream[k] = "open"
                       /\ \A m \in DOMAIN up' : up'[m].op = "detach" => n < m
    BY <1>1 DEF InputInv
  <2>1. /\ attached # 0 /\ \E k \in Callers : stream[k] = "open"
        /\ \A m \in DOMAIN up : up[m].op = "detach" => n + 1 < m
    BY <1>1 DEF Flow, InputInv
  <2>2. \A m \in DOMAIN up' : up'[m].op = "detach" => n + 1 < m + 1
    BY <1>1, <2>1
  <2>. QED BY <1>1, <2>1, <2>2
<1>7. DetachedInv'
  BY <1>1, <1>2 DEF Flow, DetachedInv
<1>8. FreshInv'
  BY <1>1, <1>2 DEF Flow, FreshInv
<1>. QED BY <1>3, <1>4, <1>5, <1>6, <1>7, <1>8 DEF Flow

\* The daemon handles a frame.
LEMMA HandleFlow ==
    ASSUME Order, Order', Flow, loop = "run", DaemonHandle
    PROVE  Flow'
<1>. DEFINE ans(r, g) == [kind |-> "answer", id |-> up[1].id, result |-> r, gen |-> g, for |-> up[1].from]
            ref == [kind |-> "refusal", gen |-> attached]
<1>1. Handle(up[1]) /\ 1 \in DOMAIN up
  BY HandleShift
<1>2. /\ up[1].from \in Callers /\ up[1].op \in Calls \cup {"input"}
      /\ up[1].op # "input" => up[1].id \in Ids
  <2>1. \A g \in Asked : g.op \in Calls \cup {"input"}
    BY DEF Asked
  <2>. QED BY <1>1, <2>1, Frames DEF Order
<1>3. TypeOK /\ attached \in Nat
  <2>1. TypeOK
    BY DEF Order
  <2>. QED BY <2>1 DEF TypeOK
<1>4. \/ down' = down /\ attached' = attached
      \/ down' \in {down, Append(down, ref)} /\ attached' = attached /\ up[1].op = "input"
      \/ /\ up[1].op # "input"
         /\ \E r \in {"ok", "error"}, g \in Nat :
              /\ down' = Append(down, ans(r, g))
              /\ \/ /\ up[1].op = "attach" /\ r = "ok" /\ attached = 0
                    /\ attached' = g /\ g # 0
                 \/ up[1].op = "detach" /\ r = "ok" /\ attached' = 0 /\ g = 0
                 \/ up[1].op # "attach" /\ attached' = attached /\ g = 0
                 \/ r = "error" /\ attached' = attached /\ g = 0
  BY <1>1, <1>2, <1>3, Handled
<1>5. CASE down' \in {down, Append(down, ref)} /\ attached' = attached /\ up[1].op = "input"
  <2>1. ref \in Told /\ ref.kind = "refusal" /\ ref.gen = attached
    BY <1>3 DEF Told, Pushed
  <2>. HIDE DEF ref
  <2>. QED BY <1>5, <2>1, HandleInputFlow
<1>6. ASSUME up[1].op # "input", NEW r \in {"ok", "error"}, NEW g \in Nat, down' = Append(down, ans(r, g)),
             \/ /\ up[1].op = "attach" /\ r = "ok" /\ attached = 0
                /\ attached' = g /\ g # 0
             \/ up[1].op = "detach" /\ r = "ok" /\ attached' = 0 /\ g = 0
             \/ up[1].op # "attach" /\ attached' = attached /\ g = 0
             \/ r = "error" /\ attached' = attached /\ g = 0
      PROVE  Flow'
  <2>. DEFINE e == ans(r, g)
  <2>1. /\ e \in Told /\ e.kind = "answer" /\ e.id = up[1].id /\ e.for = up[1].from
        /\ e.gen = g /\ e.result = r
    BY <1>2, <1>6 DEF Told
  <2>2. down' = Append(down, e)
    BY <1>6
  <2>. HIDE DEF e
  <2>3. CASE up[1].op = "attach" /\ r = "ok" /\ attached = 0 /\ attached' = g /\ g # 0
    BY <2>1, <2>2, <2>3, HandleAttachFlow
  <2>4. CASE g = 0 /\ (attached' = attached \/ (up[1].op = "detach" /\ attached' = 0))
    BY <1>6, <2>1, <2>2, <2>4, HandlePlainFlow
  <2>. QED BY <1>6, <2>3, <2>4
<1>7. CASE down' = down /\ attached' = attached
  BY <1>7, HandleSilentFlow
<1>. QED BY <1>4, <1>5, <1>6, <1>7

\* Steps of one caller that waits neither before nor after, and steps of none.
LEMMA ElsewhereFlow ==
    ASSUME Order, Flow, loop = "run", NEW k \in Callers,
           \/ SubscribeEvents(k) \/ Call(k) \/ RegisterWatch(k)
           \/ Request(k) /\ ~closed
    PROVE  Flow'
<1>1. /\ pc[k] \notin {"wait", "send"} /\ pc'[k] # "wait"
      /\ \A j \in Callers : j # k => pc'[j] = pc[j] /\ op'[j] = op[j] /\ req'[j] = req[j]
      /\ UNCHANGED <<streams, stream, got, gen, wires, attached, conn, loop, slot>>
  <2>. USE DEF Order, TypeOK, Goto
  <2>1. CASE SubscribeEvents(k)
    BY <2>1 DEF SubscribeEvents, MayCall, daemon
  <2>2. CASE Call(k)
    BY <2>2 DEF Call, MayCall, held, daemon
  <2>3. CASE RegisterWatch(k)
    BY <2>3 DEF RegisterWatch, daemon
  <2>4. CASE Request(k) /\ ~closed
    BY <2>4 DEF Request, held, daemon
  <2>. QED BY <2>1, <2>2, <2>3, <2>4
<1>2. \A j \in Callers : Owned(j)' <=> Owned(j)
  BY <1>1 DEF Owned
<1>3. Aside
  BY <1>1, <1>2 DEF Aside
<1>. QED BY <1>3, AsideFlow

\* Every step keeps the attachments apart.
LEMMA FlowNext ==
    ASSUME Order, Order', FlowInv, [Next]_vars
    PROVE  FlowInv'
<1>. SUFFICES ASSUME ~abandoned', loop' = "run" PROVE Flow'
  BY DEF FlowInv, Flow
<1>1. CASE UNCHANGED vars \/ Close
  <2>1. UNCHANGED <<pc, req, op, slot, streams, stream, got, gen, wires, attached, conn, loop, abandoned>>
    BY <1>1 DEF Close, vars, callers, held, maps, daemon
  <2>2. \A j \in Callers : Owned(j)' <=> Owned(j)
    BY <2>1 DEF Owned
  <2>3. Aside
    BY <2>1, <2>2 DEF Aside
  <2>4. Flow /\ loop = "run"
    BY <2>1 DEF FlowInv, Flow
  <2>. QED BY <2>3, <2>4, AsideFlow
<1>2. ASSUME NEW k \in Callers, Attach(k) PROVE Flow'
  <2>1. Flow /\ loop = "run"
    BY <1>2 DEF FlowInv, Flow, Attach
  <2>. QED BY <1>2, <2>1, AttachFlow
<1>3. ASSUME NEW k \in Callers, SubscribeEvents(k) \/ Call(k) \/ RegisterWatch(k) PROVE Flow'
  <2>1. Flow /\ loop = "run"
    BY <1>3 DEF FlowInv, Flow, SubscribeEvents, Call, RegisterWatch
  <2>. QED BY <1>3, <2>1, ElsewhereFlow
<1>4. ASSUME NEW k \in Callers, Request(k) PROVE Flow'
  <2>1. Flow /\ loop = "run"
    BY <1>4 DEF FlowInv, Flow, Request
  <2>2. CASE closed
    BY <1>4, <2>1, <2>2, FailFlow
  <2>3. CASE ~closed
    BY <1>4, <2>1, <2>3, ElsewhereFlow
  <2>. QED BY <2>2, <2>3
<1>5. ASSUME NEW k \in Callers, Send(k) PROVE Flow'
  <2>1. Flow /\ loop = "run"
    BY <1>5 DEF FlowInv, Flow, Send
  <2>2. CASE conn = "open"
    BY <1>5, <2>1, <2>2, SendFlow
  <2>3. CASE conn # "open"
    BY <1>5, <2>1, <2>3, FailFlow
  <2>. QED BY <2>2, <2>3
<1>6. ASSUME NEW k \in Callers, Settled(k) PROVE Flow'
  <2>1. abandoned' = abandoned /\ loop' = loop
    BY <1>6 DEF Settled
  <2>2. Flow /\ loop = "run"
    BY <2>1 DEF FlowInv, Flow
  <2>. QED BY <1>6, <2>2, SettledFlow
<1>7. ASSUME NEW k \in Callers, Refused(k) \/ GiveUp(k) PROVE Flow'
  <2>1. ~abandoned /\ loop' = loop
    <3>1. CASE Refused(k)
      BY <3>1 DEF Refused
    <3>2. CASE GiveUp(k)
      <4>1. abandoned' = (abandoned \/ op[k] \in {"attach", "detach"}) /\ loop' = loop
        BY <3>2 DEF GiveUp
      <4>. QED BY <4>1, Zenon
    <3>. QED BY <1>7, <3>1, <3>2
  <2>2. Flow /\ loop = "run"
    BY <2>1 DEF FlowInv, Flow
  <2>. QED BY <1>7, <2>2, FailFlow
<1>8. ASSUME NEW k \in Callers, Input(k) PROVE Flow'
  <2>1. Flow /\ loop = "run"
    BY <1>8 DEF FlowInv, Flow, Input
  <2>. QED BY <1>8, <2>1, InputFlow
<1>9. CASE CloseConn \/ Lose
  <2>1. Flow /\ loop = "run"
    BY <1>9 DEF FlowInv, Flow, CloseConn, Lose
  <2>. QED BY <1>9, <2>1, GoneFlow
<1>10. CASE ReadFrame
  <2>1. Flow /\ loop = "run"
    BY <1>10 DEF FlowInv, Flow, ReadFrame
  <2>. QED BY <1>10, <2>1, ReadPlainFlow, ReadAnnouncedFlow, ReadPushFlow
<1>11. CASE ReadFails
  BY <1>11 DEF ReadFails, FailAll
<1>12. CASE DaemonHandle
  <2>1. Flow /\ loop = "run"
    BY <1>12 DEF FlowInv, Flow, DaemonHandle
  <2>. QED BY <1>12, <2>1, HandleFlow
<1>13. CASE DaemonOutput
  <2>1. Flow /\ loop = "run"
    BY <1>13 DEF FlowInv, Flow, DaemonOutput
  <2>. QED BY <1>13, <2>1, OutputFlow
<1>14. CASE Terminated
  BY <1>1, <1>14 DEF Terminated
<1>. QED
  BY <1>1, <1>2, <1>3, <1>4, <1>5, <1>6, <1>7, <1>8, <1>9, <1>10, <1>11, <1>12, <1>13, <1>14
     DEF Next, CallerStep

-----------------------------------------------------------------------------
(* The theorems. *)

\* Nothing has been asked or sent.
LEMMA ClientInit ==
    ASSUME Init
    PROVE  Order /\ FlowInv
<1>1. TypeOK
  <2>1. up \in Seq(Asked) /\ down \in Seq(Told)
    BY DEF Init
  <2>2. slot \in [Ids -> {None, "ok", "error", "closed"}]
    BY DEF Init
  <2>3. /\ nextReq \in 0 .. MaxReq /\ pending \subseteq 1 .. nextReq
        /\ req \in [Callers -> 0 .. MaxReq]
    BY BoundsAssumption DEF Init
  <2>4. /\ pc \in [Callers -> {"idle", "request", "send", "wait", "register"}]
        /\ op \in [Callers -> Calls]
        /\ stream \in [Callers -> {"none", "opening", "open", "ended"}]
        /\ watch \in [Callers -> {"none", "open", "closed"}]
        /\ evch \in [Callers -> {"none", "opening", "open", "closed"}]
        /\ gen \in [Callers -> Nat] /\ got \in [Callers -> SUBSET Nat]
    BY DEF Init, Calls
  <2>5. attached \in 0 .. attaches /\ attaches \in Nat
    BY DEF Init
  <2>. QED BY <2>1, <2>2, <2>3, <2>4, <2>5 DEF Init, TypeOK
<1>2. CountInv
  <2>1. {k \in Callers : pc[k] = "request"} = {} /\ nextReq = 0
    BY DEF Init
  <2>. QED BY <2>1, FS_EmptySet, BoundsAssumption DEF CountInv
<1>3. ReqInv
  BY DEF Init, ReqInv, Numbered
<1>4. DOMAIN up = {} /\ DOMAIN down = {}
  BY DEF Init
<1>5. UpInv /\ DownInv /\ OnceInv
  BY <1>4 DEF UpInv, DownInv, OnceInv
<1>6. StreamInv
  BY CallersAssumption DEF Init, StreamInv
<1>7. FlowInv
  <2>1. AwaitedInv /\ AnnouncedInv /\ InputInv /\ NoPush
    BY <1>4 DEF AwaitedInv, AnnouncedInv, InputInv, NoPush
  <2>2. OwnedInv
    BY DEF Init, OwnedInv, Owned
  <2>3. DetachedInv
    BY DEF Init, DetachedInv
  <2>4. FreshInv
    BY <2>1, CallersAssumption DEF Init, FreshInv
  <2>. QED BY <2>1, <2>2, <2>3, <2>4 DEF FlowInv
<1>. QED BY <1>1, <1>2, <1>3, <1>5, <1>6, <1>7 DEF Order

\* The inductive invariant: request numbers, slots and frames of one connection
\* agree (request, settle, failAll), and what is on the way belongs to the
\* attachment of the stream that will be given it (Attach, Detach, routeOutput,
\* routePushError).
THEOREM ClientInvariance == Spec => [](Order /\ FlowInv)
<1>1. Init => Order /\ FlowInv
  BY ClientInit
<1>2. Order /\ FlowInv /\ [Next]_vars => (Order /\ FlowInv)'
  <2>. SUFFICES ASSUME Order, FlowInv, [Next]_vars PROVE Order' /\ FlowInv'
    OBVIOUS
  <2>1. Order'
    <3>1. TypeOK' /\ CountInv'
      BY TypeNext DEF Order
    <3>2. ReqInv'
      BY ReqNext DEF Order
    <3>3. UpInv' /\ DownInv' /\ OnceInv'
      BY FramesNext DEF Order
    <3>4. StreamInv'
      BY StreamNext DEF Order
    <3>. QED BY <3>1, <3>2, <3>3, <3>4 DEF Order
  <2>2. FlowInv'
    BY <2>1, FlowNext
  <2>. QED BY <2>1, <2>2
<1>. QED BY <1>1, <1>2, PTL DEF Spec

\* Types: no request is numbered beyond the bound, and every frame is one that its
\* receiver knows.
THEOREM ClientTypes == Spec => []TypeOK
<1>1. Order => TypeOK
  BY DEF Order
<1>. QED BY <1>1, ClientInvariance, PTL

\* A stream is given only the output and the refusals of its own attachment
\* (routeOutput, routePushError and the order in which onDetach stops the pump and
\* answers), unless an Attach or a Detach was given up by its context.
THEOREM OwnOutputAlways == Spec => []OwnOutput
<1>1. Order /\ FlowInv => OwnOutput
  <2>. SUFFICES ASSUME Order, FlowInv, ~abandoned, NEW k \in Callers, stream[k] = "open"
                PROVE  got[k] \subseteq {gen[k]}
    BY DEF OwnOutput
  <2>1. loop = "run"
    BY DEF Order, StreamInv, TypeOK
  <2>2. OwnedInv
    BY <2>1 DEF FlowInv
  <2>. QED BY <2>2 DEF OwnedInv, Owned
<1>. QED BY <1>1, ClientInvariance, PTL

\* The answer to a request is for one caller at most: no other has its number, and
\* whoever waits for it finds the slot empty until it comes, so settle hands a
\* response to the call that made the request and to no other.
OneTaker ==
    \A n \in DOMAIN down : down[n].kind = "answer" =>
        \A k \in Callers : pc[k] \in {"send", "wait"} /\ req[k] = down[n].id =>
            /\ k = down[n].for /\ pc[k] = "wait" /\ slot[req[k]] = None
            /\ loop = "run" => req[k] \in pending

\* settle and request keep the answers apart, also when the calls of some were given
\* up and their answers still arrive.
THEOREM OneTakerAlways == Spec => []OneTaker
<1>1. Order => OneTaker
  BY DEF Order, OneTaker, DownInv, DownFrame, For, Numbered, ReqInv
<1>. QED BY <1>1, ClientInvariance, PTL

=============================================================================
