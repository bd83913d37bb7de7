------------------------------- MODULE Watch --------------------------------
(***************************************************************************)
(* Server-side watches (pkg/daemon/watch.go) on the ring of one session.   *)
(* A watch is a goroutine that pulls new output from the ring, scans it    *)
(* behind a bounded tail of what it saw before, and reports matches.       *)
(*                                                                         *)
(* The pattern is a literal string: FindAllIndex is then the leftmost      *)
(* non-overlapping occurrences.  A connection closed by a takeover cancels *)
(* its watches, so a handover of the ring finds none.                      *)
(***************************************************************************)
EXTENDS Ring, FiniteSets

CONSTANTS Watches,    \* the watches a client may register
          MaxWatches, \* maxWatchesPerConn
          Pattern,    \* the literal watched for
          Overlap,    \* watchOverlapBytes
          MatchCap    \* watchMatchCap

ASSUME OverlapAssumption == Overlap \in Nat
ASSUME MatchCapAssumption == MatchCap \in Nat
ASSUME PatternAssumption == Pattern \in Seq(Byte) /\ Pattern # <<>>

VARIABLES regs,     \* c.watches: the registered watches
          wpc,      \* a watch's goroutine: "none", "start", "scan", "wait", "done"
          lastSeen, \* runWatch's locals
          tail, tailStart,
          exited,   \* the session has exited
          reports,  \* the WATCH_EVENTs sent, as [seq, text]
          since,    \* history: where the watch began to look
          lapped    \* history: the watches the ring has overtaken

scan  == <<wpc, lastSeen, tail, tailStart, reports, since, lapped>>
wvars == <<regs, scan, exited>>

Empty(x) == [w \in Watches |-> x]

WatchInit ==
    /\ Init
    /\ regs = {} /\ wpc = Empty("none") /\ exited = FALSE
    /\ lastSeen = Empty(0) /\ tail = Empty(<<>>) /\ tailStart = Empty(0)
    /\ reports = Empty(<<>>) /\ since = Empty(0) /\ lapped = {}

-----------------------------------------------------------------------------
(* The session. *)

Output(p) == ~exited /\ Write(p) /\ UNCHANGED wvars

SessionExit ==
    /\ ~exited /\ exited' = TRUE
    /\ UNCHANGED <<vars, regs, scan>>

-----------------------------------------------------------------------------
(* The watches. *)

\* onWatch: refused at the limit, otherwise registered, WATCH_OK, go runWatch.
\* Watches that have ended still count.
OnWatch(w) ==
    /\ wpc[w] = "none" /\ w \notin regs
    /\ Cardinality(regs) < MaxWatches
    /\ regs' = regs \cup {w}
    /\ wpc' = [wpc EXCEPT ![w] = "start"]
    /\ UNCHANGED <<vars, lastSeen, tail, tailStart, reports, since, lapped, exited>>

\* The goroutine begins: what was output since WATCH_OK is not looked at.
RunWatch(w) ==
    /\ wpc[w] = "start"
    /\ wpc' = [wpc EXCEPT ![w] = "scan"]
    /\ lastSeen' = [lastSeen EXCEPT ![w] = end]
    /\ tailStart' = [tailStart EXCEPT ![w] = end]
    /\ since' = [since EXCEPT ![w] = end]
    /\ UNCHANGED <<vars, regs, tail, reports, lapped, exited>>

OccursAt(b, i) == SubSeq(b, i, i + Len(Pattern) - 1) = Pattern

\* FindAllIndex and the test on what it finds: the indices of the leftmost
\* occurrences in b that do not overlap, scanning from i, without those that end
\* at seq seen or before.  b begins at seq start.
FindNew(b, start, seen) ==
    LET from[i \in 1 .. Len(b) + Len(Pattern)] ==
          IF i > Len(b) - Len(Pattern) + 1 THEN <<>>
          ELSE IF OccursAt(b, i)
               THEN (IF i - 1 + Len(Pattern) + start > seen THEN <<i>> ELSE <<>>)
                    \o from[i + Len(Pattern)]
               ELSE from[i + 1]
    IN  from[1]

\* Mutant: matches that begin in the tail are taken for fired.
NewMatches_SkipsTail(w, b) ==
    FindNew(b, tailStart[w], lastSeen[w] + Len(Pattern) - 1)

\* The matches in tail and chunk that did not end in an earlier scan.
NewMatches(w, b) == FindNew(b, tailStart[w], lastSeen[w])

\* How much of a match's text a WATCH_EVENT carries.
TextLen == Lesser(Len(Pattern), MatchCap)

\* One round of runWatch: replay, scan tail and chunk, report, keep a new tail.
Scan(w) ==
    LET r    == ReplayFrom(lastSeen[w])
        b    == tail[w] \o r.data
        new  == NewMatches(w, b)
        keep == Lesser(Len(b), Overlap)
    IN  /\ wpc[w] = "scan"
        /\ IF r.data = <<>> THEN UNCHANGED <<lastSeen, tail, tailStart, reports, lapped>>
           ELSE /\ reports' = [reports EXCEPT ![w] = @ \o
                     [k \in DOMAIN new |-> [seq  |-> tailStart[w] + new[k] - 1,
                                            text |-> SubSeq(b, new[k], new[k] + TextLen - 1)]]]
                /\ lastSeen' = [lastSeen EXCEPT ![w] = r.fromSeq + Len(r.data)]
                /\ tail' = [tail EXCEPT ![w] = SubSeq(b, Len(b) - keep + 1, Len(b))]
                /\ tailStart' = [tailStart EXCEPT ![w] = r.fromSeq + Len(r.data) - keep]
                /\ lapped' = IF r.truncated THEN lapped \cup {w} ELSE lapped
        /\ wpc' = [wpc EXCEPT ![w] = "wait"]
        /\ UNCHANGED <<vars, regs, since, exited>>

\* A WATCH_EVENT cannot be written, the connection being gone.
ScanFails(w) ==
    /\ wpc[w] = "scan"
    /\ NewMatches(w, tail[w] \o ReplayFrom(lastSeen[w]).data) # <<>>
    /\ wpc' = [wpc EXCEPT ![w] = "done"]
    /\ UNCHANGED <<vars, regs, lastSeen, tail, tailStart, reports, since, lapped, exited>>

\* WaitOutput returns with more output, or the stream is over.
Wait(w) ==
    /\ wpc[w] = "wait"
    /\ \/ end > lastSeen[w] /\ wpc' = [wpc EXCEPT ![w] = "scan"]
       \/ exited /\ end = lastSeen[w] /\ wpc' = [wpc EXCEPT ![w] = "done"]
    /\ UNCHANGED <<vars, regs, lastSeen, tail, tailStart, reports, since, lapped, exited>>

\* cancelWatches when the connection ends: every goroutine has returned before
\* cleanup goes on.
CancelWatches ==
    /\ regs # {}
    /\ regs' = {} /\ wpc' = Empty("none")
    /\ lastSeen' = Empty(0) /\ tail' = Empty(<<>>) /\ tailStart' = Empty(0)
    /\ reports' = Empty(<<>>) /\ since' = Empty(0) /\ lapped' = {}
    /\ UNCHANGED <<vars, exited>>

RingHandover == regs = {} /\ Handover /\ UNCHANGED wvars

-----------------------------------------------------------------------------
WatchNext ==
    \/ \E p \in Chunks : Output(p)
    \/ SessionExit \/ CancelWatches \/ RingHandover
    \/ \E w \in Watches : OnWatch(w) \/ RunWatch(w) \/ Scan(w) \/ ScanFails(w) \/ Wait(w)

WatchSpec == WatchInit /\ [][WatchNext]_<<vars, wvars>>

-----------------------------------------------------------------------------
(* Properties. *)

\* The occurrences in the output since the watch began.
Occurrences(w) == {i \in since[w] + 1 .. Len(stream) - Len(Pattern) + 1 : OccursAt(stream, i)}

\* The patterns for which no occurrence is passed over: one that does not overlap
\* itself and is at most a byte longer than the tail.
Suited ==
    /\ \A d \in 1 .. Len(Pattern) - 1 :
           \E i \in 1 .. Len(Pattern) - d : Pattern[i] # Pattern[i + d]
    /\ Len(Pattern) <= Overlap + 1

\* A match never fires for text that was not output, nor at another position, nor
\* twice, and once a watch has caught up with the output it has fired for every
\* occurrence, however output was cut into chunks ("a match split across two
\* OUTPUT chunks must still fire", watch.go:8).  The last is for a suited pattern,
\* and all of it for as long as the ring has not overtaken the watch: after that
\* the kept tail is not adjacent to the new data and neither text nor position can
\* be trusted.
MatchesReported ==
    \A w \in Watches \ lapped :
        LET fired == {reports[w][k].seq + 1 : k \in DOMAIN reports[w]}
        IN  /\ fired \subseteq Occurrences(w)
            /\ \A k \in DOMAIN reports[w] : reports[w][k].text = SubSeq(Pattern, 1, TextLen)
            /\ \A j, k \in DOMAIN reports[w] : j < k => reports[w][j].seq < reports[w][k].seq
            /\ Suited /\ wpc[w] \in {"wait", "done"} /\ lastSeen[w] = end
                  => fired = Occurrences(w)
=============================================================================
