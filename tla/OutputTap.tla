----------------------------- MODULE OutputTap ------------------------------
(***************************************************************************)
(* What the read pump of a session does with each chunk of output besides  *)
(* storing it (readPump in pkg/host/session.go): it feeds the monitor,     *)
(* whose events go to the bus, and appends to the durable log.  With it    *)
(* the readers of the result: REPLAY_COMMAND (conn.go), which cuts the     *)
(* last command out of the ring, and `runbaypty tail`, which joins log and *)
(* ring.                                                                   *)
(*                                                                         *)
(* The output is a script of items (text, bells, marks) that the child     *)
(* writes and the pump reads in chunks cut anywhere.  The ring is the      *)
(* window of the newest RingCap bytes.  A takeover gives the session to a  *)
(* daemon with a fresh monitor and an empty bus and reopens the log.       *)
(* A scenario bounds what may happen around one output: who subscribes,    *)
(* how long it takes, how many takeovers there are.                        *)
(***************************************************************************)
EXTENDS Monitor, SessionLog, EventBus

CONSTANTS Scenarios,   \* [script, logged, conns, maxTime, maxOther, maxHandovers]
          Session, Daemon, \* the scopes of events: this session, the daemon or another session
          RingCap    \* the ring's capacity

ASSUME RingCapAssumption == RingCap \in Nat

VARIABLES sc,        \* the scenario
          bytes,     \* its script on the wire
          pos,       \* bytes of output so far
          now,       \* the clock
          mon, log,  \* the session's monitor and log
          outbox,    \* events of the call in progress that are not yet emitted
          life,      \* "running", "exited", "crashed" (the daemon)
          base,      \* where this daemon's monitor began
          others, handovers, \* events of others, takeovers so far
          clean,     \* history: no takeover has lost part of the log
          tailer     \* the tail command: [at, out]

tvars == <<sc, bytes, pos, now, mon, log, outbox, life, base, others, handovers, clean, tailer>>
tapVars  == <<bvars, tvars>>

\* What each item looks like on the wire.
Symbols == [text   |-> <<"x">>,              bell  |-> <<"BEL">>,
            cstart |-> <<"ESC", "]", "C", "BEL">>, cend |-> <<"ESC", "]", "D", "ESC", "ST">>,
            title  |-> <<"ESC", "]", "x", "BEL">>, csi  |-> <<"ESC", "x">>]

Wire(script) == FoldLeft(LAMBDA acc, item : acc \o Symbols[item], <<>>, script)

\* Positions are uint64: Wide is past every one of them.
Wide == 1048576

ASSUME ScenariosAssumption ==
    \A s \in Scenarios : /\ s.script \in Seq(DOMAIN Symbols) /\ 5 * Len(s.script) < Wide
                         /\ s.logged \in BOOLEAN /\ s.conns \subseteq Conns

Greater(a, b) == IF a >= b THEN a ELSE b
OldestKept == Greater(pos, RingCap) - RingCap
Positions(a, b) == [k \in 1 .. Greater(b, a) - a |-> a + k - 1]

TapInit ==
    /\ BusInit
    /\ sc \in Scenarios
    /\ bytes = Wire(sc.script)
    /\ log = IF sc.logged THEN NewLog ELSE NoLog
    /\ pos = 0 /\ now = 0 /\ mon = NewMonitor
    /\ outbox = <<>> /\ life = "running" /\ base = 0 /\ others = 0 /\ handovers = 0
    /\ clean = TRUE /\ tailer = [at |-> "none", out |-> <<>>]

-----------------------------------------------------------------------------
(* The pump, the ticker and the end. *)

\* The monitor's and the bus's mutexes: one call's events are emitted before the
\* next call is made.
Idle == life = "running" /\ outbox = <<>>

\* One chunk: ring.Write, mon.Feed, appendLog, which may fail once.
PumpOutput(n) ==
    /\ Idle /\ pos + n <= Len(bytes)
    /\ pos' = pos + n
    /\ LET fed == Feed(mon, SubSeq(bytes, pos + 1, pos + n), now)
       IN  /\ mon' = [fed EXCEPT !.out = <<>>]
           /\ \/ log' = AppendRecord(log, pos, n) /\ outbox' = fed.out
              \/ /\ log.open /\ ~log.broken
                 /\ \E kept \in {0, 1} :
                      /\ Len(log.file) + kept < Len(AppendRecord(log, pos, n).file)
                      /\ log' = AppendFailed(log, pos, n, kept)
                 /\ outbox' = Append(fed.out, [type |-> "log_broken", start |-> 0, end |-> 0])
    /\ UNCHANGED <<bvars, sc, bytes, now, life, base, others, handovers, clean, tailer>>

\* EmitSession
EmitNext ==
    /\ outbox # <<>>
    /\ Emit(Session, Head(outbox))
    /\ outbox' = Tail(outbox)
    /\ UNCHANGED <<sc, bytes, pos, now, mon, log, life, base, others, handovers, clean, tailer>>

\* housekeeping; a tick that emits nothing changes nothing.
HousekeepingTick ==
    /\ Idle
    /\ Tick(mon, now).out # <<>>
    /\ mon' = [Tick(mon, now) EXCEPT !.out = <<>>] /\ outbox' = Tick(mon, now).out
    /\ UNCHANGED <<bvars, sc, bytes, pos, now, log, life, base, others, handovers, clean, tailer>>

Advance ==
    /\ Idle /\ now < sc.maxTime /\ now' = now + 1
    /\ UNCHANGED <<bvars, sc, bytes, pos, mon, log, outbox, life, base, others, handovers, clean, tailer>>

\* An event of another session, or of the daemon.
EmitOther ==
    /\ others < sc.maxOther /\ others' = others + 1
    /\ Emit(Daemon, [type |-> "other", start |-> 0, end |-> 0])
    /\ UNCHANGED <<sc, bytes, pos, now, mon, log, outbox, life, base, handovers, clean, tailer>>

\* finish: the log is closed and the exit reported.
Finish ==
    /\ Idle /\ pos = Len(bytes)
    /\ life' = "exited" /\ log' = Close(log)
    /\ outbox' = <<[type |-> "exited", start |-> 0, end |-> 0]>>
    /\ UNCHANGED <<bvars, sc, bytes, pos, now, mon, base, others, handovers, clean, tailer>>

\* The daemon is killed: only the file is left, and log.buf is what never gets there.
Crash ==
    /\ life = "running" /\ sc.logged /\ life' = "crashed"
    /\ UNCHANGED <<bvars, sc, bytes, pos, now, mon, log, outbox, base, others, handovers, clean, tailer>>

\* A takeover that succeeds: AdoptSession makes a fresh monitor at the end of the
\* stream and reopens the log; the connections and the old bus are gone.
TakenOver ==
    /\ Idle /\ handovers < sc.maxHandovers /\ handovers' = handovers + 1
    /\ mon' = SetStreamPos(pos, now) /\ base' = pos
    /\ log' = IF sc.logged THEN Reopen(log) ELSE log
    /\ clean' = (clean /\ log.buf = <<>> /\ ~log.broken)
    /\ BusReset
    /\ UNCHANGED <<sc, bytes, pos, now, outbox, life, others, tailer>>

-----------------------------------------------------------------------------
(* The readers. *)

\* uint64 subtraction.
USub(a, b) == (a + Wide - b) % Wide

\* Mutant: the reply is not cut at the end of the command.
ReplayCommand_Uncut(m) ==
    LET from0 == IF m.lastStart >= pos THEN m.lastStart ELSE Greater(m.lastStart, OldestKept)
    IN  [start |-> from0, end |-> m.lastEnd, truncated |-> m.lastStart < OldestKept,
         data |-> Positions(from0, pos)]

\* onReplayCommand: the ring from the command's start, clamped to its end.
ReplayCommand(m) ==
    LET from0 == IF m.lastStart >= pos THEN m.lastStart ELSE Greater(m.lastStart, OldestKept)
        data  == Positions(from0, pos)
        end0  == IF m.lastEnd > from0 + Len(data) THEN from0 + Len(data) ELSE m.lastEnd
    IN  [start |-> from0, end |-> end0, truncated |-> m.lastStart < OldestKept,
         data |-> IF Len(data) > USub(end0, from0) THEN SubSeq(data, 1, end0 - from0) ELSE data]

\* tail prints the log; an unreadable one is the end of it.
TailLog ==
    /\ tailer.at = "none" /\ life # "crashed" /\ sc.logged
    /\ tailer' = [at |-> IF ReadLog(log).ok THEN "attach" ELSE "failed", out |-> ReadLog(log).bytes]
    /\ UNCHANGED <<bvars, sc, bytes, pos, now, mon, log, outbox, life, base, others, handovers, clean>>

\* Mutant: the attach does not say what has been printed.
TailAttach_All ==
    /\ tailer.at = "attach" /\ life # "crashed"
    /\ tailer' = [at |-> "done", out |-> tailer.out \o Positions(OldestKept, pos)]
    /\ UNCHANGED <<bvars, sc, bytes, pos, now, mon, log, outbox, life, base, others, handovers, clean>>

\* tail attaches from as many bytes as it has printed, prints the replay, which may
\* begin later than it asked for, and follows.
TailAttach ==
    /\ tailer.at = "attach" /\ life # "crashed"
    /\ tailer' = [at |-> "done",
                out |-> tailer.out \o Positions(Greater(Len(tailer.out), OldestKept), pos)]
    /\ UNCHANGED <<bvars, sc, bytes, pos, now, mon, log, outbox, life, base, others, handovers, clean>>

-----------------------------------------------------------------------------
PumpStep1 == EmitNext \/ Finish \/ \E n \in 1 .. Len(bytes) : PumpOutput(n)

\* The daemon is dead, or the session is over and every event is out.
Terminated == life # "running" /\ UNCHANGED tapVars

TapNext ==
    \/ PumpStep1 \/ HousekeepingTick \/ Advance \/ EmitOther \/ Crash \/ TakenOver
    \/ TailLog \/ TailAttach
    \/ life # "crashed" /\ (\E c \in sc.conns : BusNext(c)) /\ UNCHANGED tvars
    \/ Terminated

TapSpec == TapInit /\ [][TapNext]_tapVars

-----------------------------------------------------------------------------
(* Properties. *)

\* What the items between base and pos mean, read off the script: acc is where
\* the item begins, where the last start mark ended and whether its command is
\* open, the last command that was finished, with whether it had a start mark of
\* its own, and the events so far.
Meaning(acc, item) ==
    LET to == acc.at + Len(Symbols[item])
        event == CASE item = "bell"   -> <<[type |-> "bell", start |-> 0, end |-> 0]>>
                   [] item = "cstart" -> <<[type |-> "started", start |-> to, end |-> 0]>>
                   [] item = "cend"   -> <<[type |-> "finished", start |-> acc.cmd, end |-> to]>>
                   [] OTHER -> <<>>
        seen == acc.at >= base /\ to <= pos
    IN  [at  |-> to,
         cmd |-> IF seen /\ item = "cstart" THEN to ELSE acc.cmd,
         open |-> IF seen /\ item \in {"cstart", "cend"} THEN item = "cstart" ELSE acc.open,
         last |-> IF seen /\ item = "cend"
                  THEN [start |-> acc.cmd, end |-> to, own |-> acc.open] ELSE acc.last,
         cut |-> acc.cut \/ (acc.at < base /\ base < to),
         evs |-> IF seen THEN acc.evs \o event ELSE acc.evs]

Truth == FoldLeft(Meaning, [at |-> 0, cmd |-> 0, open |-> FALSE,
                            last |-> [start |-> 0, end |-> 0, own |-> FALSE],
                            cut |-> FALSE, evs |-> <<>>], sc.script)

EventsSoFar == [k \in DOMAIN emitted |->
    IF emitted[k].scope = Session THEN emitted[k].ev ELSE [type |-> "other", start |-> 0, end |-> 0]]
    \o outbox

\* The events of some types, in their order.
Only(types, events) ==
    FoldLeft(LAMBDA acc, e : IF e.type \in types THEN Append(acc, e) ELSE acc, <<>>, events)

\* The bells and command marks reported are exactly those in the output, with
\* their positions on the ring's axis, wherever the reads cut it ("sequences split
\* across reads must not confuse bell detection", monitor.go:27), unless a takeover
\* came in the middle of a sequence: then the rest of it is read as plain output.
\* Between two reports of silence there was output ("at most once per quiet
\* period", monitor.go:199).
MarksTrue ==
    LET silence == Only({"silence"}, EventsSoFar)
    IN  /\ ~Truth.cut => Only({"bell", "started", "finished"}, EventsSoFar) = Truth.evs
        /\ \A i, j \in DOMAIN silence : i < j => silence[i].start < silence[j].start

\* LastCommandOutput is "exactly the bytes between the last C and D marks"
\* (examples/command-boundaries/README.md:53), the D mark included: REPLAY_COMMAND
\* finds a command when the output has an end mark, and answers with what the ring
\* still has of it, no more, and says whether something is missing ("the ring
\* evicted part of the window (payload begins at the oldest retained byte)",
\* messages.go:388).  It does not do so, and is excepted, for an end mark without a
\* start mark of its own since the last end mark or takeover: then the reply
\* begins at an older start mark, or at 0 (monitor.go:190); for a command that has
\* left the ring altogether: end - start wraps and the reply is the whole ring
\* (conn.go onReplayCommand); and after a takeover in the middle of a sequence.
CommandReplayed ==
    LET r    == ReplayCommand(mon)
        last == Truth.last
    IN  ~Truth.cut =>
            /\ LastCommand(mon).ok <=> last.end # 0
            /\ last.own /\ last.end >= OldestKept =>
                  /\ r.data = Positions(Greater(last.start, OldestKept), last.end)
                  /\ r.truncated <=> last.start < OldestKept

\* What is read back from the durable log is a prefix of the output, "never
\* garbage" (seslog.go:20), and all of it once the session has ended.  What is on
\* the file and in the buffer together is the log of the whole output, so a crash
\* costs what was in the buffer, BufSize cells at the most (the header and whole
\* records among them), and the record that this cuts.  It may cost that much,
\* against "history is everything up to the crash" (seslog.go:19).  A write error
\* stops the log, and a takeover that loses records the old daemon had buffered is
\* excepted.
LogTrue ==
    LET r == ReadLog(log)
        w == ReadLog([log EXCEPT !.file = @ \o log.buf])
    IN  clean =>
            /\ ~r.garbage /\ r.bytes = Positions(0, Len(r.bytes))
            /\ sc.logged /\ ~log.broken =>
                  /\ w.bytes = Positions(0, pos) /\ Len(log.buf) <= BufSize
                  /\ life = "exited" => r.bytes = w.bytes

\* The output up to byte a, then n bytes from b on.
Spliced(a, b, n) == Positions(0, a) \o Positions(b, b + n)

\* "No overlap, no gap" (tail.go:5): when tail comes to follow live it has printed
\* the output from the first byte on, each byte once and in order, however far the
\* log lags behind.  There is a gap only where the ring has lost bytes that were
\* not in the log when tail read it; tail does not notice (tail.go:63-80), and
\* what follows the gap is then the whole ring.  A takeover that lost part of the
\* log is excepted.
TailSeamless ==
    tailer.at = "done" /\ clean =>
        \E n \in 0 .. Len(tailer.out), b \in 0 .. pos :
            LET a == Len(tailer.out) - n
            IN  /\ tailer.out = Spliced(a, b, n)
                /\ a <= b /\ (a < b => n = RingCap)
=============================================================================
