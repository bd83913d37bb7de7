----------------------------- MODULE SessionLog -----------------------------
(***************************************************************************)
(* The durable log of a session (pkg/host/seslog.go): a header, then one   *)
(* record per chunk of output, written through a buffer.  The session's    *)
(* pump is the only writer, so each method is an operator on the log l:    *)
(* l.file is what has reached the file, l.buf what is still buffered.      *)
(*                                                                         *)
(* Lengths are counted in cells: the header is one, a record's head (time  *)
(* delta and length) is one, each byte of output is one.  A byte is its    *)
(* position in the output.  A flush may end anywhere.  Timestamps are left *)
(* out: a delta that would be negative is written as 0.                    *)
(***************************************************************************)
EXTENDS Naturals, Sequences

CONSTANT BufSize  \* the buffer's size in cells, 64 KiB

ASSUME BufSizeAssumption == BufSize \in Nat \ {0}

Header   == [cell |-> "header", val |-> 0]
Head1(n) == [cell |-> "head", val |-> n]
Byte1(i) == [cell |-> "byte", val |-> i]

\* bufio.Writer: what does not fit is copied as far as it fits and flushed; the
\* rest is buffered, or written through when it is larger than the buffer.
BufWrite(l, p) ==
    LET room == BufSize - Len(l.buf)
        rest == SubSeq(p, room + 1, Len(p))
    IN  IF Len(p) <= room THEN [l EXCEPT !.buf = @ \o p]
        ELSE IF l.buf = <<>> THEN [l EXCEPT !.file = @ \o p]
        ELSE IF Len(rest) > BufSize
        THEN [l EXCEPT !.file = @ \o l.buf \o p, !.buf = <<>>]
        ELSE [l EXCEPT !.file = @ \o l.buf \o SubSeq(p, 1, room), !.buf = rest]

\* NewSessionLogWriter: the header is buffered like everything else.
NewLog == BufWrite([file |-> <<>>, buf |-> <<>>, open |-> TRUE, broken |-> FALSE], <<Header>>)

\* A session spawned without a log.
NoLog == [file |-> <<>>, buf |-> <<>>, open |-> FALSE, broken |-> FALSE]

\* Mutant: the head counts one byte too few.
Append_Short(l, first, n) ==
    IF ~l.open \/ l.broken THEN l
    ELSE BufWrite(BufWrite(l, <<Head1(n - 1)>>), [k \in 1 .. n |-> Byte1(first + k - 1)])

\* appendLog and Append: the head, then the payload, of n bytes from first on.
AppendRecord(l, first, n) ==
    IF ~l.open \/ l.broken THEN l
    ELSE BufWrite(BufWrite(l, <<Head1(n)>>), [k \in 1 .. n |-> Byte1(first + k - 1)])

\* Append fails, anywhere in what it would have flushed: the log stops for good.
AppendFailed(l, first, n, kept) ==
    LET full == AppendRecord(l, first, n).file
    IN  [l EXCEPT !.broken = TRUE, !.file = SubSeq(full, 1, Len(@) + kept), !.buf = <<>>]

\* Close flushes; a broken log stays as it is.
Close(l) == [l EXCEPT !.file = IF l.open /\ ~l.broken THEN @ \o l.buf ELSE @,
                      !.buf = <<>>, !.open = FALSE]

\* ReopenSessionLogWriter in the adopting daemon: it appends to what has reached
\* the file, with a buffer of its own.  What the old daemon had buffered is gone.
Reopen(l) == [l EXCEPT !.buf = <<>>, !.broken = FALSE]

\* ReadSessionLog's loop: the bytes of the complete records from cell i on.  A
\* cell that is not what the format wants there is read as a number all the same.
ReadFrom(f) ==
    LET records[i \in 2 .. Len(f) + 1] ==
          IF i > Len(f) THEN [bytes |-> <<>>, garbage |-> FALSE]
          ELSE IF f[i].cell # "head" THEN [bytes |-> <<>>, garbage |-> TRUE]
          ELSE IF i + f[i].val > Len(f) THEN [bytes |-> <<>>, garbage |-> FALSE]
          ELSE LET next == records[i + f[i].val + 1]
                   data == SubSeq(f, i + 1, i + f[i].val)
               IN  [bytes |-> [k \in DOMAIN data |-> data[k].val] \o next.bytes,
                    garbage |-> next.garbage \/ \E k \in DOMAIN data : data[k].cell # "byte"]
    IN  records[2]

\* ReadSessionLog
ReadLog(l) ==
    IF l.file = <<>> \/ l.file[1] # Header
    THEN [ok |-> FALSE, bytes |-> <<>>, garbage |-> FALSE]
    ELSE [ok |-> TRUE, bytes |-> ReadFrom(l.file).bytes, garbage |-> ReadFrom(l.file).garbage]
=============================================================================
