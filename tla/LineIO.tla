------------------------------- MODULE LineIO -------------------------------
(***************************************************************************)
(* SocketPrintf and SocketReadLine (socket.c) on the two ends of one       *)
(* direction of a connection, byte by byte.  The daemon's socket does not  *)
(* block: its reads and writes wait up to five seconds with select.  The   *)
(* utility's does, and its reads and writes wait in the kernel.  A client  *)
(* need not be the utility: it may send bytes one at a time, and never a   *)
(* newline.                                                                *)
(***************************************************************************)
EXTENDS Naturals, Sequences

CONSTANTS
  Texts,     \* what is printed before the newline: sequences of bytes
  Newline,   \* the byte at the end of a line
  Return,    \* the byte that is ignored
  Capacity,  \* bytes in the buffers of the kernel
  LineSize,  \* size of a line buffer at first (80)
  MaxPrints, \* bound on what is printed
  MaxPart,   \* bound on the bytes of a line that is sent byte by byte
  NoLine     \* no result: a read failed

Bytes == {Newline, Return} \union (UNION {{t[i] : i \in 1 .. Len(t)} : t \in Texts})

ASSUME LineIOAssumption ==
  /\ Texts \subseteq Seq(Bytes)
  /\ Newline # Return
  /\ \A t \in Texts : \A i \in 1 .. Len(t) : t[i] # Newline
  /\ Capacity \in Nat \ {0} /\ MaxPrints \in Nat /\ MaxPart \in Nat
  /\ LineSize \in Nat /\ LineSize > 2

VARIABLES
  down,     \* the daemon prints and the utility reads, or the other way round
  net,      \* bytes on their way
  todo,     \* what a print has yet to write
  printed,  \* number of prints
  closed,   \* the writer is gone
  reading,  \* a read is going on
  line,     \* what it has read
  lsize,    \* the size of its buffer
  result,   \* what the last read returned
  over      \* the reader has given the connection up

writer == <<net, todo, printed, closed>>
reader == <<reading, line, lsize, result, over>>
io     == <<down, writer, reader>>

InitIO ==
  /\ down \in BOOLEAN
  /\ net = <<>> /\ todo = <<>> /\ printed = 0 /\ closed = FALSE
  /\ reading = FALSE /\ line = <<>> /\ lsize = LineSize
  /\ result = NoLine /\ over = FALSE

Least(m, n) == IF m <= n THEN m ELSE n
Room        == Capacity - Len(net)

\* SocketPrintf.  The daemon's print writes what there is room for - nothing
\* if there is none for five seconds - and skips the rest.  The utility's is
\* in the kernel until all is written.
SocketPrintf(text) ==
  /\ ~closed /\ todo = <<>> /\ printed < MaxPrints
  /\ printed' = printed + 1
  /\ LET string == Append(text, Newline)
     IN IF down
        THEN /\ net' = net \o SubSeq(string, 1, Least(Room, Len(string)))
             /\ UNCHANGED todo
        ELSE todo' = string /\ UNCHANGED net
  /\ UNCHANGED <<down, closed, reader>>

\* The kernel takes some more of it.
Push ==
  /\ todo # <<>>
  /\ \E n \in 1 .. Least(Room, Len(todo)) :
       /\ net' = net \o SubSeq(todo, 1, n)
       /\ todo' = SubSeq(todo, n + 1, Len(todo))
  /\ UNCHANGED <<down, printed, closed, reader>>

\* A client sends one byte, at any time and as often as it likes, but never
\* the end of a line.  Only bytes that the reader ignores are without bound.
Drip(c) ==
  /\ ~down /\ ~closed /\ todo = <<>> /\ Room > 0
  /\ c # Newline
  /\ c # Return => Len(line) + Len(net) < MaxPart
  /\ net' = Append(net, c)
  /\ UNCHANGED <<down, todo, printed, closed, reader>>

\* The writer closes its end, or is killed within a print.
Close ==
  /\ ~closed
  /\ closed' = TRUE
  /\ todo' = <<>>
  /\ UNCHANGED <<down, net, printed, reader>>

\* What the callers make of the result: *length is 0 - a line that is empty,
\* the end, or a read that failed before the first byte of a line - or, in the
\* utility, the read has failed.
GivesUp(value, length) == length = 0 \/ (down /\ value = NoLine)

\* SocketReadLine is called: by the daemon when the poller has the socket
\* ready, by the utility when it waits for an answer.
BeginRead ==
  /\ ~reading /\ ~over
  /\ down \/ net # <<>> \/ closed
  /\ reading' = TRUE
  /\ line' = <<>>
  /\ lsize' = LineSize
  /\ UNCHANGED <<down, writer, result, over>>

Returns(value, length) ==
  /\ reading' = FALSE /\ result' = value /\ line' = <<>>
  /\ over' = GivesUp(value, length)

\* A mutant of Grows: the buffer is doubled when it has overflowed.
GrowsLate(length, size) == length > size

\* The test before each read of a byte.
Grows(length, size) == length >= size - 2

\* A mutant of Ignored: a return is part of the line.
IgnoresNone(c) == FALSE

Ignored(c) == c = Return

\* One byte.
ReadByte ==
  /\ reading /\ net # <<>>
  /\ net' = Tail(net)
  /\ lsize' = IF Grows(Len(line), lsize) THEN 2 * lsize ELSE lsize
  /\ LET c == Head(net)
     IN CASE Ignored(c)  -> UNCHANGED <<reading, line, result, over>>
          [] c = Newline -> Returns(line, Len(line))
          [] OTHER       -> /\ line' = Append(line, c)
                            /\ UNCHANGED <<reading, result, over>>
  /\ UNCHANGED <<down, todo, printed, closed>>

\* The end of the connection: what was read of a line is dropped.
ReadEOF ==
  /\ reading /\ net = <<>> /\ closed
  /\ Returns(<<>>, 0)
  /\ UNCHANGED <<down, writer, lsize>>

\* The connection is reset: what was on its way is lost as well, and *length
\* stays what it was.
ReadError ==
  /\ reading /\ closed
  /\ net' = <<>>
  /\ Returns(NoLine, Len(line))
  /\ UNCHANGED <<down, todo, printed, closed, lsize>>

\* A mutant of TimesOut: a read that has begun a line waits for its end.
TimesOutEmpty == ~down /\ line = <<>>

TimesOut == ~down

\* Five seconds without a byte, whatever came before: what was read is lost.
ReadTimeOut ==
  /\ reading /\ net = <<>> /\ ~closed /\ TimesOut
  /\ Returns(NoLine, Len(line))
  /\ UNCHANGED <<down, writer, lsize>>

Read == ReadByte \/ ReadEOF \/ ReadError \/ ReadTimeOut

NextIO ==
  \/ \E t \in Texts : SocketPrintf(t)
  \/ Push
  \/ \E c \in Bytes : Drip(c)
  \/ Close \/ BeginRead \/ Read

----------------------------------------------------------------------------
(* The refinement mapping.                                                 *)

\* What is on its way, from the first byte of the line that is being read.
Stream == line \o net \o todo

\* What is read so far: the lines with an end, and what follows them.
NoBytes == [lines |-> <<>>, part |-> <<>>]

\* One byte more.
With(split, c) ==
  IF c = Return THEN split
  ELSE IF c = Newline
  THEN [lines |-> Append(split.lines, split.part), part |-> <<>>]
  ELSE [lines |-> split.lines, part |-> Append(split.part, c)]

SplitOf(bytes) ==
  LET split[n \in 0 .. Len(bytes)] ==
        IF n = 0 THEN NoBytes ELSE With(split[n - 1], bytes[n])
  IN  split[Len(bytes)]

Split == SplitOf(Stream)

Channel ==
  INSTANCE LineChannel WITH
    Lines <- {SplitOf(t).part : t \in Texts},
    Bytes <- Bytes \ {Newline, Return},
    None  <- NoLine,
    lines <- Split.lines,
    part  <- Split.part,
    taken <- result

============================================================================
