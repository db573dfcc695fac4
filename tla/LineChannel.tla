---------------------------- MODULE LineChannel -----------------------------
(***************************************************************************)
(* What the sessions rely on in SocketPrintf and SocketReadLine: one       *)
(* direction of a connection as a queue of lines.  A line that is read is  *)
(* the next one that was printed, whole, with four exceptions:             *)
(*                                                                         *)
(*   - the utility's read has no time limit; the daemon's has one, and a   *)
(*     line that does not arrive in time loses its beginning;              *)
(*   - a writer that goes away within a line has not printed it, and what  *)
(*     there is of it is never read;                                       *)
(*   - a connection that is reset by the writer loses all that was not     *)
(*     read;                                                               *)
(*   - the daemon's print may be cut: what is lost is the end of a line    *)
(*     with its newline, and the next line is joined to its beginning.     *)
(*                                                                         *)
(* A client that prints a line byte by byte has printed it with its end.   *)
(***************************************************************************)
EXTENDS Naturals, Sequences

CONSTANTS
  Lines,  \* what may be printed
  Bytes,  \* what may be printed of a line
  None    \* no line

VARIABLES
  down,    \* the daemon prints and the utility reads, or the other way round
  lines,   \* the lines that were printed and not read
  part,    \* a line without an end after them
  closed,  \* the writer is gone
  taken    \* what the last read returned; None if it failed

vars == <<down, lines, part, closed, taken>>

Init ==
  /\ down \in BOOLEAN
  /\ lines = <<>> /\ part = <<>>
  /\ closed = FALSE
  /\ taken = None

Prefix(l, n) == SubSeq(l, 1, n)
Suffix(l, n) == SubSeq(l, n + 1, Len(l))

PrintLine(l) ==
  /\ ~closed
  /\ lines' = Append(lines, part \o l)
  /\ part' = <<>>
  /\ UNCHANGED <<down, closed, taken>>

Cut(l) ==
  /\ ~closed /\ down
  /\ \E n \in 0 .. Len(l) : part' = part \o Prefix(l, n)
  /\ UNCHANGED <<down, lines, closed, taken>>

PrintByte(c) ==
  /\ ~closed /\ ~down
  /\ part' = Append(part, c)
  /\ UNCHANGED <<down, lines, closed, taken>>

\* All that was printed is read, or what was to be the last line is not.
Close ==
  /\ ~closed
  /\ closed' = TRUE
  /\ \/ UNCHANGED <<lines, part>>
     \/ /\ ~down /\ lines # <<>>
        /\ lines' = SubSeq(lines, 1, Len(lines) - 1)
        /\ \E n \in 0 .. Len(lines[Len(lines)]) :
             part' = Prefix(lines[Len(lines)], n)
  /\ UNCHANGED <<down, taken>>

Take ==
  /\ lines # <<>>
  /\ taken' = Head(lines)
  /\ lines' = Tail(lines)
  /\ UNCHANGED <<down, part, closed>>

\* At the end an empty line is returned.
TakeEnd ==
  /\ closed /\ lines = <<>>
  /\ taken' = <<>>
  /\ part' = <<>>
  /\ UNCHANGED <<down, lines, closed>>

Reset ==
  /\ closed
  /\ taken' = None
  /\ lines' = <<>> /\ part' = <<>>
  /\ UNCHANGED <<down, closed>>

TimeOut ==
  /\ ~down
  /\ taken' = None
  /\ \/ UNCHANGED <<lines, part>>
     \/ /\ lines # <<>>
        /\ \E n \in 1 .. Len(Head(lines)) : lines' = <<Suffix(Head(lines), n)>> \o Tail(lines)
        /\ UNCHANGED part
     \/ /\ lines = <<>>
        /\ \E n \in 1 .. Len(part) : part' = Suffix(part, n)
        /\ UNCHANGED lines
  /\ UNCHANGED <<down, closed>>

Next ==
  \/ \E l \in Lines : PrintLine(l) \/ Cut(l)
  \/ \E c \in Bytes : PrintByte(c)
  \/ Close \/ Take \/ TakeEnd \/ Reset \/ TimeOut

Spec == Init /\ [][Next]_vars

============================================================================
