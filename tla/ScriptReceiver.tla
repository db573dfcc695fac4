--------------------------- MODULE ScriptReceiver ---------------------------
(***************************************************************************)
(* The transfer of a script, line by line (MonitorSendScript and           *)
(* MonitorRecvScript in monitor.c), as both the daemon and the command     *)
(* line utility use it.                                                    *)
(*                                                                         *)
(* A line on the wire is a tag, the three characters it begins with, and   *)
(* what follows: a line of a script, a name, or nothing.  Of a line of a   *)
(* script the model keeps its length, of a script the sequence of lines.   *)
(***************************************************************************)
EXTENDS Naturals, Sequences

CONSTANTS
  TextLines,   \* lines of scripts
  LineLength,  \* their lengths; a line of length 0 is blank
  Names,       \* names of scripts
  None,        \* no name, no script
  MaxLine,     \* the longest line that is accepted (255 in the code)
  FirstSize,   \* the size of the buffer at first (2048)
  SizeLimit    \* scripts have to be shorter (65536)

ASSUME ReceiverAssumption ==
  /\ LineLength \in [TextLines -> Nat]
  /\ None \notin Names
  /\ None \notin TextLines
  /\ MaxLine \in Nat /\ FirstSize \in Nat /\ SizeLimit \in Nat
  /\ FirstSize >= MaxLine + 3

\* "short", "blank" and "rest" are what is left of a line whose beginning was
\* lost: two characters or less, none, or anything else.
Tags == {"rs", "ss", "cl", "sb", "sl", "se", "ok", "er",
         "short", "blank", "rest"}

Line(tag, arg) == [tag |-> tag, arg |-> arg]

Lines == [tag : {"sl"}, arg : TextLines]
           \union [tag : Tags \ {"sl"}, arg : Names \union {None}]

Texts == Seq(TextLines)

\* The lines of a script that are not blank.
NonBlank(text) ==
  LET kept[n \in 0 .. Len(text)] ==
        IF n = 0 THEN <<>>
        ELSE IF LineLength[text[n]] # 0 THEN Append(kept[n - 1], text[n])
        ELSE kept[n - 1]
  IN  kept[Len(text)]

\* MonitorSendScript: the split into lines drops those that are blank.
ScriptLines(name, text) ==
  LET body == NonBlank(text)
  IN <<Line("sb", name)>>
       \o [i \in 1 .. Len(body) |-> Line("sl", body[i])]
       \o <<Line("se", name)>>

\* A receiver as the daemon and the utility set it up.
NewReceiver ==
  [state |-> "idle", name |-> None, text |-> <<>>, len |-> 0,
   size |-> FirstSize]

Receivers ==
  [state : {"idle", "waitline", "finished", "error"},
   name : Names \union {None}, text : Texts, len : 0 .. SizeLimit, size : Nat]

Failed(ri) == [ri EXCEPT !.state = "error"]

\* A mutant of Grown: the buffer is enlarged when it is full, too late for the
\* newline and the end of the string.
GrownLate(ri, n) ==
  IF ri.len + n > ri.size THEN [ri EXCEPT !.size = 2 * @] ELSE ri

\* The buffer is enlarged if n more characters, a newline and the end of the
\* string do not fit.
Grown(ri, n) ==
  IF ri.len + n + 2 >= ri.size THEN [ri EXCEPT !.size = 2 * @] ELSE ri

Added(ri, t) ==
  [Grown(ri, LineLength[t]) EXCEPT !.text = Append(@, t),
                                   !.len = @ + LineLength[t] + 1]

BadLength(l) == l.tag = "short" \/ (l.tag = "sl" /\ LineLength[l.arg] > MaxLine)

TooLong(ri, t) == ri.len + LineLength[t] >= SizeLimit

\* MonitorRecvScript; any other line is ignored.
Receive(ri, l) ==
  CASE BadLength(l) \/ l.tag = "er" -> Failed(ri)
    [] ~BadLength(l) /\ ri.state = "idle" /\ l.tag = "sb" ->
         [ri EXCEPT !.name = l.arg, !.state = "waitline"]
    [] ~BadLength(l) /\ ri.state = "waitline" /\ l.tag = "se" ->
         [ri EXCEPT !.state = "finished"]
    [] ~BadLength(l) /\ ri.state = "waitline" /\ l.tag = "sl" ->
         IF TooLong(ri, l.arg) THEN Failed(ri) ELSE Added(ri, l.arg)
    [] OTHER -> ri

\* A mutant of Done: an error does not end the reception.
DoneAtEnd(ri) == ri.state = "finished"

Done(ri) == ri.state \in {"finished", "error"}

============================================================================
