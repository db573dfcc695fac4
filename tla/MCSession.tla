----------------------------- MODULE MCSession ------------------------------
(***************************************************************************)
(* TLC instance of Session: two runs at a time, of an upload, a shorter    *)
(* one, one that is too long, a download and a command.                    *)
(***************************************************************************)
EXTENDS Session

CONSTANTS c1, c2, a, b, blank, long, script

MCLineLength == [t \in {a, b, blank, long} |->
                   CASE t = a -> 3 [] t = b -> 2 [] t = blank -> 0 [] t = long -> 4]

JobOf(kind, text) == [kind |-> kind, name |-> script, text |-> text]

Upload   == JobOf("put", <<a, blank, b>>)
Short    == JobOf("put", <<b>>)
TooMuch  == JobOf("put", <<a, a>>)
Download == JobOf("get", <<>>)
Command1 == JobOf("cmd", <<>>)

Both(j, k) == [c \in Clients |-> IF c = c1 THEN j ELSE k]

MCPlans == {Both(Upload, Short), Both(Short, Download),
            Both(TooMuch, Command1)}

\* The script in the database has a line that the receiver does not take.
MCStored == [n \in {script} |-> <<b, long>>]

============================================================================
