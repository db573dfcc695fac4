---------------------------- MODULE RxChannel -----------------------------
(***************************************************************************)
(* What the receive side of the xPL stack promises its user: every string  *)
(* the receiver has taken from the hub connection is handed to the message *)
(* dispatcher exactly once and in the order of arrival, until the stack is *)
(* shut down; and while it is open a waiting string is eventually handed   *)
(* over.  XplRx implements this with two threads, a mutex, a linked list   *)
(* and an eventfd.                                                         *)
(***************************************************************************)
EXTENDS Sequences

CONSTANT Msgs   \* the strings that can arrive

VARIABLES
  inbox,        \* strings taken from the connection and not handed over yet
  handled,      \* strings handed to the dispatcher, in order
  open          \* FALSE once the user has begun to shut the stack down

chanVars == <<inbox, handled, open>>

Init ==
  /\ inbox = <<>>
  /\ handled = <<>>
  /\ open = TRUE

Put(m) ==
  /\ inbox' = Append(inbox, m)
  /\ UNCHANGED <<handled, open>>

Take ==
  /\ open
  /\ inbox # <<>>
  /\ handled' = Append(handled, Head(inbox))
  /\ inbox' = Tail(inbox)
  /\ UNCHANGED open

Close ==
  /\ open
  /\ open' = FALSE
  /\ UNCHANGED <<inbox, handled>>

Next ==
  \/ \E m \in Msgs : Put(m)
  \/ Take
  \/ Close

SafeSpec == Init /\ [][Next]_chanVars

Spec == SafeSpec /\ WF_chanVars(Take)

============================================================================
