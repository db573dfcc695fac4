------------------------------ MODULE MCXplRx -------------------------------
(***************************************************************************)
(* TLC instance of XplRx: two kinds of datagram and the empty one.         *)
(***************************************************************************)
EXTENDS XplRx

CONSTANTS m1, m2, empty

MCMsgs == {m1, m2, empty}

============================================================================
