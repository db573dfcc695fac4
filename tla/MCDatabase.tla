----------------------------- MODULE MCDatabase -----------------------------
(***************************************************************************)
(* TLC instance of Database: the daemon and a direct run of the utility.   *)
(***************************************************************************)
EXTENDS Database

CONSTANTS stored, absent, old

MCFirst == [k \in Keys |-> IF k = stored THEN <<old>> ELSE <<>>]

============================================================================
