----------------------------- MODULE MCPidFile ------------------------------
(***************************************************************************)
(* TLC instance of PidFile; the starts and the numbers are in its cfg.     *)
(* Neither have an order, and no property says anything of liveness.       *)
(***************************************************************************)
EXTENDS PidFile, TLC

Symmetry == Permutations(Starts) \union Permutations(Numbers)

============================================================================
