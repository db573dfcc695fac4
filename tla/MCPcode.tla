------------------------------ MODULE MCPcode -------------------------------
(***************************************************************************)
(* TLC instance of Pcode: a variable in memory and one in the database.    *)
(***************************************************************************)
EXTENDS Pcode

CONSTANTS x, n, out, state

MCVars == {x, n}

MCHashOf == [v \in MCVars |-> IF v = x THEN out ELSE state]

Instr(op, a, b) == [op |-> op, a |-> a, b |-> b]

MCStatements ==
  {Instr("assign", x, Lit), Instr("assign", n, x),
   Instr("xplcmd", out, Lit), Instr("spawn", Lit, Lit)}

MCTests == {Instr("test2", x, Lit), Instr("exists", n, Lit)}

\* Three statements fill the blocks of an if and else inside of another.
MCMaxUses ==
  [s \in MCStatements \union MCTests |-> IF s.op = "test2" THEN 2 ELSE 1]

============================================================================
