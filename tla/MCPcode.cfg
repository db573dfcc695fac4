\* Scripts of up to thirteen instructions, at most three of them statements.
CONSTANTS
  x = x
  n = n
  out = out
  state = state
  Vars <- MCVars
  HashOf <- MCHashOf
  NVState = state
  Given = {n}
  Lit = Lit
  Statements <- MCStatements
  Tests <- MCTests
  MaxCode = 13
  MaxPlain = 3
  MaxUses <- MCMaxUses
SPECIFICATION Spec
CHECK_DEADLOCK FALSE
INVARIANTS
  ExecutedRight
  JumpsFound
PROPERTIES
  ScriptEnds
