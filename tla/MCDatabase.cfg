\* Two processes with two operations each, on a key that has a row and one
\* that has none; after that nothing happens.
CONSTANTS
  stored = stored
  absent = absent
  old = old
  None = None
  Procs = {daemon, utility}
  Keys = {stored, absent}
  Values = {old, new}
  First <- MCFirst
  MaxOps = 2
SPECIFICATION Spec
CHECK_DEADLOCK FALSE
INVARIANTS
  LocksRight
PROPERTIES
  ReplacesAtomically
  ReadStable
