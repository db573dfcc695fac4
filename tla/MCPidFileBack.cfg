\* There is a number of starts, after which nothing happens.
CONSTANTS
  Starts = {s1, s2}
  Numbers = {n1, n2, n3}
  None = None
  Empty = Empty
SPECIFICATION Spec
SYMMETRY Symmetry
CHECK_DEADLOCK FALSE
PROPERTIES
  NotAlreadyRunning
