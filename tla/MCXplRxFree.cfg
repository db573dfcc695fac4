\* Any ready event is taken for the dying gasp.
CONSTANTS
  m1 = m1
  m2 = m2
  empty = empty
  Empty = empty
  Msgs <- MCMsgs
  MaxSent = 2
  NetCap = 1
  Period = 5
  MaxLag = 1
  WdogMax = 1
  MaxGasp = 2
SPECIFICATION SafeSpec
INVARIANTS
  FreedAfterExit
CHECK_DEADLOCK FALSE
