\* Two datagrams of three kinds, more than the socket buffer holds; the
\* smallest watchdog period that MaxLag allows; two reads before shutdown
\* gives up.
CONSTANTS
  m1 = m1
  m2 = m2
  empty = empty
  Empty = empty
  Msgs <- MCMsgs
  MaxSent = 2
  NetCap = 1
  Period = 5
  MaxLag = 1
  WdogMax = 1
  MaxGasp = 2
SPECIFICATION Spec
INVARIANTS
  TypeOK
  NoLostWakeup
  GaspSound
  WatchdogSound
PROPERTIES
  StallDetected
  ShutdownEnds
  ImplementsChannel
CHECK_DEADLOCK FALSE
