\* Scripts of three assignments and commands, which end.
CONSTANTS
  a = a
  b = b
  tab = tab
  Plain <- MCPlain
  Braces = {"{", "|", "}"}
  Control = {tab}
  Source <- MCSource
  Tags <- MCTags
  Schema <- MCSchema
  Keys <- MCKeys
  Values <- MCValues
  Foreign <- MCForeign
  Formatted <- MCFormatted
  HeaderSize = 5
  WordSize = 7
  PartMax = 3
  MaxSize = 46
  RxSize = 47
  MaxSteps = 3
  Absent = Absent
SPECIFICATION MsgSpec
CHECK_DEADLOCK FALSE
INVARIANTS
  ReadsBack
PROPERTIES
  CommandPairs
