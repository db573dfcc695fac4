\* A connection that was given up comes to an end.
CONSTANTS
  None = None
  All = All
  NoLine = NoLine
  OctetBits = 2
  V4Octets = 2
  V6Octets = 3
  Newline = "n"
  Return = "r"
  Capacity = 2
  LineSize = 3
  MaxPrints = 2
  MaxPart = 1
  Words <- MCWords
  Values <- MCValues
  Texts <- MCTexts
  FileLists <- MCFileLists
  Peers <- MCPeers
SPECIFICATION Spec
CHECK_DEADLOCK FALSE
INVARIANTS
  AccessRight
PROPERTIES
  LineFits
  ImplementsLines
  ReadEnds
