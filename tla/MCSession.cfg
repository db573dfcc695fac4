\* Two runs, which end, and then nothing happens any more.
CONSTANTS
  c1 = c1
  c2 = c2
  a = a
  b = b
  blank = blank
  long = long
  script = script
  None = None
  Listener = Listener
  TextLines = {a, b, blank, long}
  LineLength <- MCLineLength
  Names = {script}
  MaxLine = 3
  FirstSize = 6
  SizeLimit = 7
  Clients = {c1, c2}
  Plans <- MCPlans
  Stored <- MCStored
  MaxEvents = 4
  MaxFD = 2
  MaxSlow = 1
SPECIFICATION Spec
CHECK_DEADLOCK FALSE
INVARIANTS
  SavedWhole
  AnswerTrue
  BufferHolds
  EntriesLive
PROPERTIES
  Answered
  Forgotten
