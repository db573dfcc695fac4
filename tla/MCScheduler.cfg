\* Nearly two and a half days; the longer table exceeds the limit of three records.
CONSTANTS
  atMidnight = atMidnight
  atLast = atLast
  startup1 = startup1
  startup2 = startup2
  atSunrise = atSunrise
  noSun = noSun
  Entries <- MCEntries
  Kind <- MCKind
  Minutes <- MCMinutes
  SunTime <- MCSunTime
  NoSun = noSun
  Tables <- MCTables
  Limit = 3
  Hour = 3
  Day = 6
  MaxTime = 14
SPECIFICATION SchSpec
INVARIANTS
PROPERTIES
  NothingMissed
  RunOnce
  StartupRuns
