CONSTANTS
  None = None
  Days <- MCDays
  DayLen = 8
  Gap = 2
  MinSpan = 2
  Sensors <- MCSensors
  Histories <- MCHistories
  Rules <- MCRules
  DefaultTag = None
  MaxReadings = 3
  MaxCalls = 2
  MaxReloads = 2
  MaxCommands = 1
  MaxFails = 1
  Nothing = Nothing
  Uids <- MCUids
  Timed <- MCTimed
  LastDay = 2
  DayMinutes = 8
  Snap = 2
  MinDuration = 2
  Default = 3
  PlaceFrom = 2
  DropFrom = 4
  DropFloor = 2
  DropTo = 6
  Drags <- MCDrags
  MaxLoads = 3
  MaxGestures = 2
  Saved <- MCSaved
  Clocks <- MCClocks
  OpenSets <- MCOpenSets
SPECIFICATION DaySpec
INVARIANT LaidOut
PROPERTY SessionsHold
PROPERTY ShownCatchesUp
PROPERTY UndoPutsBack
PROPERTY StaysPlanned
CHECK_DEADLOCK FALSE
