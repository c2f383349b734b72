SPECIFICATION ServicesSpec
CONSTANTS
  BaroCallers = {"main", "smp"}
  Alts = {1, 2}
  Period = 2
  PollPeriod = 2
  MaxRead = 3
  MaxTime = 11
  Starters = {"main", "button"}
  Days = {1, 2}
  Ids = {1, 2, 3}
  PageSize = 2
  ListMaxDates = 2
  ListMaxPerDate = 2
  MaxSessions = 3
  Values = {1}
  AskedSets <- MCAskedSets
  MaxResets = 2
  MaxLost = 3
  Bodies <- MCBodies
  RingBytes = 2
  MaxPayload = 6
  MaxLine = 12
  MaxFrames = 3
  MaxGaps = 1
INVARIANT DeletedIsGone
CHECK_DEADLOCK FALSE
