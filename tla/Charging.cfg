SPECIFICATION MCSpec
CONSTANTS
  Users = {ann, bob}
  SocThreshold <- Target
  StopThreshold <- Target
  WantsSoc = {ann}
  WantsStop = {ann}
  WantsSummary = {ann}
  WantsDaily = {bob}
  Invocations = {i1, i2}
  Levels = {0, 1}
  NoSoc = NoSoc
  Qualification = 1
  StopDelay = 1
  SummaryDelay = 1
  SocRefresh = 2
  UpdateAttempts = 2
  LastTick = 3
  MaxBacklog = 2
  MaxTroubles = 1
  Scripts <- Stories
  DailyRuns = {d1, d2}
  DayHours = 2
  ForceHour = 1
  LastHour = 4
  MaxActivities = 2
  Vehicles = {v1}
  Connections = {c1}
  Ingests = {n1, n2}
  NoRow = NoRow
  Reports <- TwoReports
  MaxInvocations = 3
  MaxRequests = 2
SYMMETRY Alike
CHECK_DEADLOCK FALSE
INVARIANTS
  TypesOK
  AtMostOneMail
  CrossingIsMailed
  EndedChargeIsSummarised
  ToldOnce
  SentAtEight
  NewestIsKept
  OnlyViewersAreSent
PROPERTY
  StopIsConfirmed
