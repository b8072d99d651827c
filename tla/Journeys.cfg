SPECIFICATION MCSpec
CONSTANTS
  WantsJourney = {ann}
  WantsDaily = {bob}
  Readers = {r}
  Closers = {s}
  StopDelay = 2
  Inactivity = 3
  MinMoving = 1
  MovementGuard = 1
  CounterGrace = 1
  CounterWait = 1
  UpdateAttempts = 2
  LastReport = 4
  LastTick = 7
  MaxBacklog = 2
  MaxTroubles = 1
  Scripts <- Stories
  LastVehicle = 2
  LastValue <- TwoThenOne
  MaxFailures = 2
  MaxClients = 2
  MaxLists = 1
  MaxChanges = 1
CHECK_DEADLOCK FALSE
INVARIANTS
  TypesOK
  ClosedOnce
  ShortStopDoesNotSplit
  JourneyIsRecorded
  PageShowsSelected
PROPERTY
  JourneyEnds
  PageCatchesUp
