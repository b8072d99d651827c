SPECIFICATION MCSpec
CONSTANTS
  Minute = 2
  MotionInterval = 2
  FirstSecond = 3
  LastSecond = 5
  MaxRecords = 2
  PutsFail = TRUE
  ClockWidth = 8
  ConnectTimeout = 2
  RetryInterval = 3
  HomeScanInterval = 3
  StableInterval = 1
  JoinTime = 1
  ScanTime = 1
  Configurations <- ProfileSets
  Surroundings <- Places
INVARIANTS
  AdapterTypeOK
  ReplayedRowsAreTrue
  ZeroIsKept
  OpenDriveIsRemembered
  SetupIsReachable
  ConnectsInTime
VIEW MCView
CHECK_DEADLOCK FALSE
