SPECIFICATION Spec
CONSTANTS
  Minute = 2
  MotionInterval = 2
  FirstSecond = 2
  LastSecond = 5
  MaxRecords = 3
  PutsFail = FALSE
INVARIANT
  DriveEndsInZero
