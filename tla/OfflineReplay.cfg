SPECIFICATION Spec
CONSTANTS
  MaxRecords = 3
  IoFaults <- ToleratedFaults
  MaxUplink = 1
  MaxInvocations = 1
  BatchRecords = 2
  MaxSamples = 3
VIEW LiveState
INVARIANTS
  NoUnacknowledgedLoss
  PendingIsHead
  OldestFirst
  CountMatchesJournal
PROPERTY
  ImplementsStoreAndForward
