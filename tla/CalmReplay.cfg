SPECIFICATION CalmSpec
CONSTANTS
  MaxRecords = 2
  IoFaults = {}
  MaxUplink = 1
  MaxInvocations = 1
  BatchRecords = 1
  MaxSamples = 2
PROPERTY
  JournalDrains
