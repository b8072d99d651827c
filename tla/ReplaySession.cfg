SPECIFICATION SessionSpec
CONSTANTS
  MaxRecords = 1
  IoFaults = {}
  MaxUplink = 1
  MaxInvocations = 1
  BatchRecords = 1
  MaxSamples = 1
PROPERTY
  LiveBeforeReplay
