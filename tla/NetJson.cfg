\* An interface disappears while its directory is open.
CONSTANTS
  Names <- TwoNames
  Lo = "lo"
  QueueCap = 1
  MaxChanges = 1
  MaxFaults = 0
CHECK_DEADLOCK FALSE
SPECIFICATION Spec
INVARIANT EmitsJson
