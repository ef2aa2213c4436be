CONSTANTS
  Names <- MCNames
  Indexes <- MCIndexes
  Requests <- MCRequests
  Skips <- MCSkips
SPECIFICATION Spec
INVARIANT InstalledAreSkipped
CHECK_DEADLOCK FALSE
