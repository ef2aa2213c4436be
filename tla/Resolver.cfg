CONSTANTS
  Names <- MCNames
  Indexes <- MCIndexes
  Requests <- MCRequests
  Skips <- MCSkips
SPECIFICATION FairSpec
INVARIANTS DepsBeforeDependents NoCycleMissed
PROPERTIES KeepsPromise Closer Returns
CHECK_DEADLOCK FALSE
