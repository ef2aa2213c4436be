\* Three interfaces, a socket that holds one notification.
CONSTANTS
  Names <- McNames
  Lo = "lo"
  QueueCap = 1
  MaxChanges = 2
  MaxFaults = 1
\* The daemon waits for ever when nothing changes.
CHECK_DEADLOCK FALSE
SPECIFICATION FairSpec
INVARIANTS NothingMissed DefaultIsUp
PROPERTY CatchesUp
