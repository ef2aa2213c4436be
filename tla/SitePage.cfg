\* One visit with two pasted words, one printed byte, a resize and two failures.
CONSTANTS
  Windows <- McWindows
  Pastes <- McPastes
  Prints = {97, 255}
  MaxTyped = 2
  MaxSent = 1
  MaxProbes = 2
  MaxResizes = 1
  MaxFaults = 2
\* The page waits for ever once the user stops typing.
CHECK_DEADLOCK FALSE
SPECIFICATION FairSpec
INVARIANTS
  HiddenMeansBooting StuckIsSaid UrlsCarryTheId DataRaisesIrq KeysArrive OutputShown
PROPERTIES Boots KeysAreRead
