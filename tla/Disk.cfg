\* The window and a command line on one drive, an image that is rewritten.
CONSTANTS
  Drives = {"sda"}
  Gui = "gui"
  Clis = {"cli"}
  Capacities = {1, 2}
  MaxSize = 2
  MaxSeq = 2
  MaxGen = 1
  MaxRuns = 2
CHECK_DEADLOCK FALSE
SPECIFICATION Spec
INVARIANTS WritesAlone OnlyConfirmedWritten
PROPERTY SuccessIsWhole
