\* One command at a time: what holds between commands.
\* The operator may stop issuing commands: no step is then left.
CHECK_DEADLOCK FALSE
SPECIFICATION Spec
CONSTANTS
  Procs = {p1}
  Pkgs = {"app", "lib"}
  MaxVersion = 2
  Deps <- McDeps
  Pinned = {"lib"}
  Commands = {"install", "install-recipe", "uninstall", "reinstall", "upgrade", "system-add"}
  Serial = TRUE
  MaxRuns = 3
INVARIANTS RestConsistent AckedStayRecorded NeverGarbled SnapshotBeforeChange
PROPERTIES UpgradeReachesIndex
