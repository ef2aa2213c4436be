\* Two overlapping install-recipe commands.
CHECK_DEADLOCK FALSE
SPECIFICATION Spec
CONSTANTS
  Procs = {p1, p2}
  Pkgs = {"app", "lib"}
  MaxVersion = 1
  Deps <- McDeps
  Pinned = {}
  Commands = {"install-recipe"}
  Serial = FALSE
  MaxRuns = 2
INVARIANTS AckedStayRecorded
