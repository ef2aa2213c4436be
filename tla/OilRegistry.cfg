\* Two commands at a time, three or four in all.
CONSTANTS
  Procs = {"oil1", "oil2"}
  Taps = {"a/b", "a-b"}
  Key <- McKey
  Budgets <- McBudgets
\* Nobody has to run a command.
CHECK_DEADLOCK FALSE
SPECIFICATION Spec
INVARIANTS AnswerIsWhole UpdateIsSeen UpdateMendsTaps TapsKept
