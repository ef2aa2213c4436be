\* Three changes with a local server and a failure; two with three visits.
CONSTANT Budgets <- McBudgets
\* Nobody has to visit, edit or deploy.
CHECK_DEADLOCK FALSE
SPECIFICATION Spec
INVARIANTS BootsTheDeployed ServesItsPage
PROPERTY DeployedIsWhole
