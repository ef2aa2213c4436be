\* A public parent and a private child.
CONSTANTS
  N = 2
  Parent <- SmallParent
  Owner <- SmallOwner
  Mode <- SmallMode
  Binds <- SmallBinds
  TornMkdir = TRUE
  MaxFaults = 3
  MaxCustom = 1
SPECIFICATION FairSpec
INVARIANTS BindsWait UnfinishedIsMarked CustomKept HandedOverPrivate
PROPERTY Recovers
