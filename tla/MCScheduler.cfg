SPECIFICATION Spec
CONSTANTS
  Mixes <- MCMixes
  Scale = 2
  MaxTag = 8
  MaxNow = 1
INVARIANTS
  DrrIsRingWalk
  NoWfqDebt
  CreditBounded
PROPERTY NoStarvation
