\* Claims, abandonment, leases, waker panics and the leak sweep on one slot.
SPECIFICATION Spec
CONSTANTS
  Classes <- CustodyClasses
  Policy <- CustodyPolicy
  Specs <- CustodySpecs
  Caps = {"k"}
  CapLimit <- CustodyCaps
  MaxCpuUnits = 1
  MaxMemUnits = 0
  BytesPerUnit = 1
  UnitDomain = 1
  Roots = {"a", "b", "c"}
  Ops = {"a", "b", "c"}
  Stages = {"s"}
  MaxIds = 3
  MaxTerminal = 1
  Threads = {t1, t2}
  PromotionBudget = 1
  StaleAfter = {0}
  Readings = {}
  Freed = {1}
  Epochs = {}
  StageSeqs = {0}
  EpochMax = 1
  MaxTime = 1
  Calls = {"claim", "abandon", "release", "close"}
  Declared = {"Accepted", "Running"}
  ParentsWait = FALSE
SYMMETRY ThreadSymmetry
INVARIANTS LedgerExact CustodyExact TicketsExact NoLostWakeup
PROPERTY ImplementsService
