\* A root, nested awaited children and a stranger contending for one pool and CPU.
SPECIFICATION Spec
CONSTANTS
  Classes <- NestedClasses
  Policy <- NestedPolicy
  Specs <- NestedSpecs
  Caps = {"k"}
  CapLimit <- NestedCaps
  MaxCpuUnits = 3
  MaxMemUnits = 0
  BytesPerUnit = 1
  UnitDomain = 1
  Roots = {"g", "z"}
  Ops = {"g", "p", "c", "d", "e", "z"}
  Stages = {"s", "u", "v"}
  MaxIds = 4
  MaxTerminal = 1
  Threads = {t1, t2}
  PromotionBudget = 1
  StaleAfter = {}
  Readings = {}
  Freed = {}
  Epochs = {}
  StageSeqs = {}
  EpochMax = 1
  MaxTime = 0
  Calls = {"abandon", "release"}
  Declared = {}
  ParentsWait = FALSE
SYMMETRY ThreadSymmetry
INVARIANT IdentityExact
PROPERTY BoundCyclesTerminated
