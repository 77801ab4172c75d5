\* An awaited child queued behind a stranger that waits for its parent.
SPECIFICATION Spec
CONSTANTS
  Classes <- PromotionClasses
  Policy <- StrangerPolicy
  Specs <- StrangerSpecs
  Caps = {"x", "y"}
  CapLimit <- StrangerCaps
  MaxCpuUnits = 0
  MaxMemUnits = 0
  BytesPerUnit = 1
  UnitDomain = 1
  Roots = {"p", "z"}
  Ops = {"p", "z", "c"}
  Stages = {"s"}
  MaxIds = 3
  MaxTerminal = 1
  Threads = {t1, t2}
  PromotionBudget = 1
  StaleAfter = {}
  Readings = {}
  Freed = {}
  Epochs = {}
  StageSeqs = {}
  EpochMax = 1
  MaxTime = 0
  Calls = {"release"}
  Declared = {}
  ParentsWait = TRUE
INVARIANTS NoDeclaredDeadlock
