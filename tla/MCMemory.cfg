\* Readings, stage releases, degradation and the accounting fault on a budget of three units.
SPECIFICATION Spec
CONSTANTS
  Classes <- MemoryClasses
  Policy <- MemoryPolicy
  Specs <- MemorySpecs
  Caps = {"k"}
  CapLimit <- MemoryCaps
  MaxCpuUnits = 0
  MaxMemUnits = 3
  BytesPerUnit = 2
  UnitDomain = 3
  Roots = {"a", "b", "c", "d"}
  Ops = {"a", "b", "c", "d"}
  Stages = {"s"}
  MaxIds = 3
  MaxTerminal = 1
  Threads = {t1}
  PromotionBudget = 1
  StaleAfter = {}
  Readings = {0, 5, 7}
  Freed = {1}
  Epochs = {0, 1}
  StageSeqs = {1}
  EpochMax = 2
  MaxTime = 0
  Calls = {"release"}
  Declared = {}
  ParentsWait = FALSE
INVARIANTS TypeOK UnitsExact
PROPERTIES GrantsFitMemory FaultStops LedgersMoveForward
