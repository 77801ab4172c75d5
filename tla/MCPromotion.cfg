\* Two threads, two classes over two pools, one grant per promotion pass.
SPECIFICATION Spec
CONSTANTS
  Classes <- PromotionClasses
  Policy <- PromotionPolicy
  Specs <- PromotionSpecs
  Caps = {"x", "y"}
  CapLimit <- PromotionCaps
  MaxCpuUnits = 2
  MaxMemUnits = 0
  BytesPerUnit = 1
  UnitDomain = 1
  Roots = {"a", "b", "c", "d"}
  Ops = {"a", "b", "c", "d"}
  Stages = {"s"}
  MaxIds = 5
  MaxTerminal = 1
  Threads = {t1, t2}
  PromotionBudget = 1
  StaleAfter = {}
  Readings = {}
  Freed = {}
  Epochs = {}
  StageSeqs = {}
  EpochMax = 1
  MaxTime = 0
  Calls = {"abandon", "release"}
  Declared = {}
  ParentsWait = FALSE
SYMMETRY ThreadSymmetry
INVARIANTS CapacityBounded NoRunnableStranded FifoWithinDomain
