\* A newcomer against a runnable head of its class in a continuation gap.
SPECIFICATION FairSpec
CONSTANTS
  Classes <- PromotionClasses
  Policy <- OvertakingPolicy
  Specs <- OvertakingSpecs
  Caps = {"x", "y"}
  CapLimit <- OvertakingCaps
  MaxCpuUnits = 2
  MaxMemUnits = 0
  BytesPerUnit = 1
  UnitDomain = 1
  Roots = {"a", "b", "c", "z"}
  Ops = {"a", "b", "c", "z"}
  Stages = {"s"}
  MaxIds = 4
  MaxTerminal = 1
  Threads = {t1, t2}
  PromotionBudget = 1
  StaleAfter = {}
  Readings = {}
  Freed = {}
  Epochs = {}
  StageSeqs = {}
  EpochMax = 1
  MaxTime = 0
  Calls = {"release"}
  Declared = {}
  ParentsWait = FALSE
PROPERTIES RunnableHeadFirst
