\* Several requests that one return makes runnable, one grant per pass, and two threads
\* that keep running whatever work does.
SPECIFICATION CallSpec
CONSTANTS
  Classes <- NestedClasses
  Policy <- ReturnsPolicy
  Specs <- ReturnsSpecs
  Caps = {"k"}
  CapLimit <- NestedCaps
  MaxCpuUnits = 3
  MaxMemUnits = 0
  BytesPerUnit = 1
  UnitDomain = 1
  Roots = {"g", "z"}
  Ops = {"g", "p", "c", "z"}
  Stages = {"s", "u"}
  MaxIds = 4
  MaxTerminal = 1
  Threads = {t1, t2}
  PromotionBudget = 1
  StaleAfter = {}
  Readings = {}
  Freed = {}
  Epochs = {}
  StageSeqs = {}
  EpochMax = 1
  MaxTime = 0
  Calls = {"abandon", "release"}
  Declared = {}
  ParentsWait = FALSE
PROPERTIES EveryCallReturns
