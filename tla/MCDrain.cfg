SPECIFICATION DrainSpec
CONSTANTS
  Subs <- MCSubs
  Plans <- MCPlans
  Slots = 1
  MaxTime = 1
  Outsiders = {"embedder"}
  Tenants <- MCTenants
  Drainers <- MCDrainers
  Timeouts <- MCTimeouts
INVARIANTS
  DrainedIsIdle
  DrainNotStranded
PROPERTIES
  DrainCompletes
  DrainSeesTheEnd
  DrainReturns
  BoundedCallerAnswered
  OrphanedRuntimeEnds
