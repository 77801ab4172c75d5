CONSTANTS
  MaxSlots = 3
  TopologyInputs <- MCTopologies
  BudgetInputs <- MCBudgets
  ExecutorInputs <- MCExecutors
  ClassInputs <- MCClasses
  SubstrateInputs <- MCSubstrates
  LimitInputs <- MCLimits
  Machines <- MCMachines
  Extended = {0, 1, 2, 6}
  Specs <- MCSpecs
  Submissions <- MCSubmissions
  MaxStack = 2
  MaxRunning = 3
  Configured = {7}
  Tags <- MCTags
  Defects <- MCDefects
  IngressLimits <- MCIngressLimits
  Declarations <- MCDeclarations
SPECIFICATION Spec
CHECK_DEADLOCK FALSE
INVARIANTS
  DeclaredIsLive
  WorkersNotOversubscribed
  PlanHonoursRequest
  IngressExact
