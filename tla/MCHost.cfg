SPECIFICATION Spec
CONSTANTS
  Subs <- MCSubs
  Plans <- MCPlans
  Slots = 1
  MaxTime <- MCMaxTime
  Outsiders = {"sweep", "embedder", "fault"}
  Tenants <- MCTenants
INVARIANTS
  TypeOK
  LeaseHasOneOwner
  WorkCharged
  NothingStranded
  ResultAfterRelease
  RefusedNeverRan
  ParkedIsWoken
PROPERTY OkIsOnTime
