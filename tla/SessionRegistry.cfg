SPECIFICATION FairSpec
CONSTANTS
  Maintenance = Maintenance
  Nobody = Nobody
  NoCoordinator = NoCoordinator
  Tasks = {t1, t2}
  Sessions = {s1, s2}
  Coordinators = {a, b, c}
INVARIANTS
  RegistryInv
PROPERTIES
  RemovedAreFinalised
  IdleAreEvicted
  CloseReturns
