\* One process forks at a time: init, or init and then its child.
CONSTANTS
  NPROC = 3
  NPAGES = 6
  FreePages <- Short
  ExitCodes = {7}
  Workloads <- Families
  MayExit <- Children
  MayWait <- Waiters
SPECIFICATION Spec
INVARIANTS
  TypeOK
  OneRunning
  SwtchKeepsHart
  
  LiveHasPages
  ForkReturnsChild
  
PROPERTIES
  ZombieFrozen
  KeepsFamily
