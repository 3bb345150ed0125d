\* init and its first child fork at the same time.
CONSTANTS
  NPROC = 3
  NPAGES = 6
  FreePages <- Enough
  ExitCodes = {7}
  Workloads <- Racing
  MayExit <- Children
  MayWait <- Waiters
SPECIFICATION Spec
INVARIANTS
  ForkReturnsChild
