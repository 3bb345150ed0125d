\* init forks two children; all three exit.
CONSTANTS
  NPROC = 3
  NPAGES = 6
  FreePages <- Enough
  ExitCodes = {7}
  Workloads <- JustPair
  MayExit <- AllSlots
  MayWait <- OnlyInit
SPECIFICATION Spec
INVARIANTS
  ExitNeverReturns
