\* user/proczero.c: init forks one child and waits, the child exits.
CONSTANTS
  NPROC = 2
  NPAGES = 4
  FreePages <- Enough
  ExitCodes = {7}
  Workloads <- Proczero
  MayExit <- Children
  MayWait <- OnlyInit
SPECIFICATION FairSpec
PROPERTIES
  ZombieReaped
