\* Two children of init, one of which exits, under fairness.
CONSTANTS
  NPROC = 3
  NPAGES = 6
  FreePages <- Enough
  ExitCodes = {7}
  Workloads <- JustPair
  MayExit <- OnlyOne
  MayWait <- OnlyInit
SPECIFICATION FairSpec
PROPERTIES
  NoStarvation
  ExitWakesParent
