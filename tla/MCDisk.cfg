\* One process in the file system, the cache smaller than the disk.
CONSTANTS
  Callers = {c1}
  NBUF = 2
  Blocks = {1, 2, 3}
  Values = {0, 1}
  Zero = 0
  NUM = 3
  IdxWrap = 6
  MaxHeld = 2
SPECIFICATION FairSpec
INVARIANTS
  TypeOK
  OneCopy
  QuietBetweenCalls
  RingIntact
  RecyclesLongestIdle
PROPERTIES
  HeldIsStable
  ImplementsBlockStore
  CallsReturn
