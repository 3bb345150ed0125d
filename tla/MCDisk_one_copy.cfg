\* Two processes read the same block.
CONSTANTS
  Callers = {c1, c2}
  NBUF = 2
  Blocks = {1}
  Values = {0}
  Zero = 0
  NUM = 6
  IdxWrap = 6
  MaxHeld = 1
SPECIFICATION Spec
INVARIANTS
  OneCopy
