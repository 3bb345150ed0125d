\* Two processes, a trap nested in a trap, one byte at the UART.
CONSTANTS
  Procs = {p1, p2}
  Scheduler = sched
  MaxDepth = 2
  MaxRx = 1
SPECIFICATION FairSpec
INVARIANTS
  TypeOK
  VectorMatchesMode
  UserResumes
  SretRestoresStatus
PROPERTIES
  TickHandled
