\* A trap nested in the tail of sys_trap_handler.
CONSTANTS
  Procs = {p1, p2}
  Scheduler = sched
  MaxDepth = 2
  MaxRx = 1
SPECIFICATION Spec
INVARIANTS
  SretReturnsToTrap
