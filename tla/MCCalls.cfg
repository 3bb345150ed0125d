\* Two processes; two files on the disk at most, two slots of icache, two files of
\* ftable, a descriptor each.
CONSTANTS
  NPROC = 2
  NFILE = 2
  NOFILE = 1
  NB = 3
  NINODES = 3
  NINODE = 2
SPECIFICATION Spec
INVARIANTS
  
  
  OneSlot
  
  
  

  
CHECK_DEADLOCK FALSE
