\* A block holds two cells, an inode one direct address: the root grows to its
\* indirect block when it takes its first file, and so does a file of three cells.
\* Seven data blocks are too few for everything.  The bound on calls stops the system.
CONSTANTS
  Names = {"f", "g"}
  Values = {d1, d2}
  Zero = zero
  PB = 2
  NDIRECT = 1
  NB = 7
  NINODES = 4
  NINODE = 3
  NFILE = 2
  NOFILE = 2
  Paths <- MCPaths
  Sizes = {1, 3}
  MaxCalls = 5
  MaxCrash = 1
SPECIFICATION Spec
INVARIANTS
  DiskConsistent
  ReferencesBalance
PROPERTIES
  ImplementsFileStore
CHECK_DEADLOCK FALSE
