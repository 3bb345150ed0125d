SPECIFICATION Spec
CONSTANTS
  PGSIZE = 6
  Callers = {"c1", "c2"}
  MaxCalls = 2
  Interval = 5
  UART0 <- MCUart
  PLIC <- MCPlic
  VIRTIO0 <- MCVirtio
  KERNBASE <- MCKernbase
  Layouts <- MCLayouts
  Workloads <- MCWorkloads
INVARIANT TypeOK
 
INVARIANT TablesKept
 
 
PROPERTY BootEnds
