CONSTANTS
  Disk <- MCDisk
  BLOCK_SIZE = 2
  NDIRECT = 2
  NPTRS = 2
  INODES_PER_GROUP = 4
  GROUPS = 2
  INODES_PER_BLOCK = 2
  Inode_table <- MCInode_table
  NAME_MOD = 3
  Devices <- MCDevices
  Paths <- MCPaths
  Tree <- MCTree
  Contents <- MCContents
  Faults <- MCFaults
  Counts = {1, 4}
  Seeks <- MCSeeks
  MaxFiles = 1
  MAX_ENTRIES = 3
  BiosEntries = 4
  Mbr <- MCMbr
  Kernels <- MCKernels
  KernelBytes <- MCContents
  HEAP_SIZE = 10
  BLOCK_SECTORS = 2
SPECIFICATION Spec
CHECK_DEADLOCK FALSE
INVARIANTS
  MapLengthKept
  KernelHandedOver
  ReadsRight
  OpensRight
  CacheFaithful
  HeapAccounted
  MountGoesOn
