CONSTANTS
  NPorts = 3
  Sata = {0, 2}
  Mbr <- MCMbr
  MBR_ENTRY_COUNT = 3
  SectorSize = 2
  REGION_MAX = 2
  MAX_ENTRIES = 4
  COUNT_MOD = 4
  BLOCK_DEV_MAX = 5
  Requests <- MCRequests
  MaxReads = 2
SPECIFICATION Spec
INVARIANTS
  ReadDelivers
  RegistryInOrder
PROPERTIES
  DmaOnlyDuringCall
  CallsReturn
