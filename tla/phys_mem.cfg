CONSTANTS
  MaxAddr = 24
  KernelStart = 4
  KernelEnd = 6
  PHYS_REGION_MAX_SIZE = 5
  Maps <- MCMaps
  LowEnd = 6
  MaxEntries = 2
  PAGE_SIZE = 2
  BITS = 4
  MIN_USABLE_PADDR = 2
  MaxCount = 3
SPECIFICATION Spec
INVARIANTS
  CleanIsExact
  NoFrameTwice
  OnlyUsableMemory
  ContiguousIsFirstFit
PROPERTY FramesConserved
