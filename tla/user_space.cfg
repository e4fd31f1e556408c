CONSTANTS
  Fan <- MCFan
  PAGE_SIZE = 2
  Cleans <- MCCleans
  KernelPhys = 8
  KernelPages = 2
  DirectSlot = 2
  KernelSlot = 3
  Devices <- MCDevices
  MaxIoremaps = 1
  Tasks = {1, 2}
  StackBottom = 62
  StackPages = 2
  Programs <- MCPrograms
SPECIFICATION Spec
INVARIANTS
  KernelMappedEverywhere
  UserMappedAsAsked
  UserFramesPrivate
  SegmentsLoaded
  AllocsSorted
