SPECIFICATION AllSpec
CONSTANTS
\* Pmm
  Space = 16
  Page = 2
  Low = 8
  FourGiB = 12
  EBDA = 7
  ImageEnd = 4
  Slide = 3
  MaxEntries = 9
  E820 <- PmMaps
  Firmware <- PmFirmware
  Chunks = 1
  Chunk = 2
  Slack = 1
  MaxOps = 3
  MaxRetries = 4
\* Executable
  Files <- XFiles
  Top = 64
  Half = 48
  PageW = 2
  RelrBits = 3
  MaxTries = 2
\* LimineReq
  Boots <- LrBoots
  MAX_REQUESTS = 5
\* LimineMap
  Machines <- LmMachines
  Reach = 24
  FourG = 16
  VTop = 32
\* Smp
  Boxes <- SmBoxes
  Cpus = {1, 2, 3}
\* Multiboot
  Loads <- MbLoads
  RamTop = 18
  MbTop = 16
  MbLow = 4
  InfoLoc = 2
  MEMMAP_MAX = 4
INVARIANTS MemoryExact MapHandedOver LoadedExact MappedExact HandedExact
PROPERTIES ToldExact HandoffExact SmpBringUpEnds
CHECK_DEADLOCK FALSE
