SPECIFICATION StartSpec
CONSTANTS
  Levels = 3
  Fanout = 3
  PhysFrames = 16
  Root = 0
  HEAP_PAGE = 7
  HEAP_PAGES = 4
  KernelPages = {3}
  Machines <- MCMachines
  virtioBlk = virtioBlk
  otherVendor = otherVendor
  allOnes = allOnes
  wordA = wordA
  wordB = wordB
  Buses = {0, 255}
  Devices = {31}
  Numbers = {0, 7}
  Vendors = {virtioBlk, otherVendor}
  VirtioVendors = {virtioBlk}
  Absent = allOnes
  Offsets = {0, 4, 6, 252}
  Data = {wordA, wordB}
INVARIANTS
  FramesExclusive MappingsKept EnoughMemoryNoPanic
  ScanFindsFirst WritesHitTheirRegister
