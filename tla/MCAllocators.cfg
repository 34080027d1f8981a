SPECIFICATION MCSpec
CONSTANTS
  HEAP_START = 8
  HEAP_SIZE = 28
  NODE_SIZE = 4
  NODE_ALIGN = 2
  BLOCK_SIZES <- MCBlockSizes
  BLOCK_NODE_SIZE = 4
  PAGE_SIZE = 8
  Layouts <- MCLayouts
INVARIANTS
  BumpReset
  RegionsSound LossBounded
  OneOwner ClassMemoryIsPeak ClassBlocksWithinPage
PROPERTIES
  FreedIsReusable
  ImplementsHeap
