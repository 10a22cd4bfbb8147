SPECIFICATION Spec
CONSTANTS
  WordBits = 4
  CORES_PER_TILE = 8
  LineBytes = 32
  ByteBits = 2
  WordCount = 16
  numInputChannels = 8
  numInstructionChannels = 2
  indexBits = 3
  Addresses = {0, 4, 36, 100, 288}
  TileWidths = {1, 2, 3}
  CoreCounts = {1, 3, 8}
  MemoryCounts = {2, 4, 8}
INVARIANT InstructionsSurvive
INVARIANT ValuesSurvive
CHECK_DEADLOCK FALSE
