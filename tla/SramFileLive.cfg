SPECIFICATION FairSpec
CONSTANTS
  None = None
  Cut = Cut
  Mixed = Mixed
  CHUNKS = 2
  SRAM_FLUSH_IDLE_FRAMES = 2
  SRAM_FLUSH_MAX_FRAMES = 3
  MaxVersion = 4
  MaxFaults = 1
  ThreadMayFail = TRUE
PROPERTIES WrittenOrTold
