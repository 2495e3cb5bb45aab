SPECIFICATION Spec
CONSTANTS
  None = None
  Cut = Cut
  Mixed = Mixed
  CHUNKS = 2
  SRAM_FLUSH_IDLE_FRAMES = 3
  SRAM_FLUSH_MAX_FRAMES = 5
  MaxVersion = 4
  MaxFaults = 2
  ThreadMayFail = TRUE

PROPERTIES ExitKeepsTheSave
