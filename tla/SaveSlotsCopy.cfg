SPECIFICATION Spec
CONSTANTS
  Mixed = Mixed
  N = 2
  CHUNKS = 3
  SRAM_FLUSH_IDLE_FRAMES = 3
  SRAM_FLUSH_MAX_FRAMES = 12
  MaxVersion = 3
  Ahead = 1
  MaxRestarts = 0
  MaxMissed = 1
  PlaysOn = FALSE
PROPERTIES CopyCopies
