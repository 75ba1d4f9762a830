CONSTANTS
  Mod32 = 16
  Mod64 = 64
  MAX_PAYLOAD_SIZE = 2
  RT_TIMEOUT = 2
  SEND_CAPACITY = 3
  ISN = 13
  Windows = {0, 1, 2, 4}
  Ticks = {1, 2}
  MaxBytes = 5
  MaxRetx = 2
SPECIFICATION Spec
INVARIANTS TypeOK TimerMatchesBuffer BufferTilesFlight PayloadAligned WindowFilled UnwrapIsNearest
PROPERTIES WindowRespected AckMonotone
