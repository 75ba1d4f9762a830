CONSTANTS
  Mod32 = 16
  Mod64 = 64
  MAX_PAYLOAD_SIZE = 1
  RT_TIMEOUT = 1
  SEND_CAPACITY = 2
  RECV_CAPACITY = 1
  SizeMod = 64
  MAX_RETX_ATTEMPTS = 3
  LINGER_TIMEOUTS = 1
  WinMod = 16
  ISNs <- MCISNs
  Openers = {"A"}
  Closers = {"A", "B"}
  Bytes <- MCBytes
  BytesA = 3
  BytesB = 0
  Ticks = {1}
  MaxNet = 20
  Duplicates = FALSE
  Losses = FALSE
  Timely = TRUE
SPECIFICATION FairSpec
PROPERTIES EventuallyFinished
CHECK_DEADLOCK FALSE
