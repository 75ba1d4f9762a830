CONSTANTS
  Mod32 = 16
  Mod64 = 64
  MAX_PAYLOAD_SIZE = 1
  RT_TIMEOUT = 1
  SEND_CAPACITY = 2
  RECV_CAPACITY = 2
  SizeMod = 64
  MAX_RETX_ATTEMPTS = 1
  LINGER_TIMEOUTS = 1
  WinMod = 16
  ISNs <- MCISNs
  Openers = {"A"}
  Closers = {"A", "B"}
  Bytes <- MCBytes
  BytesA = 2
  BytesB = 0
  Ticks = {1}
  MaxNet = 2
  Duplicates = TRUE
  Losses = TRUE
  Timely = FALSE
SPECIFICATION MCSpec
INVARIANTS CleanClose ErrorHasCause AckedMeansReceived
PROPERTIES ImplementsReliableStream SummarySound StreamsFollowDiagram
CHECK_DEADLOCK FALSE
VIEW MCView
