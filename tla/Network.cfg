CONSTANTS
  ARP_TIME_LIMIT = 5
  IP_TO_ETHERNET_LIMIT = 30
  WIDTH = 8
  ROUNDS = 6
  ExtraRoutes <- MCExtraRoutes
  MaxRoutes = 1
  MaxSends = 2
SPECIFICATION MCSpec
INVARIANTS CheckPasses InOnePlace OneCopy
PROPERTIES ArrivesUnlessLost
CHECK_DEADLOCK FALSE
