CONSTANTS
  ARP_TIME_LIMIT = 1
  IP_TO_ETHERNET_LIMIT = 2
  Kinds = {"udp", "tun", "tap"}
  Segments <- MCSegments
  Cuts = {0, 13, 19, 20, 39, 40, 42}
  MaxWrites <- MCMaxWrites
  Changes = {1, 128}
  Tick = 1
SPECIFICATION Spec
INVARIANTS HandsOverWhatPeerWrote IntactGetsThrough
PROPERTIES ListensUntilSyn
CHECK_DEADLOCK FALSE
