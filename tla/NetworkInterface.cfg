CONSTANTS
  ARP_TIME_LIMIT = 2
  IP_TO_ETHERNET_LIMIT = 3
  Hosts = {1, 2}
  NumCards = 2
  Ticks = {1, 2}
  MaxTime = 4
  MaxDatagrams = 3
  Announcers = {2}
SPECIFICATION Spec
INVARIANTS InOrderOnce WaitingIsAsked
PROPERTIES AddressFresh
