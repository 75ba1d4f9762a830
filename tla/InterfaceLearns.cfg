CONSTANTS
  ARP_TIME_LIMIT = 2
  IP_TO_ETHERNET_LIMIT = 3
  Hosts = {1}
  NumCards = 2
  Ticks = {1, 2}
  MaxTime = 5
  MaxDatagrams = 3
  Announcers = {1}
SPECIFICATION Spec
INVARIANTS LearnsMapping
