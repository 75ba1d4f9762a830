------------------------ MODULE NetworkInterfaceOps -------------------------
(***************************************************************************)
(* libsponge/network_interface.{hh,cc}: the methods of NetworkInterface as *)
(* functions of its state, so that a Router can call them.  The state i is *)
(* a record:                                                               *)
(*   eth, ip      ethernet_address_ and ip_address_                        *)
(*   map          map_: IP address -> [eth, at]                            *)
(*   arp          already_sent_arp_: IP address -> time                    *)
(*   buffer       buffer_: IP address -> datagrams, in order               *)
(*   now          ms_since_last_tick_, the time since the construction     *)
(*   out          frames_out_                                              *)
(* An Ethernet address is the tuple of its six bytes.                      *)
(***************************************************************************)
EXTENDS Integers, Sequences

CONSTANTS ARP_TIME_LIMIT,        \* 5000 ms
          IP_TO_ETHERNET_LIMIT   \* 30000 ms

ASSUME LimitAssumption ==
  /\ ARP_TIME_LIMIT \in Nat /\ IP_TO_ETHERNET_LIMIT \in Nat
  /\ ARP_TIME_LIMIT < IP_TO_ETHERNET_LIMIT

EMPTY_ADDRESS      == <<0, 0, 0, 0, 0, 0>>
ETHERNET_BROADCAST == <<255, 255, 255, 255, 255, 255>>

NoEntry == [k \in {} |-> 0]   \* an empty map

NewInterface(eth, ip) ==
  [eth |-> eth, ip |-> ip, map |-> NoEntry, arp |-> NoEntry, buffer |-> NoEntry,
   now |-> 0, out |-> <<>>]

\* emplace of the standard maps: an existing entry stays as it is
emplace(f, k, v) ==
  [x \in DOMAIN f \union {k} |-> IF x \in DOMAIN f THEN f[x] ELSE v]

generate_ip_frame(i, dst, dgram) ==
  [dst |-> dst, src |-> i.eth, type |-> "IPv4", payload |-> dgram]

generate_arp_frame(i, dst, ip, opcode) ==
  [dst |-> IF dst = EMPTY_ADDRESS THEN ETHERNET_BROADCAST ELSE dst,
   src |-> i.eth, type |-> "ARP",
   payload |-> [opcode |-> opcode, sender_ip |-> i.ip, sender_eth |-> i.eth,
                target_ip |-> ip, target_eth |-> dst]]

\* Whether the address of ip is known, and whether a request for it is due
known_Forever(i, ip) == ip \in DOMAIN i.map
known(i, ip) ==
  ip \in DOMAIN i.map /\ i.now - i.map[ip].at < IP_TO_ETHERNET_LIMIT

request_due_Once(i, ip) == ip \notin DOMAIN i.arp
request_due(i, ip) ==
  ip \notin DOMAIN i.arp \/ i.now - i.arp[ip] >= ARP_TIME_LIMIT

waiting(i, ip) == IF ip \in DOMAIN i.buffer THEN i.buffer[ip] ELSE <<>>

send_datagram(i, dgram, hop) ==
  IF known(i, hop)
  THEN [i EXCEPT !.out = Append(@, generate_ip_frame(i, i.map[hop].eth, dgram))]
  ELSE LET due == request_due(i, hop)
       IN  [i EXCEPT
             !.out = IF due THEN Append(@, generate_arp_frame(i, EMPTY_ADDRESS, hop, "request"))
                     ELSE @,
             !.arp = IF due THEN emplace(@, hop, i.now) ELSE @,
             !.buffer = [x \in DOMAIN @ \union {hop} |->
                           IF x = hop THEN Append(waiting(i, hop), dgram) ELSE @[x]]]

\* buffer_ once the datagrams for ip were sent
without_KeepsAll(buffer, ip) == buffer
without(buffer, ip) == [x \in DOMAIN buffer \ {ip} |-> buffer[x]]

\* An ARP message that parsed: learn, send what waited, answer a request.
recv_arp(i, msg) ==
  LET ip      == msg.sender_ip
      flushed == [k \in 1 .. Len(waiting(i, ip)) |->
                    generate_ip_frame(i, msg.sender_eth, waiting(i, ip)[k])]
      answer  == IF msg.target_eth = EMPTY_ADDRESS /\ msg.target_ip = i.ip
                 THEN <<generate_arp_frame(i, msg.sender_eth, ip, "reply")>>
                 ELSE <<>>
  IN  [i EXCEPT !.map    = emplace(@, ip, [eth |-> msg.sender_eth, at |-> i.now]),
                !.buffer = without(@, ip),
                !.out    = @ \o flushed \o answer]

for_us(i, frame) == frame.dst \in {i.eth, ETHERNET_BROADCAST}

\* The interface after recv_frame, and the datagrams it returns: one or none.
\* A payload that does not parse is dropped, as is a frame for someone else.
recv_frame(i, frame, parses) ==
  IF for_us(i, frame) /\ parses /\ frame.type = "ARP" THEN recv_arp(i, frame.payload) ELSE i

received(i, frame, parses) ==
  IF for_us(i, frame) /\ parses /\ frame.type = "IPv4" THEN <<frame.payload>> ELSE <<>>

\* ms_since_last_tick_ accumulates, its name notwithstanding.
interface_tick(i, ms) == [i EXCEPT !.now = @ + ms]
=============================================================================
