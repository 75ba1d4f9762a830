-------------------------- MODULE NetworkInterface --------------------------
(***************************************************************************)
(* A NetworkInterface on an Ethernet with other hosts.  Its owner hands it *)
(* datagrams, numbered 1, 2, ..., and sends out its frames after each      *)
(* call.  A host answers the requests for its address and may be given     *)
(* another network card; some hosts also send requests of their own.       *)
(***************************************************************************)
EXTENDS NetworkInterfaceOps

CONSTANTS Hosts,        \* IP addresses of the other hosts
          NumCards,     \* how many network cards the other hosts have
          Ticks,        \* milliseconds between two calls of tick
          MaxTime,      \* bound: time explored
          MaxDatagrams, \* bound: datagrams handed in
          Announcers    \* the hosts that also send ARP requests, unasked

MyEth == <<2, 0, 0, 0, 0, 0>>
MyIP  == 0
Cards == {<<2, 0, 0, 0, 0, n>> : n \in 1 .. NumCards}   \* their Ethernet addresses

ASSUME LanAssumption ==
  /\ MyIP \notin Hosts /\ NumCards \in 1 .. 255
  /\ Ticks \subseteq Nat /\ MaxTime \in Nat /\ MaxDatagrams \in Nat
  /\ Announcers \subseteq Hosts

VARIABLES ni,        \* the interface
          hops,      \* the next hop of each datagram handed in
          sent,      \* the datagrams that left, in order, with their destination
          asked,     \* the hosts that have a request of ours to answer
          heard      \* when ARP last told a host's card

vars == <<ni, hops, sent, asked, heard>>

Never == -1

Init == /\ ni = NewInterface(MyEth, MyIP)
        /\ hops = <<>>
        /\ sent = <<>>
        /\ asked = {}
        /\ heard = [hc \in Hosts \X Cards |-> Never]

IsRequest(frame)  == frame.type = "ARP" /\ frame.payload.opcode = "request"
IsDatagram(frame) == frame.type = "IPv4"
Numbered(frame)   == [dgram |-> frame.payload, dst |-> frame.dst]

\* How many of the frames of one call are datagrams: they come first, since
\* recv_frame sends what waited before it answers.
Datagrams(out) ==
  CHOOSE n \in 0 .. Len(out) : \A k \in 1 .. Len(out) : IsDatagram(out[k]) <=> k <= n

Targets(out) == {out[k].payload.target_ip : k \in {j \in 1 .. Len(out) : IsRequest(out[j])}}

\* The interface goes to i; its frames travel to the hosts, and of the hosts
\* in still the earlier request remains to be answered.
Becomes(i, still) ==
  /\ ni' = [i EXCEPT !.out = <<>>]
  /\ sent' = sent \o [k \in 1 .. Datagrams(i.out) |-> Numbered(i.out[k])]
  /\ asked' = still \union Targets(i.out)

send(hop) ==
  /\ Len(hops) < MaxDatagrams
  /\ hops' = Append(hops, hop)
  /\ Becomes(send_datagram(ni, Len(hops) + 1, hop), asked)
  /\ UNCHANGED heard

ArpFrame(dst, opcode, host, card, ip, eth) ==
  [dst |-> dst, src |-> card, type |-> "ARP",
   payload |-> [opcode |-> opcode, sender_ip |-> host, sender_eth |-> card,
                target_ip |-> ip, target_eth |-> eth]]

\* A frame with an ARP message of host reaches the interface.
Arp(frame, host, card, still) ==
  /\ Becomes(recv_frame(ni, frame, TRUE), still)
  /\ heard' = [heard EXCEPT ![<<host, card>>] = ni.now]
  /\ UNCHANGED hops

answer(host, card) ==
  /\ host \in asked
  /\ Arp(ArpFrame(MyEth, "reply", host, card, MyIP, MyEth), host, card, asked \ {host})

announce(host, card, ip) ==
  /\ Arp(ArpFrame(ETHERNET_BROADCAST, "request", host, card, ip, EMPTY_ADDRESS), host, card, asked)

\* A frame for another card, a datagram, or a payload that does not parse
other_frame(dst, type, parses) ==
  /\ dst = MyEth => type = "IPv4" \/ ~parses
  /\ LET frame == [dst |-> dst, src |-> MyEth, type |-> type, payload |-> 0]
     IN  Becomes(recv_frame(ni, frame, parses), asked)
  /\ UNCHANGED <<hops, heard>>

tick(ms) ==
  /\ ni.now + ms <= MaxTime
  /\ Becomes(interface_tick(ni, ms), asked)
  /\ UNCHANGED <<hops, heard>>

Next == \/ \E hop \in Hosts : send(hop)
        \/ \E host \in Hosts, card \in Cards : answer(host, card)
        \/ \E host \in Announcers, card \in Cards, ip \in Hosts \union {MyIP} :
             announce(host, card, ip)
        \/ \E dst \in Cards \union {MyEth}, type \in {"ARP", "IPv4"}, parses \in BOOLEAN :
             other_frame(dst, type, parses)
        \/ \E ms \in Ticks : tick(ms)

Spec == Init /\ [][Next]_vars

-----------------------------------------------------------------------------
\* A datagram left or waits, once, and those for one next hop leave in the
\* order they were handed in: neither an ARP answer that comes again nor a
\* mapping that expires and is learned again loses, repeats or overtakes one.
InOrderOnce ==
  /\ \A n \in 1 .. Len(hops) :
       \/ \E k \in 1 .. Len(sent) : sent[k].dgram = n
       \/ \E k \in 1 .. Len(waiting(ni, hops[n])) : waiting(ni, hops[n])[k] = n
  /\ \A k, l \in 1 .. Len(sent) :
       k < l /\ hops[sent[k].dgram] = hops[sent[l].dgram] => sent[k].dgram < sent[l].dgram
  /\ \A h \in Hosts : \A l \in 1 .. Len(waiting(ni, h)) :
       /\ \A k \in 1 .. l - 1 : waiting(ni, h)[k] < waiting(ni, h)[l]
       /\ \A k \in 1 .. Len(sent) :
            hops[sent[k].dgram] = h => sent[k].dgram < waiting(ni, h)[l]

\* A datagram goes to a card that an ARP message gave for its next hop less
\* than IP_TO_ETHERNET_LIMIT ago ("active mappings last 30 seconds").
AddressFresh ==
  [][\A k \in Len(sent) + 1 .. Len(sent') :
       LET at == heard'[<<hops'[sent'[k].dgram], sent'[k].dst>>]
       IN  at # Never /\ ni'.now - at < IP_TO_ETHERNET_LIMIT]_vars

\* A datagram waits only while a request for its next hop is to be answered:
\* nothing else makes the interface send it.  This holds for hosts whose ARP
\* messages are answers only.
WaitingIsAsked == \A h \in Hosts \ Announcers : waiting(ni, h) # <<>> => h \in asked

\* network_interface.hh on recv_frame: "If type is ARP reply, learn a mapping
\* from the sender fields".  What was last heard of a host is in the map for
\* as long as mappings last.
LearnsMapping ==
  \A h \in Hosts :
    (\E c \in Cards : heard[<<h, c>>] # Never /\ ni.now - heard[<<h, c>>] < IP_TO_ETHERNET_LIMIT)
      => known(ni, h)
=============================================================================
