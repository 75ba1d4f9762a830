-------------------------------- MODULE Wire --------------------------------
(***************************************************************************)
(* Three hosts whose TCP stacks write segments through their adapters: a   *)
(* client and another host, both of which want to talk to a server that    *)
(* listens.  What the adapters send are bytes.  The network may deliver    *)
(* them late, in any order, more than once or never, and it may damage a   *)
(* packet: change a byte, or cut off the end (not of a UDP payload).       *)
(***************************************************************************)
EXTENDS Adapters, FiniteSets

CONSTANTS Kinds,      \* the adapters explored: "udp", "tun", "tap"
          Segments,   \* the segments a stack may write, ports unset
          Cuts,       \* the lengths to which a packet may be cut
          Changes,    \* what may be added to a byte, modulo 256
          MaxWrites,  \* bound: segments the hosts write in total, by kind
          Tick        \* milliseconds of a call of tick

ASSUME WireAssumption ==
  /\ Kinds \subseteq {"udp", "tun", "tap"}
  /\ Cuts \subseteq Nat /\ Changes \subseteq 1 .. 255
  /\ \A k \in Kinds : MaxWrites[k] \in Nat /\ Tick \in Nat

Names == {"client", "server", "other"}

VARIABLES kind,     \* which adapter the hosts use
          adapter,  \* the adapter of each host
          net,      \* the packets that may arrive: [by, to, bytes]
          wrote,    \* the segments each host's stack wrote
          got       \* the segments each adapter handed to its stack

vars == <<kind, adapter, net, wrote, got>>

IP(n)   == <<2560, CASE n = "client" -> 1 [] n = "server" -> 2 [] n = "other" -> 3>>
Eth(n)  == <<2, 0, 0, 0, 0, IP(n)[2]>>
At(n)   == [ip |-> IP(n), port |-> IF n = "server" THEN 80 ELSE 1000]
Unbound == [ip |-> <<0, 0>>, port |-> 0]

\* The configuration: a server is bound to a port, at any address of its host.
Config(n) == IF n = "server"
             THEN [source |-> [Unbound EXCEPT !.port = 80], destination |-> Unbound]
             ELSE [source |-> At(n), destination |-> At("server")]

\* listen_and_accept sets the listening flag; the others connect.
NewAdapter(n) ==
  [listening |-> n = "server", source |-> Config(n).source, destination |-> Config(n).destination,
   ni  |-> NewInterface(Eth(n), IP(n)),
   hop |-> IF n = "server" THEN IP("client") ELSE IP("server")]

Init == /\ kind \in Kinds
        /\ adapter = [n \in Names |-> NewAdapter(n)]
        /\ net = {}
        /\ wrote = [n \in Names |-> <<>>]
        /\ got = [n \in Names |-> {}]

\* UDPSocket: a datagram goes to one address, and comes with its sender's.
sendto(n, destination, payload) == [by |-> n, to |-> destination, bytes |-> payload]
recv(p) == [from |-> At(p.by), payload |-> p.bytes]

\* What host n sends; a device has no use for the address.
Packets(n, a, sent) == {sendto(n, a.destination, sent[k]) : k \in DOMAIN sent}

\* A stack in LISTEN writes nothing.
write(n, seg, drop) ==
  LET a == adapter[n]
      w == CASE kind = "udp" -> udp_write(a, seg)
             [] kind = "tun" -> tun_write(a, seg)
             [] kind = "tap" -> eth_write(a, seg)
      l == lossy_write(a, w, drop)
  IN  /\ ~a.listening /\ MapThenSumSet(LAMBDA m : Len(wrote[m]), Names) < MaxWrites[kind]
      /\ wrote' = [wrote EXCEPT ![n] = Append(@, with_ports(a, seg))]
      /\ adapter' = [adapter EXCEPT ![n] = l.adapter]
      /\ net' = net \union Packets(n, a, l.sent)
      /\ UNCHANGED <<kind, got>>

\* The kernel hands a UDP datagram to the socket it is addressed to.
Arrives(n, p) == p.by # n /\ (kind = "udp" => p.to = At(n))

\* What the adapter of n makes of the packet
Result(n, p) ==
  CASE kind = "udp" -> udp_read(adapter[n], recv(p))
    [] kind = "tun" -> tun_read(adapter[n], p.bytes)
    [] kind = "tap" -> eth_read(adapter[n], p.bytes)

read(n, p) ==
  /\ Arrives(n, p)
  /\ \E r \in {Result(n, p)}, drop \in BOOLEAN :
       /\ adapter' = [adapter EXCEPT ![n] = r.adapter]
       /\ net' = net \union Packets(n, adapter[n], r.sent)
       /\ got' = [got EXCEPT ![n] = @ \union ToSet(lossy_read(r, drop).segs)]
  /\ UNCHANGED <<kind, wrote>>

tick(n) ==
  /\ kind = "tap" /\ \A m \in Names : adapter[m].ni.now = 0   \* bound: one tick
  /\ LET t == eth_tick(adapter[n], Tick)
     IN  /\ adapter' = [adapter EXCEPT ![n] = t.adapter]
         /\ net' = net \union Packets(n, adapter[n], t.sent)
  /\ UNCHANGED <<kind, wrote, got>>

\* A frame with an ARP message, which no checksum protects, is not damaged.
IsARP(p) == kind = "tap" /\ p.bytes[14] = TYPE_ARP % 256

\* The packet p as it may arrive: intact, with a byte changed, or cut short
Arrivals(p) ==
  {p} \union IF IsARP(p) THEN {}
             ELSE {[p EXCEPT !.bytes[i] = (@ + d) % 256] : i \in DOMAIN p.bytes, d \in Changes}
      \union IF IsARP(p) \/ kind = "udp" THEN {}
             ELSE {[p EXCEPT !.bytes = SubSeq(@, 1, n)] : n \in {m \in Cuts : m < Len(p.bytes)}}

\* bound: over Ethernet, where every frame reaches everyone, two hosts take part
Present == IF kind = "tap" THEN Names \ {"other"} ELSE Names

Next == \E n \in Present :
          \/ \E seg \in Segments, drop \in BOOLEAN : write(n, seg, drop)
          \/ \E p \in net : \E q \in Arrivals(p) : read(n, q)
          \/ tick(n)

Spec == Init /\ [][Next]_vars

-----------------------------------------------------------------------------
\* The host whose address the adapter a sends to
Peer(a) == {n \in Names : At(n) = a.destination}

Same(s, t) == /\ tcp_header_equal(s.header, t.header)
              /\ s.header.sport = t.header.sport /\ s.header.dport = t.header.dport
              /\ s.payload = t.payload

\* Whatever an adapter hands over was written to it by its peer, with every
\* field, flag and byte as written.  A damaged packet gets through only where
\* the damage touches nothing of the segment, although the errors of the IPv4
\* header are not looked at; and a server that has taken one peer for its SYN
\* hears nobody else, on the same port or not.
HandsOverWhatPeerWrote ==
  \A n \in Names : \A s \in got[n] :
    \E m \in Peer(adapter[n]) : \E k \in DOMAIN wrote[m] :
      Same(s, wrote[m][k]) /\ s.header.dport = At(n).port

\* A SYN without a reset
Opening(seg) == "syn" \in seg.header.flags /\ "rst" \notin seg.header.flags

\* n takes packet p: it comes from its peer or, while n listens, from a host
\* that wrote nothing but openings.
Welcome(n, p) == /\ p.to = At(n) /\ ~IsARP(p)
                 /\ IF adapter[n].listening
                    THEN \A k \in DOMAIN wrote[p.by] : Opening(wrote[p.by][k])
                    ELSE p.by \in Peer(adapter[n])

\* An undamaged packet that an adapter should take gets through, and one
\* segment its stack wrote comes out: serializing and parsing are inverse to
\* each other, extreme numbers and odd lengths included, and no check or
\* filter on the way refuses it.
IntactGetsThrough ==
  \A n \in Names : \A p \in {q \in net : Welcome(n, q)} :
    \E s \in ToSet(Result(n, p).segs), k \in DOMAIN wrote[p.by] : Same(s, wrote[p.by][k])

\* A listening adapter stops listening only for a host that wrote it a SYN
\* without a reset, and then answers from the address that host had called,
\* whatever else and whoever else reaches it first.
ListensUntilSyn ==
  [][\A n \in Names : adapter[n].listening /\ ~adapter'[n].listening =>
       /\ kind # "udp" => adapter'[n].source = At(n)
       /\ \E m \in Peer(adapter'[n]) : \E k \in DOMAIN wrote[m] : Opening(wrote[m][k])]_vars
=============================================================================
