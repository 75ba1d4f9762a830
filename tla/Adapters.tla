------------------------------ MODULE Adapters ------------------------------
(***************************************************************************)
(* The datagram adapters between TCPSpongeSocket and the network:          *)
(* tcp_helpers/fd_adapter, tcp_over_ip, tuntap_adapter and lossy_fd_adapter*)
(* An adapter a is a record:                                               *)
(*   listening            _listen                                          *)
(*   source, destination  of the config: [ip, port]                        *)
(*   ni, hop              _interface and _next_hop, over Ethernet only     *)
(* A read gives the adapter, the segments handed over (one or none) and    *)
(* the packets it sent; a write gives the adapter and the packets.         *)
(***************************************************************************)
EXTENDS LinkCodecs, NetworkInterfaceOps

Read(a, segs, sent) == [adapter |-> a, segs |-> segs, sent |-> sent]
Ignored(a) == Read(a, <<>>, <<>>)

\* A listening adapter takes as its peer the sender of a SYN.
opens_Any(seg) == "rst" \notin seg.header.flags
opens(seg) == "syn" \in seg.header.flags /\ "rst" \notin seg.header.flags

with_ports(a, seg) ==
  [seg EXCEPT !.header.sport = a.source.port, !.header.dport = a.destination.port]

-----------------------------------------------------------------------------
\* TCPOverUDPSocketAdapter; a datagram is [from, payload].
udp_read(a, dgram) ==
  LET seg == tcp_segment_parse(dgram.payload, 0)
  IN  IF \/ ~a.listening /\ dgram.from # a.destination
         \/ seg.result # NoError
         \/ a.listening /\ ~opens(seg)
      THEN Ignored(a)
      ELSE Read([a EXCEPT !.listening = FALSE, !.destination = dgram.from], <<seg>>, <<>>)

udp_write(a, seg) ==
  [adapter |-> a, sent |-> <<tcp_segment_serialize(with_ports(a, seg), 0)>>]

-----------------------------------------------------------------------------
\* TCPOverIPv4Adapter
wrap_tcp_in_ip(a, seg) ==
  LET s == with_ports(a, seg)
      h == NewIPv4Header(a.source.ip, a.destination.ip, 20 + s.header.doff * 4 + Len(s.payload))
  IN  [header |-> h, payload |-> tcp_segment_serialize(s, pseudo_cksum(h))]

from_peer(a, d) == d.header.dst = a.source.ip /\ d.header.src = a.destination.ip

unwrap_tcp_in_ip(a, d) ==
  LET seg    == tcp_segment_parse(d.payload, pseudo_cksum(d.header))
      locked == [a EXCEPT !.listening   = FALSE,
                          !.source      = [ip |-> d.header.dst, port |-> a.source.port],
                          !.destination = [ip |-> d.header.src, port |-> seg.header.sport]]
      after  == IF a.listening THEN locked ELSE a
  IN  IF \/ ~a.listening /\ ~from_peer(a, d)
         \/ d.header.proto # PROTO_TCP
         \/ seg.result # NoError
         \/ seg.header.dport # a.source.port
         \/ a.listening /\ ~opens(seg)
      THEN Ignored(a)
      ELSE Read(after, IF seg.header.sport = after.destination.port THEN <<seg>> ELSE <<>>, <<>>)

\* TCPOverIPv4OverTunFdAdapter
tun_read(a, buffer) ==
  LET d == ipv4_datagram_parse(buffer)
  IN  IF d.result # NoError THEN Ignored(a) ELSE unwrap_tcp_in_ip(a, d)

tun_write(a, seg) ==
  [adapter |-> a, sent |-> <<ipv4_datagram_serialize(wrap_tcp_in_ip(a, seg))>>]

-----------------------------------------------------------------------------
\* TCPOverIPv4OverEthernetAdapter.  The frames of the NetworkInterface hold
\* datagrams and messages; on the way to the device they become bytes.
Encoded(frame) ==
  LET ipv4 == frame.type = "IPv4"
      arp  == [frame.payload EXCEPT !.opcode = IF @ = "request" THEN OPCODE_REQUEST ELSE OPCODE_REPLY]
  IN  ethernet_frame_serialize(
        [header  |-> [dst |-> frame.dst, src |-> frame.src,
                      type |-> IF ipv4 THEN TYPE_IPv4 ELSE TYPE_ARP],
         payload |-> IF ipv4 THEN ipv4_datagram_serialize(frame.payload) ELSE arp_serialize(arp)])

\* The frame with its payload as recv_frame parses it, by its type
Decoded(f) ==
  [dst     |-> f.header.dst,
   src     |-> f.header.src,
   type    |-> CASE f.header.type = TYPE_IPv4 -> "IPv4"
                 [] f.header.type = TYPE_ARP  -> "ARP"
                 [] OTHER -> "other",
   payload |-> CASE f.header.type = TYPE_IPv4 -> ipv4_datagram_parse(f.payload)
                 [] f.header.type = TYPE_ARP  -> arp_parse(f.payload)
                 [] OTHER -> [result |-> NoError]]

\* The frames left in frames_out() go to the device.
send_pending(a) ==
  [adapter |-> [a EXCEPT !.ni.out = <<>>],
   sent    |-> [k \in DOMAIN a.ni.out |-> Encoded(a.ni.out[k])]]

\* The datagram the interface returned, if any, after p was sent
eth_unwrap(p, up) ==
  LET r == unwrap_tcp_in_ip(p.adapter, up[1])
  IN  IF up = <<>> THEN Read(p.adapter, <<>>, p.sent) ELSE Read(r.adapter, r.segs, p.sent)

eth_receive(a, frame) ==
  LET parses == frame.payload.result = NoError
  IN  eth_unwrap(send_pending([a EXCEPT !.ni = recv_frame(@, frame, parses)]),
                 received(a.ni, frame, parses))

eth_read(a, buffer) ==
  LET f == ethernet_frame_parse(buffer)
  IN  IF f.result # NoError THEN Ignored(a) ELSE eth_receive(a, Decoded(f))

eth_tick(a, ms) == send_pending([a EXCEPT !.ni = interface_tick(@, ms)])

eth_write(a, seg) ==
  send_pending([a EXCEPT !.ni = send_datagram(@, wrap_tcp_in_ip(a, seg), a.hop)])

-----------------------------------------------------------------------------
\* LossyFdAdapter: a segment may be dropped once the adapter below has read
\* it, and before it is written.
lossy_read(r, drop) == IF drop THEN [r EXCEPT !.segs = <<>>] ELSE r
lossy_write(a, w, drop) == IF drop THEN [adapter |-> a, sent |-> <<>>] ELSE w
=============================================================================
