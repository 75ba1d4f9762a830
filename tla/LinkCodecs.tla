----------------------------- MODULE LinkCodecs -----------------------------
(***************************************************************************)
(* tcp_helpers/ethernet_header, ethernet_frame and arp_message, in the     *)
(* manner of Codecs.  The type of a frame and the opcode of a message are  *)
(* the numbers on the wire.                                                *)
(***************************************************************************)
EXTENDS Codecs

TYPE_IPv4 == 2048   \* 0x800
TYPE_ARP  == 2054   \* 0x806

OPCODE_REQUEST == 1
OPCODE_REPLY   == 2

Address == <<1, 1, 1, 1, 1, 1>>   \* the widths of an Ethernet address

EthernetWidths == Address \o Address \o <<2>>

\* A frame that is too short leaves the header as it was, and the parser is not
\* told.
ethernet_header_parse(p) ==
  LET q == parse_ints(p, EthernetWidths)
      v == q.read
      no_address == <<0, 0, 0, 0, 0, 0>>
  IN  IF Len(p.buf) < 14
      THEN [header |-> [dst |-> no_address, src |-> no_address, type |-> 0], parser |-> p]
      ELSE [header |-> [dst |-> SubSeq(v, 1, 6), src |-> SubSeq(v, 7, 12), type |-> v[13]],
            parser |-> q]

ethernet_header_serialize(h) == unparse_ints(h.dst \o h.src \o <<h.type>>, EthernetWidths)

ethernet_frame_parse(buffer) ==
  LET h == ethernet_header_parse(NetParser(buffer))
  IN  [header |-> h.header, payload |-> h.parser.buf, result |-> h.parser.err]

ethernet_frame_serialize(f) == ethernet_header_serialize(f.header) \o f.payload

-----------------------------------------------------------------------------
ARPWidths == <<2, 2, 1, 1, 2>>
ARPAddressWidths == Address \o <<4>> \o Address \o <<4>>

\* Hardware type, protocol type, the sizes of the addresses and the opcode
supported(v) == SubSeq(v, 1, 4) = <<1, TYPE_IPv4, 6, 4>> /\ v[5] \in {OPCODE_REQUEST, OPCODE_REPLY}

arp_parse(buffer) ==
  LET q == parse_ints(NetParser(buffer), ARPWidths)
      r == parse_ints([q EXCEPT !.read = <<>>], ARPAddressWidths)
      v == r.read
  IN  IF Len(buffer) < 28 THEN [result |-> "PacketTooShort"]
      ELSE IF ~supported(q.read) THEN [result |-> "Unsupported"]
      ELSE [opcode |-> q.read[5], sender_eth |-> SubSeq(v, 1, 6), sender_ip |-> v[7],
            target_eth |-> SubSeq(v, 8, 13), target_ip |-> v[14], result |-> r.err]

arp_serialize(m) ==
  unparse_ints(<<1, TYPE_IPv4, 6, 4, m.opcode>>, ARPWidths)
  \o unparse_ints(m.sender_eth \o <<m.sender_ip>> \o m.target_eth \o <<m.target_ip>>,
                  ARPAddressWidths)
=============================================================================
