------------------------------- MODULE Codecs -------------------------------
(***************************************************************************)
(* The parsers and serializers of libsponge: util/parser, the Internet     *)
(* checksum of util/util, and the headers of tcp_helpers.  A byte is a     *)
(* number in 0 .. 255 and a buffer a sequence of bytes.  A uint32_t is the *)
(* pair of its 16-bit halves, an Ethernet address the tuple of its bytes.  *)
(* A parse function returns what it filled in and, as result, the          *)
(* ParseResult it returns; err is the error kept by the NetParser, which   *)
(* not every result enters.                                                *)
(***************************************************************************)
EXTENDS Integers, Sequences, SequencesExt

NoError == "NoError"

\* A NetParser: the rest of the buffer, its error, and the numbers read so far
NetParser(buffer) == [buf |-> buffer, err |-> NoError, read |-> <<>>]

check_size(p, n) == IF n > Len(p.buf) THEN [p EXCEPT !.err = "PacketTooShort"] ELSE p

remove_prefix(p, n) ==
  LET q == check_size(p, n)
  IN  IF q.err # NoError THEN q ELSE [q EXCEPT !.buf = SubSeq(@, n + 1, Len(@))]

\* The number in n bytes, most significant byte first
Number(b) == CASE Len(b) = 1 -> b[1]
               [] Len(b) = 2 -> 256 * b[1] + b[2]
               [] Len(b) = 4 -> <<256 * b[1] + b[2], 256 * b[3] + b[4]>>

parse_int(p, n) ==
  LET q == check_size(p, n)
  IN  IF q.err # NoError THEN [q EXCEPT !.read = Append(@, Number([i \in 1 .. n |-> 0]))]
      ELSE [q EXCEPT !.buf = SubSeq(@, n + 1, Len(@)), !.read = Append(@, Number(SubSeq(q.buf, 1, n)))]

unparse_int(v, n) ==
  CASE n = 1 -> <<v % 256>>
    [] n = 2 -> <<(v \div 256) % 256, v % 256>>
    [] n = 4 -> <<v[1] \div 256, v[1] % 256, v[2] \div 256, v[2] % 256>>

\* A row of numbers with the given widths
RECURSIVE parse_ints(_, _)
parse_ints(p, widths) ==
  IF widths = <<>> THEN p ELSE parse_ints(parse_int(p, Head(widths)), Tail(widths))
unparse_ints(values, widths) ==
  FlattenSeq([i \in DOMAIN widths |-> unparse_int(values[i], widths[i])])

\* resize: zeros behind s up to length n
Resized(s, n) == [i \in 1 .. n |-> IF i <= Len(s) THEN s[i] ELSE 0]

-----------------------------------------------------------------------------
\* InternetChecksum: the bytes of data in turn high and low
checksum_add(sum, data) ==
  LET added[i \in 0 .. Len(data)] ==
        IF i = 0 THEN sum ELSE added[i - 1] + (IF i % 2 = 1 THEN 256 ELSE 1) * data[i]
  IN  added[Len(data)]

RECURSIVE folded(_)
folded(sum) == IF sum > 65535 THEN folded((sum \div 65536) + (sum % 65536)) ELSE sum

checksum_value(sum) == 65535 - folded(sum)

-----------------------------------------------------------------------------
\* TCPHeader; its flags are the set of those that are on
Flags   == {"urg", "ack", "psh", "rst", "syn", "fin"}
FlagBit == [urg |-> 32, ack |-> 16, psh |-> 8, rst |-> 4, syn |-> 2, fin |-> 1]

FlagsOf(b)    == {f \in Flags : (b \div FlagBit[f]) % 2 = 1}
FlagByte(set) == MapThenSumSet(LAMBDA f : FlagBit[f], set)

TCPWidths == <<2, 2, 4, 4, 1, 1, 2, 2, 2>>

TCPFieldsOf(v) ==
  [sport |-> v[1], dport |-> v[2], seqno |-> v[3], ackno |-> v[4], doff |-> v[5] \div 16,
   flags |-> FlagsOf(v[6]), win |-> v[7], cksum |-> v[8], uptr |-> v[9]]

\* Behind the fields; a data offset below five is reported, but not to the parser.
tcp_options(p, header) ==
  LET r == IF header.doff < 5 THEN p ELSE remove_prefix(p, header.doff * 4 - 20)
  IN  [header |-> header, parser |-> r,
       result |-> IF header.doff < 5 THEN "HeaderTooShort" ELSE r.err]

tcp_fields(p) == tcp_options(p, TCPFieldsOf(p.read))

tcp_header_parse(p) == tcp_fields(parse_ints(p, TCPWidths))

tcp_header_serialize(h) ==
  Resized(unparse_ints(<<h.sport, h.dport, h.seqno, h.ackno, h.doff * 16, FlagByte(h.flags),
                         h.win, h.cksum, h.uptr>>, TCPWidths),
          4 * h.doff)

\* operator==: all but the ports and the checksum
TCPFields == {"seqno", "ackno", "doff", "flags", "win", "uptr"}
tcp_header_equal(g, h) == \A f \in TCPFields : g[f] = h[f]

\* TCPSegment::parse without its checksum
tcp_segment_parse_Unsummed(buffer, pseudo) ==
  LET h == tcp_header_parse(NetParser(buffer))
  IN  [header |-> h.header, payload |-> h.parser.buf, result |-> h.parser.err]

\* The result of the header's parse is not looked at, the parser's error is.
tcp_segment_parse(buffer, pseudo) ==
  LET h == tcp_header_parse(NetParser(buffer))
  IN  [header |-> h.header, payload |-> h.parser.buf,
       result |-> IF checksum_value(checksum_add(pseudo, buffer)) # 0 THEN "BadChecksum"
                  ELSE h.parser.err]

tcp_segment_serialize(seg, pseudo) ==
  LET zeroed == tcp_header_serialize([seg.header EXCEPT !.cksum = 0]) \o seg.payload
      cksum  == checksum_value(checksum_add(pseudo, zeroed))
  IN  tcp_header_serialize([seg.header EXCEPT !.cksum = cksum]) \o seg.payload

-----------------------------------------------------------------------------
\* IPv4Header
IPv4Widths == <<1, 1, 2, 2, 2, 1, 1, 2, 4, 4>>

PROTO_TCP == 6

\* The fields of a header the code fills in with its defaults
NewIPv4Header(src, dst, len) ==
  [ver |-> 4, hlen |-> 5, tos |-> 0, len |-> len, id |-> 0, df |-> TRUE, mf |-> FALSE,
   offset |-> 0, ttl |-> 128, proto |-> PROTO_TCP, cksum |-> 0, src |-> src, dst |-> dst]

ipv4_header_serialize(h) ==
  LET fo == (IF h.df THEN 16384 ELSE 0) + (IF h.mf THEN 8192 ELSE 0) + (h.offset % 8192)
  IN  Resized(unparse_ints(<<h.ver * 16 + h.hlen, h.tos, h.len, h.id, fo, h.ttl, h.proto,
                             h.cksum, h.src, h.dst>>, IPv4Widths),
              4 * h.hlen)

\* As payload_length, without taking the header off
payload_length_Whole(h) == h.len

payload_length(h) == (h.len - 4 * h.hlen) % 65536

pseudo_cksum(h) == h.src[1] + h.src[2] + h.dst[1] + h.dst[2] + h.proto + payload_length(h)

IPv4FieldsOf(v) ==
  [ver |-> v[1] \div 16, hlen |-> v[1] % 16, tos |-> v[2], len |-> v[3], id |-> v[4],
   df |-> (v[5] \div 16384) % 2 = 1, mf |-> (v[5] \div 8192) % 2 = 1,
   offset |-> v[5] % 8192, ttl |-> v[6], proto |-> v[7], cksum |-> v[8],
   src |-> v[9], dst |-> v[10]]

\* What is wrong with the fields h of a datagram of that size
ipv4_error(h, size) ==
  IF size < 4 * h.hlen THEN "PacketTooShort"
  ELSE IF h.ver # 4 THEN "WrongIPVersion"
  ELSE IF h.hlen < 5 THEN "HeaderTooShort"
  ELSE IF size # h.len THEN "TruncatedPacket"
  ELSE NoError

\* p is where the parser was before the header, and q behind the fields h
ipv4_options(p, q, h) ==
  LET error == ipv4_error(h, Len(p.buf))
      sum   == checksum_add(0, SubSeq(p.buf, 1, 4 * h.hlen))
  IN  IF error # NoError THEN [header |-> h, parser |-> q, result |-> error]
      ELSE [header |-> h, parser |-> remove_prefix(q, 4 * h.hlen - 20),
            result |-> IF checksum_value(sum) # 0 THEN "BadChecksum" ELSE NoError]

ipv4_fields(p, q) == ipv4_options(p, q, IPv4FieldsOf(q.read))

\* Of the errors found here none is told to the parser; an unread header keeps
\* its default fields.
ipv4_header_parse(p) ==
  IF Len(p.buf) < 20
  THEN [header |-> NewIPv4Header(<<0, 0>>, <<0, 0>>, 0), parser |-> p, result |-> "PacketTooShort"]
  ELSE ipv4_fields(p, parse_ints(p, IPv4Widths))

\* IPv4Datagram: what the header's parse returned is dropped.
ipv4_datagram_parse(buffer) ==
  LET h == ipv4_header_parse(NetParser(buffer))
  IN  [header |-> h.header, payload |-> h.parser.buf,
       result |-> IF Len(h.parser.buf) # payload_length(h.header) THEN "PacketTooShort"
                  ELSE h.parser.err]

ipv4_datagram_serialize(d) ==
  LET zeroed == ipv4_header_serialize([d.header EXCEPT !.cksum = 0])
      cksum  == checksum_value(checksum_add(0, zeroed))
  IN  ipv4_header_serialize([d.header EXCEPT !.cksum = cksum]) \o d.payload
=============================================================================
