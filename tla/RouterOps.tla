------------------------------ MODULE RouterOps -----------------------------
(***************************************************************************)
(* libsponge/router.{hh,cc}: the methods of Router as functions of its     *)
(* state r = [ifs, table]: interfaces_, and table_ as a map from           *)
(* <<prefix, length>> to <<interface, next hop>>.  An                      *)
(* AsyncNetworkInterface is [ni, datagrams_out].  An IP address is a       *)
(* number of WIDTH bits (32 in the program).                               *)
(***************************************************************************)
EXTENDS NetworkInterfaceOps, SequencesExt

CONSTANT WIDTH   \* bits of an IP address

Direct == -1   \* a route without a next hop: the network is attached

NewAsync(eth, ip) == [ni |-> NewInterface(eth, ip), datagrams_out |-> <<>>]

async_recv_frame(a, frame) ==
  [ni |-> recv_frame(a.ni, frame, TRUE),
   datagrams_out |-> a.datagrams_out \o received(a.ni, frame, TRUE)]

NewRouter == [ifs |-> <<>>, table |-> NoEntry]

add_interface(r, a) == [r EXCEPT !.ifs = Append(@, a)]

\* The first len bits of ip, the others zero
masked(ip, len) == (ip \div 2 ^ (WIDTH - len)) * 2 ^ (WIDTH - len)

\* route is [prefix, len, hop, num]
add_route(r, route) ==
  [r EXCEPT !.table = emplace(@, <<masked(route.prefix, route.len), route.len>>,
                              <<route.num, route.hop>>)]

\* The lengths under which the table has an entry for ip
matching(r, ip) == {len \in 0 .. WIDTH : <<masked(ip, len), len>> \in DOMAIN r.table}

\* As longest, the first prefix that fits
longest_First(lens) == Min(lens)

\* The lengths are tried from WIDTH down to 0.
longest(lens) == Max(lens)

\* A datagram whose time to live runs out is dropped.
expired(dgram) == dgram.ttl = 0 \/ dgram.ttl - 1 = 0

route_one_datagram(r, dgram) ==
  LET lens  == matching(r, dgram.dst)
      entry == LET best == longest(lens) IN r.table[<<masked(dgram.dst, best), best>>]
      hop   == IF entry[2] = Direct THEN dgram.dst ELSE entry[2]
  IN  IF expired(dgram) \/ lens = {} THEN r
      ELSE [r EXCEPT !.ifs[entry[1]].ni = send_datagram(@, [dgram EXCEPT !.ttl = @ - 1], hop)]

\* As emptied, leaving the queues as they are
emptied_Not(r) == r
emptied(r) == [r EXCEPT !.ifs = [n \in DOMAIN @ |-> [@[n] EXCEPT !.datagrams_out = <<>>]]]

\* Sending queues nothing in datagrams_out, so the queues are those of the
\* beginning.
route(r) ==
  LET incoming == FlattenSeq([n \in DOMAIN r.ifs |-> r.ifs[n].datagrams_out])
  IN  emptied(FoldLeft(route_one_datagram, r, incoming))
=============================================================================
