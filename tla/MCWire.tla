------------------------------- MODULE MCWire -------------------------------
EXTENDS Wire

\* A segment without its ports
Seg(flags, seqno, ackno, win, payload) ==
  [header |-> [sport |-> 0, dport |-> 0, seqno |-> seqno, ackno |-> ackno, doff |-> 5,
               flags |-> flags, win |-> win, cksum |-> 0, uptr |-> 0],
   payload |-> payload]

\* A SYN, the extreme numbers with an odd payload that ends in zero, a reset
MCSegments ==
  {Seg({"syn"}, <<65535, 65535>>, <<0, 0>>, 137, <<>>),
   Seg({"ack", "psh", "fin"}, <<0, 0>>, <<65535, 1>>, 65535, <<255, 255, 0>>),
   Seg({"rst", "syn"}, <<1, 0>>, <<0, 0>>, 0, <<>>)}

MCMaxWrites == [udp |-> 3, tun |-> 2, tap |-> 2]
=============================================================================
