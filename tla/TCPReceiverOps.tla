--------------------------- MODULE TCPReceiverOps ---------------------------
(***************************************************************************)
(* libsponge/tcp_receiver.{hh,cc}: the methods of TCPReceiver as functions *)
(* of its state.  The state v is a record:                                 *)
(*   isn, has_isn     isn_ and has_isn_                                    *)
(*   ackno            ackno_ (absolute)                                    *)
(*   has_fin,sent_fin has_fin_ and sent_fin_                               *)
(*   re               reassembler_                                         *)
(***************************************************************************)
EXTENDS TCPSegment, WrappingIntegers, ReassemblerOps

NewReceiver ==
  [isn |-> 0, has_isn |-> FALSE, ackno |-> 1, has_fin |-> FALSE,
   sent_fin |-> FALSE, re |-> NewReassembler]

payload(seg) == [k \in 1 .. seg.len |-> seg.from + k - 1]

\* Whether the FIN is acknowledged now: it was seen, and all before it is there
counts_fin_Early(v, has_fin, re) == has_fin /\ ~v.sent_fin
counts_fin(v, has_fin, re) == has_fin /\ ~v.sent_fin /\ re.ended

\* A segment that arrives before any SYN is ignored.  start - 1 is unsigned.
receiver_segment_received(v, seg) ==
  LET isn     == IF seg.syn THEN seg.seqno ELSE v.isn
      first   == IF seg.syn THEN plus(seg.seqno, 1) ELSE seg.seqno
      start   == unwrap(first, isn, v.ackno)
      re      == push_substring(v.re, payload(seg), (start - 1) % Mod64, seg.fin)
      grown   == output_buffer_size(re) - output_buffer_size(v.re)
      has_fin == v.has_fin \/ (seg.fin /\ ~v.sent_fin)
      fin     == counts_fin(v, has_fin, re)
  IN  IF ~(seg.syn \/ v.has_isn)
      THEN v
      ELSE [isn |-> isn, has_isn |-> TRUE,
            ackno |-> v.ackno + grown + (IF fin THEN 1 ELSE 0),
            has_fin |-> has_fin, sent_fin |-> v.sent_fin \/ fin, re |-> re]

\* ackno(), when has_isn holds
receiver_ackno(v) == wrap(v.ackno, v.isn)

window_size(v) == RECV_CAPACITY - output_buffer_size(v.re)
=============================================================================
