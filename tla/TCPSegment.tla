---------------------------- MODULE TCPSegment ------------------------------
(***************************************************************************)
(* libsponge/tcp_helpers/tcp_segment.{hh,cc} and the fields of tcp_header  *)
(* that the stack reads.  A payload is a run of consecutive bytes of the   *)
(* application's stream: byte number from, from + 1, ... from + len - 1.   *)
(* A byte is known by its number, so a payload placed at the wrong         *)
(* sequence number is told apart from one placed at the right one.         *)
(***************************************************************************)
EXTENDS Integers

Segment(seqno, syn, fin, from, len) ==
  [seqno |-> seqno, syn |-> syn, fin |-> fin, rst |-> FALSE,
   ack |-> FALSE, ackno |-> 0, win |-> 0, from |-> from, len |-> len]

length_in_sequence_space(seg) ==
  seg.len + (IF seg.syn THEN 1 ELSE 0) + (IF seg.fin THEN 1 ELSE 0)
=============================================================================
