---------------------------- MODULE Reassembler -----------------------------
(***************************************************************************)
(* The abstract reassembler as a state machine: substrings of one stream   *)
(* arrive in any order, overlapping and again, and the application reads.  *)
(* Byte k of the stream is the number k.                                   *)
(***************************************************************************)
EXTENDS ReassemblerOps

CONSTANT StreamLen   \* length of the stream the sender transmits

VARIABLE re

Init == re = NewReassembler

Text(index, len) == [k \in 1 .. len |-> index + k - 1]

\* The flag eof comes only with a substring that ends the stream.
Push(index, len, eof) ==
  /\ index + len <= StreamLen
  /\ eof => index + len = StreamLen
  /\ re' = push_substring(re, Text(index, len), index, eof)

Pop(n) ==
  /\ n <= output_buffer_size(re)
  /\ re' = output_pop(re, n)

Next == \/ \E index \in 0 .. StreamLen, len \in 0 .. StreamLen, eof \in BOOLEAN :
             Push(index, len, eof)
        \/ \E n \in 1 .. StreamLen : Pop(n)

Spec == Init /\ [][Next]_re
=============================================================================
