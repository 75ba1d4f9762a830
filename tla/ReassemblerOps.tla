--------------------------- MODULE ReassemblerOps ---------------------------
(***************************************************************************)
(* What a StreamReassembler promises to TCPReceiver, without its list of   *)
(* intervals: the bytes stored are a set of <<index, byte>> pairs.  The    *)
(* state r is a record:                                                    *)
(*   next            next_, the index of the first byte not yet assembled  *)
(*   held            the pairs stored beyond next                          *)
(*   eof, eof_num    eof_ and eof_num_                                     *)
(*   output          all bytes ever written to output_, in order           *)
(*   read            how many of them the application has read             *)
(*   ended, error    output_'s end of input and error flags                *)
(* Module StreamReassembler models the list and is shown to implement this.*)
(***************************************************************************)
EXTENDS Integers, Sequences

CONSTANTS RECV_CAPACITY,   \* capacity_
          SizeMod          \* 2^64: indices are of type size_t

ASSUME CapacityAssumption ==
  RECV_CAPACITY \in Nat \ {0} /\ SizeMod \in Nat /\ SizeMod > RECV_CAPACITY

NewReassembler ==
  [next |-> 0, held |-> {}, eof |-> FALSE, eof_num |-> 0, output |-> <<>>,
   read |-> 0, ended |-> FALSE, error |-> FALSE]

output_buffer_size(r) == Len(r.output) - r.read
unassembled(r)        == {p[1] : p \in r.held}
output_eof(r)         == r.ended /\ r.read = Len(r.output)

\* The first index that does not fit any more
upper(r) == r.next + (RECV_CAPACITY - output_buffer_size(r))

\* As Placed, one index early
Placed_Early(data, index) == {<<index + k - 2, data[k]>> : k \in 1 .. Len(data)}

\* The string data at index, as pairs
Placed(data, index) == {<<index + k - 1, data[k]>> : k \in 1 .. Len(data)}

\* What is stored after data arrived: the bytes inside the window, the ones
\* already stored being kept.
assemble(r, data, index) ==
  r.held \union {p \in Placed(data, index) :
                   /\ r.next <= p[1] /\ p[1] < upper(r)
                   /\ p[1] \notin unassembled(r)}

\* Where the run of stored bytes that starts at next stops
run_end(stored, from) ==
  CHOOSE n \in {from} \union {p[1] + 1 : p \in stored} :
    /\ n >= from
    /\ n \notin {p[1] : p \in stored}
    /\ \A m \in from .. n - 1 : m \in {p[1] : p \in stored}

byte_at(stored, i) == (CHOOSE p \in stored : p[1] = i)[2]

\* check_end_input's condition to end the output
at_end(eof, eof_num, next) == eof /\ eof_num = next

\* assemble, output and check_end_input
push_substring(r, data, index, eof) ==
  LET stored == assemble(r, data, index)
      next   == run_end(stored, r.next)
      last   == IF eof THEN (index + Len(data)) % SizeMod ELSE r.eof_num
  IN  [r EXCEPT !.next    = next,
                !.held    = {p \in stored : p[1] >= next},
                !.output  = @ \o [k \in 1 .. next - r.next |->
                                    byte_at(stored, r.next + k - 1)],
                !.eof     = @ \/ eof,
                !.eof_num = last,
                !.ended   = @ \/ at_end(r.eof \/ eof, last, next)]

\* stream_out().pop_output
output_pop(r, n) == [r EXCEPT !.read = @ + n]
=============================================================================
