---------------------------- MODULE ByteStreamOps ---------------------------
(***************************************************************************)
(* libsponge/byte_stream.{hh,cc}: the methods of a ByteStream over its     *)
(* RingBuffer, as functions of its state s:                                *)
(*   front, size, capacity, queue    the RingBuffer rb_                    *)
(*   total_read, total_write         total_read_ and total_write_          *)
(*   eof_input, error                eof_input_ and error_                 *)
(* queue is indexed from 0 as in the code.                                 *)
(***************************************************************************)
EXTENDS Integers, Sequences

NewByteStream(capacity) ==
  [front |-> 0, size |-> 0, capacity |-> capacity, queue |-> [i \in 0 .. capacity - 1 |-> 0],
   total_read |-> 0, total_write |-> 0, eof_input |-> FALSE, error |-> FALSE]

min(a, b) == IF a < b THEN a ELSE b

remaining_capacity(s) == s.capacity - s.size

\* As push_back_n, without the part that wraps
push_back_n_NoWrap(s, data, length) ==
  LET start == (s.front + s.size) % s.capacity
  IN  [s EXCEPT !.queue = [i \in DOMAIN @ |->
                             IF i >= start /\ i < start + length THEN data[i - start + 1] ELSE @[i]],
                !.size = @ + length]

\* The first length bytes of data, in one piece or wrapped to the start of queue
push_back_n(s, data, length) ==
  LET start      == (s.front + s.size) % s.capacity
      len_to_end == min(length, s.capacity - start)
  IN  [s EXCEPT !.queue = [i \in DOMAIN @ |->
                             IF i >= start /\ i < start + len_to_end THEN data[i - start + 1]
                             ELSE IF i < length - len_to_end THEN data[len_to_end + i + 1]
                             ELSE @[i]],
                !.size = @ + length]

pop_front_n(s, n) == [s EXCEPT !.front = (@ + n) % s.capacity, !.size = @ - n]

\* As peek_front_n, without the part that wraps
peek_front_n_NoWrap(s, length) ==
  [k \in 1 .. min(length, s.capacity - s.front) |-> s.queue[s.front + k - 1]]

peek_front_n(s, length) ==
  LET len_to_end == min(length, s.capacity - s.front)
  IN  [k \in 1 .. length |-> IF k <= len_to_end THEN s.queue[s.front + k - 1]
                             ELSE s.queue[k - len_to_end - 1]]

\* write takes what fits.
write(s, data) ==
  LET size == min(Len(data), remaining_capacity(s))
  IN  [push_back_n(s, data, size) EXCEPT !.total_write = @ + size]

peek_output(s, len) == peek_front_n(s, len)

pop_output(s, len) == [pop_front_n(s, len) EXCEPT !.total_read = @ + len]

end_input(s) == [s EXCEPT !.eof_input = TRUE]

stream_eof(s) == s.eof_input /\ s.total_read = s.total_write

\* The bytes in the ring, oldest first
Contents(s) == [k \in 1 .. s.size |-> s.queue[(s.front + k - 1) % s.capacity]]
=============================================================================
