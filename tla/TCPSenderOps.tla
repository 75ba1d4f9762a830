---------------------------- MODULE TCPSenderOps ----------------------------
(***************************************************************************)
(* libsponge/tcp_sender.{hh,cc}: the methods of TCPSender as functions of  *)
(* its state, so that a TCPConnection handler can call several in a row.   *)
(* The state s is a record:                                                *)
(*   isn               isn_                                                *)
(*   next, acked       next_seqno_ and seqno_acked_ (absolute)             *)
(*   win               window_size_                                        *)
(*   sent_fin          sent_fin_                                           *)
(*   buffer            buffer_: the outstanding segments with their start  *)
(*   running,rto,waited  timer_                                            *)
(*   retx              consecutive_retransmissions_                        *)
(*   written,read,ended,error  stream_, the outgoing ByteStream            *)
(*   out               segments_out_                                       *)
(* buffer_ is a deque in order of start; it is modelled by the set of its  *)
(* elements, its front being the one with the least start.                 *)
(***************************************************************************)
EXTENDS Integers, Sequences, TCPSegment, WrappingIntegers

CONSTANTS MAX_PAYLOAD_SIZE,  \* TCPConfig::MAX_PAYLOAD_SIZE
          RT_TIMEOUT,        \* initial_rto_
          SEND_CAPACITY      \* capacity of stream_

ASSUME SenderAssumption ==
  /\ MAX_PAYLOAD_SIZE \in Nat \ {0}
  /\ RT_TIMEOUT \in Nat \ {0}
  /\ SEND_CAPACITY \in Nat \ {0}

SegmentType ==
  [seqno : Seqno, syn : BOOLEAN, fin : BOOLEAN, rst : BOOLEAN, ack : BOOLEAN,
   ackno : Nat, win : Nat, from : Nat, len : Nat]

SenderType ==
  [isn : Seqno, next : Nat, acked : Nat, win : Nat, sent_fin : BOOLEAN,
   buffer : SUBSET [start : Nat, seg : SegmentType],
   running : BOOLEAN, rto : Nat, waited : Nat, retx : Nat,
   written : Nat, read : Nat, ended : BOOLEAN, error : BOOLEAN,
   out : Seq(SegmentType)]

min(a, b) == IF a < b THEN a ELSE b
max(a, b) == IF a > b THEN a ELSE b

NewSender(isn) ==
  [isn |-> isn, next |-> 0, acked |-> 0, win |-> 1, sent_fin |-> FALSE,
   buffer |-> {}, running |-> FALSE, rto |-> 0, waited |-> 0, retx |-> 0,
   written |-> 0, read |-> 0, ended |-> FALSE, error |-> FALSE, out |-> <<>>]

bytes_in_flight(s) == s.next - s.acked
buffer_size(s)     == s.written - s.read
stream_eof(s)      == s.ended /\ buffer_size(s) = 0

\* The window to fill: a closed one still lets one sequence number through, so
\* that its answer tells when it opens.
window_NoProbe(s) == s.win
window(s)         == max(1, s.win)

\* stream_in().write: as many of the n bytes as fit
stream_write(s, n) ==
  [s EXCEPT !.written = @ + min(n, SEND_CAPACITY - buffer_size(s))]

-----------------------------------------------------------------------------
\* The room the window leaves for a segment that starts at next
room_IgnoresFlight(s) == window(s)
room(s) == window(s) - (s.next - s.acked)

\* Whether the FIN goes into a segment with this much room left: all that is
\* buffered has to go with it.  The room is unsigned: with a window of one the
\* SYN leaves none, and room - 1 wraps around.
fin_fits_TooEarly(s, left) == ~s.sent_fin /\ s.ended
fin_fits_OffByOne(s, left) ==
  ~s.sent_fin /\ s.ended /\ buffer_size(s) < min((left - 1) % Mod64, MAX_PAYLOAD_SIZE)
fin_fits(s, left) ==
  ~s.sent_fin /\ s.ended /\ buffer_size(s) <= min((left - 1) % Mod64, MAX_PAYLOAD_SIZE)

\* One round of fill_window's loop: a segment that starts at next, unless it
\* would be empty.
assemble_segment(s) ==
  LET syn  == s.next = 0
      left == IF syn THEN room(s) - 1 ELSE room(s)
      fin  == fin_fits(s, left)
      len  == min(IF fin THEN (left - 1) % Mod64 ELSE left,
                  min(buffer_size(s), MAX_PAYLOAD_SIZE))
      seg  == Segment(wrap(s.next, s.isn), syn, fin, s.read, len)
      size == length_in_sequence_space(seg)
  IN  [s EXCEPT !.sent_fin = @ \/ fin,
                !.read     = @ + len,
                !.next     = @ + size,
                !.buffer   = IF size = 0 THEN @
                             ELSE @ \union {[start |-> s.next, seg |-> seg]},
                !.out      = IF size = 0 THEN @ ELSE Append(@, seg)]

\* The loop of fill_window on pairs <<state, whether the loop was left>>
FillStep(p) ==
  IF p[2] \/ p[1].next >= p[1].acked + window(p[1])
  THEN p
  ELSE LET s == assemble_segment(p[1]) IN <<s, buffer_size(s) = 0>>

FillLoop == INSTANCE Iteration WITH Step <- FillStep

\* The timer starts when it was stopped and something is outstanding
start_if_stopped_Always(s) ==
  IF ~s.running
  THEN [s EXCEPT !.running = TRUE, !.rto = RT_TIMEOUT, !.waited = 0]
  ELSE s
start_if_stopped(s) ==
  IF ~s.running /\ s.buffer # {}
  THEN [s EXCEPT !.running = TRUE, !.rto = RT_TIMEOUT, !.waited = 0]
  ELSE s

\* Every round but the last takes at least one sequence number, so window(s)
\* rounds finish the loop.
fill_window(s) ==
  start_if_stopped(FillLoop!Iterates(<<s, FALSE>>)[window(s)][1])

-----------------------------------------------------------------------------
end_of(o) == o.start + length_in_sequence_space(o.seg)

clear_buffer_ByStart(s) ==
  LET left == {o \in s.buffer : o.start >= s.acked}
  IN  [s EXCEPT !.buffer = left, !.running = @ /\ left # {}]
clear_buffer(s) ==
  LET left == {o \in s.buffer : end_of(o) > s.acked}
  IN  [s EXCEPT !.buffer = left, !.running = @ /\ left # {}]

new_ack(s, abs_ackno) ==
  [s EXCEPT !.acked = abs_ackno, !.retx = 0,
            !.running = TRUE, !.rto = RT_TIMEOUT, !.waited = 0]

ack_received_AnyAck(s, ackno, window_size) ==
  LET abs_ackno == unwrap(ackno, s.isn, s.acked)
  IN  clear_buffer([new_ack(s, abs_ackno) EXCEPT !.win = window_size])
ack_received(s, ackno, window_size) ==
  LET abs_ackno == unwrap(ackno, s.isn, s.acked)
      t         == IF abs_ackno > s.acked THEN new_ack(s, abs_ackno) ELSE s
  IN  IF abs_ackno > s.next
      THEN s
      ELSE clear_buffer([t EXCEPT !.win = window_size])

front(s) == CHOOSE o \in s.buffer : \A p \in s.buffer : o.start <= p.start

retransmit(s) ==
  LET backoff == s.win # 0
  IN  [s EXCEPT !.rto    = IF backoff THEN 2 * @ ELSE @,
                !.retx   = IF backoff THEN @ + 1 ELSE @,
                !.waited = 0,
                !.out    = Append(@, front(s).seg)]

\* time_waited_ of a stopped timer is never read before start() clears it, so
\* only a running timer counts.
sender_tick(s, ms) ==
  LET t == IF s.running THEN [s EXCEPT !.waited = @ + ms] ELSE s
  IN  IF t.running /\ t.rto <= t.waited THEN retransmit(t) ELSE t

send_empty_segment(s) ==
  [s EXCEPT !.out = Append(@, Segment(wrap(s.next, s.isn), FALSE, FALSE, s.read, 0))]
=============================================================================
