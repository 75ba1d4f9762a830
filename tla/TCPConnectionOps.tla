-------------------------- MODULE TCPConnectionOps --------------------------
(***************************************************************************)
(* libsponge/tcp_connection.{hh,cc}: the methods of TCPConnection as       *)
(* functions of its state.  The state c is a record:                       *)
(*   snd, rcv     sender_ and receiver_                                    *)
(*   linger       linger_after_streams_finish_                             *)
(*   time         time_passed                                              *)
(*   out          segments_out_                                            *)
(***************************************************************************)
EXTENDS TCPSenderOps, TCPReceiverOps

CONSTANTS MAX_RETX_ATTEMPTS,  \* TCPConfig::MAX_RETX_ATTEMPTS
          LINGER_TIMEOUTS,    \* the factor 10 of 10 * rt_timeout
          WinMod              \* 2^16: header.win is a uint16_t

ASSUME ConnectionAssumption ==
  /\ MAX_RETX_ATTEMPTS \in Nat
  /\ LINGER_TIMEOUTS \in Nat
  /\ WinMod \in Nat \ {0}

NewConnection(isn) ==
  [snd |-> NewSender(isn), rcv |-> NewReceiver, linger |-> TRUE, time |-> 0,
   out |-> <<>>]

\* The ackno and the window are filled in when a segment leaves the sender.
with_info(rcv, seg) ==
  [seg EXCEPT !.ack   = rcv.has_isn,
              !.ackno = IF rcv.has_isn THEN receiver_ackno(rcv) ELSE @,
              !.win   = window_size(rcv) % WinMod]

send_segment_with_info(c) ==
  [c EXCEPT !.snd.out = <<>>,
            !.out = @ \o [i \in 1 .. Len(c.snd.out) |-> with_info(c.rcv, c.snd.out[i])]]

dirty_abort_Sender(c) == [c EXCEPT !.snd.error = TRUE, !.linger = FALSE]
dirty_abort(c) ==
  [c EXCEPT !.snd.error = TRUE, !.rcv.re.error = TRUE, !.linger = FALSE]

send_rst(c) ==
  LET s == send_empty_segment(c.snd)
  IN  send_segment_with_info(
        [c EXCEPT !.snd = [s EXCEPT !.out[Len(s.out)].rst = TRUE]])

active(c) == \/ c.linger
             \/ (bytes_in_flight(c.snd) # 0 \/ ~stream_eof(c.snd)) /\ ~c.snd.error
             \/ ~output_eof(c.rcv.re) /\ ~c.rcv.re.error

-----------------------------------------------------------------------------
\* What the sender does about a segment once the receiver has an ackno
answer(s, seg) ==
  IF seg.ack THEN fill_window(ack_received(s, seg.ackno, seg.win))
  ELSE IF seg.syn THEN fill_window(s)
  ELSE s

\* An empty segment replies to a keep-alive, and acknowledges what nothing
\* else in the queue would acknowledge.
reply(s, seg, ackno) ==
  LET length == length_in_sequence_space(seg)
      t == IF length = 0 /\ seg.seqno = minus(ackno, 1) THEN send_empty_segment(s) ELSE s
  IN  IF length # 0 /\ t.out = <<>> THEN send_empty_segment(t) ELSE t

\* linger_after_streams_finish_ once seg was handled: a FIN that comes before
\* our own stream was sent to its end clears it.
stays_lingering_NoFin(c, snd, seg)  == c.linger /\ ~seg.fin
stays_lingering(c, snd, seg) == c.linger /\ (seg.fin => stream_eof(snd))

segment_received(c, seg) ==
  LET rcv == receiver_segment_received(c.rcv, seg)
      snd == answer(c.snd, seg)
  IN  IF seg.rst THEN dirty_abort(c)
      ELSE IF ~rcv.has_isn THEN [c EXCEPT !.rcv = rcv]
      ELSE send_segment_with_info(
             [c EXCEPT !.rcv    = rcv,
                       !.snd    = reply(snd, seg, receiver_ackno(rcv)),
                       !.linger = stays_lingering(c, snd, seg),
                       !.time   = 0])

connection_connect(c) ==
  send_segment_with_info([c EXCEPT !.snd = fill_window(@)])

connection_write(c, n) ==
  IF c.snd.ended THEN c
  ELSE send_segment_with_info([c EXCEPT !.snd = fill_window(stream_write(@, n))])

connection_end_input_stream(c) ==
  IF c.snd.ended THEN c
  ELSE send_segment_with_info([c EXCEPT !.snd = fill_window([@ EXCEPT !.ended = TRUE])])

gives_up_AtLimit(s) == s.retx >= MAX_RETX_ATTEMPTS
gives_up(s) == s.retx > MAX_RETX_ATTEMPTS

LingerTime == LINGER_TIMEOUTS * RT_TIMEOUT

\* time_passed is only compared with LingerTime, so it stops counting there.
connection_tick(c, ms) ==
  LET t == [c EXCEPT !.time = min(@ + ms, LingerTime), !.snd = sender_tick(@, ms)]
      u == IF gives_up(t.snd)
           THEN dirty_abort(send_rst([t EXCEPT !.snd.out = <<>>]))
           ELSE t
      lingered == /\ stream_eof(u.snd) /\ output_eof(u.rcv.re)
                  /\ u.linger /\ u.time >= LingerTime
  IN  send_segment_with_info([u EXCEPT !.linger = @ /\ ~lingered])
=============================================================================
