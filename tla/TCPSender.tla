----------------------------- MODULE TCPSender ------------------------------
(***************************************************************************)
(* The TCPSender as TCPConnection drives it: every write, end of input and *)
(* acknowledgment is followed by fill_window, and segments_out_ is emptied *)
(* at the end of every call.  The peer is arbitrary: it may acknowledge    *)
(* any number, again or in any order, with any window.                     *)
(***************************************************************************)
EXTENDS TCPSenderOps

CONSTANTS ISN,         \* our initial sequence number
          Windows,     \* windows the peer advertises (uint16_t, computed with as uint64_t)
          Ticks,       \* milliseconds between two calls of tick
          MaxBytes,    \* bound: bytes the application writes in total
          MaxRetx      \* bound: consecutive retransmissions explored

ASSUME EnvironmentAssumption ==
  /\ ISN \in Seqno
  /\ Windows \subseteq AbsSeqno
  /\ Ticks \subseteq Nat
  /\ MaxBytes \in Nat
  /\ MaxRetx \in Nat
  /\ Mod64 > MAX_PAYLOAD_SIZE

VARIABLES snd,   \* the TCPSender
          wire   \* what the last call put into segments_out_

vars == <<snd, wire>>

Init == /\ snd = NewSender(ISN)
        /\ wire = <<>>

\* The caller moves everything queued to the network.
Sends(s) == /\ snd' = [s EXCEPT !.out = <<>>]
            /\ wire' = s.out

connect == Sends(fill_window(snd))

write(n) ==
  /\ ~snd.ended
  /\ snd.written + n <= MaxBytes
  /\ Sends(fill_window(stream_write(snd, n)))

end_input_stream ==
  /\ ~snd.ended
  /\ Sends(fill_window([snd EXCEPT !.ended = TRUE]))

ack(ackno, window_size) ==
  Sends(fill_window(ack_received(snd, ackno, window_size)))

tick(ms) ==
  /\ snd.retx < MaxRetx
  /\ Sends(sender_tick(snd, ms))

empty_segment == Sends(send_empty_segment(snd))

Next == \/ connect
        \/ \E n \in 1 .. MaxBytes : write(n)
        \/ end_input_stream
        \/ \E ackno \in Seqno, w \in Windows : ack(ackno, w)
        \/ \E ms \in Ticks : tick(ms)
        \/ empty_segment

Spec == Init /\ [][Next]_vars

-----------------------------------------------------------------------------
\* The state of the sender and the emitted segments have their types, the
\* counters of the code stay non-negative, and nothing is left in the queue.
TypeOK == /\ snd \in SenderType
          /\ wire \in Seq(SegmentType)
          /\ snd.out = <<>>

\* The timer runs exactly while something is outstanding.  retransmit() takes
\* buffer_.front() whenever the timer expires and states as its precondition
\* that the buffer is not empty; and outstanding data with a stopped timer
\* would never be sent again.
TimerMatchesBuffer == snd.running <=> snd.buffer # {}

\* Every unacknowledged sequence number belongs to exactly one outstanding
\* segment, and no outstanding segment is wholly acknowledged: whatever the
\* network loses, retransmitting the buffer sends it again.
BufferTilesFlight ==
  /\ \A n \in snd.acked .. snd.next - 1 :
       \E o \in snd.buffer :
         /\ o.start <= n /\ n < end_of(o)
         /\ \A p \in snd.buffer : p.start <= n /\ n < end_of(p) => p = o
  /\ \A o \in snd.buffer : end_of(o) > snd.acked /\ end_of(o) <= snd.next

\* Absolute sequence number of the first payload byte
payload_start(o) == o.start + (IF o.seg.syn THEN 1 ELSE 0)

\* A payload byte sits at the sequence number of its place in the stream (the
\* SYN takes number 0, byte k takes k + 1), the SYN is number 0, and a FIN
\* follows the last byte of an ended stream: an outstanding FIN with bytes
\* still to be sent after it would shift them.
PayloadAligned ==
  \A o \in snd.buffer :
    /\ o.seg.seqno = wrap(o.start, snd.isn)
    /\ o.seg.syn <=> o.start = 0
    /\ payload_start(o) = o.seg.from + 1
    /\ o.seg.fin => /\ snd.ended
                    /\ end_of(o) = snd.written + 2
                    /\ end_of(o) = snd.next

\* What is sent stays inside the window: a step that sends new sequence
\* numbers ends no further than the acknowledged number plus the window last
\* advertised, zero counting as one.  One step leaves it: a stream that has ended
\* when the SYN is sent has its FIN sent along, because the SYN uses up the
\* window and max_segment_size - 1 wraps around.
WindowRespected ==
  [][snd'.next > snd.next => \/ snd'.next <= snd'.acked + window(snd')
                             \/ snd.next = 0 /\ snd'.ended]_vars

\* fill_window sends all it may: once the connection is opened, either the
\* window is full or every byte, and the FIN of an ended stream, is sent.
WindowFilled ==
  snd.next > 0 =>
    \/ snd.next >= snd.acked + window(snd)
    \/ buffer_size(snd) = 0 /\ (snd.ended => snd.sent_fin)

\* The acknowledged number never moves back and never passes what was sent,
\* and the segments left in the buffer never change once sent: an old or an
\* invented acknowledgment undoes nothing.
AckMonotone ==
  [][/\ snd'.acked >= snd.acked
     /\ snd'.acked <= snd'.next
     /\ \A o \in snd.buffer : o \in snd'.buffer \/ end_of(o) <= snd'.acked]_vars

\* u is the number closest to checkpoint that wraps to n, of two equally close
\* ones the larger.
Nearest(u, n, isn, checkpoint) ==
  LET candidates == {x \in AbsSeqno : wrap(x, isn) = n}
  IN  /\ u \in candidates
      /\ \A x \in candidates :
           \/ distance(x, checkpoint) > distance(u, checkpoint)
           \/ distance(x, checkpoint) = distance(u, checkpoint) /\ x <= u

\* The initial sequence numbers with which every sequence number is taken
\* right, at whatever point of the stream
RightIsns ==
  {isn \in Seqno : \A n \in Seqno, checkpoint \in AbsSeqno :
                     Nearest(unwrap(n, isn, checkpoint), n, isn, checkpoint)}

\* wrapping_integers.hh: unwrap returns the absolute sequence number that wraps
\* to n and is closest to checkpoint.  It does so at both ends of the 64-bit
\* range too, where checkpoint - steps and from_next wrap around, so an
\* acknowledgment less than half the modulus away from what was sent is the
\* number the peer meant.
UnwrapIsNearest == snd.isn \in RightIsns
=============================================================================
