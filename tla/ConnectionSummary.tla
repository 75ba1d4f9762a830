------------------------- MODULE ConnectionSummary --------------------------
(***************************************************************************)
(* A TCPConnection as its socket sees it: how much it holds and whether it *)
(* is active, without sequence numbers and times.  What a method does then *)
(* depends on what is left out, so each is the set of its outcomes.  The   *)
(* state t is a record:                                                    *)
(*   syn       whether the own SYN was not "sent", is unacked, or "acked"  *)
(*   heard     whether the peer's SYN arrived                              *)
(*   stream    bytes in stream_in() not yet sent                           *)
(*   ended     stream_in().input_ended();  fin, whether the FIN was sent   *)
(*   flight    bytes_in_flight() # 0                                       *)
(*   inb       bytes in stream_out();  in_end, its input_ended()           *)
(*   error     the error flag of both streams                              *)
(*   linger    linger_after_streams_finish_                                *)
(*   segs      whether segments_out() holds something                      *)
(***************************************************************************)
EXTENDS Integers

CONSTANTS SEND_CAPACITY,  \* capacities of the two streams
          RECV_CAPACITY

ASSUME SummaryAssumption == {SEND_CAPACITY, RECV_CAPACITY} \subseteq Nat \ {0}

NewSummary ==
  [syn |-> "closed", heard |-> FALSE, stream |-> 0, ended |-> FALSE, fin |-> FALSE,
   flight |-> FALSE, inb |-> 0, in_end |-> FALSE, error |-> FALSE, linger |-> TRUE,
   segs |-> FALSE]

remaining_outbound_capacity(t) == SEND_CAPACITY - t.stream

out_eof(t) == t.ended /\ t.stream = 0
in_eof(t)  == t.in_end /\ t.inb = 0

active(t) == \/ t.linger
             \/ (t.flight \/ ~out_eof(t)) /\ ~t.error
             \/ ~in_eof(t) /\ ~t.error

\* state() is SYN_SENT; it is LISTEN, SYN_RCVD or SYN_SENT
syn_sent(t) == ~t.error /\ t.linger /\ t.syn = "sent" /\ ~t.heard
opening(t)  == ~t.error /\ t.linger /\ t.syn # "acked" /\ ~t.in_end

\* fill_window sends the SYN if that is still to do, k bytes and perhaps the FIN.
sends(t, k, fin) == t.syn = "closed" \/ k > 0 \/ fin

sent(t, k, fin) ==
  [t EXCEPT !.syn    = IF @ = "closed" THEN "sent" ELSE @,
            !.stream = @ - k,
            !.fin    = @ \/ fin,
            !.flight = @ \/ sends(t, k, fin),
            !.segs   = @ \/ sends(t, k, fin)]

\* It sends what the window allows; with nothing in flight that is something.
filled(t) ==
  LET due == ~t.flight /\ t.syn # "closed" /\ (t.stream > 0 \/ (t.ended /\ ~t.fin))
  IN  {sent(t, c[1], c[2]) : c \in {d \in (0 .. t.stream) \X BOOLEAN :
                                      /\ d[2] => t.ended /\ ~t.fin /\ d[1] = t.stream
                                      /\ due => sends(t, d[1], d[2])}}

\* ack_received: nothing new, part or all of what is in flight
acked(t) ==
  {t} \union IF t.flight
             THEN {[t EXCEPT !.syn = "acked"], [t EXCEPT !.syn = "acked", !.flight = FALSE]}
             ELSE {}

\* What the sender makes of a segment that is not a reset; the peer's SYN
\* makes it fill the window.
answered(t) ==
  (IF t.heard THEN {t} ELSE {}) \union UNION {filled(u) : u \in acked(t)}

reset(t) == [t EXCEPT !.error = TRUE, !.linger = FALSE]

\* The receiver takes n bytes and perhaps the end of the stream; fin says that
\* the segment had a FIN.  One that takes sequence numbers is always answered.
taken(t, n, end, fin, reply) ==
  [t EXCEPT !.heard = TRUE, !.inb = @ + n, !.in_end = @ \/ end,
            !.linger = @ /\ (fin => out_eof(t)),
            !.segs = @ \/ reply \/ n > 0 \/ fin \/ end]

\* segment_received, with no more than left bytes of the peer still to come.
\* Without a SYN a segment is ignored; the SYN is answered.
segment_received(t, left) ==
  (IF t.heard THEN {} ELSE {t})
  \union {reset(t)}
  \union
  UNION {{taken(u, n, end, fin, reply) :
            n \in {m \in 0 .. left : m + t.inb <= RECV_CAPACITY /\ (t.in_end => m = 0)},
            end \in BOOLEAN, fin \in BOOLEAN, reply \in {b \in BOOLEAN : t.heard \/ b}} :
           u \in answered(t)}

write(t, n) ==
  IF t.ended THEN {t} ELSE filled([t EXCEPT !.stream = @ + n])

end_input_stream(t) ==
  IF t.ended THEN {t} ELSE filled([t EXCEPT !.ended = TRUE])

\* tick: time may have come to retransmit, to give up with an RST, or for the
\* lingering to end.
tick(t) ==
  LET late    == {t} \union IF t.flight THEN {[t EXCEPT !.segs = TRUE], [reset(t) EXCEPT !.segs = TRUE]} ELSE {}
      over(u) == out_eof(u) /\ in_eof(u) /\ u.linger
  IN  late \union {[u EXCEPT !.linger = FALSE] : u \in {v \in late : over(v)}}
=============================================================================
