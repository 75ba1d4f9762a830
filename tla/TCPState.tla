------------------------------- MODULE TCPState ------------------------------
(***************************************************************************)
(* libsponge/tcp_helpers/tcp_state.{hh,cc}: what the sender, the receiver  *)
(* and the two flags of a TCPConnection say about it, and the official TCP *)
(* states this is compared with.                                           *)
(***************************************************************************)
EXTENDS TCPConnectionOps

sender_summary(s) ==
  IF s.error THEN "ERROR"
  ELSE IF s.next = 0 THEN "CLOSED"
  ELSE IF s.next = bytes_in_flight(s) THEN "SYN_SENT"
  ELSE IF ~stream_eof(s) \/ s.next < s.written + 2 THEN "SYN_ACKED"
  ELSE IF bytes_in_flight(s) # 0 THEN "FIN_SENT"
  ELSE "FIN_ACKED"

receiver_summary(r) ==
  IF r.re.error THEN "ERROR"
  ELSE IF ~r.has_isn THEN "LISTEN"
  ELSE IF r.re.ended THEN "FIN_RECV"
  ELSE "SYN_RECV"

state(c) == [sender |-> sender_summary(c.snd), receiver |-> receiver_summary(c.rcv),
             active |-> active(c), linger |-> active(c) /\ c.linger]

\* A state as it is on the way to or from an ordinary end
Open(sender, receiver, linger) ==
  [sender |-> sender, receiver |-> receiver, active |-> TRUE, linger |-> linger]

Official ==
  [LISTEN      |-> Open("CLOSED", "LISTEN", TRUE),
   SYN_RCVD    |-> Open("SYN_SENT", "SYN_RECV", TRUE),
   SYN_SENT    |-> Open("SYN_SENT", "LISTEN", TRUE),
   ESTABLISHED |-> Open("SYN_ACKED", "SYN_RECV", TRUE),
   CLOSE_WAIT  |-> Open("SYN_ACKED", "FIN_RECV", FALSE),
   LAST_ACK    |-> Open("FIN_SENT", "FIN_RECV", FALSE),
   CLOSING     |-> Open("FIN_SENT", "FIN_RECV", TRUE),
   FIN_WAIT_1  |-> Open("FIN_SENT", "SYN_RECV", TRUE),
   FIN_WAIT_2  |-> Open("FIN_ACKED", "SYN_RECV", TRUE),
   TIME_WAIT   |-> Open("FIN_ACKED", "FIN_RECV", TRUE),
   RESET       |-> [Open("ERROR", "ERROR", FALSE) EXCEPT !.active = FALSE],
   CLOSED      |-> [Open("FIN_ACKED", "FIN_RECV", FALSE) EXCEPT !.active = FALSE]]

\* The arrows of the TCP state diagram; from every state there is one to RESET.
Arrows ==
  {<<"LISTEN", "SYN_SENT">>, <<"LISTEN", "SYN_RCVD">>, <<"SYN_SENT", "SYN_RCVD">>,
   <<"SYN_SENT", "ESTABLISHED">>, <<"SYN_RCVD", "ESTABLISHED">>, <<"SYN_RCVD", "FIN_WAIT_1">>,
   <<"ESTABLISHED", "FIN_WAIT_1">>, <<"ESTABLISHED", "CLOSE_WAIT">>, <<"CLOSE_WAIT", "LAST_ACK">>,
   <<"FIN_WAIT_1", "FIN_WAIT_2">>, <<"FIN_WAIT_1", "CLOSING">>, <<"FIN_WAIT_1", "TIME_WAIT">>,
   <<"FIN_WAIT_2", "TIME_WAIT">>, <<"CLOSING", "TIME_WAIT">>, <<"TIME_WAIT", "CLOSED">>,
   <<"LAST_ACK", "CLOSED">>}

Names(s) == {n \in DOMAIN Official : Official[n] = s}

\* The states whose two streams are as in s, whether or not the connection lingers
StreamNames(s) ==
  {n \in DOMAIN Official : Official[n].sender = s.sender /\ Official[n].receiver = s.receiver}

\* From one of the states from to one of the states to along an arrow or two:
\* the acknowledgment of a SYN may come with a FIN, or when the application has
\* already ended its stream.
Follows(from, to) ==
  \/ "RESET" \in to
  \/ \E m \in from, n \in to :
       \/ <<m, n>> \in Arrows
       \/ \E k \in DOMAIN Official : <<m, k>> \in Arrows /\ <<k, n>> \in Arrows
=============================================================================
