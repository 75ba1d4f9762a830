------------------------------ MODULE TCPPair -------------------------------
(***************************************************************************)
(* Two TCPConnections, their applications and the network between them.    *)
(* The owner of a connection (TCPSpongeSocket) passes on what it enqueues, *)
(* and calls segment_received and tick while the connection is active.     *)
(* The network loses, repeats and reorders segments.                       *)
(***************************************************************************)
EXTENDS TCPState, FiniteSets

CONSTANTS ISNs,        \* initial sequence number of each endpoint
          Openers,     \* endpoints that call connect(); the others listen
          Closers,     \* endpoints whose application ends its stream
          Bytes,       \* bound: bytes each application writes
          Ticks,       \* milliseconds between two calls of tick
          MaxNet,      \* bound: segments in flight to one endpoint
          Duplicates,  \* whether the network repeats segments
          Losses,      \* whether the network loses segments
          Timely       \* whether segments arrive before the next tick

Endpoint == {"A", "B"}
peer(e)  == IF e = "A" THEN "B" ELSE "A"

ASSUME PairAssumption ==
  /\ ISNs \in [Endpoint -> Seqno]
  /\ Openers \subseteq Endpoint /\ Closers \subseteq Endpoint
  /\ Bytes \in [Endpoint -> Nat]
  /\ Ticks \subseteq Nat
  /\ MaxNet \in Nat
  /\ {Duplicates, Losses, Timely} \subseteq BOOLEAN

VARIABLES conn,      \* the two connections
          net,       \* the segments in flight to each endpoint
          lingered   \* whether an endpoint has waited out its linger time

vars == <<conn, net, lingered>>

Init == /\ conn = [e \in Endpoint |-> NewConnection(ISNs[e])]
        /\ net = [e \in Endpoint |-> {}]
        /\ lingered = [e \in Endpoint |-> FALSE]

Queued(c) == {c.out[i] : i \in 1 .. Len(c.out)}

\* Endpoint e goes to state c; what it enqueued travels to its peer, and left
\* is what stays in flight to e.
Becomes(e, c, left) ==
  /\ conn' = [conn EXCEPT ![e] = [c EXCEPT !.out = <<>>]]
  /\ net' = [net EXCEPT ![e] = left, ![peer(e)] = @ \union Queued(c)]
  /\ Cardinality(net'[peer(e)]) <= MaxNet

Calls(e, c) == Becomes(e, c, net[e]) /\ UNCHANGED lingered

connect(e) ==
  /\ e \in Openers
  /\ conn[e].snd.next = 0
  /\ Calls(e, connection_connect(conn[e]))

\* The application writes and closes once the connection was opened from either
\* side; the socket offers no more than remaining_outbound_capacity().
can_write(e) ==
  active(conn[e]) /\ conn[e].snd.next > 0 /\ ~conn[e].snd.ended

write(e, n) ==
  /\ can_write(e)
  /\ n <= SEND_CAPACITY - buffer_size(conn[e].snd)
  /\ conn[e].snd.written + n <= Bytes[e]
  /\ Calls(e, connection_write(conn[e], n))

end_input_stream(e) ==
  /\ e \in Closers
  /\ can_write(e)
  /\ Calls(e, connection_end_input_stream(conn[e]))

read(e, n) ==
  /\ n <= output_buffer_size(conn[e].rcv.re)
  /\ Calls(e, [conn[e] EXCEPT !.rcv.re = output_pop(@, n)])

can_tick(e) ==
  active(conn[e]) /\ (Timely => \A f \in Endpoint : active(conn[f]) => net[f] = {})

tick(e, ms) ==
  LET c == connection_tick(conn[e], ms)
  IN  /\ can_tick(e)
      /\ Becomes(e, c, net[e])
      /\ lingered' = [lingered EXCEPT ![e] = @ \/ (conn[e].linger /\ ~c.linger /\ ~c.snd.error)]

receive(e, seg) ==
  /\ active(conn[e])
  /\ \E left \in {net[e] \ {seg}} \union (IF Duplicates THEN {net[e]} ELSE {}) :
       Becomes(e, segment_received(conn[e], seg), left)
  /\ UNCHANGED lingered

\* A segment is lost on the way, or finds nobody at its destination.
lose(e, seg) ==
  /\ Losses \/ ~active(conn[e])
  /\ net' = [net EXCEPT ![e] = @ \ {seg}]
  /\ UNCHANGED <<conn, lingered>>

Next == \E e \in Endpoint :
          \/ connect(e)
          \/ \E n \in 1 .. Bytes[e] : write(e, n)
          \/ end_input_stream(e)
          \/ \E n \in 1 .. RECV_CAPACITY : read(e, n)
          \/ \E ms \in Ticks : tick(e, ms)
          \/ \E seg \in net[e] : receive(e, seg) \/ lose(e, seg)

Spec == Init /\ [][Next]_vars

-----------------------------------------------------------------------------
\* The applications open, write, read and close sooner or later.
AppStep ==
  \E e \in Endpoint :
    \/ connect(e)
    \/ \E n \in 1 .. Bytes[e] : write(e, n)
    \/ conn[e].snd.written = Bytes[e] /\ end_input_stream(e)
    \/ \E n \in 1 .. RECV_CAPACITY : read(e, n)

AppReady ==
  \E e \in Endpoint :
    \/ e \in Openers /\ conn[e].snd.next = 0
    \/ /\ can_write(e) /\ conn[e].snd.written < Bytes[e]
       /\ buffer_size(conn[e].snd) < SEND_CAPACITY
    \/ e \in Closers /\ can_write(e) /\ conn[e].snd.written = Bytes[e]
    \/ output_buffer_size(conn[e].rcv.re) > 0

\* A tick changes the state while a timer runs or the time still counts, and
\* when it ends the lingering.
TickMatters(e) ==
  /\ can_tick(e)
  /\ \/ conn[e].snd.running
     \/ conn[e].time < LingerTime
     \/ conn[e].linger /\ stream_eof(conn[e].snd) /\ output_eof(conn[e].rcv.re)

TickStep(e)  == \E ms \in Ticks : tick(e, ms)
ReceiveStep  == \E e \in Endpoint : \E seg \in net[e] : receive(e, seg)
ReceiveReady == \E e \in Endpoint : active(conn[e]) /\ net[e] # {}

\* Weak fairness of each kind of step, its enabling condition written out: the
\* applications go on, the event loops tick and the network delivers.
Fairness ==
  /\ []<>~AppReady \/ []<><<AppStep>>_vars
  /\ \A e \in Endpoint : []<>~TickMatters(e) \/ []<><<TickStep(e)>>_vars
  /\ []<>~ReceiveReady \/ []<><<ReceiveStep>>_vars

FairSpec == Spec /\ Fairness

-----------------------------------------------------------------------------
\* What e has written and what its peer's application may read of it
Sent(e)      == conn[e].snd
Delivered(e) == conn[peer(e)].rcv

\* What the sender takes as acknowledged the peer has really assembled: a SYN
\* is acknowledged only by a peer that has it, a byte only once it is in the
\* peer's stream and a FIN only once that stream has ended.
AckedMeansReceived ==
  \A e \in Endpoint :
    Sent(e).acked > 0 => /\ Delivered(e).has_isn
                         /\ Delivered(e).isn = Sent(e).isn
                         /\ Sent(e).acked <= 1 + Len(Delivered(e).re.output)
                                            + (IF Delivered(e).re.ended THEN 1 ELSE 0)

\* The peer of e knows that e has its whole stream, or has given up
PeerKnows(e) ==
  LET s == conn[peer(e)].snd
  IN  s.error \/ (s.sent_fin /\ s.acked = s.next)

\* tcp_connection.hh on linger_after_streams_finish_: a connection that ended
\* without an error and without waiting out the linger time leaves a peer that
\* knows its whole stream was received.
CleanClose ==
  \A e \in Endpoint :
    ~active(conn[e]) /\ ~conn[e].snd.error /\ ~lingered[e] => PeerKnows(e)

\* A stream fails only after one of the two ends retransmitted in vain more
\* than MAX_RETX_ATTEMPTS times.
ErrorHasCause ==
  \A e \in Endpoint :
    conn[e].snd.error =>
      \E f \in Endpoint : conn[f].snd.error /\ conn[f].snd.retx > MAX_RETX_ATTEMPTS

\* tcp_state.hh: the class TCPState is there "To test that Sponge follows the TCP
\* spec".  Every connection is in one of the official states and moves along the
\* arrows of the state diagram.  It does not: the linger time may run out while
\* the own FIN is unacknowledged (CLOSING to LAST_ACK), and a FIN may clear the
\* linger flag before the bytes in front of it have come (no official state).
FollowsStateDiagram ==
  [][\A e \in Endpoint :
       state(conn'[e]) # state(conn[e]) =>
         Follows(Names(state(conn[e])), Names(state(conn'[e])))]_vars

Streams(c) == <<sender_summary(c.snd), receiver_summary(c.rcv)>>

\* Apart from the linger flag the diagram is followed: whatever is lost, repeated
\* or reordered, sender and receiver, which keep no such state, are together
\* always in one that an official state has, and go on along its arrows, both
\* in error at once when the connection is reset.
StreamsFollowDiagram ==
  [][\A e \in Endpoint :
       Streams(conn'[e]) # Streams(conn[e]) =>
         Follows(StreamNames(state(conn[e])), StreamNames(state(conn'[e])))]_vars

Abstract == INSTANCE ReliableStream WITH
  written <- [e \in Endpoint |-> conn[e].snd.written],
  ended   <- [e \in Endpoint |-> conn[e].snd.ended],
  got     <- [e \in Endpoint |-> conn[peer(e)].rcv.re.output],
  eof     <- [e \in Endpoint |-> conn[peer(e)].rcv.re.ended]

\* Whatever the network does, the two connections are two reliable streams:
\* every step of the stack writes to, ends, delivers from or finishes a stream,
\* in that order, or is invisible.
ImplementsReliableStream == Abstract!Spec

Sum == INSTANCE ConnectionSummary

\* What ConnectionSummary keeps of a connection
summary(c) ==
  [syn    |-> IF c.snd.next = 0 THEN "closed" ELSE IF c.snd.acked = 0 THEN "sent" ELSE "acked",
   heard  |-> c.rcv.has_isn,            stream |-> buffer_size(c.snd),
   ended  |-> c.snd.ended,              fin    |-> c.snd.sent_fin,
   flight |-> bytes_in_flight(c.snd) # 0,
   inb    |-> output_buffer_size(c.rcv.re),
   in_end |-> c.rcv.re.ended,           error  |-> c.snd.error,
   linger |-> c.linger,                 segs   |-> FALSE]

\* Whether the summary lets one call of a method take t to an outcome that is ok
Outcome(t, ok(_)) ==
  \/ \E o \in Sum!tick(t) : ok(o)
  \/ \E o \in Sum!filled(t) : ok(o)
  \/ \E o \in Sum!end_input_stream(t) : ok(o)
  \/ \E n \in 1 .. Sum!remaining_outbound_capacity(t) : \E o \in Sum!write(t, n) : ok(o)
  \/ \E n \in 1 .. t.inb : ok([t EXCEPT !.inb = @ - n])
  \/ \E o \in Sum!segment_received(t, RECV_CAPACITY) : ok(o)

\* The summary that the socket model runs on leaves out no step of the
\* connection, and says of each whether it is active: sequence numbers, windows
\* and timers never do what the summary excludes, such as a FIN before the last
\* byte, a window that stays shut with nothing in flight, or a segment that
\* goes out when the summary has none.
SummarySound ==
  [][\A e \in Endpoint :
       LET t    == summary(conn[e])
           u    == summary(conn'[e])
           sent == net'[peer(e)] \ net[peer(e)] # {}
       IN  t # u \/ sent =>
             /\ Outcome(t, LAMBDA o : [o EXCEPT !.segs = FALSE] = u /\ (sent => o.segs))
             /\ Sum!active(u) = active(conn'[e])]_vars

\* With a network that loses nothing and applications that keep reading, both
\* streams arrive whole and both ends finish, without an error: a receiver that
\* closed its window is found open again although it announces nothing, and
\* neither end waits for the other forever.
EventuallyFinished ==
  <>[](\A e \in Endpoint :
         /\ output_eof(conn[peer(e)].rcv.re)
         /\ Len(conn[peer(e)].rcv.re.output) = conn[e].snd.written
         /\ ~active(conn[e]) /\ ~conn[e].snd.error)
=============================================================================
