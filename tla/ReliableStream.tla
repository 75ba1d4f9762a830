--------------------------- MODULE ReliableStream ---------------------------
(***************************************************************************)
(* What a pair of TCPConnections promises to the applications: a byte      *)
(* stream in each direction.  Byte k of a stream is the number k.          *)
(***************************************************************************)
EXTENDS Integers, Sequences

CONSTANT Endpoint

VARIABLES written,   \* number of bytes each endpoint wrote
          ended,     \* whether it ended its stream
          got,       \* the bytes of its stream handed to the peer
          eof        \* whether the peer was told that the stream ends there

vars == <<written, ended, got, eof>>

Init == /\ written = [e \in Endpoint |-> 0]
        /\ ended = [e \in Endpoint |-> FALSE]
        /\ got = [e \in Endpoint |-> <<>>]
        /\ eof = [e \in Endpoint |-> FALSE]

Write(e) == /\ ~ended[e]
            /\ written' = [written EXCEPT ![e] = written'[e]]
            /\ written'[e] >= written[e]
            /\ UNCHANGED <<ended, got, eof>>

End(e) == /\ ended' = [ended EXCEPT ![e] = TRUE]
          /\ UNCHANGED <<written, got, eof>>

\* The next bytes, and the end of an ended stream whose bytes all arrived
Deliver(e) ==
  /\ ~eof[e]
  /\ \E n \in Len(got[e]) .. written[e] :
       got' = [got EXCEPT ![e] = @ \o [k \in 1 .. n - Len(got[e]) |-> Len(got[e]) + k - 1]]
  /\ \E end \in BOOLEAN :
       /\ end => ended[e] /\ Len(got'[e]) = written[e]
       /\ eof' = [eof EXCEPT ![e] = end]
  /\ UNCHANGED <<written, ended>>

Next == \E e \in Endpoint : Write(e) \/ End(e) \/ Deliver(e)

Spec == Init /\ [][Next]_vars
=============================================================================
