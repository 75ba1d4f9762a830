----------------------------- MODULE MCTCPPair ------------------------------
(* Values of the function-valued constants of TCPPair for model checking. *)
EXTENDS TCPPair

CONSTANTS BytesA, BytesB   \* bytes each application writes

MCBytes == [e \in Endpoint |-> IF e = "A" THEN BytesA ELSE BytesB]
\* One stream starts just below the wrap of the sequence numbers.
MCISNs  == [e \in Endpoint |-> IF e = "A" THEN Mod32 - 2 ELSE 3]

\* Bound: the listening side ends its stream only where nothing is written.
Scenario == conn["B"].snd.ended => \A e \in Endpoint : conn[e].snd.written = 0

\* Where something is written nobody waits out the linger time: its clock,
\* which nothing else reads, tells no two states apart.
MCView ==
  LET idle == \A e \in Endpoint : conn[e].snd.written = 0
  IN  <<IF idle THEN conn ELSE [e \in Endpoint |-> [conn[e] EXCEPT !.time = 0]], net, lingered>>

MCSpec == Init /\ [][Next /\ Scenario']_vars
=============================================================================
