------------------------------ MODULE MCNetwork -----------------------------
(* The two networks that the apps build from hosts and routers, one of     *)
(* them in each behaviour: the simulator's, with routes added while it is  *)
(* in use (one for a prefix that has a route, written with other unused    *)
(* bits, and a longer prefix of another), and the two programs of lab7.    *)
EXTENDS Network

MCExtraRoutes ==
  {[prefix |-> At(1, 9), len |-> 3, hop |-> Addresses["dm42"], num |-> 5],
   [prefix |-> At(5, 28), len |-> 7, hop |-> Direct, num |-> 4],
   [prefix |-> At(0, 4), len |-> WIDTH, hop |-> Addresses["dm43"], num |-> 5]}

VARIABLES world, node, peers, net, written, lost

lab7 == INSTANCE Lab7 WITH
  ARP_TIME_LIMIT <- 1, IP_TO_ETHERNET_LIMIT <- 2, QUEUE <- 3, HELLOS <- 1,
  MaxWrites <- [client |-> 2, server |-> 1], TICK <- 2, MaxTime <- [client |-> 2, server |-> 0]

lab7vars == <<node, peers, net, written, lost>>
MCvars == <<world, vars, lab7vars>>

\* Bounds: both hosts write once, whenever they like, or the client writes, up
\* to twice, when it has heard the server.
Writes == IF world = "lab7" THEN written["client"] <= 1
          ELSE written["client"] > 0 => node["client"].got # <<>>

MCInit == world \in {"simulator", "lab7", "answers"} /\ Init /\ lab7!Init

MCNext == \/ world = "simulator" /\ Next /\ UNCHANGED <<world, lab7vars>>
          \/ world \in {"lab7", "answers"} /\ lab7!Next /\ UNCHANGED <<world, vars>> /\ Writes'

MCSpec == MCInit /\ [][MCNext]_MCvars /\ (world # "simulator" => lab7!Fairness)

OneCopy == lab7!OneCopy
ArrivesUnlessLost == lab7!ArrivesUnlessLost
=============================================================================
