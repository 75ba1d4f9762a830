------------------------------ MODULE Network -------------------------------
(***************************************************************************)
(* apps/network_simulator.cc: six hosts on the seven interfaces of a       *)
(* router.  The program's addresses are cut to 8 bits, 3 for the network   *)
(* and 5 for the rest, so that a prefix of the program of length 8, 16 or  *)
(* 24 has length 3 here, and 17, 18 and 19 are 4, 5 and 6.  A datagram is  *)
(* [id, dst, ttl].  The driver sends and expects any datagrams it has, in  *)
(* any order, before it simulates, and may add routes.                     *)
(***************************************************************************)
EXTENDS RouterOps, FiniteSets

CONSTANTS ROUNDS,       \* the rounds of simulate (256)
          ExtraRoutes,  \* routes that may be added besides those of the program
          MaxRoutes,    \* bound: how many of them are
          MaxSends      \* bound: datagrams sent

At(net, low) == net * 32 + low

\* network: 0 the Internet, 1 10/8, 2 172.16/16, 3 192.168.0/24,
\* 4 198.178.229/24, 5 143.195/16, 6 128.30/16, 7 171.67.76/24
Addresses ==
  [applesauce |-> At(1, 2), default_router |-> At(7, 1), cherrypie |-> At(3, 2),
   hs_router |-> At(5, 1), dm42 |-> At(4, 10), dm43 |-> At(4, 11)]

NextHops ==
  [applesauce |-> At(1, 1), default_router |-> 0, cherrypie |-> At(3, 1),
   hs_router |-> 0, dm42 |-> At(4, 1), dm43 |-> At(4, 1)]

\* default, eth0, eth1, eth2, uun3, hs4, mit5
Interfaces == <<At(7, 14), At(1, 1), At(2, 1), At(3, 1), At(4, 1), At(5, 2), At(6, 31)>>

Routes ==
  <<[prefix |-> 0, len |-> 0, hop |-> Addresses["default_router"], num |-> 1],
    [prefix |-> At(1, 0), len |-> 3, hop |-> Direct, num |-> 2],
    [prefix |-> At(2, 0), len |-> 3, hop |-> Direct, num |-> 3],
    [prefix |-> At(3, 0), len |-> 3, hop |-> Direct, num |-> 4],
    [prefix |-> At(4, 0), len |-> 3, hop |-> Direct, num |-> 5],
    [prefix |-> At(5, 0), len |-> 4, hop |-> Addresses["hs_router"], num |-> 6],
    [prefix |-> At(5, 16), len |-> 5, hop |-> Addresses["hs_router"], num |-> 6],
    [prefix |-> At(5, 24), len |-> 6, hop |-> Addresses["hs_router"], num |-> 6],
    [prefix |-> At(6, 31), len |-> 3, hop |-> At(6, 1), num |-> 7]>>

\* The physical connections: an interface and the hosts on its wire
Links == <<[num |-> 1, names |-> <<"default_router">>], [num |-> 2, names |-> <<"applesauce">>],
           [num |-> 4, names |-> <<"cherrypie">>], [num |-> 6, names |-> <<"hs_router">>],
           [num |-> 5, names |-> <<"dm42", "dm43">>]>>

\* What the driver sends, and something for a network where nobody answers
Traffic ==
  {[from |-> "applesauce", dst |-> Addresses["cherrypie"], ttl |-> 64],
   [from |-> "cherrypie", dst |-> Addresses["applesauce"], ttl |-> 64],
   [from |-> "applesauce", dst |-> At(0, 4), ttl |-> 64],
   [from |-> "applesauce", dst |-> At(5, 17), ttl |-> 64],
   [from |-> "cherrypie", dst |-> At(5, 24), ttl |-> 64],
   [from |-> "cherrypie", dst |-> At(5, 27), ttl |-> 64],
   [from |-> "cherrypie", dst |-> At(5, 28), ttl |-> 64],
   [from |-> "dm42", dst |-> Addresses["dm43"], ttl |-> 64],
   [from |-> "applesauce", dst |-> At(0, 4), ttl |-> 1],
   [from |-> "applesauce", dst |-> At(0, 4), ttl |-> 0],
   [from |-> "dm43", dst |-> At(6, 7), ttl |-> 2]}

VARIABLES router, host,   \* the Router, and the Host of each name
          round, step,    \* where simulate is: 0 outside; step 0 routes
          added,          \* the routes added, in order
          sent, checked,  \* the datagrams sent, and how many check has seen
          thrown          \* a check has failed

vars == <<router, host, round, step, added, sent, checked, thrown>>

NewHost(name) ==
  [interface |-> NewAsync(<<6, 0, 0, 0, 0, Addresses[name]>>, Addresses[name]),
   next_hop  |-> NextHops[name],
   expecting |-> <<>>]

Init == /\ router = FoldLeft(add_route,
                             FoldLeft(add_interface, NewRouter,
                                      [n \in DOMAIN Interfaces |-> NewAsync(<<2, 0, 0, 0, 0, n>>, Interfaces[n])]),
                             Routes)
        /\ host = [name \in DOMAIN Addresses |-> NewHost(name)]
        /\ round = 0 /\ step = 0
        /\ added = Routes /\ sent = <<>> /\ checked = 0
        /\ thrown = FALSE

-----------------------------------------------------------------------------
bit(ip, b) == (ip \div 2 ^ (WIDTH - b)) % 2   \* bit b, the first being bit 1

\* The routes added whose prefix agrees with ip on all its bits
Applicable(ip) ==
  {k \in DOMAIN added : \A b \in 1 .. added[k].len : bit(added[k].prefix, b) = bit(ip, b)}

\* The route with the longest prefix, of several for one prefix the first added
BestRoute(ip) ==
  added[CHOOSE k \in Applicable(ip) :
          \A j \in Applicable(ip) :
            added[k].len > added[j].len \/ (added[k].len = added[j].len /\ k <= j)]

\* The hosts that a datagram for ip is to reach: one, or none when nobody on
\* the wire has the address of the next hop
Receivers(ip) ==
  LET r    == BestRoute(ip)
      next == IF r.hop = Direct THEN ip ELSE r.hop
  IN  {h \in DOMAIN host : /\ Addresses[h] = next
                           /\ \E k \in DOMAIN Links : Links[k].num = r.num /\ h \in ToSet(Links[k].names)}

-----------------------------------------------------------------------------
\* Host::send_to by the driver, who expects the datagram where router.hh
\* promises it to go
send_to(t) ==
  LET d == [id |-> Len(sent) + 1, dst |-> t.dst, ttl |-> t.ttl]
      h == [host EXCEPT ![t.from].interface.ni = send_datagram(@, d, host[t.from].next_hop)]
      expect == IF t.ttl <= 1 THEN {} ELSE Receivers(t.dst)
  IN  /\ round = 0 /\ ~thrown /\ Len(sent) < MaxSends
      /\ sent' = Append(sent, d)
      /\ host' = [n \in DOMAIN host |->
                    IF n \in expect THEN [h[n] EXCEPT !.expecting = Append(@, [d EXCEPT !.ttl = @ - 1])]
                    ELSE h[n]]
      /\ UNCHANGED <<router, round, step, added, checked, thrown>>

new_route(r) ==
  /\ round = 0 /\ checked = Len(sent) /\ Len(added) < Len(Routes) + MaxRoutes
  /\ router' = add_route(router, r)
  /\ added' = Append(added, r)
  /\ UNCHANGED <<host, round, step, sent, checked, thrown>>

\* simulate: each round routes, then exchanges the frames on every wire.
simulate ==
  /\ round = 0 /\ checked < Len(sent)
  /\ round' = 1
  /\ UNCHANGED <<router, host, step, added, sent, checked, thrown>>

simulate_route ==
  /\ round \in 1 .. ROUNDS /\ step = 0
  /\ router' = route(router)
  /\ step' = 1
  /\ UNCHANGED <<host, round, added, sent, checked, thrown>>

\* clear takes as many frames off the queue as were copied from it.
clear(copied, queue) == SubSeq(queue, Len(copied) + 1, Len(queue))

deliver(frames, a) == FoldLeft(async_recv_frame, a, frames)

\* Each party receives what the others had queued before.
exchange_frames(parties) ==
  [k \in DOMAIN parties |->
     LET others == FlattenSeq([j \in DOMAIN parties |-> IF j = k THEN <<>> ELSE parties[j].ni.out])
     IN  [deliver(others, parties[k]) EXCEPT !.ni.out = clear(parties[k].ni.out, @)]]

simulate_physical_connection ==
  LET link  == Links[step]
      names == link.names
      after == exchange_frames(<<router.ifs[link.num]>> \o [i \in DOMAIN names |-> host[names[i]].interface])
  IN  /\ round > 0 /\ step > 0
      /\ router' = [router EXCEPT !.ifs[link.num] = after[1]]
      /\ host' = [n \in DOMAIN host |->
                    IF n \in ToSet(names)
                    THEN [host[n] EXCEPT !.interface = after[1 + CHOOSE i \in DOMAIN names : names[i] = n]]
                    ELSE host[n]]
      /\ IF step = Len(Links) THEN step' = 0 /\ round' = round + 1
         ELSE step' = step + 1 /\ round' = round
      /\ UNCHANGED <<added, sent, checked, thrown>>

\* Host::check: p is [expecting, ok].
remove_expectation(p, d) ==
  [expecting |-> RemoveFirst(p.expecting, d), ok |-> p.ok /\ d \in ToSet(p.expecting)]

Checked(h) ==
  FoldLeft(remove_expectation, [expecting |-> h.expecting, ok |-> TRUE], h.interface.datagrams_out)

check ==
  /\ round > ROUNDS
  /\ thrown' = \E n \in DOMAIN host : ~Checked(host[n]).ok \/ Checked(host[n]).expecting # <<>>
  /\ host' = [n \in DOMAIN host |-> [host[n] EXCEPT !.interface.datagrams_out = <<>>,
                                                    !.expecting = Checked(host[n]).expecting]]
  /\ round' = 0
  /\ checked' = Len(sent)
  /\ UNCHANGED <<router, step, added, sent>>

Next == \/ \E t \in Traffic : send_to(t)
        \/ \E r \in ExtraRoutes : new_route(r)
        \/ simulate \/ simulate_route \/ simulate_physical_connection \/ check

Spec == Init /\ [][Next]_vars

-----------------------------------------------------------------------------
\* router.hh: a datagram is sent "as specified by the route with the longest
\* prefix_length that matches the datagram's destination address".  Whatever
\* is sent at once, and whatever addresses the interfaces still have to ask
\* for, each host has received, when simulate checks, exactly the datagrams
\* that this promises to it, with their time to live one less.
CheckPasses == ~thrown

Has(d, seq) == Cardinality({k \in DOMAIN seq : seq[k].id = d.id})

\* In frames that are to be sent, or waiting for an address, at interface a
Pending(d, a) ==
  Cardinality({k \in DOMAIN a.ni.out : a.ni.out[k].type = "IPv4" /\ a.ni.out[k].payload.id = d.id})
  + MapThenSumSet(LAMBDA ip : Has(d, a.ni.buffer[ip]), DOMAIN a.ni.buffer)

\* How often d has yet to be routed, and how often the router has sent it on
Before(d) == MapThenSumSet(LAMBDA n : Has(d, router.ifs[n].datagrams_out), DOMAIN router.ifs)
             + MapThenSumSet(LAMBDA n : Pending(d, host[n].interface), DOMAIN host)
After(d)  == MapThenSumSet(LAMBDA n : Pending(d, router.ifs[n]), DOMAIN router.ifs)
             + MapThenSumSet(LAMBDA n : Has(d, host[n].interface.datagrams_out), DOMAIN host)

\* At every step of a simulation each datagram is in one place, in a queue, in
\* a frame or waiting for an address, and none is lost, copied to two hosts
\* of a wire or routed twice; only one whose time to live runs out disappears.
InOnePlace ==
  \A k \in checked + 1 .. Len(sent) :
    IF sent[k].ttl > 1 THEN Before(sent[k]) + After(sent[k]) = 1
    ELSE Before(sent[k]) <= 1 /\ After(sent[k]) = 0
=============================================================================
