-------------------------------- MODULE Lab7 --------------------------------
(***************************************************************************)
(* apps/lab7.cc and apps/bouncer.cc: a client and a server, each with a    *)
(* host (the NetworkInterfaceAdapter its TCP socket uses), a router with   *)
(* one interface to the host and one to the Internet, and a network thread *)
(* that moves the frames; the bouncer relays them from one program to the  *)
(* other.  Between host and router is a pair of datagram sockets, and on   *)
(* the Internet packets may be lost or overtake each other.  Addresses are *)
(* cut to WIDTH bits, three for the network; a datagram is [id, dst, ttl]. *)
(***************************************************************************)
EXTENDS RouterOps, Bags

CONSTANTS QUEUE,      \* datagrams a Unix socket holds
          MaxWrites,  \* bound: segments the TCP socket of each side writes
          HELLOS,     \* packets that let the bouncer know a program (3)
          TICK,       \* the time of a tick (50 ms)
          MaxTime     \* bound: when the clocks of each program stop

VARIABLES node,     \* the two programs, see NewNode
          peers,    \* of the bouncer's sockets, those that know their peer
          net,      \* the packets under way: a bag of [by, to, payload]
          written,  \* how many segments each host wrote
          lost      \* whether a frame got lost on the Internet

vars == <<node, peers, net, written, lost>>

Side == {"client", "server"}
other(s) == IF s = "client" THEN "server" ELSE "client"

At(n, low) == n * 32 + low
HostIP   == [client |-> At(3, 18), server |-> At(2, 4)]    \* 192.168.0.50, 172.16.0.100
Gateway  == [client |-> At(3, 1), server |-> At(2, 1)]
Internet == [client |-> At(1, 24), server |-> At(1, 12)]   \* 10.0.0.192, 10.0.0.172

host_side     == 1
internet_side == 2

RouterFor(s) ==
  LET routes == <<[prefix |-> HostIP[s], len |-> 3, hop |-> Direct, num |-> host_side],
                  [prefix |-> At(1, 0), len |-> 3, hop |-> Direct, num |-> internet_side],
                  [prefix |-> HostIP[other(s)], len |-> 3, hop |-> Internet[other(s)],
                   num |-> internet_side]>>
      ifs    == <<NewAsync(<<2, 0, 0, 0, 0, Gateway[s]>>, Gateway[s]),
                  NewAsync(<<2, 0, 0, 0, 0, Internet[s]>>, Internet[s])>>
  IN  FoldLeft(add_route, FoldLeft(add_interface, NewRouter, ifs), routes)

\* up and down: the frames in the socket pair, from and to the host; eof: that
\* of internet_socket; got: the datagrams the interface of the host returned
NewNode(s) ==
  [ni |-> NewInterface(<<6, 0, 0, 0, 0, HostIP[s]>>, HostIP[s]), up |-> <<>>, down |-> <<>>,
   router |-> RouterFor(s), eof |-> FALSE, exit_flag |-> FALSE, ended |-> FALSE, got |-> <<>>]

\* A payload is a frame or nothing; sendto to the bouncer, and its own
Packet(s, payload) == [by |-> s, to |-> "bouncer", payload |-> payload]
Relayed(s, payload) == [by |-> "bouncer", to |-> s, payload |-> payload]

\* Each program has let the bouncer know where it is.
Init == /\ node = [s \in Side |-> NewNode(s)]
        /\ peers = {}
        /\ net = [p \in {Packet(s, <<>>) : s \in Side} |-> HELLOS]
        /\ written = [s \in Side |-> 0]
        /\ lost = FALSE

-----------------------------------------------------------------------------
\* As send_pending, leaving the frames in the queue of the interface
send_pending_Kept(n) == [n EXCEPT !.up = @ \o n.ni.out]

\* NetworkInterfaceAdapter; a write to a full socket blocks.
send_pending(n) == [n EXCEPT !.up = @ \o n.ni.out, !.ni.out = <<>>]

Calls(s, n) == /\ ~node[s].exit_flag
               /\ Len(n.up) <= QUEUE
               /\ node' = [node EXCEPT ![s] = n]

adapter_write(s) ==
  LET dgram == [id |-> <<s, written[s] + 1>>, dst |-> HostIP[other(s)], ttl |-> 128]
  IN  /\ written[s] < MaxWrites[s]
      /\ Calls(s, send_pending([node[s] EXCEPT !.ni = send_datagram(@, dgram, Gateway[s])]))
      /\ written' = [written EXCEPT ![s] = @ + 1]
      /\ UNCHANGED <<peers, net, lost>>

read(n) ==
  LET f == Head(n.down)
  IN  send_pending([n EXCEPT !.down = Tail(@), !.ni = recv_frame(@, f, TRUE),
                             !.got  = @ \o received(n.ni, f, TRUE)])

adapter_read(s) ==
  /\ node[s].down # <<>>
  /\ Calls(s, read(node[s]))
  /\ UNCHANGED <<peers, net, written, lost>>

aged(i, s) == IF i.now < MaxTime[s] THEN interface_tick(i, TICK) ELSE i

adapter_tick(s) ==
  /\ Calls(s, send_pending([node[s] EXCEPT !.ni = aged(@, s)]))
  /\ UNCHANGED <<peers, net, written, lost>>

-----------------------------------------------------------------------------
\* The rules of the network thread
frames_out(n, k) == n.router.ifs[k].ni.out

popped(n, k) == [n EXCEPT !.router.ifs[k].ni.out = Tail(@)]

routed(router, k, frame) ==
  route([router EXCEPT !.ifs[k] = async_recv_frame(@, frame)])

host_to_router(n) == [n EXCEPT !.up = Tail(@), !.router = routed(@, host_side, Head(n.up))]
router_to_host(n) == popped([n EXCEPT !.down = Append(@, Head(frames_out(n, host_side)))], host_side)

\* Reading an empty payload is taken for the end of the socket.
internet_to_router(n, payload) ==
  IF payload = <<>> THEN [n EXCEPT !.eof = TRUE]
  ELSE [n EXCEPT !.router = routed(@, internet_side, payload[1])]

ticked(n, s) == [n EXCEPT !.router.ifs = [k \in DOMAIN @ |-> [@[k] EXCEPT !.ni = aged(@, s)]]]

\* One turn of the thread: the rules that are interested and ready, in order,
\* and the ticks; arrived is what the Internet has for it, one packet or none.
\* A rule that reads is dropped once its descriptor has come to the end.
served(s, arrived) ==
  LET n == node[s]
      a == IF n.up # <<>> THEN host_to_router(n) ELSE n
      b == IF frames_out(n, host_side) # <<>> /\ Len(n.down) < QUEUE THEN router_to_host(a) ELSE a
      c == IF frames_out(n, internet_side) # <<>> THEN popped(b, internet_side) ELSE b
  IN  ticked(IF arrived # <<>> THEN internet_to_router(c, arrived[1].payload) ELSE c, s)

turn(s, arrived) ==
  LET n   == node[s]
      out == frames_out(n, internet_side)
  IN  /\ ~n.ended
      /\ arrived # <<>> => ~n.eof
      /\ \E m \in {served(s, arrived)} :
           node' = [node EXCEPT ![s] = [m EXCEPT !.ended = n.exit_flag]]
      /\ net' = (net (-) SetToBag(ToSet(arrived)))
                (+) SetToBag(IF out = <<>> THEN {} ELSE {Packet(s, <<Head(out)>>)})
      /\ UNCHANGED <<peers, written, lost>>

\* program_body, once the connection is over
exit(s) == /\ ~node[s].exit_flag
           /\ node[s].got # <<>>   \* bound: not before the host heard the other
           /\ node' = [node EXCEPT ![s].exit_flag = TRUE]
           /\ UNCHANGED <<peers, net, written, lost>>

-----------------------------------------------------------------------------
\* Whether the bouncer passes a payload on; forwards_All does so with any.
forwards_All(to, payload) == to \in peers
forwards(to, payload) == to \in peers /\ payload # <<>>

bounce(p) ==
  LET to == other(p.by)
      on == forwards(to, p.payload)
  IN  /\ p.to = "bouncer"
      /\ peers' = peers \union {p.by}
      /\ net' = (net (-) SetToBag({p})) (+) SetToBag(IF on THEN {Relayed(to, p.payload)} ELSE {})
      /\ lost' = (lost \/ (~on /\ p.payload # <<>>))
      /\ UNCHANGED <<node, written>>

lose(p) == /\ net' = net (-) SetToBag({p})
           /\ lost' = (lost \/ p.payload # <<>>)
           /\ UNCHANGED <<node, peers, written>>

Waiting(s) == {p \in DOMAIN net : p.to = s}

Relay == \E p \in DOMAIN net : bounce(p)
Receive(s) == \E p \in Waiting(s) : turn(s, <<p>>)

Next == \/ \E s \in Side : \/ adapter_write(s) \/ adapter_read(s) \/ adapter_tick(s)
                           \/ turn(s, <<>>) \/ Receive(s) \/ exit(s)
        \/ Relay
        \/ \E p \in DOMAIN net : lose(p)

\* Whether a turn that receives nothing does something else than pass time
Busy(s) ==
  LET n == node[s]
  IN  ~n.ended /\ \/ n.exit_flag \/ n.up # <<>> \/ frames_out(n, internet_side) # <<>>
                  \/ frames_out(n, host_side) # <<>> /\ Len(n.down) < QUEUE

CanReceive(s) == ~node[s].ended /\ ~node[s].eof /\ Waiting(s) # {}
CanRead(s) == ~node[s].exit_flag /\ node[s].down # <<>> /\ Len(read(node[s]).up) <= QUEUE

\* The threads and the bouncer are scheduled, and a packet that is not lost
\* arrives: weak fairness, with the enabling conditions written out.
Fairness ==
  /\ []<>(\A p \in DOMAIN net : p.to # "bouncer") \/ []<><<Relay>>_vars
  /\ \A s \in Side : /\ []<>~Busy(s) \/ []<><<turn(s, <<>>)>>_vars
                     /\ []<>~CanReceive(s) \/ []<><<Receive(s)>>_vars
                     /\ []<>~CanRead(s) \/ []<><<adapter_read(s)>>_vars

-----------------------------------------------------------------------------
Has(id, seq) == Len(SelectSeq(seq, LAMBDA d : d.id = id))
InFrames(id, seq) == Len(SelectSeq(seq, LAMBDA f : f.type = "IPv4" /\ f.payload.id = id))
InInterface(id, i) == InFrames(id, i.out)
                      + MapThenSumSet(LAMBDA ip : Has(id, i.buffer[ip]), DOMAIN i.buffer)

\* How often the datagram id is somewhere at program s, and on the Internet
AtNode(id, s) ==
  LET n == node[s]
  IN  InInterface(id, n.ni) + InFrames(id, n.up) + InFrames(id, n.down) + Has(id, n.got)
      + MapThenSumSet(LAMBDA k : InInterface(id, n.router.ifs[k].ni), DOMAIN n.router.ifs)
UnderWay(id) == MapThenSumSet(LAMBDA p : net[p] * InFrames(id, p.payload), DOMAIN net)

\* A datagram that a host wrote is at every moment in one place of the two
\* programs or on the Internet, and nowhere only after a loss, whatever the
\* order in which threads, bouncer and Internet move the frames and whatever
\* addresses are still unknown or have expired.  What a host receives comes from
\* the other one and has passed both routers, each of them once.
OneCopy ==
  /\ \A s \in Side : \A k \in 1 .. written[s] :
       LET copies == AtNode(<<s, k>>, "client") + AtNode(<<s, k>>, "server") + UnderWay(<<s, k>>)
       IN  copies <= 1 /\ (copies = 0 => lost)
  /\ \A s \in Side : \A k \in DOMAIN node[s].got :
       node[s].got[k].id[1] = other(s) /\ node[s].got[k].ttl = 126

InterfacesOf(s) == {node[s].ni} \union {node[s].router.ifs[k].ni : k \in DOMAIN node[s].router.ifs}

\* The datagram waits for an address that its interface knew and let expire.
BehindExpired(id) ==
  \E s \in Side : \E i \in InterfacesOf(s) : \E ip \in DOMAIN i.buffer :
    Has(id, i.buffer[ip]) > 0 /\ ip \in DOMAIN i.map /\ ~known(i, ip)

\* What a host wrote reaches the other one unless a frame was lost, the ones
\* that came to the bouncer too early included, or a program exits, or it stays
\* behind an expired address for good: the answer to a request does not renew
\* that entry, so a datagram that comes after it, and too early for another
\* request, is kept for an answer that nobody asks for.  Nothing else can hold
\* a datagram up: no first request is left out, no rule without interest has
\* something to do, and the packets that only introduce a program end nobody's
\* reading.
ArrivesUnlessLost ==
  \A s \in Side : \A k \in 1 .. MaxWrites[s] :
    written[s] >= k ~> \/ Has(<<s, k>>, node[other(s)].got) = 1
                       \/ lost
                       \/ \E t \in Side : node[t].exit_flag
                       \/ []BehindExpired(<<s, k>>)
=============================================================================
