----------------------- MODULE NetworkInterfaceProofs -----------------------
(***************************************************************************)
(* Proofs about NetworkInterface for every set of hosts and every limit:   *)
(* datagrams leave once and in order, to a fresh address, and none waits   *)
(* without a request.                                                      *)
(***************************************************************************)
EXTENDS NetworkInterface, TLAPS

(* The standard maps: functions of some of the keys.                       *)
Partial(K, V) == UNION {[D -> V] : D \in SUBSET K}

Entry   == [eth : Cards, at : Nat]
Maps    == Partial(Hosts, Entry)
Arps    == Partial(Hosts, Nat)
Buffers == Partial(Hosts, Seq(Nat))

(* The interface between two calls: its owner has taken the frames.        *)
Interface ==
  [eth : {MyEth}, ip : {MyIP}, map : Maps, arp : Arps, buffer : Buffers, now : Nat,
   out : {<<>>}]

Record == [dgram : Nat, dst : Cards]

Types ==
  /\ ni \in Interface /\ hops \in Seq(Hosts) /\ sent \in Seq(Record) /\ asked \subseteq Hosts
  /\ heard \in [Hosts \X Cards -> Int]

(* A mapping is no younger than what ARP last told of it, and neither that *)
(* nor a request lies in the future.                                       *)
MapHeard ==
  /\ \A h \in DOMAIN ni.map : ni.map[h].at <= heard[<<h, ni.map[h].eth>>]
  /\ \A h \in Hosts : \A c \in Cards : heard[<<h, c>>] <= ni.now
  /\ \A h \in DOMAIN ni.arp : ni.arp[h] <= ni.now

(* Of a host that only answers: a request precedes its mapping, and while   *)
(* there is no mapping a request made is one to be answered.                *)
Asking(h) ==
  /\ h \in asked => h \in DOMAIN ni.arp
  /\ h \in DOMAIN ni.map => h \in DOMAIN ni.arp /\ ni.arp[h] <= ni.map[h].at
  /\ h \in DOMAIN ni.arp => h \in asked \/ h \in DOMAIN ni.map
  /\ waiting(ni, h) # <<>> => h \in asked

(* What waits for h and what left was handed in, the former for h.         *)
Handed ==
  /\ \A h \in Hosts : \A k \in 1 .. Len(waiting(ni, h)) :
       waiting(ni, h)[k] \in 1 .. Len(hops) /\ hops[waiting(ni, h)[k]] = h
  /\ \A k \in 1 .. Len(sent) : sent[k].dgram \in 1 .. Len(hops)

InterfaceInv ==
  /\ Types /\ MapHeard
  /\ \A h \in Hosts \ Announcers : Asking(h)
  /\ \A h \in Hosts : waiting(ni, h) # <<>> => ~known(ni, h)
  /\ Handed /\ InOrderOnce

-----------------------------------------------------------------------------
(* A map has values of the type for some of the keys.                      *)
LEMMA PartialIs ==
  ASSUME NEW K, NEW V, NEW f \in Partial(K, V)
  PROVE  DOMAIN f \subseteq K /\ f \in [DOMAIN f -> V]
BY DEF Partial

(* And every function of that kind is such a map.                          *)
LEMMA PartialHas ==
  ASSUME NEW K, NEW V, NEW D \in SUBSET K, NEW f \in [D -> V]
  PROVE  f \in Partial(K, V) /\ DOMAIN f = D
BY DEF Partial

(* g is f with the key k, which has the value v if it is new.              *)
Emplaced(f, k, v, g) ==
  /\ DOMAIN g = DOMAIN f \union {k}
  /\ \A x \in DOMAIN f : g[x] = f[x]
  /\ k \notin DOMAIN f => g[k] = v

(* emplace adds the key and leaves an entry that is there.                 *)
LEMMA EmplaceAdds ==
  ASSUME NEW K, NEW V, NEW f \in Partial(K, V), NEW k \in K, NEW v \in V
  PROVE  emplace(f, k, v) \in Partial(K, V) /\ Emplaced(f, k, v, emplace(f, k, v))
<1> DEFINE D == DOMAIN f \union {k}
           g == emplace(f, k, v)
<1>1. DOMAIN f \subseteq K /\ f \in [DOMAIN f -> V]
  BY PartialIs
<1>2. g \in [D -> V] /\ D \in SUBSET K
  BY <1>1 DEF emplace
<1>3. g \in Partial(K, V) /\ DOMAIN g = D
  <2> HIDE DEF g, D
  <2> QED  BY Zenon, <1>2, PartialHas
<1> QED  BY <1>3 DEF emplace, Emplaced

(* How many of the frames are datagrams.                                   *)
LEMMA DatagramsAre ==
  ASSUME NEW out, Len(out) \in Nat, NEW n \in 0 .. Len(out),
         \A k \in 1 .. Len(out) : IsDatagram(out[k]) <=> k <= n
  PROVE  Datagrams(out) = n
<1> DEFINE P(m) == \A k \in 1 .. Len(out) : IsDatagram(out[k]) <=> k <= m
           c == CHOOSE m \in 0 .. Len(out) : P(m)
<1>1. c \in 0 .. Len(out) /\ P(c)
  <2> HIDE DEF P
  <2>1. P(n)
    BY DEF P
  <2> QED  BY <2>1
<1>2. Datagrams(out) = c
  BY DEF Datagrams
<1> HIDE DEF c
<1>3. CASE c < n
  <2>1. n \in 1 .. Len(out) /\ ~(n <= c) /\ n <= n
    BY <1>1, <1>3
  <2> QED  BY <1>1, <2>1
<1>4. CASE n < c
  <2>1. c \in 1 .. Len(out) /\ ~(c <= n) /\ c <= c
    BY <1>1, <1>4
  <2> QED  BY <1>1, <2>1
<1> QED  BY <1>1, <1>2, <1>3, <1>4

(* A call that leaves no frames.                                           *)
LEMMA NoFrames == Datagrams(<<>>) = 0 /\ Targets(<<>>) = {}
<1>1. Len(<<>>) = 0 /\ 0 \in Nat /\ 0 \in 0 .. 0 /\ 1 .. 0 = {}
  OBVIOUS
<1>2. Datagrams(<<>>) = 0
  BY <1>1 DEF Datagrams
<1> QED  BY <1>1, <1>2 DEF Targets

(* A call that leaves one frame, a datagram or a request.                  *)
LEMMA OneFrame ==
  ASSUME NEW f
  PROVE  /\ f.type = "IPv4" => Datagrams(<<f>>) = 1 /\ Targets(<<f>>) = {}
         /\ IsRequest(f) => Datagrams(<<f>>) = 0 /\ Targets(<<f>>) = {f.payload.target_ip}
<1> DEFINE out == <<f>>
<1>1. Len(out) \in Nat /\ Len(out) = 1 /\ out[1] = f /\ 1 .. Len(out) = {1}
  OBVIOUS
<1> HIDE DEF out
<1>2. ASSUME f.type = "IPv4" PROVE Datagrams(out) = 1 /\ Targets(out) = {}
  <2>1. 1 \in 0 .. Len(out) /\ \A k \in 1 .. Len(out) : IsDatagram(out[k]) <=> k <= 1
    BY <1>1, <1>2 DEF IsDatagram
  <2>2. Datagrams(out) = 1
    BY <1>1, <2>1, DatagramsAre
  <2>3. ~IsRequest(f)
    BY <1>2 DEF IsRequest
  <2> QED  BY <1>1, <2>2, <2>3 DEF Targets
<1>3. ASSUME IsRequest(f) PROVE Datagrams(out) = 0 /\ Targets(out) = {f.payload.target_ip}
  <2>1. f.type = "ARP"
    BY <1>3 DEF IsRequest
  <2>2. 0 \in 0 .. Len(out) /\ \A k \in 1 .. Len(out) : IsDatagram(out[k]) <=> k <= 0
    BY <1>1, <2>1 DEF IsDatagram
  <2>3. Datagrams(out) = 0
    BY <1>1, <2>2, DatagramsAre
  <2>4. Targets(out) = {f.payload.target_ip}
    <3>1. {j \in 1 .. Len(out) : IsRequest(out[j])} = {1}
      BY <1>1, <1>3
    <3> QED  BY <1>1, <3>1 DEF Targets
  <2> QED  BY <2>3, <2>4
<1> QED  BY <1>2, <1>3 DEF out

(* What waits for a host.                                                  *)
LEMMA WaitingType ==
  ASSUME NEW i \in Interface, NEW h
  PROVE  waiting(i, h) \in Seq(Nat)
<1>1. i.buffer \in Partial(Hosts, Seq(Nat))
  BY DEF Interface, Buffers
<1>2. i.buffer \in [DOMAIN i.buffer -> Seq(Nat)]
  BY <1>1, PartialIs
<1>3. <<>> \in Seq(Nat)
  OBVIOUS
<1> QED  BY <1>2, <1>3 DEF waiting

(* The datagrams w are sent to card.                                       *)
Gains(w, card) ==
  /\ sent' \in Seq(Record) /\ Len(sent') = Len(sent) + Len(w)
  /\ \A k \in 1 .. Len(sent) : sent'[k] = sent[k]
  /\ \A k \in 1 .. Len(w) : sent'[Len(sent) + k] = [dgram |-> w[k], dst |-> card]

(* They do when they are appended to what left.                            *)
LEMMA SentGains ==
  ASSUME sent \in Seq(Record), NEW w \in Seq(Nat), NEW card \in Cards, NEW t,
         t = [k \in 1 .. Len(w) |-> [dgram |-> w[k], dst |-> card]], sent' = sent \o t
  PROVE  Gains(w, card)
<1>1. Len(w) \in Nat /\ \A k \in 1 .. Len(w) : w[k] \in Nat
  OBVIOUS
<1>2. t \in Seq(Record) /\ Len(t) = Len(w)
  <2>1. \A k \in 1 .. Len(w) : [dgram |-> w[k], dst |-> card] \in Record
    BY <1>1 DEF Record
  <2>2. t \in [1 .. Len(w) -> Record]
    BY <2>1
  <2> DEFINE n == Len(w)
  <2>3. n \in Nat /\ t \in [1 .. n -> Record]
    BY <1>1, <2>2
  <2> HIDE DEF n
  <2>4. t \in Seq(Record) /\ Len(t) = n
    BY <2>3
  <2> QED  BY <2>4 DEF n
<1>3. /\ sent' \in Seq(Record) /\ Len(sent') = Len(sent) + Len(w)
      /\ \A k \in 1 .. Len(sent) : sent'[k] = sent[k]
  BY <1>1, <1>2
<1>4. ASSUME NEW k \in 1 .. Len(w) PROVE sent'[Len(sent) + k] = [dgram |-> w[k], dst |-> card]
  <2>1. sent'[Len(sent) + k] = t[k]
    BY <1>1, <1>2
  <2> QED  BY <2>1
<1> QED  BY <1>3, <1>4 DEF Gains

(* send_datagram to a known address sends the datagram.                    *)
LEMMA SendKnown ==
  ASSUME Types, NEW hop \in Hosts, NEW n \in Nat, known(ni, hop),
         Becomes(send_datagram(ni, n, hop), asked)
  PROVE  ni' = ni /\ asked' = asked /\ Gains(<<n>>, ni.map[hop].eth)
<1> DEFINE card == ni.map[hop].eth
           f == generate_ip_frame(ni, card, n)
           j == send_datagram(ni, n, hop)
<1>1. ni \in Interface /\ sent \in Seq(Record)
  BY DEF Types
<1>2. card \in Cards
  <2>1. ni.map \in Partial(Hosts, Entry)
    BY <1>1 DEF Interface, Maps
  <2>2. ni.map \in [DOMAIN ni.map -> Entry]
    BY <2>1, PartialIs
  <2> QED  BY <2>2 DEF known, Entry
<1>3. ni.out = <<>>
  BY <1>1 DEF Interface
<1>4. j = [ni EXCEPT !.out = Append(ni.out, f)]
  BY DEF send_datagram
<1> HIDE DEF card, f, j
<1>5. j.out = <<f>> /\ [j EXCEPT !.out = <<>>] = ni
  <2>1. Append(ni.out, f) = <<f>>
    BY <1>3
  <2>2. j.out = <<f>>
    BY <1>1, <1>4, <2>1 DEF Interface
  <2> QED  BY Zenon, <1>1, <1>3, <1>4, <2>2 DEF Interface
<1>6. f.type = "IPv4" /\ Numbered(f) = [dgram |-> n, dst |-> card]
  BY DEF f, generate_ip_frame, Numbered
<1>7. Datagrams(<<f>>) = 1 /\ Targets(<<f>>) = {}
  BY <1>6, OneFrame
<1>8. ni' = ni /\ asked' = asked /\ sent' = sent \o [k \in 1 .. 1 |-> Numbered(<<f>>[k])]
  BY <1>5, <1>7 DEF Becomes, j
<1>9. Gains(<<n>>, card)
  <2> DEFINE w == <<n>>
             t == [k \in 1 .. Len(w) |-> [dgram |-> w[k], dst |-> card]]
  <2>1. w \in Seq(Nat) /\ Len(w) = 1 /\ w[1] = n /\ <<f>>[1] = f /\ 1 .. 1 = {1}
    OBVIOUS
  <2> HIDE DEF w
  <2>2. [k \in 1 .. 1 |-> Numbered(<<f>>[k])] = t
    BY <1>6, <2>1
  <2> HIDE DEF t
  <2>3. sent' = sent \o t /\ t = [k \in 1 .. Len(w) |-> [dgram |-> w[k], dst |-> card]]
    BY SMTT(30), <1>8, <2>2 DEF t
  <2>4. Gains(w, card)
    BY Zenon, <1>1, <1>2, <2>1, <2>3, SentGains
  <2> QED  BY <2>4 DEF w
<1> QED  BY <1>8, <1>9 DEF card

(* send_datagram to an unknown address buffers the datagram and, when one   *)
(* is due, sends a request.                                                *)
LEMMA SendUnknown ==
  ASSUME Types, NEW hop \in Hosts, NEW n \in Nat, ~known(ni, hop),
         Becomes(send_datagram(ni, n, hop), asked)
  PROVE  LET due == request_due(ni, hop)
             w   == Append(waiting(ni, hop), n)
         IN  /\ ni' \in Interface /\ sent' = sent
             /\ ni'.map = ni.map /\ ni'.now = ni.now
             /\ ni'.arp = IF due THEN emplace(ni.arp, hop, ni.now) ELSE ni.arp
             /\ waiting(ni', hop) = w
             /\ \A h \in Hosts \ {hop} : waiting(ni', h) = waiting(ni, h)
             /\ asked' = asked \union (IF due THEN {hop} ELSE {})
<1> DEFINE due == request_due(ni, hop)
           w == Append(waiting(ni, hop), n)
           f == generate_arp_frame(ni, EMPTY_ADDRESS, hop, "request")
           arp == IF due THEN emplace(ni.arp, hop, ni.now) ELSE ni.arp
           D == DOMAIN ni.buffer \union {hop}
           buffer == [x \in D |-> IF x = hop THEN w ELSE ni.buffer[x]]
           out == IF due THEN Append(ni.out, f) ELSE ni.out
           j == send_datagram(ni, n, hop)
<1>1. ni \in Interface /\ sent \in Seq(Record)
  BY DEF Types
<1>2. /\ ni.out = <<>> /\ ni.eth = MyEth /\ ni.ip = MyIP /\ ni.now \in Nat
      /\ ni.map \in Maps /\ ni.arp \in Partial(Hosts, Nat)
      /\ ni.buffer \in Partial(Hosts, Seq(Nat))
  BY <1>1 DEF Interface, Arps, Buffers
<1>3. j = [ni EXCEPT !.out = out, !.arp = arp, !.buffer = buffer]
  BY Zenon DEF send_datagram
<1>4. w \in Seq(Nat)
  BY <1>1, WaitingType
<1>5. arp \in Arps
  <2>1. CASE due
    BY <1>2, <2>1, EmplaceAdds DEF Arps
  <2>2. CASE ~due
    BY <1>2, <2>2 DEF Arps
  <2> QED  BY <2>1, <2>2
<1>6. ni.buffer \in [DOMAIN ni.buffer -> Seq(Nat)] /\ DOMAIN ni.buffer \subseteq Hosts
  BY <1>2, PartialIs
<1> HIDE DEF w
<1>7. buffer \in Buffers /\ DOMAIN buffer = D
  <2>1. buffer \in [D -> Seq(Nat)] /\ D \in SUBSET Hosts
    BY <1>4, <1>6
  <2> HIDE DEF buffer, D
  <2> QED  BY Zenon, <2>1, PartialHas DEF Buffers
<1>8. /\ buffer[hop] = w
      /\ \A h \in Hosts \ {hop} :
           /\ h \in DOMAIN buffer <=> h \in DOMAIN ni.buffer
           /\ h \in DOMAIN ni.buffer => buffer[h] = ni.buffer[h]
  BY <1>7
<1>9. hop \in DOMAIN buffer
  BY <1>7
<1>10. IsRequest(f) /\ f.payload.target_ip = hop
  BY DEF f, generate_arp_frame, IsRequest
<1> HIDE DEF f
<1>11. Datagrams(out) = 0 /\ Targets(out) = IF due THEN {hop} ELSE {}
  <2>1. CASE due
    <3>1. out = <<f>>
      BY <1>2, <2>1
    <3>2. Datagrams(<<f>>) = 0 /\ Targets(<<f>>) = {hop}
      BY <1>10, OneFrame
    <3> QED  BY Zenon, <2>1, <3>1, <3>2
  <2>2. CASE ~due
    <3>1. out = <<>>
      BY <1>2, <2>2
    <3> QED  BY <2>2, <3>1, NoFrames
  <2> QED  BY <2>1, <2>2
<1> DEFINE T == IF due THEN {hop} ELSE {}
<1>12. Targets(out) = T
  BY <1>11
<1> HIDE DEF buffer, D, out, arp, j, due, T
<1>13. ni' = [j EXCEPT !.out = <<>>]
  BY DEF Becomes, j
<1>14. j.out = out
  BY <1>1, <1>3 DEF Interface
<1>15. /\ ni'.eth = MyEth /\ ni'.ip = MyIP /\ ni'.map = ni.map /\ ni'.arp = arp
       /\ ni'.buffer = buffer /\ ni'.now = ni.now /\ ni'.out = <<>>
  BY <1>1, <1>2, <1>3, <1>13 DEF Interface
<1>16. ni' \in Interface
  BY Zenon, <1>1, <1>3, <1>5, <1>7, <1>13 DEF Interface
<1>17. sent' = sent /\ asked' = asked \union T
  <2>1. sent' = sent \o [k \in 1 .. Datagrams(out) |-> Numbered(out[k])]
    BY <1>14 DEF Becomes, j
  <2>2. 1 .. 0 = {} /\ [k \in 1 .. 0 |-> Numbered(out[k])] = <<>>
    OBVIOUS
  <2>3. sent' = sent \o <<>>
    BY <1>11, <2>1, <2>2
  <2>4. asked' = asked \union Targets(out)
    BY <1>14 DEF Becomes, j
  <2> QED  BY <1>1, <1>12, <2>3, <2>4
<1>18. /\ waiting(ni', hop) = w
       /\ \A h \in Hosts \ {hop} : waiting(ni', h) = waiting(ni, h)
  BY <1>8, <1>9, <1>15 DEF waiting
<1> QED  BY <1>15, <1>16, <1>17, <1>18 DEF arp, due, T, w

(* A call that adds no frame and keeps all but the time.                   *)
LEMMA NothingLeaves ==
  ASSUME Types, NEW now \in Nat, Becomes([ni EXCEPT !.now = now], asked)
  PROVE  /\ ni' \in Interface /\ sent' = sent /\ asked' = asked
         /\ ni'.map = ni.map /\ ni'.arp = ni.arp /\ ni'.now = now
         /\ \A h : waiting(ni', h) = waiting(ni, h)
<1> DEFINE j == [ni EXCEPT !.now = now]
<1>1. ni \in Interface /\ sent \in Seq(Record)
  BY DEF Types
<1>2. j.out = <<>>
  BY <1>1 DEF Interface
<1>3. ni' = [j EXCEPT !.out = <<>>]
  BY DEF Becomes
<1>4. /\ ni' \in Interface /\ ni'.map = ni.map /\ ni'.arp = ni.arp /\ ni'.now = now
      /\ ni'.buffer = ni.buffer
  BY Zenon, <1>1, <1>3 DEF Interface
<1>5. sent' = sent \o [k \in 1 .. 0 |-> Numbered(j.out[k])] /\ asked' = asked \union {}
  BY <1>2, NoFrames DEF Becomes
<1>6. [k \in 1 .. 0 |-> Numbered(j.out[k])] = <<>>
  OBVIOUS
<1> QED  BY <1>1, <1>4, <1>5, <1>6 DEF waiting

(* recv_frame with an ARP message of host learns its card, unless there is *)
(* an entry, and sends there what waited.                                  *)
LEMMA RecvArp ==
  ASSUME Types, NEW host \in Hosts, NEW card \in Cards, NEW msg, msg.sender_ip = host,
         msg.sender_eth = card, NEW still, Becomes(recv_arp(ni, msg), still)
  PROVE  /\ ni' \in Interface /\ asked' = still
         /\ ni'.map = emplace(ni.map, host, [eth |-> card, at |-> ni.now])
         /\ ni'.arp = ni.arp /\ ni'.now = ni.now
         /\ waiting(ni', host) = <<>>
         /\ \A h \in Hosts \ {host} : waiting(ni', h) = waiting(ni, h)
         /\ Gains(waiting(ni, host), card)
<1> DEFINE w == waiting(ni, host)
           flushed == [k \in 1 .. Len(w) |-> generate_ip_frame(ni, card, w[k])]
           reply == generate_arp_frame(ni, card, host, "reply")
           answers == msg.target_eth = EMPTY_ADDRESS /\ msg.target_ip = ni.ip
           ans == IF answers THEN <<reply>> ELSE <<>>
           map == emplace(ni.map, host, [eth |-> card, at |-> ni.now])
           buffer == without(ni.buffer, host)
           D == DOMAIN ni.buffer \ {host}
           out == ni.out \o flushed \o ans
           j == recv_arp(ni, msg)
           F == {generate_ip_frame(ni, card, d) : d \in Nat} \union {reply}
<1>1. ni \in Interface /\ sent \in Seq(Record)
  BY DEF Types
<1>2. /\ ni.out = <<>> /\ ni.eth = MyEth /\ ni.ip = MyIP /\ ni.now \in Nat
      /\ ni.map \in Partial(Hosts, Entry) /\ ni.arp \in Arps
      /\ ni.buffer \in Partial(Hosts, Seq(Nat))
  BY <1>1 DEF Interface, Maps, Buffers
<1>3. j = [ni EXCEPT !.map = map, !.buffer = buffer, !.out = out]
  BY Zenon DEF recv_arp
<1>4. w \in Seq(Nat)
  BY <1>1, WaitingType
<1>5. map \in Maps
  <2>1. [eth |-> card, at |-> ni.now] \in Entry
    BY <1>2 DEF Entry
  <2> QED  BY <1>2, <2>1, EmplaceAdds DEF Maps
<1>6. ni.buffer \in [DOMAIN ni.buffer -> Seq(Nat)] /\ DOMAIN ni.buffer \subseteq Hosts
  BY <1>2, PartialIs
<1>7. buffer \in Buffers /\ DOMAIN buffer = D
  <2>1. buffer \in [D -> Seq(Nat)] /\ D \in SUBSET Hosts
    BY <1>6 DEF without
  <2> HIDE DEF buffer, D
  <2> QED  BY Zenon, <2>1, PartialHas DEF Buffers
<1>8. \A h \in Hosts \ {host} :
        /\ h \in DOMAIN buffer <=> h \in DOMAIN ni.buffer
        /\ h \in DOMAIN ni.buffer => buffer[h] = ni.buffer[h]
  BY <1>7 DEF without
<1>9. host \notin DOMAIN buffer
  BY <1>7
<1> HIDE DEF w, map, buffer, D, j, answers
<1>10. reply.type = "ARP" /\ ~IsRequest(reply)
  BY DEF generate_arp_frame, IsRequest
<1>11. \A d : /\ generate_ip_frame(ni, card, d).type = "IPv4"
              /\ ~IsRequest(generate_ip_frame(ni, card, d))
              /\ Numbered(generate_ip_frame(ni, card, d)) = [dgram |-> d, dst |-> card]
  BY DEF generate_ip_frame, IsRequest, Numbered
<1> HIDE DEF reply
<1>12. flushed \in Seq(F) /\ Len(flushed) = Len(w) /\ Len(w) \in Nat
  <2> DEFINE n == Len(w)
  <2>1. n \in Nat /\ \A k \in 1 .. n : generate_ip_frame(ni, card, w[k]) \in F
    BY <1>4
  <2>2. flushed \in [1 .. n -> F]
    BY <2>1
  <2> HIDE DEF n, flushed, F
  <2>3. flushed \in Seq(F) /\ Len(flushed) = n
    BY <2>1, <2>2
  <2> QED  BY <2>1, <2>3 DEF n
<1>13. ans \in Seq(F) /\ Len(ans) \in {0, 1} /\ (Len(ans) = 1 => ans[1] = reply)
  <2> HIDE DEF answers
  <2>1. CASE answers
    <3>1. ans = <<reply>> /\ reply \in F
      BY <2>1
    <3> HIDE DEF ans, F
    <3> QED  BY <3>1
  <2>2. CASE ~answers
    <3>1. ans = <<>>
      BY <2>2
    <3> HIDE DEF ans, F
    <3> QED  BY <3>1
  <2> QED  BY <2>1, <2>2
<1>14. \A k \in 1 .. Len(w) : flushed[k] = generate_ip_frame(ni, card, w[k])
  OBVIOUS
<1> HIDE DEF flushed, ans, F
<1>15. /\ out \in Seq(F) /\ Len(out) = Len(w) + Len(ans)
       /\ \A k \in 1 .. Len(w) : out[k] = flushed[k]
       /\ \A k \in 1 .. Len(out) : k > Len(w) => Len(ans) = 1 /\ out[k] = ans[1]
  <2>1. out = flushed \o ans
    <3>1. <<>> \o flushed = flushed
      BY <1>12
    <3> QED  BY <1>2, <3>1
  <2> HIDE DEF out
  <2> QED  BY SMTT(30), <1>12, <1>13, <2>1
<1> HIDE DEF out
<1>16. Datagrams(out) = Len(w)
  <2>1. Len(out) \in Nat /\ Len(w) \in 0 .. Len(out)
    BY <1>12, <1>13, <1>15
  <2>2. ASSUME NEW k \in 1 .. Len(out) PROVE IsDatagram(out[k]) <=> k <= Len(w)
    <3>1. CASE k <= Len(w)
      <4>1. k \in 1 .. Len(w)
        BY <1>12, <2>1, <3>1
      <4>2. out[k].type = "IPv4"
        BY <1>11, <1>14, <1>15, <4>1
      <4> QED  BY <3>1, <4>2 DEF IsDatagram
    <3>2. CASE ~(k <= Len(w))
      <4>1. k > Len(w)
        BY <1>12, <2>1, <3>2
      <4>2. out[k].type = "ARP"
        BY <1>10, <1>13, <1>15, <4>1
      <4> QED  BY <3>2, <4>2 DEF IsDatagram
    <3> QED  BY <3>1, <3>2
  <2> QED  BY SMTT(30), <2>1, <2>2, DatagramsAre
<1>17. Targets(out) = {}
  <2>1. ASSUME NEW k \in 1 .. Len(out) PROVE ~IsRequest(out[k])
    <3>1. CASE k <= Len(w)
      <4>1. k \in 1 .. Len(w)
        BY <1>12, <1>13, <1>15, <3>1
      <4> QED  BY <1>11, <1>14, <1>15, <4>1
    <3>2. CASE ~(k <= Len(w))
      <4>1. k > Len(w)
        BY <1>12, <1>13, <1>15, <3>2
      <4> QED  BY <1>10, <1>13, <1>15, <4>1
    <3> QED  BY <3>1, <3>2
  <2> QED  BY <2>1 DEF Targets
<1>18. ni' = [j EXCEPT !.out = <<>>] /\ j.out = out
  BY <1>1, <1>3 DEF Becomes, j, Interface
<1>19. /\ ni'.map = map /\ ni'.arp = ni.arp /\ ni'.buffer = buffer /\ ni'.now = ni.now
  BY <1>1, <1>3, <1>18 DEF Interface
<1>20. ni' \in Interface
  BY Zenon, <1>1, <1>3, <1>5, <1>7, <1>18 DEF Interface
<1>21. asked' = still
  BY <1>17, <1>18 DEF Becomes, j
<1>22. Gains(w, card)
  <2> DEFINE t == [k \in 1 .. Len(w) |-> [dgram |-> w[k], dst |-> card]]
  <2>1. sent' = sent \o [k \in 1 .. Len(w) |-> Numbered(out[k])]
    BY <1>16, <1>18 DEF Becomes, j
  <2>2. [k \in 1 .. Len(w) |-> Numbered(out[k])] = t
    BY <1>11, <1>14, <1>15
  <2> HIDE DEF t
  <2>3. sent' = sent \o t /\ t = [k \in 1 .. Len(w) |-> [dgram |-> w[k], dst |-> card]]
    BY Zenon, <2>1, <2>2 DEF t
  <2> QED  BY Zenon, <1>1, <1>4, <2>3, SentGains
<1>23. /\ waiting(ni', host) = <<>>
       /\ \A h \in Hosts \ {host} : waiting(ni', h) = waiting(ni, h)
  BY <1>8, <1>9, <1>19 DEF waiting
<1> QED  BY <1>19, <1>20, <1>21, <1>22, <1>23 DEF map, w

-----------------------------------------------------------------------------
(* The datagrams that left, after some more did.                           *)
LEMMA GainsNumbers ==
  ASSUME sent \in Seq(Record), NEW w \in Seq(Nat), NEW card \in Cards, Gains(w, card)
  PROVE  /\ Len(sent) \in Nat /\ Len(sent') = Len(sent) + Len(w)
         /\ \A k \in 1 .. Len(sent) : sent'[k].dgram = sent[k].dgram
         /\ \A k \in 1 .. Len(sent') :
              k > Len(sent) => /\ k - Len(sent) \in 1 .. Len(w)
                               /\ sent'[k].dgram = w[k - Len(sent)] /\ sent'[k].dst = card
<1>1. Len(sent) \in Nat /\ Len(w) \in Nat /\ Len(sent') = Len(sent) + Len(w)
  BY DEF Gains
<1>2. \A k \in 1 .. Len(sent) : sent'[k].dgram = sent[k].dgram
  BY DEF Gains
<1>3. ASSUME NEW k \in 1 .. Len(sent'), k > Len(sent)
      PROVE  /\ k - Len(sent) \in 1 .. Len(w)
             /\ sent'[k].dgram = w[k - Len(sent)] /\ sent'[k].dst = card
  <2> DEFINE i == k - Len(sent)
  <2>1. i \in 1 .. Len(w) /\ Len(sent) + i = k
    BY <1>1, <1>3
  <2> HIDE DEF i
  <2>2. sent'[k] = [dgram |-> w[i], dst |-> card]
    BY Zenon, <2>1 DEF Gains
  <2>3. sent'[k].dgram = w[i] /\ sent'[k].dst = card
    BY <2>2
  <2> QED  BY <2>1, <2>3 DEF i
<1> QED  BY <1>1, <1>2, <1>3

(* Nothing for the queues happens.                                         *)
LEMMA QueueSame ==
  ASSUME Handed, InOrderOnce, hops \in Seq(Hosts), hops' = hops, sent' = sent,
         \A h \in Hosts : waiting(ni', h) = waiting(ni, h)
  PROVE  Handed' /\ InOrderOnce'
<1>1. \A n \in 1 .. Len(hops) : hops[n] \in Hosts
  OBVIOUS
<1>2. Handed'
  BY DEF Handed
<1>3. InOrderOnce'
  BY <1>1 DEF InOrderOnce
<1> QED  BY <1>2, <1>3

(* An answer sends what waited for host: behind all that left for it.      *)
LEMMA QueueFlush ==
  ASSUME Types, Handed, InOrderOnce, hops' = hops, NEW host \in Hosts, NEW card \in Cards,
         Gains(waiting(ni, host), card), waiting(ni', host) = <<>>,
         \A h \in Hosts \ {host} : waiting(ni', h) = waiting(ni, h)
  PROVE  Handed' /\ InOrderOnce'
<1> DEFINE w == waiting(ni, host)
           L == Len(sent)
<1>1. w \in Seq(Nat) /\ sent \in Seq(Record) /\ hops \in Seq(Hosts)
  BY WaitingType DEF Types
<1>2. /\ L \in Nat /\ Len(w) \in Nat /\ Len(sent') = L + Len(w)
      /\ \A k \in 1 .. L : sent'[k].dgram = sent[k].dgram
      /\ \A k \in 1 .. Len(sent') :
           k > L => k - L \in 1 .. Len(w) /\ sent'[k].dgram = w[k - L]
  <2> HIDE DEF w
  <2>1. Gains(w, card)
    BY DEF w
  <2> QED  BY <1>1, <2>1, GainsNumbers
<1>3. \A k \in 1 .. Len(w) : w[k] \in 1 .. Len(hops) /\ hops[w[k]] = host
  BY DEF Handed
<1>4. Len(waiting(ni', host)) = 0
  OBVIOUS
<1> HIDE DEF w, L
<1>5. Handed'
  <2>1. ASSUME NEW h \in Hosts, NEW k \in 1 .. Len(waiting(ni', h))
        PROVE  waiting(ni', h)[k] \in 1 .. Len(hops) /\ hops[waiting(ni', h)[k]] = h
    <3>1. h # host
      BY <1>4
    <3> QED  BY <3>1 DEF Handed
  <2>2. ASSUME NEW k \in 1 .. Len(sent') PROVE sent'[k].dgram \in 1 .. Len(hops)
    <3>1. CASE k <= L
      <4>1. k \in 1 .. L
        BY <1>2, <3>1
      <4> QED  BY <1>2, <4>1 DEF Handed, L
    <3>2. CASE k > L
      BY <1>2, <1>3, <3>2
    <3> QED  BY <1>2, <3>1, <3>2
  <2> QED  BY <2>1, <2>2 DEF Handed
<1>6. ASSUME NEW n \in 1 .. Len(hops)
      PROVE  \/ \E k \in 1 .. Len(sent') : sent'[k].dgram = n
             \/ \E k \in 1 .. Len(waiting(ni', hops[n])) : waiting(ni', hops[n])[k] = n
  <2>1. hops[n] \in Hosts
    BY <1>1
  <2>2. CASE \E k \in 1 .. L : sent[k].dgram = n
    <3>1. PICK k \in 1 .. L : sent[k].dgram = n
      BY <2>2
    <3>2. k \in 1 .. Len(sent') /\ sent'[k].dgram = n
      BY <1>2, <3>1
    <3> QED  BY <3>2
  <2>3. CASE \E k \in 1 .. Len(waiting(ni, hops[n])) : waiting(ni, hops[n])[k] = n
    <3>1. CASE hops[n] = host
      <4>1. PICK k \in 1 .. Len(w) : w[k] = n
        BY <2>3, <3>1 DEF w
      <4> DEFINE i == L + k
      <4>2. i \in 1 .. Len(sent') /\ i > L /\ i - L = k
        BY <1>2
      <4> HIDE DEF i
      <4>3. sent'[i].dgram = n
        BY <1>2, <4>1, <4>2
      <4> QED  BY <4>2, <4>3
    <3>2. CASE hops[n] # host
      BY <2>1, <2>3, <3>2
    <3> QED  BY <3>1, <3>2
  <2> QED  BY <2>2, <2>3 DEF InOrderOnce, L
<1>7. ASSUME NEW k \in 1 .. Len(sent'), NEW l \in 1 .. Len(sent'), k < l,
             hops[sent'[k].dgram] = hops[sent'[l].dgram]
      PROVE  sent'[k].dgram < sent'[l].dgram
  <2>1. CASE l <= L
    <3>1. k \in 1 .. L /\ l \in 1 .. L
      BY <1>2, <1>7, <2>1
    <3>2. sent'[k].dgram = sent[k].dgram /\ sent'[l].dgram = sent[l].dgram
      BY <1>2, <3>1
    <3> QED  BY <1>7, <3>1, <3>2 DEF InOrderOnce, L
  <2>2. CASE l > L
    <3> DEFINE i == l - L
    <3>1. i \in 1 .. Len(w) /\ sent'[l].dgram = w[i] /\ hops[w[i]] = host
      BY <1>2, <1>3, <2>2
    <3> HIDE DEF i
    <3>2. CASE k <= L
      <4>1. k \in 1 .. L /\ sent'[k].dgram = sent[k].dgram
        BY <1>2, <3>2
      <4>2. hops[sent[k].dgram] = host
        BY <1>7, <3>1, <4>1
      <4>3. sent[k].dgram < w[i]
        BY <3>1, <4>1, <4>2 DEF InOrderOnce, w, L
      <4> QED  BY <3>1, <4>1, <4>3
    <3>3. CASE k > L
      <4> DEFINE j == k - L
      <4>1. j \in 1 .. Len(w) /\ sent'[k].dgram = w[j] /\ j \in 1 .. i - 1
        BY <1>2, <1>7, <3>3 DEF i
      <4> HIDE DEF j
      <4>2. w[j] < w[i]
        BY <3>1, <4>1 DEF InOrderOnce, w
      <4> QED  BY <3>1, <4>1, <4>2
    <3> QED  BY <1>2, <3>2, <3>3
  <2> QED  BY <1>2, <2>1, <2>2
<1>8. ASSUME NEW h \in Hosts, NEW l \in 1 .. Len(waiting(ni', h))
      PROVE  /\ \A k \in 1 .. l - 1 : waiting(ni', h)[k] < waiting(ni', h)[l]
             /\ \A k \in 1 .. Len(sent') :
                  hops[sent'[k].dgram] = h => sent'[k].dgram < waiting(ni', h)[l]
  <2>1. h # host
    BY <1>4
  <2>2. waiting(ni', h) = waiting(ni, h) /\ l \in 1 .. Len(waiting(ni, h))
    BY <2>1
  <2>3. \A k \in 1 .. l - 1 : waiting(ni', h)[k] < waiting(ni', h)[l]
    BY <2>2 DEF InOrderOnce
  <2>4. ASSUME NEW k \in 1 .. Len(sent'), hops[sent'[k].dgram] = h
        PROVE  sent'[k].dgram < waiting(ni', h)[l]
    <3>1. ~(k > L)
      BY <1>2, <1>3, <2>1, <2>4
    <3>2. k \in 1 .. L /\ sent'[k].dgram = sent[k].dgram
      BY <1>2, <3>1
    <3> QED  BY <2>2, <2>4, <3>2 DEF InOrderOnce, L
  <2> QED  BY <2>3, <2>4
<1>9. InOrderOnce'
  BY <1>6, <1>7, <1>8 DEF InOrderOnce
<1> QED  BY <1>5, <1>9

(* What was handed in, after one more was.                                 *)
LEMMA HandIn ==
  ASSUME hops \in Seq(Hosts), NEW hop \in Hosts, hops' = Append(hops, hop)
  PROVE  /\ Len(hops) \in Nat /\ hops' \in Seq(Hosts) /\ Len(hops') = Len(hops) + 1
         /\ hops'[Len(hops) + 1] = hop
         /\ \A n \in 1 .. Len(hops) : hops'[n] = hops[n] /\ hops[n] \in Hosts
OBVIOUS

(* A datagram for a known address leaves at once: nothing waits for its    *)
(* next hop.                                                               *)
LEMMA QueueSend ==
  ASSUME Types, Handed, InOrderOnce, NEW hop \in Hosts, hops' = Append(hops, hop),
         NEW card \in Cards, Gains(<<Len(hops) + 1>>, card), ni' = ni, waiting(ni, hop) = <<>>
  PROVE  Handed' /\ InOrderOnce'
<1> DEFINE N == Len(hops)
           m == N + 1
           w == <<m>>
           L == Len(sent)
<1>1. sent \in Seq(Record) /\ hops \in Seq(Hosts)
  BY DEF Types
<1>2. /\ N \in Nat /\ hops' \in Seq(Hosts) /\ Len(hops') = m /\ hops'[m] = hop
      /\ \A n \in 1 .. N : hops'[n] = hops[n] /\ hops[n] \in Hosts
  BY <1>1, HandIn
<1>3. w \in Seq(Nat) /\ Len(w) = 1 /\ w[1] = m
  BY <1>2
<1> HIDE DEF w
<1>4. /\ L \in Nat /\ Len(sent') = L + 1
      /\ \A k \in 1 .. L : sent'[k].dgram = sent[k].dgram
      /\ sent'[L + 1].dgram = m
  <2>1. Gains(w, card)
    BY DEF w
  <2>2. /\ L \in Nat /\ Len(sent') = L + Len(w)
        /\ \A k \in 1 .. L : sent'[k].dgram = sent[k].dgram
        /\ \A k \in 1 .. Len(sent') :
             k > L => k - L \in 1 .. Len(w) /\ sent'[k].dgram = w[k - L]
    BY Zenon, <1>1, <1>3, <2>1, GainsNumbers
  <2>3. L + 1 \in 1 .. Len(sent') /\ L + 1 > L /\ (L + 1) - L = 1
    BY <1>3, <2>2
  <2>4. sent'[L + 1].dgram = w[1]
    BY <2>2, <2>3
  <2> QED  BY <1>3, <2>2, <2>4
<1>5. \A k \in 1 .. L : sent[k].dgram \in 1 .. N
  BY DEF Handed
<1>6. Len(waiting(ni, hop)) = 0
  OBVIOUS
<1>7. \A k \in 1 .. Len(sent') : k \in 1 .. L \/ k = L + 1
  BY <1>4
<1> HIDE DEF L, N, m
<1>8. m = N + 1 /\ m \in 1 .. m
  BY <1>2 DEF m
<1>9. Handed'
  <2>1. ASSUME NEW h \in Hosts, NEW k \in 1 .. Len(waiting(ni, h))
        PROVE  waiting(ni, h)[k] \in 1 .. m /\ hops'[waiting(ni, h)[k]] = h
    <3>1. waiting(ni, h)[k] \in 1 .. N /\ hops[waiting(ni, h)[k]] = h
      BY DEF Handed, N
    <3> QED  BY <1>2, <1>8, <3>1
  <2>2. ASSUME NEW k \in 1 .. Len(sent') PROVE sent'[k].dgram \in 1 .. m
    <3>1. CASE k \in 1 .. L
      <4>1. sent'[k].dgram \in 1 .. N
        BY <1>4, <1>5, <3>1
      <4> QED  BY <1>2, <1>8, <4>1
    <3>2. CASE k = L + 1
      BY <1>4, <1>8, <3>2
    <3> QED  BY <1>7, <3>1, <3>2
  <2> QED  BY <1>2, <2>1, <2>2 DEF Handed
<1>10. ASSUME NEW n \in 1 .. Len(hops')
       PROVE  \/ \E k \in 1 .. Len(sent') : sent'[k].dgram = n
              \/ \E k \in 1 .. Len(waiting(ni', hops'[n])) : waiting(ni', hops'[n])[k] = n
  <2>1. CASE n = m
    <3>1. L + 1 \in 1 .. Len(sent') /\ sent'[L + 1].dgram = n
      BY <1>4, <2>1
    <3> QED  BY <3>1
  <2>2. CASE n # m
    <3>1. n \in 1 .. N /\ hops'[n] = hops[n]
      BY <1>2, <1>8, <2>2
    <3>2. CASE \E k \in 1 .. L : sent[k].dgram = n
      <4>1. PICK k \in 1 .. L : sent[k].dgram = n
        BY <3>2
      <4>2. k \in 1 .. Len(sent') /\ sent'[k].dgram = n
        BY <1>4, <4>1
      <4> QED  BY <4>2
    <3>3. CASE \E k \in 1 .. Len(waiting(ni, hops[n])) : waiting(ni, hops[n])[k] = n
      BY <3>1, <3>3
    <3> QED  BY Zenon, <3>1, <3>2, <3>3 DEF InOrderOnce, L, N
  <2> QED  BY <2>1, <2>2
<1>11. ASSUME NEW k \in 1 .. Len(sent'), NEW l \in 1 .. Len(sent'), k < l,
              hops'[sent'[k].dgram] = hops'[sent'[l].dgram]
       PROVE  sent'[k].dgram < sent'[l].dgram
  <2>1. k \in 1 .. L
    BY <1>4, <1>11
  <2>2. sent'[k].dgram = sent[k].dgram /\ sent[k].dgram \in 1 .. N
    BY <1>4, <1>5, <2>1
  <2>3. CASE l = L + 1
    BY <1>2, <1>4, <1>8, <2>2, <2>3
  <2>4. CASE l # L + 1
    <3>1. l \in 1 .. L /\ sent'[l].dgram = sent[l].dgram /\ sent[l].dgram \in 1 .. N
      BY <1>4, <1>5, <1>7, <2>4
    <3>2. hops[sent[k].dgram] = hops[sent[l].dgram]
      BY Zenon, <1>2, <1>11, <2>2, <3>1
    <3> QED  BY <1>11, <2>1, <2>2, <3>1, <3>2 DEF InOrderOnce, L
  <2> QED  BY <2>3, <2>4
<1>12. ASSUME NEW h \in Hosts, NEW l \in 1 .. Len(waiting(ni, h))
       PROVE  /\ \A k \in 1 .. l - 1 : waiting(ni, h)[k] < waiting(ni, h)[l]
              /\ \A k \in 1 .. Len(sent') :
                   hops'[sent'[k].dgram] = h => sent'[k].dgram < waiting(ni, h)[l]
  <2>1. h # hop
    BY <1>6
  <2>2. \A k \in 1 .. l - 1 : waiting(ni, h)[k] < waiting(ni, h)[l]
    BY DEF InOrderOnce
  <2>3. ASSUME NEW k \in 1 .. Len(sent'), hops'[sent'[k].dgram] = h
        PROVE  sent'[k].dgram < waiting(ni, h)[l]
    <3>1. k \in 1 .. L
      BY <1>2, <1>4, <1>7, <2>1, <2>3
    <3>2. sent'[k].dgram = sent[k].dgram /\ hops[sent[k].dgram] = h
      BY Zenon, <1>2, <1>4, <1>5, <2>3, <3>1
    <3> QED  BY <3>1, <3>2 DEF InOrderOnce, L
  <2> QED  BY Zenon, <2>2, <2>3
<1>13. InOrderOnce'
  BY Zenon, <1>10, <1>11, <1>12 DEF InOrderOnce
<1> QED  BY <1>9, <1>13

(* A datagram for an unknown address waits, behind those that wait.        *)
LEMMA QueueWait ==
  ASSUME Types, Handed, InOrderOnce, NEW hop \in Hosts, hops' = Append(hops, hop), sent' = sent,
         waiting(ni', hop) = Append(waiting(ni, hop), Len(hops) + 1),
         \A h \in Hosts \ {hop} : waiting(ni', h) = waiting(ni, h)
  PROVE  Handed' /\ InOrderOnce'
<1> DEFINE N == Len(hops)
           m == N + 1
           w == waiting(ni, hop)
           v == waiting(ni', hop)
<1>1. sent \in Seq(Record) /\ hops \in Seq(Hosts) /\ w \in Seq(Nat)
  BY WaitingType DEF Types
<1>2. /\ N \in Nat /\ hops' \in Seq(Hosts) /\ Len(hops') = m /\ hops'[m] = hop
      /\ \A n \in 1 .. N : hops'[n] = hops[n] /\ hops[n] \in Hosts
  BY <1>1, HandIn
<1>3. /\ Len(w) \in Nat /\ Len(v) = Len(w) + 1 /\ v[Len(w) + 1] = m
      /\ \A k \in 1 .. Len(w) : v[k] = w[k]
  BY <1>1, <1>2
<1>4. /\ \A k \in 1 .. Len(w) : w[k] \in 1 .. N /\ hops[w[k]] = hop
      /\ \A k \in 1 .. Len(sent) : sent[k].dgram \in 1 .. N
  BY DEF Handed
<1>5. m = N + 1 /\ m \in 1 .. m
  BY <1>2
<1> HIDE DEF N, m, w, v
<1>6. \A k \in 1 .. Len(v) : k \in 1 .. Len(w) \/ k = Len(w) + 1
  BY <1>3
<1>7. Handed'
  <2>1. ASSUME NEW h \in Hosts, NEW k \in 1 .. Len(waiting(ni', h))
        PROVE  waiting(ni', h)[k] \in 1 .. m /\ hops'[waiting(ni', h)[k]] = h
    <3>1. CASE h = hop
      <4>1. k \in 1 .. Len(v)
        BY <3>1 DEF v
      <4>2. v[k] \in 1 .. m /\ hops'[v[k]] = hop
        BY SMTT(30), <1>2, <1>3, <1>4, <1>5, <1>6, <4>1
      <4> QED  BY Zenon, <3>1, <4>2 DEF v
    <3>2. CASE h # hop
      <4>1. waiting(ni, h)[k] \in 1 .. N /\ hops[waiting(ni, h)[k]] = h
        BY <3>2 DEF Handed, N
      <4>2. waiting(ni', h) = waiting(ni, h)
        BY <3>2
      <4> QED  BY <1>2, <1>5, <4>1, <4>2
    <3> QED  BY Zenon, <3>1, <3>2
  <2>2. ASSUME NEW k \in 1 .. Len(sent) PROVE sent[k].dgram \in 1 .. m
    BY <1>2, <1>4, <1>5
  <2> QED  BY <1>2, <2>1, <2>2 DEF Handed
<1>8. ASSUME NEW n \in 1 .. Len(hops')
      PROVE  \/ \E k \in 1 .. Len(sent) : sent[k].dgram = n
             \/ \E k \in 1 .. Len(waiting(ni', hops'[n])) : waiting(ni', hops'[n])[k] = n
  <2>1. CASE n = m
    <3>1. Len(w) + 1 \in 1 .. Len(v) /\ v[Len(w) + 1] = n
      BY <1>3, <2>1
    <3> QED  BY <1>2, <2>1, <3>1 DEF v
  <2>2. CASE n # m
    <3>1. n \in 1 .. N /\ hops'[n] = hops[n] /\ hops[n] \in Hosts
      BY <1>2, <1>5, <2>2
    <3>2. CASE \E k \in 1 .. Len(waiting(ni, hops[n])) : waiting(ni, hops[n])[k] = n
      <4>1. CASE hops[n] = hop
        <5>1. PICK k \in 1 .. Len(w) : w[k] = n
          BY <3>2, <4>1 DEF w
        <5>2. k \in 1 .. Len(v) /\ v[k] = n
          BY <1>3, <5>1
        <5> QED  BY <3>1, <4>1, <5>2 DEF v
      <4>2. CASE hops[n] # hop
        BY <3>1, <3>2, <4>2
      <4> QED  BY <4>1, <4>2
    <3> QED  BY Zenon, <3>1, <3>2 DEF InOrderOnce, N
  <2> QED  BY <2>1, <2>2
<1>9. ASSUME NEW k \in 1 .. Len(sent), NEW l \in 1 .. Len(sent), k < l,
             hops'[sent[k].dgram] = hops'[sent[l].dgram]
      PROVE  sent[k].dgram < sent[l].dgram
  <2>1. hops[sent[k].dgram] = hops[sent[l].dgram]
    BY Zenon, <1>2, <1>4, <1>9
  <2> QED  BY Zenon, <1>9, <2>1 DEF InOrderOnce
<1>10. ASSUME NEW h \in Hosts, NEW l \in 1 .. Len(waiting(ni', h))
       PROVE  /\ \A k \in 1 .. l - 1 : waiting(ni', h)[k] < waiting(ni', h)[l]
              /\ \A k \in 1 .. Len(sent) :
                   hops'[sent[k].dgram] = h => sent[k].dgram < waiting(ni', h)[l]
  <2>1. \A k \in 1 .. Len(sent) : hops'[sent[k].dgram] = hops[sent[k].dgram]
    BY Zenon, <1>2, <1>4
  <2>2. CASE h # hop
    <3>1. waiting(ni', h) = waiting(ni, h)
      BY <2>2
    <3> QED  BY Zenon, <2>1, <3>1 DEF InOrderOnce
  <2>3. CASE h = hop
    <3>1. l \in 1 .. Len(v)
      BY <2>3 DEF v
    <3>2. CASE l = Len(w) + 1
      <4>1. ASSUME NEW k \in 1 .. l - 1 PROVE v[k] < v[l]
        BY <1>2, <1>3, <1>4, <1>5, <3>2
      <4>2. ASSUME NEW k \in 1 .. Len(sent) PROVE sent[k].dgram < v[l]
        BY <1>2, <1>3, <1>4, <1>5, <3>2
      <4> QED  BY <2>3, <4>1, <4>2 DEF v
    <3>3. CASE l \in 1 .. Len(w)
      <4>1. v[l] = w[l] /\ \A k \in 1 .. l - 1 : k \in 1 .. Len(w) /\ v[k] = w[k]
        BY <1>3, <3>3
      <4>2. \A k \in 1 .. l - 1 : w[k] < w[l]
        BY <3>3 DEF InOrderOnce, w
      <4>3. \A k \in 1 .. Len(sent) : hops[sent[k].dgram] = hop => sent[k].dgram < w[l]
        BY <3>3 DEF InOrderOnce, w
      <4>4. \A k \in 1 .. l - 1 : v[k] < v[l]
        BY <4>1, <4>2
      <4>5. \A k \in 1 .. Len(sent) : hops'[sent[k].dgram] = hop => sent[k].dgram < v[l]
        BY Zenon, <2>1, <4>1, <4>3
      <4> QED  BY Zenon, <2>3, <4>4, <4>5 DEF v
    <3> QED  BY Zenon, <1>6, <3>1, <3>2, <3>3
  <2> QED  BY Zenon, <2>2, <2>3
<1>11. InOrderOnce'
  BY Zenon, <1>8, <1>9, <1>10 DEF InOrderOnce
<1> QED  BY <1>7, <1>11

-----------------------------------------------------------------------------
(* The maps of the interface.                                              *)
LEMMA MapTypes ==
  ASSUME NEW i \in Interface
  PROVE  /\ i.map \in Partial(Hosts, Entry) /\ i.arp \in Partial(Hosts, Nat) /\ i.now \in Nat
         /\ DOMAIN i.map \subseteq Hosts /\ DOMAIN i.arp \subseteq Hosts
         /\ \A h \in DOMAIN i.map : i.map[h].eth \in Cards /\ i.map[h].at \in Nat
         /\ \A h \in DOMAIN i.arp : i.arp[h] \in Nat
<1>1. i.map \in Partial(Hosts, Entry) /\ i.arp \in Partial(Hosts, Nat) /\ i.now \in Nat
  BY DEF Interface, Maps, Arps
<1>2. /\ DOMAIN i.map \subseteq Hosts /\ i.map \in [DOMAIN i.map -> Entry]
      /\ DOMAIN i.arp \subseteq Hosts /\ i.arp \in [DOMAIN i.arp -> Nat]
  BY <1>1, PartialIs
<1>3. \A h \in DOMAIN i.map : i.map[h].eth \in Cards /\ i.map[h].at \in Nat
  <2>1. \A h \in DOMAIN i.map : i.map[h] \in Entry
    BY <1>2
  <2> QED  BY <2>1 DEF Entry
<1> QED  BY <1>1, <1>2, <1>3

(* AddressFresh for the datagrams of one step.                             *)
Fresh ==
  \A k \in Len(sent) + 1 .. Len(sent') :
    LET at == heard'[<<hops'[sent'[k].dgram], sent'[k].dst>>]
    IN  at # Never /\ ni'.now - at < IP_TO_ETHERNET_LIMIT

(* A step that sends nothing.                                              *)
LEMMA NoneSent ==
  ASSUME Types, sent' = sent
  PROVE  Fresh
<1>1. Len(sent) \in Nat /\ Len(sent) + 1 .. Len(sent') = {}
  BY DEF Types
<1> QED  BY <1>1 DEF Fresh

(* send_datagram: the step.                                                *)
LEMMA SendInv ==
  ASSUME InterfaceInv, NEW hop \in Hosts, send(hop)
  PROVE  InterfaceInv' /\ Fresh
<1> DEFINE n == Len(hops) + 1
<1>1. /\ Types /\ Handed /\ InOrderOnce /\ MapHeard /\ ni \in Interface /\ hops \in Seq(Hosts)
      /\ sent \in Seq(Record) /\ asked \subseteq Hosts /\ heard \in [Hosts \X Cards -> Int]
  BY DEF InterfaceInv, Types
<1>2. /\ hops' = Append(hops, hop) /\ heard' = heard
      /\ Becomes(send_datagram(ni, n, hop), asked)
  BY DEF send
<1>3. /\ Len(hops) \in Nat /\ n \in Nat /\ hops' \in Seq(Hosts) /\ hops'[n] = hop
  BY <1>1, <1>2, HandIn
<1>4. /\ ni.now \in Nat /\ DOMAIN ni.map \subseteq Hosts /\ DOMAIN ni.arp \subseteq Hosts
      /\ \A h \in DOMAIN ni.map : ni.map[h].eth \in Cards /\ ni.map[h].at \in Nat
      /\ \A h \in DOMAIN ni.arp : ni.arp[h] \in Nat
  BY <1>1, MapTypes
<1> HIDE DEF n
<1>5. CASE known(ni, hop)
  <2> DEFINE card == ni.map[hop].eth
             w == <<n>>
  <2>1. hop \in DOMAIN ni.map /\ ni.now - ni.map[hop].at < IP_TO_ETHERNET_LIMIT
    BY <1>5 DEF known
  <2>2. card \in Cards /\ ni.map[hop].at \in Nat
    BY <1>4, <2>1
  <2>3. ni' = ni /\ asked' = asked /\ Gains(w, card)
    BY <1>1, <1>2, <1>3, <1>5, SendKnown
  <2>4. waiting(ni, hop) = <<>>
    BY <1>5 DEF InterfaceInv
  <2>5. Handed' /\ InOrderOnce'
    <3>1. Gains(<<Len(hops) + 1>>, card)
      BY <2>3 DEF n
    <3> HIDE DEF card
    <3> QED  BY <1>1, <1>2, <2>2, <2>3, <2>4, <3>1, QueueSend
  <2>6. Types'
    BY SMTT(30), <1>1, <1>2, <1>3, <2>3 DEF Types, Gains
  <2>7. MapHeard' /\ \A h \in Hosts \ Announcers : Asking(h)'
    BY <1>2, <2>3 DEF InterfaceInv, MapHeard, Asking, waiting
  <2>8. \A h \in Hosts : waiting(ni', h) # <<>> => ~known(ni', h)
    BY <2>3 DEF InterfaceInv
  <2>9. Fresh
    <3> HIDE DEF w, card
    <3>1. w \in Seq(Nat) /\ Len(w) = 1 /\ w[1] = n
      BY <1>3 DEF w
    <3>2. /\ Len(sent) \in Nat /\ Len(sent') = Len(sent) + Len(w)
          /\ \A k \in 1 .. Len(sent') :
               k > Len(sent) => /\ k - Len(sent) \in 1 .. Len(w)
                                /\ sent'[k].dgram = w[k - Len(sent)] /\ sent'[k].dst = card
      BY Zenon, <1>1, <2>2, <2>3, <3>1, GainsNumbers
    <3>3. ASSUME NEW k \in Len(sent) + 1 .. Len(sent')
          PROVE  sent'[k].dgram = n /\ sent'[k].dst = card
      <4>1. k \in 1 .. Len(sent') /\ k > Len(sent) /\ k - Len(sent) = 1
        BY <3>1, <3>2
      <4> QED  BY <3>1, <3>2, <4>1
    <3>4. heard[<<hop, card>>] >= ni.map[hop].at /\ heard[<<hop, card>>] \in Int
      BY <1>1, <2>1, <2>2 DEF MapHeard, card
    <3>5. heard[<<hop, card>>] # Never /\ ni.now - heard[<<hop, card>>] < IP_TO_ETHERNET_LIMIT
      BY <1>4, <2>1, <2>2, <3>4, LimitAssumption DEF Never
    <3> QED  BY Zenon, <1>2, <1>3, <2>3, <3>3, <3>5 DEF Fresh
  <2> QED  BY <2>5, <2>6, <2>7, <2>8, <2>9 DEF InterfaceInv
<1>6. CASE ~known(ni, hop)
  <2> DEFINE due == request_due(ni, hop)
             T == IF due THEN {hop} ELSE {}
  <2>1. /\ ni' \in Interface /\ sent' = sent /\ ni'.map = ni.map /\ ni'.now = ni.now
        /\ ni'.arp = IF due THEN emplace(ni.arp, hop, ni.now) ELSE ni.arp
        /\ waiting(ni', hop) = Append(waiting(ni, hop), n)
        /\ \A h \in Hosts \ {hop} : waiting(ni', h) = waiting(ni, h)
        /\ asked' = asked \union T
    BY <1>1, <1>2, <1>3, <1>6, SendUnknown
  <2>2. Handed' /\ InOrderOnce'
    BY <1>1, <1>2, <2>1, QueueWait DEF n
  <2>3. Types'
    BY <1>1, <1>2, <1>3, <2>1 DEF Types
  <2>4. Fresh
    BY <1>1, <2>1, NoneSent
  <2>5. \A h \in Hosts : known(ni', h) <=> known(ni, h)
    BY <2>1 DEF known
  <2>6. \A h \in Hosts : waiting(ni', h) # <<>> => ~known(ni', h)
    <3>1. ASSUME NEW h \in Hosts, waiting(ni', h) # <<>> PROVE ~known(ni', h)
      <4>1. CASE h = hop
        BY <1>6, <2>5, <4>1
      <4>2. CASE h # hop
        BY <2>1, <2>5, <3>1, <4>2 DEF InterfaceInv
      <4> QED  BY <4>1, <4>2
    <3> QED  BY <3>1
  <2>7. /\ DOMAIN ni.arp \subseteq DOMAIN ni'.arp
        /\ \A h \in DOMAIN ni.arp : ni'.arp[h] = ni.arp[h]
        /\ \A h \in DOMAIN ni'.arp :
             h \in DOMAIN ni.arp \/ (h = hop /\ ni'.arp[h] = ni.now /\ due)
        /\ due => hop \in DOMAIN ni'.arp
        /\ ~due => hop \in DOMAIN ni.arp /\ ni.now - ni.arp[hop] < ARP_TIME_LIMIT
    <3>1. CASE due
      <4>1. ni.arp \in Partial(Hosts, Nat)
        BY <1>1, MapTypes
      <4> DEFINE g == emplace(ni.arp, hop, ni.now)
      <4>2. /\ DOMAIN g = DOMAIN ni.arp \union {hop}
            /\ \A x \in DOMAIN ni.arp : g[x] = ni.arp[x]
            /\ hop \notin DOMAIN ni.arp => g[hop] = ni.now
        <5>1. Emplaced(ni.arp, hop, ni.now, g)
          BY <1>4, <4>1, EmplaceAdds
        <5> QED  BY <5>1 DEF Emplaced
      <4>3. ni'.arp = g
        BY <2>1, <3>1
      <4> HIDE DEF g
      <4> QED  BY <3>1, <4>2, <4>3
    <3>2. CASE ~due
      <4>1. ni'.arp = ni.arp
        BY <2>1, <3>2
      <4>2. hop \in DOMAIN ni.arp /\ ~(ni.now - ni.arp[hop] >= ARP_TIME_LIMIT)
        BY <3>2 DEF request_due
      <4>3. ni.now - ni.arp[hop] < ARP_TIME_LIMIT
        BY SMTT(30), <1>4, <4>2, LimitAssumption
      <4> QED  BY <3>2, <4>1, <4>2, <4>3
    <3> QED  BY <3>1, <3>2
  <2>8. MapHeard'
    <3>1. \A h \in DOMAIN ni'.arp : ni'.arp[h] <= ni.now
      BY <1>1, <1>4, <2>7 DEF MapHeard
    <3> QED  BY <1>1, <1>2, <2>1, <3>1 DEF MapHeard
  <2>9. ASSUME NEW h \in Hosts \ Announcers PROVE Asking(h)'
    <3>1. Asking(h)
      BY DEF InterfaceInv
    <3>2. CASE h # hop
      <4>1. /\ waiting(ni', h) = waiting(ni, h) /\ (h \in asked' <=> h \in asked)
            /\ h \in DOMAIN ni'.arp <=> h \in DOMAIN ni.arp
            /\ h \in DOMAIN ni.arp => ni'.arp[h] = ni.arp[h]
        <5>1. waiting(ni', h) = waiting(ni, h)
          BY <2>1, <3>2
        <5>2. h \in asked' <=> h \in asked
          BY <2>1, <3>2
        <5>3. /\ h \in DOMAIN ni'.arp <=> h \in DOMAIN ni.arp
              /\ h \in DOMAIN ni.arp => ni'.arp[h] = ni.arp[h]
          BY <2>7, <3>2
        <5> QED  BY <5>1, <5>2, <5>3
      <4> QED  BY <2>1, <3>1, <4>1 DEF Asking
    <3>3. CASE h = hop
      <4>1. hop \in asked'
        <5>1. CASE due
          BY <2>1, <5>1
        <5>2. CASE ~due
          <6>1. hop \in DOMAIN ni.arp /\ ni.now - ni.arp[hop] < ARP_TIME_LIMIT
            BY <2>7, <5>2
          <6>2. CASE hop \in DOMAIN ni.map
            <7>1. ~(ni.now - ni.map[hop].at < IP_TO_ETHERNET_LIMIT)
              BY <1>6, <6>2 DEF known
            <7>2. ni.arp[hop] <= ni.map[hop].at
              BY <3>1, <3>3, <6>2 DEF Asking
            <7> QED  BY <1>4, <6>1, <6>2, <7>1, <7>2, LimitAssumption
          <6>3. CASE hop \notin DOMAIN ni.map
            BY <2>1, <3>1, <3>3, <6>1, <6>3 DEF Asking
          <6> QED  BY <6>2, <6>3
        <5> QED  BY <5>1, <5>2
      <4>2. hop \in DOMAIN ni'.arp
        BY <2>7
      <4>3. hop \in DOMAIN ni.map => ni'.arp[hop] <= ni.map[hop].at
        BY <2>7, <3>1, <3>3 DEF Asking
      <4> QED  BY <2>1, <3>3, <4>1, <4>2, <4>3 DEF Asking
    <3> QED  BY <3>2, <3>3
  <2> QED  BY <2>2, <2>3, <2>4, <2>6, <2>8, <2>9 DEF InterfaceInv
<1> QED  BY <1>5, <1>6

(* An ARP message of host, which answers a request or is of a host that     *)
(* also sends on its own: the step.                                         *)
LEMMA ArpInv ==
  ASSUME InterfaceInv, NEW host \in Hosts, NEW card \in Cards, NEW still \in SUBSET Hosts,
         \A h \in Hosts \ {host} : h \in still <=> h \in asked,
         host \in asked \/ host \in Announcers,
         NEW msg, msg.sender_ip = host, msg.sender_eth = card, Becomes(recv_arp(ni, msg), still),
         heard' = [heard EXCEPT ![<<host, card>>] = ni.now], hops' = hops
  PROVE  InterfaceInv' /\ Fresh
<1> DEFINE new == [eth |-> card, at |-> ni.now]
           w == waiting(ni, host)
<1>1. /\ Types /\ Handed /\ InOrderOnce /\ MapHeard /\ ni \in Interface /\ hops \in Seq(Hosts)
      /\ sent \in Seq(Record) /\ asked \subseteq Hosts /\ heard \in [Hosts \X Cards -> Int]
  BY DEF InterfaceInv, Types
<1>2. /\ ni.now \in Nat /\ DOMAIN ni.map \subseteq Hosts /\ DOMAIN ni.arp \subseteq Hosts
      /\ ni.map \in Partial(Hosts, Entry)
      /\ \A h \in DOMAIN ni.map : ni.map[h].eth \in Cards /\ ni.map[h].at \in Nat
      /\ \A h \in DOMAIN ni.arp : ni.arp[h] \in Nat
  BY SMTT(30), <1>1, MapTypes
<1>3. /\ ni' \in Interface /\ asked' = still /\ ni'.map = emplace(ni.map, host, new)
      /\ ni'.arp = ni.arp /\ ni'.now = ni.now /\ waiting(ni', host) = <<>>
      /\ \A h \in Hosts \ {host} : waiting(ni', h) = waiting(ni, h)
      /\ Gains(w, card)
  BY <1>1, RecvArp
<1>4. /\ DOMAIN ni'.map = DOMAIN ni.map \union {host}
      /\ \A x \in DOMAIN ni.map : ni'.map[x] = ni.map[x]
      /\ host \notin DOMAIN ni.map => ni'.map[host] = new
  <2>1. new \in Entry
    BY SMTT(30), <1>2 DEF Entry
  <2> HIDE DEF new
  <2>2. Emplaced(ni.map, host, new, ni'.map)
    BY <1>2, <1>3, <2>1, EmplaceAdds
  <2> QED  BY SMTT(30), <2>2 DEF Emplaced
<1>5. new.eth = card /\ new.at = ni.now
  OBVIOUS
<1>6. /\ heard' \in [Hosts \X Cards -> Int] /\ heard'[<<host, card>>] = ni.now
      /\ \A x \in Hosts \X Cards : x # <<host, card>> => heard'[x] = heard[x]
  BY <1>1, <1>2
<1>7. w \in Seq(Nat)
  BY <1>1, WaitingType
<1> HIDE DEF new, w
<1>8. Handed' /\ InOrderOnce'
  <2>1. Gains(waiting(ni, host), card)
    BY SMTT(30), <1>3 DEF w
  <2> QED  BY <1>1, <1>3, <2>1, QueueFlush
<1>9. Types'
  BY <1>1, <1>3, <1>6 DEF Types, Gains
<1>10. \A h \in Hosts : \A c \in Cards :
         heard[<<h, c>>] <= heard'[<<h, c>>] /\ heard'[<<h, c>>] <= ni.now
  <2>1. ASSUME NEW h \in Hosts, NEW c \in Cards
        PROVE  heard[<<h, c>>] <= heard'[<<h, c>>] /\ heard'[<<h, c>>] <= ni.now
    <3>1. heard[<<h, c>>] <= ni.now /\ heard[<<h, c>>] \in Int
      BY <1>1 DEF MapHeard
    <3>2. CASE <<h, c>> = <<host, card>>
      BY <1>2, <1>6, <3>1, <3>2
    <3>3. CASE <<h, c>> # <<host, card>>
      BY SMTT(30), <1>2, <1>6, <3>1, <3>3
    <3> QED  BY <3>2, <3>3
  <2> QED  BY Zenon, <2>1
<1>11. MapHeard'
  <2>1. ASSUME NEW h \in DOMAIN ni'.map PROVE ni'.map[h].at <= heard'[<<h, ni'.map[h].eth>>]
    <3>1. CASE h \in DOMAIN ni.map
      <4> DEFINE c == ni.map[h].eth
                 t == ni.map[h].at
      <4>1. c \in Cards /\ t \in Nat /\ h \in Hosts /\ t <= heard[<<h, c>>]
        BY <1>1, <1>2, <3>1 DEF MapHeard
      <4>2. ni'.map[h].eth = c /\ ni'.map[h].at = t
        BY <1>4, <3>1
      <4> HIDE DEF c, t
      <4>3. heard[<<h, c>>] \in Int /\ heard'[<<h, c>>] \in Int
        BY SMTT(30), <1>1, <1>6, <4>1
      <4> QED  BY SMTT(30), <1>10, <4>1, <4>2, <4>3
    <3>2. CASE h \notin DOMAIN ni.map
      <4>1. h = host /\ ni'.map[h].eth = card /\ ni'.map[h].at = ni.now
        BY SMTT(30), <1>4, <1>5, <3>2
      <4> QED  BY <1>2, <1>6, <4>1
    <3> QED  BY <3>1, <3>2
  <2> QED  BY SMTT(30), <1>1, <1>3, <1>10, <2>1 DEF MapHeard
<1>12. ASSUME NEW h \in Hosts, waiting(ni', h) # <<>> PROVE ~known(ni', h)
  <2>1. h # host
    BY <1>3, <1>12
  <2>2. ~known(ni, h)
    BY <1>3, <1>12, <2>1 DEF InterfaceInv
  <2> QED  BY <1>3, <1>4, <2>1, <2>2 DEF known
<1>13. ASSUME NEW h \in Hosts \ Announcers PROVE Asking(h)'
  <2>1. Asking(h)
    BY SMTT(30) DEF InterfaceInv
  <2>2. CASE h = host
    <3>1. host \in asked
      BY <2>2
    <3>2. host \in DOMAIN ni.arp
      BY <2>1, <2>2, <3>1 DEF Asking
    <3>3. host \in DOMAIN ni'.map /\ ni.arp[host] <= ni'.map[host].at
      <4>1. CASE host \in DOMAIN ni.map
        BY <1>4, <2>1, <2>2, <4>1 DEF Asking
      <4>2. CASE host \notin DOMAIN ni.map
        BY SMTT(30), <1>1, <1>4, <1>5, <3>2, <4>2 DEF MapHeard
      <4> QED  BY <4>1, <4>2
    <3> QED  BY <1>3, <2>2, <3>2, <3>3 DEF Asking
  <2>3. CASE h # host
    <3>1. /\ h \in asked' <=> h \in asked
          /\ waiting(ni', h) = waiting(ni, h)
          /\ h \in DOMAIN ni'.map <=> h \in DOMAIN ni.map
          /\ h \in DOMAIN ni.map => ni'.map[h] = ni.map[h]
      <4>1. (h \in asked' <=> h \in asked) /\ waiting(ni', h) = waiting(ni, h)
        BY SMTT(30), <1>3, <2>3
      <4> QED  BY <1>4, <2>3, <4>1
    <3> QED  BY SMTT(30), <1>3, <2>1, <3>1 DEF Asking
  <2> QED  BY <2>2, <2>3
<1>14. Fresh
  <2>1. /\ Len(sent) \in Nat /\ Len(sent') = Len(sent) + Len(w)
        /\ \A k \in 1 .. Len(sent') :
             k > Len(sent) => /\ k - Len(sent) \in 1 .. Len(w)
                              /\ sent'[k].dgram = w[k - Len(sent)] /\ sent'[k].dst = card
    BY SMTT(30), <1>1, <1>3, <1>7, GainsNumbers
  <2>2. \A k \in 1 .. Len(w) : hops[w[k]] = host
    BY <1>1 DEF Handed, w
  <2>3. ASSUME NEW k \in Len(sent) + 1 .. Len(sent')
        PROVE  hops[sent'[k].dgram] = host /\ sent'[k].dst = card
    <3>1. k \in 1 .. Len(sent') /\ k > Len(sent)
      BY <1>7, <2>1
    <3> QED  BY <2>1, <2>2, <3>1
  <2>4. ni.now # Never /\ ni.now - ni.now < IP_TO_ETHERNET_LIMIT
    BY <1>2, LimitAssumption DEF Never
  <2> QED  BY SMTT(30), <1>3, <1>6, <2>3, <2>4 DEF Fresh
<1> QED  BY <1>8, <1>9, <1>11, <1>12, <1>13, <1>14 DEF InterfaceInv

(* tick, and calls that change nothing: the step.                          *)
LEMMA QuietInv ==
  ASSUME InterfaceInv, NEW now \in Nat, ni.now <= now, Becomes([ni EXCEPT !.now = now], asked),
         UNCHANGED <<hops, heard>>
  PROVE  InterfaceInv' /\ Fresh
<1>1. /\ Types /\ Handed /\ InOrderOnce /\ MapHeard /\ ni \in Interface /\ hops \in Seq(Hosts)
      /\ sent \in Seq(Record) /\ asked \subseteq Hosts /\ heard \in [Hosts \X Cards -> Int]
  BY DEF InterfaceInv, Types
<1>2. /\ ni.now \in Nat /\ DOMAIN ni.map \subseteq Hosts /\ DOMAIN ni.arp \subseteq Hosts
      /\ \A h \in DOMAIN ni.map : ni.map[h].eth \in Cards /\ ni.map[h].at \in Nat
      /\ \A h \in DOMAIN ni.arp : ni.arp[h] \in Nat
  BY <1>1, MapTypes
<1>3. /\ ni' \in Interface /\ sent' = sent /\ asked' = asked
      /\ ni'.map = ni.map /\ ni'.arp = ni.arp /\ ni'.now = now
      /\ \A h : waiting(ni', h) = waiting(ni, h)
  BY <1>1, NothingLeaves
<1>4. Types'
  BY <1>1, <1>3 DEF Types
<1>5. MapHeard'
  <2>1. \A h \in Hosts : \A c \in Cards : heard[<<h, c>>] \in Int
    BY <1>1
  <2>2. \A h \in Hosts : \A c \in Cards : heard[<<h, c>>] <= now
    <3>1. ASSUME NEW h \in Hosts, NEW c \in Cards PROVE heard[<<h, c>>] <= now
      <4>1. heard[<<h, c>>] \in Int /\ heard[<<h, c>>] <= ni.now
        BY <1>1, <2>1 DEF MapHeard
      <4> QED  BY <1>2, <4>1
    <3> QED  BY Zenon, <3>1
  <2>3. \A h \in DOMAIN ni.arp : ni.arp[h] <= now
    BY <1>1, <1>2 DEF MapHeard
  <2> QED  BY <1>1, <1>3, <2>2, <2>3 DEF MapHeard
<1>6. ASSUME NEW h \in Hosts \ Announcers PROVE Asking(h)'
  <2>1. Asking(h)
    BY DEF InterfaceInv
  <2> QED  BY <1>3, <2>1 DEF Asking
<1>7. ASSUME NEW h \in Hosts, waiting(ni', h) # <<>> PROVE ~known(ni', h)
  <2>1. ~known(ni, h)
    BY <1>3, <1>7 DEF InterfaceInv
  <2>2. CASE h \in DOMAIN ni.map
    BY <1>2, <1>3, <2>1, <2>2, LimitAssumption DEF known
  <2>3. CASE h \notin DOMAIN ni.map
    BY <1>3, <2>3 DEF known
  <2> QED  BY <2>2, <2>3
<1>8. Handed' /\ InOrderOnce'
  BY <1>1, <1>3, QueueSame
<1>9. Fresh
  BY <1>1, <1>3, NoneSent
<1> QED  BY <1>4, <1>5, <1>6, <1>7, <1>8, <1>9 DEF InterfaceInv

(* Every step keeps the invariant and sends to fresh addresses only.       *)
LEMMA StepInv ==
  ASSUME InterfaceInv, [Next]_vars
  PROVE  InterfaceInv' /\ (Next => Fresh)
<1>1. /\ ni \in Interface /\ ni.now \in Nat /\ ni.eth = MyEth /\ asked \subseteq Hosts
      /\ Announcers \subseteq Hosts
  BY LanAssumption DEF InterfaceInv, Types, Interface
<1>2. ASSUME NEW host \in Hosts, NEW card \in Cards, NEW dst, NEW opcode, NEW ip, NEW eth,
             NEW still, dst \in {MyEth, ETHERNET_BROADCAST}, still \in SUBSET Hosts,
             \A h \in Hosts \ {host} : h \in still <=> h \in asked,
             host \in asked \/ host \in Announcers,
             Arp(ArpFrame(dst, opcode, host, card, ip, eth), host, card, still)
      PROVE  InterfaceInv' /\ Fresh
  <2> DEFINE frame == ArpFrame(dst, opcode, host, card, ip, eth)
             msg == frame.payload
  <2>1. /\ frame.dst = dst /\ frame.type = "ARP" /\ msg.sender_ip = host
        /\ msg.sender_eth = card
    BY DEF ArpFrame
  <2> HIDE DEF frame
  <2>2. recv_frame(ni, frame, TRUE) = recv_arp(ni, msg)
    BY <1>1, <1>2, <2>1 DEF recv_frame, for_us
  <2>3. /\ Becomes(recv_arp(ni, msg), still) /\ hops' = hops
        /\ heard' = [heard EXCEPT ![<<host, card>>] = ni.now]
    BY Zenon, <1>2, <2>2 DEF Arp, frame
  <2> HIDE DEF msg
  <2> QED  BY Zenon, <1>2, <2>1, <2>3, ArpInv DEF msg
<1>3. ASSUME NEW hop \in Hosts, send(hop) PROVE InterfaceInv' /\ Fresh
  BY <1>3, SendInv
<1>4. ASSUME NEW host \in Hosts, NEW card \in Cards, answer(host, card)
      PROVE  InterfaceInv' /\ Fresh
  <2> DEFINE still == asked \ {host}
  <2>1. /\ host \in asked
        /\ Arp(ArpFrame(MyEth, "reply", host, card, MyIP, MyEth), host, card, still)
    BY <1>4 DEF answer
  <2>2. still \in SUBSET Hosts /\ \A h \in Hosts \ {host} : h \in still <=> h \in asked
    BY <1>1
  <2> HIDE DEF still
  <2> QED  BY <1>2, <2>1, <2>2
<1>5. ASSUME NEW host \in Announcers, NEW card \in Cards, NEW ip, announce(host, card, ip)
      PROVE  InterfaceInv' /\ Fresh
  <2>1. Arp(ArpFrame(ETHERNET_BROADCAST, "request", host, card, ip, EMPTY_ADDRESS), host, card,
            asked)
    BY <1>5 DEF announce
  <2>2. host \in Hosts /\ asked \in SUBSET Hosts
    BY <1>1
  <2> QED  BY <1>2, <2>1, <2>2
<1>6. ASSUME NEW dst, NEW type, NEW parses, other_frame(dst, type, parses),
             dst \in Cards \union {MyEth}
      PROVE  InterfaceInv' /\ Fresh
  <2> DEFINE frame == [dst |-> dst, src |-> MyEth, type |-> type, payload |-> 0]
  <2>1. /\ dst = MyEth => type = "IPv4" \/ ~parses
        /\ Becomes(recv_frame(ni, frame, parses), asked) /\ UNCHANGED <<hops, heard>>
    BY <1>6 DEF other_frame
  <2>2. frame.dst = dst /\ frame.type = type
    OBVIOUS
  <2> HIDE DEF frame
  <2>3. dst = MyEth \/ ~(dst \in {MyEth, ETHERNET_BROADCAST})
    BY <1>6, LanAssumption DEF Cards, ETHERNET_BROADCAST, MyEth
  <2>4. recv_frame(ni, frame, parses) = ni
    BY <1>1, <2>1, <2>2, <2>3 DEF recv_frame, for_us
  <2>5. [ni EXCEPT !.now = ni.now] = ni
    BY <1>1 DEF Interface
  <2>6. Becomes([ni EXCEPT !.now = ni.now], asked) /\ ni.now <= ni.now
    BY <1>1, <2>1, <2>4, <2>5
  <2> QED  BY <1>1, <2>1, <2>6, QuietInv
<1>7. ASSUME NEW ms \in Ticks, tick(ms) PROVE InterfaceInv' /\ Fresh
  <2> DEFINE now == ni.now + ms
  <2>1. ms \in Nat /\ now \in Nat /\ ni.now <= now
    BY <1>1, LanAssumption
  <2>2. interface_tick(ni, ms) = [ni EXCEPT !.now = now]
    BY <1>1 DEF interface_tick
  <2>3. Becomes([ni EXCEPT !.now = now], asked) /\ UNCHANGED <<hops, heard>>
    BY <1>7, <2>2 DEF tick
  <2> HIDE DEF now
  <2> QED  BY <2>1, <2>3, QuietInv
<1>8. CASE Next
  BY <1>3, <1>4, <1>5, <1>6, <1>7, <1>8 DEF Next
<1>9. CASE UNCHANGED vars
  <2>1. ni' = ni /\ hops' = hops /\ sent' = sent /\ asked' = asked /\ heard' = heard
    BY <1>9 DEF vars
  <2>2. Types' /\ MapHeard' /\ \A h \in Hosts \ Announcers : Asking(h)'
    BY <2>1 DEF InterfaceInv, Types, MapHeard, Asking
  <2>3. \A h \in Hosts : waiting(ni', h) # <<>> => ~known(ni', h)
    BY <2>1 DEF InterfaceInv
  <2>4. Handed' /\ InOrderOnce'
    <3>1. Handed /\ InOrderOnce /\ hops \in Seq(Hosts)
      BY DEF InterfaceInv, Types
    <3> QED  BY <2>1, <3>1, QueueSame
  <2>5. InterfaceInv'
    BY <2>2, <2>3, <2>4 DEF InterfaceInv
  <2>6. Fresh
    <3>1. Types
      BY DEF InterfaceInv
    <3> QED  BY <2>1, <3>1, NoneSent
  <2> QED  BY <2>5, <2>6
<1> QED  BY <1>8, <1>9

(* The constructed interface knows nothing and owes nothing.               *)
LEMMA InitHolds ==
  ASSUME Init
  PROVE  InterfaceInv
<1>1. /\ ni.eth = MyEth /\ ni.ip = MyIP /\ ni.map = NoEntry /\ ni.arp = NoEntry
      /\ ni.buffer = NoEntry /\ ni.now = 0 /\ ni.out = <<>>
  BY DEF Init, NewInterface
<1>2. DOMAIN NoEntry = {} /\ \A K, V : NoEntry \in Partial(K, V)
  BY Zenon DEF NoEntry, Partial
<1>3. /\ hops = <<>> /\ sent = <<>> /\ asked = {}
      /\ heard = [hc \in Hosts \X Cards |-> Never]
  BY DEF Init
<1>4. ni \in Interface
  <2>1. NoEntry \in Maps /\ NoEntry \in Arps /\ NoEntry \in Buffers
    BY <1>2 DEF Maps, Arps, Buffers
  <2> HIDE DEF NoEntry
  <2> QED  BY <2>1 DEF Init, NewInterface, Interface
<1>5. Types
  BY <1>3, <1>4 DEF Types, Never
<1>6. \A h \in Hosts : \A c \in Cards : heard[<<h, c>>] = Never
  BY <1>3
<1>7. MapHeard
  BY <1>1, <1>2, <1>6 DEF MapHeard, Never
<1>8. \A h : waiting(ni, h) = <<>>
  BY <1>1, <1>2 DEF waiting
<1>9. Len(hops) = 0 /\ Len(sent) = 0 /\ \A h : Len(waiting(ni, h)) = 0
  BY <1>3, <1>8
<1>10. \A h \in Hosts \ Announcers : Asking(h)
  BY <1>1, <1>2, <1>3, <1>8 DEF Asking
<1>11. Handed /\ InOrderOnce
  BY <1>9 DEF Handed, InOrderOnce
<1> QED  BY <1>5, <1>7, <1>8, <1>10, <1>11 DEF InterfaceInv

(* The interface keeps its queues, its map and its requests in step with   *)
(* what it was handed and what it heard.                                   *)
THEOREM InterfaceInvariance == Spec => []InterfaceInv
<1>1. Init => InterfaceInv
  BY InitHolds
<1>2. InterfaceInv /\ [Next]_vars => InterfaceInv'
  BY StepInv
<1> QED  BY <1>1, <1>2, PTL DEF Spec

(* Every datagram handed to send_datagram leaves once or waits in buffer_,  *)
(* in the order handed in for each next hop.                                *)
THEOREM InOrderOnceCorrect == Spec => []InOrderOnce
<1>1. InterfaceInv => InOrderOnce
  BY DEF InterfaceInv
<1> QED  BY <1>1, InterfaceInvariance, PTL

(* A datagram waits for a host that only answers while a request is with    *)
(* it: send_datagram asks again whenever the map's entry has expired.       *)
THEOREM WaitingCorrect == Spec => []WaitingIsAsked
<1>1. InterfaceInv => WaitingIsAsked
  BY DEF InterfaceInv, WaitingIsAsked, Asking
<1> QED  BY <1>1, InterfaceInvariance, PTL

(* No datagram leaves for an address older than the limit.                  *)
THEOREM AddressCorrect == Spec => AddressFresh
<1>1. InterfaceInv /\ [Next]_vars => [Fresh]_vars
  BY StepInv
<1>2. Spec => [][Fresh]_vars
  BY <1>1, InterfaceInvariance, PTL DEF Spec
<1> QED  BY <1>2, PTL DEF AddressFresh, Fresh
=============================================================================
