----------------------- MODULE TCPSpongeSocketProofs ------------------------
(***************************************************************************)
(* Proofs about TCPSpongeSocket, for every capacity of the two streams and *)
(* of the socket pair, and any number of bytes.                            *)
(***************************************************************************)
EXTENDS TCPSpongeSocket, TLAPS

SummaryType ==
  [syn : {"closed", "sent", "acked"}, heard : BOOLEAN, stream : 0 .. SEND_CAPACITY,
   ended : BOOLEAN, fin : BOOLEAN, flight : BOOLEAN, inb : Nat, in_end : BOOLEAN,
   error : BOOLEAN, linger : BOOLEAN, segs : BOOLEAN]

RuleSets == SUBSET (1 .. 4)

LoopType  == [pc : {"top", "poll", "results", "after"}, rules : RuleSets, want : RuleSets,
              ready : RuleSets, hup : BOOLEAN, todo : RuleSets]
PipeType  == [up : Nat, down : 0 .. PIPE, wr : BOOLEAN, rd : BOOLEAN, shut : BOOLEAN,
              eof : BOOLEAN]
FlagsType == [inbound : BOOLEAN, outbound : BOOLEAN, abort : BOOLEAN]
TotalType == [wrote : Nat, accepted : Nat, arrived : Nat, read : Nat]

SocketType ==
  /\ tcp \in SummaryType
  /\ phase \in {"idle", "connecting", "listening", "running", "ended", "killed"}
  /\ loop \in LoopType
  /\ pipe \in PipeType
  /\ flags \in FlagsType
  /\ owner \in {"using", "waiting", "destroying", "gone"}
  /\ total \in TotalType

(* Every byte is in one place: what the owner wrote was accepted or waits   *)
(* in the pipe, what arrived was read, waits in the pipe or in the stream. *)
Conserved ==
  /\ total.wrote = total.accepted + pipe.up
  /\ total.arrived = total.read + pipe.down + tcp.inb

(* The ends of the two directions come in order.                           *)
Ordered ==
  /\ tcp.ended => pipe.wr /\ pipe.up = 0
  /\ pipe.eof => tcp.ended
  /\ pipe.shut => tcp.error \/ in_eof(tcp)

(* What the loop decided on remains true until it acts on it: rule 2, once *)
(* asked for, finds room in the stream, and once ready, bytes or the end.  *)
Decided ==
  /\ {1, 4} \subseteq loop.rules
  /\ loop.pc = "poll" /\ 2 \in loop.want => tcp.stream < SEND_CAPACITY
  /\ loop.pc = "results" => /\ loop.todo # {}
                            /\ 2 \in loop.want /\ loop.hup => 2 \in loop.ready
  /\ loop.pc = "results" /\ 2 \in loop.todo \cap loop.ready
     => tcp.stream < SEND_CAPACITY /\ readable

(* The inductive invariant.                                                *)
SocketInv ==
  /\ SocketType /\ Conserved /\ Ordered /\ Decided
  /\ phase = "idle" => tcp = NewSummary /\ loop = NoLoop
  /\ flags.abort => owner \in {"destroying", "gone"}
  /\ EndsWhenDone

(* The summary u follows t without touching the owner's end flag or the     *)
(* inbound stream, and without taking bytes into the outbound one.         *)
Sending(t, u) ==
  /\ u \in SummaryType
  /\ u.stream <= t.stream
  /\ u.ended = t.ended /\ u.inb = t.inb /\ u.in_end = t.in_end
  /\ u.error = t.error /\ u.linger = t.linger /\ u.heard = t.heard

(* The outbound stream has a capacity.                                     *)
LEMMA Capacity == SEND_CAPACITY \in Nat /\ SEND_CAPACITY > 0
BY SummaryAssumption

(* Any new values of the fields fill_window assigns make a Sending step.     *)
LEMMA Assigned ==
  ASSUME NEW t \in SummaryType, NEW s \in {"closed", "sent", "acked"},
         NEW k \in 0 .. SEND_CAPACITY, k <= t.stream,
         NEW f \in BOOLEAN, NEW g \in BOOLEAN, NEW h \in BOOLEAN
  PROVE  Sending(t, [t EXCEPT !.syn = s, !.stream = k, !.fin = f, !.flight = g, !.segs = h])
BY Zenon DEF Sending, SummaryType

(* fill_window only sends. *)
LEMMA FilledSends ==
  ASSUME NEW t \in SummaryType, NEW u \in filled(t)
  PROVE  Sending(t, u)
<1>1. PICK k \in 0 .. t.stream, fin \in BOOLEAN : u = sent(t, k, fin)
  BY DEF filled
<1> DEFINE s == IF t.syn = "closed" THEN "sent" ELSE t.syn
           f == t.fin \/ fin
           g == t.flight \/ sends(t, k, fin)
           h == t.segs \/ sends(t, k, fin)
<1>2. u = [t EXCEPT !.syn = s, !.stream = t.stream - k, !.fin = f, !.flight = g, !.segs = h]
  BY <1>1, Zenon DEF sent
<1>3. f \in BOOLEAN /\ g \in BOOLEAN /\ h \in BOOLEAN
  OBVIOUS
<1>4. t.stream - k \in 0 .. SEND_CAPACITY /\ t.stream - k <= t.stream
  BY Capacity DEF SummaryType
<1>5. s \in {"closed", "sent", "acked"}
  BY DEF SummaryType
<1> HIDE DEF s, f, g, h
<1> QED  BY ZenonT(60), <1>2, <1>3, <1>4, <1>5, Assigned

(* What every method but write and end_input_stream leaves alone: bytes are *)
(* not taken into the outbound stream nor its end, errors and the end of the *)
(* inbound stream stay.                                                    *)
Follows(t, u) ==
  /\ u \in SummaryType
  /\ u.stream <= t.stream
  /\ u.ended = t.ended
  /\ t.error => u.error
  /\ t.in_end => u.in_end /\ u.inb = t.inb

(* The fields segment_received assigns keep their types.                   *)
LEMMA Marked ==
  ASSUME NEW t \in SummaryType, NEW i \in Nat, NEW h \in BOOLEAN, NEW e \in BOOLEAN,
         NEW l \in BOOLEAN, NEW s \in BOOLEAN
  PROVE  [t EXCEPT !.heard = h, !.inb = i, !.in_end = e, !.linger = l, !.segs = s]
         \in SummaryType
BY Zenon DEF SummaryType

(* Any bytes and flags of a segment make a step that follows.              *)
LEMMA TakenFollows ==
  ASSUME NEW t \in SummaryType, NEW n \in Nat, t.in_end => n = 0,
         NEW end \in BOOLEAN, NEW fin \in BOOLEAN, NEW reply \in BOOLEAN
  PROVE  Follows(t, taken(t, n, end, fin, reply))
<1> DEFINE u == taken(t, n, end, fin, reply)
           h == TRUE
           i == t.inb + n
           e == t.in_end \/ end
           l == t.linger /\ (fin => out_eof(t))
           s == t.segs \/ reply \/ n > 0 \/ fin \/ end
<1>1. u = [t EXCEPT !.heard = h, !.inb = i, !.in_end = e, !.linger = l, !.segs = s]
  BY Zenon DEF taken
<1>2. h \in BOOLEAN /\ e \in BOOLEAN /\ l \in BOOLEAN /\ s \in BOOLEAN /\ (t.in_end => e)
  OBVIOUS
<1>3. i \in Nat /\ (t.in_end => i = t.inb)
  BY DEF SummaryType
<1> HIDE DEF u, h, i, e, l, s
<1>4. u \in SummaryType
  BY Zenon, <1>1, <1>2, <1>3, Marked
<1>5. /\ u.stream = t.stream /\ u.inb = i
      /\ u.ended = t.ended /\ u.error = t.error
  BY <1>1, <1>2, <1>3 DEF SummaryType
<1>6. u.in_end = e
  BY <1>1, <1>2 DEF SummaryType
<1>7. Follows(t, u)
  BY <1>2, <1>3, <1>4, <1>5, <1>6, Capacity DEF Follows, SummaryType
<1> QED  BY <1>7 DEF u

(* A reset leaves the streams as they are.                                 *)
LEMMA ResetFollows ==
  ASSUME NEW t \in SummaryType
  PROVE  Follows(t, reset(t)) /\ reset(t).inb = t.inb
<1> DEFINE b == TRUE
           c == FALSE
<1>1. reset(t) = [t EXCEPT !.error = b, !.linger = c] /\ b \in BOOLEAN /\ c \in BOOLEAN
  BY Zenon DEF reset
<1>2. b
  OBVIOUS
<1> HIDE DEF b, c
<1>3. reset(t) \in SummaryType
  BY Zenon, <1>1 DEF SummaryType
<1>4. /\ reset(t).stream = t.stream /\ reset(t).inb = t.inb
      /\ reset(t).ended = t.ended /\ reset(t).in_end = t.in_end /\ reset(t).error
  BY <1>1, <1>2 DEF SummaryType
<1>5. t.stream <= t.stream
  BY Capacity DEF SummaryType
<1> QED  BY <1>3, <1>4, <1>5 DEF Follows

(* An acknowledgment and what it lets the sender do is a Sending step.     *)
LEMMA AnsweredSends ==
  ASSUME NEW t \in SummaryType, NEW u \in answered(t)
  PROVE  Sending(t, u)
<1>1. Sending(t, t)
  BY Capacity DEF Sending, SummaryType
<1>2. \A w \in acked(t) : Sending(t, w)
  <2> DEFINE c == FALSE
  <2>1. \A w \in acked(t) : \/ w = t
                            \/ w = [t EXCEPT !.syn = "acked"]
                            \/ w = [t EXCEPT !.syn = "acked", !.flight = c]
    BY Zenon DEF acked
  <2>2. c \in BOOLEAN
    OBVIOUS
  <2> HIDE DEF c
  <2>3. Sending(t, [t EXCEPT !.syn = "acked"])
    BY Capacity DEF Sending, SummaryType
  <2>4. ASSUME NEW w, w = [t EXCEPT !.syn = "acked", !.flight = c]  PROVE Sending(t, w)
    <3>1. w \in SummaryType
      BY Zenon, <2>2, <2>4, Capacity DEF SummaryType
    <3>2. w.stream <= t.stream
      BY <2>4, Capacity DEF SummaryType
    <3>3. /\ w.ended = t.ended /\ w.inb = t.inb /\ w.in_end = t.in_end
          /\ w.error = t.error /\ w.linger = t.linger /\ w.heard = t.heard
      BY <2>4 DEF SummaryType
    <3> QED  BY <3>1, <3>2, <3>3 DEF Sending
  <2> QED  BY <1>1, <2>1, <2>3, <2>4
<1>3. ASSUME NEW w \in acked(t), u \in filled(w)  PROVE Sending(t, u)
  <2>1. Sending(t, w)
    BY <1>2
  <2>2. Sending(w, u)
    BY <1>3, <2>1, FilledSends DEF Sending
  <2> QED  BY <2>1, <2>2, Capacity DEF Sending, SummaryType
<1> QED  BY <1>1, <1>3 DEF answered

(* segment_received follows.                                               *)
LEMMA ReceivedFollows ==
  ASSUME NEW t \in SummaryType, NEW left \in Int, NEW u \in segment_received(t, left)
  PROVE  Follows(t, u)
<1>1. CASE u = t
  BY <1>1, Capacity DEF Follows, SummaryType
<1>2. CASE u = reset(t)
  BY <1>2, ResetFollows
<1>3. ASSUME NEW v \in answered(t), NEW n \in 0 .. left, t.in_end => n = 0,
             NEW end \in BOOLEAN, NEW fin \in BOOLEAN, NEW reply \in BOOLEAN,
             u = taken(v, n, end, fin, reply)
      PROVE  Follows(t, u)
  <2>1. Sending(t, v)
    BY AnsweredSends
  <2>2. Follows(v, u)
    BY <1>3, <2>1, TakenFollows DEF Sending
  <2> QED  BY <2>1, <2>2, Capacity DEF Follows, Sending, SummaryType
<1> QED  BY <1>1, <1>2, <1>3 DEF segment_received

(* tick follows, and leaves the inbound stream.                            *)
LEMMA TickFollows ==
  ASSUME NEW t \in SummaryType, NEW u \in tick(t)
  PROVE  Follows(t, u) /\ u.inb = t.inb
<1> DEFINE b == TRUE
           c == FALSE
           Late == {t, [t EXCEPT !.segs = b], [reset(t) EXCEPT !.segs = b]}
<1>1. PICK v \in Late : u = v \/ u = [v EXCEPT !.linger = c]
  BY Zenon DEF tick
<1>2. b \in BOOLEAN /\ c \in BOOLEAN
  OBVIOUS
<1> HIDE DEF b, c
<1>3. Follows(t, v) /\ v.inb = t.inb
  BY <1>2, ResetFollows, Capacity DEF Follows, SummaryType
<1> QED  BY <1>1, <1>2, <1>3, Capacity DEF Follows, SummaryType

(* write takes the bytes the stream has room for.                          *)
LEMMA WriteKeeps ==
  ASSUME NEW t \in SummaryType, NEW n \in Nat, t.stream + n <= SEND_CAPACITY,
         NEW u \in write(t, n)
  PROVE  /\ u \in SummaryType
         /\ u.ended = t.ended /\ u.error = t.error
         /\ u.in_end = t.in_end /\ u.inb = t.inb
<1>1. CASE t.ended
  BY Zenon, <1>1 DEF write
<1>2. CASE ~t.ended
  <2> DEFINE v == [t EXCEPT !.stream = @ + n]
  <2>1. v \in SummaryType /\ v.ended = t.ended /\ v.error = t.error
        /\ v.in_end = t.in_end /\ v.inb = t.inb
    BY Capacity DEF SummaryType
  <2>2. u \in filled(v)
    BY <1>2 DEF write
  <2> HIDE DEF v
  <2> QED  BY <2>1, <2>2, FilledSends DEF Sending
<1> QED  BY <1>1, <1>2

(* end_input_stream ends the outbound stream and changes nothing else.     *)
LEMMA EndKeeps ==
  ASSUME NEW t \in SummaryType, NEW u \in end_input_stream(t)
  PROVE  /\ u \in SummaryType /\ u.stream <= t.stream
         /\ u.ended /\ u.error = t.error
         /\ u.in_end = t.in_end /\ u.inb = t.inb
<1>1. CASE t.ended
  BY <1>1, Capacity DEF end_input_stream, SummaryType
<1>2. CASE ~t.ended
  <2> DEFINE v == [t EXCEPT !.ended = TRUE]
  <2>1. v \in SummaryType /\ v.ended /\ v.error = t.error /\ v.stream = t.stream
        /\ v.in_end = t.in_end /\ v.inb = t.inb
    BY Zenon DEF SummaryType
  <2>2. u \in filled(v)
    BY <1>2 DEF end_input_stream
  <2> HIDE DEF v
  <2> QED  BY <2>1, <2>2, FilledSends DEF Sending
<1> QED  BY <1>1, <1>2

-----------------------------------------------------------------------------
(* The owner's steps preserve the invariant: they leave the connection and  *)
(* the loop alone, and a byte moves between the pipe and the owner.         *)
LEMMA OwnerInv ==
  ASSUME SocketInv, OwnerStep
  PROVE  SocketInv'
<1> USE DEF SocketInv
<1>1. CASE connect
  <2>1. /\ NewSummary \in SummaryType /\ tcp = NewSummary /\ loop = NoLoop
        /\ tcp' \in filled(NewSummary) /\ phase' = "connecting"
        /\ UNCHANGED <<loop, pipe, flags, owner, total>>
    BY <1>1, Capacity DEF connect, NewSummary, SummaryType
  <2>2. Sending(tcp, tcp')
    BY <2>1, FilledSends
  <2>3. SocketType'
    BY <2>1, <2>2 DEF SocketType, Sending
  <2>4. Conserved' /\ Ordered'
    BY <2>1, <2>2 DEF Conserved, Ordered, Sending, in_eof
  <2>5. Decided'
    BY <2>1 DEF Decided, NoLoop
  <2> QED  BY <2>1, <2>3, <2>4, <2>5 DEF EndsWhenDone
<1>2. CASE listen_and_accept
  <2>1. phase' = "listening" /\ UNCHANGED <<tcp, loop, pipe, flags, owner, total>>
    BY <1>2 DEF listen_and_accept
  <2>2. SocketType' /\ Conserved' /\ Ordered' /\ Decided'
    BY <2>1 DEF SocketType, Conserved, Ordered, Decided, readable
  <2> QED  BY <2>1, <2>2 DEF EndsWhenDone
<1>3. ASSUME NEW n \in 1 .. PIPE, owner_write(n)  PROVE SocketInv'
  <2>1. /\ pipe' = [pipe EXCEPT !.up = @ + n] /\ total' = [total EXCEPT !.wrote = @ + n]
        /\ UNCHANGED <<tcp, phase, loop, flags, owner>> /\ ~pipe.wr
    BY <1>3 DEF owner_write, OwnerActs
  <2>2. pipe' \in PipeType /\ total' \in TotalType
    BY <2>1 DEF SocketType, PipeType, TotalType
  <2>3. /\ pipe'.up = pipe.up + n /\ pipe'.down = pipe.down
        /\ pipe'.wr = pipe.wr /\ pipe'.shut = pipe.shut /\ pipe'.eof = pipe.eof
        /\ total'.wrote = total.wrote + n /\ total'.accepted = total.accepted
        /\ total'.arrived = total.arrived /\ total'.read = total.read
    BY <2>1 DEF SocketType, PipeType, TotalType
  <2>4. SocketType'
    BY <2>1, <2>2 DEF SocketType
  <2>5. Conserved'
    BY <2>1, <2>3 DEF SocketType, PipeType, TotalType, Conserved
  <2>6. Ordered'
    BY <2>1, <2>3 DEF SocketType, PipeType, Ordered, in_eof
  <2>7. Decided'
    BY <2>1, <2>3 DEF SocketType, PipeType, Decided, readable
  <2> QED  BY <2>1, <2>4, <2>5, <2>6, <2>7 DEF EndsWhenDone
<1>4. ASSUME NEW n \in 1 .. PIPE, owner_read(n)  PROVE SocketInv'
  <2>1. /\ pipe' = [pipe EXCEPT !.down = @ - n] /\ total' = [total EXCEPT !.read = @ + n]
        /\ UNCHANGED <<tcp, phase, loop, flags, owner>> /\ n <= pipe.down
    BY <1>4 DEF owner_read, OwnerActs
  <2>2. pipe.down - n \in 0 .. PIPE /\ total.read + n \in Nat
    BY <2>1, SocketAssumption DEF SocketType, PipeType, TotalType
  <2>3. pipe' \in PipeType /\ total' \in TotalType
    BY <2>1, <2>2 DEF SocketType, PipeType, TotalType
  <2>4. /\ pipe'.up = pipe.up /\ pipe'.down = pipe.down - n
        /\ pipe'.wr = pipe.wr /\ pipe'.shut = pipe.shut /\ pipe'.eof = pipe.eof
        /\ total'.wrote = total.wrote /\ total'.accepted = total.accepted
        /\ total'.arrived = total.arrived /\ total'.read = total.read + n
    BY <2>1 DEF SocketType, PipeType, TotalType
  <2>5. SocketType'
    BY <2>1, <2>3 DEF SocketType
  <2>6. Conserved'
    BY <2>1, <2>4, SocketAssumption DEF SocketType, PipeType, TotalType, SummaryType, Conserved
  <2>7. Ordered' /\ Decided'
    BY <2>1, <2>4 DEF Ordered, Decided, in_eof, readable
  <2> QED  BY <2>1, <2>5, <2>6, <2>7 DEF EndsWhenDone
<1>5. ASSUME NEW rd \in BOOLEAN, NEW wr \in BOOLEAN, wr,
             pipe' = [pipe EXCEPT !.wr = wr, !.rd = rd],
             owner' \in {owner, "waiting"}, owner = "using",
             UNCHANGED <<tcp, phase, loop, flags, total>>
      PROVE  SocketInv'
  <2>1. pipe' \in PipeType
    BY Zenon, <1>5 DEF SocketType, PipeType
  <2>2. /\ pipe'.up = pipe.up /\ pipe'.down = pipe.down /\ pipe'.wr
        /\ pipe'.shut = pipe.shut /\ pipe'.eof = pipe.eof
    BY <1>5 DEF SocketType, PipeType
  <2>3. SocketType'
    BY <1>5, <2>1 DEF SocketType
  <2>4. Conserved' /\ Ordered' /\ Decided'
    BY <1>5, <2>2 DEF Conserved, Ordered, Decided, in_eof, readable
  <2> QED  BY <1>5, <2>3, <2>4 DEF EndsWhenDone
<1>6. CASE owner_shutdown
  <2> DEFINE wr == TRUE
  <2>1. /\ pipe' = [pipe EXCEPT !.wr = wr] /\ wr \in BOOLEAN /\ owner = "using"
        /\ UNCHANGED <<tcp, phase, loop, flags, total, owner>>
    BY <1>6, Zenon DEF owner_shutdown, OwnerActs
  <2>2. wr
    OBVIOUS
  <2> HIDE DEF wr
  <2>3. pipe' = [pipe EXCEPT !.wr = wr, !.rd = pipe.rd] /\ pipe.rd \in BOOLEAN
    BY Zenon, <2>1 DEF SocketType, PipeType
  <2> QED  BY Zenon, <2>1, <2>2, <2>3, <1>5
<1>7. CASE wait_until_closed
  <2> DEFINE wr == TRUE
             rd == TRUE
  <2>1. /\ pipe' = [pipe EXCEPT !.wr = wr, !.rd = rd] /\ wr \in BOOLEAN /\ rd \in BOOLEAN
        /\ owner = "using" /\ owner' = "waiting"
        /\ UNCHANGED <<tcp, phase, loop, flags, total>>
    BY <1>7, Zenon DEF wait_until_closed, OwnerActs
  <2>2. wr
    OBVIOUS
  <2> HIDE DEF wr, rd
  <2> QED  BY Zenon, <2>1, <2>2, <1>5
<1>8. CASE destroy
  <2>1. /\ flags' = [flags EXCEPT !.abort = TRUE] /\ owner' = "destroying"
        /\ UNCHANGED <<tcp, phase, loop, pipe, total>> /\ phase # "idle"
    BY <1>8 DEF destroy, OwnerActs
  <2>2. flags' \in FlagsType /\ flags'.abort
    BY Zenon, <2>1 DEF SocketType, FlagsType
  <2>3. SocketType' /\ Conserved' /\ Ordered' /\ Decided'
    BY <2>1, <2>2 DEF SocketType, Conserved, Ordered, Decided, readable
  <2> QED  BY <2>1, <2>2, <2>3 DEF EndsWhenDone
<1>9. CASE join
  <2>1. owner' = "gone" /\ UNCHANGED <<tcp, phase, loop, pipe, flags, total>>
    BY <1>9 DEF join
  <2>2. SocketType' /\ Conserved' /\ Ordered' /\ Decided'
    BY <2>1 DEF SocketType, Conserved, Ordered, Decided, readable
  <2> QED  BY <2>1, <2>2 DEF EndsWhenDone
<1> QED  BY <1>1, <1>2, <1>3, <1>4, <1>6, <1>7, <1>8, <1>9 DEF OwnerStep

-----------------------------------------------------------------------------
(* A set of rules that is not empty has a first one.                       *)
LEMMA FirstRule ==
  ASSUME NEW S \in RuleSets, S # {}
  PROVE  Min(S) \in S
<1>1. \E m \in S : \A y \in S : m <= y
  <2>1. CASE 1 \in S
    BY <2>1 DEF RuleSets
  <2>2. CASE 1 \notin S /\ 2 \in S
    BY <2>2 DEF RuleSets
  <2>3. CASE 1 \notin S /\ 2 \notin S /\ 3 \in S
    BY <2>3 DEF RuleSets
  <2>4. CASE 1 \notin S /\ 2 \notin S /\ 3 \notin S
    <3>1. \A y \in S : y = 4
      BY <2>4 DEF RuleSets
    <3> QED  BY <3>1
  <2> QED  BY <2>1, <2>2, <2>3, <2>4
<1> QED  BY <1>1 DEF Min

(* Leaving the loop preserves the invariant, provided that a thread whose   *)
(* loop ends without an abort leaves the connection done with.             *)
LEMMA LeaveInv ==
  ASSUME SocketInv, Looping, NEW rules \in RuleSets, {1, 4} \subseteq rules, Leave(rules),
         UNCHANGED <<tcp, owner, total>>,
         flags' \in FlagsType, flags'.abort = flags.abort,
         phase = "running" /\ ~flags.abort => ~active(tcp) /\ ~tcp.segs
  PROVE  SocketInv'
<1> USE DEF SocketInv
<1>1. /\ loop' \in LoopType /\ loop'.pc = "top" /\ loop'.rules = rules
  BY Zenon DEF Leave, NoLoop, LoopType, RuleSets
<1>2. /\ pipe' \in PipeType
      /\ pipe'.up = pipe.up /\ pipe'.down = pipe.down
      /\ pipe'.shut = pipe.shut /\ pipe'.eof = pipe.eof /\ (pipe.wr => pipe'.wr)
  <2>1. CASE phase = "running"
    <3> DEFINE b == TRUE
    <3>1. pipe' = [pipe EXCEPT !.wr = b, !.rd = b] /\ b \in BOOLEAN
      BY <2>1, Zenon DEF Leave
    <3>2. b
      OBVIOUS
    <3> HIDE DEF b
    <3>3. pipe' \in PipeType
      BY Zenon, <3>1 DEF SocketType, PipeType
    <3>4. pipe'.wr = b
      BY <3>1 DEF SocketType, PipeType
    <3>5. /\ pipe'.up = pipe.up /\ pipe'.down = pipe.down
          /\ pipe'.shut = pipe.shut /\ pipe'.eof = pipe.eof
      BY <3>1 DEF SocketType, PipeType
    <3> QED  BY <3>2, <3>3, <3>4, <3>5
  <2>2. CASE phase # "running"
    BY <2>2 DEF Leave, SocketType
  <2> QED  BY <2>1, <2>2, Zenon
<1>3. /\ phase' \in {"running", "ended"}
      /\ phase' = "ended" => phase = "running"
  BY DEF Leave
<1>4. SocketType'
  BY <1>1, <1>2, <1>3 DEF SocketType
<1>5. Conserved' /\ Ordered'
  BY <1>2 DEF Conserved, Ordered, in_eof
<1>6. Decided'
  BY <1>1 DEF Decided
<1> QED  BY <1>3, <1>4, <1>5, <1>6 DEF EndsWhenDone, active, out_eof, in_eof

(* Asking the rules for their interest preserves the invariant: a loop that *)
(* finds none is left with the connection done.                            *)
LEMMA SetupInv ==
  ASSUME SocketInv, setup
  PROVE  SocketInv'
<1> USE DEF SocketInv
<1> DEFINE ended == IF pipe.eof THEN loop.rules \cap {2} ELSE {}
           rules == loop.rules \ ended
           f     == [flags EXCEPT !.outbound = @ \/ ended # {}]
           want  == {r \in rules : interest(r, tcp, f)}
<1>1. ASSUME ended # {}  PROVE cancel(2, tcp) = {tcp}
  BY <1>1, Zenon DEF Ordered, cancel, end_input_stream
<1>2. /\ Looping /\ tcp' = tcp /\ flags' = f /\ UNCHANGED <<owner, total>>
      /\ \/ /\ loop' = [NoLoop EXCEPT !.pc = "poll", !.rules = rules, !.want = want]
            /\ UNCHANGED <<phase, pipe>>
         \/ want = {} /\ Leave(rules)
  <2>1. PICK t \in IF ended # {} THEN cancel(2, tcp) ELSE {tcp} :
          LET w == {r \in rules : interest(r, t, f)}
          IN  /\ tcp' = t /\ flags' = f
              /\ \/ /\ w # {}
                    /\ loop' = [NoLoop EXCEPT !.pc = "poll", !.rules = rules, !.want = w]
                    /\ UNCHANGED <<phase, pipe>>
                 \/ w = {} /\ Leave(rules)
    BY Zenon DEF setup
  <2>2. t = tcp
    BY <1>1, <2>1
  <2> QED  BY <2>1, <2>2, Zenon DEF setup
<1>3. f \in FlagsType /\ f.abort = flags.abort
  <2> DEFINE b == flags.outbound \/ ended # {}
  <2>1. f = [flags EXCEPT !.outbound = b] /\ b \in BOOLEAN
    BY Zenon
  <2> HIDE DEF b, f
  <2> QED  BY <2>1 DEF SocketType, FlagsType
<1>4. rules \in RuleSets /\ {1, 4} \subseteq rules /\ want \in RuleSets
  BY DEF Decided, SocketType, LoopType, RuleSets
<1>5. 2 \in want => tcp.stream < SEND_CAPACITY
  BY Capacity DEF interest, remaining_outbound_capacity, SocketType, SummaryType
<1>6. want = {} => ~active(tcp) /\ ~tcp.segs
  <2>1. 1 \in rules /\ 4 \in rules
    BY <1>4
  <2>2. interest(1, tcp, f) = active(tcp) /\ interest(4, tcp, f) = tcp.segs
    BY DEF interest, interest4
  <2>3. active(tcp) => 1 \in want
    BY Zenon, <2>1, <2>2
  <2>4. tcp.segs => 4 \in want
    BY Zenon, <2>1, <2>2
  <2> QED  BY <2>3, <2>4
<1> HIDE DEF want, rules, f
<1>7. CASE /\ loop' = [NoLoop EXCEPT !.pc = "poll", !.rules = rules, !.want = want]
           /\ UNCHANGED <<phase, pipe>>
  <2>1. /\ loop' \in LoopType /\ loop'.pc = "poll" /\ loop'.rules = rules /\ loop'.want = want
    BY Zenon, <1>4, <1>7 DEF NoLoop, LoopType, RuleSets
  <2>2. SocketType'
    BY <1>2, <1>3, <1>7, <2>1 DEF SocketType
  <2>3. Conserved' /\ Ordered'
    BY <1>2, <1>7 DEF Conserved, Ordered
  <2>4. Decided'
    BY <1>2, <1>4, <1>5, <2>1 DEF Decided
  <2>5. (phase # "idle")'
    BY <1>2, <1>7 DEF Looping
  <2> QED  BY <1>2, <1>3, <1>7, <2>2, <2>3, <2>4, <2>5 DEF EndsWhenDone, Looping
<1>8. CASE want = {} /\ Leave(rules)
  BY <1>2, <1>3, <1>4, <1>6, <1>8, LeaveInv
<1> QED  BY <1>2, <1>7, <1>8

(* The loop's control after one rule has been dealt with.                   *)
LEMMA HandledLoop ==
  ASSUME SocketInv, loop.pc = "results", NEW r \in loop.todo, NEW rules \in RuleSets,
         {1, 4} \subseteq rules, Handled(r, rules)
  PROVE  /\ loop' \in LoopType
         /\ loop'.rules = rules
         /\ loop'.pc \in {"results", "after"}
         /\ loop'.pc = "results" => /\ loop'.todo = loop.todo \ {r} /\ loop'.todo # {}
                                    /\ loop'.want = loop.want /\ loop'.hup = loop.hup
                                    /\ loop'.ready = loop.ready
<1>1. CASE \E q \in loop.todo : q > r
  <2>1. loop' = [loop EXCEPT !.rules = rules, !.todo = loop.todo \ {r}]
    BY <1>1 DEF Handled
  <2>2. loop \in LoopType /\ loop.todo \ {r} \in RuleSets
    BY DEF SocketInv, SocketType, LoopType, RuleSets
  <2>3. loop' \in LoopType
    BY Zenon, <2>1, <2>2 DEF LoopType
  <2>4. /\ loop'.rules = rules /\ loop'.pc = "results" /\ loop'.todo = loop.todo \ {r}
        /\ loop'.want = loop.want /\ loop'.hup = loop.hup /\ loop'.ready = loop.ready
    BY <2>1, <2>2 DEF LoopType
  <2>5. loop.todo \ {r} # {}
    BY <1>1, <2>2 DEF LoopType, RuleSets
  <2> QED  BY <2>3, <2>4, <2>5
<1>2. CASE ~\E q \in loop.todo : q > r
  BY Zenon, <1>2 DEF Handled, NoLoop, LoopType, RuleSets
<1> QED  BY <1>1, <1>2

(* A rule's callback preserves the invariant if it leaves the types, the    *)
(* bytes and the ends in order, and leaves rule 2 what was promised to it.  *)
LEMMA HandledInv ==
  ASSUME SocketInv, loop.pc = "results", NEW r \in loop.todo, NEW rules \in RuleSets,
         {1, 4} \subseteq rules, Handled(r, rules), Looping,
         tcp' \in SummaryType, pipe' \in PipeType, flags' \in FlagsType, total' \in TotalType,
         UNCHANGED <<phase, owner>>, flags'.abort = flags.abort,
         Conserved', Ordered',
         r # 2 => tcp'.stream <= tcp.stream /\ pipe'.up = pipe.up /\ pipe'.wr = pipe.wr
  PROVE  SocketInv'
<1> USE DEF SocketInv
<1>1. SocketType'
  BY HandledLoop DEF SocketType
<1>2. Decided'
  <2>1. loop'.pc = "results" /\ 2 \in loop'.todo \cap loop'.ready
        => tcp'.stream < SEND_CAPACITY /\ readable'
    <3> SUFFICES ASSUME loop'.pc = "results", 2 \in loop'.todo \cap loop'.ready
                 PROVE  tcp'.stream < SEND_CAPACITY /\ readable'
      OBVIOUS
    <3>1. 2 \in loop.todo \cap loop.ready /\ r # 2
      BY HandledLoop
    <3> QED  BY <3>1, Capacity DEF Decided, SocketType, SummaryType, readable
  <2>2. {1, 4} \subseteq loop'.rules
    BY HandledLoop
  <2>3. loop'.pc = "results" => /\ loop'.todo # {}
                                /\ 2 \in loop'.want /\ loop'.hup => 2 \in loop'.ready
    BY HandledLoop DEF Decided
  <2>4. loop'.pc # "poll"
    BY HandledLoop
  <2> QED  BY <2>1, <2>2, <2>3, <2>4 DEF Decided
<1> QED  BY <1>1, <1>2 DEF Looping, EndsWhenDone

(* The smaller of two numbers.                                             *)
LEMMA SmallerOfTwo ==
  ASSUME NEW a \in Nat, NEW b \in Nat
  PROVE  Min({a, b}) \in {a, b} /\ Min({a, b}) <= a /\ Min({a, b}) <= b
<1>1. \E m \in {a, b} : \A y \in {a, b} : m <= y
  OBVIOUS
<1> QED  BY <1>1 DEF Min

(* Rule 1 hands a segment to the connection.                               *)
LEMMA IncomingKeeps ==
  ASSUME SocketInv, incoming_datagram
  PROVE  /\ Follows(tcp, tcp') /\ total' \in TotalType /\ Conserved' /\ Ordered'
         /\ UNCHANGED <<pipe, flags>>
<1> USE DEF SocketInv
<1>1. Follows(tcp, tcp')
  <2>1. CASE UNCHANGED tcp
    BY <2>1, Capacity DEF Follows, SocketType, SummaryType
  <2>2. CASE tcp' \in segment_received(tcp, InBytes - total.arrived)
    <3>1. InBytes - total.arrived \in Int /\ tcp \in SummaryType
      BY SocketAssumption DEF SocketType, TotalType
    <3> QED  BY <2>2, <3>1, ReceivedFollows
  <2> QED  BY <2>1, <2>2 DEF incoming_datagram
<1>2. /\ total' = [total EXCEPT !.arrived = total.arrived + tcp'.inb - tcp.inb]
      /\ UNCHANGED <<pipe, flags>>
  BY DEF incoming_datagram
<1>3. total.arrived + tcp'.inb - tcp.inb = total.read + pipe.down + tcp'.inb
  BY <1>1, SocketAssumption
  DEF Conserved, Follows, SocketType, TotalType, PipeType, SummaryType
<1>4. total.arrived + tcp'.inb - tcp.inb \in Nat
  BY <1>1, <1>3, SocketAssumption DEF Follows, SocketType, TotalType, PipeType, SummaryType
<1>5. /\ total' \in TotalType
      /\ total'.arrived = total.arrived + tcp'.inb - tcp.inb
      /\ total'.wrote = total.wrote /\ total'.accepted = total.accepted
      /\ total'.read = total.read
  BY <1>2, <1>4 DEF SocketType, TotalType
<1>6. Conserved'
  BY <1>2, <1>3, <1>5 DEF Conserved
<1>7. Ordered'
  BY <1>1, <1>2 DEF Ordered, Follows, in_eof
<1> QED  BY <1>1, <1>2, <1>5, <1>6, <1>7

(* Rule 2 moves bytes from the pipe to the stream; it reads nothing only   *)
(* when the owner has shut the pipe down and it is empty.                  *)
LEMMA OutboundKeeps ==
  ASSUME SocketInv, outbound_bytes, tcp.stream < SEND_CAPACITY, readable
  PROVE  /\ tcp' \in SummaryType /\ pipe' \in PipeType /\ flags' \in FlagsType
         /\ total' \in TotalType /\ flags'.abort = flags.abort /\ Conserved' /\ Ordered'
<1> USE DEF SocketInv
<1> DEFINE room == SEND_CAPACITY - tcp.stream
           n    == Min({pipe.up, room})
           eof  == n = 0
<1>1. room \in Nat /\ room > 0 /\ pipe.up \in Nat
  BY Capacity DEF SocketType, SummaryType, PipeType
<1>2. n \in {pipe.up, room} /\ n <= pipe.up /\ n <= room
  <2> HIDE DEF room
  <2> QED  BY <1>1, SmallerOfTwo
<1>3. PICK t \in write(tcp, n) : tcp' \in IF eof THEN end_input_stream(t) ELSE {t}
  BY Zenon DEF outbound_bytes, at_eof, remaining_outbound_capacity
<1>4. /\ pipe' = [pipe EXCEPT !.up = pipe.up - n, !.eof = pipe.eof \/ eof]
      /\ flags' = [flags EXCEPT !.outbound = flags.outbound \/ eof]
      /\ total' = [total EXCEPT !.accepted = total.accepted + n]
  BY Zenon DEF outbound_bytes, at_eof, remaining_outbound_capacity
<1> HIDE DEF n
<1>5. n \in Nat /\ tcp.stream + n <= SEND_CAPACITY
  BY <1>1, <1>2, Capacity DEF SocketType, SummaryType
<1>6. eof => pipe.up = 0 /\ pipe.wr
  BY <1>1, <1>2 DEF readable
<1>7. /\ t \in SummaryType /\ t.ended = tcp.ended /\ t.error = tcp.error
      /\ t.in_end = tcp.in_end /\ t.inb = tcp.inb
  BY <1>5, WriteKeeps DEF SocketType
<1>8. /\ tcp' \in SummaryType /\ tcp'.error = tcp.error
      /\ tcp'.in_end = tcp.in_end /\ tcp'.inb = tcp.inb
      /\ IF eof THEN tcp'.ended ELSE tcp'.ended = tcp.ended
  BY <1>3, <1>7, EndKeeps
<1>9. /\ pipe' \in PipeType /\ pipe'.up = pipe.up - n /\ pipe'.down = pipe.down
      /\ pipe'.wr = pipe.wr /\ pipe'.shut = pipe.shut /\ pipe'.eof = (pipe.eof \/ eof)
  <2> DEFINE e == pipe.eof \/ eof
             up == pipe.up - n
  <2>1. pipe' = [pipe EXCEPT !.up = up, !.eof = e] /\ e \in BOOLEAN
    BY <1>4, Zenon
  <2>2. up \in Nat
    BY <1>1, <1>2, <1>5
  <2> HIDE DEF e, up
  <2>3. pipe' \in PipeType
    BY Zenon, <2>1, <2>2 DEF SocketType, PipeType
  <2>4. /\ pipe'.up = up /\ pipe'.down = pipe.down /\ pipe'.wr = pipe.wr
        /\ pipe'.shut = pipe.shut /\ pipe'.eof = e
    BY <2>1 DEF SocketType, PipeType
  <2> QED  BY <2>3, <2>4 DEF e, up
<1>10. flags' \in FlagsType /\ flags'.abort = flags.abort
  <2> DEFINE o == flags.outbound \/ eof
  <2>1. flags' = [flags EXCEPT !.outbound = o] /\ o \in BOOLEAN
    BY <1>4, Zenon
  <2> HIDE DEF o
  <2> QED  BY <2>1 DEF SocketType, FlagsType
<1>11. /\ total' \in TotalType /\ total'.accepted = total.accepted + n
       /\ total'.wrote = total.wrote /\ total'.arrived = total.arrived
       /\ total'.read = total.read
  BY <1>4, <1>5 DEF SocketType, TotalType
<1>12. Conserved'
  BY <1>1, <1>5, <1>8, <1>9, <1>11 DEF Conserved, SocketType, TotalType
<1>13. Ordered'
  <2>1. tcp'.ended => pipe'.wr /\ pipe'.up = 0
    <3>1. CASE eof
      BY <3>1, <1>6, <1>9
    <3>2. CASE ~eof
      <4>1. tcp.ended => pipe.up = 0 /\ pipe.wr
        BY DEF Ordered
      <4>2. ~tcp.ended
        BY <3>2, <4>1, <1>1, <1>2, <1>5
      <4> QED  BY Zenon, <3>2, <4>2, <1>8
    <3> QED  BY <3>1, <3>2
  <2>2. pipe'.eof => tcp'.ended
    <3>1. CASE eof
      BY <3>1, <1>8
    <3>2. CASE ~eof
      <4>1. pipe'.eof => pipe.eof
        BY <3>2, <1>9, Zenon
      <4> QED  BY <3>2, <4>1, <1>8 DEF Ordered
    <3> QED  BY <3>1, <3>2
  <2>3. pipe'.shut => tcp'.error \/ in_eof(tcp')
    BY <1>8, <1>9 DEF Ordered, in_eof
  <2> QED  BY <2>1, <2>2, <2>3 DEF Ordered
<1> QED  BY <1>8, <1>9, <1>10, <1>11, <1>12, <1>13

(* Rule 3 moves bytes from the inbound stream to the pipe; it shuts the     *)
(* pipe down only at the end of the stream or after a reset.               *)
LEMMA InboundKeeps ==
  ASSUME SocketInv, inbound_bytes
  PROVE  /\ tcp' \in SummaryType /\ pipe' \in PipeType /\ flags' \in FlagsType
         /\ total' \in TotalType /\ flags'.abort = flags.abort /\ Conserved' /\ Ordered'
         /\ tcp'.stream <= tcp.stream /\ pipe'.up = pipe.up /\ pipe'.wr = pipe.wr
<1> USE DEF SocketInv
<1> DEFINE room == PIPE - pipe.down
           n    == Min({tcp.inb, room})
           left == tcp.inb - n
           t    == [tcp EXCEPT !.inb = left]
           finished == in_eof(t) \/ t.error
<1>1. room \in Nat /\ tcp.inb \in Nat
  BY SocketAssumption DEF SocketType, SummaryType, PipeType
<1>2. n \in {tcp.inb, room} /\ n <= tcp.inb /\ n <= room
  <2> HIDE DEF room
  <2> QED  BY <1>1, SmallerOfTwo
<1>3. /\ tcp' = t
      /\ pipe' = [pipe EXCEPT !.down = pipe.down + n, !.shut = pipe.shut \/ finished]
      /\ flags' = [flags EXCEPT !.inbound = flags.inbound \/ finished]
      /\ total' = total
  BY Zenon DEF inbound_bytes, popped
<1> HIDE DEF n
<1>4. n \in Nat /\ left \in Nat /\ pipe.down + n \in 0 .. PIPE
  BY <1>1, <1>2, SocketAssumption DEF SocketType, PipeType
<1>5. /\ t \in SummaryType /\ t.inb = left /\ t.stream = tcp.stream
      /\ t.in_end = tcp.in_end /\ t.error = tcp.error /\ t.ended = tcp.ended
  <2> HIDE DEF left
  <2> QED  BY <1>4 DEF SocketType, SummaryType
<1> HIDE DEF t
<1>6. /\ pipe' \in PipeType /\ pipe'.up = pipe.up /\ pipe'.down = pipe.down + n
      /\ pipe'.wr = pipe.wr /\ pipe'.eof = pipe.eof /\ pipe'.shut = (pipe.shut \/ finished)
  <2> DEFINE e == pipe.shut \/ finished
             down == pipe.down + n
  <2>1. pipe' = [pipe EXCEPT !.down = down, !.shut = e] /\ e \in BOOLEAN
    BY <1>3, Zenon
  <2>2. down \in 0 .. PIPE
    BY <1>4
  <2> HIDE DEF e, down
  <2>3. pipe' \in PipeType
    BY Zenon, <2>1, <2>2 DEF SocketType, PipeType
  <2>4. /\ pipe'.up = pipe.up /\ pipe'.down = down /\ pipe'.wr = pipe.wr
        /\ pipe'.shut = e /\ pipe'.eof = pipe.eof
    BY <2>1 DEF SocketType, PipeType
  <2> QED  BY <2>3, <2>4 DEF e, down
<1>7. flags' \in FlagsType /\ flags'.abort = flags.abort
  <2> DEFINE o == flags.inbound \/ finished
  <2>1. flags' = [flags EXCEPT !.inbound = o] /\ o \in BOOLEAN
    BY <1>3, Zenon
  <2> HIDE DEF o
  <2> QED  BY <2>1 DEF SocketType, FlagsType
<1>8. Conserved'
  BY <1>1, <1>3, <1>4, <1>5, <1>6, SocketAssumption
  DEF Conserved, SocketType, TotalType, PipeType
<1>9. Ordered'
  <2>1. tcp'.ended => pipe'.wr /\ pipe'.up = 0
    BY <1>3, <1>5, <1>6 DEF Ordered
  <2>2. pipe'.eof => tcp'.ended
    BY <1>3, <1>5, <1>6 DEF Ordered
  <2>3. pipe'.shut => tcp'.error \/ in_eof(tcp')
    <3>1. CASE finished
      BY <3>1, <1>3
    <3>2. CASE ~finished
      <4>1. pipe'.shut => pipe.shut
        BY <3>2, <1>6, Zenon
      <4>2. in_eof(tcp) => in_eof(t)
        BY <1>1, <1>2, <1>4, <1>5 DEF in_eof
      <4> QED  BY <1>3, <1>5, <4>1, <4>2 DEF Ordered
    <3> QED  BY <3>1, <3>2
  <2> QED  BY <2>1, <2>2, <2>3 DEF Ordered
<1>10. total' \in TotalType /\ tcp' \in SummaryType
  BY <1>3, <1>5 DEF SocketType
<1>11. tcp'.stream <= tcp.stream
  BY <1>3, <1>5, Capacity DEF SocketType, SummaryType
<1> QED  BY <1>6, <1>7, <1>8, <1>9, <1>10, <1>11

(* Rule 4 takes all the segments.                                          *)
LEMMA SegmentsKeeps ==
  ASSUME SocketInv, outbound_segments
  PROVE  /\ tcp' \in SummaryType /\ ~tcp'.segs /\ tcp'.stream <= tcp.stream
         /\ Conserved' /\ Ordered'
<1> USE DEF SocketInv
<1> DEFINE c == FALSE
<1>1. tcp' = [tcp EXCEPT !.segs = c] /\ UNCHANGED <<pipe, flags, total>>
      /\ c \in BOOLEAN
  BY Zenon DEF outbound_segments
<1>2. ~c
  OBVIOUS
<1> HIDE DEF c
<1>3. tcp' \in SummaryType
  BY <1>1 DEF SocketType, SummaryType
<1>4. /\ tcp'.segs = c /\ tcp'.stream = tcp.stream /\ tcp'.inb = tcp.inb
      /\ tcp'.ended = tcp.ended /\ tcp'.error = tcp.error /\ tcp'.in_end = tcp.in_end
  BY <1>1 DEF SocketType, SummaryType
<1>5. Conserved' /\ Ordered'
  BY <1>1, <1>4 DEF Conserved, Ordered, in_eof
<1> QED  BY <1>2, <1>3, <1>4, <1>5, Capacity DEF SocketType, SummaryType

(* Dealing with one rule preserves the invariant.  Rule 2 is never defunct: *)
(* a pipe that hung up is at its end, which makes it readable.             *)
LEMMA HandleInv ==
  ASSUME SocketInv, NEW r \in 1 .. 4, handle(r)
  PROVE  SocketInv'
<1> USE DEF SocketInv
<1>1. /\ Looping /\ loop.pc = "results" /\ r = Min(loop.todo) /\ owner' = owner
  BY DEF handle
<1>2. r \in loop.todo
  BY <1>1, FirstRule DEF Decided, SocketType, LoopType
<1>3. /\ loop.rules \in RuleSets /\ {1, 4} \subseteq loop.rules
      /\ tcp \in SummaryType /\ pipe \in PipeType /\ flags \in FlagsType /\ total \in TotalType
  BY DEF SocketType, LoopType, Decided
<1>4. tcp.stream <= tcp.stream
  BY <1>3, Capacity DEF SummaryType
<1>5. CASE /\ defunct(r)
           /\ tcp' \in cancel(r, tcp)
           /\ flags' = [flags EXCEPT !.outbound = @ \/ r = 2]
           /\ Handled(r, loop.rules \ {r})
           /\ UNCHANGED <<phase, pipe, total>>
  <2>1. r = 3
    BY <1>1, <1>5 DEF defunct, Decided
  <2>2. tcp' = tcp
    BY <1>5, <2>1 DEF cancel
  <2>3. loop.rules \ {r} \in RuleSets /\ {1, 4} \subseteq loop.rules \ {r}
    BY <1>3, <2>1 DEF RuleSets
  <2>4. flags' \in FlagsType /\ flags'.abort = flags.abort
    <3> DEFINE b == flags.outbound \/ r = 2
    <3>1. flags' = [flags EXCEPT !.outbound = b] /\ b \in BOOLEAN
      BY <1>5, Zenon
    <3> HIDE DEF b
    <3> QED  BY <1>3, <3>1 DEF FlagsType
  <2>5. Conserved' /\ Ordered'
    BY <1>5, <2>2 DEF Conserved, Ordered
  <2> QED  BY <1>1, <1>2, <1>3, <1>4, <1>5, <2>2, <2>3, <2>4, <2>5, HandledInv
<1>6. CASE Handled(r, loop.rules) /\ UNCHANGED <<tcp, phase, pipe, flags, total>>
  <2>1. Conserved' /\ Ordered'
    BY <1>6 DEF Conserved, Ordered
  <2> QED  BY <1>1, <1>2, <1>3, <1>4, <1>6, <2>1, HandledInv
<1>7. CASE phase' = "killed" /\ UNCHANGED <<tcp, loop, pipe, flags, total>>
  <2>1. SocketType' /\ Conserved' /\ Ordered' /\ Decided'
    BY <1>1, <1>7 DEF SocketType, Conserved, Ordered, Decided, readable
  <2> QED  BY <1>1, <1>7, <2>1 DEF EndsWhenDone
<1>8. CASE /\ r \in loop.ready
           /\ callback(r)
           /\ \E s \in served(r) :
                phase' = IF ~s /\ interest(r, tcp', flags') THEN "busy" ELSE phase
           /\ Handled(r, loop.rules)
  <2>1. r # 4 => phase' = phase
    BY <1>8 DEF served
  <2>2. CASE r = 1
    <3>1. incoming_datagram
      BY <1>8, <2>2 DEF callback
    <3>2. /\ Follows(tcp, tcp') /\ total' \in TotalType /\ Conserved' /\ Ordered'
          /\ UNCHANGED <<pipe, flags>>
      BY <3>1, IncomingKeeps
    <3> QED  BY <1>1, <1>2, <1>3, <1>8, <2>1, <2>2, <3>2, HandledInv DEF Follows
  <2>3. CASE r = 2
    <3>1. outbound_bytes
      BY <1>8, <2>3 DEF callback
    <3>2. tcp.stream < SEND_CAPACITY /\ readable
      BY <1>1, <1>2, <1>8, <2>3 DEF Decided
    <3> QED  BY <1>1, <1>2, <1>3, <1>8, <2>1, <2>3, <3>1, <3>2, OutboundKeeps, HandledInv
  <2>4. CASE r = 3
    <3>1. inbound_bytes
      BY <1>8, <2>4 DEF callback
    <3> QED  BY <1>1, <1>2, <1>3, <1>8, <2>1, <2>4, <3>1, InboundKeeps, HandledInv
  <2>5. CASE r = 4
    <3>1. outbound_segments
      BY <1>8, <2>5 DEF callback
    <3>2. UNCHANGED <<pipe, flags, total>>
      BY <3>1 DEF outbound_segments
    <3>3. phase' = phase
      <4>1. ~tcp'.segs
        BY <3>1, SegmentsKeeps
      <4>2. ~interest(r, tcp', flags')
        BY <2>5, <4>1 DEF interest, interest4
      <4> QED  BY <1>8, <4>2
    <3> QED  BY <1>1, <1>2, <1>3, <1>8, <2>5, <3>1, <3>2, <3>3, SegmentsKeeps, HandledInv
  <2> QED  BY <2>2, <2>3, <2>4, <2>5
<1> QED  BY <1>5, <1>6, <1>7, <1>8 DEF handle

(* Asking the kernel preserves the invariant.                              *)
LEMMA PollInv ==
  ASSUME SocketInv, NEW datagram \in BOOLEAN, poll(datagram)
  PROVE  SocketInv'
<1> USE DEF SocketInv
<1> DEFINE ready == {r \in loop.want : \/ r = 1 /\ datagram
                                       \/ r = 2 /\ readable
                                       \/ r = 3 /\ writable
                                       \/ r = 4}
           hup   == hung_up /\ loop.rules \cap {2, 3} # {}
<1>1. /\ Looping /\ loop.pc = "poll" /\ UNCHANGED <<tcp, phase, pipe, flags, owner, total>>
      /\ \/ loop' = [loop EXCEPT !.pc = "after"]
         \/ loop' = [loop EXCEPT !.pc = "results", !.ready = ready, !.hup = hup,
                                 !.todo = loop.rules]
  BY Zenon DEF poll
<1>2. ready \in RuleSets /\ hup \in BOOLEAN /\ loop \in LoopType
  BY DEF SocketType, LoopType, RuleSets
<1>3. /\ 2 \in ready => 2 \in loop.want /\ readable
      /\ hup => readable
      /\ 2 \in loop.want /\ readable => 2 \in ready
  BY DEF hung_up, readable
<1> HIDE DEF ready, hup
<1>4. CASE loop' = [loop EXCEPT !.pc = "after"]
  <2>1. loop' \in LoopType /\ loop'.pc = "after" /\ loop'.rules = loop.rules
    BY <1>2, <1>4 DEF LoopType
  <2>2. SocketType' /\ Conserved' /\ Ordered' /\ Decided'
    BY <1>1, <2>1 DEF SocketType, Conserved, Ordered, Decided
  <2> QED  BY <1>1, <2>2 DEF Looping, EndsWhenDone
<1>5. CASE loop' = [loop EXCEPT !.pc = "results", !.ready = ready, !.hup = hup,
                                !.todo = loop.rules]
  <2>1. loop' \in LoopType
    BY Zenon, <1>2, <1>5 DEF LoopType
  <2>2. /\ loop'.pc = "results" /\ loop'.rules = loop.rules /\ loop'.todo = loop.rules
        /\ loop'.want = loop.want /\ loop'.ready = ready /\ loop'.hup = hup
    BY <1>2, <1>5 DEF LoopType
  <2>3. SocketType' /\ Conserved' /\ Ordered'
    BY <1>1, <2>1 DEF SocketType, Conserved, Ordered
  <2>4. readable' = readable
    BY <1>1 DEF readable
  <2>5. Decided'
    BY <1>1, <1>3, <2>2, <2>4 DEF Decided
  <2> QED  BY <1>1, <2>3, <2>5 DEF Looping, EndsWhenDone
<1> QED  BY <1>1, <1>4, <1>5

(* Reading _abort and the tick preserve the invariant.                     *)
LEMMA AfterInv ==
  ASSUME SocketInv, leave \/ after
  PROVE  SocketInv'
<1> USE DEF SocketInv
<1>1. CASE leave
  <2>1. phase = "running" => flags.abort
    BY <1>1 DEF leave, condition
  <2>2. /\ Looping /\ Leave(loop.rules) /\ UNCHANGED <<tcp, flags, owner, total>>
    BY <1>1 DEF leave
  <2>3. loop.rules \in RuleSets /\ {1, 4} \subseteq loop.rules /\ flags \in FlagsType
    BY DEF SocketType, LoopType, Decided
  <2> QED  BY <2>1, <2>2, <2>3, LeaveInv
<1>2. CASE after
  <2>1. /\ Looping /\ loop' = [loop EXCEPT !.pc = "top"]
        /\ UNCHANGED <<phase, pipe, flags, owner, total>>
    BY <1>2 DEF after
  <2>2. Follows(tcp, tcp') /\ tcp'.inb = tcp.inb
    <3>1. Follows(tcp, tcp)
      BY Capacity DEF Follows, SocketType, SummaryType
    <3> QED  BY <1>2, <3>1, TickFollows DEF after, SocketType
  <2>3. loop' \in LoopType /\ loop'.pc = "top" /\ loop'.rules = loop.rules
    BY <2>1 DEF SocketType, LoopType
  <2>4. SocketType'
    BY <2>1, <2>2, <2>3 DEF SocketType, Follows
  <2>5. Conserved' /\ Ordered'
    BY <2>1, <2>2 DEF Conserved, Ordered, Follows, in_eof
  <2>6. Decided'
    BY <2>3 DEF Decided
  <2> QED  BY <2>1, <2>4, <2>5, <2>6 DEF Looping, EndsWhenDone
<1> QED  BY <1>1, <1>2

(* The invariant holds of every behaviour of the two threads.              *)
THEOREM SocketInvariance == Spec => []SocketInv
<1>1. Init => SocketInv
  <2> SUFFICES ASSUME Init  PROVE SocketInv
    OBVIOUS
  <2>1. tcp \in SummaryType
    BY Capacity DEF Init, NewSummary, SummaryType
  <2>2. loop \in LoopType
    BY DEF Init, NoLoop, LoopType, RuleSets
  <2>3. pipe \in PipeType /\ flags \in FlagsType /\ total \in TotalType
    BY SocketAssumption DEF Init, PipeType, FlagsType, TotalType
  <2>4. SocketType
    BY <2>1, <2>2, <2>3 DEF Init, SocketType
  <2>5. Conserved /\ Ordered /\ Decided
    BY DEF Init, Conserved, Ordered, Decided, NewSummary, NoLoop
  <2> QED  BY <2>4, <2>5 DEF SocketInv, EndsWhenDone, Init
<1>2. SocketInv /\ [Next]_vars => SocketInv'
  <2> SUFFICES ASSUME SocketInv, [Next]_vars  PROVE SocketInv'
    OBVIOUS
  <2>1. CASE UNCHANGED vars
    <3>1. SocketType' /\ Conserved' /\ Ordered' /\ Decided'
      BY <2>1 DEF vars, SocketInv, SocketType, Conserved, Ordered, Decided, readable
    <3> QED  BY <2>1, <3>1 DEF vars, SocketInv, EndsWhenDone
  <2>2. CASE OwnerStep
    BY <2>2, OwnerInv
  <2>3. CASE setup
    BY <2>3, SetupInv
  <2>4. CASE leave \/ after
    BY <2>4, AfterInv
  <2>5. CASE poll(FALSE) \/ poll(TRUE)
    BY Zenon, <2>5, PollInv
  <2>6. CASE \E r \in 1 .. 4 : handle(r)
    BY <2>6, HandleInv
  <2> QED  BY Zenon, <2>1, <2>2, <2>3, <2>4, <2>5, <2>6 DEF Next, LoopStep
<1> QED  BY <1>1, <1>2, PTL DEF Spec

(* The end of the local socket is the end of the peer's stream: an owner   *)
(* who reads up to it, with no reset and no abort, has every byte.         *)
THEOREM EndOfFileCorrect == Spec => []EndOfFileIsEndOfStream
<1>1. SocketInv => EndOfFileIsEndOfStream
  <2> SUFFICES ASSUME SocketInv, pipe.shut \/ phase = "ended", pipe.down = 0,
                      owner = "using", ~tcp.error
               PROVE  tcp.in_end /\ total.read = total.arrived
    BY DEF EndOfFileIsEndOfStream
  <2>1. in_eof(tcp)
    <3>1. CASE pipe.shut
      BY <3>1 DEF SocketInv, Ordered
    <3>2. CASE phase = "ended"
      BY <3>2 DEF SocketInv, EndsWhenDone, active
    <3> QED  BY <3>1, <3>2
  <2>2. total.arrived = total.read + pipe.down + tcp.inb /\ total.read \in Nat
    BY DEF SocketInv, Conserved, SocketType, TotalType
  <2> QED  BY <2>1, <2>2 DEF in_eof
<1> QED  BY <1>1, SocketInvariance, PTL

(* The outbound stream ends after all the owner wrote, and not before the  *)
(* owner shut down writing.                                                *)
THEOREM OutboundCorrect == Spec => []OutboundEndsLast
<1>1. SocketInv => OutboundEndsLast
  BY DEF SocketInv, Ordered, Conserved, OutboundEndsLast, SocketType, TotalType
<1> QED  BY <1>1, SocketInvariance, PTL

(* A thread that ends without an abort leaves the connection inactive and  *)
(* its segments handed over.                                               *)
THEOREM EndsCorrect == Spec => []EndsWhenDone
<1>1. SocketInv => EndsWhenDone
  BY DEF SocketInv
<1> QED  BY <1>1, SocketInvariance, PTL

(* wait_next_event never throws for a rule that is busy waiting.           *)
THEOREM LoopCorrect == Spec => []NeverBusyWaits
<1>1. SocketInv => NeverBusyWaits
  BY DEF SocketInv, SocketType, NeverBusyWaits
<1> QED  BY <1>1, SocketInvariance, PTL
=============================================================================
