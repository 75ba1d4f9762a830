-------------------------- MODULE TCPSenderProofs ---------------------------
(***************************************************************************)
(* Proofs about TCPSender, for every window, payload limit, timeout and    *)
(* modulus.                                                                *)
(***************************************************************************)
EXTENDS TCPSender, TLAPS

(* The moduli are positive. *)
LEMMA ModuliPositive == Mod32 \in Nat \ {0} /\ Mod64 \in Nat \ {0}
BY ModAssumption

(* A remainder is below the modulus. *)
LEMMA RemainderType ==
  ASSUME NEW a \in Int, NEW m \in Nat \ {0}
  PROVE  a % m \in 0 .. m - 1 /\ a % m \in Nat
OBVIOUS

(* A wrapped number is a wire sequence number, and unwrapping yields a      *)
(* natural number.                                                          *)
LEMMA WrapType ==
  ASSUME NEW n \in Nat, NEW isn \in Seqno
  PROVE  wrap(n, isn) \in Seqno
<1>1. n % Mod32 \in Nat
  BY RemainderType, ModuliPositive
<1>2. (n % Mod32) + isn \in Int
  BY <1>1, ModuliPositive DEF Seqno
<1>3. QED
  BY <1>2, RemainderType, ModuliPositive DEF wrap, Seqno

\* unwrap returns a 64-bit number whatever its arguments: ack_received stores it
\* as seqno_acked_.
LEMMA UnwrapType ==
  ASSUME NEW n \in Seqno, NEW isn \in Seqno, NEW c \in Nat
  PROVE  unwrap(n, isn, c) \in Nat
<1> DEFINE steps == (n + Mod32 - isn) % Mod32
           prev  == ((c - steps) % Mod64) \div Mod32
           a     == steps + prev * Mod32
           b     == steps + (prev + 1) * Mod32
<1>1. steps \in Int
  BY RemainderType, ModuliPositive DEF Seqno
<1> HIDE DEF steps
<1>2. c - steps \in Int
  BY <1>1
<1>3. (c - steps) % Mod64 \in Nat
  BY <1>2, RemainderType, ModuliPositive
<1>4. prev \in Int
  BY <1>3, ModuliPositive
<1> HIDE DEF prev
<1>5. a \in Int /\ b \in Int
  BY <1>1, <1>4, ModuliPositive
<1> HIDE DEF a, b
<1>6. a % Mod64 \in Nat /\ b % Mod64 \in Nat
  BY <1>5, RemainderType, ModuliPositive
<1>7. \/ unwrap(n, isn, c) = a % Mod64
      \/ unwrap(n, isn, c) = b % Mod64
  BY DEF unwrap, steps, prev, a, b
<1>8. QED
  BY <1>6, <1>7

-----------------------------------------------------------------------------
(***************************************************************************)
(* The inductive invariant, as a predicate of a sender state.  Next to the *)
(* properties themselves it says how next counts what was sent: the SYN,   *)
(* the bytes read from the stream and the FIN.                             *)
(***************************************************************************)
Counted(s) ==
  /\ s.acked <= s.next
  /\ s.read <= s.written /\ s.written <= s.read + SEND_CAPACITY
  /\ s.next = 0 => s.read = 0 /\ ~s.sent_fin
  /\ s.next > 0 => s.next = 1 + s.read + (IF s.sent_fin THEN 1 ELSE 0)
  /\ s.sent_fin => s.ended /\ s.read = s.written

AlignedIn(s, o) ==
  /\ o.seg.seqno = wrap(o.start, s.isn)
  /\ o.seg.syn <=> o.start = 0
  /\ payload_start(o) = o.seg.from + 1
  /\ o.seg.fin => s.sent_fin /\ end_of(o) = s.next

Covered(s) ==
  /\ \A n \in s.acked .. s.next - 1 : \E o \in s.buffer : o.start <= n /\ n < end_of(o)
  /\ \A o \in s.buffer : o.start < end_of(o) /\ end_of(o) <= s.next
  /\ \A o, p \in s.buffer : o = p \/ end_of(o) <= p.start \/ end_of(p) <= o.start

SenderInv(s) ==
  /\ s \in SenderType
  /\ Counted(s)
  /\ \A o \in s.buffer : AlignedIn(s, o)
  /\ Covered(s)
  /\ s.running => s.buffer # {}

-----------------------------------------------------------------------------
(* The length of a typed segment is a natural number. *)
LEMMA LengthType ==
  ASSUME NEW seg \in SegmentType
  PROVE  length_in_sequence_space(seg) \in Nat
BY DEF SegmentType, length_in_sequence_space

\* The end of an outstanding segment, the number clear_buffer compares with
\* seqno_acked_, is a natural number.
LEMMA EndType ==
  ASSUME NEW s \in SenderType, NEW o \in s.buffer
  PROVE  /\ o \in [start : Nat, seg : SegmentType]
         /\ o.start \in Nat /\ o.seg \in SegmentType /\ end_of(o) \in Nat
BY LengthType DEF SenderType, end_of

(* What one round of fill_window's loop does to the fields of the sender:  *)
(* a segment of the bytes from read on is appended, its flags and length   *)
(* fitting the room left.                                                  *)
Assembled(s, t, syn, fin, len, size, seg) ==
  /\ syn <=> s.next = 0
  /\ len <= buffer_size(s)
  /\ fin => ~s.sent_fin /\ s.ended /\ len = buffer_size(s)
  /\ seg = Segment(wrap(s.next, s.isn), syn, fin, s.read, len)
  /\ size = len + (IF syn THEN 1 ELSE 0) + (IF fin THEN 1 ELSE 0)
  /\ length_in_sequence_space(seg) = size
  /\ t \in SenderType
  /\ t.sent_fin = (s.sent_fin \/ fin)
  /\ t.read = s.read + len
  /\ t.next = s.next + size
  /\ t.buffer = IF size = 0 THEN s.buffer
                ELSE s.buffer \union {[start |-> s.next, seg |-> seg]}
  /\ t.out = IF size = 0 THEN s.out ELSE Append(s.out, seg)
  /\ t.isn = s.isn /\ t.acked = s.acked /\ t.win = s.win
  /\ t.running = s.running /\ t.rto = s.rto /\ t.waited = s.waited
  /\ t.retx = s.retx /\ t.written = s.written /\ t.ended = s.ended

(* Some flags and length describe what assemble_segment makes of s.        *)
LEMMA AssembleFields ==
  ASSUME NEW s \in SenderType, Counted(s), s.next < s.acked + window(s),
         NEW t, t = assemble_segment(s)
  PROVE  \E syn \in BOOLEAN, fin \in BOOLEAN, len \in Nat, size \in Nat, seg \in SegmentType :
           Assembled(s, t, syn, fin, len, size, seg)
<1> DEFINE syn  == s.next = 0
           left == IF syn THEN room(s) - 1 ELSE room(s)
           m    == (left - 1) % Mod64
           fin  == fin_fits(s, left)
           len  == min(IF fin THEN m ELSE left, min(buffer_size(s), MAX_PAYLOAD_SIZE))
           seg  == Segment(wrap(s.next, s.isn), syn, fin, s.read, len)
           size == length_in_sequence_space(seg)
<1>0. /\ s.next \in Nat /\ s.acked \in Nat /\ s.win \in Nat /\ s.read \in Nat
      /\ s.written \in Nat /\ s.isn \in Seqno /\ s.ended \in BOOLEAN
      /\ s.sent_fin \in BOOLEAN /\ s.out \in Seq(SegmentType)
      /\ s.buffer \subseteq [start : Nat, seg : SegmentType]
  BY DEF SenderType
<1>1. room(s) \in Nat /\ room(s) >= 1
  BY <1>0 DEF Counted, room, window, max
<1>2. left \in Nat
  BY <1>1
<1> HIDE DEF left
<1>3. m \in Nat
  BY <1>2, RemainderType, ModuliPositive
<1>4. fin <=> /\ ~s.sent_fin /\ s.ended
              /\ buffer_size(s) <= min(m, MAX_PAYLOAD_SIZE)
  BY DEF fin_fits
<1> HIDE DEF m, fin
<1>5. buffer_size(s) \in Nat
  BY <1>0 DEF Counted, buffer_size
<1>6. len \in Nat /\ len <= buffer_size(s) /\ (fin => len = buffer_size(s))
  BY <1>2, <1>3, <1>4, <1>5, SenderAssumption DEF min
<1> HIDE DEF len
<1>7. syn \in BOOLEAN /\ fin \in BOOLEAN
  BY Zenon, <1>4
<1> HIDE DEF syn
<1>8. wrap(s.next, s.isn) \in Seqno
  BY <1>0, WrapType
<1>9. seg \in SegmentType
  BY <1>0, <1>6, <1>7, <1>8 DEF Segment, SegmentType
<1>10. size = len + (IF syn THEN 1 ELSE 0) + (IF fin THEN 1 ELSE 0)
  BY DEF Segment, length_in_sequence_space
<1>11. size \in Nat
  BY <1>6, <1>7, <1>10
<1>12. seg = Segment(wrap(s.next, s.isn), syn, fin, s.read, len)
  OBVIOUS
<1> HIDE DEF seg
<1>13. length_in_sequence_space(seg) = size
  OBVIOUS
<1> HIDE DEF size
<1>14. t = [s EXCEPT !.sent_fin = @ \/ fin,
                     !.read     = @ + len,
                     !.next     = @ + size,
                     !.buffer   = IF size = 0 THEN @
                                  ELSE @ \union {[start |-> s.next, seg |-> seg]},
                     !.out      = IF size = 0 THEN @ ELSE Append(@, seg)]
  BY DEF assemble_segment, syn, left, m, fin, len, seg, size
<1>15. /\ (s.sent_fin \/ fin) \in BOOLEAN
       /\ s.read + len \in Nat /\ s.next + size \in Nat
       /\ (IF size = 0 THEN s.buffer ELSE s.buffer \union {[start |-> s.next, seg |-> seg]})
             \in SUBSET [start : Nat, seg : SegmentType]
       /\ (IF size = 0 THEN s.out ELSE Append(s.out, seg)) \in Seq(SegmentType)
  BY <1>0, <1>6, <1>9, <1>11
<1>16. t \in SenderType
  BY <1>14, <1>15, ZenonT(40) DEF SenderType
<1>17. /\ t.sent_fin = (s.sent_fin \/ fin)
       /\ t.read = s.read + len
       /\ t.next = s.next + size
       /\ t.buffer = IF size = 0 THEN s.buffer
                     ELSE s.buffer \union {[start |-> s.next, seg |-> seg]}
       /\ t.out = IF size = 0 THEN s.out ELSE Append(s.out, seg)
       /\ t.isn = s.isn /\ t.acked = s.acked /\ t.win = s.win
       /\ t.running = s.running /\ t.rto = s.rto /\ t.waited = s.waited
       /\ t.retx = s.retx /\ t.written = s.written /\ t.ended = s.ended
  BY <1>14, Zenon DEF SenderType
<1>18. syn <=> s.next = 0
  BY DEF syn
<1>19. fin => ~s.sent_fin /\ s.ended /\ len = buffer_size(s)
  BY <1>4, <1>6
<1>20. Assembled(s, t, syn, fin, len, size, seg)
  BY <1>6, <1>10, <1>12, <1>13, <1>16, <1>17, <1>18, <1>19, Zenon DEF Assembled
<1>21. QED
  BY <1>6, <1>7, <1>9, <1>11, <1>20, Zenon

(* The invariant survives a round of the loop, which touches neither what  *)
(* was acknowledged nor what is outstanding already.                       *)
LEMMA AssembleInv ==
  ASSUME NEW s, SenderInv(s), s.next < s.acked + window(s)
  PROVE  LET t == assemble_segment(s) IN
         /\ SenderInv(t)
         /\ t.acked = s.acked /\ s.buffer \subseteq t.buffer /\ t.next >= s.next
         /\ \A o \in t.buffer \ s.buffer : end_of(o) > s.acked
<1> DEFINE t == assemble_segment(s)
<1>0. s \in SenderType /\ Counted(s) /\ Covered(s) /\ \A o \in s.buffer : AlignedIn(s, o)
  BY DEF SenderInv
<1>1. PICK syn \in BOOLEAN, fin \in BOOLEAN, len \in Nat, size \in Nat, seg \in SegmentType :
        Assembled(s, t, syn, fin, len, size, seg)
  BY <1>0, AssembleFields, Zenon
<1> USE DEF Assembled
<1> HIDE DEF t
<1>2. /\ s.next \in Nat /\ s.acked \in Nat /\ s.read \in Nat /\ s.written \in Nat
      /\ s.isn \in Seqno /\ s.ended \in BOOLEAN /\ s.sent_fin \in BOOLEAN
      /\ s.running \in BOOLEAN
  BY <1>0 DEF SenderType
<1>3. Counted(t)
  <2>1. /\ t.acked <= t.next /\ t.next > 0
        /\ t.read <= t.written /\ t.written <= t.read + SEND_CAPACITY
    BY <1>0, <1>1, <1>2, SenderAssumption DEF Counted, buffer_size
  <2>2. t.sent_fin <=> s.sent_fin \/ fin
    BY Zenon, <1>1
  <2>3. t.next = 1 + t.read + (IF t.sent_fin THEN 1 ELSE 0)
    BY <1>0, <1>1, <1>2, <2>2 DEF Counted, buffer_size
  <2>4. t.sent_fin => t.ended /\ t.read = t.written
    BY <1>0, <1>1, <1>2, <2>2 DEF Counted, buffer_size
  <2>5. QED BY <2>1, <2>3, <2>4 DEF Counted
<1> DEFINE new == [start |-> s.next, seg |-> seg]
<1>4. /\ new.start = s.next /\ new.seg = seg
      /\ end_of(new) = s.next + size
      /\ seg.seqno = wrap(s.next, s.isn) /\ seg.syn = syn /\ seg.fin = fin /\ seg.from = s.read
  BY <1>1 DEF end_of, Segment
<1>5. \/ size = 0 /\ t.buffer = s.buffer
      \/ size > 0 /\ t.buffer = s.buffer \union {new}
  BY <1>1
<1> HIDE DEF new
<1>6. s.sent_fin => size = 0
  BY <1>0, <1>1, <1>2 DEF Counted, buffer_size
<1>7. ASSUME NEW o \in t.buffer PROVE AlignedIn(t, o)
  <2>1. CASE o \in s.buffer
    BY <1>0, <1>1, <1>2, <1>6, <2>1 DEF AlignedIn
  <2>2. CASE o = new /\ size > 0
    <3>1. o.seg.seqno = wrap(o.start, t.isn)
      BY <1>1, <1>4, <2>2
    <3>2. o.seg.syn <=> o.start = 0
      BY <1>1, <1>4, <2>2
    <3>3. payload_start(o) = o.seg.from + 1
      <4>1. CASE syn
        BY Zenon, <1>0, <1>1, <1>2, <1>4, <2>2, <4>1 DEF payload_start, Counted
      <4>2. CASE ~syn
        <5>1. size > 0 /\ ~s.sent_fin
          BY <1>6, <2>2
        <5>2. QED
          BY <1>0, <1>1, <1>2, <1>4, <2>2, <4>2, <5>1 DEF payload_start, Counted
      <4>3. QED BY <4>1, <4>2
    <3>4. o.seg.fin => t.sent_fin /\ end_of(o) = t.next
      BY <1>1, <1>4, <2>2
    <3>5. QED BY <3>1, <3>2, <3>3, <3>4 DEF AlignedIn
  <2>3. QED BY <1>5, <2>1, <2>2
<1>8. \A n \in t.acked .. t.next - 1 : \E o \in t.buffer : o.start <= n /\ n < end_of(o)
  BY <1>0, <1>1, <1>2, <1>4, <1>5 DEF Covered
<1>9. \A o \in t.buffer : o.start < end_of(o) /\ end_of(o) <= t.next
  BY <1>0, <1>1, <1>2, <1>4, <1>5, EndType DEF Covered
<1>10. \A o, p \in t.buffer : o = p \/ end_of(o) <= p.start \/ end_of(p) <= o.start
  BY <1>0, <1>1, <1>2, <1>4, <1>5, EndType DEF Covered
<1>11. t.running => t.buffer # {}
  BY SMTT(30), <1>1, <1>5 DEF SenderInv
<1>12. SenderInv(t)
  BY <1>1, <1>3, <1>7, <1>8, <1>9, <1>10, <1>11 DEF SenderInv, Covered
<1>13. \A o \in t.buffer \ s.buffer : end_of(o) > s.acked
  BY <1>0, <1>1, <1>2, <1>4, <1>5 DEF Counted
<1>14. t.acked = s.acked /\ s.buffer \subseteq t.buffer /\ t.next >= s.next
  BY <1>1, <1>2, <1>5
<1>15. QED
  BY <1>12, <1>13, <1>14 DEF t

-----------------------------------------------------------------------------
(* The timer is started by fill_window without touching anything else. *)
LEMMA StartFields ==
  ASSUME NEW s \in SenderType
  PROVE  LET t == start_if_stopped(s) IN
         /\ t \in SenderType
         /\ t.isn = s.isn /\ t.next = s.next /\ t.acked = s.acked /\ t.win = s.win
         /\ t.sent_fin = s.sent_fin /\ t.buffer = s.buffer /\ t.out = s.out
         /\ t.written = s.written /\ t.read = s.read /\ t.ended = s.ended
         /\ t.running <=> s.running \/ s.buffer # {}
<1>1. RT_TIMEOUT \in Nat /\ 0 \in Nat
  BY SenderAssumption
<1>2. CASE ~s.running /\ s.buffer # {}
  BY <1>1, <1>2, Zenon DEF start_if_stopped, SenderType
<1>3. CASE ~(~s.running /\ s.buffer # {})
  BY <1>3, Zenon DEF start_if_stopped
<1>4. QED BY <1>2, <1>3

(* What the invariant says depends on these fields only. *)
LEMMA InvDepends ==
  ASSUME NEW s, SenderInv(s), NEW t \in SenderType,
         t.isn = s.isn, t.next = s.next, t.acked = s.acked, t.sent_fin = s.sent_fin,
         t.buffer = s.buffer, t.read = s.read, t.written >= s.written,
         t.written <= t.read + SEND_CAPACITY,
         s.ended => t.ended /\ t.written = s.written,
         t.running => t.buffer # {}
  PROVE  SenderInv(t)
<1>1. s \in SenderType /\ s.written \in Nat /\ s.read \in Nat /\ t.written \in Nat
  BY DEF SenderInv, SenderType
<1>2. Counted(t)
  BY <1>1 DEF SenderInv, Counted
<1>3. \A o \in t.buffer : AlignedIn(t, o)
  BY DEF SenderInv, AlignedIn
<1>4. Covered(t)
  BY DEF SenderInv, Covered
<1>5. QED
  BY <1>2, <1>3, <1>4 DEF SenderInv

(* The states of the loop of fill_window, entered with s. *)
Reached(s) ==
  {p \in SenderType \X BOOLEAN :
     /\ SenderInv(p[1])
     /\ p[1].acked = s.acked /\ s.buffer \subseteq p[1].buffer /\ p[1].next >= s.next
     /\ \A o \in p[1].buffer \ s.buffer : end_of(o) > s.acked}

\* A round of the loop of fill_window keeps what earlier rounds established.
LEMMA FillStepReached ==
  ASSUME NEW s, SenderInv(s), NEW p \in Reached(s)
  PROVE  FillStep(p) \in Reached(s)
<1>1. CASE p[2] \/ p[1].next >= p[1].acked + window(p[1])
  BY <1>1 DEF FillStep
<1>2. CASE ~(p[2] \/ p[1].next >= p[1].acked + window(p[1]))
  <2> DEFINE u == p[1]
             t == assemble_segment(u)
  <2>1. /\ SenderInv(u) /\ u \in SenderType
        /\ u.acked = s.acked /\ s.buffer \subseteq u.buffer /\ u.next >= s.next
        /\ \A o \in u.buffer \ s.buffer : end_of(o) > s.acked
    BY DEF Reached
  <2>2. FillStep(p) = <<t, buffer_size(t) = 0>>
    BY <1>2 DEF FillStep
  <2>3. u.next < u.acked + window(u)
    BY SMTT(30), <1>2, <2>1 DEF SenderType, window, max
  <2> HIDE DEF u
  <2>4. /\ SenderInv(t)
        /\ t.acked = u.acked /\ u.buffer \subseteq t.buffer /\ t.next >= u.next
        /\ \A o \in t.buffer \ u.buffer : end_of(o) > u.acked
    BY <2>1, <2>3, AssembleInv
  <2> HIDE DEF t
  <2>5. t \in SenderType
    BY <2>4 DEF SenderInv
  <2>6. t.next >= s.next
    <3>1. s.next \in Nat
      BY DEF SenderInv, SenderType
    <3>2. u.next \in Nat
      BY <2>1 DEF SenderType
    <3>3. t.next \in Nat
      BY <2>5 DEF SenderType
    <3>4. QED BY <2>1, <2>4, <3>1, <3>2, <3>3
  <2>7. \A o \in t.buffer \ s.buffer : end_of(o) > s.acked
    BY <2>1, <2>4
  <2>8. t.acked = s.acked /\ s.buffer \subseteq t.buffer
    BY <2>1, <2>4
  <2> DEFINE left == buffer_size(t) = 0
  <2>9. left \in BOOLEAN
    OBVIOUS
  <2> HIDE DEF left
  <2>10. <<t, left>> \in Reached(s)
    BY <2>4, <2>5, <2>6, <2>7, <2>8, <2>9 DEF Reached
  <2>11. QED
    BY <2>2, <2>10 DEF left
<1>3. QED BY <1>1, <1>2

(* What fill_window leaves: the invariant, the timer running exactly when  *)
(* something is outstanding, and nothing forgotten.                        *)
LEMMA FillInv ==
  ASSUME NEW s, SenderInv(s)
  PROVE  LET t == fill_window(s) IN
         /\ SenderInv(t)
         /\ t.running <=> t.buffer # {}
         /\ t.acked = s.acked /\ s.buffer \subseteq t.buffer
         /\ \A o \in t.buffer \ s.buffer : end_of(o) > s.acked
<1> DEFINE p == FillLoop!Iterates(<<s, FALSE>>)[window(s)]
           t == fill_window(s)
<1>1. s \in SenderType
  BY DEF SenderInv
<1>2. window(s) \in Nat
  BY <1>1 DEF SenderType, window, max
<1>3. <<s, FALSE>> \in Reached(s)
  <2>1. s.next >= s.next
    BY <1>1 DEF SenderType
  <2>2. QED BY Zenon, <1>1, <2>1 DEF Reached
<1>4. \A x \in Reached(s) : FillStep(x) \in Reached(s)
  BY FillStepReached
<1>5. p \in Reached(s)
  BY <1>2, <1>3, <1>4, FillLoop!IteratesInvariant
<1> HIDE DEF p
<1>6. t = start_if_stopped(p[1])
  BY DEF fill_window, p
<1>7. /\ SenderInv(p[1]) /\ p[1] \in SenderType
      /\ p[1].acked = s.acked /\ s.buffer \subseteq p[1].buffer
      /\ \A o \in p[1].buffer \ s.buffer : end_of(o) > s.acked
  BY <1>5 DEF Reached
<1> DEFINE u == p[1]
<1> HIDE DEF t, u
<1>8. /\ t \in SenderType
      /\ t.isn = u.isn /\ t.next = u.next /\ t.acked = u.acked
      /\ t.sent_fin = u.sent_fin /\ t.buffer = u.buffer
      /\ t.written = u.written /\ t.read = u.read /\ t.ended = u.ended
      /\ t.running <=> u.running \/ u.buffer # {}
  BY <1>6, <1>7, StartFields DEF u
<1>9. t.running <=> t.buffer # {}
  BY <1>7, <1>8 DEF u, SenderInv
<1>10. t.written >= u.written /\ t.written <= t.read + SEND_CAPACITY
  <2>1. u.written \in Nat /\ u.written <= u.read + SEND_CAPACITY
    BY <1>7 DEF SenderType, SenderInv, Counted, u
  <2>2. QED BY <1>8, <2>1
<1>11. SenderInv(t)
  BY <1>7, <1>8, <1>9, <1>10, InvDepends DEF u
<1>12. QED
  BY <1>7, <1>8, <1>9, <1>11 DEF t, u

-----------------------------------------------------------------------------
(* No outstanding segment is wholly acknowledged. *)
Unacked(s) == \A o \in s.buffer : end_of(o) > s.acked

(* The state in which ack_received leaves s when it takes the number a. *)
Taken(s, a, w) ==
  clear_buffer([(IF a > s.acked THEN new_ack(s, a) ELSE s) EXCEPT !.win = w])

(* The fields of u, and what they were in s, when the number a was taken. *)
TakenFields(s, a, u) ==
  /\ u \in SenderType
  /\ u.isn = s.isn /\ u.next = s.next /\ u.sent_fin = s.sent_fin
  /\ u.acked = IF a > s.acked THEN a ELSE s.acked
  /\ u.buffer \subseteq s.buffer
  /\ \A o \in s.buffer : o \in u.buffer <=> end_of(o) > u.acked
  /\ u.running => u.buffer # {}
  /\ u.written = s.written /\ u.read = s.read /\ u.ended = s.ended

(* What ack_received does to the fields when the acknowledgment is taken. *)
LEMMA AckFields ==
  ASSUME NEW s \in SenderType, NEW a \in Nat, NEW w \in Nat, NEW u,
         u = Taken(s, a, w)
  PROVE  TakenFields(s, a, u)
<1> DEFINE t == IF a > s.acked THEN new_ack(s, a) ELSE s
           v == [t EXCEPT !.win = w]
           left == {o \in v.buffer : end_of(o) > v.acked}
<1>1. RT_TIMEOUT \in Nat /\ 0 \in Nat /\ TRUE \in BOOLEAN
  BY SenderAssumption
<1>2. /\ t \in SenderType
      /\ t.isn = s.isn /\ t.next = s.next /\ t.sent_fin = s.sent_fin
      /\ t.acked = IF a > s.acked THEN a ELSE s.acked
      /\ t.buffer = s.buffer
      /\ t.written = s.written /\ t.read = s.read /\ t.ended = s.ended
  <2>1. CASE a > s.acked
    BY <1>1, <2>1, Zenon DEF new_ack, SenderType
  <2>2. CASE ~(a > s.acked)
    BY <2>2
  <2>3. QED BY <2>1, <2>2
<1> HIDE DEF t
<1>3. /\ v \in SenderType
      /\ v.isn = t.isn /\ v.next = t.next /\ v.sent_fin = t.sent_fin
      /\ v.acked = t.acked /\ v.buffer = t.buffer
      /\ v.written = t.written /\ v.read = t.read /\ v.ended = t.ended
  BY <1>2, Zenon DEF SenderType
<1>4. u = [v EXCEPT !.buffer = left, !.running = @ /\ left # {}]
  BY DEF Taken, clear_buffer, t
<1> HIDE DEF v
<1>5. /\ left \in SUBSET [start : Nat, seg : SegmentType]
      /\ (v.running /\ left # {}) \in BOOLEAN
  <2>1. v.buffer \subseteq [start : Nat, seg : SegmentType]
    BY <1>3, Zenon DEF SenderType
  <2>2. left \subseteq v.buffer
    OBVIOUS
  <2>3. (v.running /\ left # {}) \in BOOLEAN
    OBVIOUS
  <2>4. QED
    BY <2>1, <2>2, <2>3, Zenon
<1>6. left = {o \in s.buffer : end_of(o) > v.acked}
  BY <1>2, <1>3
<1> HIDE DEF left
<1>7. /\ u \in SenderType
      /\ u.isn = v.isn /\ u.next = v.next /\ u.sent_fin = v.sent_fin
      /\ u.acked = v.acked /\ u.buffer = left
      /\ u.running = (v.running /\ left # {})
      /\ u.written = v.written /\ u.read = v.read /\ u.ended = v.ended
  BY <1>3, <1>4, <1>5, Zenon DEF SenderType
<1>8. QED
  BY <1>2, <1>3, <1>6, <1>7, Zenon DEF TakenFields

(* ack_received keeps the invariant, moves the acknowledged number forward *)
(* only and forgets only what is wholly acknowledged.                      *)
LEMMA AckInv ==
  ASSUME NEW s, SenderInv(s), Unacked(s), NEW ackno \in Seqno, NEW w \in Nat
  PROVE  LET u == ack_received(s, ackno, w) IN
         /\ SenderInv(u) /\ Unacked(u)
         /\ u.acked >= s.acked
         /\ \A o \in s.buffer : o \in u.buffer \/ end_of(o) <= u.acked
<1> DEFINE a == unwrap(ackno, s.isn, s.acked)
           u == ack_received(s, ackno, w)
<1>1. s \in SenderType /\ s.isn \in Seqno /\ s.acked \in Nat /\ s.next \in Nat
  BY DEF SenderInv, SenderType
<1>2. a \in Nat
  BY <1>1, UnwrapType
<1> HIDE DEF a
<1>3. CASE a > s.next
  <2>1. u = s
    BY <1>3 DEF ack_received, a
  <2>2. QED BY <1>1, <2>1
<1>4. CASE ~(a > s.next)
  <2>1. u = Taken(s, a, w)
    BY <1>4 DEF ack_received, Taken, a
  <2> HIDE DEF u
  <2>2. /\ u \in SenderType
        /\ u.isn = s.isn /\ u.next = s.next /\ u.sent_fin = s.sent_fin
        /\ u.acked = IF a > s.acked THEN a ELSE s.acked
        /\ u.buffer \subseteq s.buffer
        /\ \A o \in s.buffer : o \in u.buffer <=> end_of(o) > u.acked
        /\ u.running => u.buffer # {}
        /\ u.written = s.written /\ u.read = s.read /\ u.ended = s.ended
    <3>1. TakenFields(s, a, u)
      BY <1>1, <1>2, <2>1, AckFields
    <3>2. QED
      BY <3>1, Zenon DEF TakenFields
  <2>3. u.acked >= s.acked /\ u.acked <= u.next /\ u.acked \in Nat
    BY <1>1, <1>2, <1>4, <2>2 DEF SenderInv, Counted
  <2>4. Counted(u)
    BY <2>2, <2>3 DEF SenderInv, Counted
  <2>5. \A o \in u.buffer : AlignedIn(u, o)
    BY <2>2 DEF SenderInv, AlignedIn
  <2>6. ASSUME NEW n \in u.acked .. u.next - 1
        PROVE  \E o \in u.buffer : o.start <= n /\ n < end_of(o)
    <3>1. n \in s.acked .. s.next - 1
      BY <1>1, <2>2, <2>3
    <3>2. PICK o \in s.buffer : o.start <= n /\ n < end_of(o)
      BY <3>1 DEF SenderInv, Covered
    <3>3. end_of(o) \in Nat
      BY <1>1, EndType
    <3>4. end_of(o) > u.acked
      BY <1>1, <2>3, <3>1, <3>2, <3>3
    <3>5. QED BY <2>2, <3>2, <3>4
  <2>7. Covered(u)
    BY <2>2, <2>6 DEF SenderInv, Covered
  <2>8. SenderInv(u)
    BY <2>2, <2>4, <2>5, <2>7 DEF SenderInv
  <2>9. ASSUME NEW o \in s.buffer PROVE o \in u.buffer \/ end_of(o) <= u.acked
    BY <1>1, <2>2, <2>3, EndType
  <2>10. QED
    BY <2>2, <2>3, <2>8, <2>9 DEF u, Unacked
<1>5. QED BY <1>3, <1>4

-----------------------------------------------------------------------------
(* A write and the end of the input touch the outgoing stream only. *)
LEMMA WriteInv ==
  ASSUME NEW s, SenderInv(s), ~s.ended, NEW n \in Nat
  PROVE  LET t == stream_write(s, n) IN
         SenderInv(t) /\ t.acked = s.acked /\ t.buffer = s.buffer
<1> DEFINE t == stream_write(s, n)
           w == s.written + min(n, SEND_CAPACITY - buffer_size(s))
<1>1. s \in SenderType
  BY DEF SenderInv
<1>2. s.written \in Nat /\ s.read \in Nat
  BY <1>1 DEF SenderType
<1>3. w \in Nat /\ w >= s.written /\ w <= s.read + SEND_CAPACITY
  BY <1>2, SenderAssumption DEF SenderInv, Counted, buffer_size, min
<1>4. t = [s EXCEPT !.written = w]
  BY DEF stream_write
<1> HIDE DEF t, w
<1>5. /\ t \in SenderType /\ t.written = w
      /\ t.isn = s.isn /\ t.next = s.next /\ t.acked = s.acked /\ t.sent_fin = s.sent_fin
      /\ t.buffer = s.buffer /\ t.read = s.read /\ t.ended = s.ended /\ t.running = s.running
  BY <1>1, <1>3, <1>4, Zenon DEF SenderType
<1>6. t.running => t.buffer # {}
  BY <1>5 DEF SenderInv
<1>7. SenderInv(t)
  BY <1>3, <1>5, <1>6, InvDepends
<1>8. QED BY <1>5, <1>7 DEF t

\* Ending the stream (end_input) disturbs nothing that is outstanding.
LEMMA EndInv ==
  ASSUME NEW s, SenderInv(s)
  PROVE  LET t == [s EXCEPT !.ended = TRUE] IN
         SenderInv(t) /\ t.acked = s.acked /\ t.buffer = s.buffer
<1> DEFINE t == [s EXCEPT !.ended = TRUE]
<1>1. s \in SenderType
  BY DEF SenderInv
<1>2. /\ t \in SenderType /\ t.written = s.written /\ t.ended
      /\ t.isn = s.isn /\ t.next = s.next /\ t.acked = s.acked /\ t.sent_fin = s.sent_fin
      /\ t.buffer = s.buffer /\ t.read = s.read /\ t.running = s.running
  BY <1>1, Zenon DEF SenderType
<1> HIDE DEF t
<1>3. t.written >= s.written /\ t.written <= t.read + SEND_CAPACITY
  BY <1>1, <1>2 DEF SenderType, SenderInv, Counted
<1>4. t.running => t.buffer # {}
  BY <1>2 DEF SenderInv
<1>5. SenderInv(t)
  BY <1>2, <1>3, <1>4, InvDepends
<1>6. QED BY <1>2, <1>5 DEF t

(* Some outstanding segment starts first: the front of buffer_ exists. *)
LEMMA FrontExists ==
  ASSUME NEW s \in SenderType, s.buffer # {}
  PROVE  front(s) \in s.buffer /\ front(s).seg \in SegmentType
<1> DEFINE T == {o.start : o \in s.buffer}
<1>1. T \subseteq Nat /\ T # {}
  BY EndType
<1>2. PICK x \in T : \A y \in T : x <= y
  BY Zenon, <1>1, FillLoop!LeastNat
<1>3. \E o \in s.buffer : \A p \in s.buffer : o.start <= p.start
  BY <1>2
<1>4. front(s) \in s.buffer
  BY <1>3 DEF front
<1>5. QED BY <1>4, EndType

(* A tick retransmits at most the first outstanding segment; it forgets    *)
(* nothing and sends nothing new.                                          *)
LEMMA TickInv ==
  ASSUME NEW s, SenderInv(s), NEW ms \in Nat
  PROVE  LET t == sender_tick(s, ms) IN
         /\ SenderInv(t) /\ t.acked = s.acked /\ t.buffer = s.buffer
         /\ t.running = s.running
<1> DEFINE t == sender_tick(s, ms)
           u == IF s.running THEN [s EXCEPT !.waited = @ + ms] ELSE s
           v == retransmit(u)
           Same(x) == /\ x \in SenderType /\ x.written = s.written /\ x.ended = s.ended
                      /\ x.isn = s.isn /\ x.next = s.next /\ x.acked = s.acked
                      /\ x.sent_fin = s.sent_fin /\ x.buffer = s.buffer
                      /\ x.read = s.read /\ x.running = s.running
<1>1. s \in SenderType /\ (s.running => s.buffer # {})
  BY DEF SenderInv
<1>2. s.waited + ms \in Nat
  <2>1. s.waited \in Nat BY <1>1 DEF SenderType
  <2>2. QED BY <2>1
<1>3. Same(u)
  <2>1. CASE s.running
    BY <1>1, <1>2, <2>1, Zenon DEF SenderType
  <2>2. CASE ~s.running
    BY <1>1, <2>2
  <2>3. QED BY <2>1, <2>2
<1>4. (t = v /\ u.running) \/ t = u
  BY DEF sender_tick
<1> HIDE DEF u, t
<1>5. ASSUME u.running PROVE Same(v)
  <2> DEFINE rto  == IF u.win # 0 THEN 2 * u.rto ELSE u.rto
             retx == IF u.win # 0 THEN u.retx + 1 ELSE u.retx
             out  == Append(u.out, front(u).seg)
  <2>1. u.buffer # {}
    BY <1>1, <1>3, <1>5
  <2>2. u.rto \in Nat /\ u.retx \in Nat /\ u.out \in Seq(SegmentType)
    BY <1>3 DEF SenderType
  <2>3. rto \in Nat /\ retx \in Nat /\ 0 \in Nat /\ out \in Seq(SegmentType)
    BY <1>3, <2>1, <2>2, FrontExists
  <2>4. v = [u EXCEPT !.rto = rto, !.retx = retx, !.waited = 0, !.out = out]
    BY Zenon DEF retransmit
  <2> HIDE DEF v, rto, retx, out
  <2>5. /\ v \in SenderType /\ v.written = u.written /\ v.ended = u.ended
        /\ v.isn = u.isn /\ v.next = u.next /\ v.acked = u.acked
        /\ v.sent_fin = u.sent_fin /\ v.buffer = u.buffer
        /\ v.read = u.read /\ v.running = u.running
    BY <1>3, <2>3, <2>4, Zenon DEF SenderType
  <2>6. QED BY <1>3, <2>5
<1>6. Same(t)
  BY <1>3, <1>4, <1>5, Zenon
<1>7. t.written >= s.written /\ t.written <= t.read + SEND_CAPACITY
  BY <1>1, <1>6 DEF SenderType, SenderInv, Counted
<1>8. SenderInv(t)
  BY <1>1, <1>6, <1>7, InvDepends
<1>9. QED BY <1>6, <1>8 DEF t

-----------------------------------------------------------------------------
(***************************************************************************)
(* The inductive invariant of the specification: SenderInv, and between    *)
(* two calls the queue is empty, the timer runs exactly when something is  *)
(* outstanding, and nothing outstanding is wholly acknowledged.            *)
(***************************************************************************)
Timed(s) == s.running <=> s.buffer # {}

Inv == /\ SenderInv(snd) /\ Timed(snd) /\ Unacked(snd)
       /\ snd.out = <<>>
       /\ wire \in Seq(SegmentType)

(* Emptying segments_out_ changes nothing the invariant speaks of. *)
LEMMA SendsInv ==
  ASSUME NEW s, SenderInv(s), Timed(s), Unacked(s), Sends(s)
  PROVE  Inv' /\ snd'.acked = s.acked /\ snd'.buffer = s.buffer /\ snd'.next = s.next
<1>1. s \in SenderType /\ s.out \in Seq(SegmentType)
  BY DEF SenderInv, SenderType
<1>2. snd' = [s EXCEPT !.out = <<>>] /\ wire' = s.out
  BY DEF Sends
<1>3. <<>> \in Seq(SegmentType)
  OBVIOUS
<1>4. /\ snd' \in SenderType /\ snd'.out = <<>> /\ snd'.running = s.running
      /\ snd'.written = s.written /\ snd'.ended = s.ended
      /\ snd'.isn = s.isn /\ snd'.next = s.next /\ snd'.acked = s.acked
      /\ snd'.sent_fin = s.sent_fin /\ snd'.buffer = s.buffer /\ snd'.read = s.read
  BY <1>1, <1>2, <1>3, Zenon DEF SenderType
<1>5. snd'.written >= s.written /\ snd'.written <= snd'.read + SEND_CAPACITY
  BY <1>1, <1>4 DEF SenderType, SenderInv, Counted
<1>6. Timed(snd') /\ Unacked(snd') /\ (snd'.running => snd'.buffer # {})
  BY <1>4 DEF Timed, Unacked
<1>7. SenderInv(snd')
  BY <1>4, <1>5, <1>6, InvDepends
<1>8. QED
  BY <1>1, <1>2, <1>4, <1>6, <1>7 DEF Inv

(* A call that ends with fill_window. *)
LEMMA FillSendsInv ==
  ASSUME NEW s, SenderInv(s), Unacked(s), Sends(fill_window(s))
  PROVE  Inv' /\ snd'.acked = s.acked /\ s.buffer \subseteq snd'.buffer
<1> DEFINE t == fill_window(s)
<1>1. /\ SenderInv(t) /\ Timed(t)
      /\ t.acked = s.acked /\ s.buffer \subseteq t.buffer
      /\ \A o \in t.buffer \ s.buffer : end_of(o) > s.acked
  BY FillInv DEF Timed
<1> HIDE DEF t
<1>2. Unacked(t)
  BY <1>1 DEF Unacked
<1>3. Sends(t)
  BY DEF t
<1>4. Inv' /\ snd'.acked = t.acked /\ snd'.buffer = t.buffer
  BY <1>1, <1>2, <1>3, SendsInv
<1>5. QED BY <1>1, <1>4

-----------------------------------------------------------------------------
\* A newly constructed TCPSender satisfies the inductive invariant.
LEMMA InitInv == Init => Inv
<1> SUFFICES ASSUME Init PROVE Inv
  OBVIOUS
<1>1. /\ ISN \in Seqno /\ 0 \in Nat /\ 1 \in Nat /\ <<>> \in Seq(SegmentType)
      /\ {} \in SUBSET [start : Nat, seg : SegmentType]
  BY EnvironmentAssumption
<1>2. snd \in SenderType
  BY <1>1, Zenon DEF Init, NewSender, SenderType
<1>3. /\ snd.next = 0 /\ snd.acked = 0 /\ snd.read = 0 /\ snd.written = 0
      /\ snd.sent_fin = FALSE /\ snd.running = FALSE /\ snd.buffer = {} /\ snd.out = <<>>
  BY DEF Init, NewSender
<1>4. Counted(snd)
  BY <1>3, SenderAssumption DEF Counted
<1>5. Covered(snd)
  BY <1>3 DEF Covered
<1>6. SenderInv(snd) /\ Timed(snd) /\ Unacked(snd)
  BY <1>2, <1>3, <1>4, <1>5 DEF SenderInv, Timed, Unacked
<1>7. QED
  BY <1>1, <1>3, <1>6 DEF Inv, Init

(* Every call keeps the invariant, and none moves the acknowledged number  *)
(* back or drops a segment that is not wholly acknowledged.                *)
Keeps == /\ snd'.acked >= snd.acked
         /\ \A o \in snd.buffer : o \in snd'.buffer \/ end_of(o) <= snd'.acked

\* Every call of TCPSender preserves the inductive invariant and moves the
\* acknowledged number only forward.
LEMMA NextInv == Inv /\ [Next]_vars => Inv' /\ Keeps
<1> SUFFICES ASSUME Inv, [Next]_vars PROVE Inv' /\ Keeps
  OBVIOUS
<1>0. SenderInv(snd) /\ Timed(snd) /\ Unacked(snd)
  BY DEF Inv
<1>00. snd.acked \in Nat
  BY <1>0 DEF SenderInv, SenderType
<1>1. CASE connect
  BY <1>0, <1>00, <1>1, FillSendsInv DEF connect, Keeps
<1>2. ASSUME NEW n \in 1 .. MaxBytes, write(n) PROVE Inv' /\ Keeps
  <2> DEFINE t == stream_write(snd, n)
  <2>1. SenderInv(t) /\ t.acked = snd.acked /\ t.buffer = snd.buffer
    <3>1. n \in Nat
      BY EnvironmentAssumption
    <3>2. QED BY <1>0, <1>2, <3>1, WriteInv DEF write
  <2>2. Sends(fill_window(t))
    BY <1>2 DEF write
  <2> HIDE DEF t
  <2>3. Unacked(t)
    BY <1>0, <2>1 DEF Unacked
  <2>4. QED
    BY <1>00, <2>1, <2>2, <2>3, FillSendsInv DEF Keeps
<1>3. CASE end_input_stream
  <2> DEFINE t == [snd EXCEPT !.ended = TRUE]
  <2>1. SenderInv(t) /\ t.acked = snd.acked /\ t.buffer = snd.buffer
    BY <1>0, EndInv
  <2>2. Sends(fill_window(t))
    BY <1>3 DEF end_input_stream
  <2> HIDE DEF t
  <2>3. Unacked(t)
    BY <1>0, <2>1 DEF Unacked
  <2>4. QED
    BY <1>00, <2>1, <2>2, <2>3, FillSendsInv DEF Keeps
<1>4. ASSUME NEW ackno \in Seqno, NEW w \in Windows, ack(ackno, w) PROVE Inv' /\ Keeps
  <2> DEFINE t == ack_received(snd, ackno, w)
  <2>1. /\ SenderInv(t) /\ Unacked(t) /\ t.acked >= snd.acked
        /\ \A o \in snd.buffer : o \in t.buffer \/ end_of(o) <= t.acked
    <3>1. w \in Nat
      BY EnvironmentAssumption, ModuliPositive DEF AbsSeqno
    <3>2. QED BY <1>0, <3>1, AckInv
  <2>2. Sends(fill_window(t))
    BY <1>4 DEF ack
  <2> HIDE DEF t
  <2>3. QED
    BY <2>1, <2>2, FillSendsInv DEF Keeps
<1>5. ASSUME NEW ms \in Ticks, tick(ms) PROVE Inv' /\ Keeps
  <2> DEFINE t == sender_tick(snd, ms)
  <2>1. /\ SenderInv(t) /\ t.acked = snd.acked /\ t.buffer = snd.buffer
        /\ t.running = snd.running
    <3>1. ms \in Nat
      BY EnvironmentAssumption
    <3>2. QED BY <1>0, <3>1, TickInv
  <2>2. Sends(t)
    BY <1>5 DEF tick
  <2> HIDE DEF t
  <2>3. Unacked(t) /\ Timed(t)
    BY <1>0, <2>1 DEF Unacked, Timed
  <2>4. QED
    BY <1>00, <2>1, <2>2, <2>3, SendsInv DEF Keeps
<1>6. CASE empty_segment
  <2> DEFINE t == send_empty_segment(snd)
             seg == Segment(wrap(snd.next, snd.isn), FALSE, FALSE, snd.read, 0)
  <2>1. /\ snd \in SenderType /\ snd.next \in Nat /\ snd.isn \in Seqno /\ snd.read \in Nat
        /\ snd.out \in Seq(SegmentType)
    BY <1>0 DEF SenderInv, SenderType
  <2>2. seg \in SegmentType
    BY <2>1, WrapType DEF Segment, SegmentType
  <2> HIDE DEF seg
  <2>3. Append(snd.out, seg) \in Seq(SegmentType)
    BY <2>1, <2>2
  <2>4. /\ t \in SenderType /\ t.written = snd.written /\ t.ended = snd.ended
        /\ t.isn = snd.isn /\ t.next = snd.next /\ t.acked = snd.acked
        /\ t.sent_fin = snd.sent_fin /\ t.buffer = snd.buffer
        /\ t.read = snd.read /\ t.running = snd.running
    BY <2>1, <2>3, Zenon DEF send_empty_segment, SenderType, seg
  <2>5. Sends(t)
    BY <1>6 DEF empty_segment
  <2> HIDE DEF t
  <2>6. t.written >= snd.written /\ t.written <= t.read + SEND_CAPACITY
    BY <1>0, <2>1, <2>4 DEF SenderType, SenderInv, Counted
  <2>7. Unacked(t) /\ Timed(t) /\ (t.running => t.buffer # {})
    BY <1>0, <2>4 DEF Unacked, Timed
  <2>8. SenderInv(t)
    BY <1>0, <2>4, <2>6, <2>7, InvDepends
  <2>9. QED
    BY <1>00, <2>4, <2>5, <2>7, <2>8, SendsInv DEF Keeps
<1>7. CASE UNCHANGED vars
  <2>1. snd' = snd /\ wire' = wire
    BY <1>7 DEF vars
  <2>2. QED BY <1>00, <2>1 DEF Inv, Keeps
<1>8. QED
  BY <1>1, <1>2, <1>3, <1>4, <1>5, <1>6, <1>7 DEF Next

(* The invariant is inductive, so it always holds. *)
THEOREM Invariance == Spec => []Inv
<1>1. Inv /\ [Next]_vars => Inv'
  BY NextInv
<1>2. QED BY InitInv, <1>1, PTL DEF Spec

(* TypeOK for every run of the sender: in particular bytes_in_flight and   *)
(* the stream's counters never underflow.                                  *)
THEOREM TypeCorrect == Spec => []TypeOK
<1>1. Inv => TypeOK
  BY DEF Inv, TypeOK, SenderInv
<1>2. QED BY Invariance, <1>1, PTL

(* The retransmission timer runs exactly while something is outstanding:   *)
(* retransmit() never looks at the front of an empty buffer, and nothing   *)
(* outstanding is left without a timer.                                    *)
THEOREM TimerCorrect == Spec => []TimerMatchesBuffer
<1>1. Inv => TimerMatchesBuffer
  BY DEF Inv, Timed, TimerMatchesBuffer
<1>2. QED BY Invariance, <1>1, PTL

(* Every unacknowledged number is in exactly one outstanding segment. *)
THEOREM TilesCorrect == Spec => []BufferTilesFlight
<1>1. Inv => BufferTilesFlight
  <2> SUFFICES ASSUME Inv PROVE BufferTilesFlight
    OBVIOUS
  <2>1. snd \in SenderType /\ Covered(snd) /\ Unacked(snd)
    BY DEF Inv, SenderInv
  <2>2. ASSUME NEW n \in snd.acked .. snd.next - 1
        PROVE  \E o \in snd.buffer :
                 /\ o.start <= n /\ n < end_of(o)
                 /\ \A p \in snd.buffer : p.start <= n /\ n < end_of(p) => p = o
    <3>1. PICK o \in snd.buffer : o.start <= n /\ n < end_of(o)
      BY <2>1 DEF Covered
    <3>2. n \in Int
      BY <2>1 DEF SenderType
    <3>3. ASSUME NEW p \in snd.buffer, p.start <= n, n < end_of(p) PROVE p = o
      <4>1. o = p \/ end_of(o) <= p.start \/ end_of(p) <= o.start
        BY <2>1 DEF Covered
      <4>2. /\ o.start \in Nat /\ end_of(o) \in Nat
            /\ p.start \in Nat /\ end_of(p) \in Nat
        BY <2>1, EndType
      <4>3. QED BY <3>1, <3>2, <3>3, <4>1, <4>2
    <3>4. QED BY <3>1, <3>3
  <2>3. QED BY <2>1, <2>2 DEF BufferTilesFlight, Covered, Unacked
<1>2. QED BY Invariance, <1>1, PTL

(* Every outstanding byte carries the number of its place in the stream,   *)
(* and an outstanding FIN the number after the last byte.                  *)
THEOREM AlignedCorrect == Spec => []PayloadAligned
<1>1. Inv => PayloadAligned
  <2> SUFFICES ASSUME Inv, NEW o \in snd.buffer
               PROVE  /\ o.seg.seqno = wrap(o.start, snd.isn)
                      /\ o.seg.syn <=> o.start = 0
                      /\ payload_start(o) = o.seg.from + 1
                      /\ o.seg.fin => /\ snd.ended
                                      /\ end_of(o) = snd.written + 2
                                      /\ end_of(o) = snd.next
    BY DEF PayloadAligned
  <2>1. AlignedIn(snd, o) /\ Counted(snd) /\ snd \in SenderType
    BY DEF Inv, SenderInv
  <2>2. snd.read \in Nat /\ snd.next \in Nat
    BY <2>1 DEF SenderType
  <2>3. QED BY <2>1, <2>2 DEF AlignedIn, Counted
<1>2. QED BY Invariance, <1>1, PTL

(* No acknowledgment, whatever its number and whenever it arrives, moves   *)
(* the acknowledged number back or past what was sent, or drops a segment  *)
(* that is not wholly acknowledged.                                        *)
THEOREM AckCorrect == Spec => AckMonotone
<1>1. Inv' => snd'.acked <= snd'.next
  BY DEF Inv, SenderInv, Counted
<1>2. Inv /\ [Next]_vars =>
        [/\ snd'.acked >= snd.acked
         /\ snd'.acked <= snd'.next
         /\ \A o \in snd.buffer : o \in snd'.buffer \/ end_of(o) <= snd'.acked]_vars
  BY NextInv, <1>1 DEF Keeps
<1>3. QED BY Invariance, <1>2, PTL DEF Spec, AckMonotone

-----------------------------------------------------------------------------
(***************************************************************************)
(* Numbers modulo Mod32 and Mod64: what unwrap returns.                    *)
(***************************************************************************)
(* Division with remainder: a number is its quotient times the modulus     *)
(* plus its remainder.                                                     *)
LEMMA QuotientRemainder ==
  ASSUME NEW a \in Int, NEW m \in Nat \ {0}
  PROVE  /\ a \div m \in Int /\ a % m \in 0 .. m - 1
         /\ a = (a \div m) * m + (a % m)
<1>1. a \div m \in Int
  OBVIOUS
<1>2. a % m \in 0 .. m - 1
  BY RemainderType
<1>3. a = (a \div m) * m + (a % m)
  OBVIOUS
<1> QED  BY <1>1, <1>2, <1>3

(* A larger multiple of m is larger by at least m. *)
LEMMA MultiplesApart ==
  ASSUME NEW m \in Nat \ {0}, NEW p \in Int, NEW q \in Int, p < q
  PROVE  p * m + m <= q * m
<1>1. q - p - 1 \in Nat
  OBVIOUS
<1>2. (q - p - 1) * m \in Nat
  BY <1>1
<1>3. (q - p - 1) * m = q * m - p * m - m
  OBVIOUS
<1>4. p * m \in Int /\ q * m \in Int
  OBVIOUS
<1> QED  BY <1>2, <1>3, <1>4

(* The multiple of m just below a number, and its distance from it,        *)
(* determine its quotient and its remainder.                               *)
LEMMA QuotientUnique ==
  ASSUME NEW m \in Nat \ {0}, NEW q \in Int, NEW r \in 0 .. m - 1, NEW a, a = q * m + r
  PROVE  a \div m = q /\ a % m = r
<1> DEFINE p == a \div m
           t == a % m
<1>1. a \in Int
  OBVIOUS
<1>2. p \in Int /\ t \in 0 .. m - 1 /\ a = p * m + t
  BY SMTT(30), <1>1, QuotientRemainder
<1> HIDE DEF p, t
<1>3. p * m \in Int /\ q * m \in Int
  BY <1>2
<1>4. ~(p < q)
  <2>1. p < q => p * m + m <= q * m
    BY <1>2, MultiplesApart
  <2> QED  BY <1>2, <1>3, <2>1
<1>5. ~(q < p)
  <2>1. q < p => q * m + m <= p * m
    BY <1>2, MultiplesApart
  <2> QED  BY <1>2, <1>3, <2>1
<1>6. p = q
  BY <1>2, <1>4, <1>5
<1>7. t = r
  BY <1>2, <1>3, <1>6
<1> QED  BY <1>6, <1>7 DEF p, t

(* The quotient of a number below K times m is below K. *)
LEMMA QuotientBelow ==
  ASSUME NEW m \in Nat \ {0}, NEW K \in Int, NEW y \in Nat, y < K * m
  PROVE  y \div m \in 0 .. K - 1
<1> DEFINE q == y \div m
<1>1. q \in Int /\ y % m \in 0 .. m - 1 /\ y = q * m + (y % m)
  BY QuotientRemainder
<1> HIDE DEF q
<1>2. q * m \in Int /\ K * m \in Int
  BY <1>1
<1>3. ~(q < 0)
  <2>1. q < 0 => q * m + m <= 0 * m
    BY <1>1, MultiplesApart
  <2> QED  BY <1>1, <1>2, <2>1
<1>4. ~(K < q)
  <2>1. K < q => K * m + m <= q * m
    BY <1>1, MultiplesApart
  <2> QED  BY <1>1, <1>2, <2>1
<1>5. K # q
  BY <1>1, <1>2
<1> QED  BY <1>1, <1>3, <1>4, <1>5 DEF q

(* The remainder of a sum of two numbers below the modulus: at most one    *)
(* subtraction of the modulus.                                             *)
LEMMA RemainderOfSum ==
  ASSUME NEW m \in Nat \ {0}, NEW a \in 0 .. 2 * m - 1
  PROVE  a % m = IF a < m THEN a ELSE a - m
<1>1. CASE a < m
  <2> DEFINE q == 0
  <2>1. q \in Int /\ a \in 0 .. m - 1 /\ a = q * m + a
    BY <1>1
  <2> HIDE DEF q
  <2>2. a % m = a
    BY <2>1, QuotientUnique
  <2> QED  BY <1>1, <2>2
<1>2. CASE ~(a < m)
  <2> DEFINE q == 1
             r == a - m
  <2>1. q \in Int /\ r \in 0 .. m - 1 /\ a = q * m + r
    BY <1>2
  <2> HIDE DEF q, r
  <2>2. a % m = r
    BY <2>1, QuotientUnique
  <2> QED  BY <1>2, <2>2 DEF r
<1> QED  BY <1>1, <1>2

(* The absolute numbers that wrap to n: those steps above a multiple of    *)
(* the wire modulus, where steps is the distance unwrap computes from the  *)
(* initial sequence number.                                                *)
LEMMA WrapsTo ==
  ASSUME NEW n \in Seqno, NEW isn \in Seqno, NEW x \in Nat
  PROVE  wrap(x, isn) = n <=> x % Mod32 = (n + Mod32 - isn) % Mod32
<1> DEFINE r == x % Mod32
           d == n + Mod32 - isn
           steps == d % Mod32
<1>1. Mod32 \in Nat \ {0} /\ n \in 0 .. Mod32 - 1 /\ isn \in 0 .. Mod32 - 1
  BY ModuliPositive DEF Seqno
<1>2. r \in 0 .. Mod32 - 1
  BY <1>1, RemainderType
<1>3. wrap(x, isn) = (r + isn) % Mod32
  BY DEF wrap
<1> HIDE DEF r
<1>4. (r + isn) % Mod32 = IF r + isn < Mod32 THEN r + isn ELSE (r + isn) - Mod32
  <2> DEFINE a == r + isn
  <2>1. a \in 0 .. 2 * Mod32 - 1
    BY <1>1, <1>2
  <2> HIDE DEF a
  <2>2. a % Mod32 = IF a < Mod32 THEN a ELSE a - Mod32
    BY Zenon, <1>1, <2>1, RemainderOfSum
  <2> QED  BY <2>2 DEF a
<1>5. steps = IF d < Mod32 THEN d ELSE d - Mod32
  <2>1. d \in 0 .. 2 * Mod32 - 1
    BY <1>1
  <2> HIDE DEF d
  <2> QED  BY Zenon, <1>1, <2>1, RemainderOfSum
<1> HIDE DEF steps
<1>6. (r + isn) % Mod32 = n <=> r = steps
  BY <1>1, <1>2, <1>4, <1>5
<1> QED  BY <1>3, <1>6 DEF r, steps, d

(* unwrap returns, of the absolute numbers that wrap to n, the one closest *)
(* to the checkpoint, at both ends of the 64-bit range too.                *)
LEMMA UnwrapNearest ==
  ASSUME NEW n \in Seqno, NEW isn \in Seqno, NEW c \in AbsSeqno
  PROVE  Nearest(unwrap(n, isn, c), n, isn, c)
<1> DEFINE steps == (n + Mod32 - isn) % Mod32
           K     == Mod64 \div Mod32
           z     == (c - steps) % Mod64
           prev  == z \div Mod32
           low   == steps + prev * Mod32
           high  == steps + (prev + 1) * Mod32
           a     == low % Mod64
           b     == high % Mod64
           u     == unwrap(n, isn, c)
<1>1. /\ Mod32 \in Nat \ {0} /\ Mod64 \in Nat \ {0} /\ Mod64 >= 2 * Mod32
      /\ c \in 0 .. Mod64 - 1
  BY ModAssumption DEF AbsSeqno
<1>2. K \in Int /\ Mod64 = K * Mod32
  <2>1. Mod64 = K * Mod32 + (Mod64 % Mod32) /\ K \in Int
    BY <1>1, QuotientRemainder
  <2> HIDE DEF K
  <2> QED  BY <1>1, <2>1, ModAssumption
<1>3. steps \in 0 .. Mod32 - 1
  <2> DEFINE d == n + Mod32 - isn
  <2>1. d \in Int
    BY <1>1 DEF Seqno
  <2> HIDE DEF d
  <2>2. d % Mod32 \in 0 .. Mod32 - 1
    BY <1>1, <2>1, RemainderType
  <2> QED  BY <2>2 DEF d
<1> SUFFICES Nearest(u, n, isn, c)
  BY Zenon
<1>4. u = IF distance(c, a) < distance(c, b) THEN a ELSE b
  BY DEF unwrap
<1> HIDE DEF K, steps
<1>5. K >= 2
  <2>1. K < 2 => K * Mod32 + Mod32 <= 2 * Mod32
    BY <1>1, <1>2, MultiplesApart
  <2> QED  BY <1>1, <1>2, <2>1
<1>6. ASSUME NEW x \in AbsSeqno
      PROVE  wrap(x, isn) = n <=> \E q \in 0 .. K - 1 : x = q * Mod32 + steps
  <2> DEFINE q == x \div Mod32
             r == x % Mod32
  <2>1. x \in Nat /\ x < Mod64
    BY <1>1 DEF AbsSeqno
  <2>2. q \in Int /\ r \in 0 .. Mod32 - 1 /\ x = q * Mod32 + r
    BY <1>1, <2>1, QuotientRemainder
  <2>3. wrap(x, isn) = n <=> r = steps
    BY <2>1, WrapsTo DEF steps
  <2>4. ASSUME NEW k \in 0 .. K - 1, x = k * Mod32 + steps PROVE r = steps
    <3>1. k \in Int /\ x = k * Mod32 + steps
      BY <1>2, <2>4
    <3> QED  BY Zenon, <1>1, <1>3, <3>1, QuotientUnique
  <2>5. q \in 0 .. K - 1
    BY Zenon, <1>1, <1>2, <2>1, QuotientBelow
  <2> HIDE DEF q, r
  <2> QED  BY <2>2, <2>3, <2>4, <2>5
<1> DEFINE P(q) == q * Mod32 + steps
<1>7. /\ \A q \in Int : P(q) \in Int
      /\ \A p, q \in Int : p < q => P(p) + Mod32 <= P(q)
      /\ \A q \in Int : P(q + 1) = P(q) + Mod32
      /\ P(0) = steps /\ P(K) = Mod64 + steps
  <2>1. \A q \in Int : P(q) \in Int
    BY <1>1, <1>3
  <2>2. ASSUME NEW p \in Int, NEW q \in Int, p < q PROVE P(p) + Mod32 <= P(q)
    <3>1. p * Mod32 + Mod32 <= q * Mod32
      BY <1>1, <2>2, MultiplesApart
    <3>2. p * Mod32 \in Int /\ q * Mod32 \in Int
      BY <1>1
    <3> QED  BY <1>1, <1>3, <3>1, <3>2
  <2>3. ASSUME NEW q \in Int PROVE P(q + 1) = P(q) + Mod32
    BY <1>1, <1>3
  <2>4. P(0) = steps /\ P(K) = Mod64 + steps
    BY <1>1, <1>2, <1>3
  <2> QED  BY <2>1, <2>2, <2>3, <2>4
<1>8. low = P(prev) /\ high = P(prev + 1)
  <2>1. z \in Int
    <3>1. c - steps \in Int
      BY <1>1, <1>3
    <3> QED  BY <1>1, <3>1, RemainderType
  <2>2. prev \in Int
    BY <1>1, <2>1, QuotientRemainder
  <2> HIDE DEF prev
  <2> QED  BY <1>1, <1>3, <2>2
<1>9. \A x \in AbsSeqno : wrap(x, isn) = n <=> \E q \in 0 .. K - 1 : x = P(q)
  BY <1>6
<1>10. ASSUME NEW x \in Int, 0 <= x, x < Mod64 + Mod32
       PROVE  x % Mod64 = IF x < Mod64 THEN x ELSE x - Mod64
  <2>1. x \in 0 .. 2 * Mod64 - 1
    BY <1>1, <1>10
  <2> QED  BY Zenon, <1>1, <2>1, RemainderOfSum
<1> HIDE DEF low, high, prev, z
<1> HIDE DEF P
<1>11. \A q \in 0 .. K - 1 : P(q) \in AbsSeqno
  <2> SUFFICES ASSUME NEW q \in 0 .. K - 1 PROVE P(q) \in AbsSeqno
    OBVIOUS
  <2>1. q \in Int /\ q < K /\ (q = 0 \/ 0 < q)
    BY <1>2
  <2>2. P(q) \in Int
    BY <1>7, <2>1
  <2>3. P(q) + Mod32 <= P(K) /\ (q = 0 \/ P(0) + Mod32 <= P(q))
    <3>1. K \in Int /\ 0 \in Int /\ \A x, y \in Int : x < y => P(x) + Mod32 <= P(y)
      BY <1>2, <1>7
    <3> QED  BY <2>1, <3>1
  <2>4. P(0) = steps /\ P(K) = Mod64 + steps
    BY <1>7
  <2> QED  BY <1>1, <1>3, <2>1, <2>2, <2>3, <2>4 DEF AbsSeqno
<1> DEFINE Best(q, p) == \/ distance(P(p), c) > distance(P(q), c)
                         \/ distance(P(p), c) = distance(P(q), c) /\ P(p) <= P(q)
<1>12. ASSUME NEW w \in 0 .. K - 1, u = P(w), \A q \in 0 .. K - 1 : Best(w, q)
       PROVE  Nearest(u, n, isn, c)
  <2>1. u \in AbsSeqno /\ wrap(u, isn) = n
    BY <1>9, <1>11, <1>12
  <2>2. ASSUME NEW x \in AbsSeqno, wrap(x, isn) = n
        PROVE  \/ distance(x, c) > distance(u, c)
               \/ distance(x, c) = distance(u, c) /\ x <= u
    <3>1. PICK q \in 0 .. K - 1 : x = P(q)
      BY <1>9, <2>2
    <3>2. Best(w, q)
      BY <1>12
    <3> HIDE DEF u
    <3> QED  BY <1>12, <3>1, <3>2
  <2> HIDE DEF u
  <2> QED  BY <2>1, <2>2 DEF Nearest
<1> HIDE DEF u, a, b
<1>13. CASE c >= steps
  <2>1. z = c - steps
    <3> DEFINE y == c - steps
    <3>1. y \in Int /\ 0 <= y /\ y < Mod64
      BY <1>1, <1>3, <1>13
    <3> HIDE DEF y
    <3>2. y % Mod64 = y
      BY <1>1, <1>10, <3>1
    <3> QED  BY <3>2 DEF y, z
  <2>2. z \in Nat /\ z < K * Mod32
    BY <1>1, <1>2, <1>3, <1>13, <2>1
  <2>3. prev \in 0 .. K - 1
    BY Zenon, <1>1, <1>2, <2>2, QuotientBelow DEF prev
  <2>4. z % Mod32 \in 0 .. Mod32 - 1 /\ z = prev * Mod32 + (z % Mod32)
    <3>1. z \in Int
      BY <2>2
    <3> QED  BY <1>1, <3>1, QuotientRemainder DEF prev
  <2>5. prev \in Int /\ P(prev) \in AbsSeqno /\ P(prev) \in Int
    <3>1. prev \in Int
      BY <1>2, <2>3
    <3> QED  BY <1>7, <1>11, <2>3, <3>1
  <2>6. P(prev) <= c /\ c < P(prev) + Mod32
    BY <1>1, <1>3, <2>1, <2>4, <2>5 DEF P
  <2>7. a = P(prev)
    BY <1>1, <1>8, <1>10, <2>5 DEF a, AbsSeqno
  <2>8. CASE prev < K - 1
    <3>1. prev + 1 \in 0 .. K - 1 /\ prev + 1 \in Int
      BY <1>2, <2>3, <2>8
    <3>2. P(prev + 1) = P(prev) + Mod32 /\ P(prev + 1) \in AbsSeqno /\ P(prev + 1) \in Int
      BY <1>7, <1>11, <2>5, <3>1
    <3>3. b = P(prev + 1)
      BY <1>1, <1>8, <1>10, <3>2 DEF b, AbsSeqno
    <3>4. ASSUME NEW q \in 0 .. K - 1
          PROVE  P(q) \in Int /\ (P(q) = a \/ P(q) = b \/ P(q) + Mod32 <= a \/ b + Mod32 <= P(q))
      <4>1. q \in Int /\ (q = prev \/ q = prev + 1 \/ q < prev \/ prev + 1 < q)
        BY <1>2, <2>5
      <4> QED  BY Zenon, <1>7, <2>5, <2>7, <3>1, <3>3, <4>1
    <3>5. PICK w \in {prev, prev + 1} : u = P(w) /\ \A q \in 0 .. K - 1 : Best(w, q)
      <4>1. CASE distance(c, a) < distance(c, b)
        <5>1. u = a /\ a = P(prev)
          BY <1>4, <2>7, <4>1
        <5>2. ASSUME NEW q \in 0 .. K - 1 PROVE Best(prev, q)
          BY <1>1, <2>5, <2>6, <2>7, <3>2, <3>3, <3>4, <4>1 DEF distance
        <5> QED  BY <5>1, <5>2
      <4>2. CASE ~(distance(c, a) < distance(c, b))
        <5>1. u = b /\ b = P(prev + 1)
          BY <1>4, <3>3, <4>2
        <5>2. ASSUME NEW q \in 0 .. K - 1 PROVE Best(prev + 1, q)
          BY <1>1, <2>5, <2>6, <2>7, <3>2, <3>3, <3>4, <4>2 DEF distance
        <5> QED  BY <5>1, <5>2
      <4> QED  BY <4>1, <4>2
    <3> HIDE DEF Best
    <3>6. w \in 0 .. K - 1
      BY <2>3, <3>1
    <3> QED  BY <1>12, <3>5, <3>6, Zenon
  <2>9. CASE prev = K - 1
    <3>1. P(prev + 1) = Mod64 + steps /\ P(0) = steps
      BY <1>2, <1>7, <2>9
    <3>2. b = steps
      BY <1>1, <1>3, <1>8, <1>10, <3>1 DEF b
    <3>3. 0 < prev
      BY <1>2, <1>5, <2>9
    <3>4. steps + Mod32 <= P(prev)
      BY <1>7, <2>5, <3>1, <3>3
    <3>5. u = P(prev)
      BY <1>1, <1>3, <1>4, <2>5, <2>6, <2>7, <3>2, <3>4 DEF distance
    <3>6. ASSUME NEW q \in 0 .. K - 1 PROVE Best(prev, q)
      <4>1. q \in Int /\ P(q) \in Int /\ (q = prev \/ q < prev)
        BY SMTT(30), <1>2, <1>7, <2>9
      <4>2. q = prev \/ P(q) + Mod32 <= P(prev)
        BY <1>7, <2>5, <4>1
      <4> QED  BY <1>1, <2>5, <2>6, <4>1, <4>2 DEF distance
    <3> HIDE DEF Best
    <3> QED  BY <1>12, <2>3, <3>5, <3>6, Zenon
  <2> QED  BY <1>2, <2>3, <2>8, <2>9
<1>14. CASE c < steps
  <2>1. z = (Mod64 + c) - steps
    <3> DEFINE y == c - steps
               q == 0 - 1
               r == (Mod64 + c) - steps
    <3>1. q \in Int /\ r \in 0 .. Mod64 - 1 /\ y = q * Mod64 + r
      BY <1>1, <1>3, <1>14
    <3> HIDE DEF y, q, r
    <3>2. y % Mod64 = r
      BY <1>1, <3>1, QuotientUnique
    <3> QED  BY <3>2 DEF y, r, z
  <2>2. prev = K - 1
    <3> DEFINE k == K - 1
               r == (Mod32 + c) - steps
    <3>1. k \in Int /\ r \in 0 .. Mod32 - 1
      BY <1>1, <1>2, <1>3, <1>14
    <3>2. k * Mod32 = Mod64 - Mod32
      BY <1>1, <1>2
    <3> HIDE DEF k
    <3>3. z = k * Mod32 + r
      BY <1>1, <1>3, <2>1, <3>2
    <3> HIDE DEF r
    <3>4. z \div Mod32 = k
      BY <1>1, <3>1, <3>3, QuotientUnique
    <3> QED  BY <3>4 DEF k, prev
  <2>3. 0 \in 0 .. K - 1 /\ prev \in 0 .. K - 1 /\ prev \in Int /\ 0 < prev
    BY <1>2, <1>5, <2>2
  <2>4. /\ P(prev + 1) = Mod64 + steps /\ P(0) = steps
        /\ P(prev) \in AbsSeqno /\ P(prev) \in Int /\ steps + Mod32 <= P(prev)
    <3>1. prev + 1 = K
      BY <1>2, <2>2
    <3>2. P(K) = Mod64 + steps /\ P(0) = steps
      BY <1>7
    <3>3. P(prev) \in AbsSeqno /\ P(prev) \in Int /\ P(0) + Mod32 <= P(prev)
      BY <1>7, <1>11, <2>3
    <3> QED  BY <3>1, <3>2, <3>3
  <2>5. a = P(prev)
    BY <1>1, <1>8, <1>10, <2>4 DEF a, AbsSeqno
  <2>6. b = steps
    BY <1>1, <1>3, <1>8, <1>10, <2>4 DEF b
  <2>7. u = P(0)
    BY <1>1, <1>3, <1>4, <1>14, <2>4, <2>5, <2>6 DEF distance
  <2>8. ASSUME NEW q \in 0 .. K - 1 PROVE Best(0, q)
    <3>1. q \in Int /\ (q = 0 \/ 0 < q)
      BY <1>2
    <3>2. P(q) \in Int
      BY <1>7, <3>1
    <3>3. q = 0 \/ steps + Mod32 <= P(q)
      BY <1>7, <2>4, <3>1
    <3> QED  BY <1>1, <1>3, <1>14, <2>4, <3>1, <3>2, <3>3 DEF distance
  <2> HIDE DEF Best
  <2> QED  BY <1>12, <2>3, <2>7, <2>8, Zenon
<1>15. c >= steps \/ c < steps
  BY <1>1, <1>3
<1> QED  BY <1>13, <1>14, <1>15

(* Whatever the initial sequence number, unwrap takes every sequence       *)
(* number for the nearest absolute one: no acknowledgment is mistaken for  *)
(* one a whole modulus away.                                               *)
THEOREM UnwrapCorrect == Spec => []UnwrapIsNearest
<1>1. Inv => UnwrapIsNearest
  <2> SUFFICES ASSUME Inv PROVE UnwrapIsNearest
    OBVIOUS
  <2>1. snd.isn \in Seqno
    BY DEF Inv, SenderInv, SenderType
  <2>2. Seqno \subseteq RightIsns
    BY UnwrapNearest DEF RightIsns
  <2> QED  BY <2>1, <2>2 DEF UnwrapIsNearest
<1>2. QED BY Invariance, <1>1, PTL

-----------------------------------------------------------------------------
(***************************************************************************)
(* How fill_window uses the window.  Fits: what was sent ends inside it.   *)
(* Full: it ends exactly there or beyond.  Drained: nothing is left to     *)
(* send, neither bytes nor the FIN of an ended stream.                     *)
(***************************************************************************)
Fits(s)    == s.next <= s.acked + window(s)
Full(s)    == s.next >= s.acked + window(s)
Drained(s) == buffer_size(s) = 0 /\ (s.ended => s.sent_fin)

(* A round of the loop stays inside the window, unless the stream ended    *)
(* before the SYN was sent; it either takes a new sequence number or was   *)
(* the last one, and the last one leaves the window full or nothing to     *)
(* send.                                                                   *)
LEMMA AssembleFills ==
  ASSUME NEW s \in SenderType, Counted(s), s.next < s.acked + window(s), s.win < Mod64,
         NEW t, t = assemble_segment(s)
  PROVE  /\ (s.next = 0 => ~s.ended) => Fits(t)
         /\ buffer_size(t) = 0 => Full(t) \/ Drained(t)
         /\ buffer_size(t) # 0 => t.next > s.next
         /\ t.next > 0 /\ t.win = s.win /\ t.ended = s.ended
<1> DEFINE syn  == s.next = 0
           left == IF syn THEN room(s) - 1 ELSE room(s)
           m    == (left - 1) % Mod64
           fin  == fin_fits(s, left)
           bs   == buffer_size(s)
           len  == min(IF fin THEN m ELSE left, min(bs, MAX_PAYLOAD_SIZE))
           seg  == Segment(wrap(s.next, s.isn), syn, fin, s.read, len)
           size == length_in_sequence_space(seg)
<1>0. /\ s.next \in Nat /\ s.acked \in Nat /\ s.win \in Nat /\ s.read \in Nat
      /\ s.written \in Nat /\ s.ended \in BOOLEAN /\ s.sent_fin \in BOOLEAN
      /\ Mod64 \in Nat /\ Mod64 > 1 /\ MAX_PAYLOAD_SIZE \in Nat \ {0}
      /\ MAX_PAYLOAD_SIZE < Mod64
  BY SenderAssumption, ModAssumption, EnvironmentAssumption DEF SenderType
<1>1. /\ room(s) \in Nat /\ room(s) >= 1 /\ room(s) <= Mod64
      /\ window(s) \in Nat /\ room(s) = window(s) - (s.next - s.acked)
  BY <1>0 DEF Counted, room, window, max
<1>2. left \in Nat /\ left <= Mod64 /\ (syn => left = room(s) - 1) /\ (~syn => left = room(s))
  BY <1>0, <1>1
<1> HIDE DEF left
<1>3. m = IF left = 0 THEN Mod64 - 1 ELSE left - 1
  <2>1. CASE left = 0
    <3> DEFINE y == left - 1
               q == 0 - 1
               r == Mod64 - 1
    <3>1. q \in Int /\ r \in 0 .. Mod64 - 1 /\ y = q * Mod64 + r
      BY <1>0, <2>1
    <3> HIDE DEF y, q, r
    <3>2. y % Mod64 = r
      BY <3>1, ModuliPositive, QuotientUnique
    <3> QED  BY <2>1, <3>2 DEF y, r
  <2>2. CASE left # 0
    <3> DEFINE y == left - 1
    <3>1. y \in 0 .. 2 * Mod64 - 1 /\ y < Mod64
      BY <1>0, <1>2, <2>2
    <3> HIDE DEF y
    <3>2. y % Mod64 = y
      BY <3>1, ModuliPositive, RemainderOfSum
    <3> QED  BY <2>2, <3>2 DEF y
  <2> QED  BY <2>1, <2>2
<1>4. fin <=> ~s.sent_fin /\ s.ended /\ bs <= min(m, MAX_PAYLOAD_SIZE)
  BY DEF fin_fits
<1> HIDE DEF m, fin
<1>5. bs \in Nat /\ bs = s.written - s.read
  BY <1>0 DEF Counted, buffer_size
<1>6. size = len + (IF syn THEN 1 ELSE 0) + (IF fin THEN 1 ELSE 0)
  BY Zenon DEF Segment, length_in_sequence_space
<1>7. /\ t.sent_fin = (s.sent_fin \/ fin) /\ t.read = s.read + len
      /\ t.next = s.next + size /\ t.written = s.written /\ t.ended = s.ended
      /\ t.acked = s.acked /\ t.win = s.win
  BY Zenon DEF assemble_segment, SenderType, syn, left, m, fin, bs, len, seg, size
<1> HIDE DEF seg, size
<1>8. len \in Nat /\ size \in Nat
  BY <1>0, <1>2, <1>3, <1>5, <1>6 DEF min
<1>9. buffer_size(t) = bs - len /\ window(t) = window(s)
  BY <1>0, <1>5, <1>7, <1>8 DEF buffer_size, window
<1>10. ASSUME s.next = 0 => ~s.ended PROVE Fits(t)
  BY SMTT(30), <1>0, <1>1, <1>2, <1>3, <1>4, <1>5, <1>6, <1>7, <1>9, <1>10 DEF Fits, min
<1>11. ASSUME buffer_size(t) = 0, ~Drained(t) PROVE Full(t)
  <2>1. t.ended /\ ~t.sent_fin
    BY <1>11 DEF Drained
  <2>2. s.ended /\ ~s.sent_fin /\ ~fin
    BY Zenon, <1>7, <2>1
  <2>3. len = bs /\ bs > min(m, MAX_PAYLOAD_SIZE)
    BY <1>0, <1>3, <1>4, <1>5, <1>8, <1>9, <1>11, <2>2 DEF min
  <2>4. left # 0 /\ len = left
    BY <1>0, <1>2, <1>3, <1>5, <2>2, <2>3 DEF min
  <2> QED  BY <1>0, <1>1, <1>2, <1>6, <1>7, <1>9, <2>2, <2>4 DEF Full
<1>12. ASSUME buffer_size(t) # 0 PROVE size > 0
  <2>1. ~fin
    BY <1>0, <1>3, <1>4, <1>5, <1>8, <1>9, <1>12 DEF min
  <2> QED  BY <1>0, <1>1, <1>2, <1>5, <1>6, <1>8, <1>9, <1>12, <2>1 DEF min
<1>13. t.next > 0
  BY <1>0, <1>6, <1>7, <1>8
<1> QED  BY <1>0, <1>7, <1>8, <1>10, <1>11, <1>12, <1>13

(* The state p of the loop of fill_window, entered with s, after k rounds: *)
(* while it goes on, every round has taken a sequence number.              *)
Filling(s, k, p) ==
  /\ p \in Reached(s)
  /\ p[1].win = s.win /\ p[1].ended = s.ended
  /\ p[2] => (Full(p[1]) \/ Drained(p[1])) /\ p[1].next > 0
  /\ ~p[2] => Full(p[1]) \/ p[1].next >= s.next + k
  /\ (s.next = 0 => ~s.ended) => p[1].next = s.next \/ Fits(p[1])

(* One more round. *)
LEMMA FillingStep ==
  ASSUME NEW s, SenderInv(s), s.win < Mod64, NEW k \in Nat, NEW p, Filling(s, k, p)
  PROVE  Filling(s, k + 1, FillStep(p))
<1> DEFINE u == p[1]
           t == assemble_segment(u)
           done == buffer_size(t) = 0
<1>1. FillStep(p) \in Reached(s)
  BY FillStepReached DEF Filling
<1>2. /\ p \in SenderType \X BOOLEAN
      /\ SenderInv(u) /\ u \in SenderType /\ u.acked = s.acked /\ u.next >= s.next
  BY SMTT(30) DEF Filling, Reached
<1>3. /\ s \in SenderType /\ s.next \in Nat /\ u.next \in Nat /\ u.acked \in Nat
      /\ window(u) \in Nat /\ Counted(u)
  BY Zenon, <1>2 DEF SenderInv, SenderType, window, max
<1>4. /\ u.win = s.win /\ u.ended = s.ended
      /\ p[2] => (Full(u) \/ Drained(u)) /\ u.next > 0
      /\ ~p[2] => Full(u) \/ u.next >= s.next + k
      /\ (s.next = 0 => ~s.ended) => u.next = s.next \/ Fits(u)
  BY DEF Filling
<1>5. CASE p[2] \/ Full(u)
  <2>1. FillStep(p) = p
    BY <1>5 DEF FillStep, Full
  <2>2. ~p[2] => Full(u)
    BY <1>5
  <2> QED  BY <1>1, <1>4, <2>1, <2>2, Zenon DEF Filling
<1>6. CASE ~(p[2] \/ Full(u))
  <2>1. FillStep(p) = <<t, done>>
    BY SMTT(30), <1>6 DEF FillStep, Full
  <2>2. u.next < u.acked + window(u) /\ u.win < Mod64
    BY <1>3, <1>4, <1>6 DEF Full
  <2> HIDE DEF u
  <2>3. t.acked = u.acked /\ t.next >= u.next /\ SenderInv(t)
    BY SMTT(30), <1>2, <2>2, AssembleInv
  <2>4. /\ (u.next = 0 => ~u.ended) => Fits(t)
        /\ done => Full(t) \/ Drained(t)
        /\ ~done => t.next > u.next
        /\ t.next > 0 /\ t.win = u.win /\ t.ended = u.ended
    BY SMTT(30), <1>2, <1>3, <2>2, AssembleFills
  <2> HIDE DEF t, done
  <2>5. t.next \in Nat
    BY <2>3 DEF SenderInv, SenderType
  <2>6. (s.next = 0 => ~s.ended) => Fits(t)
    BY <1>2, <1>3, <1>4, <2>4
  <2>7. ~done => t.next >= s.next + (k + 1)
    BY <1>3, <1>4, <1>6, <2>4, <2>5
  <2>8. <<t, done>> \in Reached(s) /\ <<t, done>>[1] = t /\ <<t, done>>[2] = done
    BY <1>1, <2>1
  <2>9. t.win = s.win /\ t.ended = s.ended
    BY <1>4, <2>4
  <2>10. Filling(s, k + 1, <<t, done>>)
    BY <2>4, <2>6, <2>7, <2>8, <2>9, Zenon DEF Filling
  <2> QED  BY <2>1, <2>10
<1> QED  BY <1>5, <1>6

(* What fill_window leaves of the window: it is full, or nothing is left   *)
(* to send; and nothing was sent beyond it, unless the stream had ended    *)
(* before the SYN was sent.                                                *)
LEMMA FillFills ==
  ASSUME NEW s, SenderInv(s), s.win < Mod64
  PROVE  LET t == fill_window(s) IN
         /\ t.win = s.win /\ t.ended = s.ended /\ t.next > 0
         /\ Full(t) \/ Drained(t)
         /\ (s.next = 0 => ~s.ended) => t.next = s.next \/ Fits(t)
<1> DEFINE it == FillLoop!Iterates(<<s, FALSE>>)
           p  == it[window(s)]
           u  == p[1]
           t  == fill_window(s)
           T  == {k \in Nat : Filling(s, k, it[k])}
<1>1. /\ s \in SenderType /\ s.next \in Nat /\ s.acked \in Nat /\ window(s) \in Nat
      /\ window(s) > 0 /\ s.next >= s.acked
  BY DEF SenderInv, SenderType, window, max, Counted
<1>2. it[0] = <<s, FALSE>> /\ \A k \in Nat : it[k + 1] = FillStep(it[k])
  BY Zenon, FillLoop!IteratesDef
<1> HIDE DEF it
<1>3. 0 \in T
  <2>1. <<s, FALSE>> \in Reached(s)
    <3>1. s \in SenderType /\ s.next >= s.next
      BY <1>1
    <3> QED  BY Zenon, <3>1 DEF Reached
  <2>2. s.next >= s.next + 0
    BY <1>1
  <2>3. Filling(s, 0, <<s, FALSE>>)
    BY <2>1, <2>2 DEF Filling
  <2> QED  BY Zenon, <1>2, <2>3
<1>4. \A k \in Nat : k \in T => k + 1 \in T
  BY <1>2, FillingStep
<1> HIDE DEF T
<1>5. Nat \subseteq T
  BY <1>3, <1>4, FillLoop!SetInduction
<1>6. Filling(s, window(s), p)
  BY <1>1, <1>5 DEF T
<1>7. t = start_if_stopped(u)
  BY DEF fill_window, it
<1> HIDE DEF p
<1>8. /\ u \in SenderType /\ u.acked = s.acked /\ u.win = s.win /\ u.ended = s.ended
      /\ p[2] => (Full(u) \/ Drained(u)) /\ u.next > 0
      /\ ~p[2] => Full(u) \/ u.next >= s.next + window(s)
      /\ (s.next = 0 => ~s.ended) => u.next = s.next \/ Fits(u)
  BY <1>6 DEF Filling, Reached
<1> HIDE DEF u, t
<1>9. window(u) = window(s) /\ u.next \in Nat
  BY <1>8 DEF window, SenderType
<1>10. (Full(u) \/ Drained(u)) /\ u.next > 0
  BY <1>1, <1>8, <1>9 DEF Full
<1>11. /\ t.next = u.next /\ t.acked = u.acked /\ t.win = u.win /\ t.sent_fin = u.sent_fin
       /\ t.written = u.written /\ t.read = u.read /\ t.ended = u.ended
  BY <1>7, <1>8, StartFields
<1> QED  BY SMTT(30), <1>8, <1>10, <1>11 DEF t, Full, Drained, Fits, window, buffer_size

-----------------------------------------------------------------------------
(***************************************************************************)
(* The inductive invariant for the window: next to Inv, the advertised     *)
(* window is a 64-bit number, and an opened connection has filled its      *)
(* window or has nothing to send.                                          *)
(***************************************************************************)
FilledIn(s) == s.next > 0 => Full(s) \/ Drained(s)
WindowInv   == Inv /\ snd.win < Mod64 /\ FilledIn(snd)

(* A step that sends new sequence numbers stays inside the window, unless  *)
(* it opens the connection with a stream that has ended.                   *)
Respects == snd'.next > snd.next => Fits(snd') \/ (snd.next = 0 /\ snd'.ended)

(* A call that ends with fill_window leaves the window filled. *)
LEMMA FillSendsFills ==
  ASSUME NEW s, SenderInv(s), s.win < Mod64, Sends(fill_window(s))
  PROVE  /\ snd'.win < Mod64 /\ FilledIn(snd')
         /\ snd'.next = s.next \/ Fits(snd') \/ (s.next = 0 /\ snd'.ended)
<1> DEFINE t == fill_window(s)
<1>1. /\ t.win = s.win /\ t.ended = s.ended /\ t.next > 0
      /\ Full(t) \/ Drained(t)
      /\ (s.next = 0 => ~s.ended) => t.next = s.next \/ Fits(t)
  BY SMTT(30), FillFills
<1>2. t \in SenderType
  BY FillInv DEF SenderInv
<1> HIDE DEF t
<1>3. snd' = [t EXCEPT !.out = <<>>]
  BY DEF Sends, t
<1>4. /\ snd'.next = t.next /\ snd'.acked = t.acked /\ snd'.win = t.win
      /\ snd'.sent_fin = t.sent_fin /\ snd'.written = t.written
      /\ snd'.read = t.read /\ snd'.ended = t.ended
  BY <1>2, <1>3, Zenon DEF SenderType
<1> QED  BY SMTT(30), <1>1, <1>4 DEF FilledIn, Full, Drained, Fits, window, buffer_size

(* ack_received takes the peer's window and sends nothing. *)
LEMMA AckWindow ==
  ASSUME NEW s \in SenderType, NEW ackno \in Seqno, NEW w \in Nat
  PROVE  LET u == ack_received(s, ackno, w) IN
         /\ u.win = s.win \/ u.win = w
         /\ u.next = s.next /\ u.ended = s.ended
<1> DEFINE a == unwrap(ackno, s.isn, s.acked)
           v == new_ack(s, a)
           x == [v EXCEPT !.win = w]
           y == [s EXCEPT !.win = w]
           u == ack_received(s, ackno, w)
<1>1. u = s \/ u = clear_buffer(x) \/ u = clear_buffer(y)
  BY Zenon DEF ack_received
<1>2. x.win = w /\ x.next = s.next /\ x.ended = s.ended
  BY Zenon DEF new_ack, SenderType
<1>3. y.win = w /\ y.next = s.next /\ y.ended = s.ended
  BY Zenon DEF SenderType
<1>4. LET z == clear_buffer(x) IN z.win = x.win /\ z.next = x.next /\ z.ended = x.ended
  BY Zenon DEF clear_buffer, new_ack, SenderType
<1>5. LET z == clear_buffer(y) IN z.win = y.win /\ z.next = y.next /\ z.ended = y.ended
  BY Zenon DEF clear_buffer, SenderType
<1> HIDE DEF x, y
<1>6. u = s => u.win = s.win /\ u.next = s.next /\ u.ended = s.ended
  OBVIOUS
<1> HIDE DEF u
<1> QED  BY <1>1, <1>2, <1>3, <1>4, <1>5, <1>6, Zenon DEF u

(* Every call keeps the invariant, and none sends beyond the window but    *)
(* the one that opens the connection with a stream that has ended.         *)
LEMMA NextWindow == WindowInv /\ [Next]_vars => WindowInv' /\ Respects
<1> SUFFICES ASSUME WindowInv, [Next]_vars
             PROVE  WindowInv' /\ Respects
  BY SMTT(30)
<1>1. /\ SenderInv(snd) /\ Unacked(snd) /\ snd \in SenderType /\ snd.next \in Nat
      /\ snd.win < Mod64 /\ FilledIn(snd)
  BY DEF WindowInv, Inv, SenderInv, SenderType
<1>2. Inv'
  BY NextInv DEF WindowInv
<1>3. ASSUME NEW s, SenderInv(s), s.win < Mod64, Sends(fill_window(s)), s.next = snd.next
      PROVE  WindowInv' /\ Respects
  <2>1. /\ snd'.win < Mod64 /\ FilledIn(snd')
        /\ snd'.next = s.next \/ Fits(snd') \/ (s.next = 0 /\ snd'.ended)
    BY <1>3, FillSendsFills
  <2>2. Respects
    <3>1. snd'.next = snd.next => ~(snd'.next > snd.next)
      BY <1>1
    <3> QED  BY <1>3, <2>1, <3>1 DEF Respects
  <2> QED  BY <1>2, <2>1, <2>2 DEF WindowInv
<1>4. ASSUME /\ snd'.next = snd.next /\ snd'.acked = snd.acked /\ snd'.win = snd.win
             /\ snd'.sent_fin = snd.sent_fin /\ snd'.written = snd.written
             /\ snd'.read = snd.read /\ snd'.ended = snd.ended
      PROVE  WindowInv' /\ Respects
  <2>1. FilledIn(snd') /\ snd'.win < Mod64
    BY <1>1, <1>4 DEF FilledIn, Full, Drained, window, buffer_size
  <2>2. ~(snd'.next > snd.next)
    BY <1>1, <1>4
  <2> QED  BY <1>2, <2>1, <2>2 DEF WindowInv, Respects
<1>5. CASE connect
  BY <1>1, <1>3, <1>5 DEF connect
<1>6. ASSUME NEW n \in 1 .. MaxBytes, write(n) PROVE WindowInv' /\ Respects
  <2> DEFINE t == stream_write(snd, n)
  <2>1. SenderInv(t)
    <3>1. n \in Nat
      BY EnvironmentAssumption
    <3> QED  BY <1>1, <1>6, <3>1, WriteInv DEF write
  <2>2. t.next = snd.next /\ t.win = snd.win /\ t.ended = snd.ended
    BY <1>1, Zenon DEF stream_write, SenderType
  <2>3. Sends(fill_window(t))
    BY <1>6 DEF write
  <2> HIDE DEF t
  <2> QED  BY <1>1, <1>3, <2>1, <2>2, <2>3
<1>7. CASE end_input_stream
  <2> DEFINE t == [snd EXCEPT !.ended = TRUE]
  <2>1. SenderInv(t)
    BY <1>1, EndInv
  <2>2. t.next = snd.next /\ t.win = snd.win
    BY <1>1, Zenon DEF SenderType
  <2>3. Sends(fill_window(t))
    BY <1>7 DEF end_input_stream
  <2> HIDE DEF t
  <2> QED  BY <1>1, <1>3, <2>1, <2>2, <2>3
<1>8. ASSUME NEW ackno \in Seqno, NEW w \in Windows, ack(ackno, w)
      PROVE  WindowInv' /\ Respects
  <2> DEFINE t == ack_received(snd, ackno, w)
  <2>1. w \in Nat /\ w < Mod64
    BY SMTT(30), EnvironmentAssumption, ModuliPositive DEF AbsSeqno
  <2>2. SenderInv(t)
    BY SMTT(30), <1>1, <2>1, AckInv
  <2>3. (t.win = snd.win \/ t.win = w) /\ t.next = snd.next /\ t.ended = snd.ended
    BY <1>1, <2>1, AckWindow
  <2>4. Sends(fill_window(t))
    BY <1>8 DEF ack
  <2> HIDE DEF t
  <2> QED  BY <1>1, <1>3, <2>1, <2>2, <2>3, <2>4
<1>9. ASSUME NEW ms \in Ticks, tick(ms) PROVE WindowInv' /\ Respects
  <2> DEFINE u == [snd EXCEPT !.waited = @ + ms]
             t == sender_tick(snd, ms)
             Same(x, y) == /\ x.next = y.next /\ x.acked = y.acked /\ x.win = y.win
                           /\ x.sent_fin = y.sent_fin /\ x.written = y.written
                           /\ x.read = y.read /\ x.ended = y.ended
  <2>1. snd' = [t EXCEPT !.out = <<>>]
    BY <1>9 DEF tick, Sends
  <2>2. t = u \/ t = retransmit(u) \/ t = snd \/ t = retransmit(snd)
    BY Zenon DEF sender_tick
  <2>3. Same(u, snd) /\ Same(retransmit(snd), snd) /\ Same(retransmit(u), snd)
    BY <1>1, Zenon DEF retransmit, SenderType
  <2>4. t \in SenderType
    <3>1. ms \in Nat
      BY EnvironmentAssumption
    <3> QED  BY <1>1, <3>1, TickInv DEF SenderInv
  <2> HIDE DEF t, u
  <2>5. Same(t, snd)
    BY <2>2, <2>3, Zenon
  <2>6. Same(snd', t)
    BY <2>1, <2>4, Zenon DEF SenderType
  <2>7. Same(snd', snd)
    BY <2>5, <2>6, Zenon
  <2> QED  BY <1>4, <2>7
<1>10. CASE empty_segment
  <2>1. snd' = [send_empty_segment(snd) EXCEPT !.out = <<>>]
    BY <1>10 DEF empty_segment, Sends
  <2>2. /\ snd'.next = snd.next /\ snd'.acked = snd.acked /\ snd'.win = snd.win
        /\ snd'.sent_fin = snd.sent_fin /\ snd'.written = snd.written
        /\ snd'.read = snd.read /\ snd'.ended = snd.ended
    BY <1>1, <2>1, Zenon DEF send_empty_segment, SenderType
  <2> QED  BY <1>4, <2>2
<1>11. CASE UNCHANGED vars
  <2>1. snd' = snd
    BY <1>11 DEF vars
  <2> QED  BY <1>4, <2>1
<1> QED  BY <1>5, <1>6, <1>7, <1>8, <1>9, <1>10, <1>11 DEF Next

\* The window's part of the invariant holds of a new TCPSender.
LEMMA InitWindow == Init => WindowInv
<1> SUFFICES ASSUME Init PROVE WindowInv
  OBVIOUS
<1>1. Inv
  BY InitInv
<1>2. snd.next = 0 /\ snd.win = 1
  BY DEF Init, NewSender
<1>3. 1 < Mod64
  BY ModAssumption
<1> QED  BY <1>1, <1>2, <1>3 DEF WindowInv, FilledIn

(* The invariant for the window is inductive, so it always holds. *)
THEOREM WindowInvariance == Spec => []WindowInv
<1>1. WindowInv /\ [Next]_vars => WindowInv'
  BY NextWindow
<1>2. QED BY InitWindow, <1>1, PTL DEF Spec

(* fill_window sends all it may: between two calls of an opened TCPSender  *)
(* the window is full, or every byte and the FIN of an ended stream is     *)
(* sent.                                                                   *)
THEOREM FilledCorrect == Spec => []WindowFilled
<1>1. WindowInv => WindowFilled
  BY DEF WindowInv, FilledIn, Full, Drained, WindowFilled
<1>2. QED BY WindowInvariance, <1>1, PTL

(* TCPSender stays inside the window the peer advertised, whatever the     *)
(* peer acknowledges, but for the FIN that goes with the SYN when the      *)
(* stream has ended before the connection is opened.                       *)
THEOREM RespectCorrect == Spec => WindowRespected
<1>1. WindowInv /\ [Next]_vars =>
        [snd'.next > snd.next => \/ snd'.next <= snd'.acked + window(snd')
                                 \/ snd.next = 0 /\ snd'.ended]_vars
  BY NextWindow DEF Respects, Fits
<1>2. QED BY WindowInvariance, <1>1, PTL DEF Spec, WindowRespected
=============================================================================
