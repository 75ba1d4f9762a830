-------------------------- MODULE ByteStreamProofs --------------------------
(***************************************************************************)
(* What the methods of a ByteStream do to the bytes in its ring, for every *)
(* capacity and every position of front_: writing appends, peeking returns *)
(* and popping removes the oldest bytes, wrapped or not.                   *)
(***************************************************************************)
EXTENDS ByteStreamOps, TLAPS

\* Length and elements of a concatenation: write() appends the bytes it takes
\* to those stored.
LEMMA Concatenation ==
  ASSUME NEW S, NEW s \in Seq(S), NEW t \in Seq(S)
  PROVE  /\ s \o t \in Seq(S)
         /\ Len(s \o t) = Len(s) + Len(t)
         /\ \A i \in 1 .. Len(s) + Len(t) :
              (s \o t)[i] = IF i <= Len(s) THEN s[i] ELSE t[i - Len(s)]
OBVIOUS

\* Sequences of the same length with the same elements are equal; this is how
\* the bytes read are compared with the bytes written.
LEMMA SameElements ==
  ASSUME NEW S, NEW s \in Seq(S), NEW t \in Seq(S), Len(s) = Len(t),
         \A i \in 1 .. Len(s) : s[i] = t[i]
  PROVE  s = t
OBVIOUS

ByteStream(C) ==
  [front : 0 .. C - 1, size : 0 .. C, capacity : {C}, queue : [0 .. C - 1 -> Nat],
   total_read : Nat, total_write : Nat, eof_input : BOOLEAN, error : BOOLEAN]

(* Where the k-th oldest byte is, going round the ring at most once.        *)
Place(front, k, C) == IF front + k - 1 < C THEN front + k - 1 ELSE front + k - 1 - C

(* Two indices inside the queue add up to at most one turn around it.       *)
LEMMA Around ==
  ASSUME NEW C \in Nat, C > 0, NEW a \in 0 .. C - 1, NEW b \in 0 .. C
  PROVE  /\ (a + b) % C = IF a + b < C THEN a + b ELSE a + b - C
         /\ (a + b) % C \in 0 .. C - 1
<1>1. CASE a + b < C
  BY <1>1
<1>2. CASE ~(a + b < C)
  BY <1>2
<1> QED  BY <1>1, <1>2

(* The index the code computes with % is that place, and inside the queue.  *)
LEMMA PlaceIs ==
  ASSUME NEW C \in Nat, C > 0, NEW front \in 0 .. C - 1, NEW k \in 1 .. C
  PROVE  /\ (front + k - 1) % C = Place(front, k, C)
         /\ Place(front, k, C) \in 0 .. C - 1
<1>1. CASE front + k - 1 < C
  BY <1>1 DEF Place
<1>2. CASE ~(front + k - 1 < C)
  BY <1>2 DEF Place
<1> QED  BY <1>1, <1>2

(* What the fields of a ByteStream can be.                                 *)
LEMMA Fields ==
  ASSUME NEW C \in Nat, C > 0, NEW s \in ByteStream(C)
  PROVE  /\ s.capacity = C /\ s.front \in 0 .. C - 1 /\ s.size \in 0 .. C
         /\ s.front \in Nat /\ s.size \in Nat
         /\ s.queue \in [0 .. C - 1 -> Nat] /\ s.total_read \in Nat /\ s.total_write \in Nat
         /\ s.eof_input \in BOOLEAN /\ s.error \in BOOLEAN
BY DEF ByteStream

(* The bytes in the ring, oldest first.                                    *)
LEMMA ContentsType ==
  ASSUME NEW C \in Nat, C > 0, NEW s \in ByteStream(C)
  PROVE  /\ Contents(s) \in Seq(Nat) /\ Len(Contents(s)) = s.size
         /\ \A k \in 1 .. s.size : Contents(s)[k] = s.queue[Place(s.front, k, C)]
<1> DEFINE c == Contents(s)
<1>1. c = [k \in 1 .. s.size |-> s.queue[(s.front + k - 1) % s.capacity]]
  BY DEF Contents
<1>2. s.capacity = C /\ s.front \in 0 .. C - 1 /\ s.size \in 0 .. C
      /\ s.queue \in [0 .. C - 1 -> Nat]
  BY Fields
<1>3. ASSUME NEW k \in 1 .. s.size
      PROVE  c[k] = s.queue[Place(s.front, k, C)] /\ c[k] \in Nat
  <2>1. k \in 1 .. C
    BY <1>2
  <2>2. (s.front + k - 1) % C = Place(s.front, k, C) /\ Place(s.front, k, C) \in 0 .. C - 1
    BY Zenon, <1>2, <2>1, PlaceIs
  <2>3. c[k] = s.queue[(s.front + k - 1) % C]
    BY <1>1, <1>2
  <2> QED  BY <1>2, <2>2, <2>3
<1>4. c \in [1 .. s.size -> Nat]
  <2> HIDE DEF c
  <2>1. \A k \in 1 .. s.size : s.queue[(s.front + k - 1) % s.capacity] \in Nat
    BY <1>1, <1>3
  <2> QED  BY <1>1, <2>1
<1> HIDE DEF c
<1>5. c \in Seq(Nat) /\ Len(c) = s.size
  BY <1>2, <1>4
<1> QED  BY <1>3, <1>5 DEF c

(* What the methods leave of a stream.                                     *)
Same(s, t) ==
  /\ t.total_read = s.total_read /\ t.eof_input = s.eof_input /\ t.error = s.error

(* There is room for n more bytes.                                         *)
Room(s, n) == n <= remaining_capacity(s)

(* push_back_n appends: the copy that runs to the end of the queue and the  *)
(* one that goes on at its start touch no byte that is in the ring.        *)
LEMMA PushAppends ==
  ASSUME NEW C \in Nat, C > 0, NEW s \in ByteStream(C), NEW data \in Seq(Nat),
         NEW n \in Nat, n <= Len(data), Room(s, n)
  PROVE  LET t == push_back_n(s, data, n)
         IN  /\ t \in ByteStream(C)
             /\ t.size = s.size + n /\ t.total_write = s.total_write /\ Same(s, t)
             /\ Contents(t) = Contents(s) \o SubSeq(data, 1, n)
<1> DEFINE front == s.front
           size  == s.size
           queue == s.queue
           start == (s.front + s.size) % s.capacity
           m     == min(n, s.capacity - start)
           q     == [i \in DOMAIN s.queue |->
                       IF i >= start /\ i < start + m THEN data[i - start + 1]
                       ELSE IF i < n - m THEN data[m + i + 1]
                       ELSE s.queue[i]]
           t     == push_back_n(s, data, n)
           sum   == size + n
<1>1. t = [s EXCEPT !.queue = q, !.size = sum]
  BY DEF push_back_n
<1>2. /\ s.capacity = C /\ front \in 0 .. C - 1 /\ size \in 0 .. C
      /\ queue \in [0 .. C - 1 -> Nat]
  BY Fields
<1>3. size + n <= C
  BY <1>2 DEF Room, remaining_capacity
<1>4. q = [i \in 0 .. C - 1 |->
             IF i >= start /\ i < start + m THEN data[i - start + 1]
             ELSE IF i < n - m THEN data[m + i + 1]
             ELSE queue[i]]
  BY <1>2
<1> HIDE DEF q
<1>5. start = (front + size) % C /\ m = min(n, C - start)
  BY <1>2
<1> HIDE DEF front, size, queue, start, m, t
<1>6. start = IF front + size < C THEN front + size ELSE front + size - C
  BY Zenon, <1>2, <1>5, Around
<1>7. m = IF n < C - start THEN n ELSE C - start
  BY <1>5 DEF min
<1>8. \A i \in 0 .. C - 1 : q[i] = IF i >= start /\ i < start + m THEN data[i - start + 1]
                                    ELSE IF i < n - m THEN data[m + i + 1]
                                    ELSE queue[i]
  BY <1>4, Zenon
<1>9. /\ \A i \in 0 .. C - 1 : q[i] \in Nat
      /\ \A k \in 1 .. size + n :
           q[Place(front, k, C)] = IF k <= size THEN queue[Place(front, k, C)]
                                   ELSE data[k - size]
  <2>1. /\ front \in 0 .. C - 1 /\ size \in 0 .. C /\ queue \in [0 .. C - 1 -> Nat]
        /\ size + n <= C
    BY <1>2, <1>3
  <2> USE <2>1, <1>6, <1>7, <1>8
  <2>2. start \in 0 .. C - 1 /\ m \in 0 .. n /\ start + m <= C
    OBVIOUS
  <2>3. Len(data) \in Nat /\ \A j \in 1 .. Len(data) : data[j] \in Nat
    OBVIOUS
  <2>4. \A i \in 0 .. C - 1 : q[i] \in Nat
    <3> TAKE i \in 0 .. C - 1
    <3>1. CASE i >= start /\ i < start + m
      <4>1. i - start + 1 \in 1 .. Len(data)
        BY <3>1, <2>2, <2>3
      <4> QED  BY Zenon, <3>1, <4>1, <2>3
    <3>2. CASE ~(i >= start /\ i < start + m) /\ i < n - m
      <4>1. m + i + 1 \in 1 .. Len(data)
        BY <3>2, <2>2, <2>3
      <4> QED  BY Zenon, <3>2, <4>1, <2>3
    <3>3. CASE ~(i >= start /\ i < start + m) /\ ~(i < n - m)
      BY <3>3
    <3> QED  BY <3>1, <3>2, <3>3
  <2>5. ASSUME NEW k \in 1 .. size + n
        PROVE  q[Place(front, k, C)] = IF k <= size THEN queue[Place(front, k, C)]
                                       ELSE data[k - size]
    <3> DEFINE i == Place(front, k, C)
    <3>1. i = IF front + k - 1 < C THEN front + k - 1 ELSE front + k - 1 - C
      BY DEF Place
    <3> HIDE DEF i
    <3>2. i \in 0 .. C - 1
      BY <3>1
    <3>3. CASE k <= size
      <4>1. ~(i >= start /\ i < start + m) /\ ~(i < n - m)
        BY <3>1, <3>3
      <4> QED  BY <3>2, <3>3, <4>1 DEF i
    <3>4. CASE k > size /\ k - size <= m
      <4>1. i >= start /\ i < start + m /\ i - start + 1 = k - size
        BY <3>1, <3>4
      <4>2. q[i] = data[i - start + 1]
        BY <3>2, <4>1
      <4>3. q[i] = data[k - size] /\ ~(k <= size)
        BY <3>4, <4>1, <4>2
      <4> QED  BY <4>3 DEF i
    <3>5. CASE k > size /\ k - size > m
      <4>1. ~(i >= start /\ i < start + m) /\ i < n - m /\ m + i + 1 = k - size
        BY <3>1, <3>5
      <4>2. q[i] = data[m + i + 1]
        BY <3>2, <4>1
      <4>3. q[i] = data[k - size] /\ ~(k <= size)
        BY <3>5, <4>1, <4>2
      <4> QED  BY <4>3 DEF i
    <3> QED  BY <3>3, <3>4, <3>5, <2>2
  <2> QED  BY <2>4, <2>5
<1>10. q \in [0 .. C - 1 -> Nat]
  BY <1>4, <1>9
<1>11. sum \in 0 .. C /\ sum \in Nat
  BY <1>2, <1>3
<1>12. t \in ByteStream(C) /\ t.queue = q /\ t.size = sum /\ t.front = front
  <2> HIDE DEF sum
  <2> QED  BY Zenon, <1>1, <1>10, <1>11 DEF ByteStream, front
<1>13. t.total_write = s.total_write /\ Same(s, t)
  <2> HIDE DEF sum
  <2> QED  BY <1>1 DEF ByteStream, Same
<1>14. /\ Contents(t) \in Seq(Nat) /\ Len(Contents(t)) = sum
       /\ \A k \in 1 .. sum : Contents(t)[k] = q[Place(front, k, C)]
  BY <1>12, ContentsType
<1>15. /\ Contents(s) \in Seq(Nat) /\ Len(Contents(s)) = size
       /\ \A k \in 1 .. size : Contents(s)[k] = queue[Place(front, k, C)]
  BY ContentsType DEF front, size, queue
<1> DEFINE c == Contents(s)
           d == SubSeq(data, 1, n)
           u == c \o d
<1>16. d \in Seq(Nat) /\ Len(d) = n /\ \A k \in 1 .. n : d[k] = data[k]
  OBVIOUS
<1> HIDE DEF c, d, sum
<1>17. /\ u \in Seq(Nat) /\ Len(u) = size + n
       /\ \A k \in 1 .. size + n : u[k] = IF k <= size THEN c[k] ELSE d[k - size]
  <2>1. c \in Seq(Nat) /\ Len(c) = size
    BY <1>15 DEF c
  <2>2. /\ u \in Seq(Nat) /\ Len(u) = Len(c) + Len(d)
        /\ \A k \in 1 .. Len(c) + Len(d) : u[k] = IF k <= Len(c) THEN c[k] ELSE d[k - Len(c)]
    BY <2>1, <1>16, Concatenation, Zenon
  <2> QED  BY <2>1, <2>2, <1>16, Zenon
<1> HIDE DEF u
<1>18. ASSUME NEW k \in 1 .. size + n
       PROVE  Contents(t)[k] = u[k]
  <2>1. Contents(t)[k] = q[Place(front, k, C)]
    BY <1>14 DEF sum
  <2>2. q[Place(front, k, C)] = IF k <= size THEN queue[Place(front, k, C)] ELSE data[k - size]
    BY <1>9
  <2>3. u[k] = IF k <= size THEN c[k] ELSE d[k - size]
    BY <1>17
  <2>4. CASE k <= size
    <3>1. k \in 1 .. size
      BY <2>4, <1>2
    <3> QED  BY <2>1, <2>2, <2>3, <2>4, <3>1, <1>15, Zenon DEF c
  <2>5. CASE ~(k <= size)
    <3>1. k - size \in 1 .. n
      BY <2>5, <1>2
    <3> QED  BY <2>1, <2>2, <2>3, <2>5, <3>1, <1>16, Zenon
  <2> QED  BY <2>4, <2>5
<1>19. Contents(t) = u
  BY <1>14, <1>17, <1>18, SameElements, Zenon DEF sum
<1> QED  BY <1>12, <1>19, <1>13 DEF t, size, u, c, d, sum

(* write appends the bytes that fit.                                       *)
LEMMA WriteAppends ==
  ASSUME NEW C \in Nat, C > 0, NEW s \in ByteStream(C), NEW data \in Seq(Nat)
  PROVE  LET n == min(Len(data), remaining_capacity(s))
             t == write(s, data)
         IN  /\ n \in Nat /\ n <= Len(data) /\ s.size + n <= C
             /\ t \in ByteStream(C)
             /\ t.size = s.size + n /\ t.total_write = s.total_write + n /\ Same(s, t)
             /\ Contents(t) = Contents(s) \o SubSeq(data, 1, n)
<1> DEFINE n == min(Len(data), remaining_capacity(s))
           p == push_back_n(s, data, n)
           t == write(s, data)
<1>1. s.size \in 0 .. C /\ remaining_capacity(s) = C - s.size /\ s.total_write \in Nat
  BY Fields DEF remaining_capacity
<1>2. /\ n \in Nat /\ n <= Len(data) /\ s.size + n <= C /\ n <= C - s.size
  BY <1>1 DEF min
<1>3. Room(s, n)
  BY <1>1, <1>2 DEF Room
<1>4. t = [p EXCEPT !.total_write = p.total_write + n]
  BY DEF write
<1> HIDE DEF n, t
<1>5. /\ p \in ByteStream(C)
      /\ p.size = s.size + n /\ p.total_write = s.total_write /\ Same(s, p)
      /\ Contents(p) = Contents(s) \o SubSeq(data, 1, n)
  <2>1. n \in Nat /\ n <= Len(data)
    BY <1>2
  <2> QED  BY <2>1, <1>3, PushAppends
<1> HIDE DEF p
<1> DEFINE w == p.total_write + n
<1>7. w \in Nat /\ w = s.total_write + n
  BY <1>1, <1>2, <1>5
<1>8. t = [p EXCEPT !.total_write = w]
  BY <1>4
<1> HIDE DEF w
<1>9. /\ t \in ByteStream(C) /\ t.size = p.size /\ t.total_write = w
      /\ t.front = p.front /\ t.queue = p.queue /\ t.capacity = p.capacity
  BY Zenon, <1>5, <1>7, <1>8 DEF ByteStream
<1>10. Same(p, t)
  BY <1>5, <1>8 DEF ByteStream, Same
<1>11. Contents(t) = Contents(p)
  BY <1>9 DEF Contents
<1> QED  BY <1>2, <1>5, <1>7, <1>9, <1>10, <1>11 DEF n, t, Same

(* pop_output removes the oldest bytes.                                    *)
LEMMA PopDrops ==
  ASSUME NEW C \in Nat, C > 0, NEW s \in ByteStream(C), NEW n \in 0 .. s.size
  PROVE  LET t == pop_output(s, n)
         IN  /\ t \in ByteStream(C)
             /\ t.size = s.size - n /\ t.total_read = s.total_read + n
             /\ t.total_write = s.total_write /\ t.eof_input = s.eof_input
             /\ t.error = s.error
             /\ Contents(t) = SubSeq(Contents(s), n + 1, s.size)
<1> DEFINE front == s.front
           size  == s.size
           f     == (front + n) % C
           left  == size - n
           r     == s.total_read + n
           t     == pop_output(s, n)
<1>1. /\ s.capacity = C /\ front \in 0 .. C - 1 /\ size \in 0 .. C
      /\ n \in 0 .. size /\ s.total_read \in Nat
  BY Fields
<1>2. t = [[s EXCEPT !.front = f, !.size = left] EXCEPT !.total_read = r]
  BY <1>1, Fields DEF pop_output, pop_front_n, ByteStream
<1> HIDE DEF front, size
<1>3. left \in 0 .. C /\ r \in Nat /\ n \in 0 .. C
  BY <1>1
<1>4. /\ f = IF front + n < C THEN front + n ELSE front + n - C
      /\ f \in 0 .. C - 1
  BY <1>1, <1>3, Around
<1> HIDE DEF f, left, r, t
<1>5. /\ t \in ByteStream(C) /\ t.size = left /\ t.total_read = r /\ t.front = f
      /\ t.total_write = s.total_write /\ t.queue = s.queue
      /\ t.eof_input = s.eof_input /\ t.error = s.error
  BY Zenon, <1>2, <1>3, <1>4 DEF ByteStream
<1> DEFINE c == Contents(s)
           d == SubSeq(c, n + 1, size)
<1>6. /\ c \in Seq(Nat) /\ Len(c) = size
      /\ \A k \in 1 .. size : c[k] = s.queue[Place(front, k, C)]
  BY ContentsType DEF front, size
<1>7. /\ Contents(t) \in Seq(Nat) /\ Len(Contents(t)) = left
      /\ \A k \in 1 .. left : Contents(t)[k] = s.queue[Place(f, k, C)]
  BY <1>5, ContentsType
<1> HIDE DEF c
<1>8. d \in Seq(Nat) /\ Len(d) = left /\ \A k \in 1 .. left : d[k] = c[n + k]
  <2>1. left = size - n
    BY DEF left
  <2> QED  BY <1>1, <1>6, <2>1
<1> HIDE DEF d
<1>9. ASSUME NEW k \in 1 .. left  PROVE Contents(t)[k] = d[k]
  <2>1. left = size - n
    BY DEF left
  <2>2. n + k \in 1 .. size
    BY <1>1, <2>1
  <2>3. Place(f, k, C) = Place(front, n + k, C)
    BY <1>1, <1>4, <2>1, <2>2 DEF Place
  <2> QED  BY Zenon, <1>6, <1>7, <1>8, <2>2, <2>3
<1>10. Contents(t) = d
  BY <1>7, <1>8, <1>9, SameElements, Zenon
<1> QED  BY <1>5, <1>10 DEF t, d, c, size, left, r

(* peek_output returns the oldest bytes.                                   *)
LEMMA PeekReturns ==
  ASSUME NEW C \in Nat, C > 0, NEW s \in ByteStream(C), NEW n \in 0 .. s.size
  PROVE  peek_output(s, n) = SubSeq(Contents(s), 1, n)
<1> DEFINE front == s.front
           size  == s.size
           m     == min(n, s.capacity - s.front)
           p     == peek_output(s, n)
           c     == Contents(s)
           d     == SubSeq(c, 1, n)
<1>1. /\ s.capacity = C /\ front \in 0 .. C - 1 /\ size \in 0 .. C
      /\ n \in 0 .. size /\ n \in Nat /\ s.queue \in [0 .. C - 1 -> Nat]
  BY Fields
<1>2. p = [k \in 1 .. n |-> IF k <= m THEN s.queue[front + k - 1] ELSE s.queue[k - m - 1]]
  BY DEF peek_output, peek_front_n
<1>3. m = min(n, C - front)
  BY <1>1
<1>4. /\ c \in Seq(Nat) /\ Len(c) = size
      /\ \A k \in 1 .. size : c[k] = s.queue[Place(front, k, C)]
  BY ContentsType
<1> HIDE DEF front, size, m, p, c
<1>5. m = IF n < C - front THEN n ELSE C - front
  BY <1>3 DEF min
<1>6. ASSUME NEW k \in 1 .. n  PROVE p[k] = c[k]
  <2>1. k \in 1 .. size
    BY <1>1
  <2>2. p[k] = IF k <= m THEN s.queue[front + k - 1] ELSE s.queue[k - m - 1]
    BY <1>2
  <2>3. IF k <= m THEN Place(front, k, C) = front + k - 1 ELSE Place(front, k, C) = k - m - 1
    BY <1>1, <1>5, <2>1 DEF Place
  <2> QED  BY <1>4, <2>1, <2>2, <2>3
<1>7. d \in Seq(Nat) /\ Len(d) = n /\ \A k \in 1 .. n : d[k] = c[k]
  BY <1>1, <1>4
<1>8. \A k \in 1 .. n : p[k] \in Nat
  BY <1>1, <1>4, <1>6
<1>9. p \in Seq(Nat) /\ Len(p) = n
  <2>1. p \in [1 .. n -> Nat]
    BY <1>2, <1>8
  <2> QED  BY <1>1, <2>1
<1> HIDE DEF d
<1>10. p = d
  BY <1>6, <1>7, <1>9, SameElements
<1> QED  BY <1>10 DEF p, d, c

(* end_input leaves the bytes.                                             *)
LEMMA EndKeepsBytes ==
  ASSUME NEW C \in Nat, C > 0, NEW s \in ByteStream(C)
  PROVE  LET t == end_input(s)
         IN  /\ t \in ByteStream(C) /\ t.eof_input /\ t.error = s.error
             /\ t.size = s.size /\ t.total_read = s.total_read
             /\ t.total_write = s.total_write /\ Contents(t) = Contents(s)
<1> DEFINE b == TRUE
           t == end_input(s)
<1>1. t = [s EXCEPT !.eof_input = b] /\ b \in BOOLEAN
  BY Zenon DEF end_input
<1>2. b
  OBVIOUS
<1> HIDE DEF b, t
<1>3. t \in ByteStream(C)
  BY <1>1 DEF ByteStream
<1>4. /\ t.eof_input = b /\ t.error = s.error /\ t.size = s.size /\ t.total_read = s.total_read
      /\ t.total_write = s.total_write /\ t.front = s.front /\ t.queue = s.queue
      /\ t.capacity = s.capacity
  BY <1>1 DEF ByteStream
<1>5. Contents(t) = Contents(s)
  BY <1>4 DEF Contents
<1> QED  BY <1>2, <1>3, <1>4, <1>5 DEF t

(* A new stream is empty.                                                  *)
LEMMA NewIsEmpty ==
  ASSUME NEW C \in Nat, C > 0
  PROVE  LET s == NewByteStream(C)
         IN  /\ s \in ByteStream(C) /\ s.size = 0 /\ Contents(s) = <<>>
             /\ s.total_read = 0 /\ s.total_write = 0 /\ ~s.eof_input /\ ~s.error
<1> DEFINE s == NewByteStream(C)
<1>1. s \in ByteStream(C)
  BY DEF NewByteStream, ByteStream
<1>2. /\ s.size = 0 /\ s.total_read = 0 /\ s.total_write = 0 /\ ~s.eof_input /\ ~s.error
  BY DEF NewByteStream
<1> HIDE DEF s
<1>3. Contents(s) = <<>>
  BY <1>1, <1>2, ContentsType
<1> QED  BY <1>1, <1>2, <1>3 DEF s
=============================================================================
