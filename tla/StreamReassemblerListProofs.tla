-------------------- MODULE StreamReassemblerListProofs ---------------------
(***************************************************************************)
(* The list of intervals of StreamReassembler: what merging, absorbing and *)
(* inserting do to a sorted list of pieces of one stream, and from that    *)
(* what assemble stores and output delivers.                               *)
(***************************************************************************)
EXTENDS StreamReassembler, ByteStreamProofs, WellFoundedInduction

(* The bytes of the stream from first to second - 1.                       *)
Bytes(first, second) == [k \in 1 .. second - first |-> first + k - 1]

IntervalType == [first : Nat, second : Nat, str : Seq(Nat)]

(* An interval that holds the stream's bytes at its indices.               *)
Piece(it) == /\ it \in IntervalType
             /\ it.first < it.second
             /\ it.str = Bytes(it.first, it.second)

(* A list of such intervals between lo and hi, in order and with gaps.     *)
List(d, lo, hi) ==
  /\ d \in Seq(IntervalType)
  /\ \A i \in 1 .. Len(d) : Piece(d[i]) /\ lo <= d[i].first /\ d[i].second <= hi
  /\ \A i, j \in 1 .. Len(d) : i < j => d[i].second < d[j].first

(* The first index beyond what output_ has room for.                       *)
Upper == next_ + (RECV_CAPACITY - output_.size)

ReassemblerInv ==
  /\ next_ \in Nat /\ eof_ \in BOOLEAN /\ eof_num_ \in Nat
  /\ output_ \in ByteStream(RECV_CAPACITY)
  /\ output_.total_write = next_ /\ next_ = output_.total_read + output_.size
  /\ Contents(output_) = Bytes(output_.total_read, next_)
  /\ List(data_, next_ + 1, Upper)

-----------------------------------------------------------------------------
(* The bytes of a range are a sequence of numbers.                         *)
LEMMA BytesType ==
  ASSUME NEW a \in Nat, NEW b \in Nat, a <= b
  PROVE  /\ Bytes(a, b) \in Seq(Nat) /\ Len(Bytes(a, b)) = b - a
         /\ \A k \in 1 .. b - a : Bytes(a, b)[k] = a + k - 1
<1> DEFINE n == b - a
<1>1. n \in Nat /\ \A k \in 1 .. n : a + k - 1 \in Nat
  OBVIOUS
<1>2. Bytes(a, b) = [k \in 1 .. n |-> a + k - 1]
  BY DEF Bytes
<1> HIDE DEF n
<1>3. Bytes(a, b) \in Seq(Nat) /\ Len(Bytes(a, b)) = n
  BY <1>1, <1>2
<1> QED  BY <1>2, <1>3 DEF n

(* The n bytes from offset o of the range a .. b are the range c .. e.      *)
IsCut(a, b, o, n, c, e) == substr(Bytes(a, b), o, n) = Bytes(c, e)

(* string::substr of a range is a range.                                   *)
LEMMA BytesSubstr ==
  ASSUME NEW a \in Nat, NEW b \in Nat, NEW c \in Nat, NEW e \in Nat, a <= c, c <= e, e <= b,
         NEW o \in Nat, NEW n \in Nat, a + o = c, c + n = e
  PROVE  IsCut(a, b, o, n, c, e)
<1> DEFINE s == Bytes(a, b)
           t == SubSeq(s, o + 1, o + n)
           u == Bytes(c, e)
<1> a <= b
  OBVIOUS
<1>1. s \in Seq(Nat) /\ Len(s) = b - a /\ \A k \in 1 .. b - a : s[k] = a + k - 1
  BY BytesType
<1>2. u \in Seq(Nat) /\ Len(u) = e - c /\ \A k \in 1 .. e - c : u[k] = c + k - 1
  BY BytesType
<1> HIDE DEF s, u
<1>3. t \in Seq(Nat) /\ Len(t) = n /\ \A k \in 1 .. n : t[k] = s[o + k]
  BY <1>1
<1> HIDE DEF t
<1>4. n = e - c
  OBVIOUS
<1>5. ASSUME NEW k \in 1 .. n PROVE t[k] = u[k]
  <2>1. o + k \in 1 .. b - a
    OBVIOUS
  <2>2. s[o + k] = a + (o + k) - 1
    BY <1>1, <2>1
  <2>3. u[k] = c + k - 1
    BY <1>2, <1>4
  <2>4. a + (o + k) - 1 = c + k - 1
    OBVIOUS
  <2> QED  BY SMTT(30), <1>3, <2>2, <2>3, <2>4
<1>6. t = u
  BY <1>2, <1>3, <1>4, <1>5, SameElements
<1> QED  BY <1>6 DEF s, t, u, substr, IsCut

(* The first bytes of a range are a range.                                 *)
LEMMA BytesFirst ==
  ASSUME NEW a \in Nat, NEW b \in Nat, NEW e \in Nat, a <= e, e <= b, NEW n \in Nat, a + n = e
  PROVE  substr(Bytes(a, b), 0, n) = Bytes(a, e)
<1> DEFINE s == Bytes(a, b)
           t == SubSeq(s, 1, n)
           u == Bytes(a, e)
<1>1. a <= b
  OBVIOUS
<1>2. s \in Seq(Nat) /\ Len(s) = b - a /\ \A k \in 1 .. b - a : s[k] = a + k - 1
  BY <1>1, BytesType
<1>3. u \in Seq(Nat) /\ Len(u) = e - a /\ \A k \in 1 .. e - a : u[k] = a + k - 1
  BY BytesType
<1> HIDE DEF s, u
<1>4. t \in Seq(Nat) /\ Len(t) = n /\ \A k \in 1 .. n : t[k] = s[k]
  BY <1>2
<1> HIDE DEF t
<1>5. n = e - a /\ \A k \in 1 .. n : k \in 1 .. b - a
  OBVIOUS
<1>6. t = u
  BY <1>2, <1>3, <1>4, <1>5, SameElements
<1>7. substr(s, 0, n) = t
  BY DEF substr, t
<1> QED  BY <1>6, <1>7 DEF s, u

(* Two adjacent ranges make one.                                           *)
LEMMA BytesConcat ==
  ASSUME NEW a \in Nat, NEW b \in Nat, NEW c \in Nat, a <= b, b <= c
  PROVE  Bytes(a, b) \o Bytes(b, c) = Bytes(a, c)
<1> DEFINE s == Bytes(a, b)
           t == Bytes(b, c)
           u == Bytes(a, c)
           v == s \o t
<1>1. s \in Seq(Nat) /\ Len(s) = b - a /\ \A k \in 1 .. b - a : s[k] = a + k - 1
  BY BytesType
<1>2. t \in Seq(Nat) /\ Len(t) = c - b /\ \A k \in 1 .. c - b : t[k] = b + k - 1
  BY BytesType
<1>3. u \in Seq(Nat) /\ Len(u) = c - a /\ \A k \in 1 .. c - a : u[k] = a + k - 1
  BY BytesType
<1> HIDE DEF s, t, u
<1>4. /\ v \in Seq(Nat) /\ Len(v) = Len(s) + Len(t)
      /\ \A k \in 1 .. Len(s) + Len(t) : v[k] = IF k <= Len(s) THEN s[k] ELSE t[k - Len(s)]
  BY Zenon, <1>1, <1>2, Concatenation
<1> HIDE DEF v
<1>5. Len(v) = c - a
  BY <1>1, <1>2, <1>4
<1>6. ASSUME NEW k \in 1 .. c - a PROVE v[k] = u[k]
  <2>1. k \in 1 .. Len(s) + Len(t)
    BY <1>1, <1>2
  <2>2. u[k] = a + k - 1
    BY <1>3
  <2>3. CASE k <= b - a
    <3>1. v[k] = s[k] /\ k \in 1 .. b - a
      BY <1>1, <1>4, <2>1, <2>3
    <3> QED  BY <1>1, <2>2, <3>1
  <2>4. CASE ~(k <= b - a)
    <3>1. v[k] = t[k - (b - a)] /\ k - (b - a) \in 1 .. c - b
      BY <1>1, <1>4, <2>1, <2>4
    <3>2. t[k - (b - a)] = b + (k - (b - a)) - 1
      BY <1>2, <3>1
    <3> QED  BY <2>2, <3>1, <3>2
  <2> QED  BY <2>3, <2>4
<1>7. v = u
  BY <1>3, <1>4, <1>5, <1>6, SameElements
<1> QED  BY <1>7 DEF s, t, u, v

(* An interval made of the right bytes.                                    *)
LEMMA IntervalIsPiece ==
  ASSUME NEW a \in Nat, NEW b \in Nat, a <= b
  PROVE  /\ Interval(a, Bytes(a, b)) \in IntervalType
         /\ Interval(a, Bytes(a, b)).first = a /\ Interval(a, Bytes(a, b)).second = b
         /\ Interval(a, Bytes(a, b)).str = Bytes(a, b)
<1>1. Bytes(a, b) \in Seq(Nat) /\ Len(Bytes(a, b)) = b - a
  BY BytesType
<1>2. a + Len(Bytes(a, b)) = b
  BY <1>1
<1>3. Interval(a, Bytes(a, b)) = [first |-> a, second |-> b, str |-> Bytes(a, b)]
  BY <1>2 DEF Interval
<1> QED  BY <1>1, <1>3 DEF IntervalType

(* Merging a stored interval with new bytes that overlap or touch it makes *)
(* an interval of all their bytes, whichever of the four cases it is.      *)
LEMMA MergeCovers ==
  ASSUME NEW it, Piece(it), NEW first \in Nat, NEW second \in Nat, first <= second,
         first <= it.second, it.first <= second
  PROVE  LET x == Merge(it, first, Bytes(first, second)).interval
         IN  /\ Piece(x)
             /\ x.first = IF it.first <= first THEN it.first ELSE first
             /\ x.second = IF second <= it.second THEN it.second ELSE second
<1> DEFINE str == Bytes(first, second)
           a == it.first
           b == it.second
           m == Merge(it, first, str)
           n == Len(str)
           bypass == b - first
<1>1. /\ a \in Nat /\ b \in Nat /\ a < b /\ it.str = Bytes(a, b) /\ it \in IntervalType
      /\ a <= second /\ first <= b
  BY DEF Piece, IntervalType
<1>2. str \in Seq(Nat) /\ n = second - first
  BY Zenon, BytesType
<1>3. first + n = second
  <2> HIDE DEF n
  <2> QED  BY <1>2
<1>4. CASE a <= first /\ second <= b
  <2>1. m.interval = it
    <3> HIDE DEF str
    <3> QED  BY <1>1, <1>3, <1>4 DEF Merge
  <2> HIDE DEF m, str
  <2> QED  BY <1>4, <2>1 DEF m, str
<1>5. CASE a <= first /\ second > b
  <2>1. m.interval = Interval(a, it.str \o substr(str, bypass, n - bypass))
    <3> HIDE DEF str
    <3> QED  BY <1>1, <1>3, <1>5 DEF Merge
  <2>2. substr(str, bypass, n - bypass) = Bytes(b, second)
    <3> DEFINE l == n - bypass
    <3> HIDE DEF n, b
    <3>1. /\ bypass \in Nat /\ l \in Nat /\ first + bypass = b /\ b + l = second
          /\ b \in Nat /\ first <= b /\ b <= second /\ second <= second
      BY <1>1, <1>2, <1>5
    <3> HIDE DEF l, bypass
    <3>2. IsCut(first, second, bypass, l, b, second)
      BY Zenon, <3>1, BytesSubstr
    <3> QED  BY <3>2 DEF l, IsCut
  <2>3. Bytes(a, b) \o Bytes(b, second) = Bytes(a, second)
    <3>1. a \in Nat /\ b \in Nat /\ a <= b /\ b <= second
      BY <1>1, <1>5
    <3> HIDE DEF a, b
    <3> QED  BY Zenon, <3>1, BytesConcat
  <2>4. m.interval = Interval(a, Bytes(a, second))
    BY Zenon, <1>1, <2>1, <2>2, <2>3
  <2>5. a < second
    BY <1>1, <1>5
  <2> HIDE DEF m, str
  <2> QED  BY <1>1, <1>5, <2>4, <2>5, IntervalIsPiece DEF Piece, m, str
<1>6. CASE a > first /\ second <= b
  <2>1. m.interval = Interval(first, substr(str, 0, a - first) \o it.str)
    <3> HIDE DEF str
    <3> QED  BY <1>1, <1>3, <1>6 DEF Merge
  <2>2. substr(str, 0, a - first) = Bytes(first, a)
    <3> DEFINE l == a - first
               z == 0
    <3> HIDE DEF a
    <3>1. l \in Nat /\ first + l = a /\ z \in Nat /\ first + z = first /\ first <= a
      BY <1>1, <1>6
    <3> HIDE DEF l, z
    <3>2. IsCut(first, second, z, l, first, a)
      BY <1>1, <3>1, BytesSubstr
    <3> QED  BY <3>2 DEF l, z, IsCut
  <2>3. Bytes(first, a) \o Bytes(a, b) = Bytes(first, b)
    <3>1. a \in Nat /\ b \in Nat /\ first <= a /\ a <= b
      BY <1>1, <1>6
    <3> HIDE DEF a, b
    <3> QED  BY Zenon, <3>1, BytesConcat
  <2>4. m.interval = Interval(first, Bytes(first, b))
    BY Zenon, <1>1, <2>1, <2>2, <2>3
  <2>5. first < b
    BY <1>1, <1>6
  <2> HIDE DEF m, str
  <2> QED  BY <1>1, <1>6, <2>4, <2>5, IntervalIsPiece DEF Piece, m, str
<1>7. CASE a > first /\ second > b
  <2>1. m.interval = Interval(first, Bytes(first, second))
    <3> HIDE DEF str
    <3>1. m.interval = Interval(first, str)
      BY <1>1, <1>3, <1>7 DEF Merge
    <3> QED  BY <3>1 DEF str
  <2>2. first < second
    BY <1>1, <1>7
  <2> HIDE DEF m, str
  <2> QED  BY <1>1, <1>7, <2>1, <2>2, IntervalIsPiece DEF Piece, m, str
<1> QED  BY <1>1, <1>4, <1>5, <1>6, <1>7

-----------------------------------------------------------------------------
(* d with x in place of its elements i .. m - 1: what insert and the two   *)
(* ends of Absorb make of the list.                                        *)
Spliced(d, i, x, m) == SubSeq(d, 1, i - 1) \o <<x>> \o SubSeq(d, m, Len(d))

Elements(e, S, d, i, x, m) ==
  LET n == i + (Len(d) + 1 - m)
  IN  /\ e \in Seq(S) /\ Len(e) = n
      /\ \A k \in 1 .. n : e[k] = IF k < i THEN d[k] ELSE IF k = i THEN x ELSE d[k - i + m - 1]

(* Where the elements of d are in the spliced list.                        *)
LEMMA SpliceElements ==
  ASSUME NEW S, NEW d \in Seq(S), NEW x \in S, NEW i \in 1 .. Len(d) + 1,
         NEW m \in i .. Len(d) + 1
  PROVE  Elements(Spliced(d, i, x, m), S, d, i, x, m)
<1> DEFINE a == SubSeq(d, 1, i - 1)
           b == a \o <<x>>
           c == SubSeq(d, m, Len(d))
           l == Len(d) + 1 - m
           e == b \o c
<1>1. Len(d) \in Nat /\ i \in Nat /\ m \in Nat /\ l \in Nat
  OBVIOUS
<1>2. a \in Seq(S) /\ Len(a) = i - 1 /\ \A k \in 1 .. i - 1 : a[k] = d[k]
  OBVIOUS
<1>3. c \in Seq(S) /\ Len(c) = l /\ \A k \in 1 .. l : c[k] = d[k + m - 1]
  OBVIOUS
<1> HIDE DEF a, c, l
<1>4. <<x>> \in Seq(S) /\ Len(<<x>>) = 1 /\ <<x>>[1] = x
  OBVIOUS
<1>5. b \in Seq(S) /\ Len(b) = i /\ \A k \in 1 .. i : b[k] = IF k < i THEN a[k] ELSE x
  <2>1. b = Append(a, x)
    BY <1>2, <1>4
  <2> HIDE DEF b
  <2> QED  BY <1>1, <1>2, <2>1
<1> HIDE DEF b
<1>6. /\ e \in Seq(S) /\ Len(e) = i + l
      /\ \A k \in 1 .. i + l : e[k] = IF k <= i THEN b[k] ELSE c[k - i]
  <2>1. /\ e \in Seq(S) /\ Len(e) = Len(b) + Len(c)
        /\ \A k \in 1 .. Len(b) + Len(c) : e[k] = IF k <= Len(b) THEN b[k] ELSE c[k - Len(b)]
    BY Zenon, <1>3, <1>5, Concatenation
  <2> QED  BY <1>3, <1>5, <2>1, Zenon
<1> HIDE DEF e
<1>7. ASSUME NEW k \in 1 .. i + l
      PROVE  e[k] = IF k < i THEN d[k] ELSE IF k = i THEN x ELSE d[k - i + m - 1]
  <2>1. CASE k < i
    BY SMTT(30), <1>1, <1>2, <1>5, <1>6, <2>1
  <2>2. CASE k = i
    BY <1>1, <1>5, <1>6, <2>2
  <2>3. CASE k > i
    <3>1. e[k] = c[k - i] /\ k - i \in 1 .. l
      BY <1>1, <1>6, <2>3
    <3>2. c[k - i] = d[(k - i) + m - 1]
      BY <1>3, <3>1
    <3> QED  BY <1>1, <2>3, <3>1, <3>2
  <2> QED  BY <1>1, <2>1, <2>2, <2>3
<1>8. e = Spliced(d, i, x, m)
  BY DEF e, b, a, c, Spliced
<1> QED  BY <1>6, <1>7, <1>8 DEF l, Elements

(* The list holds the byte at index p.                                     *)
Holds(d, p) == \E k \in 1 .. Len(d) : d[k].first <= p /\ p < d[k].second

(* A splice of an interval between its neighbours keeps the list in order. *)
LEMMA SpliceKeeps ==
  ASSUME NEW lo \in Nat, NEW hi \in Nat, NEW d, List(d, lo, hi),
         NEW i \in 1 .. Len(d) + 1, NEW m \in i .. Len(d) + 1,
         NEW x, Piece(x), lo <= x.first, x.second <= hi,
         \A j \in 1 .. i - 1 : d[j].second < x.first,
         \A j \in m .. Len(d) : x.second < d[j].first
  PROVE  List(Spliced(d, i, x, m), lo, hi)
<1> DEFINE e == Spliced(d, i, x, m)
           l == Len(d)
           n == i + (l + 1 - m)
<1>1. d \in Seq(IntervalType) /\ x \in IntervalType /\ l \in Nat
  BY DEF List, Piece
<1>2. /\ e \in Seq(IntervalType) /\ Len(e) = n
      /\ \A k \in 1 .. n : e[k] = IF k < i THEN d[k] ELSE IF k = i THEN x ELSE d[k - i + m - 1]
  <2>1. Elements(e, IntervalType, d, i, x, m)
    BY <1>1, SpliceElements
  <2> QED  BY <2>1 DEF Elements
<1> HIDE DEF e
<1>3. ASSUME NEW k \in 1 .. n
      PROVE  /\ k < i => e[k] = d[k] /\ k \in 1 .. l
             /\ k = i => e[k] = x
             /\ k > i => e[k] = d[k - i + m - 1] /\ k - i + m - 1 \in 1 .. l
                         /\ k - i + m - 1 \in m .. l
  <2>1. CASE k < i
    <3>1. k \in 1 .. l
      BY <1>1, <2>1
    <3> QED  BY <1>2, <2>1, <3>1
  <2>2. CASE k = i
    BY <1>2, <2>2
  <2>3. CASE k > i
    <3>1. k - i + m - 1 \in 1 .. l /\ k - i + m - 1 \in m .. l
      BY SMTT(30), <1>1, <2>3
    <3>2. ~(k < i) /\ k # i
      BY <2>3
    <3>3. e[k] = d[k - i + m - 1]
      BY <1>2, <3>2
    <3> QED  BY <2>3, <3>1, <3>2, <3>3
  <2>4. k < i \/ k = i \/ k > i
    BY <1>1
  <2> QED  BY <2>1, <2>2, <2>3, <2>4
<1>4. ASSUME NEW k \in 1 .. n PROVE Piece(e[k]) /\ lo <= e[k].first /\ e[k].second <= hi
  <2>1. CASE k < i
    BY <1>3, <2>1 DEF List
  <2>2. CASE k = i
    BY <1>3, <2>2
  <2>3. CASE k > i
    BY <1>3, <2>3 DEF List
  <2> QED  BY <2>1, <2>2, <2>3, <1>1
<1>5. ASSUME NEW k \in 1 .. n, NEW j \in 1 .. n, k < j PROVE e[k].second < e[j].first
  <2>1. CASE j < i
    <3>1. e[k] = d[k] /\ e[j] = d[j] /\ k \in 1 .. l /\ j \in 1 .. l
      BY <1>1, <1>3, <1>5, <2>1
    <3> QED  BY <1>5, <3>1 DEF List
  <2>2. CASE j = i
    <3>1. e[k] = d[k] /\ e[j] = x /\ k \in 1 .. i - 1
      BY <1>1, <1>3, <1>5, <2>2
    <3> QED  BY <3>1
  <2>3. CASE j > i /\ k = i
    <3>1. e[k] = x /\ e[j] = d[j - i + m - 1] /\ j - i + m - 1 \in m .. l
      BY <1>3, <2>3
    <3> QED  BY <3>1
  <2>4. CASE j > i /\ k < i
    <3> DEFINE q == j - i + m - 1
    <3>1. e[k] = d[k] /\ k \in 1 .. l /\ e[j] = d[q] /\ q \in 1 .. l
      BY <1>3, <2>4
    <3>2. k < q
      BY SMTT(30), <1>1, <2>4
    <3> HIDE DEF q
    <3> QED  BY <3>1, <3>2 DEF List
  <2>5. CASE j > i /\ k > i
    <3> DEFINE q == j - i + m - 1
               r == k - i + m - 1
    <3>1. e[k] = d[r] /\ r \in 1 .. l /\ e[j] = d[q] /\ q \in 1 .. l
      BY <1>3, <2>5
    <3>2. r < q
      BY <1>1, <1>5, <2>5
    <3> HIDE DEF q, r
    <3> QED  BY <3>1, <3>2 DEF List
  <2> QED  BY <1>1, <2>1, <2>2, <2>3, <2>4, <2>5
<1>6. List(e, lo, hi)
  <2> HIDE DEF n
  <2> QED  BY <1>2, <1>4, <1>5 DEF List
<1> QED  BY <1>6 DEF e

(* It holds what the spliced in interval and the remaining ones hold.       *)
LEMMA SpliceHolds ==
  ASSUME NEW d \in Seq(IntervalType), NEW i \in 1 .. Len(d) + 1, NEW m \in i .. Len(d) + 1,
         NEW x \in IntervalType, NEW p
  PROVE  Holds(Spliced(d, i, x, m), p) <=>
           \/ x.first <= p /\ p < x.second
           \/ \E k \in (1 .. i - 1) \union (m .. Len(d)) : d[k].first <= p /\ p < d[k].second
<1> DEFINE e == Spliced(d, i, x, m)
           l == Len(d)
           n == i + (l + 1 - m)
           In(it) == it.first <= p /\ p < it.second
<1> HIDE DEF In
<1>1. l \in Nat /\ i \in Nat /\ m \in Nat /\ d \in Seq(IntervalType) /\ x \in IntervalType
  OBVIOUS
<1>2. /\ e \in Seq(IntervalType) /\ Len(e) = n
      /\ \A k \in 1 .. n : e[k] = IF k < i THEN d[k] ELSE IF k = i THEN x ELSE d[k - i + m - 1]
  <2>1. Elements(e, IntervalType, d, i, x, m)
    BY <1>1, SpliceElements
  <2> QED  BY <2>1 DEF Elements
<1> HIDE DEF e
<1>3. ASSUME NEW k \in 1 .. n, In(e[k])
      PROVE  In(x) \/ \E j \in (1 .. i - 1) \union (m .. l) : In(d[j])
  <2>1. CASE k < i
    <3>1. k \in (1 .. i - 1) \union (m .. l) /\ e[k] = d[k]
      BY <1>1, <1>2, <2>1
    <3> QED  BY <1>3, <3>1
  <2>2. CASE k = i
    BY <1>2, <1>3, <2>2
  <2>3. CASE k > i
    <3> DEFINE q == k - i + m - 1
    <3>1. q \in (1 .. i - 1) \union (m .. l) /\ e[k] = d[q]
      BY <1>1, <1>2, <2>3
    <3> HIDE DEF q
    <3> QED  BY <1>3, <3>1
  <2> QED  BY <1>1, <2>1, <2>2, <2>3
<1>4. ASSUME In(x) PROVE \E k \in 1 .. n : In(e[k])
  <2>1. i \in 1 .. n /\ e[i] = x
    BY <1>1, <1>2
  <2> QED  BY <1>4, <2>1
<1>5. ASSUME NEW j \in (1 .. i - 1) \union (m .. l), In(d[j]) PROVE \E k \in 1 .. n : In(e[k])
  <2>1. CASE j \in 1 .. i - 1
    <3>1. j \in 1 .. n /\ e[j] = d[j]
      BY <1>1, <1>2, <2>1
    <3> QED  BY <1>5, <3>1
  <2>2. CASE j \in m .. l
    <3> DEFINE q == j + i + 1 - m
    <3>1. q \in 1 .. n /\ q > i /\ q - i + m - 1 = j
      BY <1>1, <2>2
    <3>2. e[q] = d[j]
      BY <1>1, <1>2, <3>1
    <3> HIDE DEF q
    <3> QED  BY <1>5, <3>1, <3>2
  <2> QED  BY <2>1, <2>2
<1>6. Holds(e, p) <=> \E k \in 1 .. n : In(e[k])
  BY <1>2, Zenon DEF Holds, In
<1> QED  BY <1>3, <1>4, <1>5, <1>6 DEF e, In

-----------------------------------------------------------------------------
(* Every set of natural numbers that is not empty has a least element.      *)
LEMMA LeastNatural ==
  ASSUME NEW T, T \subseteq Nat, T # {}
  PROVE  \E x \in T : \A y \in T : x <= y
<1> DEFINE R == OpToRel(<, Nat)
<1>1. \A x \in Nat, y \in Nat : <<y, x>> \in R <=> y < x
  BY DEF OpToRel
<1>2. IsWellFoundedOn(R, Nat)
  BY NatLessThanWellFounded, Zenon
<1> HIDE DEF R
<1>3. \E x \in T : \A y \in T : ~ (<<y, x>> \in R)
  BY Zenon, <1>2, WFMin
<1>4. \A x \in T, y \in T : ~(<<y, x>> \in R) => x <= y
  BY <1>1
<1> QED  BY Zenon, <1>3, <1>4

(* One that is bounded has a greatest element.                             *)
LEMMA Greatest ==
  ASSUME NEW n \in Nat, NEW T, T \subseteq 0 .. n, T # {}
  PROVE  \E x \in T : \A y \in T : x >= y
<1> DEFINE U == {m \in Nat : \A y \in T : y <= m}
<1>1. n \in U
  OBVIOUS
<1>2. PICK x \in U : \A y \in U : x <= y
  BY Zenon, <1>1, LeastNatural
<1>3. x \in T
  <2> SUFFICES ASSUME x \notin T PROVE FALSE
    OBVIOUS
  <2>1. PICK t \in T : TRUE
    BY Zenon
  <2>2. x \in Nat /\ t \in Nat /\ t <= x /\ t # x
    BY <2>1
  <2>3. x - 1 \in U
    BY <2>2
  <2> QED  BY <2>2, <2>3, <1>2
<1> QED  BY <1>2, <1>3

(* Joining an interval to the next one, which begins inside of it and ends  *)
(* beyond it, makes one interval of their bytes.                           *)
LEMMA JoinedIsPiece ==
  ASSUME NEW x, Piece(x), NEW it, Piece(it), it.first <= x.second, x.second < it.second
  PROVE  LET y == Interval(x.first, joined(x, it, x.second - it.first))
         IN  Piece(y) /\ y.first = x.first /\ y.second = it.second
<1> DEFINE a == x.first
           b == x.second
           c == it.second
           f == it.first
           o == b - f
           n == Len(it.str) - o
<1>1. /\ a \in Nat /\ b \in Nat /\ c \in Nat /\ f \in Nat /\ a < b /\ f < c
      /\ f <= b /\ b < c /\ x.str = Bytes(a, b) /\ it.str = Bytes(f, c)
  BY DEF Piece, IntervalType
<1>2. Len(it.str) = c - f
  <2> HIDE DEF f, c
  <2> QED  BY <1>1, BytesType
<1>3. o \in Nat /\ n \in Nat /\ f + o = b /\ b + n = c
  <2> HIDE DEF f, b, c
  <2> QED  BY <1>1, <1>2
<1>4. substr(it.str, o, n) = Bytes(b, c)
  <2>1. f <= b /\ b <= c /\ c <= c
    BY <1>1
  <2> HIDE DEF f, b, c, o, n
  <2>2. IsCut(f, c, o, n, b, c)
    BY Zenon, <1>1, <1>3, <2>1, BytesSubstr
  <2> QED  BY <1>1, <2>2 DEF IsCut
<1>5. Bytes(a, b) \o Bytes(b, c) = Bytes(a, c)
  <2>1. a \in Nat /\ b \in Nat /\ c \in Nat /\ a <= b /\ b <= c
    BY <1>1
  <2> HIDE DEF a, b, c
  <2> QED  BY Zenon, <2>1, BytesConcat
<1>6. joined(x, it, o) = Bytes(a, c)
  BY <1>1, <1>4, <1>5 DEF joined
<1>7. a < c
  BY <1>1
<1> HIDE DEF a, c, o
<1> QED  BY <1>1, <1>6, <1>7, IntervalIsPiece DEF Piece, a, c, o

(* The list r is d with an interval y instead of the ones at i .. m - 1: y  *)
(* begins as x does and ends as x does or, if the last of them reaches      *)
(* further, as that one does.                                              *)
Absorbed(d, i, x, hi, r) ==
  \E m \in i + 1 .. Len(d) + 1, y \in IntervalType :
    /\ Piece(y) /\ y.first = x.first /\ x.second <= y.second /\ y.second <= hi
    /\ \A j \in i .. m - 1 : d[j].second <= y.second
    /\ \A j \in m .. Len(d) : y.second < d[j].first
    /\ \/ y.second = x.second
       \/ m - 1 > i /\ d[m - 1].first <= x.second /\ y.second = d[m - 1].second
    /\ r = Spliced(d, i, y, m)

(* The intervals before the i-th end before x begins.                      *)
Behind(d, i, x) == \A j \in 1 .. i - 1 : d[j].second < x.first

(* The interval x has taken position i of the list d, and Absorb joins the  *)
(* successors to it that it overlaps or touches: the result is a splice.   *)
LEMMA AbsorbSplices ==
  ASSUME NEW lo \in Nat, NEW hi \in Nat, NEW d, List(d, lo, hi), NEW i \in 1 .. Len(d),
         NEW x, Piece(x), x.second <= hi, d[i].second <= x.second, NEW size
  PROVE  Absorbed(d, i, x, hi, Absorb([d EXCEPT ![i] = x], size, i).data)
<1> DEFINE e == [d EXCEPT ![i] = x]
           l == Len(d)
           top == x.second
           covered == {j \in i + 1 .. l : \A k \in i + 1 .. j : top >= e[k].second}
           last == Max({i} \union covered)
           it == e[last + 1]
           a == Absorb(e, size, i)
<1>1. d \in Seq(IntervalType) /\ x \in IntervalType /\ l \in Nat
  BY DEF List, Piece
<1>2. /\ e \in Seq(IntervalType) /\ Len(e) = l /\ e[i] = x
      /\ \A k \in 1 .. l : k # i => e[k] = d[k]
  BY <1>1
<1> HIDE DEF e
<1>3. /\ last \in i .. l
      /\ \A k \in i + 1 .. last : top >= e[k].second
      /\ last < l => ~(top >= e[last + 1].second)
  <2> HIDE DEF top
  <2> DEFINE T == {i} \union covered
  <2>1. T \subseteq 0 .. l /\ T # {} /\ T \subseteq i .. l
    OBVIOUS
  <2>2. \A j \in T : \A k \in i + 1 .. j : top >= e[k].second
    OBVIOUS
  <2>3. \A j \in i + 1 .. l : (\A k \in i + 1 .. j : top >= e[k].second) => j \in T
    OBVIOUS
  <2> HIDE DEF T
  <2>4. \E n \in T : \A k \in T : n >= k
    BY Zenon, <1>1, <2>1, Greatest
  <2>5. last \in T /\ \A k \in T : last >= k
    BY Zenon, <2>4 DEF Max, T
  <2> HIDE DEF last
  <2>6. last \in i .. l /\ \A k \in i + 1 .. last : top >= e[k].second
    BY <2>1, <2>2, <2>5
  <2>7. last < l => ~(top >= e[last + 1].second)
    <3>1. SUFFICES ASSUME last < l, top >= e[last + 1].second PROVE FALSE
      OBVIOUS
    <3>2. last + 1 \in i + 1 .. l
      BY <2>6, <3>1
    <3>3. \A k \in i + 1 .. last + 1 : top >= e[k].second
      <4> TAKE k \in i + 1 .. last + 1
      <4>1. CASE k = last + 1
        BY <3>1, <4>1
      <4>2. CASE k # last + 1
        <5>1. k \in i + 1 .. last
          BY <2>6, <4>2
        <5> QED  BY <2>6, <5>1
      <4> QED  BY <4>1, <4>2
    <3>4. last + 1 \in T
      BY <2>3, <3>2, <3>3
    <3>5. last >= last + 1
      BY <2>5, <3>4
    <3> QED  BY <2>6, <3>5
  <2> QED  BY <2>6, <2>7
<1>4. a.data = IF last < l /\ it.first <= top
               THEN SubSeq(e, 1, i - 1) \o <<Interval(x.first, joined(x, it, top - it.first))>>
                    \o SubSeq(e, last + 2, l)
               ELSE SubSeq(e, 1, i) \o SubSeq(e, last + 1, l)
  BY Zenon, <1>2 DEF Absorb
<1> HIDE DEF covered, last, a
<1>5. /\ \A k \in 1 .. l : d[k] \in IntervalType
      /\ top \in Nat
      /\ \A k \in i + 1 .. last : d[k].second <= top
      /\ last < l => top < d[last + 1].second /\ it = d[last + 1]
  <2>1. \A k \in 1 .. l : d[k] \in IntervalType
    BY <1>1
  <2>2. top \in Nat
    BY <1>1 DEF IntervalType
  <2>3. \A k \in i + 1 .. last : d[k].second <= top
    <3> TAKE k \in i + 1 .. last
    <3>1. e[k] = d[k] /\ k \in 1 .. l
      BY <1>1, <1>2, <1>3
    <3>2. d[k].second \in Nat /\ top >= d[k].second
      BY <1>3, <2>1, <3>1 DEF IntervalType
    <3> QED  BY <2>2, <3>2
  <2>4. ASSUME last < l PROVE top < d[last + 1].second /\ it = d[last + 1]
    <3>1. last + 1 \in 1 .. l /\ last + 1 # i
      BY <1>1, <1>3, <2>4
    <3>2. it = d[last + 1]
      BY <1>2, <3>1
    <3>3. d[last + 1].second \in Nat
      BY <2>1, <3>1 DEF IntervalType
    <3> QED  BY <1>3, <2>2, <2>4, <3>2, <3>3
  <2> QED  BY <2>1, <2>2, <2>3, <2>4
<1>6. SubSeq(e, 1, i - 1) = SubSeq(d, 1, i - 1)
  <2> DEFINE u == SubSeq(e, 1, i - 1)
             v == SubSeq(d, 1, i - 1)
  <2>1. /\ u \in Seq(IntervalType) /\ Len(u) = i - 1 /\ \A k \in 1 .. i - 1 : u[k] = e[k]
        /\ v \in Seq(IntervalType) /\ Len(v) = i - 1 /\ \A k \in 1 .. i - 1 : v[k] = d[k]
    BY <1>1, <1>2
  <2>2. \A k \in 1 .. i - 1 : e[k] = d[k]
    BY <1>1, <1>2
  <2> HIDE DEF u, v
  <2>3. u = v
    BY <2>1, <2>2, SameElements
  <2> QED  BY <2>3 DEF u, v
<1>7. ASSUME NEW m \in i + 1 .. l + 1 PROVE SubSeq(e, m, l) = SubSeq(d, m, l)
  <2> DEFINE n == l + 1 - m
             u == SubSeq(e, m, l)
             v == SubSeq(d, m, l)
  <2>1. /\ u \in Seq(IntervalType) /\ Len(u) = n /\ \A k \in 1 .. n : u[k] = e[k + m - 1]
        /\ v \in Seq(IntervalType) /\ Len(v) = n /\ \A k \in 1 .. n : v[k] = d[k + m - 1]
    BY <1>1, <1>2
  <2>2. ASSUME NEW k \in 1 .. n PROVE e[k + m - 1] = d[k + m - 1]
    <3>1. k + m - 1 \in 1 .. l /\ k + m - 1 # i
      BY <1>1
    <3> QED  BY <1>2, <3>1
  <2> HIDE DEF u, v
  <2>3. u = v
    BY Zenon, <2>1, <2>2, SameElements
  <2> QED  BY <2>3 DEF u, v
<1>8. \A j, k \in 1 .. l : j < k => d[j].second < d[k].first
  BY DEF List
<1>9. CASE last < l /\ it.first <= top
  <2> DEFINE m == last + 2
             y == Interval(x.first, joined(x, it, top - it.first))
  <2>1. last + 1 \in 1 .. l /\ m \in i + 1 .. l + 1 /\ m - 1 = last + 1 /\ m - 1 > i
    BY <1>1, <1>3, <1>9
  <2>2. Piece(it) /\ it.second <= hi /\ top < it.second /\ it = d[last + 1]
    BY <1>5, <1>9, <2>1 DEF List
  <2>3. Piece(y) /\ y.first = x.first /\ y.second = it.second
    BY <1>9, <2>2, JoinedIsPiece
  <2> HIDE DEF y
  <2>4. it.second \in Nat /\ top < it.second
    BY <2>2 DEF Piece, IntervalType
  <2>5. ASSUME NEW j \in i .. m - 1 PROVE d[j].second <= y.second
    <3>1. CASE j = last + 1
      BY <2>2, <2>3, <2>4, <3>1
    <3>2. CASE j = i
      <4>1. d[i].second \in Nat /\ d[i].second <= top
        BY <1>5 DEF IntervalType
      <4> QED  BY <1>5, <2>3, <2>4, <3>2, <4>1
    <3>3. CASE j # i /\ j # last + 1
      <4>1. j \in i + 1 .. last /\ j \in 1 .. l
        BY <1>1, <1>3, <2>1, <3>3
      <4>2. d[j].second \in Nat /\ d[j].second <= top
        BY <1>5, <4>1 DEF IntervalType
      <4> QED  BY SMTT(30), <1>5, <2>3, <2>4, <4>2
    <3> QED  BY <3>1, <3>2, <3>3
  <2>6. ASSUME NEW j \in m .. l PROVE y.second < d[j].first
    <3>1. j \in 1 .. l /\ last + 1 < j
      BY <1>1, <1>3, <2>1
    <3> QED  BY <1>8, <2>1, <2>2, <2>3, <3>1
  <2>7. a.data = Spliced(d, i, y, m)
    <3>1. a.data = SubSeq(e, 1, i - 1) \o <<y>> \o SubSeq(e, m, l)
      BY Zenon, <1>4, <1>9 DEF y
    <3> QED  BY <1>6, <1>7, <2>1, <3>1, Zenon DEF Spliced
  <2>8. x.second <= y.second /\ y.second <= hi /\ d[m - 1].first <= x.second
        /\ y.second = d[m - 1].second
    BY <1>5, <1>9, <2>1, <2>2, <2>3, <2>4
  <2> HIDE DEF m
  <2>9. y \in IntervalType
    BY <2>3 DEF Piece
  <2> QED  BY <2>1, <2>3, <2>5, <2>6, <2>7, <2>8, <2>9 DEF a, e, Absorbed
<1>10. CASE ~(last < l /\ it.first <= top)
  <2> DEFINE m == last + 1
  <2>1. m \in i + 1 .. l + 1 /\ m - 1 = last
    BY <1>1, <1>3
  <2>2. a.data = Spliced(d, i, x, m)
    <3>1. a.data = SubSeq(e, 1, i) \o SubSeq(e, m, l)
      BY Zenon, <1>4, <1>10
    <3>2. SubSeq(e, 1, i) = SubSeq(e, 1, i - 1) \o <<e[i]>>
      <4>1. 1 \in 1 .. Len(e) /\ i \in 1 .. Len(e)
        BY <1>1, <1>2
      <4> DEFINE v == SubSeq(e, 1, i)
                 w == SubSeq(e, 1, i - 1) \o <<e[i]>>
      <4>2. /\ v \in Seq(IntervalType) /\ Len(v) = i /\ \A k \in 1 .. i : v[k] = e[k]
            /\ w \in Seq(IntervalType) /\ Len(w) = i /\ \A k \in 1 .. i : w[k] = e[k]
        BY <1>2, <4>1
      <4> HIDE DEF v, w
      <4>3. v = w
        BY <4>2, SameElements
      <4> QED  BY <4>3 DEF v, w
    <3> QED  BY <1>2, <1>6, <1>7, <2>1, <3>1, <3>2, Zenon DEF Spliced
  <2>3. ASSUME NEW j \in i .. m - 1 PROVE d[j].second <= x.second
    <3>1. CASE j = i
      BY <3>1
    <3>2. CASE j # i
      <4>1. j \in i + 1 .. last
        BY <1>1, <1>3, <2>1, <3>2
      <4> QED  BY <1>5, <4>1
    <3> QED  BY <3>1, <3>2
  <2>4. ASSUME NEW j \in m .. l PROVE x.second < d[j].first
    <3>1. last < l /\ last + 1 \in 1 .. l /\ j \in 1 .. l
      BY <1>1, <1>3, <2>1
    <3>2. it = d[last + 1] /\ it.first \in Nat /\ it.second \in Nat /\ d[j].first \in Nat
      BY SMTT(30), <1>5, <3>1 DEF IntervalType
    <3>3. top < it.first
      BY <1>5, <1>10, <3>1, <3>2
    <3>4. it.first < it.second
      BY <3>1, <3>2 DEF List, Piece
    <3>5. CASE j = last + 1
      BY <3>2, <3>3, <3>5
    <3>6. CASE j # last + 1
      <4>1. last + 1 < j
        BY <1>1, <1>3, <2>1, <3>6
      <4>2. it.second < d[j].first
        BY <1>8, <3>1, <3>2, <4>1
      <4> QED  BY SMTT(30), <1>5, <3>2, <3>3, <3>4, <4>2
    <3> QED  BY <3>5, <3>6
  <2>5. x.second <= x.second
    BY <1>5
  <2> HIDE DEF m
  <2> QED  BY SMTT(30), <1>1, <2>1, <2>2, <2>3, <2>4, <2>5 DEF a, e, Absorbed
<1> QED  BY <1>9, <1>10

(* An index between the ends of an interval is between wider ends.          *)
LEMMA Between ==
  ASSUME NEW a \in Nat, NEW b \in Nat, NEW c \in Nat, NEW d \in Nat, NEW p \in Nat,
         a <= b, b <= p, p < c, c <= d
  PROVE  a <= p /\ p < d
OBVIOUS

(* Absorbing keeps the list in order and with gaps, and what it stores is   *)
(* what the list d stored and the bytes of x.                              *)
LEMMA AbsorbKeeps ==
  ASSUME NEW lo \in Nat, NEW hi \in Nat, NEW d, List(d, lo, hi), NEW i \in 1 .. Len(d),
         NEW x, Piece(x), lo <= x.first, x.second <= hi,
         x.first <= d[i].first, d[i].second <= x.second,
         Behind(d, i, x), NEW size
  PROVE  LET r == Absorb([d EXCEPT ![i] = x], size, i).data
         IN  /\ List(r, lo, hi)
             /\ \A p \in Nat : Holds(r, p) <=> Holds(d, p) \/ (x.first <= p /\ p < x.second)
<1> DEFINE r == Absorb([d EXCEPT ![i] = x], size, i).data
           l == Len(d)
           In(it, p) == it.first <= p /\ p < it.second
<1>1. Absorbed(d, i, x, hi, r)
  BY AbsorbSplices
<1> HIDE DEF r
<1>2. PICK m \in i + 1 .. l + 1, y \in IntervalType :
           /\ Piece(y) /\ y.first = x.first /\ x.second <= y.second /\ y.second <= hi
           /\ \A j \in i .. m - 1 : d[j].second <= y.second
           /\ \A j \in m .. l : y.second < d[j].first
           /\ \/ y.second = x.second
              \/ m - 1 > i /\ d[m - 1].first <= x.second /\ y.second = d[m - 1].second
           /\ r = Spliced(d, i, y, m)
  BY <1>1, Zenon DEF Absorbed
<1>3. /\ d \in Seq(IntervalType) /\ l \in Nat /\ \A k \in 1 .. l : d[k] \in IntervalType
      /\ x \in IntervalType
  <2>1. d \in Seq(IntervalType) /\ x \in IntervalType
    BY DEF List, Piece
  <2> QED  BY <2>1
<1>4. i \in 1 .. l + 1 /\ m \in i .. l + 1
  BY <1>3
<1>5. List(r, lo, hi)
  <2>1. lo <= y.first /\ \A j \in 1 .. i - 1 : d[j].second < y.first
    BY <1>2 DEF Behind
  <2> QED  BY <1>2, <1>4, <2>1, SpliceKeeps
<1>6. ASSUME NEW p \in Nat PROVE Holds(r, p) <=> Holds(d, p) \/ In(x, p)
  <2>1. Holds(r, p) <=> In(y, p) \/ \E k \in (1 .. i - 1) \union (m .. l) : In(d[k], p)
    BY <1>2, <1>3, <1>4, SpliceHolds
  <2>2. x.second \in Nat /\ x.first \in Nat /\ y.second \in Nat
    BY <1>3 DEF IntervalType
  <2>3. In(x, p) => In(y, p)
    BY <1>2, <2>2
  <2>4. ASSUME In(y, p) PROVE In(x, p) \/ \E k \in 1 .. l : In(d[k], p)
    <3>1. CASE y.second = x.second
      BY <1>2, <2>4, <3>1
    <3>2. CASE m - 1 > i /\ d[m - 1].first <= x.second /\ y.second = d[m - 1].second
      <4>1. m - 1 \in 1 .. l
        BY <1>3, <1>4
      <4>2. d[m - 1].first \in Nat
        BY Zenon, <1>3, <4>1 DEF IntervalType
      <4>3. p < x.second \/ d[m - 1].first <= p
        BY SMTT(30), <2>2, <3>2, <4>2
      <4> QED  BY <1>2, <2>4, <3>2, <4>1, <4>3
    <3> QED  BY <1>2, <3>1, <3>2
  <2>5. ASSUME NEW k \in i .. m - 1, In(d[k], p) PROVE In(y, p)
    <3>1. k \in 1 .. l
      BY <1>3, <1>4
    <3> DEFINE u == d[k].first
               v == d[k].second
               w == d[i].first
               z == d[i].second
               o == x.first
               q == y.second
    <3>2. /\ u \in Nat /\ v \in Nat /\ w \in Nat /\ z \in Nat /\ o \in Nat /\ q \in Nat
          /\ w < z /\ o <= w /\ u <= p /\ p < v /\ v <= q
      <4>1. Piece(d[k]) /\ Piece(d[i])
        BY <3>1 DEF List
      <4>2. v <= q
        BY <1>2
      <4> QED  BY SMTT(30), <2>2, <2>5, <4>1, <4>2 DEF Piece, IntervalType
    <3>3. i < k => z < u
      BY <3>1 DEF List
    <3>4. i = k => w = u
      OBVIOUS
    <3> HIDE DEF u, v, w, z, o, q
    <3>5. o <= p /\ p < q
      <4>1. i = k \/ i < k
        OBVIOUS
      <4>2. o <= u
        <5>1. CASE i = k
          BY <3>2, <3>4, <5>1
        <5>2. CASE i < k
          BY <3>2, <3>3, <5>2
        <5> QED  BY <4>1, <5>1, <5>2
      <4> QED  BY <3>2, <4>2, Between
    <3> QED  BY <1>2, <3>5 DEF o, q
  <2>6. \A k \in 1 .. l : k \in (1 .. i - 1) \union (m .. l) \/ k \in i .. m - 1
    BY <1>3, <1>4
  <2>7. \A k \in (1 .. i - 1) \union (m .. l) : k \in 1 .. l
    BY <1>3, <1>4
  <2>8. Holds(d, p) <=> \E k \in 1 .. l : In(d[k], p)
    BY DEF Holds
  <2> HIDE DEF In
  <2> QED  BY SMTT(30), <2>1, <2>3, <2>4, <2>5, <2>6, <2>7, <2>8
<1>7. \A p \in Nat : Holds(r, p) <=> Holds(d, p) \/ (x.first <= p /\ p < x.second)
  BY <1>6
<1> QED  BY Zenon, <1>5, <1>7 DEF r

(* A list that begins beyond lo begins at lo or later.                     *)
LEMMA ListWidens ==
  ASSUME NEW lo \in Nat, NEW hi \in Nat, NEW d, List(d, lo + 1, hi)
  PROVE  List(d, lo, hi)
<1>1. ASSUME NEW i \in 1 .. Len(d) PROVE lo <= d[i].first
  <2>1. lo + 1 <= d[i].first /\ d[i].first \in Nat
    BY DEF List, Piece, IntervalType
  <2> QED  BY <2>1
<1> QED  BY <1>1 DEF List

(* Inserting an interval where it neither overlaps nor touches another one. *)
LEMMA InsertKeeps ==
  ASSUME NEW lo \in Nat, NEW hi \in Nat, NEW d, List(d, lo, hi), NEW i \in 1 .. Len(d) + 1,
         NEW x, Piece(x), lo <= x.first, x.second <= hi,
         Behind(d, i, x), \A j \in i .. Len(d) : x.second < d[j].first
  PROVE  LET r == insert(d, i, x)
         IN  /\ List(r, lo, hi)
             /\ \A p \in Nat : Holds(r, p) <=> Holds(d, p) \/ (x.first <= p /\ p < x.second)
<1> DEFINE r == insert(d, i, x)
           l == Len(d)
           In(it, p) == it.first <= p /\ p < it.second
<1>1. r = Spliced(d, i, x, i)
  BY DEF insert, Spliced
<1> HIDE DEF r
<1>2. d \in Seq(IntervalType) /\ x \in IntervalType /\ l \in Nat
  BY DEF List, Piece
<1>3. i \in 1 .. l + 1 /\ i \in i .. l + 1
  BY <1>2
<1>4. List(r, lo, hi)
  BY <1>1, <1>3, SpliceKeeps DEF Behind
<1>5. ASSUME NEW p \in Nat PROVE Holds(r, p) <=> Holds(d, p) \/ In(x, p)
  <2>1. Holds(r, p) <=> In(x, p) \/ \E k \in (1 .. i - 1) \union (i .. l) : In(d[k], p)
    BY SMTT(30), <1>1, <1>2, <1>3, SpliceHolds
  <2>2. (1 .. i - 1) \union (i .. l) = 1 .. l
    BY <1>2, <1>3
  <2>3. Holds(d, p) <=> \E k \in 1 .. l : In(d[k], p)
    BY DEF Holds
  <2> HIDE DEF In
  <2> QED  BY <2>1, <2>2, <2>3
<1>6. \A p \in Nat : Holds(r, p) <=> Holds(d, p) \/ (x.first <= p /\ p < x.second)
  BY <1>5
<1> QED  BY <1>4, <1>6 DEF r

(* Inserting into an empty list.                                           *)
LEMMA InsertIntoEmpty ==
  ASSUME NEW x
  PROVE  insert(<<>>, 1, x) = <<x>>
<1> DEFINE e == SubSeq(<<>>, 1, 0)
<1>1. e \in Seq({x}) /\ Len(e) = 0
  <2>1. <<>> \in Seq({x}) /\ Len(<<>>) = 0
    OBVIOUS
  <2> QED  BY <2>1
<1>2. e = <<>>
  BY <1>1
<1>3. insert(<<>>, 1, x) = (e \o <<x>>) \o e
  BY DEF insert
<1> HIDE DEF e
<1>4. (<<>> \o <<x>>) \o <<>> = <<x>>
  OBVIOUS
<1> QED  BY <1>2, <1>3, <1>4

(* The position at which assemble stores: no interval before it reaches     *)
(* first.                                                                  *)
LEMMA FirstReached ==
  ASSUME NEW d \in Seq(IntervalType), NEW first \in Nat,
         NEW reach, reach = {j \in 1 .. Len(d) : first <= d[j].second},
         NEW i, i = IF reach = {} THEN Len(d) + 1 ELSE Min(reach)
  PROVE  /\ i \in 1 .. Len(d) + 1
         /\ \A j \in 1 .. i - 1 : d[j].second < first
         /\ reach # {} => i \in 1 .. Len(d) /\ first <= d[i].second
         /\ reach = {} => i = Len(d) + 1
<1> DEFINE l == Len(d)
<1>1. l \in Nat /\ \A j \in 1 .. l : d[j].second \in Nat
  <2>1. l \in Nat /\ \A j \in 1 .. l : d[j] \in IntervalType
    OBVIOUS
  <2> QED  BY SMTT(30), <2>1 DEF IntervalType
<1>2. \A j \in 1 .. l : j \notin reach => d[j].second < first
  BY <1>1
<1>3. CASE reach = {}
  <2>1. i = l + 1
    BY <1>3
  <2> QED  BY <1>1, <1>2, <1>3, <2>1
<1>4. CASE reach # {}
  <2>1. reach \subseteq Nat /\ reach \subseteq 1 .. l
    OBVIOUS
  <2>2. \E k \in reach : \A j \in reach : k <= j
    BY Zenon, <1>4, <2>1, LeastNatural
  <2>3. i = Min(reach)
    BY <1>4
  <2>4. i \in reach /\ \A j \in reach : i <= j
    BY <2>2, <2>3 DEF Min
  <2>5. i \in 1 .. l /\ first <= d[i].second
    BY <2>4
  <2>6. ASSUME NEW j \in 1 .. i - 1 PROVE d[j].second < first
    <3> l \in Nat /\ i \in 1 .. l
      BY <1>1, <2>5
    <3> HIDE DEF l
    <3>1. j \in 1 .. l /\ ~(i <= j)
      OBVIOUS
    <3> QED  BY <1>2, <2>4, <3>1
  <2>7. i \in 1 .. l + 1
    BY <1>1, <2>5
  <2> QED  BY <1>4, <2>5, <2>6, <2>7, Zenon
<1> QED  BY Zenon, <1>3, <1>4

(* std::max and std::min of two indices.                                   *)
LEMMA MaxMin ==
  ASSUME NEW a \in Int, NEW b \in Int
  PROVE  /\ Max({a, b}) = IF a < b THEN b ELSE a
         /\ Min({a, b}) = IF b < a THEN b ELSE a
<1>1. Max({a, b}) \in {a, b} /\ \A y \in {a, b} : Max({a, b}) >= y
  <2>1. \E x \in {a, b} : \A y \in {a, b} : x >= y
    <3>1. CASE a < b
      BY <3>1
    <3>2. CASE ~(a < b)
      BY <3>2
    <3> QED  BY <3>1, <3>2
  <2> QED  BY <2>1 DEF Max
<1>2. Min({a, b}) \in {a, b} /\ \A y \in {a, b} : Min({a, b}) <= y
  <2>1. \E x \in {a, b} : \A y \in {a, b} : x <= y
    <3>1. CASE a < b
      BY <3>1
    <3>2. CASE ~(a < b)
      BY <3>2
    <3> QED  BY <3>1, <3>2
  <2> QED  BY <2>1 DEF Min
<1> QED  BY <1>1, <1>2

(* What assemble leaves for output(): a list that may begin at next_ or, if *)
(* output_ is full and has all of the input already, an empty interval      *)
(* there.                                                                  *)
Ready(r) == \/ List(r, next_, Upper)
            \/ Upper = next_ /\ r = <<Interval(next_, <<>>)>> /\ data_ = <<>>

(* The facts of the invariant that assemble and output() rest on.          *)
LEMMA Bounds ==
  ASSUME ReassemblerInv
  PROVE  /\ next_ \in Nat /\ Upper \in Nat /\ next_ <= Upper
         /\ data_ \in Seq(IntervalType) /\ List(data_, next_ + 1, Upper)
         /\ RECV_CAPACITY \in Nat /\ RECV_CAPACITY > 0
         /\ output_ \in ByteStream(RECV_CAPACITY)
<1>1. RECV_CAPACITY \in Nat /\ RECV_CAPACITY > 0
  BY StreamAssumption
<1>2. /\ next_ \in Nat /\ output_ \in ByteStream(RECV_CAPACITY)
      /\ List(data_, next_ + 1, Upper) /\ data_ \in Seq(IntervalType)
  BY DEF ReassemblerInv, List
<1>3. output_.size \in 0 .. RECV_CAPACITY
  BY <1>1, <1>2, Fields
<1>4. Upper \in Nat /\ next_ <= Upper
  BY <1>1, <1>2, <1>3 DEF Upper
<1> QED  BY <1>1, <1>2, <1>4

(* assemble stores what is new and fits, and keeps the list in order.      *)
LEMMA AssembleKeeps ==
  ASSUME ReassemblerInv, NEW index \in Nat, NEW n \in Nat, NEW end \in Nat,
         end = index + n, end <= StreamLen
  PROVE  LET r == assemble(Bytes(index, end), index).data
         IN  /\ Ready(r)
             /\ \A p \in Nat : Holds(r, p) <=>
                  Holds(data_, p) \/ (next_ <= p /\ index <= p /\ p < end /\ p < Upper)
<1> DEFINE input  == Bytes(index, end)
           upper  == next_ + (RECV_CAPACITY - output_.size)
           first  == Max({next_, index})
           offset == first - index
           len    == Min({Len(input) - offset, upper - first})
           str    == clipped(input, offset, len)
           reach  == {j \in 1 .. Len(data_) : first <= data_[j].second}
           i      == IF reach = {} THEN Len(data_) + 1 ELSE Min(reach)
           merged == Merge(data_[i], first, str)
           r      == assemble(input, index).data
           second == IF end < upper THEN end ELSE upper
           x      == Interval(first, str)
           New(p) == next_ <= p /\ index <= p /\ p < end /\ p < upper
<1>1. /\ next_ \in Nat /\ upper \in Nat /\ next_ <= upper /\ upper = Upper
      /\ data_ \in Seq(IntervalType) /\ List(data_, next_ + 1, upper)
  BY Bounds DEF Upper
<1>2. Len(input) = n /\ (index + Len(input)) % SizeMod = end
  <2>1. index <= end /\ n = end - index
    OBVIOUS
  <2>2. Len(input) = n
    BY <2>1, BytesType
  <2>3. end < SizeMod /\ SizeMod \in Nat
    BY StreamAssumption
  <2>4. end % SizeMod = end
    BY SMTT(30), <2>3
  <2> HIDE DEF input
  <2> QED  BY <2>2, <2>4
<1>3. r = IF Len(input) = 0 \/ next_ >= (index + Len(input)) % SizeMod \/ index >= upper
          THEN data_
          ELSE IF reach = {} \/ first + len < data_[i].first
          THEN insert(data_, i, x)
          ELSE Absorb([data_ EXCEPT ![i] = merged.interval], size_ + merged.keep, i).data
  BY Zenon DEF assemble
<1>4. List(data_, next_, upper)
  BY <1>1, ListWidens
<1> HIDE DEF r, input, upper
<1>5. CASE n = 0 \/ next_ >= end \/ index >= upper
  <2>1. r = data_
    BY Zenon, <1>2, <1>3, <1>5
  <2>2. \A p \in Nat : ~New(p)
    <3> TAKE p \in Nat
    <3> QED  BY <1>1, <1>5
  <2>3. Ready(r)
    BY <1>1, <1>4, <2>1 DEF Ready
  <2> QED  BY Zenon, <1>1, <2>1, <2>2, <2>3 DEF r, input
<1>6. CASE ~(n = 0 \/ next_ >= end \/ index >= upper)
  <2>1. n > 0 /\ next_ < end /\ index < upper
    BY <1>1, <1>6
  <2>2. /\ first \in Nat /\ next_ <= first /\ index <= first /\ first < end /\ first <= upper
        /\ first = next_ \/ first = index
    <3>1. first = IF next_ < index THEN index ELSE next_
      BY <1>1, MaxMin
    <3> HIDE DEF first
    <3> QED  BY <1>1, <2>1, <3>1
  <2>3. second \in Nat /\ first <= second /\ second <= end /\ second <= upper
        /\ (second = end \/ second = upper) /\ (first < second \/ upper = next_)
    <3> HIDE DEF first
    <3> QED  BY <1>1, <2>1, <2>2
  <2>4. offset \in Nat /\ index + offset = first /\ len \in Nat /\ first + len = second
    <3> HIDE DEF first
    <3>1. offset \in Nat /\ index + offset = first /\ Len(input) - offset = end - first
      BY <1>2, <2>2
    <3> DEFINE u == Len(input) - offset
               v == upper - first
    <3>2. u \in Int /\ v \in Int /\ u = end - first
      BY <1>1, <2>2, <3>1
    <3> HIDE DEF offset, u
    <3>3. len = IF v < u THEN v ELSE u
      BY Zenon, <3>2, MaxMin DEF u
    <3> HIDE DEF len
    <3> QED  BY <1>1, <2>2, <2>3, <3>1, <3>2, <3>3
  <2>5. str = Bytes(first, second)
    <3> HIDE DEF first, second, offset, len
    <3> QED  BY <2>2, <2>3, <2>4, BytesSubstr, SMTT(30) DEF clipped, input, IsCut
  <2>6. r = IF reach = {} \/ second < data_[i].first
            THEN insert(data_, i, x)
            ELSE Absorb([data_ EXCEPT ![i] = merged.interval], size_ + merged.keep, i).data
    BY Zenon, <1>2, <1>3, <1>6, <2>4
  <2>7. /\ i \in 1 .. Len(data_) + 1
        /\ \A j \in 1 .. i - 1 : data_[j].second < first
        /\ reach # {} => i \in 1 .. Len(data_) /\ first <= data_[i].second
        /\ reach = {} => i = Len(data_) + 1
    <3>1. reach = {j \in 1 .. Len(data_) : first <= data_[j].second}
      OBVIOUS
    <3>2. i = IF reach = {} THEN Len(data_) + 1 ELSE Min(reach)
      OBVIOUS
    <3> HIDE DEF first, reach, i
    <3> QED  BY Zenon, <1>1, <2>2, <3>1, <3>2, FirstReached
  <2> HIDE DEF first, second, offset, len, reach, i
  <2>8. /\ x \in IntervalType /\ x.first = first /\ x.second = second
        /\ x.str = Bytes(first, second)
    BY <2>2, <2>3, <2>5, IntervalIsPiece
  <2> HIDE DEF x
  <2>9. ASSUME NEW p \in Nat PROVE New(p) <=> first <= p /\ p < second
    BY <1>1, <2>2, <2>3
  <2> HIDE DEF New
  <2>10. CASE upper = next_
    <3>1. data_ = <<>>
      <4>1. ASSUME NEW j \in 1 .. Len(data_) PROVE FALSE
        <5>1. /\ data_[j].first \in Nat /\ data_[j].second \in Nat
              /\ data_[j].first < data_[j].second /\ next_ + 1 <= data_[j].first
              /\ data_[j].second <= upper
          BY SMTT(30), <1>1 DEF List, Piece, IntervalType
        <5> QED  BY <1>1, <2>10, <5>1
      <4>2. Len(data_) \in Nat /\ ~(1 \in 1 .. Len(data_))
        BY <1>1, <4>1
      <4> QED  BY <1>1, <4>2
    <3>2. reach = {} /\ i = 1
      BY <2>7, <3>1 DEF reach
    <3>3. first = next_ /\ second = next_
      BY SMTT(30), <1>1, <2>2, <2>3, <2>10
    <3>4. r = <<Interval(next_, <<>>)>>
      <4>1. r = insert(data_, 1, x)
        BY <2>6, <3>2
      <4>2. str = <<>>
        <5>1. str = Bytes(next_, next_) /\ next_ <= next_
          BY <1>1, <2>5, <3>3
        <5>2. Bytes(next_, next_) \in Seq(Nat) /\ Len(Bytes(next_, next_)) = next_ - next_
          BY SMTT(30), <1>1, <5>1, BytesType
        <5>3. Len(Bytes(next_, next_)) = 0
          BY <1>1, <5>2
        <5> QED  BY <5>1, <5>2, <5>3
      <4>3. x = Interval(next_, <<>>)
        BY <3>3, <4>2 DEF x
      <4> QED  BY SMTT(30), <3>1, <4>1, <4>3, InsertIntoEmpty
    <3>5. \A p \in Nat : ~Holds(r, p) /\ ~Holds(data_, p) /\ ~New(p)
      <4> TAKE p \in Nat
      <4>1. ~New(p)
        BY <1>1, <2>9, <3>3
      <4>2. ~Holds(data_, p)
        BY <3>1 DEF Holds
      <4>3. ~Holds(r, p)
        <5> DEFINE e == Interval(next_, <<>>)
        <5>1. e.first = next_ /\ e.second = next_
          BY <1>1 DEF Interval
        <5> HIDE DEF e
        <5>2. ~(e.first <= p /\ p < e.second)
          BY <1>1, <5>1
        <5>3. Len(r) = 1 /\ r[1] = e
          BY <3>4 DEF e
        <5> QED  BY <5>2, <5>3 DEF Holds
      <4> QED  BY <4>1, <4>2, <4>3
    <3>6. Ready(r)
      BY SMTT(30), <1>1, <2>10, <3>1, <3>4 DEF Ready
    <3> QED  BY <1>1, <3>5, <3>6 DEF r, input, New
  <2>11. CASE upper # next_
    <3>1. Piece(x) /\ next_ <= x.first /\ x.second <= upper
      BY <2>2, <2>3, <2>8, <2>11 DEF Piece
    <3> DEFINE d == data_
               In(it, p) == it.first <= p /\ p < it.second
    <3>2. CASE reach = {} \/ second < d[i].first
      <4>1. r = insert(d, i, x)
        BY <2>6, <3>2
      <4>2. Behind(d, i, x)
        BY <2>7, <2>8 DEF Behind
      <4>3. ASSUME NEW j \in i .. Len(d) PROVE x.second < d[j].first
        <5>1. reach # {} /\ i \in 1 .. Len(d) /\ j \in 1 .. Len(d)
          BY <1>1, <2>7
        <5>2. second < d[i].first
          BY <3>2, <5>1
        <5>3. /\ d[i].first \in Nat /\ d[i].second \in Nat /\ d[j].first \in Nat
              /\ d[i].first < d[i].second /\ (i < j => d[i].second < d[j].first)
          BY Zenon, <1>1, <5>1 DEF List, Piece, IntervalType
        <5>4. i < j \/ i = j
          BY <5>1
        <5> QED  BY <2>3, <2>8, <5>2, <5>3, <5>4
      <4>4. /\ List(r, next_, upper)
            /\ \A p \in Nat : Holds(r, p) <=> Holds(d, p) \/ (x.first <= p /\ p < x.second)
        BY SMTT(30), <1>1, <1>4, <2>7, <3>1, <4>1, <4>2, <4>3, InsertKeeps
      <4>5. ASSUME NEW p \in Nat PROVE Holds(r, p) <=> Holds(d, p) \/ New(p)
        BY SMTT(30), <2>8, <2>9, <4>4
      <4> QED  BY <1>1, <4>4, <4>5 DEF Ready, r, input, New
    <3>3. CASE ~(reach = {} \/ second < d[i].first)
      <4> DEFINE y == merged.interval
                 it == d[i]
      <4>1. i \in 1 .. Len(d) /\ first <= it.second /\ Piece(it)
        BY <1>1, <2>7, <3>3 DEF List
      <4>2. it.first \in Nat /\ it.second \in Nat /\ it.first < it.second
        BY <4>1 DEF Piece, IntervalType
      <4>3. it.first <= second
        BY SMTT(30), <2>3, <3>3, <4>2
      <4>4. /\ Piece(y)
            /\ y.first = IF it.first <= first THEN it.first ELSE first
            /\ y.second = IF second <= it.second THEN it.second ELSE second
        BY <2>2, <2>3, <2>5, <4>1, <4>3, MergeCovers
      <4> HIDE DEF merged, it, y
      <4>5. /\ y.first \in Nat /\ y.second \in Nat /\ next_ <= y.first /\ y.second <= upper
            /\ y.first <= it.first /\ it.second <= y.second
        <5>1. next_ <= it.first /\ it.second <= upper
          BY <1>4, <4>1 DEF List, it
        <5> QED  BY SMTT(30), <1>1, <2>2, <2>3, <4>2, <4>4, <5>1
      <4>6. Behind(d, i, y)
        <5>1. ASSUME NEW j \in 1 .. i - 1 PROVE d[j].second < y.first
          <6>1. d[j].second < first
            BY <2>7
          <6>2. j \in 1 .. Len(d) /\ j < i
            BY <1>1, <4>1
          <6>3. d[j].second < it.first
            BY <1>1, <4>1, <6>2 DEF List, it
          <6> QED  BY <4>4, <6>1, <6>3
        <5> QED  BY <5>1 DEF Behind
      <4>7. r = Absorb([d EXCEPT ![i] = y], size_ + merged.keep, i).data
        BY <2>6, <3>3 DEF y
      <4>8. /\ List(r, next_, upper)
            /\ \A p \in Nat : Holds(r, p) <=> Holds(d, p) \/ (y.first <= p /\ p < y.second)
        <5> DEFINE sz == size_ + merged.keep
                   q == Absorb([d EXCEPT ![i] = y], sz, i).data
        <5>1. /\ next_ \in Nat /\ upper \in Nat /\ List(d, next_, upper) /\ i \in 1 .. Len(d)
              /\ Piece(y) /\ next_ <= y.first /\ y.second <= upper
              /\ y.first <= d[i].first /\ d[i].second <= y.second /\ Behind(d, i, y)
          BY <1>1, <1>4, <4>1, <4>4, <4>5, <4>6 DEF it
        <5>2. r = q
          BY <4>7
        <5> HIDE DEF sz, d
        <5>3. /\ List(q, next_, upper)
              /\ \A p \in Nat : Holds(q, p) <=> Holds(d, p) \/ (y.first <= p /\ p < y.second)
          BY Zenon, <5>1, AbsorbKeeps
        <5> QED  BY Zenon, <5>2, <5>3
      <4>9. ASSUME NEW p \in Nat PROVE Holds(r, p) <=> Holds(d, p) \/ New(p)
        <5>1. it.first <= p /\ p < it.second => Holds(d, p)
          BY <4>1 DEF Holds, it
        <5>2. y.first <= p /\ p < y.second <=>
                (it.first <= p /\ p < it.second) \/ (first <= p /\ p < second)
          BY <2>2, <2>3, <4>1, <4>2, <4>3, <4>4
        <5> QED  BY <2>9, <4>8, <5>1, <5>2
      <4> QED  BY SMTT(30), <1>1, <4>8, <4>9 DEF Ready, r, input, New
    <3> QED  BY <3>2, <3>3
  <2> QED  BY <2>10, <2>11
<1> QED  BY <1>5, <1>6

-----------------------------------------------------------------------------
(* Without its front interval a list begins beyond where that one ended.   *)
LEMMA TailKeeps ==
  ASSUME NEW lo \in Nat, NEW hi \in Nat, NEW d, List(d, lo, hi), d # <<>>
  PROVE  /\ Head(d) = d[1] /\ Piece(d[1]) /\ lo <= d[1].first /\ d[1].second <= hi
         /\ List(Tail(d), d[1].second + 1, hi)
         /\ \A p \in Nat : Holds(d, p) <=> (d[1].first <= p /\ p < d[1].second) \/ Holds(Tail(d), p)
<1> DEFINE l == Len(d)
           t == Tail(d)
           In(it, p) == it.first <= p /\ p < it.second
<1>1. d \in Seq(IntervalType)
  BY DEF List
<1>2. /\ l \in Nat /\ l > 0 /\ Head(d) = d[1] /\ t \in Seq(IntervalType) /\ Len(t) = l - 1
      /\ \A k \in 1 .. l - 1 : t[k] = d[k + 1]
  BY <1>1
<1>3. Piece(d[1]) /\ lo <= d[1].first /\ d[1].second <= hi /\ d[1].second \in Nat
  <2>1. 1 \in 1 .. l
    BY <1>2
  <2> QED  BY <2>1 DEF List, Piece, IntervalType
<1> HIDE DEF t
<1>4. List(t, d[1].second + 1, hi)
  <2>1. ASSUME NEW k \in 1 .. l - 1
        PROVE  Piece(t[k]) /\ d[1].second + 1 <= t[k].first /\ t[k].second <= hi
    <3>1. k + 1 \in 1 .. l /\ 1 \in 1 .. l /\ 1 < k + 1 /\ t[k] = d[k + 1]
      BY <1>2
    <3>2. Piece(d[k + 1]) /\ d[1].second < d[k + 1].first /\ d[k + 1].second <= hi
      BY <3>1 DEF List
    <3>3. d[k + 1].first \in Nat
      BY <3>2 DEF Piece, IntervalType
    <3> DEFINE u == d[k + 1].first
               v == d[1].second
    <3>4. u \in Nat /\ v \in Nat /\ v < u
      BY <1>3, <3>2, <3>3
    <3> HIDE DEF u, v
    <3>5. v + 1 <= u
      BY <3>4
    <3> QED  BY <3>1, <3>2, <3>5 DEF u, v
  <2>2. ASSUME NEW j \in 1 .. l - 1, NEW k \in 1 .. l - 1, j < k PROVE t[j].second < t[k].first
    <3>1. /\ j + 1 \in 1 .. l /\ k + 1 \in 1 .. l /\ j + 1 < k + 1
          /\ t[j] = d[j + 1] /\ t[k] = d[k + 1]
      BY <1>2, <2>2
    <3> QED  BY <3>1 DEF List
  <2> QED  BY <1>2, <2>1, <2>2 DEF List
<1>5. ASSUME NEW p \in Nat PROVE Holds(d, p) <=> In(d[1], p) \/ Holds(t, p)
  <2>1. Holds(d, p) <=> \E k \in 1 .. l : In(d[k], p)
    BY DEF Holds
  <2>2. Holds(t, p) <=> \E k \in 1 .. l - 1 : In(d[k + 1], p)
    BY SMTT(30), <1>2 DEF Holds
  <2> HIDE DEF In
  <2>3. ASSUME NEW k \in 1 .. l, In(d[k], p)
        PROVE  In(d[1], p) \/ \E j \in 1 .. l - 1 : In(d[j + 1], p)
    <3>1. CASE k = 1
      BY <2>3, <3>1
    <3>2. CASE k # 1
      <4>1. k - 1 \in 1 .. l - 1 /\ (k - 1) + 1 = k
        BY <1>2, <3>2
      <4> QED  BY Zenon, <2>3, <4>1
    <3> QED  BY <3>1, <3>2
  <2>4. \A k \in 1 .. l - 1 : k + 1 \in 1 .. l
    BY <1>2
  <2>5. 1 \in 1 .. l
    BY <1>2
  <2> QED  BY <2>1, <2>2, <2>3, <2>4, <2>5
<1>6. \A p \in Nat : Holds(d, p) <=> (d[1].first <= p /\ p < d[1].second) \/ Holds(t, p)
  BY <1>5
<1> QED  BY <1>2, <1>3, <1>4, <1>6 DEF t

(* A list between lo and hi holds no index outside of them.                *)
LEMMA HoldsInside ==
  ASSUME NEW lo \in Nat, NEW hi \in Nat, NEW d, List(d, lo, hi), NEW p \in Nat, Holds(d, p)
  PROVE  lo <= p /\ p < hi
<1>1. PICK k \in 1 .. Len(d) : d[k].first <= p /\ p < d[k].second
  BY DEF Holds
<1> DEFINE u == d[k].first
           v == d[k].second
<1>2. u \in Nat /\ v \in Nat /\ lo <= u /\ v <= hi /\ u <= p /\ p < v
  BY SMTT(30), <1>1 DEF List, Piece, IntervalType
<1> HIDE DEF u, v
<1> QED  BY <1>2

(* What output() has to leave behind: the stored bytes from next_ on, as far *)
(* as there is no gap, are in the stream, none twice, and next is the index *)
(* behind them.                                                            *)
Delivered(d, o) ==
  /\ o.next \in Nat /\ next_ <= o.next /\ o.next <= Upper
  /\ o.stream \in ByteStream(RECV_CAPACITY) /\ Same(output_, o.stream)
  /\ o.stream.total_write = o.next /\ o.next = o.stream.total_read + o.stream.size
  /\ Contents(o.stream) = Bytes(o.stream.total_read, o.next)
  /\ o.next + (RECV_CAPACITY - o.stream.size) = Upper
  /\ List(o.data, o.next + 1, Upper)
  /\ \A p \in Nat : Holds(o.data, p) <=> Holds(d, p) /\ o.next <= p
  /\ \A p \in Nat : next_ <= p /\ p < o.next => Holds(d, p)
  /\ ~Holds(d, o.next)

(* The front interval begins beyond next_: nothing moves.                  *)
LEMMA NothingMoves ==
  ASSUME ReassemblerInv, NEW d, List(d, next_, Upper), d = <<>> \/ next_ # Head(d).first,
         NEW o, o.data = d, o.next = next_, o.stream = output_
  PROVE  Delivered(d, o)
<1>1. /\ next_ \in Nat /\ Upper \in Nat /\ next_ <= Upper /\ output_ \in ByteStream(RECV_CAPACITY)
      /\ output_.total_write = next_ /\ next_ = output_.total_read + output_.size
      /\ Contents(output_) = Bytes(output_.total_read, next_)
  BY Bounds DEF ReassemblerInv
<1>2. List(d, next_ + 1, Upper)
  <2>1. ASSUME NEW i \in 1 .. Len(d) PROVE next_ + 1 <= d[i].first
    <3>1. d \in Seq(IntervalType) /\ d # <<>> /\ 1 \in 1 .. Len(d)
      <4>1. d \in Seq(IntervalType)
        BY DEF List
      <4> QED  BY <4>1
    <3>2. Head(d) = d[1]
      BY <3>1
    <3> DEFINE u == d[1].first
               v == d[1].second
               w == d[i].first
    <3>3. /\ u \in Nat /\ v \in Nat /\ w \in Nat /\ next_ <= u /\ u < v /\ (1 < i => v < w)
      BY <3>1 DEF List, Piece, IntervalType
    <3>4. next_ # u /\ (i = 1 => w = u) /\ (i = 1 \/ 1 < i)
      BY <3>1, <3>2
    <3> HIDE DEF u, v, w
    <3>5. next_ + 1 <= w
      BY <1>1, <3>3, <3>4
    <3> QED  BY <3>5 DEF w
  <2> QED  BY <2>1 DEF List
<1>3. ASSUME NEW p \in Nat, Holds(d, p) PROVE next_ + 1 <= p
  BY <1>1, <1>2, <1>3, HoldsInside
<1>4. \A p \in Nat : Holds(d, p) <=> Holds(d, p) /\ next_ <= p
  BY <1>1, <1>3
<1>5. \A p \in Nat : next_ <= p /\ p < next_ => Holds(d, p)
  BY <1>1
<1>6. ~Holds(d, next_)
  BY <1>1, <1>3
<1>7. next_ + (RECV_CAPACITY - output_.size) = Upper /\ Same(output_, output_)
  BY SMTT(30) DEF Upper, Same
<1> QED  BY <1>1, <1>2, <1>4, <1>5, <1>6, <1>7 DEF Delivered

(* The front interval begins at next_ and fits into the stream.            *)
LEMMA FrontMoves ==
  ASSUME ReassemblerInv, NEW d, NEW s \in Nat, next_ <= s, s <= Upper,
         NEW o, o.next = s, o.stream = write(output_, Bytes(next_, s)),
         List(o.data, s + 1, Upper),
         \A p \in Nat : Holds(d, p) <=> (next_ <= p /\ p < s) \/ Holds(o.data, p)
  PROVE  Delivered(d, o)
<1> DEFINE C == RECV_CAPACITY
           data == Bytes(next_, s)
           n == min(Len(data), remaining_capacity(output_))
           t == write(output_, data)
           size == output_.size
           gone == output_.total_read
<1>1. /\ next_ \in Nat /\ Upper \in Nat /\ next_ <= Upper /\ output_ \in ByteStream(C)
      /\ output_.total_write = next_ /\ next_ = gone + size
      /\ Contents(output_) = Bytes(gone, next_) /\ C \in Nat /\ C > 0
  BY Bounds DEF ReassemblerInv
<1>2. size \in Nat /\ gone \in Nat /\ output_.capacity = C /\ Upper = next_ + (C - size)
  BY <1>1, Fields DEF Upper
<1>3. data \in Seq(Nat) /\ Len(data) = s - next_
  BY Zenon, <1>1, BytesType
<1>4. n = s - next_
  <2> HIDE DEF data, size
  <2>1. s - next_ <= C - size
    BY <1>1, <1>2
  <2>2. remaining_capacity(output_) = C - size
    BY SMTT(30), <1>2 DEF remaining_capacity, size
  <2> QED  BY <1>1, <1>2, <1>3, <2>1, <2>2, SMTT(30) DEF min
<1>5. /\ t \in ByteStream(C) /\ t.size = size + n /\ t.total_write = output_.total_write + n
      /\ Same(output_, t) /\ Contents(t) = Contents(output_) \o SubSeq(data, 1, n)
  BY Zenon, <1>1, <1>3, WriteAppends
<1>6. SubSeq(data, 1, n) = data
  <2> HIDE DEF data, n
  <2> QED  BY <1>3, <1>4
<1>7. Contents(t) = Bytes(gone, s)
  <2>1. gone \in Nat /\ gone <= next_ /\ next_ <= s
    BY <1>1, <1>2
  <2> HIDE DEF t, gone
  <2>2. Bytes(gone, next_) \o Bytes(next_, s) = Bytes(gone, s)
    BY Zenon, <1>1, <2>1, BytesConcat
  <2> QED  BY Zenon, <1>1, <1>5, <1>6, <2>2
<1>8. o.stream = t /\ t.total_read = gone
  BY <1>5 DEF Same
<1> HIDE DEF t, n, data, size, gone
<1>9. /\ t.total_write = s /\ s = gone + t.size /\ s + (C - t.size) = Upper
  <2> DEFINE z == t.size
             w == t.total_write
  <2>1. /\ z = size + n /\ w = next_ + n /\ n = s - next_ /\ next_ = gone + size
        /\ Upper = next_ + (C - size)
    BY SMTT(30), <1>1, <1>2, <1>4, <1>5
  <2> HIDE DEF z, w
  <2>2. w = s /\ s = gone + z /\ s + (C - z) = Upper
    BY <1>1, <1>2, <2>1
  <2> QED  BY <2>2 DEF z, w
<1>10. ASSUME NEW p \in Nat, Holds(o.data, p) PROVE s + 1 <= p
  BY <1>1, <1>10, HoldsInside
<1>11. /\ \A p \in Nat : Holds(o.data, p) <=> Holds(d, p) /\ s <= p
       /\ \A p \in Nat : next_ <= p /\ p < s => Holds(d, p)
       /\ ~Holds(d, s)
  BY <1>1, <1>10
<1> QED  BY <1>1, <1>5, <1>7, <1>8, <1>9, <1>11 DEF Delivered

(* output() moves the front interval if it begins at next_, also an empty   *)
(* one, and else nothing.                                                  *)
LEMMA OutputMoves ==
  ASSUME ReassemblerInv, NEW a, Ready(a.data)
  PROVE  Delivered(a.data, output(a))
<1> DEFINE d == a.data
           front == Head(d)
           o == output(a)
<1>1. next_ \in Nat /\ Upper \in Nat /\ next_ <= Upper
  BY Bounds
<1>2. CASE d = <<>> \/ next_ # front.first
  <2>1. o.data = d /\ o.next = next_ /\ o.stream = output_
    BY <1>2 DEF output
  <2>2. List(d, next_, Upper)
    <3>1. ASSUME d = <<Interval(next_, <<>>)>> PROVE FALSE
      <4>1. d # <<>> /\ front = Interval(next_, <<>>)
        BY <3>1
      <4> QED  BY <1>2, <4>1 DEF Interval
    <3> QED  BY <3>1 DEF Ready
  <2> HIDE DEF d, o
  <2>3. Delivered(d, o)
    BY SMTT(30), <1>2, <2>1, <2>2, NothingMoves
  <2> QED  BY <2>3 DEF d, o
<1>3. CASE ~(d = <<>> \/ next_ # front.first)
  <2> DEFINE s == front.second
  <2>1. o.data = Tail(d) /\ o.next = s /\ o.stream = write(output_, front.str)
    BY <1>3 DEF output
  <2>2. d # <<>> /\ next_ = front.first
    BY SMTT(30), <1>3
  <2>3. /\ s \in Nat /\ next_ <= s /\ s <= Upper /\ front.str = Bytes(next_, s)
        /\ List(Tail(d), s + 1, Upper)
        /\ \A p \in Nat : Holds(d, p) <=> (next_ <= p /\ p < s) \/ Holds(Tail(d), p)
    <3>1. CASE List(d, next_, Upper)
      <4>1. /\ front = d[1] /\ Piece(d[1]) /\ d[1].second <= Upper
            /\ List(Tail(d), d[1].second + 1, Upper)
            /\ \A p \in Nat : Holds(d, p) <=>
                 (d[1].first <= p /\ p < d[1].second) \/ Holds(Tail(d), p)
        <5> HIDE DEF d
        <5> QED  BY <1>1, <2>2, <3>1, TailKeeps DEF front
      <4> HIDE DEF d, front
      <4>2. s \in Nat /\ next_ <= s /\ front.str = Bytes(next_, s)
        BY <1>1, <2>2, <4>1 DEF Piece, IntervalType
      <4> QED  BY <2>2, <4>1, <4>2
    <3>2. CASE Upper = next_ /\ d = <<Interval(next_, <<>>)>>
      <4>1. front = Interval(next_, <<>>) /\ Tail(d) = <<>> /\ Len(d) = 1 /\ d[1] = front
        BY <3>2
      <4> HIDE DEF d, front
      <4>2. s = next_ /\ front.str = <<>>
        BY <1>1, <4>1 DEF Interval
      <4>3. Bytes(next_, next_) = <<>>
        <5>1. next_ <= next_
          BY <1>1
        <5>2. Bytes(next_, next_) \in Seq(Nat) /\ Len(Bytes(next_, next_)) = next_ - next_
          BY <1>1, <5>1, BytesType
        <5>3. Len(Bytes(next_, next_)) = 0
          BY <1>1, <5>2
        <5> QED  BY <5>2, <5>3
      <4>4. List(<<>>, next_ + 1, Upper)
        BY DEF List
      <4>5. ASSUME NEW p \in Nat
            PROVE  Holds(d, p) <=> (next_ <= p /\ p < next_) \/ Holds(<<>>, p)
        <5>1. ~Holds(<<>>, p)
          BY DEF Holds
        <5>2. Holds(d, p) <=> next_ <= p /\ p < next_
          BY <2>2, <4>1, <4>2 DEF Holds
        <5> QED  BY <5>1, <5>2
      <4> QED  BY SMTT(30), <1>1, <3>2, <4>1, <4>2, <4>3, <4>4, <4>5
    <3> QED  BY <3>1, <3>2 DEF Ready
  <2> HIDE DEF d, o, s, front
  <2>4. Delivered(d, o)
    <3>1. /\ o.stream = write(output_, Bytes(next_, s)) /\ List(o.data, s + 1, Upper)
          /\ \A p \in Nat : Holds(d, p) <=> (next_ <= p /\ p < s) \/ Holds(o.data, p)
      BY <2>1, <2>3
    <3> QED  BY <2>1, <2>3, <3>1, FrontMoves, Zenon
  <2> QED  BY <2>4 DEF d, o
<1> QED  BY <1>2, <1>3
=============================================================================
