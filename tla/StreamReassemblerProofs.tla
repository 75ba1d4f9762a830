---------------------- MODULE StreamReassemblerProofs -----------------------
(***************************************************************************)
(* Proofs about StreamReassembler for every capacity and stream length:    *)
(* its inductive invariant, that the application reads the stream in       *)
(* order, and that it implements BoundedFifo and Reassembler.              *)
(***************************************************************************)
EXTENDS StreamReassemblerListProofs

-----------------------------------------------------------------------------
(* The stream after push_substring is the one output() left, ended or not.  *)
SameBytes(s, t) ==
  /\ t \in ByteStream(RECV_CAPACITY) /\ t.size = s.size /\ t.total_read = s.total_read
  /\ t.total_write = s.total_write /\ t.error = s.error /\ Contents(t) = Contents(s)

(* push_substring: assemble, output and check_end_input, in this order.    *)
LEMMA PushStep ==
  ASSUME ReassemblerInv, NEW index \in Nat, NEW len \in Nat, NEW eof \in BOOLEAN,
         Push(index, len, eof)
  PROVE  LET end == index + len
             a   == assemble(Bytes(index, end), index)
             o   == output(a)
             num == IF eof THEN end ELSE eof_num_
         IN  /\ \A p \in Nat : Holds(a.data, p) <=>
                  Holds(data_, p) \/ (next_ <= p /\ index <= p /\ p < end /\ p < Upper)
             /\ Delivered(a.data, o)
             /\ data_' = o.data /\ next_' = o.next /\ SameBytes(o.stream, output_')
             /\ output_'.eof_input = (output_.eof_input \/ at_end(eof_ \/ eof, num, o.next))
             /\ eof_' = (eof_ \/ eof) /\ eof_num_' = num /\ io' = <<>>
<1> DEFINE end == index + len
           input == Bytes(index, end)
           a == assemble(input, index)
           o == output(a)
           num == IF eof THEN end ELSE eof_num_
           ends == at_end(eof_ \/ eof, num, o.next)
<1>1. end \in Nat /\ end <= StreamLen /\ index <= end /\ end - index = len
  BY DEF Push
<1>2. [k \in 1 .. len |-> index + k - 1] = input
  BY <1>1 DEF Bytes
<1>3. (index + Len(input)) % SizeMod = end
  <2>1. Len(input) = len
    <3> HIDE DEF end
    <3> QED  BY <1>1, BytesType
  <2>2. end < SizeMod /\ SizeMod \in Nat
    BY <1>1, StreamAssumption
  <2> HIDE DEF input
  <2> QED  BY <1>1, <2>1, <2>2
<1>4. /\ Ready(a.data)
      /\ \A p \in Nat : Holds(a.data, p) <=>
           Holds(data_, p) \/ (next_ <= p /\ index <= p /\ p < end /\ p < Upper)
  <2>1. end = index + len
    OBVIOUS
  <2> HIDE DEF end
  <2> QED  BY <1>1, <2>1, AssembleKeeps
<1>5. Delivered(a.data, o)
  <2> HIDE DEF a
  <2> QED  BY <1>4, OutputMoves
<1>6. /\ data_' = o.data /\ next_' = o.next /\ eof_' = (eof_ \/ eof) /\ eof_num_' = num
      /\ output_' = (IF ends THEN end_input(o.stream) ELSE o.stream) /\ io' = <<>>
  <2>1. push_substring(input, index, eof)
    BY <1>2 DEF Push
  <2> HIDE DEF input, end
  <2> QED  BY <1>3, <2>1, Zenon DEF push_substring
<1> HIDE DEF ends, o, num, a
<1>7. /\ RECV_CAPACITY \in Nat /\ RECV_CAPACITY > 0
      /\ o.stream \in ByteStream(RECV_CAPACITY) /\ Same(output_, o.stream)
  BY <1>5, Bounds DEF Delivered
<1>8. SameBytes(o.stream, output_') /\ output_'.eof_input = (output_.eof_input \/ ends)
  <2> DEFINE s == o.stream
             t == end_input(s)
  <2>1. /\ t \in ByteStream(RECV_CAPACITY) /\ t.eof_input /\ t.error = s.error
        /\ t.size = s.size /\ t.total_read = s.total_read
        /\ t.total_write = s.total_write /\ Contents(t) = Contents(s)
    <3>1. s \in ByteStream(RECV_CAPACITY)
      BY <1>7
    <3> HIDE DEF s
    <3> QED  BY <1>7, <3>1, EndKeepsBytes
  <2>2. s \in ByteStream(RECV_CAPACITY) /\ s.eof_input = output_.eof_input
    BY <1>7 DEF Same
  <2>3. t.eof_input \in BOOLEAN /\ output_.eof_input \in BOOLEAN
    BY <1>7, <2>1, <2>2, Fields, Bounds
  <2>4. ends => output_' = t
    BY <1>6, Zenon
  <2>5. ~ends => output_' = s
    BY <1>6, Zenon
  <2> HIDE DEF s, t
  <2>6. CASE ends
    <3>1. output_' = t
      BY <2>4, <2>6
    <3>2. SameBytes(s, t) /\ t.eof_input = (output_.eof_input \/ ends)
      BY <2>1, <2>3, <2>6, Zenon DEF SameBytes
    <3> QED  BY <3>1, <3>2 DEF s
  <2>7. CASE ~ends
    <3>1. output_' = s
      BY <2>5, <2>7
    <3>2. SameBytes(s, s) /\ s.eof_input = (output_.eof_input \/ ends)
      BY <2>2, <2>3, <2>7, Zenon DEF SameBytes
    <3> QED  BY <3>1, <3>2 DEF s
  <2> QED  BY <2>6, <2>7
<1> QED  BY <1>4, <1>5, <1>6, <1>8, Zenon DEF ends, o, num, a

(* The list stays in order and the stream's bytes stay those of a prefix.  *)
LEMMA PushInv ==
  ASSUME ReassemblerInv, NEW index \in Nat, NEW len \in Nat, NEW eof \in BOOLEAN,
         Push(index, len, eof)
  PROVE  ReassemblerInv'
<1> DEFINE end == index + len
           a == assemble(Bytes(index, end), index)
           o == output(a)
           num == IF eof THEN end ELSE eof_num_
<1>1. /\ Delivered(a.data, o) /\ data_' = o.data /\ next_' = o.next
      /\ SameBytes(o.stream, output_') /\ eof_' = (eof_ \/ eof) /\ eof_num_' = num
  BY PushStep, Zenon
<1>2. eof_' \in BOOLEAN
  BY <1>1, Zenon
<1>3. eof_num_' \in Nat
  BY <1>1 DEF ReassemblerInv
<1> HIDE DEF o, a, num
<1>4. /\ next_' \in Nat /\ output_' \in ByteStream(RECV_CAPACITY)
      /\ output_'.total_write = next_' /\ next_' = output_'.total_read + output_'.size
      /\ Contents(output_') = Bytes(output_'.total_read, next_')
  BY <1>1 DEF Delivered, SameBytes
<1>5. Upper' = Upper
  BY <1>1 DEF Delivered, SameBytes, Upper
<1>6. List(data_', next_' + 1, Upper)
  BY <1>1 DEF Delivered
<1>7. List(data_, next_ + 1, Upper)' /\ Contents(output_)' = Bytes(output_.total_read, next_)'
  BY SMTT(30), <1>4, <1>5, <1>6 DEF List, Piece, Bytes, Contents
<1> QED  BY <1>2, <1>3, <1>4, <1>7 DEF ReassemblerInv

(* Taking n bytes out leaves the later ones, and room for n more.          *)
LEMMA PopInv ==
  ASSUME ReassemblerInv, NEW n \in 0 .. output_.size, output_' = pop_output(output_, n),
         UNCHANGED <<data_, next_, eof_num_, eof_>>
  PROVE  ReassemblerInv'
<1> DEFINE C == RECV_CAPACITY
           t == pop_output(output_, n)
           size == output_.size
           gone == output_.total_read
<1>1. /\ next_ \in Nat /\ output_ \in ByteStream(C)
      /\ output_.total_write = next_ /\ next_ = gone + size
      /\ Contents(output_) = Bytes(gone, next_) /\ C \in Nat /\ C > 0
      /\ Upper \in Nat /\ List(data_, next_ + 1, Upper)
  BY Bounds DEF ReassemblerInv
<1>2. size \in Nat /\ gone \in Nat /\ n \in Nat /\ n <= size
  BY <1>1, Fields
<1>3. /\ t \in ByteStream(C) /\ t.size = size - n /\ t.total_read = gone + n
      /\ t.total_write = next_ /\ Contents(t) = SubSeq(Contents(output_), n + 1, size)
  BY <1>1, PopDrops
<1> HIDE DEF t, size, gone
<1>4. Contents(t) = Bytes(gone + n, next_)
  <2> DEFINE m == size - n
             c == gone + n
  <2>1. /\ m \in Nat /\ c \in Nat /\ gone <= c /\ c <= next_ /\ next_ <= next_
        /\ gone + n = c /\ c + m = next_ /\ n + m = size
    BY <1>1, <1>2
  <2> HIDE DEF m, c
  <2>2. substr(Bytes(gone, next_), n, m) = Bytes(c, next_)
    <3>1. /\ gone \in Nat /\ next_ \in Nat /\ c \in Nat /\ n \in Nat /\ m \in Nat
          /\ gone <= c /\ c <= next_ /\ next_ <= next_ /\ gone + n = c /\ c + m = next_
      BY <1>1, <1>2, <2>1, Zenon
    <3>2. IsCut(gone, next_, n, m, c, next_)
      BY Zenon, <3>1, BytesSubstr
    <3> QED  BY Zenon, <3>2 DEF IsCut
  <2> QED  BY SMTT(30), <1>1, <1>3, <2>1, <2>2 DEF substr
<1>5. Upper' \in Nat /\ Upper <= Upper'
  <2>1. Upper' = next_ + (C - t.size) /\ Upper = next_ + (C - size) /\ t.size = size - n
    BY <1>3 DEF Upper, t, size
  <2>2. size <= C
    BY <1>1, Fields DEF size
  <2> QED  BY <1>1, <1>2, <2>1, <2>2
<1>6. List(data_, next_ + 1, Upper')
  <2>1. ASSUME NEW i \in 1 .. Len(data_) PROVE data_[i].second <= Upper'
    <3> DEFINE u == data_[i].second
    <3>1. u \in Nat /\ u <= Upper
      BY Zenon, <1>1 DEF List, Piece, IntervalType
    <3> HIDE DEF u
    <3>2. u <= Upper'
      BY <1>1, <1>5, <3>1
    <3> QED  BY <3>2 DEF u
  <2> QED  BY <1>1, <2>1 DEF List
<1>7. output_' = t /\ next_' = next_ /\ data_' = data_ /\ eof_' = eof_ /\ eof_num_' = eof_num_
  BY DEF t
<1>8. t.total_write = next_ /\ next_ = t.total_read + t.size
      /\ Contents(t) = Bytes(t.total_read, next_)
  BY <1>1, <1>2, <1>3, <1>4
<1>9. eof_ \in BOOLEAN /\ eof_num_ \in Nat
  BY DEF ReassemblerInv
<1> QED  BY <1>1, <1>3, <1>6, <1>7, <1>8, <1>9 DEF ReassemblerInv, List, Piece, Bytes, Contents

(* Nothing that the invariant is about changes.                            *)
LEMMA SameInv ==
  ASSUME ReassemblerInv, UNCHANGED <<data_, next_, eof_num_, eof_, output_>>
  PROVE  ReassemblerInv'
BY DEF ReassemblerInv, List, Piece, Bytes, Contents, Upper

(* The buffer starts empty.                                                *)
LEMMA InitInv ==
  ASSUME Init
  PROVE  ReassemblerInv
<1>1. RECV_CAPACITY \in Nat /\ RECV_CAPACITY > 0
  BY StreamAssumption
<1> DEFINE s == NewByteStream(RECV_CAPACITY)
<1>2. /\ s \in ByteStream(RECV_CAPACITY) /\ s.size = 0 /\ Contents(s) = <<>>
      /\ s.total_read = 0 /\ s.total_write = 0
  BY <1>1, NewIsEmpty
<1>3. output_ = s /\ next_ = 0 /\ data_ = <<>> /\ eof_num_ = 0
  BY DEF Init
<1>4. eof_ \in BOOLEAN
  BY Zenon DEF Init
<1> HIDE DEF s
<1>5. Bytes(0, 0) = <<>>
  BY DEF Bytes
<1>6. List(<<>>, 1, Upper)
  BY DEF List
<1> QED  BY <1>2, <1>3, <1>4, <1>5, <1>6 DEF ReassemblerInv

-----------------------------------------------------------------------------
(* Every step keeps the invariant.                                         *)
LEMMA NextInv ==
  ASSUME ReassemblerInv, [Next]_vars
  PROVE  ReassemblerInv'
<1>1. ASSUME NEW index \in 0 .. StreamLen, NEW len \in 0 .. StreamLen, NEW eof \in BOOLEAN,
             Push(index, len, eof)
      PROVE  ReassemblerInv'
  <2>1. index \in Nat /\ len \in Nat
    BY StreamAssumption
  <2> QED  BY <1>1, <2>1, PushInv
<1>2. ASSUME NEW n \in 1 .. output_.size, Peek(n) \/ Pop(n) \/ read(n)
      PROVE  ReassemblerInv'
  <2>1. n \in 0 .. output_.size
    BY Bounds, Fields
  <2>2. CASE Peek(n)
    BY <2>2, SameInv DEF Peek
  <2>3. CASE Pop(n) \/ read(n)
    BY <2>1, <2>3, PopInv DEF Pop, read
  <2> QED  BY <1>2, <2>2, <2>3
<1>3. CASE UNCHANGED vars
  BY <1>3, SameInv DEF vars
<1> QED  BY <1>1, <1>2, <1>3 DEF Next

(* The stored intervals are ordered pieces of the stream beyond next_, and   *)
(* the bytes to read are those before it: however push_substring is called  *)
(* with substrings of one stream and however the application reads.        *)
THEOREM ReassemblerInvariance == Spec => []ReassemblerInv
<1>1. Init => ReassemblerInv
  BY InitInv
<1>2. ReassemblerInv /\ [Next]_vars => ReassemblerInv'
  BY NextInv
<1> QED  BY <1>1, <1>2, PTL DEF Spec

(* The application reads the stream as it was sent: in order, without a gap *)
(* and without repetition, whatever arrives; output_.write drops nothing.   *)
THEOREM OutputCorrect == Spec => []OutputIsPrefix
<1>1. ReassemblerInv => OutputIsPrefix
  BY DEF ReassemblerInv, OutputIsPrefix, Bytes
<1> QED  BY <1>1, ReassemblerInvariance, PTL

(* The list is sorted, its intervals neither overlap nor touch and lie      *)
(* beyond next_: looking at the front once is enough for output().         *)
THEOREM ListCorrect == Spec => []ListNormalised
<1>1. ASSUME ReassemblerInv PROVE ListNormalised
  <2>1. next_ \in Nat /\ data_ \in Seq(IntervalType) /\ List(data_, next_ + 1, Upper)
    BY <1>1, Bounds
  <2>2. ASSUME NEW i \in 1 .. Len(data_)
        PROVE  /\ data_[i].first < data_[i].second
               /\ Len(data_[i].str) = data_[i].second - data_[i].first
               /\ data_[i].first > next_
    <3> DEFINE u == data_[i].first
               v == data_[i].second
    <3>1. /\ u \in Nat /\ v \in Nat /\ u < v /\ next_ + 1 <= u /\ data_[i].str = Bytes(u, v)
      BY SMTT(30), <2>1 DEF List, Piece, IntervalType
    <3> HIDE DEF u, v
    <3>2. u <= v /\ u > next_
      BY <2>1, <3>1
    <3>3. Len(Bytes(u, v)) = v - u
      BY <3>1, <3>2, BytesType
    <3> QED  BY <3>1, <3>2, <3>3 DEF u, v
  <2>3. ASSUME NEW i \in 1 .. Len(data_) - 1 PROVE data_[i].second < data_[i + 1].first
    <3>1. i \in 1 .. Len(data_) /\ i + 1 \in 1 .. Len(data_) /\ i < i + 1
      BY <2>1
    <3> QED  BY <2>1, <3>1 DEF List
  <2> QED  BY <2>2, <2>3 DEF ListNormalised
<1> QED  BY <1>1, ReassemblerInvariance, PTL

-----------------------------------------------------------------------------
(* push_substring is a write of the queue: it appends what fits.           *)
LEMMA PushIsWrite ==
  ASSUME ReassemblerInv, NEW index \in Nat, NEW len \in Nat, NEW eof \in BOOLEAN,
         Push(index, len, eof)
  PROVE  Fifo!Write
<1> DEFINE end == index + len
           a == assemble(Bytes(index, end), index)
           o == output(a)
           num == IF eof THEN end ELSE eof_num_
           buf == Contents(output_)
           new == Contents(output_')
           C == RECV_CAPACITY
           r == output_.total_read
<1>1. /\ Delivered(a.data, o) /\ SameBytes(o.stream, output_') /\ io' = <<>>
      /\ output_'.eof_input = (output_.eof_input \/ at_end(eof_ \/ eof, num, o.next))
  BY PushStep, Zenon
<1>2. output_.eof_input => output_'.eof_input
  BY <1>1, Zenon
<1> HIDE DEF a, o, num
<1>3. /\ next_ \in Nat /\ C \in Nat /\ C > 0 /\ output_ \in ByteStream(C)
      /\ buf = Bytes(r, next_) /\ next_ = r + output_.size
  BY SMTT(30), Bounds DEF ReassemblerInv
<1>4. /\ o.next \in Nat /\ next_ <= o.next /\ output_' \in ByteStream(C)
      /\ new = Bytes(r, o.next)
  BY <1>1 DEF Delivered, SameBytes, Same
<1>5. r \in Nat /\ r <= next_
  BY <1>3, Fields
<1>6. Len(new) \in Len(buf) .. C
  <2>1. Len(new) = output_'.size /\ output_'.size \in 0 .. C
    BY SMTT(30), <1>3, <1>4, ContentsType, Fields
  <2> HIDE DEF new, buf, r
  <2>2. Len(buf) = next_ - r
    BY Zenon, <1>3, <1>5, BytesType
  <2>3. Len(new) = o.next - r
    <3> DEFINE n == o.next
    <3>1. n \in Nat /\ r <= n /\ new = Bytes(r, n)
      BY <1>3, <1>4, <1>5
    <3> HIDE DEF n
    <3>2. Len(new) = n - r
      BY Zenon, <1>5, <3>1, BytesType
    <3> QED  BY <3>2 DEF n
  <2> QED  BY <1>3, <1>4, <1>5, <2>1, <2>2, <2>3
<1>7. SubSeq(new, 1, Len(buf)) = buf
  <2> DEFINE n == o.next
             z == next_ - r
  <2>1. /\ r \in Nat /\ n \in Nat /\ next_ \in Nat /\ z \in Nat
        /\ r <= next_ /\ next_ <= n /\ r + z = next_
    BY <1>3, <1>4, <1>5
  <2>2. new = Bytes(r, n)
    BY <1>4
  <2> HIDE DEF new, buf, r, n, z
  <2>3. substr(Bytes(r, n), 0, z) = Bytes(r, next_)
    BY <2>1, BytesFirst
  <2>4. Len(buf) = z
    BY Zenon, <1>3, <2>1, BytesType DEF z
  <2>5. substr(new, 0, z) = SubSeq(new, 1, z)
    BY <2>1 DEF substr
  <2> QED  BY <1>3, <2>2, <2>3, <2>4, <2>5
<1>8. Contents(output_)' = new
  BY DEF Contents
<1> QED  BY <1>1, <1>2, <1>6, <1>7, <1>8 DEF Fifo!Write

(* The calls of the application are those of the queue.                    *)
LEMMA CallsAreFifo ==
  ASSUME ReassemblerInv, NEW n \in 1 .. output_.size
  PROVE  /\ n \in 1 .. Len(Contents(output_))
         /\ Peek(n) => Fifo!Peek(n)
         /\ Pop(n) => Fifo!Pop(n)
         /\ read(n) => Fifo!Read(n)
<1> DEFINE C == RECV_CAPACITY
           t == pop_output(output_, n)
           buf == Contents(output_)
<1>1. C \in Nat /\ C > 0 /\ output_ \in ByteStream(C)
  BY Bounds
<1>2. n \in 0 .. output_.size /\ Len(buf) = output_.size /\ output_.size \in Nat
  BY <1>1, Fields, ContentsType
<1>3. t.eof_input = output_.eof_input /\ Contents(t) = SubSeq(buf, n + 1, Len(buf))
  BY <1>1, <1>2, PopDrops
<1>4. peek_output(output_, n) = SubSeq(buf, 1, n)
  BY <1>1, <1>2, PeekReturns
<1> HIDE DEF t
<1>5. ASSUME output_' = t
      PROVE  /\ Contents(output_)' = SubSeq(buf, n + 1, Len(buf))
             /\ output_.eof_input' = output_.eof_input
  <2>1. Contents(output_)' = Contents(output_')
    BY DEF Contents
  <2> QED  BY <1>3, <1>5, <2>1
<1>6. ASSUME output_' = output_
      PROVE  Contents(output_)' = buf /\ output_.eof_input' = output_.eof_input
  <2>1. Contents(output_)' = Contents(output_')
    BY DEF Contents
  <2> QED  BY <1>6, <2>1
<1> HIDE DEF buf
<1>7. Peek(n) => Fifo!Peek(n)
  BY <1>4, <1>6 DEF Peek, Fifo!Peek, buf
<1>8. Pop(n) => Fifo!Pop(n)
  BY <1>5 DEF Pop, Fifo!Pop, t, buf
<1>9. read(n) => Fifo!Read(n)
  BY <1>4, <1>5 DEF read, Fifo!Read, t, buf
<1> QED  BY <1>2, <1>7, <1>8, <1>9 DEF buf

(* The ByteStream is a first-in first-out queue of at most capacity_ bytes: *)
(* writes that wrap around the end of the ring append, reads and pops take  *)
(* the oldest bytes, and every call returns what the queue would.          *)
THEOREM FifoRefined == Spec => ImplementsFifo
<1>1. Init => Fifo!Init
  <2> SUFFICES ASSUME Init PROVE Fifo!Init
    OBVIOUS
  <2> DEFINE s == NewByteStream(RECV_CAPACITY)
  <2>1. RECV_CAPACITY \in Nat /\ RECV_CAPACITY > 0
    BY StreamAssumption
  <2>2. s \in ByteStream(RECV_CAPACITY) /\ Contents(s) = <<>> /\ ~s.eof_input
    BY <2>1, NewIsEmpty
  <2>3. s.eof_input \in BOOLEAN
    BY <2>1, <2>2, Fields
  <2>4. output_ = s /\ io = <<>>
    BY DEF Init
  <2> HIDE DEF s
  <2>5. Contents(output_) = <<>> /\ output_.eof_input = FALSE
    BY <2>2, <2>3, <2>4
  <2> QED  BY <2>4, <2>5 DEF Fifo!Init
<1>2. ReassemblerInv /\ [Next]_vars => [Fifo!Next]_<<Contents(output_), io, output_.eof_input>>
  <2> SUFFICES ASSUME ReassemblerInv, [Next]_vars
               PROVE  [Fifo!Next]_<<Contents(output_), io, output_.eof_input>>
    OBVIOUS
  <2>1. ASSUME NEW index \in 0 .. StreamLen, NEW len \in 0 .. StreamLen, NEW eof \in BOOLEAN,
               Push(index, len, eof)
        PROVE  Fifo!Next
    <3>1. index \in Nat /\ len \in Nat
      BY StreamAssumption
    <3> QED  BY <2>1, <3>1, PushIsWrite DEF Fifo!Next
  <2>2. ASSUME NEW n \in 1 .. output_.size, Peek(n) \/ Pop(n) \/ read(n)
        PROVE  Fifo!Next
    BY <2>2, CallsAreFifo DEF Fifo!Next
  <2>3. ASSUME UNCHANGED vars
        PROVE  UNCHANGED <<Contents(output_), io, output_.eof_input>>
    BY <2>3 DEF vars, Contents
  <2> QED  BY <2>1, <2>2, <2>3 DEF Next
<1> QED  BY <1>1, <1>2, ReassemblerInvariance, PTL DEF Spec, ImplementsFifo, Fifo!Spec

-----------------------------------------------------------------------------
(* The stored bytes as the abstract reassembler has them: byte p is at p.   *)
Pairs(I) == {<<p, p>> : p \in I}

Indices(d) == {p \in Nat : Holds(d, p)}

(* The indices of a set of such pairs.                                     *)
LEMMA PairIndices ==
  ASSUME NEW I
  PROVE  /\ {p[1] : p \in Pairs(I)} = I
         /\ {p[1] + 1 : p \in Pairs(I)} = {i + 1 : i \in I}
<1>1. \A p \in Pairs(I) : p[1] \in I
  BY DEF Pairs
<1>2. \A i \in I : <<i, i>> \in Pairs(I) /\ <<i, i>>[1] = i
  BY DEF Pairs
<1> QED  BY Zenon, <1>1, <1>2

(* The run of stored bytes from an index on ends at the first one missing. *)
LEMMA RunEnd ==
  ASSUME NEW I, I \subseteq Nat, NEW from \in Nat, NEW c \in Nat, from <= c, c \notin I,
         \A p \in Nat : from <= p /\ p < c => p \in I
  PROVE  Abstract!run_end(Pairs(I), from) = c
<1> DEFINE S == {from} \union {p[1] + 1 : p \in Pairs(I)}
           Ok(n) == n >= from /\ n \notin I /\ \A m \in from .. n - 1 : m \in I
<1>1. S = {from} \union {p + 1 : p \in I}
  BY Zenon, PairIndices
<1>2. Abstract!run_end(Pairs(I), from) = CHOOSE n \in S : Ok(n)
  BY PairIndices DEF Abstract!run_end
<1> HIDE DEF S
<1>3. c \in S
  <2>1. CASE c = from
    BY <1>1, <2>1
  <2>2. CASE c # from
    <3>1. c - 1 \in Nat /\ from <= c - 1 /\ c - 1 < c /\ (c - 1) + 1 = c
      BY <2>2
    <3>2. c - 1 \in I
      BY <3>1
    <3> QED  BY <1>1, <3>1, <3>2
  <2> QED  BY <2>1, <2>2
<1>4. Ok(c)
  <2>1. ASSUME NEW m \in from .. c - 1 PROVE m \in I
    BY <2>1
  <2> QED  BY <2>1
<1>5. ASSUME NEW n \in S, Ok(n) PROVE n = c
  <2>1. n \in Nat
    BY <1>1
  <2>2. ~(n < c)
    BY <1>5, <2>1
  <2>3. ~(c < n)
    <3>1. ASSUME c < n PROVE FALSE
      <4>1. c \in from .. n - 1
        BY <2>1, <3>1
      <4> QED  BY <1>5, <4>1
    <3> QED  BY <3>1
  <2> QED  BY <2>1, <2>2, <2>3
<1> HIDE DEF Ok
<1>6. (CHOOSE n \in S : Ok(n)) = c
  BY <1>3, <1>4, <1>5
<1> QED  BY <1>2, <1>6

(* The byte stored at an index.                                            *)
LEMMA ByteAt ==
  ASSUME NEW I, NEW i \in I
  PROVE  Abstract!byte_at(Pairs(I), i) = i
<1>1. <<i, i>> \in Pairs(I)
  BY DEF Pairs
<1>2. \A p \in Pairs(I) : p[1] = i => p[2] = i
  BY DEF Pairs
<1> DEFINE q == CHOOSE p \in Pairs(I) : p[1] = i
<1>3. q \in Pairs(I) /\ q[1] = i
  BY <1>1
<1>4. Abstract!byte_at(Pairs(I), i) = q[2]
  BY DEF Abstract!byte_at
<1> HIDE DEF q
<1> QED  BY <1>2, <1>3, <1>4

(* The pairs of an ordered list.                                           *)
LEMMA HeldIs ==
  ASSUME ReassemblerInv
  PROVE  Held = Pairs(Indices(data_))
<1> DEFINE d == data_
<1>1. next_ \in Nat /\ Upper \in Nat /\ List(d, next_ + 1, Upper)
  BY Bounds
<1> DEFINE F(i) == {<<d[i].first + k - 1, d[i].str[k]>> : k \in 1 .. Len(d[i].str)}
           G(i) == {<<p, p>> : p \in {q \in Nat : d[i].first <= q /\ q < d[i].second}}
<1>2. ASSUME NEW i \in 1 .. Len(d) PROVE F(i) = G(i)
  <2> DEFINE u == d[i].first
             v == d[i].second
             str == d[i].str
  <2>1. u \in Nat /\ v \in Nat /\ u < v /\ str = Bytes(u, v)
    BY <1>1 DEF List, Piece, IntervalType
  <2> HIDE DEF u, v, str
  <2>2. u <= v
    BY <2>1
  <2>3. Len(str) = v - u /\ \A k \in 1 .. v - u : str[k] = u + k - 1
    BY Zenon, <2>1, <2>2, BytesType
  <2> DEFINE A == {<<u + k - 1, str[k]>> : k \in 1 .. Len(str)}
             B == {<<p, p>> : p \in {q \in Nat : u <= q /\ q < v}}
  <2>4. A \subseteq B
    <3> SUFFICES ASSUME NEW k \in 1 .. v - u PROVE <<u + k - 1, str[k]>> \in B
      BY <2>3
    <3>1. str[k] = u + k - 1 /\ u + k - 1 \in Nat /\ u <= u + k - 1 /\ u + k - 1 < v
      BY <2>1, <2>3
    <3> QED  BY <3>1
  <2>5. B \subseteq A
    <3> SUFFICES ASSUME NEW q \in Nat, u <= q, q < v PROVE <<q, q>> \in A
      OBVIOUS
    <3> DEFINE k == q - u + 1
    <3>1. k \in 1 .. v - u /\ u + k - 1 = q
      BY <2>1
    <3>2. str[k] = q
      BY <2>3, <3>1
    <3> HIDE DEF k
    <3> QED  BY <2>3, <3>1, <3>2
  <2>6. A = B
    BY <2>4, <2>5
  <2> QED  BY <2>6 DEF u, v, str
<1>3. Held = UNION {F(i) : i \in 1 .. Len(d)}
  BY DEF Held
<1>4. \A i \in 1 .. Len(d) : F(i) = G(i)
  BY <1>2
<1> HIDE DEF F
<1>5. UNION {F(i) : i \in 1 .. Len(d)} = UNION {G(i) : i \in 1 .. Len(d)}
  <2> HIDE DEF G
  <2> QED  BY <1>4
<1>6. UNION {G(i) : i \in 1 .. Len(d)} = Pairs(Indices(d))
  BY DEF Pairs, Indices, Holds
<1> QED  BY <1>3, <1>5, <1>6

(* A state of the abstract reassembler.                                    *)
State(next, held, eof, eof_num, out, gone, ended, error) ==
  [next |-> next, held |-> held, eof |-> eof, eof_num |-> eof_num, output |-> out,
   read |-> gone, ended |-> ended, error |-> error]

StateType ==
  [next : Nat, held : SUBSET (Nat \X Nat), eof : BOOLEAN, eof_num : Nat, output : Seq(Nat),
   read : Nat, ended : BOOLEAN, error : BOOLEAN]

Update(s, next, held, out, eof, eof_num, ended) ==
  [s EXCEPT !.next = next, !.held = held, !.output = out, !.eof = eof, !.eof_num = eof_num,
            !.ended = ended]

(* An update of some fields of such a state.                               *)
LEMMA StateUpdate ==
  ASSUME NEW next \in Nat, NEW held \in SUBSET (Nat \X Nat), NEW eof \in BOOLEAN,
         NEW eof_num \in Nat, NEW out \in Seq(Nat), NEW gone \in Nat, NEW ended \in BOOLEAN,
         NEW error \in BOOLEAN, NEW a \in Nat, NEW b \in SUBSET (Nat \X Nat),
         NEW c \in Seq(Nat), NEW d \in BOOLEAN, NEW e \in Nat, NEW f \in BOOLEAN
  PROVE  Update(State(next, held, eof, eof_num, out, gone, ended, error), a, b, c, d, e, f)
         = State(a, b, d, e, c, gone, f, error)
<1> DEFINE r == State(next, held, eof, eof_num, out, gone, ended, error)
           s == [r EXCEPT !.next = a, !.held = b, !.output = c, !.eof = d, !.eof_num = e,
                          !.ended = f]
           t == State(a, b, d, e, c, gone, f, error)
<1>1. r \in StateType /\ t \in StateType
  BY DEF State, StateType
<1>2. r.read = gone /\ r.error = error
  BY DEF State
<1> HIDE DEF r
<1>3. s \in StateType
  BY Zenon, <1>1 DEF StateType
<1>4. s.next = a /\ s.held = b /\ s.output = c /\ s.eof_num = e /\ s.read = gone
  BY <1>1, <1>2 DEF StateType
<1>5. s.eof = d /\ s.ended = f /\ s.error = error
  BY <1>1, <1>2 DEF StateType
<1> HIDE DEF s
<1>6. t.next = a /\ t.held = b /\ t.output = c /\ t.eof_num = e /\ t.read = gone
  BY DEF State
<1>7. t.eof = d /\ t.ended = f /\ t.error = error
  BY DEF State
<1> HIDE DEF t
<1>8. s = t
  BY SMTT(30), <1>1, <1>3, <1>4, <1>5, <1>6, <1>7 DEF StateType
<1> QED  BY <1>8 DEF r, s, t, Update

(* The abstract push_substring, field by field.                            *)
LEMMA AbstractPush ==
  ASSUME NEW r, NEW data, NEW index, NEW e
  PROVE  LET stored == Abstract!assemble(r, data, index)
             n      == Abstract!run_end(stored, r.next)
             last   == IF e THEN (index + Len(data)) % SizeMod ELSE r.eof_num
         IN  Abstract!push_substring(r, data, index, e) =
               [r EXCEPT !.next = n, !.held = {p \in stored : p[1] >= n},
                         !.output = r.output \o [k \in 1 .. n - r.next |->
                                                   Abstract!byte_at(stored, r.next + k - 1)],
                         !.eof = (r.eof \/ e), !.eof_num = last,
                         !.ended = (r.ended \/ at_end(r.eof \/ e, last, n))]
BY Zenon DEF Abstract!push_substring, Abstract!at_end, at_end

(* What the refinement mapping makes of a state.                           *)
Image == State(next_, Pairs(Indices(data_)), eof_, eof_num_, Bytes(0, next_),
               output_.total_read, output_.eof_input, output_.error)

Mapped ==
  [next |-> next_, held |-> Held, eof |-> eof_, eof_num |-> eof_num_,
   output |-> [k \in 1 .. output_.total_read |-> k - 1] \o Contents(output_),
   read |-> output_.total_read, ended |-> output_.eof_input, error |-> output_.error]

(* All bytes ever written are the stream's first next_ bytes.              *)
LEMMA MappedIs == ReassemblerInv => Mapped = Image
<1> SUFFICES ASSUME ReassemblerInv PROVE Mapped = Image
  OBVIOUS
<1> DEFINE r == output_.total_read
           out == [k \in 1 .. r |-> k - 1] \o Contents(output_)
<1>1. /\ next_ \in Nat /\ output_ \in ByteStream(RECV_CAPACITY) /\ next_ = r + output_.size
      /\ Contents(output_) = Bytes(r, next_) /\ RECV_CAPACITY \in Nat /\ RECV_CAPACITY > 0
  BY Bounds DEF ReassemblerInv
<1>2. r \in Nat /\ 0 <= r /\ r <= next_ /\ 0 \in Nat
  BY <1>1, Fields
<1>3. [k \in 1 .. r |-> k - 1] = Bytes(0, r)
  <2> HIDE DEF r
  <2>1. r - 0 = r /\ \A k \in 1 .. r : 0 + k - 1 = k - 1
    BY <1>2
  <2> QED  BY <2>1 DEF Bytes
<1>4. Bytes(0, r) \o Bytes(r, next_) = Bytes(0, next_)
  <2> HIDE DEF r
  <2> QED  BY Zenon, <1>1, <1>2, BytesConcat
<1>5. out = Bytes(0, next_)
  BY Zenon, <1>1, <1>3, <1>4
<1>6. Held = Pairs(Indices(data_))
  BY HeldIs
<1> HIDE DEF r, out
<1>7. Mapped = [next |-> next_, held |-> Held, eof |-> eof_, eof_num |-> eof_num_,
                output |-> out, read |-> output_.total_read, ended |-> output_.eof_input,
                error |-> output_.error]
  BY Zenon DEF Mapped, out, r
<1> QED  BY <1>5, <1>6, <1>7, Zenon DEF Image, State

(* The same in the state after a step.                                     *)
LEMMA MappedIsNext == ReassemblerInv' => Mapped' = Image'
<1>1. (ReassemblerInv => Mapped = Image)'
  BY MappedIs, PTL
<1> QED  BY <1>1

(* The bytes of a string at index that fit between lo and hi and are new.  *)
Fresh(index, end, lo, hi, I) ==
  {p \in Abstract!Placed(Bytes(index, end), index) :
     lo <= p[1] /\ p[1] < hi /\ p[1] \notin I}

(* Their indices, those already stored included.                           *)
Window(index, end, lo, hi) == {q \in Nat : lo <= q /\ index <= q /\ q < end /\ q < hi}

Widened(I, index, end, lo, hi) == I \union Window(index, end, lo, hi)

StoredPairs(I, index, end, lo, hi) == Pairs(I) \union Fresh(index, end, lo, hi, I)

(* What both reassemblers store of a string.                               *)
LEMMA StoredIs ==
  ASSUME NEW I, NEW lo \in Nat, NEW hi \in Nat, NEW index \in Nat, NEW end \in Nat,
         index <= end
  PROVE  Pairs(Widened(I, index, end, lo, hi)) = StoredPairs(I, index, end, lo, hi)
<1> DEFINE J == I \union Window(index, end, lo, hi)
           text == Bytes(index, end)
           P == Abstract!Placed(text, index)
           K == {q \in Nat : index <= q /\ q < end}
<1>1. Len(text) = end - index /\ \A k \in 1 .. end - index : text[k] = index + k - 1
  BY BytesType
<1> HIDE DEF text
<1>2. P = {<<index + k - 1, text[k]>> : k \in 1 .. end - index}
  BY <1>1 DEF Abstract!Placed
<1> HIDE DEF P
<1>3. ASSUME NEW p \in P PROVE \E q \in K : p = <<q, q>>
  <2>1. PICK k \in 1 .. end - index : p = <<index + k - 1, text[k]>>
    BY <1>2
  <2>2. index + k - 1 \in K /\ text[k] = index + k - 1
    BY <1>1
  <2> QED  BY <2>1, <2>2
<1>4. ASSUME NEW q \in K PROVE <<q, q>> \in P
  <2> DEFINE k == q - index + 1
  <2>1. k \in 1 .. end - index /\ index + k - 1 = q
    OBVIOUS
  <2>2. text[k] = q
    BY <1>1, <2>1
  <2> HIDE DEF k
  <2> QED  BY <1>2, <2>1, <2>2
<1> DEFINE N == {p \in P : lo <= p[1] /\ p[1] < hi /\ p[1] \notin I}
<1>5. ASSUME NEW p \in N PROVE p \in Pairs(J)
  <2>1. PICK q \in K : p = <<q, q>>
    BY <1>3
  <2>2. p[1] = q
    BY <2>1
  <2>3. q \in J
    BY <2>2 DEF Window
  <2> QED  BY <2>1, <2>3 DEF Pairs
<1>6. ASSUME NEW q \in J, q \notin I PROVE <<q, q>> \in N
  <2>1. q \in K /\ lo <= q /\ q < hi
    BY <1>6 DEF Window
  <2> QED  BY <1>4, <1>6, <2>1
<1> HIDE DEF N, P
<1>7. Pairs(I) \subseteq Pairs(J)
  BY DEF Pairs
<1>8. ASSUME NEW p \in Pairs(J) PROVE p \in Pairs(I) \union N
  <2>1. PICK q \in J : p = <<q, q>>
    BY DEF Pairs
  <2>2. CASE q \in I
    BY <2>1, <2>2 DEF Pairs
  <2>3. CASE q \notin I
    BY <1>6, <2>1, <2>3
  <2> QED  BY <2>2, <2>3
<1>9. Pairs(J) = Pairs(I) \union N
  BY SMTT(30), <1>5, <1>7, <1>8
<1> QED  BY SMTT(30), <1>9 DEF N, P, text, Fresh, Widened, StoredPairs

(* The stored bytes from an index on.                                      *)
LEMMA PairsFrom ==
  ASSUME NEW J, NEW K, NEW n, K = {q \in J : n <= q}, J \subseteq Nat, n \in Nat
  PROVE  {p \in Pairs(J) : p[1] >= n} = Pairs(K)
<1>1. ASSUME NEW p \in Pairs(J), p[1] >= n PROVE p \in Pairs(K)
  <2>1. PICK q \in J : p = <<q, q>>
    BY DEF Pairs
  <2>2. p[1] = q
    BY <2>1
  <2>3. q \in K
    BY <1>1, <2>2
  <2> QED  BY <2>1, <2>3 DEF Pairs
<1>2. ASSUME NEW q \in K PROVE <<q, q>> \in Pairs(J) /\ <<q, q>>[1] >= n
  BY DEF Pairs
<1>3. \A p \in Pairs(K) : p \in Pairs(J) /\ p[1] >= n
  BY <1>2 DEF Pairs
<1> QED  BY <1>1, <1>3

(* The stored bytes at a .. b - 1.                                         *)
Run(S, a, b) == [k \in 1 .. b - a |-> Abstract!byte_at(S, a + k - 1)]

(* The bytes of a run.                                                     *)
LEMMA RunBytes ==
  ASSUME NEW J, NEW a \in Nat, NEW b \in Nat, a <= b, \A p \in Nat : a <= p /\ p < b => p \in J
  PROVE  Run(Pairs(J), a, b) = Bytes(a, b)
<1>1. ASSUME NEW k \in 1 .. b - a PROVE Abstract!byte_at(Pairs(J), a + k - 1) = a + k - 1
  <2> DEFINE i == a + k - 1
  <2>1. i \in J
    OBVIOUS
  <2> HIDE DEF i
  <2>2. Abstract!byte_at(Pairs(J), i) = i
    BY <2>1, ByteAt
  <2> QED  BY <2>2 DEF i
<1> QED  BY <1>1 DEF Bytes, Run

(* push_substring does to the list what it does to the set of bytes.       *)
LEMMA PushIsAbstract ==
  ASSUME ReassemblerInv, NEW index \in Nat, NEW len \in Nat, NEW eof \in BOOLEAN,
         Push(index, len, eof)
  PROVE  Image' = Abstract!push_substring(Image, Abstract!Text(index, len), index, eof)
<1> DEFINE end == index + len
           a == assemble(Bytes(index, end), index)
           o == output(a)
           num == IF eof THEN end ELSE eof_num_
           n == o.next
           flag == eof_ \/ eof
           ends == output_.eof_input \/ at_end(flag, num, n)
           text == Abstract!Text(index, len)
           I == Indices(data_)
           J == Indices(a.data)
           K == Indices(o.data)
           out == Bytes(0, next_)
           gone == output_.total_read
           im == Image
           stored == Abstract!assemble(im, text, index)
           more == [k \in 1 .. n - next_ |-> Abstract!byte_at(stored, next_ + k - 1)]
<1>1. /\ \A p \in Nat : Holds(a.data, p) <=>
           Holds(data_, p) \/ (next_ <= p /\ index <= p /\ p < end /\ p < Upper)
      /\ Delivered(a.data, o)
      /\ data_' = o.data /\ next_' = n /\ SameBytes(o.stream, output_')
      /\ output_'.eof_input = ends /\ eof_' = flag /\ eof_num_' = num
  BY PushStep, Zenon
<1>2. end \in Nat /\ end <= StreamLen /\ index <= end /\ end - index = len
  BY DEF Push
<1>3. text = Bytes(index, end) /\ Len(text) = len
  <2>1. text = Bytes(index, end)
    BY <1>2 DEF Abstract!Text, Bytes
  <2> HIDE DEF end, text
  <2> QED  BY <1>2, <2>1, BytesType
<1>4. (index + Len(text)) % SizeMod = end
  <2>1. end < SizeMod /\ SizeMod \in Nat
    BY <1>2, StreamAssumption
  <2> HIDE DEF text
  <2> QED  BY <1>2, <1>3, <2>1
<1>5. /\ next_ \in Nat /\ Upper \in Nat /\ output_ \in ByteStream(RECV_CAPACITY)
      /\ RECV_CAPACITY \in Nat /\ RECV_CAPACITY > 0
      /\ next_ = gone + output_.size /\ eof_ \in BOOLEAN /\ eof_num_ \in Nat
  BY Bounds DEF ReassemblerInv
<1>6. /\ gone \in Nat /\ output_.size \in Nat /\ output_.eof_input \in BOOLEAN
      /\ output_.error \in BOOLEAN
  BY SMTT(30), <1>5, Fields
<1>7. /\ n \in Nat /\ next_ <= n /\ ~Holds(a.data, n)
      /\ \A p \in Nat : Holds(o.data, p) <=> Holds(a.data, p) /\ n <= p
      /\ \A p \in Nat : next_ <= p /\ p < n => Holds(a.data, p)
      /\ Same(output_, o.stream)
  BY Zenon, <1>1 DEF Delivered
<1>8. flag \in BOOLEAN /\ ends \in BOOLEAN
  BY <1>6, Zenon DEF at_end
<1>9. num \in Nat
  BY <1>2, <1>5
<1>10. out \in Seq(Nat) /\ Len(out) = next_
  <2>1. 0 \in Nat /\ 0 <= next_ /\ next_ - 0 = next_
    BY <1>5
  <2> QED  BY SMTT(30), <1>5, <2>1, BytesType
<1>11. /\ im.next = next_ /\ im.held = Pairs(I) /\ im.output = out /\ im.read = gone
       /\ im.eof_num = eof_num_
  BY DEF Image, State
<1>12. im.eof = eof_ /\ im.ended = output_.eof_input /\ im.error = output_.error
  BY DEF Image, State
<1> HIDE DEF a, o, num, n, flag, ends, text, out, im, end
<1>13. stored = Pairs(J)
  <2>1. Abstract!upper(im) = Upper
    <3>1. Abstract!upper(im) = next_ + (RECV_CAPACITY - (Len(out) - gone))
      BY <1>11 DEF Abstract!upper, Abstract!output_buffer_size
    <3>2. Len(out) - gone = output_.size
      <4> HIDE DEF gone
      <4> QED  BY SMTT(30), <1>5, <1>6, <1>10
    <3> QED  BY <3>1, <3>2 DEF Upper
  <2>2. Abstract!unassembled(im) = I
    BY SMTT(30), <1>11, PairIndices DEF Abstract!unassembled
  <2>3. stored = Pairs(I) \union Fresh(index, end, next_, Upper, I)
    <3> HIDE DEF I
    <3> QED  BY <1>3, <1>11, <2>1, <2>2 DEF Abstract!assemble, Fresh
  <2>4. J = I \union Window(index, end, next_, Upper)
    BY <1>1 DEF Indices, Window
  <2>5. next_ \in Nat /\ Upper \in Nat /\ index \in Nat /\ end \in Nat /\ index <= end
    BY <1>2, <1>5
  <2> HIDE DEF I, J, stored
  <2>6. Pairs(Widened(I, index, end, next_, Upper)) = StoredPairs(I, index, end, next_, Upper)
    BY <2>5, StoredIs
  <2> QED  BY <2>3, <2>4, <2>6 DEF Widened, StoredPairs
<1> HIDE DEF stored
<1>14. J \subseteq Nat /\ n \notin J /\ \A p \in Nat : next_ <= p /\ p < n => p \in J
  BY <1>7 DEF Indices
<1>15. K = {q \in J : n <= q}
  BY <1>7 DEF Indices
<1> HIDE DEF I, J, K
<1>16. Abstract!run_end(stored, im.next) = n
  <2>1. Abstract!run_end(Pairs(J), next_) = n
    BY Zenon, <1>5, <1>7, <1>14, RunEnd
  <2> QED  BY SMTT(30), <1>11, <1>13, <2>1
<1>17. {p \in stored : p[1] >= n} = Pairs(K)
  BY ZenonT(60), <1>7, <1>13, <1>14, <1>15, PairsFrom
<1>18. out \o more = Bytes(0, n)
  <2>1. more = Bytes(next_, n)
    <3>1. Run(Pairs(J), next_, n) = Bytes(next_, n)
      BY <1>5, <1>7, <1>14, RunBytes
    <3> QED  BY SMTT(30), <1>13, <3>1 DEF Run
  <2>2. 0 \in Nat /\ 0 <= next_
    BY <1>5
  <2>3. Bytes(0, next_) \o Bytes(next_, n) = Bytes(0, n)
    BY Zenon, <1>5, <1>7, <2>2, BytesConcat
  <2> QED  BY Zenon, <2>1, <2>3 DEF out
<1> HIDE DEF more, K
<1>19. Abstract!push_substring(im, text, index, eof) =
         Update(im, n, Pairs(K), Bytes(0, n), flag, num, ends)
  <2> DEFINE last == IF eof THEN (index + Len(text)) % SizeMod ELSE im.eof_num
             run == Abstract!run_end(stored, im.next)
             held == {p \in stored : p[1] >= run}
             all == im.output \o [k \in 1 .. run - im.next |->
                                    Abstract!byte_at(stored, im.next + k - 1)]
             f == im.eof \/ eof
             e == im.ended \/ at_end(f, last, run)
  <2>1. Abstract!push_substring(im, text, index, eof) =
          Update(im, run, held, all, f, last, e)
    BY AbstractPush, Zenon DEF stored, Update
  <2>2. last = num
    BY <1>4, <1>11 DEF num
  <2>3. run = n
    BY <1>16
  <2>4. held = Pairs(K)
    <3> HIDE DEF run
    <3> QED  BY <1>17, <2>3
  <2>5. all = Bytes(0, n)
    <3> HIDE DEF run
    <3> QED  BY Zenon, <1>11, <1>18, <2>3 DEF more
  <2>6. f = flag
    BY <1>12, Zenon DEF flag
  <2>7. e = ends
    <3> HIDE DEF last, run, f
    <3> QED  BY <1>12, <2>2, <2>3, <2>6, Zenon DEF ends
  <2> HIDE DEF last, run, held, all, f, e
  <2> QED  BY <2>1, <2>2, <2>3, <2>4, <2>5, <2>6, <2>7, Zenon
<1>20. Update(im, n, Pairs(K), Bytes(0, n), flag, num, ends)
         = State(n, Pairs(K), flag, num, Bytes(0, n), gone, ends, output_.error)
  <2>1. Pairs(I) \in SUBSET (Nat \X Nat) /\ Pairs(K) \in SUBSET (Nat \X Nat)
    BY DEF Pairs, I, K, Indices
  <2>2. Bytes(0, n) \in Seq(Nat)
    <3>1. 0 \in Nat /\ 0 <= n
      BY <1>7
    <3> QED  BY SMTT(30), <1>7, <3>1, BytesType
  <2>3. im = State(next_, Pairs(I), eof_, eof_num_, out, gone, output_.eof_input, output_.error)
    BY Zenon DEF im, Image, out, I
  <2> DEFINE b == Pairs(K)
             c == Bytes(0, n)
             h == Pairs(I)
             z == output_.eof_input
             y == output_.error
  <2>4. b \in SUBSET (Nat \X Nat) /\ c \in Seq(Nat) /\ h \in SUBSET (Nat \X Nat)
        /\ z \in BOOLEAN /\ y \in BOOLEAN
    BY SMTT(30), <1>6, <2>1, <2>2
  <2>5. im = State(next_, h, eof_, eof_num_, out, gone, z, y)
    BY <2>3
  <2> HIDE DEF b, c, h, z, y, gone
  <2>6. Update(State(next_, h, eof_, eof_num_, out, gone, z, y), n, b, c, flag, num, ends)
         = State(n, b, flag, num, c, gone, ends, y)
    <3>1. /\ next_ \in Nat /\ eof_ \in BOOLEAN /\ eof_num_ \in Nat /\ out \in Seq(Nat)
          /\ gone \in Nat /\ n \in Nat /\ flag \in BOOLEAN /\ num \in Nat /\ ends \in BOOLEAN
      BY <1>5, <1>6, <1>7, <1>8, <1>9, <1>10, Zenon
    <3> QED  BY <2>4, <3>1, StateUpdate
  <2> QED  BY <2>5, <2>6 DEF b, c, h, z, y
<1>21. Image' = State(n, Pairs(K), flag, num, Bytes(0, n), gone, ends, output_.error)
  <2>1. output_'.total_read = gone /\ output_'.error = output_.error
    BY <1>1, <1>7 DEF SameBytes, Same
  <2>2. Image' = State(next_', Pairs(Indices(data_')), eof_', eof_num_', Bytes(0, next_'),
                       output_'.total_read, output_'.eof_input, output_'.error)
    BY Zenon DEF Image
  <2> QED  BY <1>1, <2>1, <2>2, Zenon DEF K
<1> QED  BY <1>19, <1>20, <1>21 DEF im, text

(* output_pop on such a state.                                             *)
LEMMA StatePop ==
  ASSUME NEW next \in Nat, NEW held \in SUBSET (Nat \X Nat), NEW eof \in BOOLEAN,
         NEW eof_num \in Nat, NEW out \in Seq(Nat), NEW gone \in Nat, NEW ended \in BOOLEAN,
         NEW error \in BOOLEAN, NEW n \in Nat
  PROVE  Abstract!output_pop(State(next, held, eof, eof_num, out, gone, ended, error), n)
         = State(next, held, eof, eof_num, out, gone + n, ended, error)
<1> DEFINE m == gone + n
           r == State(next, held, eof, eof_num, out, gone, ended, error)
           s == [r EXCEPT !.read = m]
           t == State(next, held, eof, eof_num, out, m, ended, error)
<1>1. r \in StateType /\ t \in StateType /\ m \in Nat
  BY DEF State, StateType
<1>2. /\ r.next = next /\ r.held = held /\ r.eof_num = eof_num /\ r.output = out
      /\ r.read = gone
  BY DEF State
<1>3. r.eof = eof /\ r.ended = ended /\ r.error = error
  BY DEF State
<1>4. Abstract!output_pop(r, n) = s
  BY <1>2 DEF Abstract!output_pop
<1> HIDE DEF r, m
<1>5. s \in StateType
  BY Zenon, <1>1 DEF StateType
<1>6. s.next = next /\ s.held = held /\ s.output = out /\ s.eof_num = eof_num /\ s.read = m
  BY <1>1, <1>2 DEF StateType
<1>7. s.eof = eof /\ s.ended = ended /\ s.error = error
  BY <1>1, <1>3 DEF StateType
<1> HIDE DEF s
<1>8. t.next = next /\ t.held = held /\ t.output = out /\ t.eof_num = eof_num /\ t.read = m
  BY DEF State
<1>9. t.eof = eof /\ t.ended = ended /\ t.error = error
  BY DEF State
<1> HIDE DEF t
<1>10. s = t
  <2>1. /\ s.next = t.next /\ s.held = t.held /\ s.output = t.output /\ s.read = t.read
        /\ s.eof_num = t.eof_num
    BY <1>6, <1>8, Zenon
  <2>2. s.eof = t.eof /\ s.ended = t.ended /\ s.error = t.error
    BY <1>7, <1>9, Zenon
  <2>3. s \in StateType /\ t \in StateType
    BY <1>1, <1>5
  <2> QED  BY SMTT(30), <2>1, <2>2, <2>3 DEF StateType
<1> QED  BY SMTT(30), <1>4, <1>10 DEF r, t, m

(* Nothing stored or delivered lies beyond the end of the sender's stream. *)
WithinStream == next_ <= StreamLen /\ \A p \in Nat : Holds(data_, p) => p < StreamLen

(* push_substring stores and delivers bytes it was given only.             *)
LEMMA PushWithin ==
  ASSUME ReassemblerInv, WithinStream, NEW index \in Nat, NEW len \in Nat, NEW eof \in BOOLEAN,
         Push(index, len, eof)
  PROVE  WithinStream'
<1> DEFINE end == index + len
           a == assemble(Bytes(index, end), index)
           o == output(a)
           n == o.next
<1>1. /\ \A p \in Nat : Holds(a.data, p) <=>
           Holds(data_, p) \/ (next_ <= p /\ index <= p /\ p < end /\ p < Upper)
      /\ Delivered(a.data, o) /\ data_' = o.data /\ next_' = n
  BY PushStep, Zenon
<1>2. /\ n \in Nat /\ next_ <= n
      /\ \A p \in Nat : Holds(o.data, p) <=> Holds(a.data, p) /\ n <= p
      /\ \A p \in Nat : next_ <= p /\ p < n => Holds(a.data, p)
  BY Zenon, <1>1 DEF Delivered
<1>3. end \in Nat /\ end <= StreamLen /\ StreamLen \in Nat /\ next_ \in Nat
  BY StreamAssumption, Bounds DEF Push
<1> HIDE DEF end, a, o, n
<1>4. ASSUME NEW p \in Nat, Holds(a.data, p) PROVE p < StreamLen
  BY SMTT(30), <1>1, <1>3, <1>4 DEF WithinStream
<1>5. n <= StreamLen
  <2>1. CASE n = next_
    BY <2>1 DEF WithinStream
  <2>2. CASE n # next_
    <3>1. n - 1 \in Nat /\ next_ <= n - 1 /\ n - 1 < n
      BY <1>2, <1>3, <2>2
    <3>2. n - 1 < StreamLen
      BY SMTT(30), <1>2, <1>4, <3>1
    <3> QED  BY SMTT(30), <1>2, <1>3, <3>2
  <2> QED  BY <2>1, <2>2
<1>6. ASSUME NEW p \in Nat, Holds(o.data, p) PROVE p < StreamLen
  BY SMTT(30), <1>2, <1>4, <1>6
<1>7. ASSUME NEW p \in Nat, Holds(data_', p) PROVE p < StreamLen
  BY SMTT(30), <1>1, <1>6, <1>7
<1>8. next_' <= StreamLen
  BY <1>1, <1>5
<1>9. \A p \in Nat : Holds(data_', p) => p < StreamLen
  BY <1>7
<1>10. \A p \in Nat : Holds(data_, p)' => p < StreamLen
  BY <1>9 DEF Holds
<1> QED  BY <1>8, <1>10 DEF WithinStream

(* Reading bytes advances the abstract count and changes nothing else.     *)
LEMMA PopIsAbstract ==
  ASSUME ReassemblerInv, WithinStream, NEW n \in 1 .. output_.size,
         output_' = pop_output(output_, n), UNCHANGED <<data_, next_, eof_num_, eof_>>
  PROVE  /\ n \in 1 .. StreamLen
         /\ n <= Abstract!output_buffer_size(Image)
         /\ Image' = Abstract!output_pop(Image, n)
<1> DEFINE C == RECV_CAPACITY
           gone == output_.total_read
           size == output_.size
           held == Pairs(Indices(data_))
           out == Bytes(0, next_)
           z == output_.eof_input
           y == output_.error
<1>1. /\ next_ \in Nat /\ output_ \in ByteStream(C) /\ C \in Nat /\ C > 0
      /\ next_ = gone + size /\ eof_ \in BOOLEAN /\ eof_num_ \in Nat
  BY SMTT(30), Bounds DEF ReassemblerInv
<1>2. gone \in Nat /\ size \in Nat /\ z \in BOOLEAN /\ y \in BOOLEAN
  BY SMTT(30), <1>1, Fields
<1>3. /\ output_'.total_read = gone + n /\ output_'.eof_input = z /\ output_'.error = y
  <2>1. n \in 0 .. output_.size
    BY <1>2
  <2> QED  BY <1>1, <2>1, PopDrops
<1>4. out \in Seq(Nat) /\ Len(out) = next_
  <2>1. 0 \in Nat /\ 0 <= next_ /\ next_ - 0 = next_
    BY SMTT(30), <1>1
  <2> QED  BY SMTT(30), <1>1, <2>1, BytesType
<1>5. held \in SUBSET (Nat \X Nat)
  BY DEF Pairs, Indices
<1>6. Image = State(next_, held, eof_, eof_num_, out, gone, z, y)
  BY DEF Image
<1>7. Image' = State(next_, held, eof_, eof_num_, out, gone + n, z, y)
  <2>1. Image' = State(next_', Pairs(Indices(data_')), eof_', eof_num_', Bytes(0, next_'),
                       output_'.total_read, output_'.eof_input, output_'.error)
    BY Zenon DEF Image
  <2>2. next_' = next_ /\ data_' = data_ /\ eof_' = eof_ /\ eof_num_' = eof_num_
    OBVIOUS
  <2> QED  BY <1>3, <2>1, <2>2, Zenon
<1>8. n \in Nat /\ n <= size /\ 1 <= n
  BY <1>2
<1> HIDE DEF gone, size, held, out, z, y
<1>9. Abstract!output_pop(State(next_, held, eof_, eof_num_, out, gone, z, y), n)
        = State(next_, held, eof_, eof_num_, out, gone + n, z, y)
  <2>1. /\ next_ \in Nat /\ held \in SUBSET (Nat \X Nat) /\ eof_ \in BOOLEAN
        /\ eof_num_ \in Nat /\ out \in Seq(Nat) /\ gone \in Nat /\ z \in BOOLEAN
        /\ y \in BOOLEAN /\ n \in Nat
    BY <1>1, <1>2, <1>4, <1>5, <1>8, Zenon
  <2> HIDE DEF C
  <2> QED  BY SMTT(30), <2>1, StatePop
<1>10. n \in 1 .. StreamLen
  <2>1. next_ <= StreamLen /\ StreamLen \in Nat
    BY StreamAssumption DEF WithinStream
  <2> QED  BY <1>1, <1>2, <1>8, <2>1
<1>11. n <= Abstract!output_buffer_size(Image)
  <2>1. Image.output = out /\ Image.read = gone
    BY <1>6 DEF State
  <2>2. Abstract!output_buffer_size(Image) = next_ - gone
    BY <1>4, <2>1 DEF Abstract!output_buffer_size
  <2> QED  BY SMTT(30), <1>1, <1>2, <1>8, <2>2
<1> QED  BY SMTT(30), <1>6, <1>7, <1>9, <1>10, <1>11

(* The image of the constructed object is the abstract one's.              *)
LEMMA InitIsAbstract ==
  ASSUME Init
  PROVE  Image = Abstract!NewReassembler /\ WithinStream
<1> DEFINE s == NewByteStream(RECV_CAPACITY)
<1>1. RECV_CAPACITY \in Nat /\ RECV_CAPACITY > 0 /\ StreamLen \in Nat
  BY StreamAssumption
<1>2. s \in ByteStream(RECV_CAPACITY) /\ s.total_read = 0 /\ ~s.eof_input /\ ~s.error
  BY <1>1, NewIsEmpty
<1>3. s.eof_input \in BOOLEAN /\ s.error \in BOOLEAN
  BY SMTT(30), <1>1, <1>2, Fields
<1>4. /\ output_ = s /\ data_ = <<>> /\ next_ = 0 /\ eof_num_ = 0 /\ eof_ = FALSE
  BY DEF Init
<1> HIDE DEF s
<1>5. \A p \in Nat : ~Holds(data_, p)
  BY <1>4 DEF Holds
<1>6. Pairs(Indices(data_)) = {}
  BY <1>5 DEF Pairs, Indices
<1>7. Bytes(0, next_) = <<>>
  BY <1>4 DEF Bytes
<1>8. output_.total_read = 0 /\ output_.eof_input = FALSE /\ output_.error = FALSE
  BY <1>2, <1>3, <1>4
<1>9. Image = State(0, {}, FALSE, 0, <<>>, 0, FALSE, FALSE)
  BY <1>4, <1>6, <1>7, <1>8, Zenon DEF Image
<1>10. Image = Abstract!NewReassembler
  BY <1>9, Zenon DEF State, Abstract!NewReassembler
<1> QED  BY SMTT(30), <1>1, <1>4, <1>5, <1>10 DEF WithinStream

(* Every step stays within the sender's stream.                            *)
LEMMA NextWithin ==
  ASSUME ReassemblerInv, WithinStream, [Next]_vars
  PROVE  WithinStream'
<1>1. ASSUME NEW index \in 0 .. StreamLen, NEW len \in 0 .. StreamLen, NEW eof \in BOOLEAN,
             Push(index, len, eof)
      PROVE  WithinStream'
  <2>1. index \in Nat /\ len \in Nat
    BY StreamAssumption
  <2> QED  BY <1>1, <2>1, PushWithin
<1>2. ASSUME data_' = data_, next_' = next_ PROVE WithinStream'
  BY <1>2 DEF WithinStream, Holds
<1>3. ASSUME NEW n \in 1 .. output_.size, Peek(n) \/ Pop(n) \/ read(n)
      PROVE  WithinStream'
  BY <1>2, <1>3 DEF Peek, Pop, read
<1>4. CASE UNCHANGED vars
  BY <1>2, <1>4 DEF vars
<1> QED  BY SMTT(30), <1>1, <1>3, <1>4 DEF Next

(* The list of intervals implements the set of stored bytes: however        *)
(* assemble merges, erases and splits intervals, what StreamReassembler     *)
(* stores, delivers and ends is what the abstract reassembler promises.     *)
THEOREM ReassemblerRefined == Spec => ImplementsReassembler
<1>1. Init => Abstract!Init
  <2> SUFFICES ASSUME Init PROVE Abstract!Init
    OBVIOUS
  <2>1. Mapped = Abstract!NewReassembler
    BY InitInv, InitIsAbstract, MappedIs
  <2> QED  BY Zenon, <2>1 DEF Abstract!Init, Mapped
<1>2. Init => WithinStream
  BY InitIsAbstract
<1>3. ReassemblerInv /\ WithinStream /\ [Next]_vars => WithinStream'
  BY NextWithin
<1>4. ReassemblerInv /\ WithinStream /\ [Next]_vars => [Abstract!Next]_Mapped
  <2> SUFFICES ASSUME ReassemblerInv, WithinStream, [Next]_vars
               PROVE  [Abstract!Next]_Mapped
    OBVIOUS
  <2>1. Mapped = Image /\ Mapped' = Image'
    BY NextInv, MappedIs, MappedIsNext
  <2>2. ASSUME NEW index \in 0 .. StreamLen, NEW len \in 0 .. StreamLen, NEW eof \in BOOLEAN,
               Push(index, len, eof)
        PROVE  Abstract!Push(index, len, eof)
    <3>1. index \in Nat /\ len \in Nat
      BY StreamAssumption
    <3>2. Image' = Abstract!push_substring(Image, Abstract!Text(index, len), index, eof)
      BY <2>2, <3>1, PushIsAbstract
    <3>3. index + len <= StreamLen /\ (eof => index + len = StreamLen)
      BY <2>2 DEF Push
    <3>4. Mapped' = Abstract!push_substring(Mapped, Abstract!Text(index, len), index, eof)
      BY <2>1, <3>2
    <3> QED  BY <3>3, <3>4, Zenon DEF Abstract!Push, Mapped
  <2>3. ASSUME NEW n \in 1 .. output_.size, Pop(n) \/ read(n)
        PROVE  n \in 1 .. StreamLen /\ Abstract!Pop(n)
    <3>1. output_' = pop_output(output_, n) /\ UNCHANGED <<data_, next_, eof_num_, eof_>>
      BY <2>3 DEF Pop, read
    <3>2. /\ n \in 1 .. StreamLen
          /\ n <= Abstract!output_buffer_size(Mapped)
          /\ Mapped' = Abstract!output_pop(Mapped, n)
      BY SMTT(30), <2>1, <3>1, PopIsAbstract
    <3> QED  BY <3>2, Zenon DEF Abstract!Pop, Mapped
  <2>4. ASSUME UNCHANGED <<data_, next_, eof_num_, eof_, output_>>
        PROVE  UNCHANGED Mapped
    <3>1. Image' = Image
      BY <2>4, Zenon DEF Image
    <3> QED  BY <2>1, <3>1
  <2>5. ASSUME NEW n \in 1 .. output_.size, Peek(n)
        PROVE  UNCHANGED Mapped
    BY <2>4, <2>5 DEF Peek
  <2>6. CASE UNCHANGED vars
    BY SMTT(30), <2>4, <2>6 DEF vars
  <2> QED  BY <2>2, <2>3, <2>5, <2>6 DEF Next, Abstract!Next
<1>5. Spec => []WithinStream
  BY <1>2, <1>3, ReassemblerInvariance, PTL DEF Spec
<1> QED  BY <1>1, <1>4, <1>5, ReassemblerInvariance, PTL
         DEF Spec, ImplementsReassembler, Abstract!Spec, Mapped

=============================================================================
