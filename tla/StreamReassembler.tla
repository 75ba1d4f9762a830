------------------------- MODULE StreamReassembler --------------------------
(***************************************************************************)
(* libsponge/stream_reassembler.{hh,cc}: the list of stored intervals.     *)
(* data_ is a sequence of [first, second, str]: the bytes str at indices   *)
(* first .. second - 1.  output_ is the ByteStream, from which the         *)
(* application reads no more than buffer_size() bytes, as every caller in  *)
(* libsponge does.  Byte k of the stream is the number k.                  *)
(***************************************************************************)
EXTENDS ByteStreamOps, FiniteSetsExt

CONSTANTS RECV_CAPACITY,   \* capacity_
          SizeMod,         \* 2^64: indices are of type size_t
          StreamLen        \* length of the stream the sender transmits

\* No index of the stream overflows a size_t.
ASSUME StreamAssumption ==
  RECV_CAPACITY \in Nat \ {0} /\ SizeMod \in Nat /\ StreamLen \in Nat /\ StreamLen < SizeMod

VARIABLES data_, size_, next_, eof_num_, eof_, output_,
          io   \* the bytes that the application's last call returned

vars == <<data_, size_, next_, eof_num_, eof_, output_, io>>

Init == /\ data_ = <<>>
        /\ size_ = 0
        /\ next_ = 0
        /\ eof_num_ = 0
        /\ eof_ = FALSE
        /\ output_ = NewByteStream(RECV_CAPACITY)
        /\ io = <<>>

Interval(first, str) == [first |-> first, second |-> first + Len(str), str |-> str]

substr(s, offset, len) == SubSeq(s, offset + 1, offset + len)

\* The stored string merged with the new bytes str at first, and how many new
\* bytes that adds: the two intervals overlap or touch.
Merge(it, first, str) ==
  LET second == first + Len(str)
      bypass == it.second - first
  IN  CASE it.first <= first /\ second <= it.second ->
             [interval |-> it, keep |-> 0]
        [] it.first <= first /\ second > it.second ->
             [interval |-> Interval(it.first, it.str \o substr(str, bypass, Len(str) - bypass)),
              keep |-> Len(str) - bypass]
        [] it.first > first /\ second <= it.second ->
             [interval |-> Interval(first, substr(str, 0, it.first - first) \o it.str),
              keep |-> it.first - first]
        [] it.first > first /\ second > it.second ->
             [interval |-> Interval(first, str), keep |-> Len(str) - Len(it.str)]

\* size_ once successors with erased bytes are gone and overlap bytes of the
\* joined one are not stored twice
absorbed_size_NoOverlap(size, erased, overlap) == size - erased
absorbed_size(size, erased, overlap) == size - erased - overlap

\* The bytes of prev and, behind them, those of it that prev does not have;
\* joined_Whole takes all of it.
joined_Whole(prev, it, bypass) == prev.str \o it.str
joined(prev, it, bypass) == prev.str \o substr(it.str, bypass, Len(it.str) - bypass)

\* As Absorb, leaving successors alone
Absorb_None(d, size, i) == [data |-> d, size |-> size]

\* The merged interval has taken position i of d.  Its successors that end
\* inside it are erased, and the next one is joined to it if it begins inside.
Absorb(d, size, i) ==
  LET prev    == d[i]
      covered == {j \in i + 1 .. Len(d) : \A k \in i + 1 .. j : prev.second >= d[k].second}
      last    == Max({i} \union covered)
      erased  == MapThenSumSet(LAMBDA j : Len(d[j].str), covered)
      it      == d[last + 1]
      bypass  == prev.second - it.first
  IN  IF last < Len(d) /\ it.first <= prev.second
      THEN [data |-> SubSeq(d, 1, i - 1)
                     \o <<Interval(prev.first, joined(prev, it, bypass))>>
                     \o SubSeq(d, last + 2, Len(d)),
            size |-> absorbed_size(size, erased, bypass)]
      ELSE [data |-> SubSeq(d, 1, i) \o SubSeq(d, last + 1, Len(d)),
            size |-> absorbed_size(size, erased, 0)]

\* data_.insert_after: it becomes the element at position i
insert(d, i, it) == SubSeq(d, 1, i - 1) \o <<it>> \o SubSeq(d, i, Len(d))

\* The part of the input to store
clipped(input, offset, len) == substr(input, offset, len)

\* data_ and size_ after assemble(input, index)
assemble(input, index) ==
  LET upper  == next_ + (RECV_CAPACITY - output_.size)
      first  == Max({next_, index})
      offset == first - index
      len    == Min({Len(input) - offset, upper - first})
      str    == clipped(input, offset, len)
      reach  == {j \in 1 .. Len(data_) : first <= data_[j].second}
      i      == IF reach = {} THEN Len(data_) + 1 ELSE Min(reach)
      merged == Merge(data_[i], first, str)
  IN  IF Len(input) = 0 \/ next_ >= (index + Len(input)) % SizeMod \/ index >= upper
      THEN [data |-> data_, size |-> size_]
      ELSE IF reach = {} \/ first + len < data_[i].first
      THEN [data |-> insert(data_, i, Interval(first, str)), size |-> size_ + len]
      ELSE Absorb([data_ EXCEPT ![i] = merged.interval], size_ + merged.keep, i)

\* output(): at most the front interval moves to output_.
output(a) ==
  LET front == Head(a.data)
  IN  IF a.data = <<>> \/ next_ # front.first
      THEN [data |-> a.data, size |-> a.size, next |-> next_, stream |-> output_]
      ELSE [data |-> Tail(a.data), size |-> a.size - Len(front.str), next |-> front.second,
            stream |-> write(output_, front.str)]

\* check_end_input's condition to end output_
at_end(eof, eof_num, next) == eof /\ eof_num = next

push_substring(input, index, eof) ==
  LET o   == output(assemble(input, index))
      end == IF eof THEN (index + Len(input)) % SizeMod ELSE eof_num_
  IN  /\ data_' = o.data
      /\ size_' = o.size
      /\ next_' = o.next
      /\ eof_' = (eof_ \/ eof)
      /\ eof_num_' = end
      /\ output_' = IF at_end(eof_ \/ eof, end, o.next) THEN end_input(o.stream) ELSE o.stream
      /\ io' = <<>>

\* The sender cuts its stream of StreamLen bytes into substrings as it likes.
Push(index, len, eof) ==
  /\ index + len <= StreamLen
  /\ eof => index + len = StreamLen
  /\ push_substring([k \in 1 .. len |-> index + k - 1], index, eof)

\* The application peeks at n bytes of stream_out(), pops them, or reads them,
\* which is both.
Peek(n) == /\ io' = peek_output(output_, n)
           /\ UNCHANGED <<data_, size_, next_, eof_num_, eof_, output_>>

Pop(n) == /\ output_' = pop_output(output_, n)
          /\ io' = <<>>
          /\ UNCHANGED <<data_, size_, next_, eof_num_, eof_>>

read(n) == /\ io' = peek_output(output_, n)
           /\ output_' = pop_output(output_, n)
           /\ UNCHANGED <<data_, size_, next_, eof_num_, eof_>>

Next == \/ \E index \in 0 .. StreamLen, len \in 0 .. StreamLen, eof \in BOOLEAN :
             Push(index, len, eof)
        \/ \E n \in 1 .. output_.size : Peek(n) \/ Pop(n) \/ read(n)

Spec == Init /\ [][Next]_vars

-----------------------------------------------------------------------------
\* The list is sorted, its intervals neither overlap nor touch, and each lies
\* beyond next_.  output() relies on it: it looks at the front only, once.
ListNormalised ==
  /\ \A i \in 1 .. Len(data_) :
       /\ data_[i].first < data_[i].second
       /\ Len(data_[i].str) = data_[i].second - data_[i].first
       /\ data_[i].first > next_
  /\ \A i \in 1 .. Len(data_) - 1 : data_[i].second < data_[i + 1].first

\* Every index stored, counted once
Stored == UNION {data_[i].first .. data_[i].second - 1 : i \in 1 .. Len(data_)}

\* unassembled_bytes(): size_ counts every stored index once, and together
\* with the bytes waiting in output_ it stays within the capacity.
SizeExact == /\ size_ = Cardinality(Stored)
             /\ size_ + output_.size <= RECV_CAPACITY

\* The bytes to read are those of the stream from the first unread one as far
\* as next_: no arrival order, overlap or repetition reorders, loses or repeats
\* a byte, and output_.write never drops one because the buffer was full.
OutputIsPrefix ==
  /\ output_.total_write = next_
  /\ Contents(output_) = [k \in 1 .. next_ - output_.total_read |-> output_.total_read + k - 1]

Held == UNION {{<<data_[i].first + k - 1, data_[i].str[k]>> : k \in 1 .. Len(data_[i].str)}
                 : i \in 1 .. Len(data_)}

Abstract == INSTANCE Reassembler WITH
  re <- [next |-> next_, held |-> Held, eof |-> eof_, eof_num |-> eof_num_,
         output |-> [k \in 1 .. output_.total_read |-> k - 1] \o Contents(output_),
         read |-> output_.total_read, ended |-> output_.eof_input, error |-> output_.error]

\* The list of intervals implements the set of stored bytes: merging, erasing
\* and splitting intervals store and deliver exactly the bytes promised.
ImplementsReassembler == Abstract!Spec

Fifo == INSTANCE BoundedFifo WITH
  Capacity <- RECV_CAPACITY, buf <- Contents(output_), ended <- output_.eof_input

\* Through wrapped writes and wrapped reads the ring buffer of output_ is a
\* first-in first-out queue that takes what fits, and every call of the
\* application returns what the queue would.
ImplementsFifo == Fifo!Spec
=============================================================================
