----------------------------- MODULE BoundedFifo ----------------------------
(***************************************************************************)
(* What a ByteStream promises: a first-in first-out queue of at most       *)
(* Capacity bytes, whose writer may signal the end.                        *)
(***************************************************************************)
EXTENDS Integers, Sequences

CONSTANT Capacity   \* room in the stream

VARIABLES buf,      \* bytes written and not yet read
          io,       \* the bytes the last call returned
          ended     \* the writer has signalled the end

Init == buf = <<>> /\ io = <<>> /\ ended = FALSE

\* The writer adds bytes while there is room, ends the stream, or both.
Write == /\ Len(buf') \in Len(buf) .. Capacity
         /\ SubSeq(buf', 1, Len(buf)) = buf
         /\ io' = <<>>
         /\ ended => ended'

Peek(n) == io' = SubSeq(buf, 1, n) /\ UNCHANGED <<buf, ended>>

Pop(n) == buf' = SubSeq(buf, n + 1, Len(buf)) /\ io' = <<>> /\ UNCHANGED ended

Read(n) == /\ io' = SubSeq(buf, 1, n)
           /\ buf' = SubSeq(buf, n + 1, Len(buf))
           /\ UNCHANGED ended

Next == Write \/ \E n \in 1 .. Len(buf) : Peek(n) \/ Pop(n) \/ Read(n)

Spec == Init /\ [][Next]_<<buf, io, ended>>
=============================================================================
