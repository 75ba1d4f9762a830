-------------------------- MODULE StreamCopyProofs --------------------------
(***************************************************************************)
(* Proofs about StreamCopy, for every size of the two ByteStreams, of the  *)
(* kernel's buffers and of the pieces written, and any number of bytes.    *)
(***************************************************************************)
EXTENDS StreamCopy, ByteStreamProofs, SequenceTheorems

Rules == 1 .. 4

LoopType == [pc : {"top", "poll", "results"}, rules : SUBSET Rules, want : SUBSET Rules,
             ready : SUBSET Rules, hup : SUBSET Rules, err : SUBSET Rules, todo : SUBSET Rules]
StdinType == [buf : Seq(Nat), given : Nat, ended : BOOLEAN, pipe : BOOLEAN, eof : BOOLEAN]
SockType == [to : Seq(Nat), taken : Nat, from : Seq(Nat), given : Nat, ended : BOOLEAN,
             gone : BOOLEAN, shut : BOOLEAN, eof : BOOLEAN]
StdoutType == [buf : Seq(Nat), taken : Nat, broken : BOOLEAN, closed : BOOLEAN]

CopyType ==
  /\ phase \in {"copying", "returned", "thrown", "killed"}
  /\ loop \in LoopType
  /\ outbound \in ByteStream(BUFFER_SIZE)
  /\ inbound \in ByteStream(BUFFER_SIZE)
  /\ flags \in [outbound : BOOLEAN, inbound : BOOLEAN]
  /\ stdin \in StdinType
  /\ sock \in SockType
  /\ stdout \in StdoutType

(* A stream's counters agree with what is in it, and it has no error.       *)
Sound(s) == s.total_write = s.total_read + s.size /\ ~s.error

Bounded == /\ Sound(outbound) /\ Sound(inbound)
           /\ Len(sock.to) <= PIPE /\ Len(stdout.buf) <= PIPE
           /\ sock.taken <= stdin.given /\ stdout.taken <= sock.given

(* Nothing more comes from standard input, or from the thread.             *)
StdinDone == stdin.ended /\ stdin.buf = <<>>
SockDone  == (sock.ended \/ sock.gone) /\ sock.from = <<>>

(* Who ended a stream, and what follows from it.                           *)
Ends ==
  /\ sock.shut => StdinDone /\ outbound.size = 0
  /\ 2 \in loop.rules /\ outbound.eof_input => StdinDone
  /\ stdin.eof => StdinDone /\ outbound.eof_input
  /\ inbound.eof_input => SockDone
  /\ sock.eof => inbound.eof_input
  /\ stdout.closed => inbound.eof_input /\ inbound.size = 0
  /\ flags.outbound => sock.shut
  /\ flags.inbound => stdout.closed

(* Why a rule is gone.                                                     *)
Gone ==
  /\ 1 \notin loop.rules => outbound.eof_input
  /\ 2 \notin loop.rules => sock.gone \/ sock.shut
  /\ 3 \notin loop.rules => inbound.eof_input
  /\ 4 \notin loop.rules => stdout.closed

(* What the loop decided on remains true until it acts on it.              *)
Decided ==
  /\ loop.pc = "poll" =>
       /\ loop.want \subseteq loop.rules
       /\ 1 \in loop.want => outbound.size < BUFFER_SIZE
       /\ 3 \in loop.want => inbound.size < BUFFER_SIZE
  /\ loop.pc = "results" =>
       /\ loop.todo # {} /\ loop.todo \subseteq loop.rules /\ loop.ready \subseteq loop.want
       /\ 1 \in loop.todo \cap loop.ready =>
            outbound.size < BUFFER_SIZE /\ (stdin.buf # <<>> \/ stdin.ended)
       /\ 3 \in loop.todo \cap loop.ready =>
            inbound.size < BUFFER_SIZE /\ (sock.from # <<>> \/ sock.ended \/ sock.gone)
       /\ 1 \in (loop.hup \cap loop.want) \ loop.ready => StdinDone
       /\ 2 \in loop.hup => sock.gone \/ sock.shut
       /\ 3 \notin (loop.hup \cap loop.want) \ loop.ready
       /\ 4 \notin loop.hup

Returned == phase = "returned" /\ ~sock.gone => sock.shut /\ stdout.closed

CopyInv == CopyType /\ Bounded /\ NothingLost /\ Ends /\ Gone /\ Decided /\ Returned
-----------------------------------------------------------------------------
(* The sizes the program is compiled with are positive.                     *)
LEMMA Sizes == /\ BUFFER_SIZE \in Nat /\ BUFFER_SIZE > 0
               /\ MAX_COPY_LENGTH \in Nat /\ MAX_COPY_LENGTH > 0
               /\ PIPE \in Nat /\ PIPE > 0
BY SMTT(30), CopyAssumption

(* Cutting a sequence in two loses nothing.                                *)
LEMMA Split ==
  ASSUME NEW b \in Seq(Nat), NEW n \in 0 .. Len(b)
  PROVE  /\ SubSeq(b, 1, n) \in Seq(Nat) /\ SubSeq(b, n + 1, Len(b)) \in Seq(Nat)
         /\ Len(SubSeq(b, 1, n)) = n /\ Len(SubSeq(b, n + 1, Len(b))) = Len(b) - n
         /\ SubSeq(b, 1, n) \o SubSeq(b, n + 1, Len(b)) = b
<1>1. Len(b) \in Nat /\ 1 \in 1 .. Len(b) + 1 /\ n \in 1 - 1 .. Len(b) /\ Len(b) \in n .. Len(b)
  OBVIOUS
<1>2. SubSeq(b, 1, n) \o SubSeq(b, n + 1, Len(b)) = SubSeq(b, 1, Len(b))
  BY Zenon, <1>1, ConcatAdjacentSubSeq
<1>3. SubSeq(b, 1, Len(b)) = b
  BY SubSeqFull
<1>4. \A i \in 1 .. n : b[i] \in Nat
  OBVIOUS
<1>5. \A i \in n + 1 .. Len(b) : b[i] \in Nat
  OBVIOUS
<1>6. SubSeq(b, 1, n) \in Seq(Nat) /\ Len(SubSeq(b, 1, n)) = n
  OBVIOUS
<1>7. SubSeq(b, n + 1, Len(b)) \in Seq(Nat) /\ Len(SubSeq(b, n + 1, Len(b))) = Len(b) - n
  OBVIOUS
<1> QED  BY Zenon, <1>2, <1>3, <1>6, <1>7

(* Bytes in three places are in the same order whichever two are joined.   *)
LEMMA Assoc ==
  ASSUME NEW a \in Seq(Nat), NEW b \in Seq(Nat), NEW c \in Seq(Nat)
  PROVE  (a \o b) \o c = a \o (b \o c)
OBVIOUS

(* One more number at the end, and one less at the front.                  *)
LEMMA NumbersGrow ==
  ASSUME NEW a \in Nat, NEW b \in Nat, a <= b
  PROVE  /\ Numbers(a, b) \in Seq(Nat) /\ Len(Numbers(a, b)) = b - a
         /\ Append(Numbers(a, b), b) = Numbers(a, b + 1)
         /\ Numbers(a, b) # <<>> => a + 1 <= b /\ Tail(Numbers(a, b)) = Numbers(a + 1, b)
BY DEF Numbers

(* FileDescriptor::read moves bytes from the front of the descriptor to the *)
(* end of the stream, and ends the stream only when there are none to read. *)
LEMMA ReadMoves ==
  ASSUME NEW s \in ByteStream(BUFFER_SIZE), Sound(s), NEW b \in Seq(Nat)
  PROVE  LET d == fd_read(s, b)
         IN  /\ d.stream \in ByteStream(BUFFER_SIZE) /\ Sound(d.stream)
             /\ d.buf \in Seq(Nat) /\ d.eof \in BOOLEAN
             /\ Contents(d.stream) \o d.buf = Contents(s) \o b
             /\ d.stream.eof_input <=> s.eof_input \/ d.eof
             /\ d.eof /\ s.size < BUFFER_SIZE => b = <<>>
             /\ b = <<>> => d.buf = <<>> /\ d.stream.size = s.size
<1> DEFINE C == BUFFER_SIZE
           n == min(remaining_capacity(s), Len(b))
           w == SubSeq(b, 1, n)
           v == SubSeq(b, n + 1, Len(b))
           t == write(s, w)
           u == IF n = 0 THEN end_input(t) ELSE t
           d == fd_read(s, b)
<1>1. /\ C \in Nat /\ C > 0 /\ Len(b) \in Nat
      /\ s.size \in 0 .. C /\ remaining_capacity(s) = C - s.size
      /\ s.total_write \in Nat /\ s.total_read \in Nat /\ s.eof_input \in BOOLEAN
  BY Sizes, Fields DEF remaining_capacity
<1>2. n \in Nat /\ n \in 0 .. Len(b) /\ n <= C - s.size /\ (n = 0 => s.size = C \/ Len(b) = 0)
  BY <1>1 DEF min
<1>3. d.stream = u /\ d.buf = v /\ (d.eof <=> n = 0) /\ d.eof \in BOOLEAN
  BY Zenon DEF fd_read
<1> HIDE DEF n
<1>4. w \in Seq(Nat) /\ v \in Seq(Nat) /\ Len(w) = n /\ Len(v) = Len(b) - n /\ w \o v = b
  BY Zenon, <1>2, Split
<1>5. SubSeq(w, 1, n) = w
  BY Zenon, <1>4, SubSeqFull
<1> HIDE DEF w, v
<1>6. min(Len(w), remaining_capacity(s)) = n
  BY <1>1, <1>2, <1>4 DEF min
<1>7. /\ t \in ByteStream(C) /\ t.size = s.size + n /\ t.total_write = s.total_write + n
      /\ Same(s, t) /\ Contents(t) = Contents(s) \o w
  <2> DEFINE m == min(Len(w), remaining_capacity(s))
  <2>1. /\ t \in ByteStream(C) /\ t.size = s.size + m /\ t.total_write = s.total_write + m
        /\ Same(s, t) /\ Contents(t) = Contents(s) \o SubSeq(w, 1, m)
    BY <1>1, <1>4, WriteAppends, Zenon
  <2> QED  BY <1>5, <1>6, <2>1, Zenon
<1> HIDE DEF t
<1>8. /\ u \in ByteStream(C) /\ u.size = t.size /\ u.total_write = t.total_write
      /\ u.total_read = t.total_read /\ (u.error <=> t.error)
      /\ (u.eof_input <=> t.eof_input \/ n = 0) /\ Contents(u) = Contents(t)
  <2>1. CASE n = 0
    <3> DEFINE e == end_input(t)
    <3>1. /\ e \in ByteStream(C) /\ e.eof_input /\ e.error = t.error
          /\ e.size = t.size /\ e.total_read = t.total_read
          /\ e.total_write = t.total_write /\ Contents(e) = Contents(t)
      BY <1>1, <1>7, EndKeepsBytes, Zenon
    <3>2. u = e
      BY <2>1
    <3> HIDE DEF e, u
    <3> QED  BY <2>1, <3>1, <3>2, Zenon
  <2>2. CASE n # 0
    BY <1>7, <2>2, Zenon
  <2> QED  BY <2>1, <2>2
<1> HIDE DEF u
<1>9. Contents(u) \o v = Contents(s) \o b
  <2> DEFINE c == Contents(s)
  <2>1. c \in Seq(Nat)
    BY <1>1, ContentsType
  <2> HIDE DEF c
  <2>2. (c \o w) \o v = c \o (w \o v)
    BY <1>4, <2>1, Assoc, Zenon
  <2> QED  BY <1>4, <1>7, <1>8, <2>2, Zenon DEF c
<1>10. Sound(u)
  <2>1. /\ s.total_write = s.total_read + s.size /\ ~s.error
        /\ t.total_read = s.total_read /\ (t.error <=> s.error)
    BY <1>7, Zenon DEF Sound, Same
  <2>2. u.total_write = u.total_read + u.size
    BY <1>1, <1>2, <1>7, <1>8, <2>1
  <2> QED  BY <1>8, <2>1, <2>2 DEF Sound
<1>11. b = <<>> => v = <<>> /\ u.size = s.size
  BY <1>1, <1>2, <1>4, <1>7, <1>8
<1>12. u.eof_input <=> s.eof_input \/ n = 0
  BY <1>7, <1>8 DEF Same
<1>13. n = 0 /\ s.size < C => b = <<>>
  BY <1>1, <1>2
<1> HIDE DEF d
<1>14. QED  BY <1>3, <1>4, <1>8, <1>9, <1>10, <1>11, <1>12, <1>13 DEF d

(* FileDescriptor::write moves bytes from the front of the stream to the   *)
(* end of the descriptor, as many as the kernel's buffer takes.            *)
LEMMA WriteMoves ==
  ASSUME NEW s \in ByteStream(BUFFER_SIZE), Sound(s), NEW b \in Seq(Nat), Len(b) <= PIPE
  PROVE  LET d == fd_write(s, b)
         IN  /\ d.stream \in ByteStream(BUFFER_SIZE) /\ Sound(d.stream)
             /\ d.buf \in Seq(Nat) /\ Len(d.buf) <= PIPE
             /\ d.buf \o Contents(d.stream) = b \o Contents(s)
             /\ d.stream.eof_input = s.eof_input /\ d.stream.size <= s.size
             /\ over(d.stream) <=> d.stream.eof_input /\ d.stream.size = 0
<1> DEFINE C == BUFFER_SIZE
           asked == min(MAX_COPY_LENGTH, s.size)
           n == min(asked, PIPE - Len(b))
           c == Contents(s)
           p == SubSeq(c, 1, n)
           q == SubSeq(c, n + 1, s.size)
           t == pop_output(s, n)
           d == fd_write(s, b)
<1>1. /\ C \in Nat /\ C > 0 /\ Len(b) \in Nat /\ MAX_COPY_LENGTH \in Nat /\ PIPE \in Nat
      /\ s.size \in 0 .. C /\ s.total_write \in Nat /\ s.total_read \in Nat
  BY Sizes, Fields
<1>2. asked \in Nat /\ asked \in 0 .. s.size
  BY <1>1 DEF min
<1>3. n \in Nat /\ n \in 0 .. s.size /\ n \in 0 .. asked /\ Len(b) + n <= PIPE
  BY <1>1, <1>2 DEF min
<1>4. d.stream = t /\ d.buf = b \o SubSeq(peek_output(s, asked), 1, n)
  BY Zenon DEF fd_write, popped
<1> HIDE DEF n, asked
<1>5. c \in Seq(Nat) /\ Len(c) = s.size
  BY <1>1, ContentsType
<1> HIDE DEF c
<1>6. peek_output(s, asked) = SubSeq(c, 1, asked)
  BY <1>1, <1>2, PeekReturns DEF c
<1>7. SubSeq(SubSeq(c, 1, asked), 1, n) = p
  BY <1>2, <1>3, <1>5
<1>8. p \in Seq(Nat) /\ q \in Seq(Nat) /\ Len(p) = n /\ p \o q = c
  BY Zenon, <1>3, <1>5, Split
<1>9. /\ t \in ByteStream(C) /\ t.size = s.size - n /\ t.total_read = s.total_read + n
      /\ t.total_write = s.total_write /\ t.eof_input = s.eof_input /\ t.error = s.error
      /\ Contents(t) = q
  BY <1>1, <1>3, PopDrops DEF c
<1> HIDE DEF p, q, t
<1>10. (b \o p) \o q = b \o c
  BY <1>8, Assoc, Zenon
<1>11. b \o p \in Seq(Nat) /\ Len(b \o p) <= PIPE
  BY <1>1, <1>3, <1>8, ConcatProperties
<1>12. Sound(t)
  BY <1>1, <1>3, <1>9 DEF Sound
<1>13. over(t) <=> t.eof_input /\ t.size = 0
  <2>1. t.total_read = t.total_write <=> t.size = 0
    BY SMTT(30), <1>1, <1>3, <1>9, <1>12 DEF Sound
  <2> QED  BY <2>1, Zenon DEF over, stream_eof
<1>14. t.size <= s.size
  BY <1>1, <1>3, <1>9
<1>15. d.stream = t /\ d.buf = b \o p
  BY Zenon, <1>4, <1>6, <1>7
<1> HIDE DEF d
<1> QED  BY SMTT(30), <1>9, <1>10, <1>11, <1>12, <1>13, <1>14, <1>15 DEF d, c

-----------------------------------------------------------------------------
(* What is between the two ends of a direction: a in the kernel towards the *)
(* taker, s in the program, b in the kernel from the giver.                *)
Flow(a, s, b, taken, given) == a \o Contents(s) \o b = Numbers(taken, given)

(* The giver adds a byte behind all others.                                *)
LEMMA FlowGive ==
  ASSUME NEW s \in ByteStream(BUFFER_SIZE), NEW a \in Seq(Nat), NEW b \in Seq(Nat),
         NEW t \in Nat, NEW g \in Nat, t <= g, Flow(a, s, b, t, g)
  PROVE  Flow(a, s, Append(b, g), t, g + 1)
<1> DEFINE c == Contents(s)
           h == a \o c
<1>1. c \in Seq(Nat)
  BY Sizes, ContentsType
<1> HIDE DEF c
<1>2. h \in Seq(Nat)
  BY <1>1
<1> HIDE DEF h
<1>3. h \o Append(b, g) = Append(h \o b, g)
  BY SMTT(30), <1>2
<1>4. h \o b = Numbers(t, g)
  BY DEF Flow, h, c
<1>5. Append(Numbers(t, g), g) = Numbers(t, g + 1)
  BY Zenon, NumbersGrow
<1> QED  BY <1>3, <1>4, <1>5 DEF Flow, h, c

(* The taker removes the byte before all others.                           *)
LEMMA FlowTake ==
  ASSUME NEW s \in ByteStream(BUFFER_SIZE), NEW a \in Seq(Nat), NEW b \in Seq(Nat),
         NEW t \in Nat, NEW g \in Nat, t <= g, Flow(a, s, b, t, g), a # <<>>
  PROVE  Flow(Tail(a), s, b, t + 1, g) /\ t + 1 <= g
<1> DEFINE c == Contents(s)
           r == c \o b
           n == Numbers(t, g)
<1>1. c \in Seq(Nat)
  BY Sizes, ContentsType
<1> HIDE DEF c
<1>2. r \in Seq(Nat)
  BY <1>1
<1>3. Tail(a) \in Seq(Nat)
  OBVIOUS
<1>4. (a \o c) \o b = a \o r /\ (Tail(a) \o c) \o b = Tail(a) \o r
  BY ZenonT(30), <1>1, <1>3, Assoc
<1> HIDE DEF r
<1>5. a \o r = n
  BY <1>4 DEF Flow, c
<1>6. Tail(a \o r) = Tail(a) \o r /\ a \o r # <<>>
  BY <1>2
<1>7. t + 1 <= g /\ Tail(n) = Numbers(t + 1, g)
  BY Zenon, <1>5, <1>6, NumbersGrow
<1> HIDE DEF n
<1> QED  BY Zenon, <1>4, <1>5, <1>6, <1>7 DEF Flow, c

(* A read keeps all bytes and their order.                                 *)
LEMMA FlowRead ==
  ASSUME NEW s \in ByteStream(BUFFER_SIZE), Sound(s), NEW a \in Seq(Nat), NEW b \in Seq(Nat),
         NEW t, NEW g, Flow(a, s, b, t, g)
  PROVE  Flow(a, fd_read(s, b).stream, fd_read(s, b).buf, t, g)
<1> DEFINE d == fd_read(s, b)
           c == Contents(s)
           e == Contents(d.stream)
           f == d.buf
<1>1. d.stream \in ByteStream(BUFFER_SIZE) /\ f \in Seq(Nat) /\ e \o f = c \o b
  BY Zenon, ReadMoves
<1> HIDE DEF d, f
<1>2. c \in Seq(Nat) /\ e \in Seq(Nat)
  BY <1>1, Sizes, ContentsType
<1>3. (a \o c) \o b = Numbers(t, g)
  BY DEF Flow
<1> HIDE DEF c, e
<1>4. (a \o c) \o b = a \o (c \o b) /\ (a \o e) \o f = a \o (e \o f)
  BY Zenon, <1>1, <1>2, Assoc
<1> QED  BY <1>1, <1>3, <1>4 DEF Flow, d, e, f

(* A write keeps all bytes and their order.                                *)
LEMMA FlowWrite ==
  ASSUME NEW s \in ByteStream(BUFFER_SIZE), Sound(s), NEW a \in Seq(Nat), Len(a) <= PIPE,
         NEW b, NEW t, NEW g, Flow(a, s, b, t, g)
  PROVE  Flow(fd_write(s, a).buf, fd_write(s, a).stream, b, t, g)
<1> DEFINE d == fd_write(s, a)
<1>1. d.buf \o Contents(d.stream) = a \o Contents(s)
  BY Zenon, WriteMoves
<1> HIDE DEF d
<1> QED  BY <1>1 DEF Flow, d

-----------------------------------------------------------------------------
(* Standard input, whoever changes it, keeps what was given and ended.      *)
StdinStep(buf, given, ended, eof) ==
  /\ stdin' \in StdinType
  /\ stdin'.buf = buf /\ stdin'.given = given /\ stdin'.pipe = stdin.pipe
  /\ (stdin'.ended <=> ended) /\ (stdin'.eof <=> eof)

SockStep(to, taken, from, given, ended, gone, shut, eof) ==
  /\ sock' \in SockType
  /\ sock'.to = to /\ sock'.taken = taken /\ sock'.from = from /\ sock'.given = given
  /\ (sock'.ended <=> ended) /\ (sock'.gone <=> gone)
  /\ (sock'.shut <=> shut) /\ (sock'.eof <=> eof)

StdoutStep(buf, taken, closed) ==
  /\ stdout' \in StdoutType
  /\ stdout'.buf = buf /\ stdout'.taken = taken /\ (stdout'.closed <=> closed)

(* The environment's steps, field by field.                                *)
LEMMA EnvironmentSteps ==
  ASSUME CopyType
  PROVE  /\ type => StdinStep(Append(stdin.buf, stdin.given), stdin.given + 1, stdin.ended,
                              stdin.eof)
         /\ type_end => StdinStep(stdin.buf, stdin.given, TRUE, stdin.eof)
         /\ peer_take => SockStep(Tail(sock.to), sock.taken + 1, sock.from, sock.given,
                                  sock.ended, sock.gone, sock.shut, sock.eof)
         /\ peer_send => SockStep(sock.to, sock.taken, Append(sock.from, sock.given),
                                  sock.given + 1, sock.ended, sock.gone, sock.shut, sock.eof)
         /\ peer_end => SockStep(sock.to, sock.taken, sock.from, sock.given, TRUE, sock.gone,
                                 sock.shut, sock.eof)
         /\ peer_gone => SockStep(sock.to, sock.taken, sock.from, sock.given, sock.ended, TRUE,
                                  sock.shut, sock.eof)
         /\ reader_take => StdoutStep(Tail(stdout.buf), stdout.taken + 1, stdout.closed)
         /\ reader_gone => StdoutStep(stdout.buf, stdout.taken, stdout.closed)
<1> DEFINE b == TRUE
<1>0. b \in BOOLEAN /\ b
  OBVIOUS
<1>1. stdin \in StdinType /\ sock \in SockType /\ stdout \in StdoutType
  BY DEF CopyType, StdinType, SockType, StdoutType
<1>2. ASSUME type PROVE StdinStep(Append(stdin.buf, stdin.given), stdin.given + 1, stdin.ended,
                                  stdin.eof)
  <2> DEFINE x == Append(stdin.buf, stdin.given)
             y == stdin.given + 1
  <2>1. stdin' = [stdin EXCEPT !.buf = x, !.given = y]
    BY <1>2 DEF type
  <2>2. x \in Seq(Nat) /\ y \in Nat
    BY <1>1, <1>2 DEF type, StdinType
  <2> HIDE DEF x, y
  <2>3. StdinStep(x, y, stdin.ended, stdin.eof)
    BY Zenon, <1>1, <2>1, <2>2 DEF StdinStep, StdinType
  <2> QED  BY <2>3 DEF x, y
<1>3. ASSUME type_end PROVE StdinStep(stdin.buf, stdin.given, TRUE, stdin.eof)
  <2>1. stdin' = [stdin EXCEPT !.ended = b]
    BY <1>3, Zenon DEF type_end
  <2> HIDE DEF b
  <2> QED  BY Zenon, <1>0, <1>1, <2>1 DEF StdinStep, StdinType
<1>4. ASSUME peer_take
      PROVE  SockStep(Tail(sock.to), sock.taken + 1, sock.from, sock.given,
                      sock.ended, sock.gone, sock.shut, sock.eof)
  <2> DEFINE x == Tail(sock.to)
             y == sock.taken + 1
  <2>1. sock' = [sock EXCEPT !.to = x, !.taken = y]
    BY <1>4 DEF peer_take
  <2>2. x \in Seq(Nat) /\ y \in Nat
    BY <1>1, <1>4 DEF peer_take, SockType
  <2> HIDE DEF x, y
  <2>3. SockStep(x, y, sock.from, sock.given, sock.ended, sock.gone, sock.shut, sock.eof)
    BY Zenon, <1>1, <2>1, <2>2 DEF SockStep, SockType
  <2> QED  BY <2>3 DEF x, y
<1>5. ASSUME peer_send
      PROVE  SockStep(sock.to, sock.taken, Append(sock.from, sock.given),
                      sock.given + 1, sock.ended, sock.gone, sock.shut, sock.eof)
  <2> DEFINE x == Append(sock.from, sock.given)
             y == sock.given + 1
  <2>1. sock' = [sock EXCEPT !.from = x, !.given = y]
    BY <1>5 DEF peer_send
  <2>2. x \in Seq(Nat) /\ y \in Nat
    BY <1>1, <1>5 DEF peer_send, SockType
  <2> HIDE DEF x, y
  <2>3. SockStep(sock.to, sock.taken, x, y, sock.ended, sock.gone, sock.shut, sock.eof)
    BY Zenon, <1>1, <2>1, <2>2 DEF SockStep, SockType
  <2> QED  BY <2>3 DEF x, y
<1>6. ASSUME peer_end
      PROVE  SockStep(sock.to, sock.taken, sock.from, sock.given, TRUE, sock.gone,
                      sock.shut, sock.eof)
  <2>1. sock' = [sock EXCEPT !.ended = b]
    BY <1>6, Zenon DEF peer_end
  <2> HIDE DEF b
  <2> QED  BY Zenon, <1>0, <1>1, <2>1 DEF SockStep, SockType
<1>7. ASSUME peer_gone
      PROVE  SockStep(sock.to, sock.taken, sock.from, sock.given, sock.ended, TRUE,
                      sock.shut, sock.eof)
  <2>1. sock' = [sock EXCEPT !.gone = b]
    BY <1>7, Zenon DEF peer_gone
  <2> HIDE DEF b
  <2> QED  BY Zenon, <1>0, <1>1, <2>1 DEF SockStep, SockType
<1>8. ASSUME reader_take PROVE StdoutStep(Tail(stdout.buf), stdout.taken + 1, stdout.closed)
  <2> DEFINE x == Tail(stdout.buf)
             y == stdout.taken + 1
  <2>1. stdout' = [stdout EXCEPT !.buf = x, !.taken = y]
    BY <1>8 DEF reader_take
  <2>2. x \in Seq(Nat) /\ y \in Nat
    BY <1>1, <1>8 DEF reader_take, StdoutType
  <2> HIDE DEF x, y
  <2>3. StdoutStep(x, y, stdout.closed)
    BY Zenon, <1>1, <2>1, <2>2 DEF StdoutStep, StdoutType
  <2> QED  BY <2>3 DEF x, y
<1>9. ASSUME reader_gone PROVE StdoutStep(stdout.buf, stdout.taken, stdout.closed)
  <2>1. stdout' = [stdout EXCEPT !.broken = b]
    BY <1>9, Zenon DEF reader_gone
  <2> HIDE DEF b
  <2> QED  BY Zenon, <1>0, <1>1, <2>1 DEF StdoutStep, StdoutType
<1> QED  BY Zenon, <1>2, <1>3, <1>4, <1>5, <1>6, <1>7, <1>8, <1>9

(* What the environment leaves alone, and what it can only make true.      *)
Onwards ==
  /\ UNCHANGED <<phase, loop, streams>>
  /\ (stdin'.eof <=> stdin.eof) /\ (sock'.eof <=> sock.eof) /\ (sock'.shut <=> sock.shut)
  /\ (stdout'.closed <=> stdout.closed) /\ (sock.gone => sock'.gone)
  /\ (StdinDone => StdinDone') /\ (SockDone => SockDone')
  /\ (stdin.buf # <<>> \/ stdin.ended => stdin'.buf # <<>> \/ stdin'.ended)
  /\ (sock.from # <<>> \/ sock.ended \/ sock.gone =>
        sock'.from # <<>> \/ sock'.ended \/ sock'.gone)

(* Such a step keeps what is known of the ends, the rules and the loop.    *)
LEMMA OnwardsKeeps ==
  ASSUME Onwards
  PROVE  /\ Ends => Ends'
         /\ Gone => Gone'
         /\ Decided => Decided'
         /\ Returned => Returned'
<1>1. /\ phase' = phase /\ loop' = loop /\ outbound' = outbound /\ inbound' = inbound
      /\ flags' = flags
  BY DEF Onwards, streams
<1>2. Ends => Ends'
  <2> HAVE Ends
  <2> QED  BY <1>1, Zenon DEF Ends, Onwards
<1>3. Gone => Gone'
  BY <1>1 DEF Gone, Onwards
<1>4. Decided => Decided'
  <2> HAVE Decided
  <2> QED  BY <1>1, Zenon DEF Decided, Onwards
<1>5. Returned => Returned'
  BY <1>1, Zenon DEF Returned, Onwards
<1> QED  BY <1>2, <1>3, <1>4, <1>5

(* Nothing the environment does breaks the invariant.                      *)
LEMMA EnvironmentInv == ASSUME CopyInv, Environment PROVE CopyInv'
<1>1. CopyType /\ Bounded /\ Flow(sock.to, outbound, stdin.buf, sock.taken, stdin.given)
      /\ Flow(stdout.buf, inbound, sock.from, stdout.taken, sock.given)
  BY DEF CopyInv, NothingLost, Flow
<1>2. /\ stdin \in StdinType /\ sock \in SockType /\ stdout \in StdoutType
      /\ outbound \in ByteStream(BUFFER_SIZE) /\ inbound \in ByteStream(BUFFER_SIZE)
  BY <1>1 DEF CopyType, StdinType, SockType, StdoutType
<1>3. /\ sock.taken <= stdin.given /\ stdout.taken <= sock.given
      /\ Len(sock.to) <= PIPE /\ Len(stdout.buf) <= PIPE
  BY <1>1 DEF Bounded
<1>4. UNCHANGED <<phase, loop, streams>>
  BY DEF Environment
<1> DEFINE Kept == /\ stdin' \in StdinType /\ sock' \in SockType /\ stdout' \in StdoutType
                   /\ Len(sock'.to) <= PIPE /\ Len(stdout'.buf) <= PIPE
                   /\ sock'.taken <= stdin'.given /\ stdout'.taken <= sock'.given
                   /\ Flow(sock'.to, outbound, stdin'.buf, sock'.taken, stdin'.given)
                   /\ Flow(stdout'.buf, inbound, sock'.from, stdout'.taken, sock'.given)
                   /\ Onwards
<1>5. SUFFICES Kept
  <2>1. Onwards
    OBVIOUS
  <2>2. Ends' /\ Gone' /\ Decided' /\ Returned'
    BY <2>1, OnwardsKeeps DEF CopyInv
  <2>3. outbound' = outbound /\ inbound' = inbound /\ phase' = phase /\ loop' = loop
        /\ flags' = flags
    BY <1>4 DEF streams
  <2>4. CopyType'
    BY <1>1, <2>3 DEF CopyType, StdinType, SockType, StdoutType
  <2>5. Bounded'
    BY <1>1, <2>3 DEF Bounded
  <2>6. NothingLost'
    BY <2>3, Zenon DEF NothingLost, Flow
  <2> QED  BY <2>2, <2>4, <2>5, <2>6 DEF CopyInv
<1>6. CASE type
  <2>1. /\ StdinStep(Append(stdin.buf, stdin.given), stdin.given + 1, stdin.ended, stdin.eof)
        /\ sock' = sock /\ stdout' = stdout /\ ~stdin.ended
    BY <1>1, <1>6, EnvironmentSteps DEF type
  <2>2. Flow(sock'.to, outbound, stdin'.buf, sock'.taken, stdin'.given)
    BY <1>1, <1>2, <1>3, <2>1, FlowGive DEF StdinStep, StdinType, SockType
  <2>3. sock'.taken <= stdin'.given
    BY <1>2, <1>3, <2>1 DEF StdinStep, StdinType, SockType
  <2>4. stdin'.buf # <<>>
    <3>1. stdin.buf \in Seq(Nat) /\ stdin.given \in Nat
      BY <1>2 DEF StdinType
    <3>2. Append(stdin.buf, stdin.given) # <<>>
      BY <3>1
    <3> QED  BY Zenon, <2>1, <3>2 DEF StdinStep
  <2>5. Onwards
    BY <1>4, <2>1, <2>4 DEF Onwards, StdinStep, StdinDone, SockDone
  <2> QED  BY <1>1, <1>2, <1>3, <2>1, <2>2, <2>3, <2>5 DEF StdinStep
<1>7. CASE type_end
  <2>1. /\ StdinStep(stdin.buf, stdin.given, TRUE, stdin.eof)
        /\ sock' = sock /\ stdout' = stdout
    BY Zenon, <1>1, <1>7, EnvironmentSteps DEF type_end
  <2>2. Onwards
    BY <1>4, <2>1 DEF Onwards, StdinStep, StdinDone, SockDone
  <2> QED  BY <1>1, <1>2, <1>3, <2>1, <2>2 DEF StdinStep
<1>8. CASE peer_take
  <2>1. /\ SockStep(Tail(sock.to), sock.taken + 1, sock.from, sock.given,
                    sock.ended, sock.gone, sock.shut, sock.eof)
        /\ stdin' = stdin /\ stdout' = stdout /\ sock.to # <<>>
    BY <1>1, <1>8, EnvironmentSteps DEF peer_take
  <2>2. /\ Flow(sock'.to, outbound, stdin'.buf, sock'.taken, stdin'.given)
        /\ sock'.taken <= stdin'.given
    BY <1>1, <1>2, <1>3, <2>1, FlowTake DEF SockStep, StdinType, SockType
  <2>3. Len(sock'.to) <= PIPE
    BY <1>2, <1>3, <2>1, Sizes DEF SockStep, SockType
  <2>4. Onwards
    BY <1>4, <2>1 DEF Onwards, SockStep, StdinDone, SockDone
  <2> QED  BY <1>1, <1>2, <1>3, <2>1, <2>2, <2>3, <2>4 DEF SockStep
<1>9. CASE peer_send
  <2>1. /\ SockStep(sock.to, sock.taken, Append(sock.from, sock.given),
                    sock.given + 1, sock.ended, sock.gone, sock.shut, sock.eof)
        /\ stdin' = stdin /\ stdout' = stdout /\ ~sock.ended /\ ~sock.gone
    BY <1>1, <1>9, EnvironmentSteps DEF peer_send
  <2>2. Flow(stdout'.buf, inbound, sock'.from, stdout'.taken, sock'.given)
    BY <1>1, <1>2, <1>3, <2>1, FlowGive DEF SockStep, SockType, StdoutType
  <2>3. stdout'.taken <= sock'.given
    BY <1>2, <1>3, <2>1 DEF SockStep, StdoutType, SockType
  <2>4. sock'.from # <<>>
    <3>1. sock.from \in Seq(Nat) /\ sock.given \in Nat
      BY <1>2 DEF SockType
    <3>2. Append(sock.from, sock.given) # <<>>
      BY <3>1
    <3> QED  BY Zenon, <2>1, <3>2 DEF SockStep
  <2>5. Onwards
    BY <1>4, <2>1, <2>4 DEF Onwards, SockStep, StdinDone, SockDone
  <2> QED  BY <1>1, <1>2, <1>3, <2>1, <2>2, <2>3, <2>5 DEF SockStep
<1>10. CASE peer_end
  <2>1. /\ SockStep(sock.to, sock.taken, sock.from, sock.given, TRUE, sock.gone,
                    sock.shut, sock.eof)
        /\ stdin' = stdin /\ stdout' = stdout
    BY Zenon, <1>1, <1>10, EnvironmentSteps DEF peer_end
  <2>2. Onwards
    BY <1>4, <2>1 DEF Onwards, SockStep, StdinDone, SockDone
  <2> QED  BY <1>1, <1>2, <1>3, <2>1, <2>2 DEF SockStep
<1>11. CASE peer_gone
  <2>1. /\ SockStep(sock.to, sock.taken, sock.from, sock.given, sock.ended, TRUE,
                    sock.shut, sock.eof)
        /\ stdin' = stdin /\ stdout' = stdout
    BY Zenon, <1>1, <1>11, EnvironmentSteps DEF peer_gone
  <2>2. Onwards
    BY <1>4, <2>1 DEF Onwards, SockStep, StdinDone, SockDone
  <2> QED  BY <1>1, <1>2, <1>3, <2>1, <2>2 DEF SockStep
<1>12. CASE reader_take
  <2>1. /\ StdoutStep(Tail(stdout.buf), stdout.taken + 1, stdout.closed)
        /\ stdin' = stdin /\ sock' = sock /\ stdout.buf # <<>>
    BY <1>1, <1>12, EnvironmentSteps DEF reader_take
  <2>2. /\ Flow(stdout'.buf, inbound, sock'.from, stdout'.taken, sock'.given)
        /\ stdout'.taken <= sock'.given
    BY <1>1, <1>2, <1>3, <2>1, FlowTake DEF StdoutStep, SockType, StdoutType
  <2>3. Len(stdout'.buf) <= PIPE
    BY <1>2, <1>3, <2>1, Sizes DEF StdoutStep, StdoutType
  <2>4. Onwards
    BY <1>4, <2>1 DEF Onwards, StdoutStep, StdinDone, SockDone
  <2> QED  BY <1>1, <1>2, <1>3, <2>1, <2>2, <2>3, <2>4 DEF StdoutStep
<1>13. CASE reader_gone
  <2>1. StdoutStep(stdout.buf, stdout.taken, stdout.closed) /\ stdin' = stdin /\ sock' = sock
    BY <1>1, <1>13, EnvironmentSteps DEF reader_gone
  <2>2. Onwards
    BY <1>4, <2>1 DEF Onwards, StdoutStep, StdinDone, SockDone
  <2> QED  BY <1>1, <1>2, <1>3, <2>1, <2>2 DEF StdoutStep
<1> QED  BY <1>6, <1>7, <1>8, <1>9, <1>10, <1>11, <1>12, <1>13 DEF Environment

-----------------------------------------------------------------------------

(* Cancelling rules ends streams, and takes nothing out of them.           *)
LEMMA CancelEnds ==
  ASSUME CopyType, Bounded, NEW set, cancel(set)
  PROVE  /\ outbound' \in ByteStream(BUFFER_SIZE) /\ inbound' \in ByteStream(BUFFER_SIZE)
         /\ Sound(outbound') /\ Sound(inbound')
         /\ outbound'.size = outbound.size /\ inbound'.size = inbound.size
         /\ Contents(outbound') = Contents(outbound) /\ Contents(inbound') = Contents(inbound)
         /\ outbound'.eof_input <=> outbound.eof_input \/ set \cap {1, 2} # {}
         /\ inbound'.eof_input <=> inbound.eof_input \/ set \cap {3, 4} # {}
         /\ flags' = flags
<1> DEFINE o == end_input(outbound)
           i == end_input(inbound)
<1>1. /\ outbound \in ByteStream(BUFFER_SIZE) /\ inbound \in ByteStream(BUFFER_SIZE)
      /\ Sound(outbound) /\ Sound(inbound)
  BY DEF CopyType, Bounded
<1>2. /\ o \in ByteStream(BUFFER_SIZE) /\ o.eof_input /\ o.error = outbound.error
      /\ o.size = outbound.size /\ o.total_read = outbound.total_read
      /\ o.total_write = outbound.total_write /\ Contents(o) = Contents(outbound)
  BY <1>1, Sizes, EndKeepsBytes, Zenon
<1>3. /\ i \in ByteStream(BUFFER_SIZE) /\ i.eof_input /\ i.error = inbound.error
      /\ i.size = inbound.size /\ i.total_read = inbound.total_read
      /\ i.total_write = inbound.total_write /\ Contents(i) = Contents(inbound)
  BY <1>1, Sizes, EndKeepsBytes, Zenon
<1>4. Sound(o) /\ Sound(i)
  BY <1>1, <1>2, <1>3, Zenon DEF Sound
<1>5. /\ outbound' = IF set \cap {1, 2} # {} THEN o ELSE outbound
      /\ inbound' = IF set \cap {3, 4} # {} THEN i ELSE inbound
      /\ flags' = flags
  BY DEF cancel
<1> HIDE DEF o, i
<1>6. CASE set \cap {1, 2} # {}
  <2>1. outbound' = o
    BY <1>5, <1>6
  <2>2. CASE set \cap {3, 4} # {}
    <3>1. inbound' = i
      BY <1>5, <2>2
    <3> QED  BY <1>2, <1>3, <1>4, <1>5, <1>6, <2>1, <2>2, <3>1, Zenon
  <2>3. CASE ~(set \cap {3, 4} # {})
    <3>1. inbound' = inbound
      BY <1>5, <2>3
    <3> QED  BY <1>1, <1>2, <1>4, <1>5, <1>6, <2>1, <2>3, <3>1, Zenon
  <2> QED  BY <2>2, <2>3
<1>7. CASE ~(set \cap {1, 2} # {})
  <2>1. outbound' = outbound
    BY <1>5, <1>7
  <2>2. CASE set \cap {3, 4} # {}
    <3>1. inbound' = i
      BY <1>5, <2>2
    <3> QED  BY <1>1, <1>3, <1>4, <1>5, <1>7, <2>1, <2>2, <3>1, Zenon
  <2>3. CASE ~(set \cap {3, 4} # {})
    <3>1. inbound' = inbound
      BY <1>5, <2>3
    <3> QED  BY <1>1, <1>5, <1>7, <2>1, <2>3, <3>1, Zenon
  <2> QED  BY <2>2, <2>3
<1> QED  BY <1>6, <1>7

(* Asking the rules keeps the invariant; when none is interested and the   *)
(* thread is still there, both ends have been passed on.                   *)
LEMMA SetupInv == ASSUME CopyInv, setup PROVE CopyInv'
<1> DEFINE ended == {r \in loop.rules : \/ r = 1 /\ stdin.eof
                                        \/ r = 3 /\ sock.eof
                                        \/ r = 4 /\ stdout.closed}
           rules == loop.rules \ ended
           want  == {r \in rules : interest(r, outbound', inbound')}
<1>1. /\ CopyType /\ Bounded /\ NothingLost /\ Ends /\ Gone
  BY DEF CopyInv
<1>2. /\ phase = "copying" /\ cancel(ended) /\ phase' = IF want = {} THEN "returned" ELSE phase
      /\ loop' = [Top(rules) EXCEPT !.pc = "poll", !.want = want]
      /\ stdin' = stdin /\ sock' = sock /\ stdout' = stdout
  BY DEF setup
<1>3. /\ rules \in SUBSET Rules /\ want \in SUBSET Rules /\ want \subseteq rules
      /\ rules \subseteq loop.rules
  BY <1>1 DEF CopyType, LoopType
<1>4. /\ loop' \in LoopType /\ loop'.pc = "poll" /\ loop'.rules = rules /\ loop'.want = want
  <2> HIDE DEF rules, want
  <2> QED  BY Zenon, <1>2, <1>3 DEF Top, LoopType
<1>5. /\ outbound' \in ByteStream(BUFFER_SIZE) /\ inbound' \in ByteStream(BUFFER_SIZE)
      /\ Sound(outbound') /\ Sound(inbound')
      /\ outbound'.size = outbound.size /\ inbound'.size = inbound.size
      /\ Contents(outbound') = Contents(outbound) /\ Contents(inbound') = Contents(inbound)
      /\ outbound'.eof_input <=> outbound.eof_input \/ ended \cap {1, 2} # {}
      /\ inbound'.eof_input <=> inbound.eof_input \/ ended \cap {3, 4} # {}
      /\ flags' = flags
  <2> HIDE DEF ended
  <2> QED  BY <1>1, <1>2, CancelEnds, Zenon
<1>6. /\ outbound'.eof_input <=> outbound.eof_input
      /\ inbound'.eof_input <=> inbound.eof_input
  BY <1>1, <1>5 DEF Ends
<1>7. /\ 1 \notin rules => 1 \notin loop.rules \/ stdin.eof
      /\ 2 \notin rules => 2 \notin loop.rules
      /\ 3 \notin rules => 3 \notin loop.rules \/ sock.eof
      /\ 4 \notin rules => 4 \notin loop.rules \/ stdout.closed
  OBVIOUS
<1>8. /\ 1 \in want <=> 1 \in rules /\ interest_in(outbound', inbound')
      /\ 2 \in want <=> 2 \in rules /\ interest_out(outbound', flags.outbound)
      /\ 3 \in want <=> 3 \in rules /\ interest_in(inbound', outbound')
      /\ 4 \in want <=> 4 \in rules /\ interest_out(inbound', flags.inbound)
  BY DEF interest
<1> HIDE DEF rules, want
<1>9. /\ interest_in(outbound', inbound') <=> outbound.size < BUFFER_SIZE
      /\ interest_in(inbound', outbound') <=> inbound.size < BUFFER_SIZE
  <2>1. /\ outbound'.capacity = BUFFER_SIZE /\ outbound'.size \in Nat
        /\ inbound'.capacity = BUFFER_SIZE /\ inbound'.size \in Nat
    BY <1>5, Sizes, Fields
  <2>2. /\ remaining_capacity(outbound') > 0 <=> outbound.size < BUFFER_SIZE
        /\ remaining_capacity(inbound') > 0 <=> inbound.size < BUFFER_SIZE
    BY <1>5, <2>1, Sizes DEF remaining_capacity
  <2> QED  BY <1>5, <2>2, Zenon DEF interest_in, Sound
<1>10. ASSUME NEW s \in ByteStream(BUFFER_SIZE), Sound(s), NEW b, ~interest_out(s, b)
       PROVE  s.size = 0 /\ (s.eof_input => b)
  <2>1. s.size \in Nat /\ s.total_read \in Nat /\ s.total_write \in Nat
    BY Sizes, Fields
  <2>2. s.size = 0
    BY <1>10, <2>1 DEF interest_out
  <2>3. s.total_read = s.total_write
    BY <1>10, <2>1, <2>2 DEF Sound
  <2> QED  BY <1>10, <2>2, <2>3 DEF interest_out, stream_eof
<1>11. CopyType'
  BY <1>1, <1>2, <1>4, <1>5 DEF CopyType, LoopType
<1>12. Bounded' /\ NothingLost'
  BY <1>1, <1>2, <1>5, Zenon DEF Bounded, NothingLost
<1>13. Ends'
  BY <1>1, <1>2, <1>3, <1>4, <1>5, <1>6 DEF Ends, StdinDone, SockDone
<1>14. Gone'
  BY <1>1, <1>2, <1>4, <1>5, <1>6, <1>7 DEF Ends, Gone
<1>15. Decided'
  BY <1>3, <1>4, <1>5, <1>8, <1>9 DEF Decided
<1>16. Returned'
  <2>1. SUFFICES ASSUME want = {}, ~sock.gone PROVE sock.shut /\ stdout.closed
    BY <1>2 DEF Returned
  <2>2. /\ outbound.size \in 0 .. BUFFER_SIZE /\ inbound.size \in 0 .. BUFFER_SIZE
    BY <1>1, Sizes, Fields DEF CopyType
  <2>3. sock.shut
    <3>1. SUFFICES ASSUME ~sock.shut PROVE FALSE
      OBVIOUS
    <3>2. 2 \in rules
      BY <1>1, <1>7, <2>1, <3>1 DEF Gone
    <3>3. ~interest_out(outbound', flags.outbound)
      BY <1>8, <2>1, <3>2
    <3>4. outbound'.size = 0 /\ (outbound'.eof_input => flags.outbound)
      BY <1>5, <1>10, <3>3
    <3>5. 1 \notin rules
      BY <1>5, <1>8, <1>9, <2>1, <3>4, Sizes
    <3>6. outbound.eof_input
      BY <1>1, <1>7, <3>5 DEF Gone, Ends
    <3> QED  BY <1>1, <1>6, <3>1, <3>4, <3>6 DEF Ends
  <2>4. stdout.closed
    <3>1. SUFFICES ASSUME ~stdout.closed PROVE FALSE
      OBVIOUS
    <3>2. 4 \in rules
      BY <1>1, <1>7, <3>1 DEF Gone
    <3>3. ~interest_out(inbound', flags.inbound)
      BY <1>8, <2>1, <3>2
    <3>4. inbound'.size = 0 /\ (inbound'.eof_input => flags.inbound)
      BY <1>5, <1>10, <3>3
    <3>5. 3 \notin rules
      BY <1>5, <1>8, <1>9, <2>1, <3>4, Sizes
    <3>6. inbound.eof_input
      BY <1>1, <1>7, <3>5 DEF Gone, Ends
    <3> QED  BY <1>1, <1>6, <3>1, <3>4, <3>6 DEF Ends
  <2> QED  BY <2>3, <2>4
<1> QED  BY <1>11, <1>12, <1>13, <1>14, <1>15, <1>16 DEF CopyInv

(* poll keeps the invariant: what it reports is so.                        *)
LEMMA PollInv == ASSUME CopyInv, poll PROVE CopyInv'
<1> DEFINE able == {r \in loop.want : ready(r)}
           hup  == {r \in loop.rules : hung_up(r)}
           err  == {r \in loop.rules : failed(r)}
<1>1. /\ loop \in LoopType /\ Decided
  BY DEF CopyInv, CopyType, LoopType
<1>2. /\ loop.pc = "poll"
      /\ able # {} \/ hup # {} \/ err # {}
      /\ loop' = [loop EXCEPT !.pc = "results", !.ready = able, !.hup = hup, !.err = err,
                              !.todo = loop.rules]
      /\ phase' = phase /\ outbound' = outbound /\ inbound' = inbound /\ flags' = flags
      /\ stdin' = stdin /\ sock' = sock /\ stdout' = stdout
  BY DEF poll, streams
<1>3. /\ able \in SUBSET Rules /\ hup \in SUBSET Rules /\ err \in SUBSET Rules
      /\ able \subseteq loop.want /\ hup \subseteq loop.rules /\ err \subseteq loop.rules
  BY <1>1 DEF LoopType
<1>4. /\ 1 \in able => stdin.buf # <<>> \/ stdin.ended
      /\ 3 \in able => sock.from # <<>> \/ sock.ended \/ sock.gone
      /\ 1 \in (hup \cap loop.want) \ able => StdinDone
      /\ 2 \in hup => sock.gone \/ sock.shut
      /\ 3 \notin (hup \cap loop.want) \ able
      /\ 4 \notin hup
  BY DEF ready, hung_up, StdinDone
<1> HIDE DEF able, hup, err
<1>5. /\ loop' \in LoopType /\ loop'.pc = "results" /\ loop'.rules = loop.rules
      /\ loop'.want = loop.want /\ loop'.ready = able /\ loop'.hup = hup
      /\ loop'.todo = loop.rules
  BY Zenon, <1>1, <1>2, <1>3 DEF LoopType
<1>6. loop.want \subseteq loop.rules
  BY <1>1, <1>2 DEF Decided
<1>7. loop.rules # {}
  BY <1>2, <1>3, <1>6
<1>8. Decided'
  BY <1>1, <1>2, <1>3, <1>4, <1>5, <1>6, <1>7 DEF Decided, StdinDone
<1>9. CopyType' /\ Bounded' /\ NothingLost' /\ Returned'
  <2>1. CopyType'
    BY <1>2, <1>5 DEF CopyInv, CopyType, LoopType
  <2>2. Bounded' /\ NothingLost' /\ Returned'
    BY <1>2, Zenon DEF CopyInv, Bounded, NothingLost, Returned
  <2> QED  BY <2>1, <2>2
<1>10. Ends' /\ Gone'
  BY <1>2, <1>5 DEF CopyInv, Ends, Gone, StdinDone, SockDone
<1> QED  BY <1>8, <1>9, <1>10 DEF CopyInv

(* The rule handled next is the first one of those left.                   *)
LEMMA FirstRule ==
  ASSUME NEW S \in SUBSET Rules, S # {}
  PROVE  Min(S) \in S /\ \A q \in S : Min(S) <= q
<1>1. \E m \in S : \A y \in S : m <= y
  <2>1. CASE 1 \in S
    BY <2>1 DEF Rules
  <2>2. CASE 1 \notin S /\ 2 \in S
    BY <2>2 DEF Rules
  <2>3. CASE 1 \notin S /\ 2 \notin S /\ 3 \in S
    BY <2>3 DEF Rules
  <2>4. CASE 1 \notin S /\ 2 \notin S /\ 3 \notin S
    <3>1. \A y \in S : y = 4
      BY <2>4 DEF Rules
    <3> QED  BY <3>1
  <2> QED  BY <2>1, <2>2, <2>3, <2>4
<1> QED  BY <1>1 DEF Min

(* The loop goes on with the rules behind r, or starts over.               *)
LEMMA HandledLoop ==
  ASSUME loop \in LoopType, loop.pc = "results", NEW r \in loop.todo, NEW rules \in SUBSET Rules,
         Handled(r, rules)
  PROVE  /\ loop' \in LoopType /\ loop'.rules = rules
         /\ loop'.pc \in {"results", "top"}
         /\ loop'.pc = "results" => /\ loop'.todo = loop.todo \ {r} /\ loop'.todo # {}
                                    /\ loop'.want = loop.want /\ loop'.hup = loop.hup
                                    /\ loop'.ready = loop.ready
<1>1. CASE \E q \in loop.todo : q > r
  <2>1. loop' = [loop EXCEPT !.rules = rules, !.todo = loop.todo \ {r}]
    BY <1>1 DEF Handled
  <2>2. loop.todo \ {r} \in SUBSET Rules
    BY DEF LoopType
  <2>3. loop' \in LoopType
    BY Zenon, <2>1, <2>2 DEF LoopType
  <2>4. /\ loop'.rules = rules /\ loop'.pc = "results" /\ loop'.todo = loop.todo \ {r}
        /\ loop'.want = loop.want /\ loop'.hup = loop.hup /\ loop'.ready = loop.ready
    BY <2>1, <2>2 DEF LoopType
  <2>5. loop.todo \ {r} # {}
    BY <1>1, <2>2 DEF LoopType, Rules
  <2> QED  BY <2>3, <2>4, <2>5
<1>2. CASE ~\E q \in loop.todo : q > r
  BY <1>2 DEF Handled, Top, LoopType
<1> QED  BY <1>1, <1>2

(* A handled rule keeps the invariant if it keeps the types, the bytes and *)
(* the ends in order and leaves rule 3 what it was promised.               *)
LEMMA HandledInv ==
  ASSUME CopyInv, phase = "copying", phase' = phase, loop.pc = "results",
         NEW r \in loop.todo, \A q \in loop.todo : r <= q,
         NEW rules \in SUBSET loop.rules, loop.rules \ {r} \subseteq rules,
         loop' \in LoopType, loop'.rules = rules, loop'.pc \in {"results", "top"},
         loop'.pc = "results" => /\ loop'.todo = loop.todo \ {r} /\ loop'.todo # {}
                                 /\ loop'.want = loop.want /\ loop'.hup = loop.hup
                                 /\ loop'.ready = loop.ready,
         outbound' \in ByteStream(BUFFER_SIZE), inbound' \in ByteStream(BUFFER_SIZE),
         flags' \in [outbound : BOOLEAN, inbound : BOOLEAN],
         stdin' \in StdinType, sock' \in SockType, stdout' \in StdoutType,
         Bounded', NothingLost', Ends', Gone',
         r < 3 => /\ inbound'.size = inbound.size /\ sock'.from = sock.from
                  /\ (sock'.ended <=> sock.ended) /\ (sock'.gone <=> sock.gone),
         StdinDone => StdinDone', sock.gone => sock'.gone, sock.shut => sock'.shut
  PROVE  CopyInv'
<1>1. CopyType'
  BY SMTT(30) DEF CopyInv, CopyType, LoopType, StdinType, SockType, StdoutType
<1>2. Returned'
  BY DEF Returned
<1>3. Decided'
  <2>1. SUFFICES ASSUME loop'.pc = "results" PROVE Decided'
    BY DEF Decided
  <2>2. /\ loop.todo \in SUBSET Rules /\ loop.todo \subseteq loop.rules
        /\ loop.ready \subseteq loop.want
    BY DEF CopyInv, CopyType, LoopType, Decided
  <2>3. 1 \notin loop'.todo
    BY <2>1, <2>2 DEF Rules
  <2>4. 3 \in loop'.todo => r < 3
    BY <2>1, <2>2 DEF Rules
  <2>5. loop'.todo # {} /\ loop'.todo \subseteq loop'.rules /\ loop'.ready \subseteq loop'.want
    BY <2>1, <2>2
  <2>6. 3 \in loop'.todo \cap loop'.ready =>
          inbound'.size < BUFFER_SIZE /\ (sock'.from # <<>> \/ sock'.ended \/ sock'.gone)
    BY <2>1, <2>4 DEF CopyInv, Decided
  <2>7. /\ 1 \in (loop'.hup \cap loop'.want) \ loop'.ready => StdinDone'
        /\ 2 \in loop'.hup => sock'.gone \/ sock'.shut
        /\ 3 \notin (loop'.hup \cap loop'.want) \ loop'.ready
        /\ 4 \notin loop'.hup
    BY <2>1 DEF CopyInv, Decided
  <2> QED  BY <2>1, <2>3, <2>5, <2>6, <2>7 DEF Decided
<1> QED  BY <1>1, <1>2, <1>3 DEF CopyInv

(* What does not depend on the phase stays when nothing else changes.      *)
LEMMA Unmoved ==
  ASSUME loop' = loop, outbound' = outbound, inbound' = inbound, flags' = flags,
         stdin' = stdin, sock' = sock, stdout' = stdout
  PROVE  /\ Bounded => Bounded'
         /\ NothingLost => NothingLost'
         /\ Ends => Ends'
         /\ Gone => Gone'
         /\ Decided => Decided'
<1>1. StdinDone' <=> StdinDone
  BY DEF StdinDone
<1>2. SockDone' <=> SockDone
  BY DEF SockDone
<1>3. Bounded => Bounded'
  BY DEF Bounded
<1>4. NothingLost => NothingLost'
  BY DEF NothingLost
<1>5. Ends => Ends'
  BY <1>1, <1>2 DEF Ends
<1>6. Gone => Gone'
  BY DEF Gone
<1>7. Decided => Decided'
  BY SMTT(30), <1>1 DEF Decided
<1> QED  BY <1>3, <1>4, <1>5, <1>6, <1>7

(* The four callbacks, field by field.                                     *)
LEMMA RuleSteps ==
  ASSUME CopyType, Bounded
  PROVE  /\ rule1 => LET d == fd_read(outbound, stdin.buf)
                     IN  /\ outbound' = d.stream /\ UNCHANGED <<inbound, flags, sock, stdout>>
                         /\ StdinStep(d.buf, stdin.given, stdin.ended, stdin.eof \/ d.eof)
         /\ rule2 => LET d == fd_write(outbound, sock.to)
                     IN  /\ outbound' = d.stream /\ UNCHANGED <<inbound, stdin, stdout>>
                         /\ flags' \in [outbound : BOOLEAN, inbound : BOOLEAN]
                         /\ flags'.inbound = flags.inbound
                         /\ flags'.outbound <=> flags.outbound \/ over(d.stream)
                         /\ SockStep(d.buf, sock.taken, sock.from, sock.given, sock.ended,
                                     sock.gone, sock.shut \/ over(d.stream), sock.eof)
         /\ rule3 => LET d == fd_read(inbound, sock.from)
                     IN  /\ inbound' = d.stream /\ UNCHANGED <<outbound, flags, stdin, stdout>>
                         /\ SockStep(sock.to, sock.taken, d.buf, sock.given, sock.ended,
                                     sock.gone, sock.shut, sock.eof \/ d.eof)
         /\ rule4 => LET d == fd_write(inbound, stdout.buf)
                     IN  /\ inbound' = d.stream /\ UNCHANGED <<outbound, stdin, sock>>
                         /\ flags' \in [outbound : BOOLEAN, inbound : BOOLEAN]
                         /\ flags'.outbound = flags.outbound
                         /\ flags'.inbound <=> flags.inbound \/ over(d.stream)
                         /\ StdoutStep(d.buf, stdout.taken, stdout.closed \/ over(d.stream))
<1>1. /\ stdin \in StdinType /\ sock \in SockType /\ stdout \in StdoutType
      /\ outbound \in ByteStream(BUFFER_SIZE) /\ inbound \in ByteStream(BUFFER_SIZE)
      /\ Sound(outbound) /\ Sound(inbound)
      /\ flags \in [outbound : BOOLEAN, inbound : BOOLEAN]
      /\ Len(sock.to) <= PIPE /\ Len(stdout.buf) <= PIPE
  BY DEF CopyType, Bounded, StdinType, SockType, StdoutType
<1>2. /\ stdin.buf \in Seq(Nat) /\ stdin.eof \in BOOLEAN
      /\ sock.to \in Seq(Nat) /\ sock.from \in Seq(Nat) /\ sock.shut \in BOOLEAN
      /\ sock.eof \in BOOLEAN /\ stdout.buf \in Seq(Nat) /\ stdout.closed \in BOOLEAN
  BY <1>1 DEF StdinType, SockType, StdoutType
<1>3. ASSUME rule1
      PROVE  LET d == fd_read(outbound, stdin.buf)
             IN  /\ outbound' = d.stream /\ UNCHANGED <<inbound, flags, sock, stdout>>
                 /\ StdinStep(d.buf, stdin.given, stdin.ended, stdin.eof \/ d.eof)
  <2> DEFINE d == fd_read(outbound, stdin.buf)
             b == d.buf
             e == stdin.eof \/ d.eof
  <2>1. /\ outbound' = d.stream /\ stdin' = [stdin EXCEPT !.buf = b, !.eof = e]
        /\ UNCHANGED <<inbound, flags, sock, stdout>> /\ e \in BOOLEAN
    BY <1>3, Zenon DEF rule1
  <2>2. b \in Seq(Nat)
    BY Zenon, <1>1, <1>2, ReadMoves
  <2> HIDE DEF d, b, e
  <2>3. StdinStep(b, stdin.given, stdin.ended, e)
    BY Zenon, <1>1, <2>1, <2>2 DEF StdinStep, StdinType
  <2> QED  BY <2>1, <2>3, Zenon DEF d, b, e
<1>4. ASSUME rule2
      PROVE  LET d == fd_write(outbound, sock.to)
             IN  /\ outbound' = d.stream /\ UNCHANGED <<inbound, stdin, stdout>>
                 /\ flags' \in [outbound : BOOLEAN, inbound : BOOLEAN]
                 /\ flags'.inbound = flags.inbound
                 /\ flags'.outbound <=> flags.outbound \/ over(d.stream)
                 /\ SockStep(d.buf, sock.taken, sock.from, sock.given, sock.ended,
                             sock.gone, sock.shut \/ over(d.stream), sock.eof)
  <2> DEFINE d == fd_write(outbound, sock.to)
             b == d.buf
             k == [sock EXCEPT !.to = b]
             e == k.shut \/ over(d.stream)
             f == flags.outbound \/ over(d.stream)
  <2>1. /\ outbound' = d.stream /\ sock' = [k EXCEPT !.shut = e]
        /\ flags' = [flags EXCEPT !.outbound = f]
        /\ UNCHANGED <<inbound, stdin, stdout>> /\ e \in BOOLEAN /\ f \in BOOLEAN
    BY <1>4, Zenon DEF rule2, shutdown
  <2>2. b \in Seq(Nat)
    BY Zenon, <1>1, <1>2, WriteMoves
  <2>3. e <=> sock.shut \/ over(d.stream)
    BY <1>1 DEF SockType
  <2> HIDE DEF d, b, e, f
  <2>4. SockStep(b, sock.taken, sock.from, sock.given, sock.ended, sock.gone, e, sock.eof)
    BY Zenon, <1>1, <2>1, <2>2 DEF SockStep, SockType
  <2>5. flags' \in [outbound : BOOLEAN, inbound : BOOLEAN] /\ flags'.inbound = flags.inbound
        /\ flags'.outbound = f
    BY <1>1, <2>1
  <2>6. SockStep(b, sock.taken, sock.from, sock.given, sock.ended, sock.gone,
                 sock.shut \/ over(d.stream), sock.eof)
    BY <2>3, <2>4, Zenon DEF SockStep
  <2> QED  BY <2>1, <2>5, <2>6, Zenon DEF d, b, f
<1>5. ASSUME rule3
      PROVE  LET d == fd_read(inbound, sock.from)
             IN  /\ inbound' = d.stream /\ UNCHANGED <<outbound, flags, stdin, stdout>>
                 /\ SockStep(sock.to, sock.taken, d.buf, sock.given, sock.ended,
                             sock.gone, sock.shut, sock.eof \/ d.eof)
  <2> DEFINE d == fd_read(inbound, sock.from)
             b == d.buf
             e == sock.eof \/ d.eof
  <2>1. /\ inbound' = d.stream /\ sock' = [sock EXCEPT !.from = b, !.eof = e]
        /\ UNCHANGED <<outbound, flags, stdin, stdout>> /\ e \in BOOLEAN
    BY <1>5, Zenon DEF rule3
  <2>2. b \in Seq(Nat)
    BY Zenon, <1>1, <1>2, ReadMoves
  <2> HIDE DEF d, b, e
  <2>3. SockStep(sock.to, sock.taken, b, sock.given, sock.ended, sock.gone, sock.shut, e)
    BY Zenon, <1>1, <2>1, <2>2 DEF SockStep, SockType
  <2> QED  BY <2>1, <2>3, Zenon DEF d, b, e
<1>6. ASSUME rule4
      PROVE  LET d == fd_write(inbound, stdout.buf)
             IN  /\ inbound' = d.stream /\ UNCHANGED <<outbound, stdin, sock>>
                 /\ flags' \in [outbound : BOOLEAN, inbound : BOOLEAN]
                 /\ flags'.outbound = flags.outbound
                 /\ flags'.inbound <=> flags.inbound \/ over(d.stream)
                 /\ StdoutStep(d.buf, stdout.taken, stdout.closed \/ over(d.stream))
  <2> DEFINE d == fd_write(inbound, stdout.buf)
             b == d.buf
             k == [stdout EXCEPT !.buf = b]
             e == k.closed \/ over(d.stream)
             f == flags.inbound \/ over(d.stream)
  <2>1. /\ inbound' = d.stream /\ stdout' = [k EXCEPT !.closed = e]
        /\ flags' = [flags EXCEPT !.inbound = f]
        /\ UNCHANGED <<outbound, stdin, sock>> /\ e \in BOOLEAN /\ f \in BOOLEAN
    BY <1>6, Zenon DEF rule4, close
  <2>2. b \in Seq(Nat)
    BY Zenon, <1>1, <1>2, WriteMoves
  <2>3. e <=> stdout.closed \/ over(d.stream)
    BY <1>1 DEF StdoutType
  <2> HIDE DEF d, b, e, f
  <2>4. StdoutStep(b, stdout.taken, e)
    BY Zenon, <1>1, <2>1, <2>2 DEF StdoutStep, StdoutType
  <2>5. flags' \in [outbound : BOOLEAN, inbound : BOOLEAN] /\ flags'.outbound = flags.outbound
        /\ flags'.inbound = f
    BY <1>1, <2>1
  <2>6. StdoutStep(b, stdout.taken, stdout.closed \/ over(d.stream))
    BY <2>3, <2>4, Zenon DEF StdoutStep
  <2> QED  BY <2>1, <2>5, <2>6, Zenon DEF d, b, f
<1> QED  BY Zenon, <1>3, <1>4, <1>5, <1>6

(* Handling one rule of the results keeps the invariant.                   *)
LEMMA HandleInv == ASSUME CopyInv, NEW r \in 1 .. 4, handle(r) PROVE CopyInv'
<1> DEFINE hup == r \in loop.hup /\ r \in loop.want /\ r \notin loop.ready
<1>1. /\ CopyType /\ Bounded /\ NothingLost /\ Ends /\ Gone /\ Decided
      /\ Flow(sock.to, outbound, stdin.buf, sock.taken, stdin.given)
      /\ Flow(stdout.buf, inbound, sock.from, stdout.taken, sock.given)
  BY DEF CopyInv, NothingLost, Flow
<1>2. phase = "copying" /\ loop.pc = "results" /\ r = Min(loop.todo)
  BY DEF handle
<1>3. /\ loop \in LoopType /\ stdin \in StdinType /\ sock \in SockType /\ stdout \in StdoutType
      /\ outbound \in ByteStream(BUFFER_SIZE) /\ inbound \in ByteStream(BUFFER_SIZE)
      /\ Sound(outbound) /\ Sound(inbound)
      /\ flags \in [outbound : BOOLEAN, inbound : BOOLEAN]
  BY <1>1 DEF CopyType, Bounded, LoopType, StdinType, SockType, StdoutType
<1>4. loop.todo \in SUBSET Rules /\ loop.todo # {} /\ loop.rules \in SUBSET Rules
      /\ loop.todo \subseteq loop.rules
  BY <1>1, <1>2, <1>3 DEF Decided, LoopType
<1>5. r \in loop.todo /\ \A q \in loop.todo : r <= q
  BY <1>2, <1>4, FirstRule
<1>6. CASE UNCHANGED <<loop, streams, stdin, sock, stdout>> /\ phase' \in {"thrown", "killed"}
  <2>1. /\ loop' = loop /\ outbound' = outbound /\ inbound' = inbound /\ flags' = flags
        /\ stdin' = stdin /\ sock' = sock /\ stdout' = stdout
    BY <1>6 DEF streams
  <2>2. CopyType' /\ Returned'
    BY <1>1, <1>6, <2>1 DEF CopyType, Returned
  <2>3. Bounded' /\ NothingLost' /\ Ends' /\ Gone' /\ Decided'
    BY SMTT(30), <1>1, <2>1, Unmoved
  <2> QED  BY <2>2, <2>3 DEF CopyInv
<1>7. CASE hup /\ cancel({r}) /\ Handled(r, loop.rules \ {r})
           /\ UNCHANGED <<phase, stdin, sock, stdout>>
  <2> DEFINE rules == loop.rules \ {r}
  <2>1. rules \in SUBSET Rules /\ rules \in SUBSET loop.rules /\ loop.rules \ {r} \subseteq rules
    BY SMTT(30), <1>4
  <2>2. /\ loop' \in LoopType /\ loop'.rules = rules /\ loop'.pc \in {"results", "top"}
        /\ loop'.pc = "results" => /\ loop'.todo = loop.todo \ {r} /\ loop'.todo # {}
                                   /\ loop'.want = loop.want /\ loop'.hup = loop.hup
                                   /\ loop'.ready = loop.ready
    BY <1>2, <1>3, <1>5, <1>7, <2>1, HandledLoop
  <2>3. /\ outbound' \in ByteStream(BUFFER_SIZE) /\ inbound' \in ByteStream(BUFFER_SIZE)
        /\ Sound(outbound') /\ Sound(inbound')
        /\ outbound'.size = outbound.size /\ inbound'.size = inbound.size
        /\ Contents(outbound') = Contents(outbound) /\ Contents(inbound') = Contents(inbound)
        /\ outbound'.eof_input <=> outbound.eof_input \/ {r} \cap {1, 2} # {}
        /\ inbound'.eof_input <=> inbound.eof_input \/ {r} \cap {3, 4} # {}
        /\ flags' = flags
    BY <1>1, <1>7, CancelEnds, Zenon
  <2>4. /\ stdin' = stdin /\ sock' = sock /\ stdout' = stdout /\ phase' = phase
    BY <1>7
  <2>5. Bounded' /\ NothingLost'
    BY <1>1, <2>3, <2>4, Zenon DEF Bounded, NothingLost
  <2>6. r \in {1, 2} /\ (r = 1 => StdinDone) /\ (r = 2 => sock.gone \/ sock.shut)
    BY <1>1, <1>2, <1>7 DEF Decided
  <2>7. inbound'.eof_input <=> inbound.eof_input
    BY <2>3, <2>6
  <2>8. Ends'
    <3>1. CASE r = 1
      BY SMTT(30), <1>1, <2>2, <2>3, <2>4, <2>6, <2>7, <3>1 DEF Ends, StdinDone, SockDone
    <3>2. CASE r = 2
      <4>1. 2 \notin loop'.rules
        BY <2>2, <3>2
      <4> QED  BY <1>1, <2>3, <2>4, <2>7, <3>2, <4>1 DEF Ends, StdinDone, SockDone
    <3> QED  BY SMTT(30), <2>6, <3>1, <3>2
  <2>9. Gone'
    <3>1. outbound.eof_input => outbound'.eof_input
      BY <2>3
    <3>2. r = 1 => outbound'.eof_input
      BY <2>3
    <3>3. \A q \in 1 .. 4 : q \notin loop'.rules => q \notin loop.rules \/ q = r
      BY <2>2
    <3> QED  BY <1>1, <2>4, <2>6, <2>7, <3>1, <3>2, <3>3 DEF Gone
  <2>10. StdinDone => StdinDone'
    BY <2>4 DEF StdinDone
  <2> HIDE DEF rules
  <2> QED  BY SMTT(30), <1>2, <1>3, <1>5, <2>1, <2>2, <2>3, <2>4, <2>5, <2>8, <2>9, <2>10,
              HandledInv DEF rules
<1>8. CASE Handled(r, loop.rules) /\ UNCHANGED <<phase, streams, stdin, sock, stdout>>
  <2>1. /\ loop' \in LoopType /\ loop'.rules = loop.rules /\ loop'.pc \in {"results", "top"}
        /\ loop'.pc = "results" => /\ loop'.todo = loop.todo \ {r} /\ loop'.todo # {}
                                   /\ loop'.want = loop.want /\ loop'.hup = loop.hup
                                   /\ loop'.ready = loop.ready
    BY <1>2, <1>3, <1>4, <1>5, <1>8, HandledLoop
  <2>2. /\ outbound' = outbound /\ inbound' = inbound /\ flags' = flags
        /\ stdin' = stdin /\ sock' = sock /\ stdout' = stdout /\ phase' = phase
    BY <1>8 DEF streams
  <2>3. Bounded' /\ NothingLost' /\ Ends' /\ Gone' /\ (StdinDone => StdinDone')
    BY <1>1, <2>1, <2>2, Zenon DEF Bounded, NothingLost, Ends, Gone, StdinDone, SockDone
  <2> QED  BY SMTT(30), <1>2, <1>3, <1>4, <1>5, <2>1, <2>2, <2>3, HandledInv
<1>9. CASE r = 1 /\ r \in loop.ready /\ rule1 /\ Handled(r, loop.rules) /\ UNCHANGED phase
  <2> DEFINE d == fd_read(outbound, stdin.buf)
  <2>1. /\ loop' \in LoopType /\ loop'.rules = loop.rules /\ loop'.pc \in {"results", "top"}
        /\ loop'.pc = "results" => /\ loop'.todo = loop.todo \ {r} /\ loop'.todo # {}
                                   /\ loop'.want = loop.want /\ loop'.hup = loop.hup
                                   /\ loop'.ready = loop.ready
    BY SMTT(30), <1>2, <1>3, <1>4, <1>5, <1>9, HandledLoop
  <2>2. /\ outbound' = d.stream /\ inbound' = inbound /\ flags' = flags
        /\ sock' = sock /\ stdout' = stdout /\ phase' = phase
        /\ StdinStep(d.buf, stdin.given, stdin.ended, stdin.eof \/ d.eof)
    BY <1>1, <1>9, RuleSteps
  <2>3. /\ stdin.buf \in Seq(Nat) /\ sock.to \in Seq(Nat)
    BY <1>3 DEF StdinType, SockType
  <2>4. /\ d.stream \in ByteStream(BUFFER_SIZE) /\ Sound(d.stream)
        /\ d.stream.eof_input <=> outbound.eof_input \/ d.eof
        /\ d.eof /\ outbound.size < BUFFER_SIZE => stdin.buf = <<>>
        /\ stdin.buf = <<>> => d.buf = <<>> /\ d.stream.size = outbound.size
    BY Zenon, <1>3, <2>3, ReadMoves
  <2>5. Flow(sock.to, d.stream, d.buf, sock.taken, stdin.given)
    BY <1>1, <1>3, <2>3, FlowRead
  <2> HIDE DEF d
  <2>6. Bounded' /\ NothingLost'
    BY <1>1, <2>2, <2>4, <2>5, Zenon DEF Bounded, NothingLost, Flow, StdinStep
  <2>7. d.eof => StdinDone
    BY SMTT(30), <1>1, <1>2, <1>5, <1>9, <2>4 DEF Decided, StdinDone
  <2>8. StdinDone => StdinDone'
    BY <2>2, <2>4 DEF StdinDone, StdinStep
  <2>9. Ends'
    <3>1. outbound'.eof_input <=> outbound.eof_input \/ d.eof
      BY <2>2, <2>4
    <3>2. stdin'.eof <=> stdin.eof \/ d.eof
      BY <2>2 DEF StdinStep
    <3>3. StdinDone => outbound'.size = outbound.size
      BY SMTT(30), <2>2, <2>4 DEF StdinDone
    <3> QED  BY <1>1, <2>1, <2>2, <2>7, <2>8, <3>1, <3>2, <3>3, Zenon DEF Ends, SockDone
  <2>10. Gone'
    BY SMTT(30), <1>1, <2>1, <2>2, <2>4 DEF Gone
  <2> QED  BY Zenon, <1>2, <1>3, <1>4, <1>5, <2>1, <2>2, <2>4, <2>6, <2>8, <2>9, <2>10, HandledInv
             DEF StdinStep
<1>10. CASE r = 2 /\ r \in loop.ready /\ rule2 /\ Handled(r, loop.rules) /\ UNCHANGED phase
  <2> DEFINE d == fd_write(outbound, sock.to)
  <2>1. /\ loop' \in LoopType /\ loop'.rules = loop.rules /\ loop'.pc \in {"results", "top"}
        /\ loop'.pc = "results" => /\ loop'.todo = loop.todo \ {r} /\ loop'.todo # {}
                                   /\ loop'.want = loop.want /\ loop'.hup = loop.hup
                                   /\ loop'.ready = loop.ready
    BY SMTT(30), <1>2, <1>3, <1>4, <1>5, <1>10, HandledLoop
  <2>2. /\ outbound' = d.stream /\ inbound' = inbound
        /\ stdin' = stdin /\ stdout' = stdout /\ phase' = phase
        /\ flags' \in [outbound : BOOLEAN, inbound : BOOLEAN] /\ flags'.inbound = flags.inbound
        /\ flags'.outbound <=> flags.outbound \/ over(d.stream)
        /\ SockStep(d.buf, sock.taken, sock.from, sock.given, sock.ended,
                    sock.gone, sock.shut \/ over(d.stream), sock.eof)
    BY Zenon, <1>1, <1>10, RuleSteps
  <2>3. stdin.buf \in Seq(Nat) /\ sock.to \in Seq(Nat) /\ Len(sock.to) <= PIPE
    BY SMTT(30), <1>1, <1>3 DEF StdinType, SockType, Bounded
  <2>4. /\ d.stream \in ByteStream(BUFFER_SIZE) /\ Sound(d.stream) /\ Len(d.buf) <= PIPE
        /\ d.stream.eof_input = outbound.eof_input /\ d.stream.size <= outbound.size
        /\ over(d.stream) <=> d.stream.eof_input /\ d.stream.size = 0
    BY Zenon, <1>3, <2>3, WriteMoves
  <2>5. Flow(d.buf, d.stream, stdin.buf, sock.taken, stdin.given)
    BY <1>1, <1>3, <2>3, FlowWrite
  <2> HIDE DEF d
  <2>6. Bounded' /\ NothingLost'
    BY <1>1, <2>2, <2>4, <2>5, Zenon DEF Bounded, NothingLost, Flow, SockStep
  <2>7. StdinDone' <=> StdinDone
    BY <2>2 DEF StdinDone
  <2>8. SockDone' <=> SockDone
    BY <2>2, Zenon DEF SockDone, SockStep
  <2>9. Ends'
    <3>1. /\ sock'.shut <=> sock.shut \/ over(d.stream)
          /\ (sock'.eof <=> sock.eof)
      BY <2>2 DEF SockStep
    <3>2. 2 \in loop.rules
      BY SMTT(30), <1>4, <1>5, <1>10
    <3>3. over(d.stream) => StdinDone /\ outbound'.size = 0
      BY SMTT(30), <1>1, <2>2, <2>4, <3>2 DEF Ends
    <3>4. outbound.size = 0 => outbound'.size = 0
      BY SMTT(30), <1>3, <2>2, <2>4, Sizes, Fields
    <3> QED  BY <1>1, <2>1, <2>2, <2>4, <2>7, <2>8, <3>1, <3>3, <3>4, Zenon DEF Ends
  <2>10. Gone'
    BY SMTT(30), <1>1, <2>1, <2>2, <2>4 DEF Gone, SockStep
  <2> QED  BY SMTT(30), <1>2, <1>3, <1>4, <1>5, <2>1, <2>2, <2>4, <2>6, <2>7, <2>9, <2>10,
              HandledInv
             DEF SockStep
<1>11. CASE r = 3 /\ r \in loop.ready /\ rule3 /\ Handled(r, loop.rules) /\ UNCHANGED phase
  <2> DEFINE d == fd_read(inbound, sock.from)
  <2>1. /\ loop' \in LoopType /\ loop'.rules = loop.rules /\ loop'.pc \in {"results", "top"}
        /\ loop'.pc = "results" => /\ loop'.todo = loop.todo \ {r} /\ loop'.todo # {}
                                   /\ loop'.want = loop.want /\ loop'.hup = loop.hup
                                   /\ loop'.ready = loop.ready
    BY SMTT(30), <1>2, <1>3, <1>4, <1>5, <1>11, HandledLoop
  <2>2. /\ inbound' = d.stream /\ outbound' = outbound /\ flags' = flags
        /\ stdin' = stdin /\ stdout' = stdout /\ phase' = phase
        /\ SockStep(sock.to, sock.taken, d.buf, sock.given, sock.ended,
                    sock.gone, sock.shut, sock.eof \/ d.eof)
    BY Zenon, <1>1, <1>11, RuleSteps
  <2>3. stdout.buf \in Seq(Nat) /\ sock.from \in Seq(Nat)
    BY SMTT(30), <1>3 DEF StdoutType, SockType
  <2>4. /\ d.stream \in ByteStream(BUFFER_SIZE) /\ Sound(d.stream)
        /\ d.stream.eof_input <=> inbound.eof_input \/ d.eof
        /\ d.eof /\ inbound.size < BUFFER_SIZE => sock.from = <<>>
        /\ sock.from = <<>> => d.buf = <<>> /\ d.stream.size = inbound.size
    BY Zenon, <1>3, <2>3, ReadMoves
  <2>5. Flow(stdout.buf, d.stream, d.buf, stdout.taken, sock.given)
    BY <1>1, <1>3, <2>3, FlowRead
  <2> HIDE DEF d
  <2>6. Bounded' /\ NothingLost'
    BY <1>1, <2>2, <2>4, <2>5, Zenon DEF Bounded, NothingLost, Flow, SockStep
  <2>7. d.eof => SockDone
    BY SMTT(30), <1>1, <1>2, <1>5, <1>11, <2>4 DEF Decided, SockDone
  <2>8. SockDone => SockDone'
    BY <2>2, <2>4 DEF SockDone, SockStep
  <2>9. Ends'
    <3>1. inbound'.eof_input <=> inbound.eof_input \/ d.eof
      BY <2>2, <2>4
    <3>2. (sock'.eof <=> sock.eof \/ d.eof) /\ (sock'.shut <=> sock.shut)
      BY <2>2 DEF SockStep
    <3>3. SockDone => inbound'.size = inbound.size
      BY SMTT(30), <2>2, <2>4 DEF SockDone
    <3> QED  BY <1>1, <2>1, <2>2, <2>7, <2>8, <3>1, <3>2, <3>3, Zenon DEF Ends, StdinDone
  <2>10. Gone'
    BY <1>1, <2>1, <2>2, <2>4 DEF Gone, SockStep
  <2>11. StdinDone => StdinDone'
    BY SMTT(30), <2>2 DEF StdinDone
  <2> QED  BY SMTT(30), <1>2, <1>3, <1>4, <1>5, <1>11, <2>1, <2>2, <2>4, <2>6, <2>9, <2>10, <2>11,
              HandledInv
             DEF SockStep
<1>12. CASE r = 4 /\ r \in loop.ready /\ rule4 /\ Handled(r, loop.rules) /\ UNCHANGED phase
  <2> DEFINE d == fd_write(inbound, stdout.buf)
  <2>1. /\ loop' \in LoopType /\ loop'.rules = loop.rules /\ loop'.pc \in {"results", "top"}
        /\ loop'.pc = "results" => /\ loop'.todo = loop.todo \ {r} /\ loop'.todo # {}
                                   /\ loop'.want = loop.want /\ loop'.hup = loop.hup
                                   /\ loop'.ready = loop.ready
    BY SMTT(30), <1>2, <1>3, <1>4, <1>5, <1>12, HandledLoop
  <2>2. /\ inbound' = d.stream /\ outbound' = outbound
        /\ stdin' = stdin /\ sock' = sock /\ phase' = phase
        /\ flags' \in [outbound : BOOLEAN, inbound : BOOLEAN] /\ flags'.outbound = flags.outbound
        /\ flags'.inbound <=> flags.inbound \/ over(d.stream)
        /\ StdoutStep(d.buf, stdout.taken, stdout.closed \/ over(d.stream))
    BY Zenon, <1>1, <1>12, RuleSteps
  <2>3. stdout.buf \in Seq(Nat) /\ sock.from \in Seq(Nat) /\ Len(stdout.buf) <= PIPE
    BY SMTT(30), <1>1, <1>3 DEF StdoutType, SockType, Bounded
  <2>4. /\ d.stream \in ByteStream(BUFFER_SIZE) /\ Sound(d.stream) /\ Len(d.buf) <= PIPE
        /\ d.stream.eof_input = inbound.eof_input /\ d.stream.size <= inbound.size
        /\ over(d.stream) <=> d.stream.eof_input /\ d.stream.size = 0
    BY Zenon, <1>3, <2>3, WriteMoves
  <2>5. Flow(d.buf, d.stream, sock.from, stdout.taken, sock.given)
    BY <1>1, <1>3, <2>3, FlowWrite
  <2> HIDE DEF d
  <2>6. Bounded' /\ NothingLost'
    BY <1>1, <2>2, <2>4, <2>5, Zenon DEF Bounded, NothingLost, Flow, StdoutStep
  <2>7. (StdinDone' <=> StdinDone) /\ (SockDone' <=> SockDone)
    BY <2>2 DEF StdinDone, SockDone
  <2>8. Ends'
    <3>1. stdout'.closed <=> stdout.closed \/ over(d.stream)
      BY <2>2 DEF StdoutStep
    <3>2. over(d.stream) => inbound'.eof_input /\ inbound'.size = 0
      BY <2>2, <2>4
    <3>3. inbound.size = 0 => inbound'.size = 0
      BY SMTT(30), <1>3, <2>2, <2>4, Sizes, Fields
    <3> QED  BY <1>1, <2>1, <2>2, <2>4, <2>7, <3>1, <3>2, <3>3, Zenon DEF Ends
  <2>9. Gone'
    BY <1>1, <2>1, <2>2, <2>4 DEF Gone, StdoutStep
  <2> QED  BY SMTT(30), <1>2, <1>3, <1>4, <1>5, <1>12, <2>1, <2>2, <2>4, <2>6, <2>7, <2>8, <2>9,
              HandledInv
             DEF StdoutStep
<1>13. CASE /\ r \in loop.ready /\ Handled(r, loop.rules) /\ UNCHANGED phase
            /\ CASE r = 1 -> rule1 [] r = 2 -> rule2 [] r = 3 -> rule3 [] r = 4 -> rule4
  <2>1. CASE r = 1
    <3>1. rule1
      BY <1>13, <2>1
    <3> QED  BY <1>9, <1>13, <2>1, <3>1
  <2>2. CASE r = 2
    <3>1. rule2
      BY <1>13, <2>2
    <3> QED  BY <1>10, <1>13, <2>2, <3>1
  <2>3. CASE r = 3
    <3>1. rule3
      BY <1>13, <2>3
    <3> QED  BY <1>11, <1>13, <2>3, <3>1
  <2>4. CASE r = 4
    <3>1. rule4
      BY <1>13, <2>4
    <3> QED  BY <1>12, <1>13, <2>4, <3>1
  <2> QED  BY <2>1, <2>2, <2>3, <2>4
<1> QED  BY <1>6, <1>7, <1>8, <1>13, Zenon DEF handle

-----------------------------------------------------------------------------
(* The invariant holds when the program starts.                            *)
LEMMA InitInv == ASSUME Init PROVE CopyInv
<1> DEFINE s == NewByteStream(BUFFER_SIZE)
<1>1. /\ s \in ByteStream(BUFFER_SIZE) /\ Contents(s) = <<>> /\ s.size = 0
      /\ s.total_read = 0 /\ s.total_write = 0 /\ ~s.eof_input /\ ~s.error
  BY Sizes, NewIsEmpty
<1>2. outbound = s /\ inbound = s
  BY DEF Init
<1> HIDE DEF s
<1>3. CopyType
  <2>1. loop \in LoopType
    BY DEF Init, Top, LoopType, Rules
  <2>2. <<>> \in Seq(Nat) /\ 0 \in Nat /\ FALSE \in BOOLEAN
    OBVIOUS
  <2>3. flags \in [outbound : BOOLEAN, inbound : BOOLEAN] /\ stdin \in StdinType
    BY <2>2, Zenon DEF Init, StdinType
  <2>4. sock \in SockType
    BY <2>2, Zenon DEF Init, SockType
  <2>5. stdout \in StdoutType
    BY <2>2, Zenon DEF Init, StdoutType
  <2> QED  BY SMTT(30), <1>1, <1>2, <2>1, <2>3, <2>4, <2>5 DEF Init, CopyType
<1>4. Bounded
  BY <1>1, <1>2, Sizes DEF Init, Bounded, Sound
<1>5. NothingLost
  <2>1. <<>> \o Contents(s) \o <<>> = <<>> /\ Numbers(0, 0) = <<>>
    BY <1>1 DEF Numbers
  <2> QED  BY Zenon, <1>2, <2>1 DEF Init, NothingLost
<1>6. Ends /\ Gone /\ Decided /\ Returned
  <2>1. /\ ~outbound.eof_input /\ ~inbound.eof_input /\ loop.rules = 1 .. 4 /\ loop.pc = "top"
        /\ phase = "copying"
    BY <1>1, <1>2 DEF Init, Top
  <2>2. ~stdin.eof /\ ~sock.shut /\ ~sock.eof /\ ~stdout.closed
    BY Zenon DEF Init
  <2>3. ~flags.outbound /\ ~flags.inbound
    BY DEF Init
  <2> QED  BY <2>1, <2>2, <2>3 DEF Ends, Gone, Decided, Returned
<1> QED  BY <1>3, <1>4, <1>5, <1>6 DEF CopyInv

(* CopyInv is an invariant of the copying, whatever the sizes.             *)
THEOREM CopyInvariance == Spec => []CopyInv
<1>1. Init => CopyInv
  BY InitInv
<1>2. CopyInv /\ [Next]_vars => CopyInv'
  <2>1. SUFFICES ASSUME CopyInv, [Next]_vars PROVE CopyInv'
    OBVIOUS
  <2>2. CASE LoopStep
    BY <2>1, <2>2, SetupInv, PollInv, HandleInv DEF LoopStep
  <2>3. CASE Environment
    BY <2>1, <2>3, EnvironmentInv
  <2>4. CASE UNCHANGED vars
    <3>1. /\ phase' = phase /\ loop' = loop /\ outbound' = outbound /\ inbound' = inbound
          /\ flags' = flags /\ stdin' = stdin /\ sock' = sock /\ stdout' = stdout
      BY <2>4 DEF vars
    <3>2. CopyType' /\ Returned'
      BY <2>1, <3>1 DEF CopyInv, CopyType, Returned
    <3>3. Bounded' /\ NothingLost' /\ Ends' /\ Gone' /\ Decided'
      BY <2>1, <3>1, Unmoved DEF CopyInv
    <3> QED  BY <3>2, <3>3 DEF CopyInv
  <2> QED  BY <2>1, <2>2, <2>3, <2>4 DEF Next
<1> QED  BY <1>1, <1>2, PTL DEF Spec

(* bidirectional_stream_copy loses, repeats and reorders nothing in either *)
(* direction, although writes may be short and rings wrap.                 *)
THEOREM NothingLostCorrect == Spec => []NothingLost
<1>1. CopyInv => NothingLost
  BY DEF CopyInv
<1> QED  BY <1>1, CopyInvariance, PTL

(* It passes an end on only behind all the bytes, and returns when it has   *)
(* passed on both, or the thread is gone.                                  *)
THEOREM EndsLastCorrect == Spec => []EndsLast
<1>1. CopyInv => EndsLast
  BY DEF CopyInv, Ends, Returned, EndsLast, StdinDone, SockDone
<1> QED  BY <1>1, CopyInvariance, PTL
=============================================================================
