----------------------------- MODULE StreamCopy -----------------------------
(***************************************************************************)
(* apps/bidirectional_stream_copy.cc over util/eventloop.cc and            *)
(* util/file_descriptor.cc: standard input is copied to a local socket and *)
(* what the socket delivers to standard output, through two ByteStreams.   *)
(* At the other end of the socket is the thread of a TCPSpongeSocket.  The *)
(* kernel's buffers are sequences of bytes, and byte k of a direction is   *)
(* the number k.  A callback always reads or writes its descriptor, so the *)
(* event loop's test for busy waiting never strikes.                       *)
(***************************************************************************)
EXTENDS ByteStreamOps, FiniteSetsExt

CONSTANTS BUFFER_SIZE,      \* capacity of the two ByteStreams (2^20)
          MAX_COPY_LENGTH,  \* most bytes per write (65536)
          PIPE,             \* bytes a buffer of the kernel holds
          OutBytes,         \* bound: bytes of standard input
          InBytes           \* bound: bytes the socket delivers

ASSUME CopyAssumption ==
  {BUFFER_SIZE, MAX_COPY_LENGTH, PIPE} \subseteq Nat \ {0} /\ {InBytes, OutBytes} \subseteq Nat

VARIABLES phase,        \* "copying", or how that ended
          loop,         \* [pc, rules, want, ready, hup, err, todo]: _eventloop
          outbound, inbound,   \* _outbound and _inbound
          flags,        \* [outbound, inbound]: _outbound_shutdown, ...
          stdin,        \* [buf, given, ended, pipe, eof]
          sock,         \* [to, taken, from, given, ended, gone, shut, eof]
          stdout        \* [buf, taken, broken, closed]

vars == <<phase, loop, outbound, inbound, flags, stdin, sock, stdout>>
streams == <<outbound, inbound, flags>>

\* given counts the bytes put into a buffer by the environment, and taken
\* those it took out; ended is the end of its writing, and eof and closed are
\* flags of the FileDescriptor.  gone: the thread has shut down the socket.
Top(rules) == [pc |-> "top", rules |-> rules, want |-> {}, ready |-> {}, hup |-> {}, err |-> {},
               todo |-> {}]

Init == /\ phase = "copying"
        /\ loop = Top(1 .. 4)
        /\ outbound = NewByteStream(BUFFER_SIZE) /\ inbound = NewByteStream(BUFFER_SIZE)
        /\ flags = [outbound |-> FALSE, inbound |-> FALSE]
        /\ stdin \in [buf : {<<>>}, given : {0}, ended : {FALSE}, pipe : BOOLEAN, eof : {FALSE}]
        /\ sock = [to |-> <<>>, taken |-> 0, from |-> <<>>, given |-> 0, ended |-> FALSE,
                   gone |-> FALSE, shut |-> FALSE, eof |-> FALSE]
        /\ stdout = [buf |-> <<>>, taken |-> 0, broken |-> FALSE, closed |-> FALSE]

-----------------------------------------------------------------------------
\* The environment
type ==
  /\ ~stdin.ended /\ stdin.given < OutBytes /\ Len(stdin.buf) < PIPE
  /\ stdin' = [stdin EXCEPT !.buf = Append(@, stdin.given), !.given = @ + 1]
  /\ UNCHANGED <<sock, stdout>>

type_end ==
  /\ ~stdin.ended
  /\ stdin' = [stdin EXCEPT !.ended = TRUE]
  /\ UNCHANGED <<sock, stdout>>

peer_take ==
  /\ sock.to # <<>> /\ ~sock.gone
  /\ sock' = [sock EXCEPT !.to = Tail(@), !.taken = @ + 1]
  /\ UNCHANGED <<stdin, stdout>>

peer_send ==
  /\ ~sock.ended /\ ~sock.gone /\ sock.given < InBytes /\ Len(sock.from) < PIPE
  /\ sock' = [sock EXCEPT !.from = Append(@, sock.given), !.given = @ + 1]
  /\ UNCHANGED <<stdin, stdout>>

peer_end ==
  /\ ~sock.ended
  /\ sock' = [sock EXCEPT !.ended = TRUE]
  /\ UNCHANGED <<stdin, stdout>>

\* The connection is over: the thread shuts down both directions.
peer_gone ==
  /\ ~sock.gone
  /\ sock' = [sock EXCEPT !.gone = TRUE]
  /\ UNCHANGED <<stdin, stdout>>

reader_take ==
  /\ stdout.buf # <<>>
  /\ stdout' = [stdout EXCEPT !.buf = Tail(@), !.taken = @ + 1]
  /\ UNCHANGED <<stdin, sock>>

\* The reader of standard output goes away.
reader_gone ==
  /\ ~stdout.broken
  /\ stdout' = [stdout EXCEPT !.broken = TRUE]
  /\ UNCHANGED <<stdin, sock>>

Environment ==
  /\ \/ type \/ type_end \/ peer_take \/ peer_send \/ peer_end \/ peer_gone
     \/ reader_take \/ reader_gone
  /\ UNCHANGED <<phase, loop, streams>>

-----------------------------------------------------------------------------
\* FileDescriptor::read of at most limit bytes from buf: reading nothing is
\* the end.  The stream is ended with it.
fd_read(stream, buf) ==
  LET n == min(remaining_capacity(stream), Len(buf))
      s == write(stream, SubSeq(buf, 1, n))
  IN  [stream |-> IF n = 0 THEN end_input(s) ELSE s,
       buf |-> SubSeq(buf, n + 1, Len(buf)),
       eof |-> n = 0]

\* How many bytes leave the stream when n of asked were written
popped_Asked(n, asked) == asked
popped(n, asked) == n

\* FileDescriptor::write without write_all: as much as there is room for
fd_write(stream, buf) ==
  LET asked == min(MAX_COPY_LENGTH, stream.size)
      n     == min(asked, PIPE - Len(buf))
  IN  [stream |-> pop_output(stream, popped(n, asked)),
       buf |-> buf \o SubSeq(peek_output(stream, asked), 1, n)]

\* The condition to pass the end on; over_Ended forgets the bytes in the stream.
over_Ended(stream) == stream.eof_input
over(stream) == stream_eof(stream)

\* As interest_out, also once the end has been passed on
interest_out_Always(stream, shutdown) == stream.size > 0 \/ stream_eof(stream)
interest_out(stream, shutdown) == stream.size > 0 \/ (stream_eof(stream) /\ ~shutdown)

interest_in(stream, other) == ~stream.error /\ remaining_capacity(stream) > 0 /\ ~other.error

interest(r, outb, inb) ==
  CASE r = 1 -> interest_in(outb, inb)
    [] r = 2 -> interest_out(outb, flags.outbound)
    [] r = 3 -> interest_in(inb, outb)
    [] r = 4 -> interest_out(inb, flags.inbound)

\* Socket::shutdown(SHUT_WR) and FileDescriptor::close, when over says so
shutdown(fd, now) == [fd EXCEPT !.shut = @ \/ now]
close(fd, now)    == [fd EXCEPT !.closed = @ \/ now]

rule1 == LET d == fd_read(outbound, stdin.buf)
         IN  /\ outbound' = d.stream
             /\ stdin' = [stdin EXCEPT !.buf = d.buf, !.eof = @ \/ d.eof]
             /\ UNCHANGED <<inbound, flags, sock, stdout>>

rule2 == LET d == fd_write(outbound, sock.to)
         IN  /\ outbound' = d.stream
             /\ sock' = shutdown([sock EXCEPT !.to = d.buf], over(d.stream))
             /\ flags' = [flags EXCEPT !.outbound = @ \/ over(d.stream)]
             /\ UNCHANGED <<inbound, stdin, stdout>>

rule3 == LET d == fd_read(inbound, sock.from)
         IN  /\ inbound' = d.stream
             /\ sock' = [sock EXCEPT !.from = d.buf, !.eof = @ \/ d.eof]
             /\ UNCHANGED <<outbound, flags, stdin, stdout>>

rule4 == LET d == fd_write(inbound, stdout.buf)
         IN  /\ inbound' = d.stream
             /\ stdout' = close([stdout EXCEPT !.buf = d.buf], over(d.stream))
             /\ flags' = [flags EXCEPT !.inbound = @ \/ over(d.stream)]
             /\ UNCHANGED <<outbound, stdin, sock>>

\* Bytes written to a socket or pipe that is shut down raise SIGPIPE.
write_fails(r) == \/ r = 2 /\ outbound.size > 0 /\ (sock.shut \/ sock.gone)
                  \/ r = 4 /\ inbound.size > 0 /\ stdout.broken

\* The streams once the rules in set are cancelled
cancel(set) == /\ outbound' = IF set \cap {1, 2} # {} THEN end_input(outbound) ELSE outbound
               /\ inbound' = IF set \cap {3, 4} # {} THEN end_input(inbound) ELSE inbound
               /\ UNCHANGED flags

-----------------------------------------------------------------------------
\* wait_next_event: rules at their end are cancelled, the others asked; when
\* none is interested the copying is over.
setup ==
  LET ended == {r \in loop.rules : \/ r = 1 /\ stdin.eof
                                   \/ r = 3 /\ sock.eof
                                   \/ r = 4 /\ stdout.closed}
      rules == loop.rules \ ended
      want  == {r \in rules : interest(r, outbound', inbound')}
  IN  /\ phase = "copying" /\ loop.pc = "top"
      /\ cancel(ended)
      /\ phase' = IF want = {} THEN "returned" ELSE phase
      /\ loop' = [Top(rules) EXCEPT !.pc = "poll", !.want = want]
      /\ UNCHANGED <<stdin, sock, stdout>>

\* What poll(2) says: a pipe without a writer is hung up and, when empty, not
\* readable, a file or terminal at its end is readable; a Unix socket is hung
\* up when both of its directions are shut down.
ready(r) == CASE r = 1 -> stdin.buf # <<>> \/ (stdin.ended /\ ~stdin.pipe)
              [] r = 2 -> Len(sock.to) < PIPE
              [] r = 3 -> sock.from # <<>> \/ sock.ended \/ sock.gone
              [] r = 4 -> Len(stdout.buf) < PIPE

hung_up(r) == CASE r = 1 -> stdin.ended /\ stdin.pipe
                [] r \in {2, 3} -> sock.gone \/ (sock.shut /\ sock.ended)
                [] r = 4 -> FALSE

\* The reader of standard output is gone.
failed(r) == r = 4 /\ stdout.broken

\* poll waits until something is ready, hung up or broken.
poll ==
  LET able == {r \in loop.want : ready(r)}
      hup  == {r \in loop.rules : hung_up(r)}
      err  == {r \in loop.rules : failed(r)}
  IN  /\ phase = "copying" /\ loop.pc = "poll"
      /\ able # {} \/ hup # {} \/ err # {}
      /\ loop' = [loop EXCEPT !.pc = "results", !.ready = able, !.hup = hup, !.err = err,
                              !.todo = loop.rules]
      /\ UNCHANGED <<phase, streams, stdin, sock, stdout>>

\* The loop goes on with the rules behind r.
Handled(r, rules) ==
  loop' = IF \E q \in loop.todo : q > r THEN [loop EXCEPT !.rules = rules, !.todo = @ \ {r}]
          ELSE Top(rules)

\* One rule of the results: a pipe that was broken throws, a rule that was hung
\* up and nothing else is cancelled, and one that was ready has its callback
\* called, whatever happened since the poll.
handle(r) ==
  LET broken == r \in loop.err
      hup    == r \in loop.hup /\ r \in loop.want /\ r \notin loop.ready
  IN
  /\ phase = "copying" /\ loop.pc = "results" /\ r = Min(loop.todo)
  /\ \/ /\ broken
        /\ phase' = "thrown"
        /\ UNCHANGED <<loop, streams, stdin, sock, stdout>>
     \/ /\ ~broken /\ hup
        /\ cancel({r})
        /\ Handled(r, loop.rules \ {r})
        /\ UNCHANGED <<phase, stdin, sock, stdout>>
     \/ /\ ~broken /\ ~hup /\ r \notin loop.ready
        /\ Handled(r, loop.rules)
        /\ UNCHANGED <<phase, streams, stdin, sock, stdout>>
     \/ /\ ~broken /\ r \in loop.ready /\ write_fails(r)
        /\ phase' = "killed"
        /\ UNCHANGED <<loop, streams, stdin, sock, stdout>>
     \/ /\ ~broken /\ r \in loop.ready /\ ~write_fails(r)
        /\ CASE r = 1 -> rule1 [] r = 2 -> rule2 [] r = 3 -> rule3 [] r = 4 -> rule4
        /\ Handled(r, loop.rules)
        /\ UNCHANGED phase

LoopStep == setup \/ poll \/ \E r \in 1 .. 4 : handle(r)

Next == LoopStep \/ Environment

\* The scheduler runs the program; the environment does what it likes.
Spec == Init /\ [][Next]_vars /\ WF_vars(LoopStep)

-----------------------------------------------------------------------------
\* The numbers from .. to - 1
Numbers(from, to) == [k \in 1 .. to - from |-> from + k - 1]

\* Nothing is lost, repeated or overtaken on the way from standard input to
\* the thread and from the thread to standard output: what lies in the kernel
\* buffers and the ring buffers is just what was given and not yet taken,
\* although a write may take less than it was asked to.
NothingLost ==
  /\ sock.to \o Contents(outbound) \o stdin.buf = Numbers(sock.taken, stdin.given)
  /\ stdout.buf \o Contents(inbound) \o sock.from = Numbers(stdout.taken, sock.given)

\* The end is passed on last: the socket is shut down for writing when
\* standard input is at its end and all of it was written, standard output is
\* closed when the peer is at its end and all of it was written, and the
\* function returns, unless the thread is gone, when both have happened.
EndsLast ==
  /\ sock.shut => stdin.ended /\ stdin.buf = <<>> /\ outbound.size = 0
  /\ stdout.closed => (sock.ended \/ sock.gone) /\ sock.from = <<>> /\ inbound.size = 0
  /\ phase = "returned" /\ ~sock.gone => sock.shut /\ stdout.closed

\* Once both ends have ended the copying comes to its end, provided that the
\* thread and the reader of standard output do not leave their buffers full
\* forever: neither hung up descriptors, full streams nor cancelled rules
\* leave the loop waiting or turning in circles.
EventuallyReturns ==
  ([]<>(Len(sock.to) < PIPE) /\ []<>(Len(stdout.buf) < PIPE)) =>
    (stdin.ended /\ sock.ended ~> phase # "copying")
=============================================================================
