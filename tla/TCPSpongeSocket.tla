-------------------------- MODULE TCPSpongeSocket ---------------------------
(***************************************************************************)
(* libsponge/tcp_helpers/tcp_sponge_socket.{hh,cc} over util/eventloop.cc: *)
(* the owner's thread and the thread that runs the TCPConnection, joined   *)
(* by a pair of Unix sockets.  Each turn of _tcp_loop goes through         *)
(*   "top"      the interest of the four rules is collected                *)
(*   "poll"     the kernel says which descriptors are ready                *)
(*   "results"  one callback after the other                               *)
(*   "after"    _abort is read and time passes                             *)
(* and the owner acts in between.  The network may hand in a segment       *)
(* whenever the kernel is asked.                                           *)
(***************************************************************************)
EXTENDS ConnectionSummary, FiniteSets, FiniteSetsExt

CONSTANTS PIPE,       \* bytes one direction of the socket pair holds
          InBytes,    \* bound: bytes the peer sends
          OutBytes    \* bound: bytes the owner writes

ASSUME SocketAssumption == PIPE \in Nat \ {0} /\ {InBytes, OutBytes} \subseteq Nat

VARIABLES tcp,    \* _tcp
          phase,  \* who runs the loop, and how it ended
          loop,   \* [pc, rules, want, ready, hup, todo]: _eventloop
          pipe,   \* [up, down, wr, rd, shut, eof]: the socket pair
          flags,  \* [inbound, outbound, abort]: _inbound_shutdown, ...
          owner,  \* what the owner is doing
          total   \* [wrote, accepted, arrived, read]: bytes so far

vars == <<tcp, phase, loop, pipe, flags, owner, total>>

\* pipe.up and pipe.down are the bytes on their way to and from _thread_data,
\* wr and rd the directions the owner's end shut down, shut the SHUT_WR of
\* _thread_data, and eof the flag its FileDescriptor keeps.
NoLoop == [pc |-> "top", rules |-> 1 .. 4, want |-> {}, ready |-> {}, hup |-> FALSE, todo |-> {}]

Init == /\ tcp = NewSummary
        /\ phase = "idle"
        /\ loop = NoLoop
        /\ pipe = [up |-> 0, down |-> 0, wr |-> FALSE, rd |-> FALSE, shut |-> FALSE, eof |-> FALSE]
        /\ flags = [inbound |-> FALSE, outbound |-> FALSE, abort |-> FALSE]
        /\ owner = "using"
        /\ total = [wrote |-> 0, accepted |-> 0, arrived |-> 0, read |-> 0]

Looping == phase \in {"connecting", "listening", "running"}

-----------------------------------------------------------------------------
\* The owner
connect ==
  /\ phase = "idle"
  /\ phase' = "connecting"
  /\ tcp' \in filled(NewSummary)
  /\ UNCHANGED <<loop, pipe, flags, owner, total>>

listen_and_accept ==
  /\ phase = "idle"
  /\ phase' = "listening"
  /\ UNCHANGED <<tcp, loop, pipe, flags, owner, total>>

\* The owner acts once connect or accept has returned.
OwnerActs ==
  /\ owner = "using" /\ phase \in {"running", "ended"}
  /\ UNCHANGED <<tcp, phase, loop>>

owner_write(n) ==
  /\ OwnerActs /\ ~pipe.wr
  /\ pipe.up + n <= PIPE /\ total.wrote + n <= OutBytes
  /\ pipe' = [pipe EXCEPT !.up = @ + n]
  /\ total' = [total EXCEPT !.wrote = @ + n]
  /\ UNCHANGED <<flags, owner>>

owner_read(n) ==
  /\ OwnerActs /\ n <= pipe.down
  /\ pipe' = [pipe EXCEPT !.down = @ - n]
  /\ total' = [total EXCEPT !.read = @ + n]
  /\ UNCHANGED <<flags, owner>>

owner_shutdown ==
  /\ OwnerActs /\ ~pipe.wr
  /\ pipe' = [pipe EXCEPT !.wr = TRUE]
  /\ UNCHANGED <<flags, owner, total>>

wait_until_closed ==
  /\ OwnerActs
  /\ pipe' = [pipe EXCEPT !.wr = TRUE, !.rd = TRUE]
  /\ owner' = "waiting"
  /\ UNCHANGED <<flags, total>>

destroy ==
  /\ OwnerActs
  /\ flags' = [flags EXCEPT !.abort = TRUE]
  /\ owner' = "destroying"
  /\ UNCHANGED <<pipe, total>>

join ==
  /\ owner \in {"waiting", "destroying"} /\ phase = "ended"
  /\ owner' = "gone"
  /\ UNCHANGED <<tcp, phase, loop, pipe, flags, total>>

-----------------------------------------------------------------------------
\* The rules
interest4_Active(t) == active(t)
interest4_IfActive(t) == t.segs /\ active(t)
interest4(t) == t.segs

interest(r, t, f) ==
  CASE r = 1 -> active(t)
    [] r = 2 -> active(t) /\ ~f.outbound /\ remaining_outbound_capacity(t) > 0
    [] r = 3 -> t.inb > 0 \/ ((in_eof(t) \/ t.error) /\ ~f.inbound)
    [] r = 4 -> interest4(t)

incoming_datagram ==
  /\ \/ UNCHANGED tcp   \* not for us, not valid, or dropped
     \/ tcp' \in segment_received(tcp, InBytes - total.arrived)
  /\ total' = [total EXCEPT !.arrived = @ + tcp'.inb - tcp.inb]
  /\ UNCHANGED <<pipe, flags>>

\* Reading nothing from the pipe means its end.
at_eof_Short(n) == n < remaining_outbound_capacity(tcp)
at_eof(n) == n = 0

outbound_bytes ==
  LET n   == Min({pipe.up, remaining_outbound_capacity(tcp)})
      eof == at_eof(n)
  IN  /\ tcp' \in UNION {IF eof THEN end_input_stream(t) ELSE {t} : t \in write(tcp, n)}
      /\ pipe' = [pipe EXCEPT !.up = @ - n, !.eof = @ \/ eof]
      /\ flags' = [flags EXCEPT !.outbound = @ \/ eof]
      /\ total' = [total EXCEPT !.accepted = @ + n]

\* The rule's cancel: only rule 2 has one.
cancel(r, t) == IF r = 2 THEN end_input_stream(t) ELSE {t}

\* What leaves the inbound stream when n of amount bytes were written
popped_Asked(n, amount) == amount
popped(n, amount) == n

inbound_bytes ==
  LET n == Min({tcp.inb, PIPE - pipe.down})
      t == [tcp EXCEPT !.inb = @ - popped(n, tcp.inb)]
      finished == in_eof(t) \/ t.error
  IN  /\ tcp' = t
      /\ pipe' = [pipe EXCEPT !.down = @ + n, !.shut = @ \/ finished]
      /\ flags' = [flags EXCEPT !.inbound = @ \/ finished]
      /\ UNCHANGED total

\* A write to a socket that is shut down raises SIGPIPE.
write_fails == tcp.inb > 0 /\ (pipe.shut \/ pipe.rd)

outbound_segments ==
  /\ tcp' = [tcp EXCEPT !.segs = FALSE]
  /\ UNCHANGED <<pipe, flags, total>>

-----------------------------------------------------------------------------
\* _tcp_loop and wait_next_event

condition ==
  \/ phase = "connecting" /\ syn_sent(tcp)
  \/ phase = "listening" /\ opening(tcp)
  \/ phase = "running"

\* The loop is left: connect and listen_and_accept start the thread, which
\* starts a loop of its own; the thread's end shuts the owner's socket down.
Leave(rules) ==
  /\ phase' = IF phase = "running" THEN "ended" ELSE "running"
  /\ pipe' = IF phase = "running" THEN [pipe EXCEPT !.wr = TRUE, !.rd = TRUE] ELSE pipe
  /\ loop' = [NoLoop EXCEPT !.rules = rules]

\* A rule for reading is cancelled when its descriptor is at its end; without
\* an interested rule the loop is left.
setup ==
  LET ended == IF pipe.eof THEN loop.rules \cap {2} ELSE {}
      rules == loop.rules \ ended
      f     == [flags EXCEPT !.outbound = @ \/ ended # {}]
  IN  /\ Looping /\ loop.pc = "top" /\ condition
      /\ \E t \in IF ended # {} THEN cancel(2, tcp) ELSE {tcp} :
           LET want == {r \in rules : interest(r, t, f)}
           IN  /\ tcp' = t /\ flags' = f
               /\ \/ /\ want # {}
                     /\ loop' = [NoLoop EXCEPT !.pc = "poll", !.rules = rules, !.want = want]
                     /\ UNCHANGED <<phase, pipe>>
                  \/ want = {} /\ Leave(rules)
      /\ UNCHANGED <<owner, total>>

leave ==
  /\ Looping
  /\ \/ loop.pc = "top" /\ ~condition
     \/ loop.pc = "after" /\ flags.abort
  /\ Leave(loop.rules)
  /\ UNCHANGED <<tcp, flags, owner, total>>

\* poll(2) on the Unix socket: readable at the end of the other direction,
\* hung up when both directions are shut down.
readable == pipe.up > 0 \/ pipe.wr
writable == pipe.down < PIPE
hung_up  == pipe.wr /\ (pipe.rd \/ pipe.shut)

\* poll gives up after TCP_TICK_MS: nothing ready is an answer too.
times_out_Never == FALSE
times_out == TRUE

poll(datagram) ==
  LET ready == {r \in loop.want : \/ r = 1 /\ datagram
                                  \/ r = 2 /\ readable
                                  \/ r = 3 /\ writable
                                  \/ r = 4}
      hup   == hung_up /\ loop.rules \cap {2, 3} # {}
  IN
  /\ Looping /\ loop.pc = "poll"
  /\ \/ /\ ready = {} /\ ~hup /\ times_out
        /\ loop' = [loop EXCEPT !.pc = "after"]
     \/ /\ ready # {} \/ hup
        /\ loop' = [loop EXCEPT !.pc = "results", !.ready = ready, !.hup = hup,
                                !.todo = loop.rules]
  /\ UNCHANGED <<tcp, phase, pipe, flags, owner, total>>

\* The loop goes on with the rules behind r.
Handled(r, rules) ==
  loop' = IF \E q \in loop.todo : q > r
          THEN [loop EXCEPT !.rules = rules, !.todo = @ \ {r}]
          ELSE [NoLoop EXCEPT !.pc = "after", !.rules = rules]

\* Asked for, hung up and nothing else: the rule is cancelled.
defunct(r) == r \in {2, 3} \cap loop.want /\ loop.hup /\ r \notin loop.ready

callback(r) ==
  CASE r = 1 -> incoming_datagram
    [] r = 2 -> outbound_bytes
    [] r = 3 -> inbound_bytes
    [] r = 4 -> outbound_segments

\* An adapter that drops every segment has not written to its descriptor.
served(r) == IF r = 4 THEN BOOLEAN ELSE {TRUE}

\* One rule of the results; a callback that neither used its descriptor nor
\* lost interest is a busy wait, which throws.
handle(r) ==
  /\ Looping /\ loop.pc = "results" /\ r = Min(loop.todo)
  /\ UNCHANGED owner
  /\ \/ /\ defunct(r)
        /\ tcp' \in cancel(r, tcp)
        /\ flags' = [flags EXCEPT !.outbound = @ \/ r = 2]
        /\ Handled(r, loop.rules \ {r})
        /\ UNCHANGED <<phase, pipe, total>>
     \/ /\ r \notin loop.ready /\ ~defunct(r)
        /\ Handled(r, loop.rules)
        /\ UNCHANGED <<tcp, phase, pipe, flags, total>>
     \/ /\ r \in loop.ready /\ r = 3 /\ write_fails
        /\ phase' = "killed"
        /\ UNCHANGED <<tcp, loop, pipe, flags, total>>
     \/ /\ r \in loop.ready /\ ~(r = 3 /\ write_fails)
        /\ callback(r)
        /\ \E s \in served(r) :
             phase' = IF ~s /\ interest(r, tcp', flags') THEN "busy" ELSE phase
        /\ Handled(r, loop.rules)

\* The tick of the connection; the adapter's own time is its own business.
after ==
  /\ Looping /\ loop.pc = "after" /\ ~flags.abort
  /\ tcp' \in IF active(tcp) THEN tick(tcp) ELSE {tcp}
  /\ loop' = [loop EXCEPT !.pc = "top"]
  /\ UNCHANGED <<phase, pipe, flags, owner, total>>

OwnerStep == \/ connect \/ listen_and_accept
             \/ \E n \in 1 .. PIPE : owner_write(n) \/ owner_read(n)
             \/ owner_shutdown \/ wait_until_closed \/ destroy \/ join

LoopStep == \/ setup \/ leave \/ poll(FALSE) \/ after
            \/ \E r \in 1 .. 4 : handle(r)

Next == OwnerStep \/ LoopStep \/ poll(TRUE)

\* The scheduler runs the thread; nothing obliges the network to deliver.
Spec == Init /\ [][Next]_vars /\ WF_vars(LoopStep)

-----------------------------------------------------------------------------
\* An owner who has read everything up to the end of the local socket, with no
\* reset and no abort, has read every byte of the peer, and the peer had ended
\* its stream: the partial writes of rule 3 lose nothing, and neither its
\* SHUT_WR nor the shutdown at the thread's end comes too early.
EndOfFileIsEndOfStream ==
  /\ (pipe.shut \/ phase = "ended") /\ pipe.down = 0
  /\ owner = "using" /\ ~tcp.error
  => tcp.in_end /\ total.read = total.arrived

\* The connection's outbound stream ends only after the owner shut down
\* writing, and holds all the owner wrote: a read of rule 2 that comes up
\* short is not taken for the end.
OutboundEndsLast ==
  tcp.ended => pipe.wr /\ pipe.up = 0 /\ total.accepted = total.wrote

\* A thread that ends without an abort leaves a connection that is done with:
\* inactive, every segment handed to the adapter (the last ACK or RST too).
EndsWhenDone ==
  phase = "ended" /\ ~flags.abort => ~active(tcp) /\ ~tcp.segs

\* wait_next_event never finds one of the four rules busy waiting, also when
\* the adapter drops or holds back every segment it is given.
NeverBusyWaits == phase # "busy"

\* The destructor returns: once it has set _abort, the thread ends, whatever
\* the network does, unless a signal ends the process.
DestructorReturns ==
  owner = "destroying" ~> phase \in {"ended", "killed"}
=============================================================================
