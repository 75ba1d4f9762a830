# A TLA+ verification of the sponge TCP stack

These modules model the TCP/IP stack in `src/libsponge` and the networks and loops
that `src/apps` build from it: TLC checks them on small instances, and TLAPS proves
theorems about the sender, the reassembler and its ring buffer, the socket, the copying
loop and the network interface for every value of their constants. `PROJECT.json`
lists components, runs, mutants, the map from definitions to source lines, findings,
hazards and theorems.

## The system

| Part | State | Operations | Interacts with |
|---|---|---|---|
| wrapping integers | none | `wrap`, `unwrap`, `+`, `-` | sender, receiver |
| `ByteStream` | ring buffer, totals, end and error flags | `write`, `peek_output`, `pop_output`, `read`, `end_input`, `set_error` | sender (outbound), reassembler (inbound), socket |
| `StreamReassembler` | list of intervals, next index, end index | `push_substring` = `assemble`; `output`; `check_end_input` | receiver, its output stream |
| `TCPReceiver` | peer's ISN, absolute ackno, FIN flags | `segment_received`, `ackno`, `window_size` | connection, reassembler |
| `TCPSender` | next and acked numbers, window, buffer of outstanding segments, timer, retransmission count | `fill_window`, `ack_received`, `tick`, `send_empty_segment` | connection, outbound stream |
| `TCPConnection` | sender, receiver, linger flag, time since the last segment | `connect`, `write`, `end_input_stream`, `segment_received`, `tick`, destructor | its owner, and through it the network |
| `NetworkInterface` | address table, pending requests, buffered datagrams, clock | `send_datagram`, `recv_frame`, `tick` | router or adapter, the Ethernet |
| `Router` | interfaces, forwarding table | `add_interface`, `add_route`, `route` | interfaces |
| `TCPSpongeSocket`, `EventLoop` | thread, socket pair, rules | four rules, `connect`, `listen_and_accept`, `wait_until_closed` | connection, adapter, application |
| datagram adapters | addresses, listening flag | `read`, `write`, `tick` | socket, kernel, interface |
| header codecs, parser, checksum | none | `parse`, `serialize`, `cksum` | adapters, interface |
| `bidirectional_stream_copy` | two `ByteStream`s, event loop | four rules | standard input and output, socket |
| `network_simulator` | a router, six hosts, the wires | `simulate`, `check`, `add_route`, `send_to` | router, interfaces |
| `lab7`, `bouncer` | two programs with adapter, router and network thread; a relay | rules of the thread, ticks, `bounce` | sockets, router, the Internet |

What is hard here: segments that are lost, repeated or overtaken; timers that
race with late acknowledgments; sequence numbers that wrap; windows that close;
the end of a connection, where one side may leave before the other knows; cached
addresses that expire; damaged packets and strangers' segments; writes that take
less than they were given; threads and loops that must end. `PROJECT.json` lists these
as hazards, each at its line.

## Modules

| Module | Models | Role |
|---|---|---|
| `WrappingIntegers` | `wrapping_integers.cc` | pure operators, checked in `TCPSender` against the nearest number |
| `ByteStreamOps` | `byte_stream.{hh,cc}` | the ring buffer, its methods as functions |
| `BoundedFifo` | | abstract: a bounded queue |
| `ByteStreamProofs` | | what each method of the ring buffer does to its contents |
| `StreamReassembler` | `stream_reassembler.cc` | the list of intervals and the ring buffer behind it; implements `Reassembler` and `BoundedFifo` |
| `ReassemblerOps`, `Reassembler` | | abstract: a set of stored bytes, as functions and as a state machine |
| `StreamReassemblerListProofs`, `StreamReassemblerProofs` | | what the splicing of `assemble` does to the list; theorems about `StreamReassembler` and the two refinements |
| `TCPSegment` | `tcp_segment.cc`, `tcp_header.hh` | the fields the stack reads |
| `TCPSenderOps`, `TCPSender` | `tcp_sender.{hh,cc}` | the methods as functions of the state; the sender before an arbitrary peer |
| `Iteration` | the loop in `fill_window` | n-fold iteration of a step, with its induction lemma |
| `TCPSenderProofs` | | theorems about `TCPSender` |
| `TCPReceiverOps` | `tcp_receiver.cc` | the methods as functions |
| `TCPConnectionOps` | `tcp_connection.cc` | the methods as functions, composed of the sender's and receiver's |
| `TCPState` | `tcp_state.{hh,cc}` | summaries of a connection, the official states and the arrows between them |
| `TCPPair`, `MCTCPPair` | two connections, their owners, the network | composition; implements `ReliableStream` |
| `ReliableStream` | | abstract: two byte streams |
| `ConnectionSummary` | `tcp_connection.cc`, `tcp_state.cc` | a connection without numbers and times, each method a set of outcomes; `TCPPair` checks that it leaves none out |
| `TCPSpongeSocket` | `tcp_sponge_socket.cc`, `eventloop.cc` | the owner's thread, the loop thread with its four rules, the socket pair |
| `TCPSpongeSocketProofs` | | theorems about `TCPSpongeSocket` |
| `StreamCopy` | `bidirectional_stream_copy.cc`, `eventloop.cc`, `file_descriptor.cc` | the copying loop between standard input, socket and standard output |
| `StreamCopyProofs` | | theorems about `StreamCopy` |
| `NetworkInterfaceOps`, `NetworkInterface` | `network_interface.cc` | the methods as functions; the interface among hosts |
| `NetworkInterfaceProofs` | | theorems about `NetworkInterface` |
| `RouterOps` | `router.{hh,cc}` | forwarding table, `route`, `AsyncNetworkInterface`, as functions |
| `Network`, `MCNetwork` | `network_simulator.cc` | router and hosts on their wires; the MC module joins it with `Lab7` |
| `Lab7` | `lab7.cc`, `bouncer.cc` | both programs with their threads, the relay, the Internet |
| `Codecs`, `LinkCodecs` | `parser`, `util`, `tcp_header`, `tcp_segment`, `ipv4_header`, `ipv4_datagram`; `ethernet_*`, `arp_message` | parsing and serializing, byte by byte, with the checksum |
| `Adapters` | `fd_adapter`, `tuntap_adapter`, `tcp_over_ip`, `lossy_fd_adapter`, and the frames of `network_interface` | `read` and `write` of the three adapters on bytes |
| `Wire`, `MCWire` | `socket.cc`, the addresses of `tcp_ipv4.cc`, a network | three hosts with adapters over a network that damages packets |

A component that others call is written twice: an `Ops` module with one function
from state to state per method, and a state machine whose actions call it. One
action is one whole call from outside: `TCPConnection::segment_received` runs the
receiver, the sender, `fill_window` and `send_segment_with_info` without letting
anybody in, and so does the action. The stack runs in one thread per socket, so
interleavings happen between calls, and between two endpoints. In
`TCPSpongeSocket` the owner may act between any two steps of the loop: the
collection of interests, `poll`, each callback, and the reading of `_abort`.
The network hands in any segment at any time, or none. What `poll` and `writev`
say of the Unix sockets is external: readable at the other side's end, hung up
when both directions are shut down, SIGPIPE for a write after a shutdown. In
`StreamCopy` the environment acts between the steps of the loop in the same way. In
`Lab7` one turn of the network thread is one action: it touches its own router, and of
the queues it shares with the host's thread it takes the head of one and appends to
the other, which commutes with what the host does to their other ends.

How data is abstracted. Byte k of a stream is the number k, so a payload is its
first byte and its length, and any loss, repetition or exchange shows. A segment
keeps its sequence number, flags, ackno and window. A datagram is a number or
`[id, dst, ttl]`. Only in `Codecs` and what uses it do packets consist of bytes, and
there of all of them; a 32-bit number is the pair of its halves, since TLC's integers
have 32 bits with a sign. IPv4 addresses are cut to `WIDTH` bits in the routers. `2^32`,
`2^64`, `2^16` are constants (`Mod32`, `Mod64`, `SizeMod`, `WinMod`), and the unsigned subtractions of the code that can wrap are
written with `%`. `buffer_` of the sender is the set of its elements: the deque
is in order of `start`, and only its front is ever taken. In `TCPPair` the
reassembler is the abstract one, which `StreamReassembler` implements.

## Runs

| Run | Checks | Bounds | Distinct states |
|---|---|---|---|
| `sender` | `TypeOK`, `TimerMatchesBuffer`, `BufferTilesFlight`, `PayloadAligned`, `WindowFilled`, `UnwrapIsNearest`, `WindowRespected`, `AckMonotone` | ISN just below the wrap, payload 2, capacity 3, 5 bytes, windows 0, 1, 2, 4, any ackno, 2 retransmissions in a row; every argument of `unwrap` with moduli 16 and 64 | 19,230 |
| `stream_reassembler` | `ListNormalised`, `SizeExact`, `OutputIsPrefix`, `ImplementsReassembler`, `ImplementsFifo` | stream of 10, capacity 6: three separate intervals fit and the ring wraps | 2,254 |
| `pair` | `CleanClose`, `ErrorHasCause`, `AckedMeansReceived`, `ImplementsReliableStream`, `SummarySound`, `StreamsFollowDiagram` | up to 2 bytes in segments of 1, loss and repetition, 2 segments in flight each way; both close where nothing is written, else the writer | 170,936 |
| `pair_timely` | `EventuallyFinished` | 3 bytes through a receiver of capacity 1, nothing lost | 15,759 |
| `interface` | `InOrderOnce`, `WaitingIsAsked`, `AddressFresh` | 2 hosts, one of which sends requests unasked, 2 cards, 3 datagrams, time 4 with limits 2 and 3 | 509,149 |
| `network` | `CheckPasses`, `InOnePlace`; `OneCopy`, `ArrivesUnlessLost` | the simulator with 8-bit addresses, 6 rounds, 1 added route of 3, 2 datagrams of 11; the programs of lab7 with 1 datagram each way, or 1 from the server and then up to 2 back, and the client's clocks reaching both limits | 121,376 |
| `wire` | `HandsOverWhatPeerWrote`, `IntactGetsThrough`, `ListensUntilSyn` | each adapter; 3 segments (a SYN, extreme numbers with an odd payload, a reset), every byte changed in 2 ways, cuts around every header's end, 2 or 3 writes | 3,772 |
| `socket` | `EndOfFileIsEndOfStream`, `OutboundEndsLast`, `EndsWhenDone`, `NeverBusyWaits`, `DestructorReturns` | streams of capacity 2, a socket pair that holds 1, 2 bytes each way | 560,825 |
| `stream_copy` | `NothingLost`, `EndsLast`, `EventuallyReturns` | streams of capacity 3, writes of at most 2, kernel buffers that hold 1, 4 bytes out and 2 in | 842,097 |
| `pair_close_gap` | `CleanClose`, violated | one byte, both close | |
| `pair_diagram` | `FollowsStateDiagram`, violated | no data, both close | |
| `interface_learns` | `LearnsMapping`, violated | one host that also sends requests | |

What the less obvious ones show. `ImplementsReliableStream` says that what one
application reads is a prefix of what the other wrote, and that it sees the end only
after all of it. `FollowsStateDiagram` compares every step of a connection with the
arrows between the official states of `tcp_state.hh`, one or two arrows at a time; it
is violated, because of the linger flag. `StreamsFollowDiagram` is what holds: sender
and receiver together are always as in an official state and go on along its arrows.
`WindowRespected` has one exception, which the code really takes: with a stream that
ended before the connection is opened, the SYN uses up the window,
`max_segment_size - 1` wraps around at `tcp_sender.cc:42`, and the FIN goes along.
`ImplementsReassembler` is what allows `TCPPair` to use the abstract reassembler, and
`SummarySound` what allows `TCPSpongeSocket` to use `ConnectionSummary`.
`ArrivesUnlessLost` has an exception too (`BehindExpired`), and the run reaches it: an
interface whose entry for the next hop has expired asks, gets an answer that does not
renew the entry, and keeps a datagram handed in after that answer, and too early for a
second request, until some later datagram asks again. `HandsOverWhatPeerWrote` and `IntactGetsThrough` together
say that `parse` after `serialize` is the identity on what matters, and that no
damaged packet gets through unless the damage is outside the segment.

Why the bounds are enough. The sender's properties relate neighbouring sequence
numbers, window edges and the SYN and FIN: five bytes in segments of two give a
full segment, a short one, one cut by the window and a FIN with and without
payload. `Mod32 = 16` with `ISN = 13` puts the wrap into the first bytes, and
every ackno of the space is tried. In the pair two segments in flight each way
are enough for one to overtake or repeat another; acknowledged or lost ones make
place for further ones. `Scenario` keeps the two hard parts of `pair` apart: data that
is overtaken, and two ends that close. Where something is written only the writer ends
its stream, so that nobody gets to linger; the view of that run then leaves out the
linger clock, which nothing else reads. With both at once comes `pair_close_gap`. The
interface needs an entry that expires and is used
and heard again (limit 3 within time 4), and two datagrams waiting together. In
the socket the streams hold more than the socket pair, so reads come up short,
writes are partial and the pair is full; with two bytes each happens again.
In the copying loop the kernel buffers hold less than a write and a write less than
the stream, and the stream's ring wraps. Six rounds of the simulator are enough for
a request, its answer and the datagram on each side of the router; two datagrams may
meet in any queue, wait for one address together, or cross. In lab7 a datagram
passes four interfaces, each of which first has to ask; with limits 1 and 2, and a
tick of 2, entries and requests of the client expire on the way. Its three worlds are the
simulator, lab7 with a datagram each way at any time, and lab7 where the client answers
the server with two, the second after entries of the first have expired. A queue holds
three frames (`QUEUE`), as many as one call may send.

Deadlock is checked in `sender`, `stream_reassembler` and the two runs of the
interface; in the others everybody may be done, or the process killed.

Fairness. Four runs assume any. In `pair_timely` applications go on (they open,
write, close and read), the event loop ticks an active connection, and the
network delivers. The event loop of `TCPSpongeSocket` polls with a timeout of 10 ms
and ticks after every round, which justifies the second. `Timely` says that
segments arrive before the next tick: without it a slow network makes an end give
up after `MAX_RETX_ATTEMPTS`, as it should. The conditions are written out with
explicit enabling conditions (`AppReady`, `TickMatters`, `ReceiveReady`), which TLC
evaluates far faster than `ENABLED` of these actions. That is weak fairness only if
each condition implies that its step is enabled; otherwise a stuck behaviour would
count as unfair and be passed over. On the states of this run TLC finds the first
two equivalent to `ENABLED`. For the third TLC was too slow; a segment to an active
connection can be received unless `MaxNet` forbids the answer, and at most 4
segments are ever in flight where `MaxNet` is 20.

In `socket` and `stream_copy` the loop's own steps are weakly fair: the scheduler runs
the thread. In `socket` a `poll` that finds a datagram is not among them, since
nothing obliges the network, so `DestructorReturns` rests on the timeout of `poll`. In
`stream_copy` `poll` waits without a timeout and the environment owes nothing, so
`EventuallyReturns` speaks of what the loop does once its descriptors are at an end.

In the lab7 half of `network` the threads and the bouncer are scheduled, a host reads
what is there, and a packet that is not lost arrives: weak fairness of `turn`, `Receive`, `adapter_read`
and `Relay`, again with conditions written out (`Busy`, `CanReceive`, `CanRead`), each
of which is the guard of its step, or for `Busy` a case in which the turn moves
something. No fairness is asked of clocks or of further writes, so what waits for a retry
waits forever: hence the exception in `ArrivesUnlessLost`.

### What the violated properties show

- `pair_close_gap`: `segment_received` clears `linger_after_streams_finish_` for
  any segment with a FIN, also for one that overtook the bytes in front of it.
  The application may end its own stream before the gap is filled; the
  connection then ends as the passive one although it closed first, without
  lingering, and its peer may never have its FIN acknowledged.
- `pair_diagram`: `tick` ends the lingering once both `ByteStream`s have been read to
  their ends, which says nothing of the own FIN. When the linger time runs out in
  CLOSING, the connection is in what `tcp_state.cc` calls LAST_ACK, a state that
  `tcp_state.hh:41` reaches from CLOSE_WAIT only. (With data there is a second
  departure, in which the flag is cleared while the inbound stream is open: the gap
  above, seen in between.)
- `interface_learns`: `map_.emplace` does not replace an entry. A host heard
  again is not renewed, and once its entry has expired no later message renews it:
  every further datagram waits for a new ARP exchange of its own.

Other places where the code and its comments differ, noted while modelling and not
checked by a run: the RST that
`~TCPConnection` queues when a socket is destructed stays in the queue of the
destroyed object (`tcp_sponge_socket.hh:75` says that it is sent);
`ByteStream::write` accepts bytes after `end_input` (`byte_stream.hh:11-12` says
that no more can be written); `StreamReassembler::empty` tells whether the end was
reached (`stream_reassembler.hh:57-58` says, whether substrings are waiting);
`already_sent_arp_.emplace` keeps the time of the first request, so requests
repeat five seconds after it (`tests/net_interface.cc:155`). With host 1 among
`Announcers`, `WaitingIsAsked` fails for it if stated for all hosts: an expired
entry that no message renews lets a datagram be buffered without a request.
Also: `window_size` is cut to 16 bits when it is sent; retransmissions into a
closed window are not counted; `fd_adapter.cc:13-14` says that the ports of a segment
are compared, which the UDP adapter leaves to the kernel; `IPv4Datagram::parse` does
not look at what the parse of its header returned, so a wrong header checksum alone
is accepted; `EthernetFrame::parse` takes a frame that is too short without an error;
a pending ARP request is never repeated by `tick`, only by a further datagram; once
both directions of the socket are shut down, the copying loop turns without waiting
until standard input ends; the network thread of `lab7` passes 50 ms to its
interfaces after every event, so that their clocks run ahead; it takes an empty UDP
payload for the end of its socket, from which only the test at `bouncer.cc:37`
protects it.

## Proofs

Each theorem holds for every value of the constants that the modules' named
assumptions allow, so for streams, windows, buffers and sets of hosts of any size.

| Module | Theorem | States |
|---|---|---|
| `TCPSenderProofs` | `Invariance`, `WindowInvariance` | `Inv` and `WindowInv` are invariants |
| | `TypeCorrect`, `TimerCorrect`, `TilesCorrect`, `AlignedCorrect` | `TypeOK`, `TimerMatchesBuffer`, `BufferTilesFlight`, `PayloadAligned` |
| | `AckCorrect` | `AckMonotone` |
| | `FilledCorrect` | `WindowFilled` |
| | `RespectCorrect` | `WindowRespected` |
| | `UnwrapCorrect` | `UnwrapIsNearest` |
| `StreamReassemblerProofs` | `ReassemblerInvariance` | `ReassemblerInv` is an invariant |
| | `OutputCorrect`, `ListCorrect` | `OutputIsPrefix`, `ListNormalised` |
| | `FifoRefined`, `ReassemblerRefined` | `ImplementsFifo`, `ImplementsReassembler` |
| `TCPSpongeSocketProofs` | `SocketInvariance` | `SocketInv` is an invariant |
| | `EndOfFileCorrect`, `OutboundCorrect` | `EndOfFileIsEndOfStream`, `OutboundEndsLast` |
| | `EndsCorrect`, `LoopCorrect` | `EndsWhenDone`, `NeverBusyWaits` |
| `StreamCopyProofs` | `CopyInvariance` | `CopyInv` is an invariant |
| | `NothingLostCorrect`, `EndsLastCorrect` | `NothingLost`, `EndsLast` |
| `NetworkInterfaceProofs` | `InterfaceInvariance` | `InterfaceInv` is an invariant |
| | `InOrderOnceCorrect`, `WaitingCorrect` | `InOrderOnce`, `WaitingIsAsked` |
| | `AddressCorrect` | `AddressFresh` |

`Iteration`, `ByteStreamProofs` and `StreamReassemblerListProofs` hold the lemmas the others
rest on.

Assumptions. Sizes, capacities and timeouts that the code divides or counts by are
positive. `Mod32` divides `Mod64`, which is at least twice as large; the payload size
and the advertised windows lie below `Mod64` (`EnvironmentAssumption`; the windows have
16 bits in the code and are computed with as 64). The stream of a reassembler is
shorter than `SizeMod`, the numbers a `size_t` has (`StreamAssumption`). A request
expires before a mapping does, and the interface's own address is nobody else's
(`LimitAssumption`, `LanAssumption`: 5 and 30 seconds in the code).

**Sender.** None of the properties is inductive by itself. `Inv` adds what connects
them: `next` counts the SYN, the bytes read from the stream and the FIN; `acked` lies
below `next`; outstanding segments are pairwise disjoint, aligned to the stream
and together cover the numbers from `acked` to `next`; only the last may carry a
FIN; the timer runs exactly while there is one. Each method has a lemma (`AssembleInv`,
`FillInv`, `AckInv`, `WriteInv`, `EndInv`, `TickInv`) that it keeps the part of the
state it changes, and `NextInv` puts them together, one step per action.

`fill_window` contains a loop. `Iteration` defines the n-fold iteration of a step
without recursion on operators, and proves that it exists, is unique and keeps
what each step keeps; `FillInv` uses it with one round of the loop as the step, and so
does `FillFills`, which says that the loop stops only when the window is full or there
is nothing to send, and that no round overshoots. `WindowInv` carries that to the next
call. An acknowledgment that opens the window reaches `fill_window` in the same step.
`UnwrapCorrect` goes through quotient and remainder of `checkpoint - steps`: the numbers
that wrap to the argument are `Mod32` apart, `unwrap` compares the last one up to the
checkpoint with the next one, and any other is further away. Where the subtraction
wraps around, the next one comes out as `steps`, the least of all.

**Reassembler.** `ReassemblerInv` says of the list (`List`) that its intervals are
ascending with gaps between them, hold the bytes of their places, begin beyond `next_`
and end within the capacity, and of the ring buffer that it holds the bytes between
those read and `next_`. That bound matters: without it `output_.write` might drop
a byte. The lemmas on lists follow `assemble` through its search, its cut at
both ends and the replacement of the intervals it runs into; where the loop stops
is the least position at which its condition fails, so no induction over the list
is needed. `FifoRefined` maps the ring buffer to its contents, `ReassemblerRefined` also
the list to the set of bytes stored. `WithinStream`, needed for the latter, says that
nothing beyond the end of the stream is stored or delivered.

**Socket.** The owner may act between any two steps of the loop, so `SocketInv` states
what survives that: bytes are conserved (`Conserved`), the ends of the two
directions come in order (`Ordered`), and what the loop decided on remains true until
it acts (`Decided`): rule 2 is called only with room in the stream and with bytes or
an end to read. This last part carries `NeverBusyWaits`: a callback that
neither reads nor writes and stays interested is what `wait_next_event` throws at.

**Copying loop.** `CopyInv` has the same shape: counters and kernel buffers within
bounds, the order of the ends (`Ends`), why a rule was cancelled (`Gone`), and what
`poll` reported (`Decided`). `NothingLost` is part of it and rests on
the lemmas about the ring buffer: `write` appends, `peek_output` and `pop_output` take
from the front, also across the end of the ring.

**Interface.** `InterfaceInv` says that a mapping is no younger than what was last
heard of its host (`MapHeard`, for `AddressFresh`), that a host which only answers has a request to
answer or a mapping (`Asking`), that a host something waits for has no usable
mapping, so that nothing overtakes what waits, and that what waits or left was handed
in (`Handed`). `WaitingIsAsked` needs `LimitAssumption`: once a mapping has expired, the
request it answered is old enough to be made again.

Only model-checked, and why:

- `EventuallyFinished`, `DestructorReturns`, `EventuallyReturns`, `ArrivesUnlessLost`:
  liveness is out of the prover's reach.
- `SizeExact`: `size_` is compared with the cardinality of a union over the list, which
  takes induction over the list.
- The codecs and adapters (`wire`) use recursive operators, the routers and lab7
  (`network`) folds over tables and queues: induction over data.
- The pair: `CleanClose`, `ErrorHasCause`, `AckedMeansReceived`,
  `ImplementsReliableStream`, `SummarySound` and `StreamsFollowDiagram` join both
  endpoints with whatever is in the network; no inductive invariant for them is
  stated here.

## Not modelled

- `Buffer` and `BufferList` share strings to save copies; here they are sequences of
  bytes.
- System calls and their wrappers but for what `StreamCopy`, `TCPSpongeSocket` and
  `Wire` use of them; `Address` and its name resolution; `EINTR`, as no code here
  installs a signal handler; TUN and TAP devices themselves.
- The drivers in `src/apps` that parse options and call the components: `tcp_*.cc`,
  `webget.cc`, `tun.cc`, `udp_tcpdump.cc`, and all printing, `to_string`, `summary`
  and `hexdump`.
- The destructor of `TCPConnection`: the RST it queues dies with the object. Clocks
  and random numbers are the choice of the model.
- The dummy frame that the constructor of the Ethernet adapter sends. In `Wire` the
  Ethernet adapter is explored with two hosts, and ARP messages, which no checksum
  protects, are not damaged.
- In `Lab7`, the content of segments; a third program that takes over a port of the
  bouncer; and the end after an exception, where the network thread may leave the TCP
  thread behind. The program introduces itself with three packets, the model with one
  (`HELLOS`).
- An unbounded number of anything outside the proofs: every bound is a constant,
  or marked as a bound where it stands.
