# A TLA+ development for JavaICE

JavaICE is a Java binding (`java-ice/`) for libnice (`libnice/`), a C library that
establishes peer-to-peer connections with ICE (RFC 8445), STUN and TURN and, for
reliable streams, runs a byte stream (pseudo-TCP) over the pair of candidates it
selects. Almost all of the program's state, and all of its hard behaviour, is in
libnice. This directory holds TLA+ models of its parts, the TLC runs that check
them on small instances and TLAPS proofs for instances of any size. Paths below
are relative to `src/libnice/` unless they say otherwise.

## 1. Inventory

### 1.1 Parts, state and operations

| part | source | state | operations |
|---|---|---|---|
| STUN retransmission timer | `stun/usages/timer.c` | deadline (a `struct timeval`), delay, number of transmissions and its limit | start, start_reliable, remainder, refresh |
| STUN agent | `stun/stunagent.c`, `stunmessage.c` | table of 200 sent transaction ids with their keys | init_request, finish_message, validate, forget_transaction |
| Pseudo-TCP | `agent/pseudotcp.c` | TCP state, send queue, segment list, receive ring buffer, out-of-order list, windows, timers, congestion state | connect, send, recv, shutdown, close, notify_packet, notify_clock, get_next_clock |
| Connectivity checks | `agent/conncheck.c`, `stun/usages/ice.c` | check list, triggered-check queue, transactions of each pair, selected pair, role and tie-breaker, pacing timer | set remote candidates and credentials, tick, inbound STUN, nominate, prune, fail |
| Gathering | `agent/discovery.c`, `conncheck.c`, `agent.c`, `component.c` | discovery list with its timer and counter, name lookups, TURN servers, local candidates | gather, set and forget relays, resolve, schedule, tick, replies, prune |
| TURN refresh | `agent/discovery.c`, `conncheck.c`, `stun/usages/turn.c` | refresh list, streams that wait for it, close task | ticks, replies, asynchronous release of allocations |
| Keepalive, consent | `agent/conncheck.c`, `component.c` | keepalive timer, consent clock of each selected pair | ticks, replies, selection, restart, revocation |
| TURN client socket | `socket/udp-turn.c` | permissions, channel bindings, queues of data, requests under way, timers | send, recv, set_peer, ticks, renewals, expiry |
| Stream sockets and proxies | `socket/tcp-*.c`, `http.c`, `socks5.c`, `pseudossl.c`, `udp-turn-over-tcp.c` | send queue, handshake state, reassembly buffer | send, recv, handshake steps |
| Agent, streams, components | `agent/agent.c`, `stream.c`, `component.c` | streams, component states, sockets and sources, I/O callbacks, pending data | add and remove stream, gather, attach, send, recv, restart, close |
| I/O streams | `agent/inputstream.c`, `outputstream.c`, `iostream.c` | weak reference to the agent, waiting sources | read, write, poll, close |
| Java wrapper | `../java-ice/src/main/java/.../ice/` | native handles and their references, main-loop thread | start, stop, close, push and pop, calls of the agent, upcalls |

### 1.2 How the parts interact

Everything above the sockets runs under one lock per agent. GLib's main loop
dispatches socket input and timers (check pacing, discovery pacing, keepalive,
refresh, consent, the pseudo-TCP clock); each callback takes the lock, runs to its
end and releases it, and signals to the application are queued and emitted after the
unlock. A callback, or a call of the public interface, is therefore one atomic step,
and the interleavings that matter are those of callbacks of one agent, of the two
agents, and of the network between them. The TURN socket has a mutex of its own
with the same effect. A STUN datagram goes from the component's socket through the
TURN socket (if the path is relayed) to `conn_check_handle_inbound_stun`; any other
one to the application, or to `pseudo_tcp_socket_notify_packet`. What these pass down
again leaves through the selected pair. The lock is released while an application's
callback runs, while a blocking read iterates its own context, and while a writer
sleeps, so in these places another thread may come in between; above them the Java
wrapper adds the thread that runs the main loop.

### 1.3 What makes it hard

* Datagrams are lost, duplicated, reordered and late at every layer, and every
  request has a timer whose expiry races its answer.
* Two agents decide at once, on checks that cross: who is in control, which pairs
  work, which one to nominate, and when to stop.
* Records point to one another (pair to discovered pair, queue to pair, binding to
  timer source) and are freed by several unrelated operations.
* A timer that has been stopped must be started again by whatever makes new work.
* Numbers carry, wrap and are compared across widths (timeval, sequence numbers,
  windows).
* A call in the middle of a handler may fail and change the state its caller goes on
  with.
* A stream socket takes and gives any number of octets at a time, below framings that
  are stacked on one another.
* A reader or a writer sleeps until somebody remembers to wake it, and the objects it
  uses may be closed from another thread.

`PROJECT.json` lists these hazards at the lines where they bite, with the properties
that would catch them.

### 1.4 What "correct" means for each part

* timer: a request is sent a bounded number of times, never in a burst, and is given
  up in the end but not early;
* pseudo-TCP: the reader gets the writer's bytes, in order and without gaps; buffers
  and windows agree; a close loses nothing; a transfer never stalls;
* checks: no assertion fails and no freed pair is used; two agents that finish send
  on the two ends of one path, and exactly one of them is in control; they do finish;
* TURN socket: data leaves in the order it was given and leaves in the end; what the
  socket believes the server to hold, the server holds;
* gathering: discovery never stands still, its end is announced when it is one and not
  before; every allocation is refreshed while its candidate is in use and released
  after; a close completes and leaves nothing behind;
* stream sockets: what comes out of the stack of framings is what went in, whatever the
  kernel and the proxy cut it into, and it does come out;
* receiving: every octet is handed over once and in order, to a callback or to a read,
  through detaching, re-attaching and removal; no reader sleeps on data that is there;
* sending: every octet reported as sent leaves once and in order, unless its connection
  breaks; a writer that waits is woken; a write ends;
* consent: a peer that answers keeps it, one that revokes it loses it, and what is lost
  comes back only with a new selection; every selected pair is kept alive in time;
* Java wrapper: no native function is handed a freed object and nothing leaks, in
  whichever order and from whichever thread things are closed; the loop serves and ends.

## 2. Modules

| module | models | uses |
|---|---|---|
| `StunTimer` | `stun/usages/timer.c`, whole | |
| `PseudoTcpRbuf` | receive buffer and reassembly of `pseudotcp.c` | |
| `PseudoTcpSocket` | one pseudo-TCP socket, the C functions as operators on its record | `PseudoTcpRbuf` |
| `PseudoTcp` | two sockets, their users and a network | `PseudoTcpSocket` |
| `PseudoTcpRecv` | the receive side against any peer | `PseudoTcpRbuf`, `ByteStream` |
| `ByteStream` | abstract: what the reader of a stream is promised | |
| `ConnCheckList` | candidate pairs, the check list, selection and pruning | |
| `ConnCheckAgent` | one agent's handlers: tick, requests, responses, signalling | `ConnCheckList` |
| `ConnCheck` | two agents, their applications and a network | `ConnCheckAgent` |
| `UdpTurn` | the TURN client socket, with a server and a network | |
| `Gathering` | discovery, name resolution, refresh and release of allocations, with servers and a network | |
| `TcpSocket` | `socket/tcp-bsd.c`: a stream socket and its send queue | |
| `ProxySocket` | `http.c`, `socks5.c`, `pseudossl.c`: the handshakes on top of it | `TcpSocket` |
| `StreamSocket` | the stack of sockets with `udp-turn-over-tcp.c`, `tcp-active.c`, `tcp-passive.c`, its user, a proxy and the far end | `ProxySocket` |
| `ComponentRecv` | the receive side of a component: callbacks, blocking reads, pollable sources | |
| `StunAgent` | `stun/stunagent.c`: the table of transactions, validation | |
| `Keepalive` | keepalives and consent of the selected pairs, with a peer and a network | `StunAgent` |
| `ComponentSend` | the send side of a component and the output stream | `Keepalive` |
| `JavaWrapper` | `GLibContext` and `NiceAgent` of the Java wrapper, GLib's references and main loop | |
| `StunTimerProofs`, `PseudoTcpRecvProofs`, `ComponentSendProofs`, `JavaWrapperProofs` | the proofs | the component |
| `UdpTurnInvariant`, `GatheringInvariant` | inductive invariants, and the operators that keep them | `UdpTurn`, `Gathering` |
| `UdpTurnProofs`, `GatheringProofs` | the remaining steps and the theorems | the invariant |
| `MC*` | the instances TLC explores | |

All models follow one convention: the private data of a C object is a record with
the code's field names, a C function is an operator from the record to the record it
leaves, and an action runs a whole callback and hands the messages it wrote to the
network. Messages are records of the fields that handlers look at. A definition named
`...` "Mutant of X" in its comment is X with a plausible mistake; such definitions
are not used by the specifications and serve to show that a property depends on X.

### 2.1 StunTimer

The clock `now` counts microseconds; `deadline` is the code's `struct timeval`,
normalised with the single carry of `set_delay` (`usec > 1000000`, as the code
compares). `Start`, `Retransmit`, `Timeout` and `Tick` are `stun_timer_start`, the
two outcomes of `stun_timer_refresh` on an expired timer, and the passing of time.
A poll of a timer that has not expired changes nothing. `armed`, `initial` and
`started` are history variables.

### 2.2 Pseudo-TCP

`PseudoTcpSocket` follows `pseudotcp.c` function by function: `SocketConnect`,
`SocketSend`, `SocketRecv`, `SocketShutdown`, `SocketClose`, `Process`,
`SocketNotifyClock`, `SocketGetNextClock` over `Transmit`, `AttemptSend`,
`SetState` and the others. A byte is a number, the n-th the user wrote, so that a
byte in the wrong place is a wrong byte. Abstractions:

* The congestion window is not computed. It is one of the values a scenario gives
  (`cwnds`), chosen afresh at each call: one or two segments in the long transfer, the
  size of the buffer, and so no limit, in the others. Which timers are due is
  nondeterministic. Round-trip estimation, timestamps and MTU probing only influence
  when something happens; they are left out. The one use
  of a timestamp that decides more (`sameTs`) is an input of the action.
* Sequence numbers are unwrapped. `rcv_fin = 0` means "no FIN", as in the code.
* `rlist` is the set of positions held out of order, the union of the code's
  intervals, on which alone a merge depends.
* A write of a packet succeeds, fails or is refused as too large, on which the code
  takes a smaller segment size. `agent.c` never gives the last answer; other users of the
  socket's callbacks may.
* A failed `g_assert` is recorded in `failed`, and the socket stops.
* `finUnbacked` remembers that a socket counted the peer's FIN on a segment it did not
  take in full (section 3.1).

`PseudoTcpRecv` uses the same `ReceiveData` against a network that delivers any
segment of the peer's stream at any time. This is what the proofs are about:
every statement holds whatever the sender does, as long as its bytes are those of one
stream. `ByteStream` is the abstract specification it implements.

### 2.3 Connectivity checks

`ConnCheckAgent` has one operator per handler: `TickAgent` (`priv_conn_check_tick_*`
with retransmission, ordinary and triggered checks, unfreezing, nomination, the idle
window), `HandleRequest` (inbound Binding requests with early checks, peer-reflexive
remote candidates, role conflicts, USE-CANDIDATE, triggered checks), `HandleResponse`
(matching a transaction, 487, peer-reflexive local candidates and discovered pairs,
nomination, selection) and the calls an application makes. `ConnCheck` joins two
agents by a network described by a scenario: which host reaches which, through a
translator or not. A socket belongs to a candidate's base and an address is an ip and
a component. Pairs are named by their two addresses, the code's identity of a pair; a
link or a queue entry whose pair is gone is the code's dangling pointer and is
recorded in `failed` when it is followed.

Left out: TCP candidates, several streams, forced relaying, renomination,
consent (in `Keepalive`), restart during checks, equal tie-breakers, legacy compatibility modes, and STUN validation below "credentials are known or not".

### 2.4 TURN client socket

`UdpTurn` models RFC 5766 mode. There are two clocks, as in the code: the
retransmission timers run out within seconds, permissions and bindings live for
minutes. `due` is the set of requests whose timer has run out when a step looks at
it; `Minute` is a step of the slow clock and is taken only when nothing short-lived
is left (a minute is longer than any retransmission schedule), except for a request
that nothing times. The server holds permissions and bindings with their lifetimes, a
nonce it may renew, and may refuse. A response that answers no request under way
is handed up to the agent with the socket unchanged (`HandUp`). Ghost fields of `sock`:
`granted`, `unsent`, `stalled`, `expired`, `endless`, `out`, `written`.

Left out: the Google, MSN and OC2007 dialects, a stream as base socket (its framing is
in `StreamSocket`), destruction, and whether data goes as a channel message or an indication.

### 2.5 Gathering and TURN allocations

`Gathering` follows one path through four files. An application sets relays, gathers,
forgets relays, removes streams and closes (`SetRelayInfo`, `GatherCandidates`,
`CleanTurnServers`, `RemoveStream`, `CloseAsync`); names are resolved, a TURN name in
the two critical sections of `turn_server_resolved_cb` (`TurnLookupCounted`,
`TurnResolved`); discovery items are sent one per tick, retransmitted and answered
(`DiscoveryTickUnlocked`, `HandleReply`) with success, a challenge, a stale nonce, an
alternate server or an error; a successful allocation becomes a relayed candidate with
a refresh, or, if redundant, a refresh that is released at once. `RefreshPruneAsync`,
`RefreshRemoveAsync`, `RefreshFree` and `OnRefreshRemoved` are the release of
allocations, which ends a stream's removal, and `UnlockAndEmit` completes a close.
`nice_agent_set_relay_info` refuses a server once `MaxTurnServers` are set.
`Select` stands for the connectivity checks, whose choice keeps a relay alive. The
ghost fields `orphaned`, `early`, `lapsed` and `unreleased` remember how things ended,
and `failed` that a freed or missing object was used, after which no handler runs.

An address is an ip and a socket, a socket a host and a stream. A transaction's timer
runs out when nothing of it is in flight, or early at the cost of a fault. Left out:
several components, TCP and TLS, UPnP, ports, forced relaying, `close_forced`, the
legacy dialects, and the priorities and foundations of candidates.

### 2.6 Stream sockets

`TcpSocket` is `tcp-bsd.c`: a send takes what the kernel takes and queues the rest
behind what is queued, the writable source drains the queue, an error or an end of
stream is final. `ProxySocket` puts the HTTP CONNECT, SOCKS5 and pseudo-SSL handshakes
on top: messages handed over early wait in a queue of their own and are flushed when the
handshake ends; an answer arrives cut anywhere, in a ring buffer that grows (HTTP) or
not at all (the others). `StreamSocket` adds the framing of TURN over TCP in its three
dialects (RFC 5766 with padding, Google and OC2007) and the active and passive sockets
of ICE-TCP with their tables of connections. A setting chooses the stack. Messages are
sent in batches; the other side may reset the connection in the middle of one (`Cut`), and
the call then reports fewer messages than the socket has taken, or -1 for a reliable batch
of which some have left. What the socket took (`acc`) and what the agent counts as sent
(`next`) are therefore two things. The error of a reset is G_IO_ERROR_CONNECTION_CLOSED,
or G_IO_ERROR_FAILED, after which `tcp-bsd.c` queues the message as if the kernel were full. Octets are
numbered and taken in units of two, which keeps every place where a header, a body or
a padding may be cut. The far end reads, answers the handshake and sends frames of its
own. Left out: the wording of the HTTP answer beyond its lines, what the
credentials and the messages of a handshake contain, and a G_IO_ERROR_FAILED on a
connection that is still up.

### 2.7 Receiving

`ComponentRecv` has two threads, the main loop ("L") and the application ("A"), the
agent's lock, and the contexts the component's sockets are attached to. `component_io_cb`
is split where it releases the lock around the application's callback; a blocking
`nice_agent_recv_messages` where it iterates its own context; the idle callback that
delivers `pending_io_messages` is a source of its own. The application attaches,
detaches and re-attaches, from either thread and within a callback, reads with and
without blocking, polls a `ComponentSource`, and removes the stream. Data comes as
datagrams, as pseudo-TCP (an ordered buffer here) or as an RFC 4571 stream with its
cache of whole frames. A pseudo-TCP socket that is CLOSED counts as closed by the peer as
well, as `pseudo_tcp_state_has_received_fin` has it. Octets are numbered; `Accounted`
follows each of them.

### 2.8 STUN agent, keepalive, consent and sending

`StunAgent` gives a message the status `stun_agent_validate` gives it, from the agent's
flags, the table of saved ids and the attributes that are present, missing or wrong, and
follows the table. `Keepalive` uses it for the answers to keepalives. Time is discrete and
relative: a timer holds what is left of its delay. `KeepaliveTick` is the agent's tick
(one keepalive of the first component that is due, a binding indication or a check, or
one for a host candidate, or none; the timer is armed for the nearest), `ConsentTick` the
clock of a pair, `Receive` an answer (success, 401, 403), and pairs are nominated or set,
streams restarted, consent revoked at the peer and the peer restarted. `ComponentSend`
adds `nice_agent_send` and `nice_agent_send_messages_nonblocking` (one message, of one or
several buffers) with the pseudo-TCP buffer or RFC 4571 frames on the ICE-TCP socket of the
selected pair, each with a queue of its own and a connection that may break between two
frames or with a queue behind it (`Framed`, `FramesSent`, `FramesFail`, `Dropped`), a thread in
`nice_output_stream_write` with its `WriteData`, a main loop that writes from a pollable
source, the cancellable they share, the queue of signals emitted after the unlock, and
removal, cancelling and closing. `got` and `sq` are what each connection has carried and
holds, `lost` what went with the queue of a broken one. Left out: several messages in one
call, and agents that are not reliable.

### 2.9 Java wrapper

`JavaWrapper` counts the references to the loop, the context and the agent as GLib does
and records in `bad` a call that is handed a freed object. Two threads call the wrapper:
the application's, and the worker of the wrapper's executor while an upcall of a signal
runs. `close()` is a sequence of native calls, each a step. The worker takes a task,
enters `g_main_loop_run`, owns the context if nobody else does (and goes on owning it after
the loop if an upcall pushed it as the thread's default), serves the agent's timer (`timeout_cb` with
its own reference to the agent), makes upcalls and leaves. Without the native library all
handles are NULL and nothing is called. Arenas, strings and lists of candidates are left out.

## 3. Runs

A scenario is a record that fixes what the users do and how many faults may happen;
the initial state chooses one. Faults are counted because without a bound a network
that loses everything explores nothing but its own losses.

| run | instance | what it shows |
|---|---|---|
| `stun_timer` | timeouts of 1, 500 and 501 ms, 1 to 4 transmissions, four start values of the clock, polls on time and late | waits add up to the total of `timer.h:143`, that of `timer.h:206` is only a bound, and the remainder is the distance to the deadline across every carry (`WaitsFollowSchedule`), no early timeout, no burst, every transaction ends |
| `ptcp` | buffers of 4 bytes, segments of 1 and 2: long transfer with Nagle and delayed acks, fast retransmit and recovery, failing writes, also in the middle of a shutdown, closes with and without FIN-ACK, by one side or both, with a fault, a clock or a repeated segment; and receive buffers of 1 byte under an endless clock | the stream arrives intact (`StreamIntegrity`); segment list, send buffer, windows and timers agree (`BooksAgree`); no assertion fails but two in the situations named (`AssertionsHold`); a close loses nothing (`CloseMeansDelivered`); a transfer never stalls: acks, retransmission and window probes carry it through zero windows (`NeverStalls`) |
| `ptcp_fin` | two segments and a FIN, reordered, one repeated | **violated**: `FinInSequence`, what the comment at `pseudotcp.c:1829` says of `received_fin` (section 3.1) |
| `ptcp_recv` | buffer of 6, segments of 0 to 4 bytes from positions 0 to 9, in any order, any number of times | reassembly is exact and implements `ByteStream` |
| `conncheck` | thirteen scenarios: one or two components, one or two paths, with or without translator, late or unreachable candidates, a peer that still gathers, all pairings of roles, both nomination modes, up to two faults (loss, repetition, early timer, socket error, a refusal, a response without an address) | no assertion fails and no freed pair is used (`AssertionsHold`); work has a timer (`WorkIsScheduled`); the two agents agree on the best pair (`Agreement`); components part only where they must (`ComponentsTogether`); the tie-breaker decides; both agents become ready and stop their timers (`LiveReady`) |
| `conncheck_links` | a translator, a late candidate, one failing send | **violated**: `LinksResolve`, what the comment at `conncheck.c:610` aims at (section 3.1) |
| `udp_turn` | two peers, two channels, two transmissions, six scenarios with up to three faults | data in order and in the end; permissions and channels are what the server holds (`ServerAgrees`); requests, queues and pending bindings correspond (`RequestsAgree`) |
| `gathering` | two streams, six scenarios: STUN and relays by name, both versions of IP, a redundant relay and one too many, a relay replaced while selected, refreshes with two faults, a port that is taken | what is to be discovered is counted and driven by the timer, and every refresh by one of its own (`DiscoveryDriven`); allocations and candidates correspond (`RelaysAreRefreshed`); the end is announced, not before it is reached, and a close completes (`EndsAreReached`) |
| `stream_socket` | TURN over TCP in three dialects, through HTTP (with and without a body, refused, unreachable), SOCKS5 and pseudo-SSL, active and passive ICE-TCP with two connections, resets in the middle of a batch with either error | the octets of both directions are whole and in order below every cut (`OctetsKept`); queues have sources, the table of connections is right (`SocketsAgree`); what was accepted is read in the end (`DataMoves`) |
| `component_recv` | three kinds of sockets with up to six messages; attach, detach, re-attach, read, poll and remove from two threads and from the callback | every octet is accounted for (`Accounted`); neither data nor a reader waits in vain |
| `component_send` | two components with pairs that change, restarts, revocation, loss and repetition under a clock; a writing thread, a polling loop or a message of two buffers against acknowledgements, removal, cancelling, closing, changes of the pair, failure and connections that break | consent and keepalives; no lost wake-up (`WakeIsDue`); what is written leaves in order and once on every connection (`WriteInOrder`) and a write ends |
| `java_wrapper` | nine calls by the application and three in upcalls, with and without the library | no freed object is used and nothing leaks (`Lifetimes`); the loop serves timers, obeys a stop and ends (`LoopObeys`) |

The bounds. *Timer*: four transmissions pass through the first, a middle, the last
but one and the last wait, the four cases `stun_timer_refresh` tells apart, and 501 ms
at 499999 and 999999 microseconds reach the carry from both sides. *Pseudo-TCP*: two
segments fill the window, three or four of one byte give the three duplicate acks of
a fast retransmit and one more; one fault per scenario can hit any packet at any
moment and two are needed for recovery to meet a second loss; a segment is given up after
two transmissions instead of 15 or 30. *Reassembly*: the buffer
holds more than one segment and the stream is longer than twice the buffer, so gaps
at every offset arise and close. *Checks*: two paths are the fewest that can be
preferred, superseded and pruned; `max_conn_checks` of 3 or 4 makes the size limit bite;
two transmissions distinguish "repeat" from "give up"; two idle ticks stand for the
idle window. At most one send fails in a scenario, and one that fails twice within a
callback counts as two. *TURN*: two peers and two channels are the fewest for which a binding
waits for another, and for which a number is reused. The timeouts (2, 3 and 1 minutes
against lifetimes of 3 and 4) keep the order of the code's 4, 9 and 1 against the
RFC's 5 and 10, with which the model has also been explored (2.1 million states). *Gathering*: two
streams are the fewest of which one waits for the other, two hosts the fewest for a
redundant allocation, two addresses of a name the fewest that make a second server, and
one server per component the limit, so that the next one is refused;
one fault can hit any message, and two meet on one refresh. Larger scenarios (all
kinds of faults with two streams and two servers, 490 thousand states) were explored
for the safety properties. *Stream sockets*: the kernel's buffer is smaller than one
frame, so every frame can be cut at every unit and queued, and three messages make a
queue that is overtaken if it can be. *Receiving*: buffers of two to four octets are cut
by every message, and two callbacks, a read and a removal are the most that meet on one
component. *Sending*: four octets against a buffer of three and frames of two fill and
refill the buffer; a table of two saved ids is full after two unanswered keepalives; the
delays keep the order of the code's (pace, keepalive, consent interval, timeout).
*Java*: nine calls of one thread and three of the other reach every order of opening,
starting, stopping and closing, some of them twice; `Lifetimes` is proved for any number.

Fairness. GLib's loop dispatches every source that stays ready. `StunTimer`: a caller
re-arms a source for the remainder and polls again. `PseudoTcp`: packets that
have arrived are read, the clock `adjust_tcp_clock` arms goes off, users read what
is announced. `ConnCheck`: the pacing timer fires, datagrams not lost
arrive, a transaction's timer runs out once nothing of it is in flight, and the
applications make their calls. `UdpTurn`: packets not lost arrive, and the
CreatePermission timer is dispatched when due. `Gathering`: the loop dispatches timers
and input, the resolver answers, and messages not lost arrive; `Ready` is the guard.
`StreamSocket`: the loop dispatches ready sources, the network delivers, the other side
reads and answers (`Busy` is the guard). `ComponentRecv`: both threads are scheduled, and a
peer that sends keepalives goes on sending them. `ComponentSend`: ticks, the clock, the
writer, the queue of signals and a transport that has not failed make progress, and a
prompt peer answers. `JavaWrapper`: the worker goes on, and so does a call once it is made.
No fairness is assumed of users' writes, of
faults or of a server's goodwill. Conditions are written as "eventually always guard
implies infinitely often step", which is weak fairness with its guard spelled out.

### 3.1 Where the code departs from its comments

The models follow the code. In the following places it does something else than a
comment, a document or an assertion of its own says; each was met as a counterexample
to the property that states the comment. The first two have a run of their own.

* `pseudotcp.c:1843`: `process()` takes the FIN as reached when
  `rcv_nxt + seg->len == rcv_fin`, without looking at `seg->seq` (the comment at 1829
  speaks of a FIN whose data has all been received). A FIN overtakes a lost segment, and a
  duplicate of an earlier segment of the same length arrives: the socket enters
  CLOSE_WAIT with data missing (`ptcp_fin`).
* `conncheck.c:2575`: a nominating check fails and takes its discovered pair to FAILED with
  it, "to avoid leaving dangling pointers if one is freeed while the other is still in the
  conncheck list" (`conncheck.c:610`); a triggered check revives the succeeded pair alone; a
  new candidate makes the size limit free the discovered one, and `discovered_pair` dangles
  (`conncheck_links`). A second failing send would follow it.
* `conncheck.c:892`: the pair whose nominating check failed keeps
  `use_candidate_on_next_check`; no other valid pair is nominated and the component
  fails, against the comment at 1037.
* `udp-turn.c:1142`: the expiry callback compares sources with a variable that is never
  set and removes nothing; the expired channel stays in use.
* `discovery.c:115`, `agent.c:1002`: a stream without servers of its own gathers while the
  relay of another is being discovered, and waits for it; the other stream is removed,
  `discovery_prune_stream` stops the timer, and nobody announces the end.
* `agent.c:5059`, `5533`: a STUN frame that was cached behind a frame of data is returned to
  the reader as data.
* `conncheck.c:1569`, `stunagent.c:340`: an answer with 403 does not free its saved id.
  A table full of them ends all keepalives, and a healthy component loses its consent.
* `agent.c:936`: "On receipt of any authenticated error response, a component will
  immediately move to the failed state"; only 403 does this.
* `stun/usages/timer.h:206` documents a total timeout of
  `initial_timeout * (2^(max_retransmissions + 1) - 1)`, 7500 ms for the defaults; the waits
  add up to that of `timer.h:143`, 2000 ms. `WaitsFollowSchedule` says so, and that the
  larger total is never exceeded.

The properties make room for these where they would mask others:
`StreamIntegrity` and `CloseMeansDelivered` except a socket that took a FIN early
(`finUnbacked`, set only in that circumstance), `ServerAgrees` excepts channels that have
expired, `EndsAreReached` excepts the ways out of a handler that announce nothing (`WayOut`), and the settings of
`component_send` in which consent must be maintained have no 403 before it. The hazards that
a property excepts in this way are marked in `PROJECT.json`.

### 3.2 Other behaviours met while modelling

* `pseudo_tcp_socket_shutdown` goes on after `attempt_send` has failed and closed the
  socket: it moves from CLOSED to FIN_WAIT_1 or LAST_ACK, which the assertion of `set_state`
  (`pseudotcp.c:2578`) excludes. `AssertionsHold` excepts this assertion on a socket that an
  error has closed in this way, and no other.
* `transmit()` says "The packet must not have already been acknowledged"
  (`pseudotcp.c:2079`); in LAST_ACK an acknowledged FIN is repeated. `AssertionsHold`
  excepts it in that state.
* `rcv_fin == 0` means "no FIN" (`pseudotcp.c:1843`): a stream whose end wraps to
  exactly 0 is never finished. Sequence numbers are unwrapped here.
* A pair answered with 487 and taken out of the queue by pruning stays IN_PROGRESS
  without a transaction, and the pacing timer does not stop (`conncheck.c:1138`).
* If two sends fail in the last ticks of the idle window, the timer stops with a check
  in the queue (`conncheck.c:1199`). `WorkIsScheduled` is checked with one failing send.
* With two reachable paths, aggressive nomination and a failing send, or a translator and
  a nominating check that fails, the two agents can end on different paths; `conncheck`
  explores errors of aggressive nomination on a single path, and the late candidate behind a
  translator is one that cannot be reached.
* With an address that cannot be reached a component may stay CONNECTED: a pair queued for
  revival while it is FAILED is freed by the limit on the list. `LiveReady` allows it in
  these scenarios.
* A CreatePermission whose write fails is never repeated (`unsent`), and a ChannelBind
  sent when its predecessor timed out loses its timer (`stalled`). The properties of
  `UdpTurn` except both by name.
* Gathering is not announced either when the last name does not resolve, when
  `forget_relays` drops the server being resolved, or when a relay is added later that
  no host can reach (`goto done`, or no call at all).
* `agent_gathering_done` logs "Gathering not done, resolving names" (`agent.c:2344`) and
  announces the end all the same; `EndsAreReached` excepts these streams (`early`).
* `stun_server_resolved_cb` uses the stream it looks up without a check
  (`agent.c:2789`): it is NULL if the stream was removed during the lookup.
* A refresh that is being disposed of may be freed by the answer to, or the timeout of,
  an earlier ordinary refresh, before the request with lifetime zero is sent
  (`unreleased`); the server then keeps the allocation until it expires.
* `turn_server_resolved_cb` adds a server for every further address of a name, with the
  preference of the first and whatever the limit (`agent.c:3149`); the test for the limit is one
  for equality (`agent.c:3279`) and is jumped over, and the preferences are not "unique for each
  one" (`agent.c:3293`). Priorities are not modelled.
* `refresh_prune_stream_async` passes over refreshes that are being released already, so
  a stream removed after `forget_relays` may be closed before they are gone.
* Stream sockets: an empty ChannelData message over TCP is read with a size of 0, which
  `tcp-bsd.c:270` takes for the end of the stream; a ring buffer of `http.c:333` that grows
  while it is wrapped scrambles what it holds; a pseudo-SSL answer in two pieces drops the
  connection; `can_send` is TRUE during a proxy's handshake; what follows a proxy's answer
  in the same read is handed on without its length. The settings avoid these.
* Receiving: detaching and re-attaching while the idle callback runs creates a second idle
  source; a detach that leaves whole frames in `rfc4571_buffer` leaves them there until new
  data comes; a blocking read does not return after an ICE-TCP disconnect or a pseudo-TCP
  failure; a `ComponentSource` does not wake for data left in the pseudo-TCP buffer.
* Keepalive: the id of a keepalive that is never answered is never forgotten
  (`stunagent.c:579`); an unauthenticated 401 refreshes consent; the answers of an old pair
  refresh the consent of the new one (`conncheck.c:4357`); `nice_agent_set_selected_pair` does
  not start the keepalive timer; with a consent delay below the number of components times
  the pace the last component starves (`conncheck.c:1465`).
* Sending: `pseudo_tcp_socket_write_packet` (`agent.c:2192`) does not look at consent; a blocked
  writer is woken neither by a pseudo-TCP failure nor by the loss of consent; a message of
  several buffers larger than 0xF800 octets is cut wrongly: a frame behind the first takes the
  size of a whole buffer from an offset inside it, and one that crosses a buffer reads past its
  end (`agent.c:5874`; `Framed`, and `WithinBuffers` in `WriteInOrder`). A write that fails behind
  its first frame and is tried again on another pair repeats the frames that left.
* Java: a `stop()` or `close()` before the worker has entered `g_main_loop_run` is lost, and the
  loop runs on or is handed a freed object (`Lifetimes` excepts the one call,
  `LoopObeys` a lost `close()`; of a `stop()` it says what one does that is not lost); `pushThreadDefault()` fails while the loop owns the context, and keeps the
  loop waiting if it comes first, as in `ThreadedIceDemo`; a second `close()` uses freed
  objects; `getCandidates` frees the list and not the candidates.

## 4. What is proved

TLAPS proves the following for every value of the constants.

**StunTimer** (`StunTimerProofs`), from `StunTimerConstants` (timeouts, limits, clock
steps and start times are natural numbers): `TypeCorrect`, `TransmissionBound` (never
more transmissions than the limit), `NoEarlyTimeout`, `RetransmissionPacing`. The
inductive invariant `TimerInv` adds `DeadlineInv` to them: the deadline lies at least
the sum of the armed delays after the start, short of less than a millisecond per
expired delay. Without it neither pacing fact is inductive, because both speak of the
clock at the moment of a step and nothing would tie the clock to the start. The
arithmetic of the carry (`SetDelayExact`) and of the truncating division
(`RemainderZero`) are lemmas. `ScheduleFollowed` is
`WaitsFollowSchedule`, with the totals of both comments. Its invariant `ScheduleInv` says what the delay is after any
number of transmissions and how far the deadline lies from the start, as powers of two;
the powers are the recursive function `Pow2`, whose equation the prover is not given and
which is proved from the least counterexample (`DoublingExists`, `DoublingAgrees`).

**TURN client socket** (`UdpTurnInvariant`, `UdpTurnProofs`), from `TurnAssumption` (finitely many peers, at
least one channel and one transmission, and timeouts of the socket that leave
`ExpireTimeout` to the lifetimes of the server, as the code's 4 + 1 and 9 + 1 minutes
against RFC 5766's 5 and 10) and from scenarios with any amount of data, faults
and calls of `set_peer`. `DataLeavesInOrder` is `DataInOrder`, `WhatWaitsIsAskedFor` is
`RequestsAgree` and `ServerHoldsWhatIsUsed` is `ServerAgrees`; all follow from one
inductive invariant, `TurnInv`, because none is inductive alone: data leaves when an
answer comes, so its order rests on the requests; an answer counts if its id is that of
a request, so what a request stands for rests on every message under way; and the
channels rest on all three. `TurnInv` is the conjunction of
`Asked` (whoever has been asked for a permission has one request under way or one that
could not be written), `Queued` (what waits for a peer follows what was written to it),
`Channeled` and `Linked` (channels have distinct numbers and peers, and the binding under
way is the one its request names), `Tracked` (ids of requests are distinct, and a message
under way with the id of a request belongs to that request or to an earlier transmission
of it), `Trusted` and `Backed` (a permission or a channel lasts at the server longer than
the socket's timer for it), and `Going` and `Ticking` (what is under way has a timer).
`Sound` has a parameter for the peer that is being asked, since
`priv_send_create_permission` passes through states in which `Asked` does not hold. The
proof goes through the operators in the order the handlers call them; each has a lemma
that says what it changes (`KeepsBindings`, `KeepsPermissions`, `BindSent`, `Scheduled`) and
one that says it keeps the parts of the invariant, and each action combines them.
`TurnInv` was checked with TLC before it was proved.

**Gathering** (`GatheringInvariant`, `GatheringProofs`), from `GatheringAssumption` (finitely
many streams, at least one transmission; of a scenario, that hosts, servers and calls are
lists, that calls are those of the interface, that a name resolves to some address or
not at all): `GatheringIsDriven` is `DiscoveryDriven`, for any streams, hosts, servers,
names and calls, and any faults: the timer of the discovery and those of every refresh
(`RefreshesTimed`), so that no allocation lapses and no close waits because nobody is to
act. It is not inductive: that the timer runs while there
are items says nothing of the operators between `AddDiscovery` and `DiscoverySchedule`,
which pass through records in which it does not, and a pruning may free the list only
because every item has a socket, every socket a stream, and a stream that the agent
removed has no item. The invariant `GatheringInv` has two predicates on the agent's record.
`Sound` holds of every record a step goes through: items, refreshes and lookups are well
formed, an item that is done has been sent and has no transaction open (`IsItem`), it has
a socket of a stream of the agent, so have the candidates (`Based`), unsent items are
counted (`Counted`), without the timer all items are counted (`Timed`), and the callback of
a pruning is for a stream that the agent has no more (`Callback`), so that what
`nice_stream_close` frees is not used by the discovery. `Whole` adds that without the timer
the list is empty; every handler leaves such a record. Each operator has a lemma that
says what it leaves alone (`Elsewhere` for the discovery list, `Aside` for refreshes, `Beside`
for servers and lookups) and that it takes a sound or whole record to one that is. A refresh
made for a redundant relay is in the list without a timer until it is pruned in the same handler:
`refresh_prune_async` is proved from a weaker record for it (`Prunable`). The
loops over lists (`Each`, `Those`, `Joined`) are recursive functions; that they have a value
is proved with `Induct`, which
derives the induction principle, for a set instead of a predicate, from the well-foundedness of
`<` on the naturals. That only unsent items need be counted, and
not exactly, is what the code relies on: `discovery_prune_socket` does not uncount what it
removes, and the tick stops at zero. `GatheringInv` was checked with TLC before it was
proved.

**Reassembly** (`PseudoTcpRecvProofs`), from `RcvBufAssumption` (the buffer has at
least one byte) and `RecvAssumption` (positions, lengths, read sizes are natural
numbers): `TypeCorrect`, `StreamDelivered`, `BufferSound`, `WindowSound`,
`NothingForgotten` and `Refinement`, that the receive side implements `ByteStream`.
The stream is an arbitrary operator, segments are any pieces of it, and any may
arrive at any time, so these hold for every peer, network and segmentation. The
inductive invariant `RecvInv` is the conjunction of the type, `BufferHoldsStream`,
`DeliversStream` and `WindowFits`; `BufferHoldsStream` is what makes it inductive: that
every buffered byte, in order or not, is the one its position names, and that what
is out of order lies within the free part. The argument: a segment is cut to a piece
that is new and fits (`KeptLenFits`); writing it puts bytes of the stream at their
places (`PutPartOfStream`, `WriteOffsetPuts`); a merge ends at the first position not
buffered, inside the buffer (`MergeReachExact`, by the least-element principle);
appending up to there, saving out of order and shifting on a read keep the invariant
(`MergeKeepsInv`, `SaveKeepsInv`, `ShiftKeepsInv`).

**Consent and writers** (`ComponentSendProofs`), from `KeepaliveAssumption` (finitely
many components, 1 among them) and `SendAssumption` (positive sizes, and buffers that end
where the message ends), with the settings and the sizes of write,
buffer and frame left open. `ConsentStaysLost` is `LostStaysLost`: every step but a
selection lets a component only *fade* (`Fades`: the pair stays, consent does not come back),
shown action by action for the tick, the checks, the answers, restarts, failure and
removal. All it needs of the state is that each component has its fields (`Shape`).
`WritersAreWoken` is `WakeIsDue`, which is not inductive: it says nothing of a thread
between its failed send and its sleep, nor of the buffer's size. `WakeInv` adds that such a
thread, if no handler has run since, is owed the same signal, and that a cancellable that was
reset has octets in flight behind it; `SendType` adds that the buffer is not overfull and
that a write that goes on has octets left, so that a send that takes nothing found the buffer
full, not empty (`TakenIs`, `SendKeeps`). `SendType` and `WakeInv` were checked with TLC
before they were proved.
`WrittenInOrder` is `WriteInOrder`. It is not inductive either: `FlowInv` adds that a result
not yet added to the length is that of the last send, and that a message of several buffers
is sent whole or not at all; `PairInv` that the pair in use is one of those there are. What
the connections carry is one predicate of five things (`Order`: carried, carried or held,
broken, lost, reported), and every step does one of three things to it: the next octets join
one connection (`OrderGrows`), a connection breaks (`OrderBreaks`), or octets move on inside
one (`OrderMoves`). That what joins is the next octets rests on `FramedIs`: the frames of a
message, each looked up in its buffers, are together the message, for every frame size,
where no frame but the first crosses a buffer. `FlowInv` was checked with TLC before it was
proved.

**Java wrapper** (`JavaWrapperProofs`), from `BudgetsAssumption` (the calls each thread may
make are counted by natural numbers): `ReferencesBalance`, that `Lifetimes` holds for any
number of calls. `Lifetimes` alone says nothing of who holds what; the inductive invariant
`RefInv` is the balance sheet: the references to the loop are those of the open
`GLibContext`, of a `close()` that has yet to drop it and of `g_main_loop_run`; those to the
agent are the wrapper's and `timeout_cb`'s; those to the context are the wrapper's, the
loop's, the agent's until it is disposed of, and one for each thread that made it its
default. Every step moves a reference from one line to another, or drops one that is
there (`GoesOn`, `WorkerGoes`); the one that may find nothing there is the entry of
`g_main_loop_run`. RefInv was checked with TLC before it was proved.

**Only model-checked.** All liveness (`LiveReady`, `LoopObeys` and the like): temporal reasoning
under fairness is out of the prover's reach. `PseudoTcp`, whose socket is written with `RECURSIVE`
operators. Properties that hold for the settings of the runs but not for
every value of the constants: `KeepalivePaced` and `ConsentIsMaintained` (delays shorter than a
round of keepalives, a pair nominated again and again), `WorkIsScheduled` (checks whose sends fail
in the last idle ticks, section 3.2), `Accounted` of `ComponentRecv` (buffers too small for a datagram),
`Agreement` and `ComponentsTogether` (which candidates the agents have). `RelaysAreRefreshed` (a relay that
is set twice gives two candidates of one name). And two that would hold in general but whose proofs are long: `TieBreakerDecides` and `SocketsAgree`,
which pass the record of an agent or of a stack of sockets through folds over its lists.

## 5. What is not modelled

* **Byte layout**: STUN attributes, addresses, SDP text, HMAC and CRC are pure
  functions of bytes; handlers are modelled on the fields they read.
* **Operating system**: interface enumeration, UDP sockets, random numbers and the
  native library loader are I/O. UPnP and GStreamer are optional clients.
* **Legacy dialects** (Google, MSN, OC2007) of connectivity checks and of the TURN socket:
  variants of the same handlers. Their framings over TCP and the flags of their STUN
  agents are modelled.
* **Composition across layers**: the receive side takes pseudo-TCP as an ordered buffer
  (which `PseudoTcpRecv` proves it is) and the checks as a selection that happens; a model
  of all layers at once is out of TLC's reach.
* **TCP candidates in checks, renomination, forced relaying during checks, restart in the
  middle of checks**: the check list of `ConnCheck` is for UDP candidates of one stream.

## 6. Reading the models

Start with `StunTimer` and `ByteStream`, then `PseudoTcpRecv`. `ConnCheck` is best
read from its actions down: `Tick`, `Receive` and `ApplicationCall` name the operators
of `ConnCheckAgent`. `JavaWrapper` is short and needs nothing of ICE. `PROJECT.json` maps
every definition to the lines it models.

## 7. Plan

Proofs of the send side of pseudo-TCP and of the role
conflict (`TieBreakerDecides`); TCP candidates and restart in
`ConnCheck`.
