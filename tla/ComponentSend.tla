--------------------------- MODULE ComponentSend ----------------------------
(***************************************************************************)
(* Sending (agent.c, outputstream.c) over a component whose consent and    *)
(* keepalives are those of module Keepalive: nice_agent_send with the      *)
(* pseudo-TCP buffer or the RFC 4571 framing of ICE-TCP, a thread in       *)
(* nice_output_stream_write, a main loop that writes without blocking from *)
(* a pollable source, the signals between them, removal of the stream.     *)
(* The component that sends is component 1.                                *)
(*                                                                         *)
(* Octets are numbered in the order the application writes them.           *)
(*   tcp  [st, q, wen]: the pseudo-TCP socket, the octets in its send      *)
(*        buffer and bWriteEnable                                          *)
(*   sq   the octets queued in the ICE-TCP socket of every pair            *)
(*   dead the pairs whose connection has broken                            *)
(*   wc   tcp_writable_cancellable: "reset", "cancelled" or "gone" (NULL)  *)
(*   sig  the signals queued under the agent's lock, not yet emitted       *)
(*   io   [gone, removed, cancelled, closed]: the stream is removed from   *)
(*        the agent, closed_cancellable and the caller's cancellable are   *)
(*        set, the output stream is closed                                 *)
(*   wr   [pc, len, ret, writable, cancelled, woken]: the writing thread   *)
(*        with its WriteData; woken: its condition has been signalled, or  *)
(*        the source it waits for is ready whatever wc has become          *)
(*   got  the octets that have left, by connection: 0 is the pseudo-TCP,   *)
(*        the others are the pairs of ICE-TCP                              *)
(*   lost history: the octets dropped from the queue of a dead connection  *)
(***************************************************************************)
EXTENDS Keepalive

CONSTANTS
  Count,      \* octets in the application's write
  SendBuf,    \* size of the pseudo-TCP send buffer
  RefillSize, \* kIdealRefillSize
  MaxFrame,   \* 0xF800, the largest RFC 4571 frame sent
  Pairs,      \* the candidate pairs that may be selected
  Settings    \* agents, networks and applications to consider

\* What an application may call, for which component and pair.
Calls == [op : STRING, c : Components, pair : Pairs, prio : Nat]

ASSUME SendAssumption ==
  /\ {Count, SendBuf, RefillSize, MaxFrame} \cup Pairs \subseteq Nat \ {0}
  /\ \A s \in Settings : /\ s.todo \in Seq(Calls)
                         /\ s.ends \in Seq(1 .. Count) \ {<<>>} /\ s.ends[Len(s.ends)] = Count

VARIABLES tcp, sq, dead, wc, sig, io, wr, got, lost

\* The connections of ICE-TCP.
links == <<sq, dead, got, lost>>

svars == <<tcp, links, wc, sig, io, wr>>
vars  == <<kvars, svars>>

\* pseudo_tcp_socket_get_available_send_space with q in the buffer.
Space(q) == IF tcp.st \in {"fin", "closed"} THEN 0 ELSE SendBuf - Len(q)

\* agent_signal_socket_writable.
SignalWritable ==
  /\ wc' = IF wc = "gone" THEN wc ELSE "cancelled"
  /\ sig' = Append(sig, "writable")

(* nice_agent_send *******************************************************)

\* What the application still has to send: the octets len + 1 .. Count.
Octets(len) == [i \in 1 .. Count - len |-> len + i]

\* A message is a sequence of buffers, given by the ends of each in it.
\* nice_agent_send makes one buffer; nice_agent_send_messages_nonblocking takes
\* the application's.
Ends(data) == IF sc.api = "messages" THEN sc.ends ELSE <<Len(data)>>
Start(ends, j) == IF j = 1 THEN 0 ELSE ends[j - 1]

\* The buffer the octets of a frame are taken from, which begins at offset o.
Holder(ends, o) == Min({j \in DOMAIN ends : ends[j] >= o})

\* Where the frame with the x-th octet begins.
FrameStart(x) == ((x - 1) \div MaxFrame) * MaxFrame

\* An octet from behind the end of a buffer.
Junk == 0

\* Mutant of Framed: the offset into the message restarts with every frame.
FramedFromStart(data, ends) ==
  [x \in 1 .. Len(data) |-> data[x - FrameStart(x)]]

\* The octets of the RFC 4571 frames of a message, at most MaxFrame in each.
\* A frame takes from its first buffer as many octets as the buffer has,
\* wherever in it the frame begins, then those of the next ones.
Framed(data, ends) ==
  [x \in 1 .. Len(data) |->
     LET o == FrameStart(x)
         j == Holder(ends, o)
         y == Start(ends, j) + (x - o)
     IN  IF y > ends[j] THEN data[y]
         ELSE IF x <= ends[j] THEN data[x] ELSE Junk]

\* pseudo_tcp_socket_send: takes what fits, once it is established.  A message
\* that may not be sent in part is only taken if all of it fits.
TcpTaken(data) ==
  IF tcp.st # "established" \/ (sc.api = "messages" /\ Len(data) > Space(tcp.q)) THEN <<>>
  ELSE SubSeq(data, 1, Min({Space(tcp.q), Len(data)}))

\* The pseudo-TCP branch.  bWriteEnable is set by a write that does not fit,
\* and by pseudo_tcp_socket_can_send when no space is left; the cancellable
\* is then reset.
TcpSends(data) ==
  LET q == tcp.q \o TcpTaken(data) IN
  /\ tcp' = [tcp EXCEPT !.q = q,
               !.wen = \/ @
                       \/ /\ tcp.st = "established" /\ sc.api # "messages"
                          /\ Len(TcpTaken(data)) < Len(data)
                       \/ Space(q) = 0]
  /\ wc' = IF Space(q) = 0 /\ wc # "gone" THEN "reset" ELSE wc

\* The ICE-TCP branch sends on the socket of the selected pair, reliably: what
\* the kernel does not take is queued, and so is all that follows.  A socket
\* that cannot send resets the cancellable.
FramesSent(octets) ==
  LET p == comp[1].sel IN
  /\ \E n \in 0 .. Len(octets) :
       /\ n > 0 => sq[p] = <<>> /\ p \notin dead
       /\ got' = [got EXCEPT ![p] = @ \o SubSeq(octets, 1, n)]
       /\ sq' = [sq EXCEPT ![p] = @ \o SubSeq(octets, n + 1, Len(octets))]
  /\ wc' = IF sq'[p] # <<>> /\ wc # "gone" THEN "reset" ELSE wc
  /\ UNCHANGED <<dead, lost>>

\* The connection breaks, or is found to be broken, at one of the frames; those
\* before it have left.
FramesFail(octets) ==
  LET p == comp[1].sel IN
  /\ sc.breaks
  /\ \E k \in 0 .. (Len(octets) - 1) \div MaxFrame :
       /\ k > 0 => sq[p] = <<>> /\ p \notin dead
       /\ got' = [got EXCEPT ![p] = @ \o SubSeq(octets, 1, k * MaxFrame)]
  /\ dead' = dead \cup {p}
  /\ wc' = IF sq[p] # <<>> /\ wc # "gone" THEN "reset" ELSE wc
  /\ UNCHANGED <<sq, lost>>

\* No component, no consent, no selected pair, or the pseudo-TCP has failed.
Refused == \/ io.gone
           \/ ~comp[1].have
           \/ comp[1].sel = 0
           \/ sc.mode = "ptcp" /\ tcp.st = "closed"

\* nice_agent_send: one message, of which a part may be sent.  -1 stands for
\* WOULD_BLOCK and every other error.
AgentSend(data) ==
  \/ /\ Refused
     /\ wr' = [wr EXCEPT !.pc = "sent", !.ret = -1]
     /\ UNCHANGED <<tcp, links, wc>>
  \/ /\ ~Refused /\ sc.mode = "ptcp"
     /\ TcpSends(data)
     /\ wr' = [wr EXCEPT !.pc = "sent",
                 !.ret = IF TcpTaken(data) = <<>> THEN -1 ELSE Len(TcpTaken(data))]
     /\ UNCHANGED links
  \/ /\ ~Refused /\ sc.mode = "tcp"
     /\ FramesSent(Framed(data, Ends(data)))
     /\ wr' = [wr EXCEPT !.pc = "sent", !.ret = Len(data)]
     /\ UNCHANGED tcp
  \/ /\ ~Refused /\ sc.mode = "tcp"
     /\ FramesFail(Framed(data, Ends(data)))
     /\ wr' = [wr EXCEPT !.pc = "sent", !.ret = -1]
     /\ UNCHANGED tcp

(* nice_output_stream_write **********************************************)

Thread(pc) == sc.api = "stream" /\ wr.pc = pc

\* The checks, the WriteData and the handlers.  Handlers of cancellables that
\* are cancelled already run at once.
WriteStarts ==
  /\ Thread("idle") /\ wr.len < Count /\ ~wr.done
  /\ wr' = IF io.closed
           THEN [wr EXCEPT !.done = TRUE]
           ELSE [wr EXCEPT !.pc = "loop", !.writable = FALSE,
                           !.cancelled = io.cancelled \/ io.removed]
  /\ UNCHANGED <<kvars, tcp, links, wc, sig, io>>

\* The loop ends: the handlers are disconnected, the call returns.
WriteReturns(w) == [w EXCEPT !.pc = "idle", !.done = TRUE, !.woken = FALSE]

\* The top of the loop; the mutex of the WriteData is released at its end.
WriteLoops ==
  /\ Thread("loop")
  /\ wr' = IF io.cancelled \/ io.removed
           THEN WriteReturns(wr)
           ELSE [wr EXCEPT !.pc = "send", !.writable = FALSE]
  /\ UNCHANGED <<kvars, tcp, links, wc, sig, io>>

WriteSends ==
  /\ Thread("send")
  /\ AgentSend(Octets(wr.len))
  /\ UNCHANGED <<kvars, sig, io>>

\* Mutant of WriteSent: waits whatever was signalled during the send.
WriteSentBlindly ==
  /\ Thread("sent")
  /\ wr' = IF wr.ret <= 0 THEN [wr EXCEPT !.pc = "wait", !.woken = FALSE]
           ELSE IF wr.len + wr.ret < Count
           THEN [wr EXCEPT !.pc = "loop", !.len = @ + wr.ret, !.ret = 0]
           ELSE WriteReturns([wr EXCEPT !.len = @ + wr.ret, !.ret = 0])
  /\ UNCHANGED <<kvars, tcp, links, wc, sig, io>>

\* After the send, with the mutex again: wait, go on, or return.
WriteSent ==
  /\ Thread("sent")
  /\ wr' = IF wr.ret <= 0
           THEN [wr EXCEPT !.pc = IF wr.writable \/ wr.cancelled THEN "loop" ELSE "wait",
                           !.woken = FALSE]
           ELSE IF wr.len + wr.ret < Count
           THEN [wr EXCEPT !.pc = "loop", !.len = @ + wr.ret, !.ret = 0]
           ELSE WriteReturns([wr EXCEPT !.len = @ + wr.ret, !.ret = 0])
  /\ UNCHANGED <<kvars, tcp, links, wc, sig, io>>

\* g_cond_wait returns: signalled, or for no reason.
WriteWakes ==
  /\ Thread("wait") /\ (wr.woken \/ sc.spurious)
  /\ wr' = [wr EXCEPT !.pc = "loop", !.woken = FALSE]
  /\ UNCHANGED <<kvars, tcp, links, wc, sig, io>>

(* Writing from a main loop **********************************************)

Loop(pc) == sc.api \in {"poll", "messages"} /\ wr.pc = pc

\* nice_output_stream_write_nonblocking, or a message of several buffers for
\* nice_agent_send_messages_nonblocking.
PollWrites ==
  /\ Loop("idle") /\ ~wr.done
  /\ \/ /\ io.closed
        /\ wr' = [wr EXCEPT !.done = TRUE]
        /\ UNCHANGED <<tcp, links, wc>>
     \/ ~io.closed /\ AgentSend(Octets(wr.len))
  /\ UNCHANGED <<kvars, sig, io>>

\* The application takes the result; after WOULD_BLOCK it creates a source,
\* or gives the message up.
PollSent ==
  /\ Loop("sent")
  /\ wr' = IF wr.ret <= 0
           THEN IF sc.api = "poll" THEN [wr EXCEPT !.pc = "wait", !.woken = FALSE]
                ELSE [wr EXCEPT !.pc = "idle", !.done = TRUE]
           ELSE [wr EXCEPT !.pc = "idle", !.len = @ + wr.ret, !.ret = 0,
                           !.done = (wr.len + wr.ret = Count)]
  /\ UNCHANGED <<kvars, tcp, links, wc, sig, io>>

\* nice_output_stream_is_writable.  Over ICE-TCP the kernel's buffer decides,
\* which has room in the end; the source stays ready until then.
Writable == /\ ~io.closed /\ ~io.gone /\ comp[1].sel # 0
            /\ sc.mode = "ptcp" => Space(tcp.q) > 0

\* The source of nice_output_stream_create_source is ready when the cancellable
\* it was made with, the component's, is cancelled.
PollReady ==
  /\ Loop("wait") /\ (wc = "cancelled" \/ wr.woken)
  /\ wr' = [wr EXCEPT !.pc = IF Writable THEN "idle" ELSE "wait"]
  /\ tcp' = [tcp EXCEPT !.wen = @ \/ (sc.mode = "ptcp" /\ comp[1].sel # 0 /\ Space(tcp.q) = 0)]
  /\ UNCHANGED <<kvars, links, wc, sig, io>>

(* The transport *********************************************************)

\* The handshake of the pseudo-TCP completes.
Opened ==
  /\ sc.mode = "ptcp" /\ tcp.st = "connecting" /\ comp[1].sel # 0 /\ ~io.gone
  /\ tcp' = [tcp EXCEPT !.st = "established"]
  /\ SignalWritable
  /\ UNCHANGED <<kvars, links, io, wr>>

\* The peer acknowledges octets: process ends with the writable callback.
Acked ==
  /\ sc.mode = "ptcp" /\ tcp.st \in {"established", "fin"} /\ ~io.gone
  /\ \E n \in 1 .. Len(tcp.q) :
       LET q == SubSeq(tcp.q, n + 1, Len(tcp.q)) IN
       /\ got' = [got EXCEPT ![0] = @ \o SubSeq(tcp.q, 1, n)]
       /\ IF tcp.wen /\ Len(q) < RefillSize
          THEN /\ tcp' = [tcp EXCEPT !.q = q, !.wen = FALSE]
               /\ SignalWritable
          ELSE /\ tcp' = [tcp EXCEPT !.q = q]
               /\ UNCHANGED <<wc, sig>>
  /\ UNCHANGED <<kvars, sq, dead, lost, io, wr>>

\* The pseudo-TCP fails: priv_pseudo_tcp_error.  The cancellable is cancelled
\* before it goes, so that a source made with it is ready from then on.
Failed ==
  /\ sc.fails /\ sc.mode = "ptcp" /\ tcp.st \in {"connecting", "established"}
  /\ ~io.gone /\ comp[1].sel # 0
  /\ tcp' = [tcp EXCEPT !.st = "closed"]
  /\ wc' = "gone"
  /\ comp' = [comp EXCEPT ![1].st = "failed"]
  /\ wr' = IF Loop("wait") /\ wc # "gone" THEN [wr EXCEPT !.woken = TRUE] ELSE wr
  /\ UNCHANGED <<sc, timer, net, peer, todo, links, sig, io>>

\* _tcp_sock_is_writable: only the socket of the selected pair matters.
SocketWritable(p) == IF comp[1].sel = p THEN SignalWritable ELSE UNCHANGED <<wc, sig>>

\* The kernel takes queued octets of a socket; the last ones make it writable.
Flushed(p) ==
  /\ sq[p] # <<>> /\ p \notin dead /\ ~io.gone
  /\ \E n \in 1 .. Len(sq[p]) :
       /\ sq' = [sq EXCEPT ![p] = SubSeq(@, n + 1, Len(@))]
       /\ got' = [got EXCEPT ![p] = @ \o SubSeq(sq[p], 1, n)]
       /\ IF n = Len(sq[p]) THEN SocketWritable(p) ELSE UNCHANGED <<wc, sig>>
  /\ UNCHANGED <<kvars, tcp, dead, lost, io, wr>>

\* The connection breaks, or has broken, with octets in its queue: the queue is
\* thrown away (after a hang-up, never looked at again).
Dropped(p) ==
  /\ sq[p] # <<>> /\ sc.breaks /\ ~io.gone
  /\ sq' = [sq EXCEPT ![p] = <<>>]
  /\ dead' = dead \cup {p}
  /\ lost' = lost \cup Range(sq[p])
  /\ SocketWritable(p)
  /\ UNCHANGED <<kvars, tcp, got, io, wr>>

(* Signals and the application's other calls *****************************)

\* The writing thread has its handlers connected.
Connected == sc.api = "stream" /\ wr.pc # "idle"

\* A signal reaches its handlers once the lock has been released.
\* reliable_transport_writeable_cb.
EmitWritable ==
  /\ Head(sig) = "writable"
  /\ wr' = IF Connected THEN [wr EXCEPT !.writable = TRUE, !.woken = TRUE] ELSE wr
  /\ UNCHANGED io

\* Mutant of EmitRemoved: write_cancelled_cb does not wake the thread.
EmitRemovedSilent ==
  /\ Head(sig) = "removed"
  /\ wr' = IF Connected THEN [wr EXCEPT !.cancelled = TRUE] ELSE wr
  /\ io' = [io EXCEPT !.removed = TRUE, !.closed = @ \/ ~Connected]

\* streams_removed_cb, with write_cancelled_cb.  The output stream cannot be
\* closed under a pending write.
EmitRemoved ==
  /\ Head(sig) = "removed"
  /\ wr' = IF Connected THEN [wr EXCEPT !.cancelled = TRUE, !.woken = TRUE] ELSE wr
  /\ io' = [io EXCEPT !.removed = TRUE, !.closed = @ \/ ~Connected]

\* agent_unlock_and_emit.
Emit ==
  /\ sig # <<>>
  /\ sig' = Tail(sig)
  /\ EmitWritable \/ EmitRemoved
  /\ UNCHANGED <<kvars, tcp, links, wc>>

\* nice_agent_remove_stream: what belongs to the component goes.  What its
\* sockets still hold stays where it is, for good.
RemoveStream ==
  /\ Call("remove")
  /\ io' = [io EXCEPT !.gone = TRUE]
  /\ sig' = Append(sig, "removed")
  /\ comp' = [comp EXCEPT ![1] = NewComponent(@.agent.flags)]
  /\ UNCHANGED <<sc, timer, net, peer, tcp, links, wc, wr>>

\* g_cancellable_cancel on the cancellable of the write.
CancelWrite ==
  /\ Call("cancel")
  /\ io' = [io EXCEPT !.cancelled = TRUE]
  /\ wr' = IF Connected THEN [wr EXCEPT !.cancelled = TRUE, !.woken = TRUE] ELSE wr
  /\ UNCHANGED <<sc, comp, timer, net, peer, tcp, links, wc, sig>>

\* g_output_stream_close, with no write pending: nice_output_stream_close
\* shuts the writing side down.
CloseStream ==
  /\ Call("close")
  /\ IF Connected THEN UNCHANGED <<io, tcp>>
     ELSE /\ io' = [io EXCEPT !.closed = TRUE]
          /\ tcp' = IF ~io.gone /\ tcp.st = "established" THEN [tcp EXCEPT !.st = "fin"] ELSE tcp
  /\ UNCHANGED <<sc, comp, timer, net, peer, links, wc, sig, wr>>

\* A pair is selected: agent_signal_new_selected_pair ends it.
Selects ==
  /\ UpdateSelectedPair \/ SetSelectedPair
  /\ LET o == Head(todo) IN
     IF o.c = 1 /\ (o.op = "select" \/ o.prio > comp[1].prio)
     THEN SignalWritable ELSE UNCHANGED <<wc, sig>>
  /\ UNCHANGED <<tcp, links, io, wr>>

(* The specification *****************************************************)

Init ==
  /\ sc \in Settings
  /\ comp = [c \in Components |-> NewComponent(AgentFlags(sc.compat, sc.fresh))]
  /\ timer = None
  /\ net = {}
  /\ peer = [c \in Components |-> [local |-> TRUE, user |-> TRUE]]
  /\ todo = sc.todo
  /\ tcp = [st |-> "connecting", q |-> <<>>, wen |-> FALSE]
  /\ sq = [p \in Pairs |-> <<>>]
  /\ dead = {} /\ lost = {}
  /\ got = [l \in Pairs \cup {0} |-> <<>>]
  /\ wc = "reset"
  /\ sig = <<>>
  /\ io = [gone |-> FALSE, removed |-> FALSE, cancelled |-> FALSE, closed |-> FALSE]
  /\ wr = [pc |-> "idle", len |-> 0, ret |-> 0, writable |-> FALSE, cancelled |-> FALSE,
           woken |-> FALSE, done |-> FALSE]

Stunning ==
  \/ KeepaliveTick
  \/ \E c \in Components : ConsentTick(c)
  \/ \E m \in net : Answer(m) \/ Receive(m) \/ Lose(m)
  \/ Restart \/ ScheduleNext \/ ConsentLost \/ PeerRestart
  \/ sc.timed /\ Pass

Writer == \/ WriteStarts \/ WriteLoops \/ WriteSends \/ WriteSent \/ WriteWakes
          \/ PollWrites \/ PollSent \/ PollReady
Transport == Opened \/ Acked \/ (\E p \in Pairs : Flushed(p) \/ Dropped(p)) \/ Emit

Next ==
  \/ Stunning /\ UNCHANGED svars
  \/ Selects \/ RemoveStream \/ CancelWrite \/ CloseStream
  \/ Writer \/ Transport \/ Failed

\* The threads and the main loop run on, time passes, the network of a
\* connection that has not failed delivers, a prompt peer answers.  What the
\* application calls, what is lost and what fails is left open.
Spec ==
  /\ Init /\ [][Next]_vars
  /\ WF_vars(KeepaliveTick /\ UNCHANGED svars)
  /\ WF_vars((\E c \in Components : ConsentTick(c)) /\ UNCHANGED svars)
  /\ WF_vars((\E m \in net : Answer(m) \/ Receive(m)) /\ UNCHANGED svars)
  /\ WF_vars(sc.timed /\ Pass /\ UNCHANGED svars)
  /\ WF_vars(Writer)
  /\ WF_vars(Emit) /\ WF_vars(Opened \/ Acked \/ \E p \in Pairs : Flushed(p))

(* Properties ************************************************************)

\* A peer that answers every keepalive at once, and has not revoked its
\* consent, keeps it: no restart, change of pair or other component lets the
\* timeout strike (conn_check_handle_inbound_stun, stun_agent_validate).
ConsentIsMaintained ==
  \A c \in Components :
    comp[c].sel # 0 /\ ~sc.lossy /\ peer[c].local => comp[c].have

\* A consent that is lost stays lost: no answer, late or repeated, to an
\* earlier request gives it back, only the selection of a pair does.
LostStaysLost ==
  [][\A c \in Components :
       comp[c].sel # 0 /\ ~comp[c].have /\ comp'[c].have
         => todo # <<>> /\ Head(todo).op \in {"nominate", "select"} /\ todo' = Tail(todo)]_vars

\* While the keepalive timer runs, every selected pair that can be kept alive
\* is: no keepalive waits longer than its interval and the pace the
\* components share (priv_conn_keepalive_tick_unlocked).
KeepalivePaced ==
  timer # None =>
    \A c \in KeptPairs(comp) :
      (Connchecks => sc.creds) =>
        comp[c].quiet <= (IF Connchecks THEN Max(ConsentDelays \cup (IF sc.fresh THEN {} ELSE {Tr}))
                                         ELSE Tr)
                           + Ta * Cardinality(Components)

\* A revoked consent takes effect, even if every message is lost from then on:
\* once its clock runs, the agent ends up without the consent to send, or on
\* another pair.
RevocationTakesEffect ==
  \A c \in Components, p \in Pairs :
    (sc.timed /\ comp[c].sel = p /\ comp[c].tick # None /\ ~peer[c].local)
      ~> (comp[c].sel # p \/ ~comp[c].have)

\* Whoever waits to write gets woken.  With the connection up, a waiting
\* thread that nobody has signalled yet, or a source that is not ready,
\* means that the pseudo-TCP socket has octets in flight and will
\* call back (bWriteEnable), or that the signal is on its way.
WakeIsDue ==
  /\ sc.mode = "ptcp" /\ tcp.st = "established" /\ ~Refused
  /\ (Thread("wait") /\ ~wr.woken) \/ wc = "reset"
  => (tcp.wen /\ tcp.q # <<>>) \/ "writable" \in Range(sig)

\* What a connection has carried and still holds, and the octets the writer
\* knows to be sent.
Carried(l) == got[l] \o (IF l = 0 THEN tcp.q ELSE sq[l])
Reported == wr.len + Max({wr.ret, 0})
Ascending(s) == \A i, j \in 1 .. Len(s) : i < j => s[i] < s[j]

\* Every frame but the first lies within the buffer found for it.
WithinBuffers(ends) ==
  \A x \in 1 .. Count :
    FrameStart(x) > 0 => /\ Start(ends, Holder(ends, FrameStart(x))) <= FrameStart(x)
                         /\ x <= ends[Holder(ends, FrameStart(x))]

\* What is written leaves in order and once, over whatever pairs are selected:
\* a connection that holds carries octets in the order they were written, no two
\* of them the same, and none that was not reported as sent; a connection
\* that broke has carried them in order; and every octet reported as sent is
\* with a connection, or was in the queue of one that broke.  A write that
\* fails after some of its frames have left, and is tried again on another
\* pair, sends them once more.  A message of several buffers that is cut into
\* frames counts where no frame crosses into another buffer: behind the first
\* frame the code reads past the end of the buffer.
WriteInOrder ==
  (sc.api = "messages" => WithinBuffers(sc.ends)) =>
    /\ \A l \in Pairs \cup {0} : Ascending(got[l])
    /\ \A l \in (Pairs \cup {0}) \ dead :
         /\ Ascending(Carried(l)) /\ Range(Carried(l)) \subseteq 1 .. Reported
         /\ \A k \in (Pairs \cup {0}) \ (dead \cup {l}) :
              Range(Carried(k)) \cap Range(Carried(l)) = {}
    /\ 1 .. Reported
         \subseteq lost \cup UNION {Range(Carried(l)) : l \in Pairs \cup {0}}

\* A write ends: all octets are sent, or the stream is removed or the call
\* cancelled; unless there is no pair, no consent or no connection left, or
\* the application that polls has closed the stream.
WritesEnd ==
  (sc.api # "none" /\ ~sc.timed)
    ~> \/ wr.done
       \/ Refused /\ ~(io.gone /\ sc.api = "stream")
       \/ comp[1].sel \in dead /\ ~io.gone
       \/ io.closed /\ sc.api = "poll"
=============================================================================
