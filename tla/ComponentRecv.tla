---------------------------- MODULE ComponentRecv ----------------------------
(***************************************************************************)
(* The receive side of one component of a NiceAgent (agent.c, component.c, *)
(* inputstream.c): how what the kernel holds for the component's socket    *)
(* reaches the application.  It does so in one of three ways: a callback   *)
(* set with nice_agent_attach_recv and run by the thread that iterates the *)
(* callback's main context, nice_agent_recv_messages in a thread of the    *)
(* application's (blocking or not), or a pollable source of the component  *)
(* (ComponentSource) whose dispatch makes a non-blocking read.             *)
(*                                                                         *)
(* Two threads: "L" runs the main loop of the context "main" and owns it;  *)
(* "A" is the application's.  The agent's lock is held from one step of a  *)
(* thread to the next where the code holds it: lock is its holder.  It is  *)
(* released around the application's callback and around the iteration of  *)
(* the component's own context by a reader.                                *)
(*                                                                         *)
(* Three kinds of socket, sc.mode: "dgram" (an unreliable agent on UDP),   *)
(* "ptcp" (a reliable one on UDP, through pseudo-TCP) and "stream" (a      *)
(* reliable one on TCP: RFC 4571 frames, cut as TCP likes).  What the peer *)
(* sends is the sequence sc.msgs of messages [kind, len]; an octet is      *)
(* <<message, position>>.  In "stream" the first two octets of a message   *)
(* are its RFC 4571 length.                                                *)
(***************************************************************************)
EXTENDS Integers, Sequences, FiniteSetsExt, SequencesExt

CONSTANTS
  Settings,   \* what the peer sends and what the threads do
  RfcSize,    \* octets of rfc4571_buffer: one frame of the largest size
  RcvBuf,     \* octets of the pseudo-TCP receive buffer
  RecvSize    \* octets of component->recv_buffer

\* The buffers hold at least a frame's header, and the callback's buffer holds
\* what the pseudo-TCP socket can (component.c and pseudotcp.c: 65535 >= 61440).
ASSUME RecvAssumption ==
  /\ RfcSize \in Nat /\ RfcSize > 2
  /\ RcvBuf \in Nat \ {0} /\ RecvSize \in Nat /\ RecvSize >= RcvBuf

VARIABLES
  sc,     \* the setting: mode, bytestream, force_relay, msgs, scripts
  c,      \* the NiceComponent
  th,     \* what each thread is doing
  lock,   \* the holder of the agent's lock, or "free"
  k,      \* the kernel's end of the socket
  got     \* octets the application was given, in order

vars == <<sc, c, th, lock, k, got>>

Threads == {"L", "A"}
NoOp == [op |-> "none"]

Reliable == sc.mode # "dgram"
Hdr == IF sc.mode = "stream" THEN 2 ELSE 0
Kind(f) == IF f = 0 THEN "stun" ELSE sc.msgs[f].kind
Length(f) == IF f = 0 THEN 0 ELSE sc.msgs[f].len
Octets(f) == [i \in 1 .. Hdr + Length(f) |-> <<f, i>>]

\* A message the application is to see: data, from the selected peer or through
\* the TURN server when only relayed candidates may be used.
IsData(f) == Kind(f) \in IF sc.force THEN {"relay"} ELSE {"relay", "data"}
Payload(s) == SelectSeq(s, LAMBDA o : o[2] > Hdr /\ IsData(o[1]))

------------------------------------------------------------------------------
(* The messages of a reader: NiceInputMessage[n], each of size octets, and   *)
(* the iterator over them.                                                   *)

NoMessages == [on |-> FALSE, n |-> 0, size |-> 0, done |-> <<>>, part |-> <<>>]
IterAt(rm) == <<Len(rm.done), Len(rm.part)>>
AtEnd(rm) == Len(rm.done) = rm.n /\ rm.part = <<>>
ValidMessages(rm) == Len(rm.done) + (IF rm.part = <<>> THEN 0 ELSE 1)

\* append_buffer_to_input_messages: into the current message only; the message
\* is finished when it is full, and after every buffer unless bytestream_tcp.
AppendBuffer(rm, s) ==
  LET t == rm.part \o s
      u == SubSeq(t, 1, Min({Len(t), rm.size}))
  IN IF ~sc.bytestream \/ Len(u) = rm.size
     THEN [rm EXCEPT !.done = Append(@, u), !.part = <<>>]
     ELSE [rm EXCEPT !.part = u]

\* How many of s's octets AppendBuffer takes.
Room(rm, s) == Min({Len(s), rm.size - Len(rm.part)})

\* pseudo_tcp_socket_recv_messages: the messages are one flat array.
Fill(rm, s) ==
  LET room == (rm.n - Len(rm.done)) * rm.size - Len(rm.part)
      t == rm.part \o SubSeq(s, 1, Min({Len(s), room}))
      full == Len(t) \div rm.size
  IN [rm EXCEPT !.done = @ \o [i \in 1 .. full |->
                               SubSeq(t, (i - 1) * rm.size + 1, i * rm.size)],
                !.part = SubSeq(t, full * rm.size + 1, Len(t))]
FlatRoom(rm) == (rm.n - Len(rm.done)) * rm.size - Len(rm.part)

------------------------------------------------------------------------------
(* The component.                                                            *)

\* Deferred delivery: an idle source on the component's context.
ScheduleIoCallback(d) ==
  IF d.idleId \/ d.pending = <<>> THEN d
  ELSE [d EXCEPT !.idleId = TRUE, !.idles = @ + 1]

\* g_source_remove looks the id up in the default main context: the idle source
\* goes away only if the component's context is that one.
DescheduleIoCallback(d) ==
  IF ~d.idleId THEN d
  ELSE [d EXCEPT !.idleId = FALSE,
                 !.idles = IF sc.isDefault /\ @ > 0 THEN @ - 1 ELSE @]

\* nice_component_set_io_callback: a callback, the messages of a reader, or
\* neither (reception paused).
SetIoCallback(d, cb, rm) ==
  LET e == [d EXCEPT !.cb = cb, !.rm = rm, !.err = "none"]
  IN IF cb THEN ScheduleIoCallback(e) ELSE DescheduleIoCallback(e)

\* The GSource of the socket is destroyed; gen tells one source from the next.
DetachAllSockets(d) ==
  IF d.attached THEN [d EXCEPT !.attached = FALSE, !.gen = @ + 1] ELSE d

\* nice_component_set_io_context(main): detach, switch, reattach.
SetIoContext(d) ==
  IF d.ctx = "main" THEN d
  ELSE [DetachAllSockets(d) EXCEPT !.ctx = "main", !.attached = d.sock]

\* nice_component_remove_socket: the socket's candidates go, the selected pair
\* with them, and the socket is detached, closed and freed.
RemoveSocket(d) ==
  [DetachAllSockets(d) EXCEPT !.sock = FALSE, !.sel = FALSE]

\* nice_component_close, in the agent's main loop after the stream was removed.
ComponentClose(d) ==
  DescheduleIoCallback(
    [DetachAllSockets(d) EXCEPT !.sock = FALSE, !.sel = FALSE, !.open = FALSE,
       !.tcp = [@ EXCEPT !.st = "closed"], !.pending = <<>>, !.queued = <<>>,
       !.rfc = [@ EXCEPT !.buf = <<>>], !.stop = TRUE])

Sound(d, assertion, ok) ==
  IF ok THEN d ELSE [d EXCEPT !.bad = @ \cup {assertion}]

------------------------------------------------------------------------------
(* agent_recv_message_unlocked: one message from the socket.  Each of these  *)
(* gives the component, the kernel, the status ret (RECV_SUCCESS "ok",       *)
(* RECV_OOB "oob", RECV_WOULD_BLOCK "block", RECV_ERROR "error") and oct,    *)
(* the octets copied into the message.                                       *)

\* What becomes of a whole message: nothing in it; from the TURN server and not
\* data; not from it although force_relay; STUN; from an address that is no
\* remote candidate's; data.
Verdict(f) ==
  CASE Kind(f) = "err"                               -> "error"
    [] Kind(f) # "err" /\ Length(f) = 0 /\ f # 0     -> "oob"
    [] Kind(f) = "turn"                              -> "oob"
    [] sc.force /\ Kind(f) \in {"data", "stun", "stray"} -> "block"
    [] ~sc.force /\ Kind(f) \in {"stun", "stray"}    -> "oob"
    [] OTHER                                         -> "ok"

RecvDatagram ==
  IF k.inq = <<>>
  THEN [c |-> c, k |-> k, ret |-> "block", oct |-> <<>>]
  ELSE LET f == Head(k.inq)
       IN [c |-> c, ret |-> Verdict(f), oct |-> Octets(f),
           k |-> [k EXCEPT !.inq = Tail(@), !.read = @ \o Payload(Octets(f))]]

\* Mutant of NextFrame: the ComponentSource is not told of the next frame.
NextFrameUnannounced(rfc) ==
  LET rest == SubSeq(rfc.buf, rfc.size + 1, Len(rfc.buf))
      size == IF Len(rest) >= 2 THEN 2 + Length(rest[1][1]) ELSE 0
  IN [buf |-> rest, size |-> size, used |-> 0, wakeup |-> FALSE]

\* The next frame begins: its size is known once its two length octets are
\* there; a whole one is a reason for the ComponentSource to wake.
NextFrame(rfc) ==
  LET rest == SubSeq(rfc.buf, rfc.size + 1, Len(rfc.buf))
      size == IF Len(rest) >= 2 THEN 2 + Length(rest[1][1]) ELSE 0
  IN [buf |-> rest, size |-> size, used |-> 0,
      wakeup |-> size # 0 /\ Len(rest) >= size]

\* Mutant of ConsumeChunk: the end of a frame is dropped although it is a part of
\* a byte stream.
ConsumeChunkDropsEnd(rfc, room) == NextFrame(rfc)

\* agent_consume_next_rfc4571_chunk into a message with room for room octets:
\* a frame that does not fit stays for the next message when bytestream_tcp,
\* and loses its end otherwise.
ConsumeChunk(rfc, room) ==
  LET un == rfc.size - 2 - rfc.used
      n == Min({un, room})
  IN IF n = un \/ ~sc.bytestream THEN NextFrame(rfc)
     ELSE [rfc EXCEPT !.used = @ + n, !.wakeup = TRUE]
Unconsumed(rfc) == SubSeq(rfc.buf, 2 + rfc.used + 1, rfc.size)

\* The bytes of a TCP socket: more are read only when no whole frame is cached.
\* The peer's shutdown shows as a socket with nothing to read.
ReadFrame ==
  LET missing == c.rfc.size = 0 \/ Len(c.rfc.buf) < c.rfc.size
      n == IF missing THEN Min({Len(k.inq), RfcSize - Len(c.rfc.buf)}) ELSE 0
      oct == SubSeq(k.inq, 1, n)
      buf == c.rfc.buf \o oct
      size == IF c.rfc.size = 0 /\ Len(buf) >= 2 THEN 2 + Length(buf[1][1])
              ELSE c.rfc.size
  IN [rfc |-> [c.rfc EXCEPT !.buf = buf, !.size = size],
      k |-> [k EXCEPT !.inq = SubSeq(@, n + 1, Len(@)), !.read = @ \o Payload(oct)],
      failed |-> missing /\ k.inq = <<>> /\ k.shut,
      whole |-> size # 0 /\ Len(buf) >= size]

RecvFrame(room) ==
  LET r == ReadFrame
      v == Verdict(r.rfc.buf[1][1])
      oct == SubSeq(Unconsumed(r.rfc), 1, Min({Len(Unconsumed(r.rfc)), room}))
  IN CASE ~r.whole -> [c |-> [c EXCEPT !.rfc = r.rfc], k |-> r.k, oct |-> <<>>,
                       ret |-> IF r.failed THEN "error" ELSE "block"]
       [] r.whole /\ v = "ok" ->
            [c |-> [c EXCEPT !.rfc = ConsumeChunk(r.rfc, room)], k |-> r.k,
             oct |-> oct, ret |-> "ok"]
       [] r.whole /\ v # "ok" ->
            [c |-> [c EXCEPT !.rfc = NextFrame(r.rfc)], k |-> r.k, oct |-> <<>>,
             ret |-> v]

\* agent_try_consume_next_rfc4571_chunk: a whole frame is cached.
CachedFrame == c.rfc.size # 0 /\ Len(c.rfc.buf) >= c.rfc.size

\* pseudo_tcp_socket_recv: a pseudo-TCP packet's data goes into the receive
\* buffer in order (PseudoTcpRecv), the FIN is remembered.
TcpPacket(tcp, f) ==
  CASE Kind(f) = "syn" -> [tcp EXCEPT !.st = IF @ = "listen" THEN "est" ELSE @]
    [] Kind(f) = "fin" -> [tcp EXCEPT !.st = IF @ = "est" THEN "fin" ELSE @]
    [] OTHER           -> [tcp EXCEPT !.buf = @ \o Octets(f)]

------------------------------------------------------------------------------
(* component_io_cb: the socket's source is dispatched by the thread that     *)
(* iterates its context.                                                     *)

Ready == k.inq # <<>> \/ k.shut

\* The thread is where sources of the component's context are dispatched: L in
\* its main loop, a reader in the component's own context.
Iterates(t) ==
  \/ c.ctx = "main" /\ t = "L" /\ th[t].pc = "out"
  \/ c.ctx = "own" /\ th[t].pc = "wait"

Return(t, h) == [h EXCEPT ![t].pc = IF h[t].op = NoOp THEN "out" ELSE "back",
                          ![t].has = FALSE, ![t].acc = <<>>, ![t].ret = "none"]

\* The end of a dispatch (done: and out:).
IoDone(t, d) == c' = d /\ lock' = "free" /\ th' = Return(t, th)

\* The stream was removed: the source is too.
IoStreamGone(t) ==
  /\ lock = "free" /\ c.attached /\ Iterates(t) /\ Ready
  /\ ~c.listed
  /\ IoDone(t, DetachAllSockets(c))
  /\ UNCHANGED <<sc, k, got>>

\* G_IO_HUP and nothing to read.
IoHup(t) ==
  /\ lock = "free" /\ c.attached /\ Iterates(t) /\ c.listed
  /\ k.shut /\ k.inq = <<>>
  /\ IoDone(t, [RemoveSocket(c) EXCEPT !.failed = @ \/ c.sel])
  /\ UNCHANGED <<sc, k, got>>

\* A pseudo-TCP socket that is closed takes nothing any more.
IoTcpClosed(t) ==
  /\ lock = "free" /\ c.attached /\ Iterates(t) /\ Ready /\ c.listed
  /\ sc.mode = "ptcp" /\ c.tcp.st = "closed"
  /\ IoDone(t, RemoveSocket(c))
  /\ UNCHANGED <<sc, k, got>>

\* Somebody reads: a callback or the messages of a reader.  (With neither the
\* dispatch changes nothing.)
IoEnter(t) ==
  /\ lock = "free" /\ c.attached /\ Iterates(t) /\ Ready /\ c.listed
  /\ ~(sc.mode = "ptcp" /\ c.tcp.st = "closed")
  /\ c.cb \/ c.rm.on
  /\ c' = Sound(Sound(c, "callback and reader", ~(c.cb /\ c.rm.on)),
                "partly filled datagram",
                sc.mode = "dgram" /\ ~c.cb => c.rm.part = <<>>)
  /\ lock' = t
  /\ th' = [th EXCEPT ![t].pc = "io", ![t].has = c.cb, ![t].gen = c.gen,
                      ![t].br = IF c.cb THEN "cb" ELSE "rm"]
  /\ UNCHANGED <<sc, k, got>>

\* Whether the loop of component_io_cb goes on.  An unreliable agent chose at
\* entry between callback and reader.
LoopsOn(t) ==
  IF sc.mode = "dgram" /\ th[t].br = "cb" THEN th[t].has
  ELSE th[t].has \/ (c.rm.on /\ ~AtEnd(c.rm))

IoEnds(t) ==
  /\ th[t].pc = "io" /\ ~LoopsOn(t)
  /\ IoDone(t, c)
  /\ UNCHANGED <<sc, k, got>>

\* The thread may run the component's callback itself.
Owner(t) == IF c.ctx = "main" THEN t = "L" ELSE th[t].op # NoOp

\* nice_component_emit_io_callback in the thread that owns the component's
\* context, as the thread that dispatches the socket's source does: the callback
\* runs with the lock released.
CallBack(t, d, oct, in, ret) ==
  /\ c' = Sound(Sound(d, "receive buffer gone", d.open), "not the owner", Owner(t))
  /\ got' = got \o oct /\ lock' = "free"
  /\ th' = [th EXCEPT ![t].pc = in, ![t].acc = <<>>, ![t].ret = ret]

\* In any other thread it is deferred to an idle source of the context.
Emit(t, d, oct) ==
  IF Owner(t) THEN CallBack(t, d, oct, "rdcb", "ok")
  ELSE /\ c' = ScheduleIoCallback([d EXCEPT !.pending = Append(@, oct)])
       /\ UNCHANGED <<th, got, lock>>

\* An unreliable agent: the callback for every message, or the reader's
\* messages one after the other.
IoDatagram(t) ==
  /\ sc.mode = "dgram" /\ th[t].pc = "io" /\ LoopsOn(t)
  /\ LET r == RecvDatagram
         first == th[t].br = "rm" /\ c.rm.done = <<>> /\ c.err = "none"
     IN /\ k' = r.k
        /\ \/ /\ r.ret = "block"
              /\ IoDone(t, IF first THEN [c EXCEPT !.err = "block"] ELSE c)
              /\ UNCHANGED got
           \/ /\ r.ret = "error"
              /\ IoDone(t, RemoveSocket(c))
              /\ UNCHANGED got
           \/ /\ r.ret = "oob"
              /\ th' = [th EXCEPT ![t].has = c.cb]
              /\ UNCHANGED <<c, lock, got>>
           \/ /\ r.ret = "ok" /\ th[t].br = "cb"
              /\ CallBack(t, c, r.oct, "iocb", "ok")
           \/ /\ r.ret = "ok" /\ th[t].br = "rm"
              /\ c' = [c EXCEPT !.rm = AppendBuffer(@, r.oct), !.err = "none"]
              /\ UNCHANGED <<th, lock, got>>
  /\ UNCHANGED sc

\* The application's callback returns to component_io_cb.  The status of the
\* read comes before a look at whether the source still exists.
IoCallbackReturns(t) ==
  /\ th[t].pc = "iocb" /\ lock = "free"
  /\ IF th[t].ret = "error" THEN IoDone(t, RemoveSocket(c))
     ELSE IF th[t].ret = "block" \/ th[t].gen # c.gen THEN IoDone(t, c)
     ELSE /\ lock' = t
          /\ th' = [th EXCEPT ![t].pc = "io", ![t].has = c.cb]
          /\ UNCHANGED c
  /\ UNCHANGED <<sc, k, got>>

\* A reliable agent on a TCP socket: frames are put together into one message
\* when bytestream_tcp, until it is full or nothing is left to read.
IoStream(t) ==
  /\ sc.mode = "stream" /\ th[t].pc = "io" /\ LoopsOn(t)
  /\ LET cap == IF th[t].has THEN RecvSize ELSE c.rm.size
         r == RecvFrame(cap - Len(th[t].acc))
         acc == th[t].acc \o r.oct
         more == \/ r.ret = "oob"
                 \/ r.ret = "ok" /\ sc.bytestream /\ Len(acc) < cap
         filled == [r.c EXCEPT !.rm.done = Append(@, acc)]
     IN /\ k' = r.k
        /\ \/ /\ more
              /\ c' = r.c /\ th' = [th EXCEPT ![t].acc = acc]
              /\ UNCHANGED <<lock, got>>
           \/ /\ ~more /\ acc # <<>> /\ th[t].has
              /\ CallBack(t, r.c, acc, "iocb", r.ret)
           \/ /\ ~more /\ (acc = <<>> \/ ~th[t].has) /\ r.ret # "ok"
              /\ LET d == IF acc = <<>> THEN r.c ELSE filled
                 IN IoDone(t, IF r.ret = "error" THEN RemoveSocket(d) ELSE d)
              /\ UNCHANGED got
           \/ /\ ~more /\ ~th[t].has /\ r.ret = "ok"
              /\ c' = filled
              /\ th' = [th EXCEPT ![t].acc = <<>>, ![t].has = c.cb]
              /\ UNCHANGED <<lock, got>>
  /\ UNCHANGED sc

------------------------------------------------------------------------------
(* A reliable agent on UDP: packets go to the pseudo-TCP socket, which calls *)
(* pseudo_tcp_socket_readable for new data.                                  *)

\* pseudo_tcp_socket_readable when no callback is attached: the reader's
\* messages are filled as far as the data goes; without a reader nothing moves.
ReadableNoCallback(d) ==
  LET n == Min({Len(d.tcp.buf), FlatRoom(d.rm)})
      e == [d EXCEPT !.rm = Fill(@, d.tcp.buf),
                     !.tcp.buf = SubSeq(@, n + 1, Len(@))]
  IN IF ~d.rm.on THEN [d EXCEPT !.tcp.readable = TRUE]
     ELSE IF ValidMessages(e.rm) > 0 THEN [e EXCEPT !.tcp.readable = TRUE]
     ELSE IF d.tcp.st = "fin"
     THEN [e EXCEPT !.tcp.readable = FALSE, !.tcp.st = "closing"]
     ELSE [e EXCEPT !.tcp.readable = FALSE, !.err = "block"]

\* One packet.  Until a pair is selected it waits in queued_tcp_packets, for
\* there is no socket to acknowledge it on.
IoPseudoTcp(t) ==
  /\ sc.mode = "ptcp" /\ th[t].pc = "io" /\ LoopsOn(t)
  /\ LET r == RecvDatagram
         f == Head(k.inq)
         tcp == FoldLeft(TcpPacket, c.tcp, c.queued)
         d == [c EXCEPT !.tcp = TcpPacket(tcp, f), !.queued = <<>>]
         heard == Kind(f) = "data" /\ c.listed
     IN /\ k' = r.k
        /\ \/ /\ r.ret \in {"block", "error"}
              /\ IoDone(t, IF r.ret = "error" THEN RemoveSocket(c) ELSE c)
           \/ /\ r.ret = "oob"
              /\ th' = [th EXCEPT ![t].has = c.cb]
              /\ UNCHANGED <<c, lock>>
           \/ /\ r.ret = "ok" /\ ~c.sel
              /\ c' = [c EXCEPT !.queued = Append(@, f)]
              /\ th' = [th EXCEPT ![t].has = c.cb]
              /\ UNCHANGED lock
           \/ /\ r.ret = "ok" /\ c.sel /\ heard /\ c.cb
              /\ c' = [d EXCEPT !.tcp.readable = TRUE]
              /\ th' = [th EXCEPT ![t].pc = "rd", ![t].from = "io"]
              /\ UNCHANGED lock
           \/ /\ r.ret = "ok" /\ c.sel /\ ~(heard /\ c.cb)
              /\ c' = IF heard THEN ReadableNoCallback(d) ELSE d
              /\ th' = [th EXCEPT ![t].has = c.cb]
              /\ UNCHANGED lock
  /\ UNCHANGED <<sc, got>>

\* The end of pseudo_tcp_socket_readable: back into the loop of component_io_cb
\* or out of nice_agent_attach_recv.
ReadableEnds(t, d) ==
  /\ c' = d
  /\ IF th[t].from = "io"
     THEN /\ th' = [th EXCEPT ![t].pc = "io", ![t].has = d.cb]
          /\ lock' = t
     ELSE /\ th' = [th EXCEPT ![t].pc = "out"]
          /\ lock' = "free"

\* One turn of the loop of pseudo_tcp_socket_readable.
Readable(t) ==
  /\ th[t].pc = "rd"
  /\ IF ~c.cb \/ c.tcp.buf = <<>>
     THEN /\ ReadableEnds(t, IF c.cb /\ c.tcp.st = "fin"
                             THEN [c EXCEPT !.tcp.readable = FALSE,
                                            !.tcp.st = "closing"]
                             ELSE c)
          /\ UNCHANGED got
     ELSE Emit(t, [c EXCEPT !.tcp.buf = <<>>], c.tcp.buf)
  /\ UNCHANGED <<sc, k>>

\* The callback returns: stream and socket are looked up again.
ReadableCallbackReturns(t) ==
  /\ th[t].pc = "rdcb" /\ lock = "free"
  /\ IF ~c.listed \/ c.tcp.st = "closed" THEN ReadableEnds(t, c)
     ELSE /\ th' = [th EXCEPT ![t].pc = "rd"] /\ lock' = t
          /\ UNCHANGED c
  /\ UNCHANGED <<sc, k, got>>

\* agent_signal_new_selected_pair: the packets that waited are processed.
SelectPair ==
  /\ lock = "free" /\ c.listed /\ c.sock /\ ~c.sel
  /\ c' = IF sc.mode # "ptcp" \/ c.tcp.st = "closed"
          THEN [c EXCEPT !.sel = TRUE]
          ELSE [c EXCEPT !.sel = TRUE, !.queued = <<>>,
                         !.tcp = FoldLeft(TcpPacket, @, c.queued)]
  /\ UNCHANGED <<sc, th, lock, k, got>>

\* priv_pseudo_tcp_error, when the pseudo-TCP clock finds the connection dead:
\* the component has failed, its sockets are detached (not closed).
TcpFails ==
  /\ lock = "free" /\ th["L"].pc = "out" /\ sc.fails /\ c.listed
  /\ sc.mode = "ptcp" /\ c.tcp.st # "closed"
  /\ c' = [DetachAllSockets(c) EXCEPT !.failed = TRUE, !.tcp.st = "closed"]
  /\ UNCHANGED <<sc, th, lock, k, got>>

------------------------------------------------------------------------------
(* emit_io_callback_cb: the idle source, in the main loop, without the       *)
(* agent's lock.                                                             *)

Idle(d) == [d EXCEPT !.idleId = FALSE]

IdleStarts ==
  /\ th["L"].pc = "out" /\ c.idles > 0
  /\ LET d == [Sound(c, "idle source of a closed component", c.open)
               EXCEPT !.idles = @ - 1]
     IN IF c.cb /\ c.pending # <<>>
        THEN /\ c' = d /\ got' = got \o Head(c.pending)
             /\ th' = [th EXCEPT !["L"].pc = "idle"]
        ELSE c' = Idle(d) /\ UNCHANGED <<got, th>>
  /\ UNCHANGED <<sc, lock, k>>

\* The callback returns: its message is dropped from the queue and the next one
\* is given to the callback, unless the component or the callback is gone.
IdleReturns ==
  /\ th["L"].pc = "idle"
  /\ LET rest == IF c.pending = <<>> THEN <<>> ELSE Tail(c.pending)
     IN IF ~c.listed
        THEN UNCHANGED <<c, got>> /\ th' = [th EXCEPT !["L"].pc = "out"]
        ELSE IF c.cb /\ rest # <<>>
        THEN c' = [c EXCEPT !.pending = rest] /\ got' = got \o Head(rest)
             /\ UNCHANGED th
        ELSE /\ c' = Idle([c EXCEPT !.pending = rest])
             /\ th' = [th EXCEPT !["L"].pc = "out"]
             /\ UNCHANGED got
  /\ UNCHANGED <<sc, lock, k>>

------------------------------------------------------------------------------
(* The calls of the application.                                             *)

\* A thread makes the next call of its script.  A quiet one waits until the
\* peer has no more to send and the main loop has nothing to do.
Quiet == k.todo = <<>> /\ k.inq = <<>> /\ th["L"].pc = "out"
Calls(t, op) ==
  /\ lock = "free" /\ th[t].pc = "out" /\ th[t].ops # <<>>
  /\ Head(th[t].ops).op = op
  /\ Head(th[t].ops).quiet => Quiet

\* nice_agent_attach_recv with a callback.  Data left in the pseudo-TCP socket
\* by a callback that detached itself is delivered now.
Attach(t) ==
  /\ Calls(t, "attach")
  /\ LET h == [th EXCEPT ![t].ops = Tail(@)]
         d == SetIoCallback(SetIoContext(c), TRUE, NoMessages)
     IN IF ~c.listed THEN th' = h /\ UNCHANGED <<c, lock>>
        ELSE /\ c' = d
             /\ IF Reliable /\ d.tcp.st # "closed" /\ d.tcp.readable
                THEN /\ th' = [h EXCEPT ![t].pc = "rd", ![t].from = "call"]
                     /\ lock' = t
                ELSE th' = h /\ UNCHANGED lock
  /\ UNCHANGED <<sc, k, got>>

Detached == IF c.listed THEN SetIoCallback(SetIoContext(c), FALSE, NoMessages)
            ELSE c

\* nice_agent_attach_recv without one.
Detach(t) ==
  /\ Calls(t, "detach")
  /\ c' = Detached /\ th' = [th EXCEPT ![t].ops = Tail(@)]
  /\ UNCHANGED <<sc, lock, k, got>>

\* nice_agent_remove_stream: the stream is unlinked now, its components are
\* closed in the main loop.
RemoveStream(t) ==
  /\ Calls(t, "remove")
  /\ c' = [c EXCEPT !.listed = FALSE]
  /\ th' = [th EXCEPT ![t].ops = Tail(@)]
  /\ UNCHANGED <<sc, lock, k, got>>

\* The same calls from inside the application's callback.
CallsBack ==
  /\ lock = "free" /\ th["L"].pc \in {"iocb", "rdcb", "idle"}
  /\ th["L"].cbops # <<>>
  /\ c' = IF Head(th["L"].cbops) = "detach" THEN Detached
          ELSE [c EXCEPT !.listed = FALSE]
  /\ th' = [th EXCEPT !["L"].cbops = Tail(@)]
  /\ UNCHANGED <<sc, lock, k, got>>

\* on_stream_refreshes_pruned, a timeout of the main context: dispatched after
\* the idle sources, which were attached before it.
CloseComponent ==
  /\ lock = "free" /\ th["L"].pc = "out" /\ c.idles = 0
  /\ ~c.listed /\ c.open
  /\ c' = ComponentClose(c)
  /\ UNCHANGED <<sc, th, lock, k, got>>

------------------------------------------------------------------------------
(* nice_agent_recv_messages_blocking_or_nonblocking.                         *)

\* pending_io_messages_recv_messages, as long as there is room.
DrainOne(d, i) ==
  LET s == Head(d.pending)
      n == Room(d.rm, s)
      rest == SubSeq(s, n + 1, Len(s))
  IN IF AtEnd(d.rm) \/ d.pending = <<>> THEN d
     ELSE [d EXCEPT !.rm = AppendBuffer(@, s),
                    !.pending = IF ~sc.bytestream \/ rest = <<>> THEN Tail(@)
                                ELSE <<rest>> \o Tail(@)]
DrainPending(d) ==
  FoldLeft(DrainOne, d, [i \in 1 .. Len(d.pending) + d.rm.n |-> i])

\* The end of a read: what the messages hold is the application's, unless an
\* error is reported.  Nothing valid without an error means the end of the
\* stream.
Finish(t, h, d, eos, blocked) ==
  LET n == ValidMessages(d.rm)
      failed == d.err # "none" \/ (n = 0 /\ blocked)
      again == h[t].op.drain /\ n > 0 /\ ~failed
  IN /\ c' = SetIoCallback(Sound(d, "nothing valid", failed \/ n # 0 \/ eos),
                           FALSE, NoMessages)
     /\ got' = IF failed THEN got ELSE got \o FlattenSeq(d.rm.done) \o d.rm.part
     /\ th' = [h EXCEPT ![t].pc = IF again THEN "again" ELSE "out",
                        ![t].op = NoOp]
     /\ lock' = "free"

\* Up to the iteration of the component's own context: the messages deferred
\* for a callback, a cached frame, the pseudo-TCP socket's data.
StartRead(t, h, op) ==
  LET rm == [NoMessages EXCEPT !.on = TRUE, !.n = op.n, !.size = op.size]
      a == DrainPending(SetIoCallback(Sound(c, "reader in a reader", ~c.rm.on),
                                      FALSE, rm))
      g == [h EXCEPT ![t].op = op]
      u == Unconsumed(c.rfc)
      n == Min({Len(a.tcp.buf), FlatRoom(a.rm)})
      b == IF Reliable /\ a.tcp.buf # <<>>
           THEN [a EXCEPT !.rm = Fill(@, a.tcp.buf),
                          !.tcp.buf = SubSeq(@, n + 1, Len(@))]
           ELSE a
  IN IF ~AtEnd(a.rm) /\ CachedFrame
     THEN Finish(t, g, [a EXCEPT !.rm = AppendBuffer(@, u),
                                 !.rfc = ConsumeChunk(@, Room(a.rm, u))],
                 FALSE, FALSE)
     ELSE IF AtEnd(b.rm) THEN Finish(t, g, b, FALSE, FALSE)
     ELSE /\ c' = b
          /\ th' = [g EXCEPT ![t].pc = "wait", ![t].prev = IterAt(b.rm)]
          /\ UNCHANGED <<got, lock>>

Recv(t) ==
  /\ Calls(t, "recv")
  /\ LET h == [th EXCEPT ![t].ops = Tail(@)]
     IN IF c.listed THEN StartRead(t, h, Head(th[t].ops))
        ELSE th' = h /\ UNCHANGED <<c, lock, got>>
  /\ UNCHANGED <<sc, k>>

\* g_main_context_iteration of the own context returns with nothing done: the
\* component was closed, or nothing is ready and the read must not block.
IterationReturns(t) ==
  /\ th[t].pc = "wait"
  /\ c.stop \/ (~th[t].op.blocking /\ ~(c.attached /\ c.ctx = "own" /\ Ready))
  /\ th' = [th EXCEPT ![t].pc = "back"]
  /\ UNCHANGED <<sc, c, lock, k, got>>

\* pseudo_tcp_socket_is_closed_remotely, which is true of a socket that was
\* closed for any reason.
ClosedRemotely == c.tcp.st \in {"fin", "closing", "closed"}

\* After an iteration: enough, an error, the end of the stream or nothing new.
IterationChecked(t) ==
  /\ th[t].pc = "back" /\ lock = "free"
  /\ LET same == th[t].prev = IterAt(c.rm)
         eos == Reliable /\ ClosedRemotely /\ same
         blocked == ~th[t].op.blocking /\ ~eos /\ same
     IN IF ~c.listed
        THEN /\ th' = [th EXCEPT ![t].pc = "out", ![t].op = NoOp]
             /\ UNCHANGED <<c, lock, got>>
        ELSE IF AtEnd(c.rm) \/ c.err = "error" \/ eos \/ blocked
        THEN Finish(t, th, c, eos, blocked)
        ELSE /\ c' = [c EXCEPT !.err = "none"]
             /\ th' = [th EXCEPT ![t].pc = "wait", ![t].prev = IterAt(c.rm)]
             /\ UNCHANGED <<got, lock>>
  /\ UNCHANGED <<sc, k>>

\* component_source_prepare, component_source_dispatch and a read from the
\* stream's input side, in the main loop.
Poll ==
  /\ lock = "free" /\ sc.poll # NoOp /\ c.listed
  /\ \/ th["L"].pc = "again"
     \/ th["L"].pc = "out" /\ (c.rfc.wakeup \/ (c.sock /\ Ready))
  /\ LET op == sc.poll
         woken == [c EXCEPT !.rfc.wakeup = FALSE]
     IN IF th["L"].pc = "out" /\ c.rfc.wakeup
        THEN /\ c' = woken /\ th' = [th EXCEPT !["L"].pc = "again"]
             /\ UNCHANGED <<got, lock>>
        ELSE StartRead("L", th, op)
  /\ UNCHANGED <<sc, k>>

\* The stream was removed between two reads of a reader that drains it.
PollStops ==
  /\ th["L"].pc = "again" /\ ~c.listed
  /\ th' = [th EXCEPT !["L"].pc = "out"]
  /\ UNCHANGED <<sc, c, lock, k, got>>

------------------------------------------------------------------------------
(* The peer and the network.                                                 *)

\* Octets the peer has in flight to the pseudo-TCP socket.
InFlight == FlattenSeq([i \in 1 .. Len(k.inq) |-> Octets(k.inq[i])])

\* A datagram arrives; pseudo-TCP's peer waits for the handshake and keeps
\* within the window.
Arrive ==
  /\ sc.mode # "stream" /\ k.todo # <<>>
  /\ LET f == Head(k.todo)
     IN sc.mode = "ptcp" /\ Kind(f) \in {"data", "fin"} =>
          /\ c.tcp.st = "est"
          /\ Len(c.tcp.buf) + Len(InFlight) + Length(f) <= RcvBuf
  /\ k' = [k EXCEPT !.todo = Tail(@), !.inq = Append(@, Head(k.todo))]
  /\ UNCHANGED <<sc, c, th, lock, got>>

\* UDP loses one.
Lose ==
  /\ sc.mode = "dgram" /\ k.todo # <<>>
  /\ k' = [k EXCEPT !.todo = Tail(@)]
  /\ UNCHANGED <<sc, c, th, lock, got>>

\* TCP delivers some octets.
Flow ==
  /\ sc.mode = "stream" /\ k.todo # <<>>
  /\ \E n \in 1 .. Len(k.todo) :
       k' = [k EXCEPT !.todo = SubSeq(@, n + 1, Len(@)),
                      !.inq = @ \o SubSeq(k.todo, 1, n)]
  /\ UNCHANGED <<sc, c, th, lock, got>>

PeerShuts ==
  /\ sc.shuts /\ k.todo = <<>> /\ ~k.shut
  /\ k' = [k EXCEPT !.shut = TRUE]
  /\ UNCHANGED <<sc, c, th, lock, got>>

\* The peer's keepalive, a STUN request, comes again and again, seconds apart:
\* the threads are done with the last one.
Keepalive ==
  /\ sc.keepalive /\ k.inq = <<>> /\ c.sock
  /\ \A t \in Threads : th[t].pc \in {"out", "wait"}
  /\ k' = [k EXCEPT !.inq = <<0>>]
  /\ UNCHANGED <<sc, c, th, lock, got>>

------------------------------------------------------------------------------
NewThread(ops, cbops) ==
  [pc |-> "out", ops |-> ops, cbops |-> cbops, op |-> NoOp, has |-> FALSE,
   br |-> "none", acc |-> <<>>, ret |-> "none", gen |-> 0, from |-> "none",
   prev |-> <<0, 0>>]

\* A component whose candidates are gathered: its socket is attached to its own
\* context and nobody reads yet.
Init ==
  /\ sc \in Settings
  /\ c = [ctx |-> "own", attached |-> TRUE, gen |-> 0, sock |-> TRUE,
          listed |-> TRUE, open |-> TRUE, sel |-> sc.mode # "ptcp",
          failed |-> FALSE, cb |-> FALSE, rm |-> NoMessages, err |-> "none",
          pending |-> <<>>, idleId |-> FALSE, idles |-> 0,
          tcp |-> [buf |-> <<>>, readable |-> FALSE, st |-> "listen"],
          queued |-> <<>>, stop |-> FALSE, bad |-> {},
          rfc |-> [buf |-> <<>>, size |-> 0, used |-> 0, wakeup |-> FALSE]]
  /\ th = [t \in Threads |->
             IF t = "L" THEN NewThread(sc.lops, sc.cbops) ELSE NewThread(sc.ops, <<>>)]
  /\ lock = "free"
  /\ k = [inq |-> <<>>, shut |-> FALSE, read |-> <<>>,
          todo |-> IF sc.mode = "stream"
                   THEN FlattenSeq([f \in 1 .. Len(sc.msgs) |-> Octets(f)])
                   ELSE [f \in 1 .. Len(sc.msgs) |-> f]]
  /\ got = <<>>

\* What a thread does without the application's asking.
Io(t) ==
  \/ IoStreamGone(t) \/ IoHup(t) \/ IoTcpClosed(t) \/ IoEnter(t) \/ IoEnds(t)
  \/ IoDatagram(t) \/ IoStream(t) \/ IoPseudoTcp(t) \/ IoCallbackReturns(t)
  \/ Readable(t) \/ ReadableCallbackReturns(t)
  \/ IterationReturns(t) \/ IterationChecked(t)

MainLoop == Io("L") \/ IdleStarts \/ IdleReturns \/ CloseComponent
            \/ Poll \/ PollStops

Call(t) == Attach(t) \/ Detach(t) \/ RemoveStream(t) \/ Recv(t)

Peer == Arrive \/ Lose \/ Flow \/ PeerShuts \/ Keepalive

Next == MainLoop \/ Io("A") \/ SelectPair \/ TcpFails \/ Call("A") \/ RemoveStream("L")
        \/ CallsBack \/ Peer

Spec == Init /\ [][Next]_vars

\* Both threads are scheduled, and a peer that sends keepalives goes on.
FairSpec == Spec /\ WF_vars(MainLoop) /\ WF_vars(Io("A")) /\ WF_vars(Keepalive)

------------------------------------------------------------------------------
(* Properties.                                                               *)

\* Data on its way from the kernel to the application: in the messages of a
\* reader, put together for the callback, deferred to the idle source, in the
\* pseudo-TCP socket, cached as RFC 4571 frames.
InHand ==
  LET idle == IF th["L"].pc = "idle" /\ c.pending # <<>> THEN Tail(c.pending)
              ELSE c.pending
      cached == SubSeq(c.rfc.buf, (IF c.rfc.size = 0 THEN 0 ELSE 2 + c.rfc.used) + 1,
                       Len(c.rfc.buf))
  IN FlattenSeq(c.rm.done) \o c.rm.part \o th["L"].acc \o th["A"].acc
     \o FlattenSeq(idle) \o c.tcp.buf \o Payload(cached)

\* Every octet of data that left the kernel (agent_recv_message_unlocked) is
\* with the application or on its way there, once and in the order it came,
\* and nothing else is; a stream that was removed may forget the end.  Nor does
\* an assertion of component_io_cb, nice_agent_recv_messages or
\* nice_component_emit_io_callback fail on the way: a callback and a reader are
\* never both set, no reader starts in a reader, a read that reports neither
\* data nor an error means the end of the stream, and neither the socket's
\* source nor the idle source uses a component that is closed.
Accounted ==
  /\ IF c.listed THEN k.read = got \o InHand ELSE IsPrefix(got, k.read)
  /\ c.bad = {}

\* Nothing is left for anybody to read.
HandedOver ==
  k.inq = <<>> /\ c.pending = <<>> /\ c.tcp.buf = <<>> /\ ~CachedFrame

\* While a callback is attached or a pollable source exists, what arrived is
\* handed over: no packet, frame or deferred message waits for ever.
DataIsRead ==
  []<>(HandedOver \/ ~c.listed \/ c.failed \/ ~(c.cb \/ sc.poll # NoOp))

\* nice_agent_recv_messages comes back when there is something to read, when
\* the peer's pseudo-TCP stream has ended and when the stream is removed.
Starved ==
  /\ c.listed /\ HandedOver /\ ~AtEnd(c.rm) /\ c.tcp.st \notin {"fin", "closing"}
RecvReturns == []<>(th["A"].op = NoOp \/ Starved \/ (c.failed /\ c.listed))

\* Neither the data nor a reader waits in vain.
NobodyWaitsInVain == DataIsRead /\ RecvReturns
==============================================================================
