----------------------------- MODULE PseudoTcp -----------------------------
(***************************************************************************)
(* Two pseudo-TCP sockets joined by a network that loses, duplicates and   *)
(* reorders packets.  libnice runs this protocol over the selected         *)
(* candidate pair of a reliable agent, whose lock makes every call of a    *)
(* socket function atomic; each of them is one action here.                *)
(***************************************************************************)
EXTENDS PseudoTcpSocket, SequencesExt

CONSTANTS A, B,            \* the two sockets; A connects
          Scenarios,       \* what the users and the network do; see below
          MaxSegments      \* length of slist in LAST_ACK and CLOSED

\* A scenario is a record of
\*   app[e]      how many bytes e's user writes
\*   sizes       the sizes of its writes
\*   reads       the sizes of reads
\*   options[e]  the options of e's socket
\*   ends[e]     how e's user may shut down or close
\*   cwnds       the values of the congestion window
\*   net         how many packets are in flight at most
\*   faults      how many packets the network drops or duplicates
\*   errors      how often WritePacket fails
\*   ticks       how often the two clocks run; below 0 for no bound
ASSUME PseudoTcpAssumption ==
    /\ A # B /\ MaxSegments \in Nat
    /\ \A s \in Scenarios :
        /\ s.net \in Nat /\ s.faults \in Nat /\ s.errors \in Nat /\ s.ticks \in Int
        /\ \A e \in {A, B} : s.app[e] \in Nat

Endpoints == {A, B}
Peer(e) == IF e = A THEN B ELSE A

VARIABLES scenario,     \* the scenario, chosen once
          tcb,          \* the sockets
          net,          \* packets in flight, with their destination
          sent,         \* sent[e]: number of bytes e's user has written
          rcvd,         \* rcvd[e]: the bytes e's user has read
          finUnbacked,  \* finUnbacked[e]: e counted a FIN on a segment it did
                        \* not take in full; see FinUnbacked
          faults,       \* packets dropped or duplicated so far
          writeErrors,  \* failures of WritePacket so far
          ticks         \* runs of the clocks so far (their parity if unbounded)

vars == <<scenario, tcb, net, sent, rcvd, finUnbacked, faults, writeErrors, ticks>>

Init ==
    /\ scenario \in Scenarios
    /\ tcb = [e \in Endpoints |-> NewSocket(scenario.options[e])]
    /\ net = {}
    /\ sent = [e \in Endpoints |-> 0]
    /\ rcvd = [e \in Endpoints |-> <<>>]
    /\ finUnbacked = [e \in Endpoints |-> FALSE]
    /\ faults = 0 /\ writeErrors = 0
    /\ ticks = 0

\* The socket at the start of a call: the congestion window is some value of
\* the scenario's, and WritePacket fails at one of the packets with data, or at none.
Prepare(t, cwnd, writes, result) ==
    [t EXCEPT !.cwnd = cwnd, !.writes = writes, !.writeResult = result]

\* The socket between calls.
Settle(t) ==
    [t EXCEPT !.cwnd = 0, !.out = {}, !.writes = -1, !.writeResult = "", !.status = ""]

\* Run `F` on e's socket and hand its packets to the network, which keeps
\* some of them; `inFlight` is what the network holds otherwise.  A full
\* network drops the excess without that counting as a fault.
Call(e, F(_), inFlight, cost) ==
    \E cwnd \in scenario.cwnds,
       w \in {<<-1, "">>} \cup
             (IF writeErrors < scenario.errors
              THEN (0..1) \X {"WR_FAIL", "WR_TOO_LARGE"} ELSE {}) :
      LET t == F(Prepare(tcb[e], cwnd, w[1], w[2]))
          packets == {[dst |-> Peer(e), seg |-> p] : p \in t.out} \ inFlight
      IN  \E kept \in SUBSET packets :
            /\ tcb[e].failed = {}
            /\ tcb' = [tcb EXCEPT ![e] = Settle(t)]
            /\ UNCHANGED scenario
            /\ net' = inFlight \cup kept
            /\ Cardinality(net') <= scenario.net
            /\ faults' = faults + cost + IF Cardinality(net') = scenario.net THEN 0
                                         ELSE Cardinality(packets \ kept)
            /\ faults' <= scenario.faults
            /\ writeErrors' = IF w[1] >= 0 /\ t.writes < 0 THEN writeErrors + 1
                              ELSE writeErrors

Connect ==
    /\ tcb[A].state = "LISTEN"
    /\ Call(A, SocketConnect, net, 0)
    /\ UNCHANGED <<sent, rcvd, finUnbacked, ticks>>

Send(e, n) ==
    LET data == [i \in 1..n |-> sent[e] + i]
        F(t) == SocketSend(t, data)
    IN  /\ sent[e] + n <= scenario.app[e]
        /\ tcb[e].state = "ESTABLISHED"
        /\ Call(e, F, net, 0)
        /\ sent' = [sent EXCEPT ![e] = @ + Min({n, Accepts(tcb[e])})]
        /\ UNCHANGED <<rcvd, finUnbacked, ticks>>

Recv(e, n) ==
    LET F(t) == SocketRecv(t, n)
    IN  /\ tcb[e].rlen > 0
        /\ Readable(tcb[e])
        /\ Call(e, F, net, 0)
        /\ rcvd' = [rcvd EXCEPT ![e] = @ \o ReadBytes(tcb[e], n)]
        /\ UNCHANGED <<sent, finUnbacked, ticks>>

Shutdown(e, how) ==
    LET F(t) == SocketShutdown(t, how)
    IN  /\ how \in scenario.ends[e] \cap {"RD", "WR", "RDWR"}
        /\ Call(e, F, net, 0)
        /\ UNCHANGED <<sent, rcvd, finUnbacked, ticks>>

Close(e, force) ==
    LET F(t) == SocketClose(t, force)
    IN  /\ (IF force THEN "force" ELSE "close") \in scenario.ends[e]
        /\ tcb[e].state # "CLOSED"
        /\ Call(e, F, net, 0)
        /\ UNCHANGED <<sent, rcvd, finUnbacked, ticks>>

\* process() counts the FIN when the segment's length reaches it from rcv_nxt
\* (received_fin), before it knows where the segment starts and how much of it
\* fits into the buffer.
FinUnbacked(t, seg) ==
    LET n == Len(seg.data)
    IN  /\ n > 0 /\ ~HasReceivedFinAck(t.state)
        /\ ReceivedFin(NoteFin(t, seg), seg)
        /\ seg.seq # t.rcv_nxt \/ Rbuf(t)!KeptLen(t, seg.seq, n) < n

\* pseudo_tcp_socket_notify_packet
NotifyPacket(p, duplicate, sameTs) ==
    LET e == p.dst
        F(t) == Process(t, p.seg, sameTs)
    IN  /\ p \in net
        /\ sameTs => tcb[e].dup_acks = 2
        /\ Len(tcb[e].slist) < MaxSegments \/ tcb[e].state # "CLOSED"
        /\ Call(e, F, IF duplicate THEN net ELSE net \ {p}, IF duplicate THEN 1 ELSE 0)
        /\ finUnbacked' = [finUnbacked EXCEPT ![e] = @ \/ FinUnbacked(tcb[e], p.seg)]
        /\ UNCHANGED <<sent, rcvd, ticks>>

\* pseudo_tcp_socket_notify_clock, with at least one thing to do.
NotifyClock(e, due) ==
    LET t == tcb[e]
        F(u) == SocketNotifyClock(u, due)
    IN  /\ t.state # "CLOSED"
        /\ "rto" \in due => t.rto
        /\ "probe" \in due => t.snd_wnd = 0
        /\ "dead" \in due => "probe" \in due
        /\ "ack" \in due => t.t_ack
        /\ due # {} \/ t.state \in {"TIME_WAIT", "LAST_ACK"}
        /\ t.state = "LAST_ACK" => Len(t.slist) < MaxSegments
        /\ scenario.ticks < 0 \/ ticks < scenario.ticks
        /\ ticks' = IF scenario.ticks < 0 THEN 1 - ticks ELSE ticks + 1
        /\ Call(e, F, net, 0)
        /\ UNCHANGED <<sent, rcvd, finUnbacked>>

GetNextClock(e) ==
    /\ ClosesOnNextClock(tcb[e])
    /\ tcb[e].state # "CLOSED"
    /\ Call(e, SocketGetNextClock, net, 0)
    /\ UNCHANGED <<sent, rcvd, finUnbacked, ticks>>

Timers == {"rto", "probe", "dead", "ack"}

Next ==
    \/ Connect
    \/ \E e \in Endpoints, n \in scenario.sizes : Send(e, n)
    \/ \E e \in Endpoints, n \in scenario.reads : Recv(e, n)
    \/ \E e \in Endpoints, how \in {"RD", "WR", "RDWR"} : Shutdown(e, how)
    \/ \E e \in Endpoints, force \in BOOLEAN : Close(e, force)
    \/ \E p \in net, duplicate, sameTs \in BOOLEAN : NotifyPacket(p, duplicate, sameTs)
    \/ \E e \in Endpoints, due \in SUBSET Timers : NotifyClock(e, due)
    \/ \E e \in Endpoints : GetNextClock(e)

Spec == Init /\ [][Next]_vars

\* The main loop dispatches what is ready: packets are read from the socket,
\* the clock that adjust_tcp_clock() arms goes off, and users read what
\* PseudoTcpReadable announces.  This is weak fairness, with the condition
\* under which each action is enabled written out, where the clocks never stop.
Endless == scenario.ticks < 0
Running(e) == Endless /\ tcb[e].failed = {} /\ tcb[e].state # "CLOSED"
ClockReady(e, timer) ==
    /\ Running(e)
    /\ tcb[e].state = "LAST_ACK" => Len(tcb[e].slist) < MaxSegments
    /\ CASE timer = "rto" -> tcb[e].rto
         [] timer = "probe" -> tcb[e].snd_wnd = 0
         [] timer = "ack" -> tcb[e].t_ack

Fairness ==
    \A e \in Endpoints :
        /\ <>[](Running(e) /\ \E p \in net : p.dst = e)
            => []<><<Endless /\ \E p \in net, sameTs \in BOOLEAN :
                        p.dst = e /\ NotifyPacket(p, FALSE, sameTs)>>_vars
        /\ <>[](Running(e) /\ Readable(tcb[e]) /\ tcb[e].rlen > 0)
            => []<><<Endless /\ \E n \in scenario.reads : Recv(e, n)>>_vars
        /\ \A timer \in {"rto", "probe", "ack"} :
            <>[]ClockReady(e, timer) => []<><<Endless /\ NotifyClock(e, {timer})>>_vars

FairSpec == Spec /\ Fairness

-----------------------------------------------------------------------------
Segments == [seq : Nat, len : Nat, flags : {"NONE", "CTL", "FIN", "RST"}, xmit : Nat]

\* The types of the sockets' fields; in-order data and the send queue never
\* overrun their buffers.
TypeOK ==
    /\ \A e \in Endpoints :
        LET t == tcb[e]
        IN  /\ t.state \in States
            /\ t.shutdown \in {"SD_NONE", "SD_GRACEFUL", "SD_FORCEFUL"}
            /\ {t.support_fin_ack, t.shutdown_reads, t.t_ack, t.rto, t.bWriteEnable}
                    \subseteq BOOLEAN
            /\ t.rcv_nxt \in Nat /\ t.rcv_wnd \in Int /\ t.rcv_fin \in 0..SeqSpace - 1
            /\ t.rlen \in 0..t.rbuf_len /\ t.rlist \subseteq Nat
            /\ t.snd_una \in Nat /\ t.snd_nxt \in Nat /\ t.snd_wnd \in Nat
            /\ Len(t.sbuf) <= t.sbuf_len
            /\ \A i \in 1..Len(t.slist) : t.slist[i] \in Segments
            /\ t.dup_acks \in 0..4 /\ t.recover \in Nat
            /\ t.mss = MssLevels[t.msslevel] \/ t.opened = 0
            /\ t.out = {} /\ t.status = ""
    /\ \A e \in Endpoints : sent[e] \in 0..scenario.app[e]

\* What e's user has read or may still read from the buffer.
Delivered(e) ==
    rcvd[e] \o [i \in 1..tcb[e].rlen |-> tcb[e].rbuf[i - 1]]

\* The bytes handed to a user are the ones the peer's user wrote, in order and
\* without gaps, whatever the network drops, repeats or reorders: reassembly in
\* process() and retransmission agree on what each sequence number stands for.
\* A FIN counted on a segment that was not taken in full is the one way to
\* break this; FinInSequence is about that.
StreamIntegrity ==
    \A e \in Endpoints :
        ~finUnbacked[e] =>
            IsPrefix(Delivered(e), [i \in 1..sent[Peer(e)] |-> i])

\* No g_assert of pseudotcp.c fails, those of set_state() on the transitions of
\* RFC 793 included, and every field of the sockets keeps its type; with two
\* exceptions, each in the one situation named.  In LAST_ACK the clock queues
\* FIN after FIN, and transmit() may find one of them acknowledged already.  And
\* a write that fails while pseudo_tcp_socket_shutdown() flushes has closed the
\* socket, with an error, by the time shutdown() enters FIN_WAIT_1 or LAST_ACK.
AssertionsHold ==
    /\ TypeOK
    /\ \A e \in Endpoints :
        LET t == tcb[e]
        IN  t.failed \subseteq
                (IF t.state = "LAST_ACK" THEN {"not acknowledged yet"} ELSE {}) \cup
                (IF t.state \in {"FIN_WAIT_1", "LAST_ACK"} /\ t.error # ""
                 THEN {"valid transition"} ELSE {})

\* While a sequence number is in flight the retransmission timer is armed, so
\* the loss of the last packet in flight never goes unnoticed.
InFlightIsTimed ==
    \A e \in Endpoints :
        LET t == tcb[e]
        IN  t.state # "CLOSED" /\ t.snd_nxt > t.snd_una => t.rto

\* slist describes the send buffer: its segments are contiguous, start at the
\* oldest unacknowledged byte and cover everything buffered, so that transmit()
\* reads the bytes its sequence number promises.
SlistCoversSbuf ==
    \A e \in Endpoints :
        LET t == tcb[e]
            data == SelectSeq(t.slist, LAMBDA s : s.len > 0)
        IN  /\ SlistLen(t.slist) = Len(t.sbuf)
            /\ data # <<>> => data[1].seq = t.snd_una
            /\ \A i \in 1..Len(data) - 1 : data[i + 1].seq = data[i].seq + data[i].len

\* The window e advertises never exceeds the space in its buffer, so what an
\* obedient peer sends is never cut off on arrival; and it does not wrap below
\* zero as long as the peer respects it, that is until the peer flushes its
\* buffer with a FIN or an RST.
WindowsAgree ==
    \A e \in Endpoints :
        /\ tcb[e].rcv_wnd <= Rbuf(tcb[e])!Remaining(tcb[e])
        /\ tcb[e].rcv_wnd < 0 => HasSentFin(tcb[Peer(e)].state)

\* The sender's books agree with each other and with the receiver's, at every
\* step of a transfer with faults: what is in flight is timed, the list of
\* segments describes the buffer, and the window offered fits the space.
BooksAgree == InFlightIsTimed /\ SlistCoversSbuf /\ WindowsAgree

\* A close that both sides have agreed on is a complete transfer: once our FIN
\* is acknowledged (FIN_WAIT_2, TIME_WAIT) the peer has every byte that was
\* written before it, and the FIN, unless the peer counted the FIN on a segment
\* it did not take in full (FinUnbacked).  Without FIN-ACK a graceful shutdown closes
\* an open socket only once all its data has been acknowledged
\* (pseudo_tcp_socket_get_next_clock).
CloseMeansDelivered ==
    \A e \in Endpoints :
        LET t == tcb[e]
        IN  /\ t.state \in {"FIN_WAIT_2", "TIME_WAIT"} /\ ~finUnbacked[Peer(e)] =>
                    tcb[Peer(e)].rcv_nxt = sent[e] + 2
            /\ t.opened > 0 /\ t.shutdown = "SD_GRACEFUL" /\ t.state = "CLOSED" /\ t.error = ""
                    => t.sbuf = <<>>

\* What the comment on received_fin says: it "is set when, and only when, all
\* segments preceding the FIN have been acknowledged".  A socket that has counted
\* the peer's FIN has counted all of the peer's data: the connect message, the
\* data and the FIN take up sent + 2 sequence numbers.
FinInSequence ==
    \A e \in Endpoints :
        tcb[e].state \in {"CLOSE_WAIT", "CLOSING", "LAST_ACK", "TIME_WAIT"} =>
            tcb[e].rcv_nxt = sent[Peer(e)] + 2

\* A transfer never stalls: what a user has written is eventually read by the
\* other one, or a socket closes.  (Where the clocks run without bound.)
NeverStalls ==
    \A e \in Endpoints :
        Endless /\ sent[e] > 0 ~>
            \/ Len(rcvd[Peer(e)]) = sent[e]
            \/ \E x \in Endpoints : tcb[x].state = "CLOSED"
=============================================================================
