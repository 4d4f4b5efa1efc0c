-------------------------- MODULE PseudoTcpSocket --------------------------
(***************************************************************************)
(* A pseudo-TCP socket (libnice/agent/pseudotcp.c): the C functions of the *)
(* socket as operators from the record of its PseudoTcpSocketPrivate to    *)
(* the record they leave, applied in the order of the code.                *)
(*                                                                         *)
(* Abstractions.  A byte is the number of its place in the stream its      *)
(* sender writes, so the byte with sequence number s is s; the connect     *)
(* message is one byte, at sequence number 0.  The values of the timers,   *)
(* of timestamps and of the congestion window are not kept: a timer that   *)
(* is armed may fire at any time, and cwnd is any of a set of values each  *)
(* time a handler runs.  Sequence numbers are unwrapped; SeqSpace stands  *)
(* for 2^32 where the code's comparisons are not modular (see Wire).       *)
(***************************************************************************)
EXTENDS Integers, Sequences, FiniteSetsExt, Functions

CONSTANTS MssLevels,         \* maximum segment sizes, largest first
          SeqSpace,          \* 2^32
          XmitLimit,         \* transmissions of a segment when ESTABLISHED
          XmitLimitOther     \* ... and in the other states

ASSUME SocketAssumption ==
    /\ SeqSpace \in Nat \ {0}
    /\ Len(MssLevels) > 0
    /\ XmitLimit \in Nat \ {0} /\ XmitLimitOther \in Nat \ {0}

\* The receive buffer of a socket: its capacity is an option.
Rbuf(t) == INSTANCE PseudoTcpRbuf WITH RcvBuf <- t.rbuf_len

\* The connect message: one byte that says whether the options include FIN-ACK.
ConnectFinAck == -1
ConnectPlain == -2

\* The 32-bit value of a sequence number.
Wire(seq) == seq % SeqSpace

-----------------------------------------------------------------------------
(* States.                                                                 *)

States == {"LISTEN", "SYN_SENT", "SYN_RECEIVED", "ESTABLISHED", "CLOSED",
           "FIN_WAIT_1", "FIN_WAIT_2", "CLOSING", "TIME_WAIT", "CLOSE_WAIT",
           "LAST_ACK"}

HasSentFin(state) ==
    state \in {"CLOSED", "FIN_WAIT_1", "FIN_WAIT_2", "CLOSING", "TIME_WAIT",
               "LAST_ACK"}
HasReceivedFin(state) ==
    state \in {"CLOSED", "CLOSING", "TIME_WAIT", "CLOSE_WAIT", "LAST_ACK"}
HasReceivedFinAck(state) == state \in {"CLOSED", "TIME_WAIT"}

\* The transitions set_state() asserts to be the valid ones.
ValidTransitions ==
    {<<"CLOSED", "SYN_SENT">>, <<"SYN_SENT", "CLOSED">>, <<"CLOSED", "LISTEN">>,
     <<"LISTEN", "CLOSED">>, <<"LISTEN", "SYN_SENT">>,
     <<"LISTEN", "SYN_RECEIVED">>, <<"SYN_SENT", "SYN_RECEIVED">>,
     <<"SYN_RECEIVED", "ESTABLISHED">>, <<"SYN_SENT", "ESTABLISHED">>,
     <<"SYN_RECEIVED", "FIN_WAIT_1">>, <<"ESTABLISHED", "FIN_WAIT_1">>,
     <<"ESTABLISHED", "CLOSE_WAIT">>, <<"FIN_WAIT_1", "FIN_WAIT_2">>,
     <<"FIN_WAIT_1", "CLOSING">>, <<"CLOSE_WAIT", "LAST_ACK">>,
     <<"FIN_WAIT_2", "TIME_WAIT">>, <<"CLOSING", "TIME_WAIT">>,
     <<"LAST_ACK", "CLOSED">>, <<"TIME_WAIT", "CLOSED">>,
     <<"SYN_RECEIVED", "LISTEN">>, <<"FIN_WAIT_1", "TIME_WAIT">>}

\* A failed g_assert: the program aborts, so the socket takes no further step.
Assert_(t, site, holds) == IF holds THEN t ELSE [t EXCEPT !.failed = @ \cup {site}]

SetState(t, new) ==
    Assert_([t EXCEPT !.state = new], "valid transition",
            t.state = new \/ <<t.state, new>> \in ValidTransitions)

\* adjustMTU starts again from the size that fits mtu_advise.
SetStateEstablished(t) ==
    [SetState(t, "ESTABLISHED") EXCEPT !.msslevel = t.mtu_advise,
                                       !.mss = MssLevels[t.mtu_advise],
                                       !.opened = @ + 1]

\* PseudoTcpClosed is called only for an error.
SetStateClosed(t, err) ==
    [SetState(t, "CLOSED") EXCEPT !.error = IF err = "" THEN @ ELSE err]

-----------------------------------------------------------------------------
(* Output: queue(), packet(), transmit(), attempt_send().  t.out collects  *)
(* the packets a handler writes; t.writes is how many packets with data    *)
(* WritePacket still accepts before it answers t.writeResult once.         *)

NewSegment(seq, len, flags) == [seq |-> seq, len |-> len, flags |-> flags, xmit |-> 0]

\* queue(): append to the send buffer and to the list of segments.
Queue(t, data, flags) ==
    LET room == t.sbuf_len - Len(t.sbuf)
        len == Min({Len(data), room})
        last == t.slist[Len(t.slist)]
        merge == Len(t.slist) > 0 /\ last.flags = flags /\ last.xmit = 0
        t1 == Assert_(t, "control message fits", Len(data) <= room \/ flags = "NONE")
    IN  [t1 EXCEPT
            !.slist = IF merge THEN [@ EXCEPT ![Len(t.slist)].len = @ + len]
                      ELSE Append(@, NewSegment(t.snd_una + Len(t.sbuf), len, flags)),
            !.sbuf = @ \o SubSeq(data, 1, len)]

QueueConnect(t) ==
    Queue([t EXCEPT !.snd_wnd = 1],
          <<IF t.support_fin_ack THEN ConnectFinAck ELSE ConnectPlain>>, "CTL")
QueueFin(t) == Queue(t, <<>>, "FIN")
QueueRst(t) == Queue(t, <<>>, "RST")

\* The header's 16-bit window: a wrapped rcv_wnd reads as the largest one.
AdvertisedWindow(t) == IF t.rcv_wnd < 0 THEN t.rbuf_len + t.sbuf_len ELSE t.rcv_wnd

\* packet() once WritePacket has taken the packet.  A packet without data is
\* taken as sent whatever WritePacket answers; a refusal is a loss.
Packet(t, seq, flags, data) ==
    [t EXCEPT !.out = @ \cup {[seq |-> seq, ack |-> t.rcv_nxt, flags |-> flags,
                               wnd |-> AdvertisedWindow(t), data |-> data]},
              !.t_ack = FALSE]

SendAck(t) == Packet(t, t.snd_nxt, "NONE", <<>>)

\* The segments of unsent_slist are those of slist not transmitted yet.
Unsent(t) == {i \in 1..Len(t.slist) : t.slist[i].xmit = 0}

\* The part of segment `s` after its first `n` bytes, as a segment of its own.
Rest(s, n) ==
    IF n < s.len THEN <<[s EXCEPT !.seq = @ + n, !.len = @ - n]>> ELSE <<>>

\* transmit(), after WritePacket has taken `n` bytes of segment `i`.
Transmitted(t, i, n) ==
    LET s == t.slist[i]
        offset == s.seq - t.snd_una
        p == Packet(t, s.seq, s.flags, SubSeq(t.sbuf, offset + 1, offset + n))
        t1 == Assert_(p, "segment data is buffered",
                      n = 0 \/ (offset >= 0 /\ offset + n <= Len(t.sbuf)))
        t2 == Assert_(t1, "first unsent segment",
                      s.xmit > 0 \/ i = Min(Unsent(t)))
    IN  [t2 EXCEPT
            !.slist = SubSeq(@, 1, i - 1)
                      \o <<[s EXCEPT !.len = n, !.xmit = @ + 1]>> \o Rest(s, n)
                      \o SubSeq(@, i + 1, Len(@)),
            !.snd_nxt = IF s.xmit > 0 THEN @
                        ELSE @ + n + (IF n = 0 /\ s.flags = "FIN" THEN 1 ELSE 0),
            !.rto = TRUE]

\* transmit(): t.status is its return value.
Transmit(t, i) ==
    LET s == t.slist[i]
        n == Min({s.len, t.mss})
        limit == IF t.state = "ESTABLISHED" THEN XmitLimit ELSE XmitLimitOther
        smaller == {l \in t.msslevel + 1..Len(MssLevels) : MssLevels[l] < n}
        level == Min(smaller)
        taken == [t EXCEPT !.writes = IF n > 0 THEN @ - 1 ELSE @]
    IN  IF i > Len(t.slist) THEN Assert_(t, "a segment to transmit", FALSE)
        ELSE IF s.xmit >= limit THEN [t EXCEPT !.status = "ETIMEDOUT"]
        ELSE IF s.seq < t.snd_una THEN Assert_(t, "not acknowledged yet", FALSE)
        ELSE IF n = 0 \/ t.writes # 0 THEN Transmitted(taken, i, n)
        ELSE IF t.writeResult = "WR_FAIL" THEN [taken EXCEPT !.status = "ECONNABORTED"]
        ELSE IF smaller = {}
        THEN [taken EXCEPT !.status = "EMSGSIZE", !.msslevel = Len(MssLevels),
                           !.mss = MssLevels[Len(MssLevels)]]
        ELSE Transmitted([taken EXCEPT !.msslevel = level, !.mss = MssLevels[level]],
                         i, MssLevels[level])

\* closedown() goes to CLOSED by way of valid transitions.
CloseNavigation(t) ==
    LET FromEstablished(u) == SetState(u, "FIN_WAIT_1")
        FromFinWait1(u) == SetState(u, "FIN_WAIT_2")
        FromFinWait2(u) == SetState(u, "TIME_WAIT")
    IN  CASE t.state \in {"SYN_RECEIVED", "ESTABLISHED"} ->
                FromFinWait2(FromFinWait1(FromEstablished(t)))
          [] t.state = "FIN_WAIT_1" -> FromFinWait2(FromFinWait1(t))
          [] t.state \in {"FIN_WAIT_2", "CLOSING"} -> FromFinWait2(t)
          [] t.state = "CLOSE_WAIT" -> SetState(t, "LAST_ACK")
          [] OTHER -> t

ClosedownRemote(t, err) ==
    SetStateClosed(CloseNavigation([t EXCEPT !.status = ""]), err)

SendWindow(t) == Min({t.snd_wnd, t.cwnd})

\* How much of the next segment attempt_send() may transmit now.
Available(t) ==
    LET nWindow == SendWindow(t)
        nInFlight == t.snd_nxt - t.snd_una
        nUseable == Max({nWindow - nInFlight, 0})
        buffered == Len(t.sbuf)
        nAvailable == IF buffered < nInFlight THEN 0
                      ELSE Min({buffered - nInFlight, t.mss})
    IN  IF nAvailable <= nUseable THEN nAvailable
        ELSE IF nUseable * 4 < nWindow THEN 0 ELSE nUseable

\* Mutant of Split: the second half keeps the length of the whole.
SplitKeepsLength(t, i, n) ==
    LET s == t.slist[i]
    IN  [t EXCEPT !.slist = SubSeq(@, 1, i - 1)
             \o <<[s EXCEPT !.len = n], NewSegment(s.seq + n, s.len, s.flags)>>
             \o SubSeq(@, i + 1, Len(@))]

\* Break segment `i` in two after its first `n` bytes.
Split(t, i, n) ==
    LET s == t.slist[i]
    IN  [t EXCEPT !.slist = SubSeq(@, 1, i - 1)
             \o <<[s EXCEPT !.len = n], NewSegment(s.seq + n, s.len - n, s.flags)>>
             \o SubSeq(@, i + 1, Len(@))]

\* attempt_send(): one unfolding per turn of its loop.  sfFin and sfRst flush
\* every unsent segment, whatever the windows say.
RECURSIVE AttemptSend(_, _)
AttemptSend(t, sflags) ==
    LET n == Available(t)
        flush == sflags \in {"sfFin", "sfRst"}
        i == Min(Unsent(t))
        t1 == IF t.slist[i].len > n /\ ~flush THEN Split(t, i, n) ELSE t
        t2 == Transmit(t1, i)
    IN  IF t.failed # {} THEN t
        ELSE IF sflags = "sfDuplicateAck" THEN AttemptSend(SendAck(t), "sfNone")
        ELSE IF n = 0 /\ ~flush
        THEN IF sflags = "sfNone" THEN t
             ELSE IF sflags = "sfImmediateAck" \/ t.t_ack THEN SendAck(t)
             ELSE [t EXCEPT !.t_ack = TRUE]
        ELSE IF t.use_nagling /\ ~flush /\ Wire(t.snd_nxt) > Wire(t.snd_una) /\ n < t.mss THEN t
        ELSE IF Unsent(t) = {} THEN t
        ELSE IF t2.status # "" THEN ClosedownRemote(t2, t2.status)
        ELSE AttemptSend(t2, IF flush THEN sflags ELSE "sfNone")

\* closedown() for a local cause: tell the peer with an RST first.
ClosedownLocal(t, err) ==
    LET t1 == [t EXCEPT !.status = ""]
        t2 == IF t.support_fin_ack THEN AttemptSend(QueueRst(t1), "sfRst")
              ELSE [t1 EXCEPT !.shutdown = "SD_FORCEFUL"]
    IN  SetStateClosed(CloseNavigation(t2), err)

-----------------------------------------------------------------------------
(* Input: process().                                                       *)

\* Drop `n` acknowledged bytes from the head of slist.
RECURSIVE FreeAcked(_, _)
FreeAcked(slist, n) ==
    IF n = 0 \/ slist = <<>> THEN slist
    ELSE IF n < Head(slist).len
    THEN <<[Head(slist) EXCEPT !.len = @ - n, !.seq = @ + n]>> \o Tail(slist)
    ELSE FreeAcked(Tail(slist), n - Head(slist).len)

SlistLen(slist) == FoldFunction(LAMBDA s, len : s.len + len, 0, slist)

\* Control data: the connect message of the peer and its options.
ProcessControl(t, seg) ==
    LET t1 == [t EXCEPT !.support_fin_ack = seg.data[1] = ConnectFinAck]
    IN  CASE seg.flags # "CTL" -> t
          [] t.state = "LISTEN" -> QueueConnect(SetState(t1, "SYN_RECEIVED"))
          [] t.state = "SYN_SENT" -> SetStateEstablished(t1)
          [] OTHER -> t1

IsValuableAck(t, seg) == seg.ack > t.snd_una /\ seg.ack <= t.snd_nxt
\* Mutant of IsFinAck: the FIN takes up no sequence number.
IsFinAckEarly(t, seg) ==
    IsValuableAck(t, seg) /\ seg.ack - t.snd_una >= Len(t.sbuf) /\ HasSentFin(t.state)
\* The acknowledgement covers our FIN, which no byte of sbuf stands for.
IsFinAck(t, seg) ==
    IsValuableAck(t, seg) /\ seg.ack - t.snd_una = Len(t.sbuf) + 1 /\ HasSentFin(t.state)

\* Whether rto_base is set after a valuable ack.
RtoAfterAck(t, ack) == ack # t.snd_nxt

\* A valuable ack, up to the update of the congestion window.
ProcessValuableAck(t, seg) ==
    LET nAcked == seg.ack - t.snd_una - (IF IsFinAck(t, seg) THEN 1 ELSE 0)
        left == FreeAcked(t.slist, nAcked)
        t1 == Assert_(t, "acked data is buffered", nAcked <= Len(t.sbuf))
        t2 == Assert_(t1, "acked data is in slist", nAcked <= SlistLen(t.slist))
        t3 == Assert_(t2, "freed segments were sent",
                      \A i \in Unsent(t) : i > Len(t.slist) - Len(left))
        t4 == [t3 EXCEPT !.snd_wnd = seg.wnd, !.snd_una = seg.ack,
                         !.rto = RtoAfterAck(t, seg.ack),
                         !.sbuf = SubSeq(@, nAcked + 1, Len(@)), !.slist = left]
    IN  IF t4.failed # {} THEN t4
        ELSE IF t.dup_acks >= 3 /\ seg.ack < t.recover THEN Transmit(t4, 1)
        ELSE [t4 EXCEPT !.dup_acks = 0]

\* A duplicate ack; the third one retransmits.  sameTs: seg->tsecr is the
\* timestamp last acknowledged.  The count is kept up to 4.
ProcessDuplicateAck(t, seg, sameTs) ==
    LET t1 == [t EXCEPT !.snd_wnd = seg.wnd]
        dups == Min({t.dup_acks + 1, 4})
        t2 == Transmit([t1 EXCEPT !.dup_acks = dups], 1)
    IN  IF seg.data # <<>> THEN t1
        ELSE IF t.snd_una = t.snd_nxt THEN [t1 EXCEPT !.dup_acks = 0]
        ELSE IF t.dup_acks = 2 /\ (t.snd_una >= t.recover \/ sameTs)
        THEN IF t2.status = "" THEN [t2 EXCEPT !.recover = t2.snd_nxt] ELSE t2
        ELSE [t1 EXCEPT !.dup_acks = dups]

ProcessAck(t, seg, sameTs) ==
    IF IsValuableAck(t, seg) THEN ProcessValuableAck(t, seg)
    ELSE IF seg.ack = t.snd_una THEN ProcessDuplicateAck(t, seg, sameTs)
    ELSE t

\* received_fin.  rcv_fin = 0 stands for "no FIN seen", rcv_nxt = 0 for "no
\* connect message seen"; both are 32-bit values.
ReceivedFin(t, seg) ==
    /\ t.support_fin_ack
    /\ Wire(t.rcv_nxt) # 0
    /\ Wire(t.rcv_nxt + Len(seg.data)) = t.rcv_fin

NoteFin(t, seg) ==
    IF t.support_fin_ack /\ seg.flags = "FIN" THEN [t EXCEPT !.rcv_fin = Wire(seg.seq)]
    ELSE t

\* Mutant of FinTransition: FIN_WAIT_2 treats the FIN as ESTABLISHED does.
FinTransitionToCloseWait(t, fin, finAck) ==
    CASE ~t.support_fin_ack -> t
      [] t.state \in {"ESTABLISHED", "FIN_WAIT_2"} /\ fin -> SetState(t, "CLOSE_WAIT")
      [] t.state = "LAST_ACK" /\ finAck -> SetStateClosed(t, "")
      [] t.state = "FIN_WAIT_1" /\ finAck -> SetState(t, "FIN_WAIT_2")
      [] OTHER -> t

\* The transitions on a FIN and on the acknowledgement of ours.
FinTransition(t, fin, finAck) ==
    CASE ~t.support_fin_ack -> t
      [] t.state = "ESTABLISHED" /\ fin -> SetState(t, "CLOSE_WAIT")
      [] t.state = "CLOSING" /\ finAck -> SetState(t, "TIME_WAIT")
      [] t.state = "LAST_ACK" /\ finAck -> SetStateClosed(t, "")
      [] t.state = "FIN_WAIT_1" /\ finAck /\ fin -> SetState(t, "TIME_WAIT")
      [] t.state = "FIN_WAIT_1" /\ finAck /\ ~fin -> SetState(t, "FIN_WAIT_2")
      [] t.state = "FIN_WAIT_1" /\ ~finAck /\ fin -> SetState(t, "CLOSING")
      [] t.state = "FIN_WAIT_2" /\ fin -> SetState(t, "TIME_WAIT")
      [] OTHER -> t

\* If there is room in the send buffer again, tell the user.
NotifyWritable(t) ==
    IF t.bWriteEnable /\ Len(t.sbuf) < (t.sbuf_len + t.rbuf_len) \div 2
    THEN [t EXCEPT !.bWriteEnable = FALSE] ELSE t

AckFlags(t, seg, fin) ==
    CASE seg.seq # t.rcv_nxt -> "sfDuplicateAck"
      [] seg.seq = t.rcv_nxt /\ seg.data # <<>> ->
            IF t.ack_delay THEN "sfDelayedAck" ELSE "sfImmediateAck"
      [] seg.seq = t.rcv_nxt /\ seg.data = <<>> /\ fin -> "sfImmediateAck"
      [] OTHER -> "sfNone"

\* process() from the handling of FIN on.
ProcessTail(t, seg, finAck) ==
    LET t1 == NoteFin(t, seg)
        fin == ReceivedFin(t1, seg)
        t2 == NotifyWritable(FinTransition(t1, fin, finAck))
        ignore == seg.flags = "CTL" \/ (~t.support_fin_ack /\ t.shutdown # "SD_NONE")
        t3 == Rbuf(t)!ReceiveData(t2, seg.seq, seg.data, ignore)
        merged == t3.rcv_nxt > t2.rcv_nxt + Rbuf(t)!KeptLen(t2, seg.seq, Len(seg.data))
        sflags == IF merged THEN "sfImmediateAck" ELSE AckFlags(t2, seg, fin)
        t4 == Assert_(t3, "merged data fits", t3.rlen <= t.rbuf_len)
        t5 == IF fin THEN [t4 EXCEPT !.rcv_nxt = @ + 1] ELSE t4
    IN  AttemptSend(t5, sflags)

Process(t, seg, sameTs) ==
    LET t1 == ProcessControl(t, seg)
        t2 == ProcessAck(t1, seg, sameTs)
        t3 == IF t2.state = "SYN_RECEIVED" /\ seg.flags # "CTL"
              THEN SetStateEstablished(t2) ELSE t2
    IN  IF t.state = "CLOSED" \/ (HasReceivedFinAck(t.state) /\ seg.data # <<>>)
        THEN IF seg.flags = "RST" THEN t ELSE ClosedownLocal(t, "")
        ELSE IF seg.flags = "RST" THEN ClosedownRemote(t, "ECONNRESET")
        ELSE IF t2.failed # {} THEN t2
        ELSE IF t2.status # "" THEN ClosedownLocal(t2, t2.status)
        ELSE ProcessTail(t3, seg, IsFinAck(t1, seg))

-----------------------------------------------------------------------------
(* The public functions.                                                   *)

\* pseudo_tcp_socket_init, and the options a socket is given before it connects:
\* no-delay, ack-delay, support-fin-ack, rcv-buf, snd-buf and the MTU (one of
\* MssLevels).
NewSocket(options) ==
    [state |-> "LISTEN", support_fin_ack |-> options.finAck,
     use_nagling |-> options.nagle, ack_delay |-> options.ackDelay,
     mtu_advise |-> options.mtu,
     rbuf_len |-> options.rcvBuf, sbuf_len |-> options.sndBuf,
     shutdown |-> "SD_NONE", shutdown_reads |-> FALSE, error |-> "", opened |-> 0,
     rcv_nxt |-> 0, rcv_wnd |-> options.rcvBuf,
     rbuf |-> Rbuf([rbuf_len |-> options.rcvBuf])!EmptyRbuf, rlen |-> 0, rlist |-> {},
     rcv_fin |-> 0, t_ack |-> FALSE,
     sbuf |-> <<>>, slist |-> <<>>, snd_una |-> 0, snd_nxt |-> 0, snd_wnd |-> 1,
     bWriteEnable |-> FALSE, rto |-> FALSE, dup_acks |-> 0, recover |-> 0,
     msslevel |-> 1, mss |-> MssLevels[Len(MssLevels)],
     failed |-> {},
     cwnd |-> 0, out |-> {}, writes |-> -1, writeResult |-> "", status |-> ""]

SocketConnect(t) == AttemptSend(QueueConnect(SetState(t, "SYN_SENT")), "sfNone")

\* pseudo_tcp_socket_send: how much it accepts, and what it does with it.
Accepts(t) == IF t.state = "ESTABLISHED" THEN t.sbuf_len - Len(t.sbuf) ELSE 0
SocketSend(t, data) ==
    LET t1 == AttemptSend(Queue(t, data, "NONE"), "sfNone")
    IN  CASE t.state # "ESTABLISHED" -> t
          [] t.state = "ESTABLISHED" /\ Accepts(t) = 0 -> [t EXCEPT !.bWriteEnable = TRUE]
          [] OTHER -> [t1 EXCEPT !.bWriteEnable = @ \/ Len(data) > Accepts(t)]

\* pseudo_tcp_socket_recv: the bytes a read of `len` returns ...
Readable(t) == (t.support_fin_ack /\ ~t.shutdown_reads)
               \/ (~t.support_fin_ack /\ t.state = "ESTABLISHED")
ReadBytes(t, len) ==
    IF Readable(t) THEN [i \in 1..Min({len, t.rlen}) |-> t.rbuf[i - 1]] ELSE <<>>

\* ... and what it does to the window.  available_space - rcv_wnd is unsigned,
\* so a wrapped window counts as a large difference.
SocketRecv(t, len) ==
    LET n == Min({len, t.rlen})
        t1 == Rbuf(t)!ConsumeRead(t, n)
        room == Rbuf(t)!Remaining(t1)
        enough == t1.rcv_wnd < 0
                  \/ room - t1.rcv_wnd >= Min({t.rbuf_len \div 2, t.mss})
        t2 == [t1 EXCEPT !.rcv_wnd = room]
    IN  IF ~Readable(t) \/ len = 0 THEN t
        ELSE IF n = 0 /\ ~HasReceivedFin(t.state) THEN t
        ELSE IF ~enough THEN t1
        ELSE IF t1.rcv_wnd = 0 THEN AttemptSend(t2, "sfImmediateAck") ELSE t2

\* pseudo_tcp_socket_shutdown, `how` being RD, WR or RDWR.
SocketShutdown(t, how) ==
    LET t1 == IF how = "WR" THEN t ELSE [t EXCEPT !.shutdown_reads = TRUE]
        flushed == AttemptSend(QueueFin(t1), "sfFin")
    IN  CASE ~t.support_fin_ack ->
                [t EXCEPT !.shutdown = IF @ = "SD_NONE" THEN "SD_GRACEFUL" ELSE @]
          [] t.support_fin_ack /\ how = "RD" -> t1
          [] t.support_fin_ack /\ how # "RD" /\ t.state \in {"LISTEN", "SYN_SENT"} ->
                SetStateClosed(t1, "")
          [] t.support_fin_ack /\ how # "RD" /\ t.state \in {"SYN_RECEIVED", "ESTABLISHED"} ->
                IF t.rlen > 0 THEN ClosedownLocal(t1, "ECONNABORTED")
                ELSE SetState(flushed, "FIN_WAIT_1")
          [] t.support_fin_ack /\ how # "RD" /\ t.state = "CLOSE_WAIT" ->
                SetState(flushed, "LAST_ACK")
          [] OTHER -> t1

SocketClose(t, force) ==
    IF force /\ t.state # "CLOSED" THEN ClosedownLocal(t, "ECONNABORTED")
    ELSE SocketShutdown(t, "RDWR")

\* pseudo_tcp_socket_notify_clock.  `due` is the set of timers that have
\* expired: "rto", "probe" (and "dead", 15 s without an answer) and "ack".
ClockRetransmit(t, due) ==
    LET t1 == Transmit(t, 1)
    IN  IF ~t.rto \/ "rto" \notin due THEN t
        ELSE IF t1.failed # {} THEN t1
        ELSE IF t1.status # "" THEN [ClosedownLocal(t1, t1.status) EXCEPT !.status = "return"]
        ELSE [t1 EXCEPT !.recover = t1.snd_nxt,
                        !.dup_acks = IF @ >= 3 THEN 0 ELSE @]

\* Mutant of ClockProbe: no probe of a zero window.
ClockProbeSilent(t, due) == t
ClockProbe(t, due) ==
    IF t.status # "" \/ t.failed # {} \/ t.snd_wnd # 0 \/ "probe" \notin due THEN t
    ELSE IF "dead" \in due
    THEN [ClosedownLocal(t, "ECONNABORTED") EXCEPT !.status = "return"]
    ELSE Packet(t, t.snd_nxt - 1, "NONE", <<>>)

ClockAck(t, due) ==
    IF t.status = "" /\ t.failed = {} /\ t.t_ack /\ "ack" \in due THEN SendAck(t) ELSE t

SocketNotifyClock(t, due) ==
    LET t1 == IF t.support_fin_ack /\ t.state = "TIME_WAIT" THEN SetStateClosed(t, "") ELSE t
        t2 == IF t.support_fin_ack /\ t.state = "LAST_ACK"
              THEN AttemptSend(QueueFin(t1), "sfFin") ELSE t1
    IN  IF t.state = "CLOSED" THEN t
        ELSE ClockAck(ClockProbe(ClockRetransmit(t2, due), due), due)

\* pseudo_tcp_socket_get_next_clock: closes a socket that was shut down without
\* FIN-ACK.
ClosesOnNextClock(t) ==
    \/ t.shutdown = "SD_FORCEFUL"
    \/ /\ t.shutdown = "SD_GRACEFUL"
       /\ t.state # "ESTABLISHED" \/ (t.sbuf = <<>> /\ ~t.t_ack)
SocketGetNextClock(t) == IF ClosesOnNextClock(t) THEN ClosedownRemote(t, "") ELSE t
=============================================================================
