----------------------------- MODULE TcpSocket -----------------------------
(***************************************************************************)
(* A TCP socket and its queue of data that is still to be sent             *)
(* (socket/tcp-bsd.c, socket/socket.c), on which the sockets of            *)
(* ProxySocket and StreamSocket are built.                                 *)
(*                                                                         *)
(* A stream is a sequence of units <<kind, id, k>>; a unit stands for two  *)
(* octets of a TURN frame, for a token of an HTTP reply or for a field of  *)
(* a SOCKS5 or TLS message.  The kernel and the other side of a connection *)
(* are external: `net' holds what the kernel still has to send (out), what *)
(* the other side has read (wire), what it is still to answer (todo) and   *)
(* what has arrived and was not read (inq).                                *)
(***************************************************************************)
EXTENDS Integers, Sequences, FiniteSets, SequencesExt

CONSTANTS
    Scenarios,   \* the settings and the servers to check
    SendBuf,     \* units the kernel buffers for a connection
    RingMin,     \* units of the first receive buffer of http.c (1024 octets)
    StunUnits,   \* units of a STUN header (20 octets)
    MaxRaw       \* units the agent reads from a connection at once

ASSUME StreamAssumption ==
    /\ SendBuf \in Nat \ {0}
    /\ RingMin \in Nat \ {0}
    /\ StunUnits \in Nat \ {0, 1}
    /\ MaxRaw \in Nat \ {0}

VARIABLES sc, sk, net, app

vars == <<sc, sk, net, app>>

Conns == {1, 2}
Listener == 0
Concat(chunks) == FlattenSeq(chunks)
Prefix(u, n) == SubSeq(u, 1, n)
Rest(u, n) == SubSeq(u, n + 1, Len(u))
Least(a, b) == IF a < b THEN a ELSE b
Most(a, b) == IF a > b THEN a ELSE b

-----------------------------------------------------------------------------
(* tcp-bsd.c.  r is a record of the sockets and the connections they use.   *)

\* g_socket_send_message: how many units the kernel takes.
Accepts(r, c, u) ==
    IF r.net[c].st \in {"up", "shut"} THEN Least(Len(u), SendBuf - Len(r.net[c].out)) ELSE 0
Refuses(r, c) == r.net[c].st = "reset"

\* A connection that the other side resets.
Reset(r, c) == [r EXCEPT !.net[c].st = "reset", !.net[c].inq = <<>>, !.net[c].out = <<>>]

\* Mutant: what the kernel took already is queued again.
QueueSendWhole(r, c, u, offset) ==
    IF offset >= Len(u) THEN r
    ELSE [r EXCEPT !.sk.tcp[c].q = Append(@, u), !.sk.tcp[c].source = TRUE]

\* nice_socket_queue_send_with_callback
QueueSend(r, c, u, offset) ==
    IF offset >= Len(u) THEN r
    ELSE [r EXCEPT !.sk.tcp[c].q = Append(@, Rest(u, offset)),
                   !.sk.tcp[c].source = TRUE]

\* socket_send_message: 1 for a message taken, 0 for one that would block.  The
\* error G_IO_ERROR_FAILED counts as if the kernel had no room.
TcpSend(r, c, u, reliable) ==
    LET t == r.sk.tcp[c]
        n == Accepts(r, c, u)
    IN  IF t.error THEN [r |-> r, ret |-> -1]
        ELSE IF t.q # <<>>
        THEN IF reliable THEN [r |-> QueueSend(r, c, u, 0), ret |-> 1]
                         ELSE [r |-> r, ret |-> 0]
        ELSE IF Refuses(r, c) /\ sc.error # "FAILED" THEN [r |-> r, ret |-> -1]
        ELSE [r |-> QueueSend([r EXCEPT !.net[c].out = @ \o Prefix(u, n)], c, u, n),
              ret |-> 1]

\* Messages 1 to n in order, up to the first that is not taken: how many were,
\* and what the call returns.  An error in the middle of a batch that is to be
\* sent reliably is the result of the whole batch.
UntilRefused(One(_, _), r, n, reliable) ==
    LET x == FoldLeft(LAMBDA y, i : IF y.ret <= 0 THEN y
                                    ELSE One(y.r, i) @@ [taken |-> i - 1],
                      [r |-> r, ret |-> 1, taken |-> 0], [i \in 1 .. n |-> i])
        taken == IF x.ret = 1 THEN n ELSE x.taken
    IN  [r |-> x.r, taken |-> taken,
         n |-> IF x.ret = -1 /\ (reliable \/ taken = 0) THEN -1 ELSE taken]

\* The connection is reset before message `cut' of a batch.
Cut(r, c, i, cut) == IF i = cut THEN Reset(r, c) ELSE r

\* socket_send_messages, socket_send_messages_reliable
TcpSendMessages(r, c, batch, reliable, cut) ==
    UntilRefused(LAMBDA x, i : TcpSend(Cut(x, c, i, cut), c, batch[i], reliable),
                 r, Len(batch), reliable)

\* socket_can_send
TcpCanSend(r, c) == r.sk.tcp[c].q = <<>>

\* socket_recv_messages, of one message with room for n units.
TcpRecv(r, c, n) ==
    LET t == r.sk.tcp[c]
        k == r.net[c]
        got == Prefix(k.inq, Least(n, Len(k.inq)))
        Result(x, ret, u) == [r |-> x, ret |-> ret, got |-> u]
    IN  IF t.error THEN Result(r, -1, <<>>)
        ELSE IF k.inq # <<>> /\ n > 0
        THEN Result([r EXCEPT !.net[c].inq = Rest(@, Len(got))], 1, got)
        ELSE IF k.inq # <<>> \/ k.st = "shut"
        THEN Result([r EXCEPT !.sk.tcp[c].error = TRUE], -1, <<>>)
        ELSE Result(r, IF k.st = "reset" THEN -1 ELSE 0, <<>>)

\* nice_socket_flush_send_queue_to_socket
FlushToSocket(r, c) ==
    LET Chunk(x, u) ==
            LET n == Accepts(x, c, u)
            IN  IF x.sk.tcp[c].q # <<>> THEN [x EXCEPT !.sk.tcp[c].q = Append(@, u)]
                ELSE IF Refuses(x, c) THEN x
                ELSE [x EXCEPT !.net[c].out = @ \o Prefix(u, n),
                               !.sk.tcp[c].q = IF n < Len(u) THEN <<Rest(u, n)>> ELSE <<>>]
    IN  FoldLeft(Chunk, [r EXCEPT !.sk.tcp[c].q = <<>>], r.sk.tcp[c].q)

NoTcp == [open |-> FALSE, error |-> FALSE, q |-> <<>>, source |-> FALSE, parent |-> FALSE]

\* nice_tcp_bsd_socket_new_from_gsock
NewTcp(parent) == [NoTcp EXCEPT !.open = TRUE, !.parent = parent]

\* nice_tcp_bsd_socket_new: the connection is up at once or still pending.
TcpNew(r, c, st) == [r EXCEPT !.sk.tcp[c] = NewTcp(FALSE), !.net[c].st = st]

\* Mutant: the parent keeps the entry of a connection that is closed.
TcpCloseKeepsEntry(r, c) ==
    [r EXCEPT !.sk.tcp[c] = NoTcp, !.net[c].st = "closed"]

\* socket_close; the entry of an accepted connection leaves its parent's table,
\* which is dangling when the parent was freed before.
TcpClose(r, c) ==
    [r EXCEPT !.sk.tcp[c] = NoTcp,
              !.sk.table = IF r.sk.tcp[c].parent
                           THEN [@ EXCEPT ![sc.address[c]] = 0] ELSE @,
              !.sk.dangling = @ \/ (r.sk.tcp[c].parent /\ ~r.sk.listening),
              !.net[c].st = "closed"]
=============================================================================
