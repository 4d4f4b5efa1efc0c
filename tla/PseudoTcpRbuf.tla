--------------------------- MODULE PseudoTcpRbuf ---------------------------
(***************************************************************************)
(* The receive buffer of a pseudo-TCP socket and the reassembly of         *)
(* segments into it: the last third of process() and the read half of      *)
(* pseudo_tcp_socket_recv() (libnice/agent/pseudotcp.c).                   *)
(*                                                                         *)
(* The operators act on any record with the fields                         *)
(*   rcv_nxt   next sequence number expected in order                      *)
(*   rcv_wnd   the window last computed for the peer (below zero where the *)
(*             code's guint32 has wrapped)                                 *)
(*   rbuf      contents of the ring buffer, read position first            *)
(*   rlen      how many of them are in-order data (data_length)            *)
(*   rlist     the sequence numbers buffered out of order                  *)
(*                                                                         *)
(* rlist is in the code a list of (seq, len) intervals sorted by seq; what *)
(* a merge recovers, and what it leaves, depends only on their union.      *)
(* Sequence numbers are unwrapped: naturals instead of their remainders    *)
(* modulo 2^32.                                                            *)
(***************************************************************************)
EXTENDS Integers, Sequences

CONSTANT RcvBuf   \* rbuf_len, the capacity of the receive buffer

ASSUME RcvBufAssumption == RcvBuf \in Nat \ {0}

\* A ring buffer cell that holds nothing the peer sent.
Junk == 0

EmptyRbuf == [i \in 0..RcvBuf - 1 |-> Junk]

\* pseudo_tcp_fifo_get_write_remaining
Remaining(r) == RcvBuf - r.rlen

\* pseudo_tcp_fifo_write_offset: `n` bytes of `data`, from index `from` on,
\* written `offset` bytes after the in-order data.
WriteOffset(r, data, from, n, offset) ==
    [i \in 0..RcvBuf - 1 |->
        IF i >= r.rlen + offset /\ i < r.rlen + offset + n
        THEN data[from + 1 + i - (r.rlen + offset)]
        ELSE r.rbuf[i]]

\* pseudo_tcp_fifo_read: drop the first `n` bytes of the in-order data.
ConsumeRead(r, n) ==
    [r EXCEPT !.rbuf = [i \in 0..RcvBuf - 1 |->
                            IF i + n < RcvBuf THEN r.rbuf[i + n] ELSE Junk],
              !.rlen = r.rlen - n]

\* Where the in-order data ends once it has reached `nxt`: the first sequence
\* number from there on that is not buffered out of order.
MergeReach(rlist, nxt) ==
    CHOOSE m \in nxt..nxt + RcvBuf : m \notin rlist /\ nxt..m - 1 \subseteq rlist

\* What is left of a segment after its old prefix is cut off, ...
TrimLeft(r, seq) == IF seq < r.rcv_nxt THEN r.rcv_nxt - seq ELSE 0

\* ... and after the suffix that does not fit into the buffer is cut off.
KeptLen(r, seq, len) ==
    LET adjust == TrimLeft(r, seq)
        len1 == IF adjust < len THEN len - adjust ELSE 0
        end == seq + adjust + len1 - r.rcv_nxt
    IN  IF end <= Remaining(r) THEN len1
        ELSE IF end - Remaining(r) < len1 THEN len1 - (end - Remaining(r)) ELSE 0

\* Mutant of AcceptInOrder: the window ignores the bytes a merge recovers.
AcceptInOrderWindow(r, data, from, n) ==
    LET reach == MergeReach(r.rlist, r.rcv_nxt + n)
    IN  [r EXCEPT !.rbuf = WriteOffset(r, data, from, n, 0),
                  !.rlen = @ + (reach - r.rcv_nxt),
                  !.rcv_nxt = reach,
                  !.rcv_wnd = @ - n,
                  !.rlist = {p \in @ : p > reach}]

\* Mutant of AcceptInOrder: a merge drops all that is buffered out of order.
AcceptInOrderDropsAll(r, data, from, n) ==
    LET reach == MergeReach(r.rlist, r.rcv_nxt + n)
    IN  [r EXCEPT !.rbuf = WriteOffset(r, data, from, n, 0),
                  !.rlen = @ + (reach - r.rcv_nxt),
                  !.rcv_nxt = reach,
                  !.rcv_wnd = @ - (reach - r.rcv_nxt),
                  !.rlist = {}]

\* Data that starts exactly at rcv_nxt is in order, and may close a gap.
AcceptInOrder(r, data, from, n) ==
    LET reach == MergeReach(r.rlist, r.rcv_nxt + n)
    IN  [r EXCEPT !.rbuf = WriteOffset(r, data, from, n, 0),
                  !.rlen = @ + (reach - r.rcv_nxt),
                  !.rcv_nxt = reach,
                  !.rcv_wnd = @ - (reach - r.rcv_nxt),
                  !.rlist = {p \in @ : p > reach}]

\* Mutant of SaveOutOfOrder: the data is written without its offset.
SaveOutOfOrderAtHead(r, data, from, n, seq) ==
    [r EXCEPT !.rbuf = WriteOffset(r, data, from, n, 0),
              !.rlist = @ \cup seq..seq + n - 1]

\* Data beyond rcv_nxt is kept in the free part of the buffer.
SaveOutOfOrder(r, data, from, n, seq) ==
    [r EXCEPT !.rbuf = WriteOffset(r, data, from, n, seq - r.rcv_nxt),
              !.rlist = @ \cup seq..seq + n - 1]

\* Mutant of ReceiveData: the data pointer does not skip the old prefix.
ReceiveDataUnshifted(r, seq, data, ignore) ==
    LET first == seq + TrimLeft(r, seq)
        n == KeptLen(r, seq, Len(data))
    IN  IF n = 0 THEN r
        ELSE IF ignore
        THEN IF first = r.rcv_nxt THEN [r EXCEPT !.rcv_nxt = @ + n] ELSE r
        ELSE IF first = r.rcv_nxt THEN AcceptInOrder(r, data, 0, n)
             ELSE SaveOutOfOrder(r, data, 0, n, first)

\* process(), from the adjustment of the segment to the end of reassembly.
\* Control data (and data after a shutdown without FIN-ACK) is only counted.
ReceiveData(r, seq, data, ignore) ==
    LET adjust == TrimLeft(r, seq)
        n == KeptLen(r, seq, Len(data))
        first == seq + adjust
    IN  IF n = 0 THEN r
        ELSE IF ignore
        THEN IF first = r.rcv_nxt THEN [r EXCEPT !.rcv_nxt = @ + n] ELSE r
        ELSE IF first = r.rcv_nxt THEN AcceptInOrder(r, data, adjust, n)
             ELSE SaveOutOfOrder(r, data, adjust, n, first)
=============================================================================
