--------------------------- MODULE PseudoTcpRecv ---------------------------
(***************************************************************************)
(* The receive side of a pseudo-TCP socket after the connect message, fed  *)
(* by a network that delivers any pieces of the peer's stream: segments    *)
(* may be lost, repeated, reordered, overlap and be cut at any place.      *)
(* Positions in the stream are counted from its first byte.                *)
(***************************************************************************)
EXTENDS PseudoTcpRbuf

CONSTANTS Stream(_),  \* the byte the peer writes at each position
          Starts,     \* where a segment may start
          Lengths,    \* how long it may be
          ReadSizes,  \* sizes of the user's reads
          Mss         \* maximum segment size

ASSUME RecvAssumption ==
    /\ Starts \subseteq Nat /\ Lengths \subseteq Nat
    /\ ReadSizes \subseteq Nat /\ Mss \in Nat \ {0}

VARIABLES r,          \* the receive buffer (see PseudoTcpRbuf)
          pos,        \* how many bytes the user has read
          delivered   \* history: those bytes, a function on 0..pos-1

vars == <<r, pos, delivered>>

Init ==
    /\ r = [rcv_nxt |-> 0, rcv_wnd |-> RcvBuf, rbuf |-> EmptyRbuf, rlen |-> 0,
            rlist |-> {}]
    /\ pos = 0
    /\ delivered = [i \in 0..pos - 1 |-> Stream(i)]

\* A segment of the peer's stream arrives.
Process(seq, len) ==
    /\ r' = ReceiveData(r, seq, [i \in 1..len |-> Stream(seq + i - 1)], FALSE)
    /\ UNCHANGED <<pos, delivered>>

\* The window is opened again once enough of the buffer is free.
Reopened(q) ==
    LET half == RcvBuf \div 2
        enough == IF half < Mss THEN half ELSE Mss
    IN  IF q.rcv_wnd < 0 \/ Remaining(q) - q.rcv_wnd >= enough
        THEN [q EXCEPT !.rcv_wnd = Remaining(q)] ELSE q

\* pseudo_tcp_socket_recv
Recv(len) ==
    LET n == IF len < r.rlen THEN len ELSE r.rlen
    IN  /\ n > 0
        /\ r' = Reopened(ConsumeRead(r, n))
        /\ pos' = pos + n
        /\ delivered' = [i \in 0..pos + n - 1 |->
                            IF i < pos THEN delivered[i] ELSE r.rbuf[i - pos]]

Next ==
    \/ \E seq \in Starts, len \in Lengths : Process(seq, len)
    \/ \E len \in ReadSizes : Recv(len)

Spec == Init /\ [][Next]_vars

-----------------------------------------------------------------------------
\* The types of the receiver's state; in-order data never overruns the buffer
\* (pseudo_tcp_fifo_write_offset() checks, process() relies on it).
TypeOK ==
    /\ r \in [rcv_nxt : Nat, rcv_wnd : Int, rbuf : {r.rbuf}, rlen : 0..RcvBuf,
              rlist : SUBSET Nat]
    /\ DOMAIN r.rbuf = 0..RcvBuf - 1
    /\ pos \in Nat

\* The user reads exactly the peer's stream, however the network cut, repeated
\* and reordered it (process() and pseudo_tcp_socket_recv()).
DeliversStream == delivered = [i \in 0..pos - 1 |-> Stream(i)]

\* Every byte waiting in the buffer is the one its place says: in-order data
\* after what was read, and each range of rlist at its offset in the free part.
BufferHoldsStream ==
    /\ pos = r.rcv_nxt - r.rlen
    /\ \A i \in 0..r.rlen - 1 : r.rbuf[i] = Stream(pos + i)
    /\ \A p \in r.rlist : /\ p > r.rcv_nxt /\ p < r.rcv_nxt + Remaining(r)
                          /\ r.rbuf[p - pos] = Stream(p)

\* The window never promises more than the free part of the buffer, so what
\* an obedient peer sends is never cut off (pseudo_tcp_socket_recv() reopens
\* it, process() takes merged data off it).
WindowFits == r.rcv_wnd <= Remaining(r)

\* Acknowledged bytes are never unlearnt, and neither are buffered ones except
\* by becoming part of the in-order data.
NeverForgets ==
    [][/\ r'.rcv_nxt >= r.rcv_nxt
       /\ \A p \in r.rlist : p \in r'.rlist \/ p < r'.rcv_nxt]_vars

\* The receiver implements the byte stream its user is promised.
BS == INSTANCE ByteStream WITH Capacity <- RcvBuf, arrived <- r.rcv_nxt,
                               read <- pos
ImplementsByteStream == BS!Spec
=============================================================================
