------------------------ MODULE PseudoTcpRecvProofs ------------------------
(***************************************************************************)
(* Reassembly is correct for every size of the receive buffer, every       *)
(* stream and every way a network cuts it up: the theorems of              *)
(* PseudoTcpRecv, from the inductive invariant RecvInv.                    *)
(***************************************************************************)
EXTENDS PseudoTcpRecv, TLAPS, NaturalsInduction, WellFoundedInduction

\* A non-empty set of natural numbers has a least element.
LEMMA LeastElement ==
    ASSUME NEW T, T \subseteq Nat, T # {}
    PROVE  \E x \in T : \A y \in T : x <= y
<1>1. PICK m \in T : \A k \in T : <<k, m>> \notin OpToRel(<, Nat)
    BY NatLessThanWellFounded, WFMin, Zenon
<1>2. \A k \in T : ~(k < m)
    BY <1>1, Zenon DEF OpToRel
<1> QED BY <1>2

\* A merge ends within the buffer at the first position that is not buffered.
LEMMA MergeReachExact ==
    ASSUME NEW rlist, rlist \subseteq Nat, NEW nxt \in Nat, NEW top \in Nat,
           nxt <= top, top <= nxt + RcvBuf,
           \A p \in rlist : p < top
    PROVE  /\ MergeReach(rlist, nxt) \in Nat
           /\ MergeReach(rlist, nxt) >= nxt /\ MergeReach(rlist, nxt) <= top
           /\ MergeReach(rlist, nxt) \notin rlist
           /\ \A p \in nxt..MergeReach(rlist, nxt) - 1 : p \in rlist
<1> USE RcvBufAssumption
<1> DEFINE T == {m \in Nat : m >= nxt /\ m \notin rlist}
<1>1. top \in T
    OBVIOUS
<1>2. PICK x \in T : \A y \in T : x <= y
    BY <1>1, LeastElement
<1>3. x \in nxt..nxt + RcvBuf /\ x <= top
    BY <1>1, <1>2
<1>4. x \notin rlist /\ nxt..x - 1 \subseteq rlist
    BY <1>2
<1> DEFINE m == MergeReach(rlist, nxt)
<1>5. m \in nxt..nxt + RcvBuf /\ m \notin rlist /\ nxt..m - 1 \subseteq rlist
    BY <1>3, <1>4 DEF MergeReach
<1>6. m <= top
    <2>1. m \in Nat
        BY <1>5
    <2>2. CASE m > top
        <3>1. top \in nxt..m - 1
            BY <1>5, <2>1, <2>2
        <3> QED BY <3>1, <1>5
    <2> QED BY <2>1, <2>2
<1> QED BY <1>5, <1>6

-----------------------------------------------------------------------------
\* The inductive invariant.
RecvInv == TypeOK /\ BufferHoldsStream /\ DeliversStream /\ WindowFits

\* What is kept of a segment is part of it, not old, and fits the buffer.
LEMMA KeptLenFits ==
    ASSUME RecvInv, NEW seq \in Nat, NEW len \in Nat
    PROVE  /\ TrimLeft(r, seq) \in Nat /\ KeptLen(r, seq, len) \in Nat
           /\ KeptLen(r, seq, len) > 0 =>
                /\ TrimLeft(r, seq) + KeptLen(r, seq, len) <= len
                /\ seq + TrimLeft(r, seq) >= r.rcv_nxt
                /\ seq + TrimLeft(r, seq) + KeptLen(r, seq, len)
                       <= r.rcv_nxt + Remaining(r)
<1>1. /\ r.rcv_nxt \in Nat /\ r.rlen \in Nat /\ r.rlen <= RcvBuf /\ RcvBuf \in Nat
      /\ Remaining(r) = RcvBuf - r.rlen
    BY RcvBufAssumption DEF RecvInv, TypeOK, Remaining
<1>2. Remaining(r) \in Nat
    BY <1>1
<1> QED BY <1>1, <1>2 DEF TrimLeft, KeptLen

\* The invariant, spelled out for a given value of the variables.
InvOf(nxt, wnd, buf, n, list, read) ==
    /\ nxt \in Nat /\ wnd \in Int /\ n \in Nat /\ n <= RcvBuf /\ read \in Nat
    /\ DOMAIN buf = 0..RcvBuf - 1 /\ list \subseteq Nat
    /\ read = nxt - n
    /\ \A i \in 0..n - 1 : buf[i] = Stream(read + i)
    /\ \A p \in list : p > nxt /\ p < nxt + RcvBuf - n /\ buf[p - read] = Stream(p)
    /\ wnd <= RcvBuf - n

\* RecvInv is that condition on the receiver's state.
LEMMA InvSpelledOut ==
    ASSUME RecvInv
    PROVE  InvOf(r.rcv_nxt, r.rcv_wnd, r.rbuf, r.rlen, r.rlist, pos)
BY RcvBufAssumption
   DEF RecvInv, InvOf, TypeOK, BufferHoldsStream, WindowFits, Remaining

\* The buffer after `n` bytes written behind the in-order data, all positions
\* before `reach` being filled: they become in-order data.
LEMMA MergeKeepsInv ==
    ASSUME NEW nxt, NEW wnd, NEW buf, NEW len, NEW list, NEW read,
           InvOf(nxt, wnd, buf, len, list, read),
           NEW n \in Nat, NEW reach \in Nat, NEW buf2, NEW list2,
           reach >= nxt + n, reach <= nxt + RcvBuf - len,
           \A p \in (nxt + n)..reach - 1 : p \in list,
           DOMAIN buf2 = 0..RcvBuf - 1,
           \A i \in 0..n - 1 : buf2[len + i] = Stream(nxt + i),
           \A i \in 0..RcvBuf - 1 : i < len \/ i >= len + n => buf2[i] = buf[i],
           list2 = {p \in list : p > reach}
    PROVE  InvOf(reach, wnd - (reach - nxt), buf2, len + (reach - nxt), list2, read)
<1> USE RcvBufAssumption
<1>1. /\ nxt \in Nat /\ wnd \in Int /\ len \in Nat /\ len <= RcvBuf /\ read \in Nat
      /\ list \subseteq Nat /\ read = nxt - len /\ wnd <= RcvBuf - len
      /\ \A i \in 0..len - 1 : buf[i] = Stream(read + i)
      /\ \A p \in list : p > nxt /\ p < nxt + RcvBuf - len /\ buf[p - read] = Stream(p)
    BY DEF InvOf
<1>2. ASSUME NEW i \in 0..len + (reach - nxt) - 1
      PROVE  buf2[i] = Stream(read + i)
    <2>1. i \in 0..RcvBuf - 1
        BY <1>1, <1>2
    <2>2. CASE i < len
        <3>1. buf2[i] = buf[i]
            BY <2>1, <2>2
        <3>2. i \in 0..len - 1
            BY <1>1, <2>1, <2>2
        <3> QED BY <1>1, <3>1, <3>2
    <2>3. CASE i >= len /\ i < len + n
        <3>1. i - len \in 0..n - 1 /\ len + (i - len) = i /\ nxt + (i - len) = read + i
            BY <1>1, <2>3
        <3> QED BY <3>1
    <2>4. CASE i >= len + n
        <3>1. /\ read + i \in (nxt + n)..reach - 1 /\ (read + i) - read = i
              /\ buf2[i] = buf[i]
            BY <1>1, <2>1, <2>4
        <3>2. read + i \in list
            BY <3>1
        <3> QED BY <1>1, <3>1, <3>2
    <2> QED BY <1>1, <2>2, <2>3, <2>4
<1>3. ASSUME NEW p \in list2
      PROVE  /\ p > reach /\ p < reach + RcvBuf - (len + (reach - nxt))
             /\ buf2[p - read] = Stream(p)
    <2>1. p \in Nat /\ p > reach /\ p < nxt + RcvBuf - len /\ buf[p - read] = Stream(p)
        BY <1>1
    <2>2. p - read \in 0..RcvBuf - 1 /\ p - read >= len + n
        BY <1>1, <2>1
    <2>3. buf2[p - read] = buf[p - read]
        BY <2>2
    <2> QED BY <1>1, <2>1, <2>3
<1>4. list2 \subseteq Nat
    BY <1>1
<1>5. /\ wnd - (reach - nxt) \in Int /\ len + (reach - nxt) \in Nat
      /\ len + (reach - nxt) <= RcvBuf /\ read = reach - (len + (reach - nxt))
      /\ wnd - (reach - nxt) <= RcvBuf - (len + (reach - nxt))
    BY <1>1
<1> QED BY <1>1, <1>2, <1>3, <1>4, <1>5 DEF InvOf

\* The same for data written further on, into the free part of the buffer.
LEMMA SaveKeepsInv ==
    ASSUME NEW nxt, NEW wnd, NEW buf, NEW len, NEW list, NEW read,
           InvOf(nxt, wnd, buf, len, list, read),
           NEW n \in Nat, NEW first \in Nat, NEW buf2, NEW list2,
           first > nxt, first + n <= nxt + RcvBuf - len,
           DOMAIN buf2 = 0..RcvBuf - 1,
           \A i \in 0..n - 1 : buf2[len + (first - nxt) + i] = Stream(first + i),
           \A i \in 0..RcvBuf - 1 :
               i < len + (first - nxt) \/ i >= len + (first - nxt) + n => buf2[i] = buf[i],
           list2 = list \cup first..first + n - 1
    PROVE  InvOf(nxt, wnd, buf2, len, list2, read)
<1> USE RcvBufAssumption
<1>1. /\ nxt \in Nat /\ wnd \in Int /\ len \in Nat /\ len <= RcvBuf /\ read \in Nat
      /\ list \subseteq Nat /\ read = nxt - len /\ wnd <= RcvBuf - len
      /\ \A i \in 0..len - 1 : buf[i] = Stream(read + i)
      /\ \A p \in list : p > nxt /\ p < nxt + RcvBuf - len /\ buf[p - read] = Stream(p)
    BY DEF InvOf
<1>2. ASSUME NEW i \in 0..len - 1
      PROVE  buf2[i] = Stream(read + i)
    <2>1. i \in 0..RcvBuf - 1 /\ i < len + (first - nxt)
        BY <1>1
    <2>2. buf2[i] = buf[i]
        BY <2>1
    <2> QED BY <1>1, <2>2
<1>3. ASSUME NEW p \in list2
      PROVE  p > nxt /\ p < nxt + RcvBuf - len /\ buf2[p - read] = Stream(p)
    <2>1. CASE p \in first..first + n - 1
        <3>1. /\ p - first \in 0..n - 1 /\ first + (p - first) = p
              /\ len + (first - nxt) + (p - first) = p - read
            BY <1>1, <2>1
        <3>2. buf2[p - read] = Stream(p)
            BY <3>1
        <3> QED BY <1>1, <2>1, <3>2
    <2>2. CASE p \notin first..first + n - 1
        <3>1. p \in list
            BY <2>2
        <3>2. p \in Nat /\ p > nxt /\ p < nxt + RcvBuf - len /\ buf[p - read] = Stream(p)
            BY <1>1, <3>1
        <3>3. /\ p - read \in 0..RcvBuf - 1
              /\ p - read < len + (first - nxt) \/ p - read >= len + (first - nxt) + n
            BY <1>1, <2>2, <3>2
        <3>4. buf2[p - read] = buf[p - read]
            BY <3>3
        <3> QED BY <3>2, <3>4
    <2> QED BY <2>1, <2>2
<1>4. list2 \subseteq Nat
    BY <1>1
<1> QED BY <1>1, <1>2, <1>3, <1>4 DEF InvOf

\* The bytes of a segment of the peer's stream.
Segment(seq, len) == [i \in 1..len |-> Stream(seq + i - 1)]

\* `buf` is `old` with `n` bytes of `data`, from index `from`, put at `base`, ...
PutAt(buf, old, base, n, data, from) ==
    /\ DOMAIN buf = 0..RcvBuf - 1
    /\ \A i \in 0..RcvBuf - 1 :
         buf[i] = IF i >= base /\ i < base + n THEN data[from + 1 + i - base]
                                               ELSE old[i]

\* ... or, if they are the peer's, with the stream from `first` on.
HoldsFrom(buf, old, base, n, first) ==
    /\ DOMAIN buf = 0..RcvBuf - 1
    /\ \A i \in 0..n - 1 : buf[base + i] = Stream(first + i)
    /\ \A i \in 0..RcvBuf - 1 : i < base \/ i >= base + n => buf[i] = old[i]

\* A part of a segment put somewhere is a part of the stream.
LEMMA PutPartOfStream ==
    ASSUME NEW seq \in Nat, NEW len \in Nat, NEW from \in Nat, NEW n \in Nat,
           from + n <= len, NEW base \in Nat, base + n <= RcvBuf, NEW old,
           NEW buf, PutAt(buf, old, base, n, Segment(seq, len), from)
    PROVE  HoldsFrom(buf, old, base, n, seq + from)
<1> USE RcvBufAssumption
<1>1. ASSUME NEW i \in 0..n - 1
      PROVE  buf[base + i] = Stream(seq + from + i)
    <2>1. base + i \in 0..RcvBuf - 1 /\ base + i >= base /\ base + i < base + n
        OBVIOUS
    <2>2. from + 1 + (base + i) - base = from + 1 + i
        OBVIOUS
    <2>3. from + 1 + i \in 1..len /\ seq + (from + 1 + i) - 1 = seq + from + i
        OBVIOUS
    <2> QED BY <2>1, <2>2, <2>3 DEF Segment, PutAt
<1>2. ASSUME NEW i \in 0..RcvBuf - 1, i < base \/ i >= base + n
      PROVE  buf[i] = old[i]
    <2>1. ~(i >= base /\ i < base + n)
        BY <1>2
    <2> QED BY <2>1 DEF PutAt
<1> QED BY <1>1, <1>2 DEF HoldsFrom, PutAt

\* WriteOffset puts data `offset` bytes after the in-order data.
LEMMA WriteOffsetPuts ==
    ASSUME NEW q, NEW data, NEW from, NEW n, NEW offset,
           NEW base, base = q.rlen + offset
    PROVE  PutAt(WriteOffset(q, data, from, n, offset), q.rbuf, base, n, data, from)
BY Zenon DEF WriteOffset, PutAt

\* The invariant holds after a step whose values satisfy it.
LEMMA InvAfter ==
    ASSUME r' \in [rcv_nxt : Nat, rcv_wnd : Int, rbuf : {r'.rbuf}, rlen : 0..RcvBuf,
                   rlist : SUBSET Nat],
           InvOf(r'.rcv_nxt, r'.rcv_wnd, r'.rbuf, r'.rlen, r'.rlist, pos'),
           DeliversStream'
    PROVE  RecvInv'
BY RcvBufAssumption
   DEF RecvInv, InvOf, TypeOK, BufferHoldsStream, WindowFits, Remaining

\* A step of process() that leaves the receive buffer as it is.
LEMMA UnchangedInv ==
    ASSUME RecvInv, UNCHANGED vars
    PROVE  RecvInv'
BY DEF RecvInv, vars, TypeOK, BufferHoldsStream, DeliversStream, WindowFits, Remaining

\* What a step may not forget.
ForgetsNothing ==
    /\ r'.rcv_nxt >= r.rcv_nxt
    /\ \A p \in r.rlist : p \in r'.rlist \/ p < r'.rcv_nxt

\* In-order data keeps the invariant, and forgets nothing.
LEMMA AcceptInOrderInv ==
    ASSUME RecvInv, NEW seq \in Nat, NEW len \in Nat,
           NEW n \in Nat, NEW from \in Nat, from + n <= len,
           seq + from = r.rcv_nxt, n <= Remaining(r)
    PROVE  /\ r' = AcceptInOrder(r, Segment(seq, len), from, n)
           /\ UNCHANGED <<pos, delivered>>
           => RecvInv' /\ ForgetsNothing
<1> USE RcvBufAssumption
<1>1. /\ r \in [rcv_nxt : Nat, rcv_wnd : Int, rbuf : {r.rbuf}, rlen : 0..RcvBuf,
                rlist : SUBSET Nat]
      /\ Remaining(r) = RcvBuf - r.rlen
      /\ \A p \in r.rlist : p < r.rcv_nxt + RcvBuf - r.rlen
    BY SMTT(30), Z3T(30) DEF RecvInv, TypeOK, BufferHoldsStream, Remaining
<1>2. InvOf(r.rcv_nxt, r.rcv_wnd, r.rbuf, r.rlen, r.rlist, pos)
    BY InvSpelledOut
<1>3. PICK reach : reach = MergeReach(r.rlist, r.rcv_nxt + n)
    OBVIOUS
<1>4. /\ reach \in Nat /\ reach >= r.rcv_nxt + n
      /\ reach <= r.rcv_nxt + RcvBuf - r.rlen /\ reach \notin r.rlist
      /\ \A p \in (r.rcv_nxt + n)..reach - 1 : p \in r.rlist
    <2>1. PICK nxt, top : nxt = r.rcv_nxt + n /\ top = r.rcv_nxt + RcvBuf - r.rlen
        OBVIOUS
    <2>2. PICK list : list = r.rlist
        OBVIOUS
    <2>3. /\ list \subseteq Nat /\ nxt \in Nat /\ top \in Nat
          /\ nxt <= top /\ top <= nxt + RcvBuf /\ \A p \in list : p < top
        BY <1>1, <2>1, <2>2
    <2>4. /\ MergeReach(list, nxt) \in Nat
          /\ MergeReach(list, nxt) >= nxt /\ MergeReach(list, nxt) <= top
          /\ MergeReach(list, nxt) \notin list
          /\ \A p \in nxt..MergeReach(list, nxt) - 1 : p \in list
        BY <2>3, MergeReachExact
    <2> QED BY <2>1, <2>2, <2>4, <1>3
<1>5. PICK buf2 : buf2 = WriteOffset(r, Segment(seq, len), from, n, 0)
    OBVIOUS
<1>6. HoldsFrom(buf2, r.rbuf, r.rlen, n, seq + from)
    <2>1. r.rlen \in Nat /\ r.rlen = r.rlen + 0 /\ r.rlen + n <= RcvBuf
        BY <1>1
    <2>2. PutAt(buf2, r.rbuf, r.rlen, n, Segment(seq, len), from)
        BY <1>5, <2>1, WriteOffsetPuts
    <2> QED BY <2>1, <2>2, PutPartOfStream
<1>7. /\ DOMAIN buf2 = 0..RcvBuf - 1
      /\ \A i \in 0..n - 1 : buf2[r.rlen + i] = Stream(r.rcv_nxt + i)
      /\ \A i \in 0..RcvBuf - 1 :
            i < r.rlen \/ i >= r.rlen + n => buf2[i] = r.rbuf[i]
    BY <1>6, Zenon DEF HoldsFrom
<1>8. InvOf(reach, r.rcv_wnd - (reach - r.rcv_nxt), buf2,
            r.rlen + (reach - r.rcv_nxt), {p \in r.rlist : p > reach}, pos)
    BY <1>2, <1>4, <1>7, MergeKeepsInv
<1>9. /\ reach \in Nat /\ r.rcv_wnd - (reach - r.rcv_nxt) \in Int
       /\ r.rlen + (reach - r.rcv_nxt) \in 0..RcvBuf
    BY <1>1, <1>4
<1>10. {p \in r.rlist : p > reach} \in SUBSET Nat
    BY <1>1
<1>11. SUFFICES ASSUME r' = AcceptInOrder(r, Segment(seq, len), from, n),
                       UNCHANGED <<pos, delivered>>
                PROVE  RecvInv' /\ ForgetsNothing
    OBVIOUS
<1>12. /\ r'.rcv_nxt = reach
       /\ r'.rcv_wnd = r.rcv_wnd - (reach - r.rcv_nxt)
       /\ r'.rbuf = buf2
       /\ r'.rlen = r.rlen + (reach - r.rcv_nxt)
       /\ r'.rlist = {p \in r.rlist : p > reach}
    BY <1>1, <1>3, <1>5, <1>11 DEF AcceptInOrder
<1>13. r' \in [rcv_nxt : Nat, rcv_wnd : Int, rbuf : {r'.rbuf}, rlen : 0..RcvBuf,
               rlist : SUBSET Nat]
    BY <1>1, <1>3, <1>9, <1>10, <1>11, ZenonT(30), SMTT(30) DEF AcceptInOrder
<1>14. RecvInv'
    <2>1. DeliversStream'
        BY <1>11 DEF RecvInv, DeliversStream
    <2>2. pos' = pos
        BY <1>11
    <2>3. InvOf(r'.rcv_nxt, r'.rcv_wnd, r'.rbuf, r'.rlen, r'.rlist, pos')
        BY <1>8, <1>12, <2>2
    <2> QED BY <1>13, <2>1, <2>3, InvAfter
<1>15. ForgetsNothing
    BY <1>1, <1>4, <1>12 DEF ForgetsNothing
<1> QED BY <1>14, <1>15

\* Data saved out of order keeps the invariant, and forgets nothing.
LEMMA SaveOutOfOrderInv ==
    ASSUME RecvInv, NEW seq \in Nat, NEW len \in Nat,
           NEW n \in Nat, NEW from \in Nat, from + n <= len,
           seq + from > r.rcv_nxt, seq + from + n <= r.rcv_nxt + Remaining(r)
    PROVE  /\ r' = SaveOutOfOrder(r, Segment(seq, len), from, n, seq + from)
           /\ UNCHANGED <<pos, delivered>>
           => RecvInv' /\ ForgetsNothing
<1> USE RcvBufAssumption
<1>1. /\ r \in [rcv_nxt : Nat, rcv_wnd : Int, rbuf : {r.rbuf}, rlen : 0..RcvBuf,
                rlist : SUBSET Nat]
      /\ Remaining(r) = RcvBuf - r.rlen
    BY DEF RecvInv, TypeOK, Remaining
<1>2. InvOf(r.rcv_nxt, r.rcv_wnd, r.rbuf, r.rlen, r.rlist, pos)
    BY InvSpelledOut
<1>3. PICK first : first = seq + from
    OBVIOUS
<1>4. PICK base, buf2 : /\ base = r.rlen + (first - r.rcv_nxt)
                        /\ buf2 = WriteOffset(r, Segment(seq, len), from, n,
                                              first - r.rcv_nxt)
    OBVIOUS
<1>5. /\ first \in Nat /\ first > r.rcv_nxt /\ first + n <= r.rcv_nxt + RcvBuf - r.rlen
      /\ base \in Nat /\ base + n <= RcvBuf
    BY <1>1, <1>3, <1>4
<1>6. HoldsFrom(buf2, r.rbuf, base, n, first)
    <2>1. PutAt(buf2, r.rbuf, base, n, Segment(seq, len), from)
        BY <1>4, WriteOffsetPuts
    <2> QED BY <1>3, <1>5, <2>1, PutPartOfStream
<1>7. /\ DOMAIN buf2 = 0..RcvBuf - 1
      /\ \A i \in 0..n - 1 : buf2[r.rlen + (first - r.rcv_nxt) + i] = Stream(first + i)
      /\ \A i \in 0..RcvBuf - 1 :
            i < r.rlen + (first - r.rcv_nxt) \/ i >= r.rlen + (first - r.rcv_nxt) + n
            => buf2[i] = r.rbuf[i]
    BY <1>4, <1>6, Zenon DEF HoldsFrom
<1>8. InvOf(r.rcv_nxt, r.rcv_wnd, buf2, r.rlen, r.rlist \cup first..first + n - 1, pos)
    BY <1>2, <1>5, <1>7, SaveKeepsInv
<1>9. r.rlist \cup first..first + n - 1 \in SUBSET Nat
    BY <1>1, <1>5
<1>10. SUFFICES ASSUME r' = SaveOutOfOrder(r, Segment(seq, len), from, n, first),
                       UNCHANGED <<pos, delivered>>
                PROVE  RecvInv' /\ ForgetsNothing
    BY <1>3
<1>11. /\ r'.rcv_nxt = r.rcv_nxt /\ r'.rcv_wnd = r.rcv_wnd
       /\ r'.rbuf = buf2 /\ r'.rlen = r.rlen
       /\ r'.rlist = r.rlist \cup first..first + n - 1
    BY <1>1, <1>4, <1>10 DEF SaveOutOfOrder
<1>12. r' \in [rcv_nxt : Nat, rcv_wnd : Int, rbuf : {r'.rbuf}, rlen : 0..RcvBuf,
               rlist : SUBSET Nat]
    BY <1>1, <1>9, <1>10 DEF SaveOutOfOrder
<1>13. RecvInv'
    <2>1. DeliversStream' /\ pos' = pos
        BY <1>10 DEF RecvInv, DeliversStream
    <2>2. InvOf(r'.rcv_nxt, r'.rcv_wnd, r'.rbuf, r'.rlen, r'.rlist, pos')
        BY <1>8, <1>11, <2>1
    <2> QED BY <1>12, <2>1, <2>2, InvAfter
<1>14. ForgetsNothing
    BY <1>1, <1>11 DEF ForgetsNothing
<1> QED BY <1>13, <1>14

\* A segment keeps the invariant, and makes the receiver forget nothing.
LEMMA ProcessInv ==
    ASSUME RecvInv, NEW seq \in Nat, NEW len \in Nat
    PROVE  Process(seq, len) => RecvInv' /\ ForgetsNothing
<1>1. PICK from, n : from = TrimLeft(r, seq) /\ n = KeptLen(r, seq, len)
    OBVIOUS
<1>2. /\ from \in Nat /\ n \in Nat
      /\ n > 0 => /\ from + n <= len
                  /\ seq + from >= r.rcv_nxt
                  /\ seq + from + n <= r.rcv_nxt + Remaining(r)
    BY <1>1, KeptLenFits
<1>3. r.rcv_nxt \in Nat /\ Remaining(r) \in Int /\ r.rlist \subseteq Nat
    BY RcvBufAssumption DEF RecvInv, TypeOK, Remaining
<1>4. SUFFICES ASSUME Process(seq, len)
               PROVE  RecvInv' /\ ForgetsNothing
    OBVIOUS
<1>5. Len(Segment(seq, len)) = len
    BY DEF Segment
<1>6. /\ r' = IF n = 0 THEN r
              ELSE IF seq + from = r.rcv_nxt
              THEN AcceptInOrder(r, Segment(seq, len), from, n)
              ELSE SaveOutOfOrder(r, Segment(seq, len), from, n, seq + from)
      /\ UNCHANGED <<pos, delivered>>
    BY <1>1, <1>4, <1>5 DEF Process, ReceiveData, Segment
<1>7. CASE n = 0
    <2>1. UNCHANGED vars
        BY <1>6, <1>7 DEF vars
    <2> QED BY <1>3, <2>1, UnchangedInv DEF ForgetsNothing, vars
<1>8. CASE n # 0 /\ seq + from = r.rcv_nxt
    <2>1. from + n <= len /\ n <= Remaining(r)
        BY <1>2, <1>3, <1>8
    <2>2. r' = AcceptInOrder(r, Segment(seq, len), from, n)
        BY <1>6, <1>8
    <2> QED BY <1>2, <1>6, <1>8, <2>1, <2>2, AcceptInOrderInv
<1>9. CASE n # 0 /\ seq + from # r.rcv_nxt
    <2>1. /\ from + n <= len /\ seq + from > r.rcv_nxt
          /\ seq + from + n <= r.rcv_nxt + Remaining(r)
        BY <1>2, <1>3, <1>9
    <2>2. r' = SaveOutOfOrder(r, Segment(seq, len), from, n, seq + from)
        BY <1>6, <1>9
    <2> QED BY <1>2, <1>6, <2>1, <2>2, SaveOutOfOrderInv
<1> QED BY <1>7, <1>8, <1>9

\* Reading keeps the invariant.
LEMMA ShiftKeepsInv ==
    ASSUME NEW nxt, NEW wnd, NEW buf, NEW len, NEW list, NEW read,
           InvOf(nxt, wnd, buf, len, list, read),
           NEW n \in Nat, n <= len, NEW buf2, DOMAIN buf2 = 0..RcvBuf - 1,
           \A i \in 0..RcvBuf - 1 : i + n < RcvBuf => buf2[i] = buf[i + n],
           NEW wnd2 \in Int, wnd2 <= RcvBuf - (len - n)
    PROVE  InvOf(nxt, wnd2, buf2, len - n, list, read + n)
<1> USE RcvBufAssumption
<1>1. /\ nxt \in Nat /\ wnd \in Int /\ len \in Nat /\ len <= RcvBuf /\ read \in Nat
      /\ list \subseteq Nat /\ read = nxt - len /\ wnd <= RcvBuf - len
      /\ \A i \in 0..len - 1 : buf[i] = Stream(read + i)
      /\ \A p \in list : p > nxt /\ p < nxt + RcvBuf - len /\ buf[p - read] = Stream(p)
    BY DEF InvOf
<1>2. ASSUME NEW i \in 0..(len - n) - 1
      PROVE  buf2[i] = Stream((read + n) + i)
    <2>1. /\ i \in 0..RcvBuf - 1 /\ i + n < RcvBuf /\ i + n \in 0..len - 1
          /\ read + (i + n) = (read + n) + i
        BY <1>1
    <2>2. buf2[i] = buf[i + n]
        BY <2>1
    <2>3. buf[i + n] = Stream(read + (i + n))
        BY <1>1, <2>1
    <2> QED BY <2>1, <2>2, <2>3
<1>3. ASSUME NEW p \in list
      PROVE  p > nxt /\ p < nxt + RcvBuf - (len - n) /\ buf2[p - (read + n)] = Stream(p)
    <2>1. p \in Nat /\ p > nxt /\ p < nxt + RcvBuf - len /\ buf[p - read] = Stream(p)
        BY <1>1
    <2>2. /\ p - (read + n) \in 0..RcvBuf - 1 /\ (p - (read + n)) + n < RcvBuf
          /\ (p - (read + n)) + n = p - read
        BY <1>1, <2>1
    <2>3. buf2[p - (read + n)] = buf[(p - (read + n)) + n]
        BY <2>2
    <2> QED BY <1>1, <2>1, <2>2, <2>3
<1>4. /\ len - n \in Nat /\ len - n <= RcvBuf /\ read + n \in Nat
      /\ read + n = nxt - (len - n)
    BY <1>1
<1> QED BY <1>1, <1>2, <1>3, <1>4 DEF InvOf

\* A read keeps the invariant, delivers the next bytes of the stream, and
\* leaves everything else the receiver knows.
LEMMA RecvKeepsInv ==
    ASSUME RecvInv, NEW len \in Nat
    PROVE  Recv(len) => /\ RecvInv' /\ ForgetsNothing
                        /\ r'.rcv_nxt = r.rcv_nxt /\ pos' > pos /\ pos' <= r.rcv_nxt
<1> USE RcvBufAssumption
<1>1. /\ r \in [rcv_nxt : Nat, rcv_wnd : Int, rbuf : {r.rbuf}, rlen : 0..RcvBuf,
                rlist : SUBSET Nat]
      /\ pos \in Nat /\ pos = r.rcv_nxt - r.rlen
      /\ \A i \in 0..r.rlen - 1 : r.rbuf[i] = Stream(pos + i)
    BY DEF RecvInv, TypeOK, BufferHoldsStream
<1>2. InvOf(r.rcv_nxt, r.rcv_wnd, r.rbuf, r.rlen, r.rlist, pos)
    BY InvSpelledOut
<1>3. PICK n : n = IF len < r.rlen THEN len ELSE r.rlen
    OBVIOUS
<1>4. n \in Nat /\ n <= r.rlen
    BY <1>1, <1>3
<1>5. PICK q : q = ConsumeRead(r, n)
    OBVIOUS
<1>6. /\ q \in [rcv_nxt : Nat, rcv_wnd : Int, rbuf : {q.rbuf}, rlen : 0..RcvBuf,
                rlist : SUBSET Nat]
      /\ q.rcv_nxt = r.rcv_nxt /\ q.rcv_wnd = r.rcv_wnd /\ q.rlen = r.rlen - n
      /\ q.rlist = r.rlist
      /\ q.rbuf = [i \in 0..RcvBuf - 1 |->
                      IF i + n < RcvBuf THEN r.rbuf[i + n] ELSE Junk]
    <2>1. r.rlen - n \in 0..RcvBuf
        BY <1>1, <1>4
    <2> QED BY <1>1, <1>5, <2>1 DEF ConsumeRead
<1>7. PICK q2 : q2 = Reopened(q)
    OBVIOUS
<1>8. /\ q2 \in [rcv_nxt : Nat, rcv_wnd : Int, rbuf : {q2.rbuf}, rlen : 0..RcvBuf,
                 rlist : SUBSET Nat]
      /\ q2.rcv_nxt = r.rcv_nxt /\ q2.rlen = r.rlen - n /\ q2.rlist = r.rlist
      /\ q2.rbuf = q.rbuf
      /\ q2.rcv_wnd = q.rcv_wnd \/ q2.rcv_wnd = RcvBuf - q.rlen
    <2>1. RcvBuf - q.rlen \in Int
        BY <1>6
    <2>2. q2 = q \/ q2 = [q EXCEPT !.rcv_wnd = RcvBuf - q.rlen]
        BY <1>7 DEF Reopened, Remaining
    <2>3. CASE q2 = q
        BY <1>6, <2>3
    <2>4. CASE q2 = [q EXCEPT !.rcv_wnd = RcvBuf - q.rlen]
        BY <1>6, <2>1, <2>4
    <2> QED BY <2>2, <2>3, <2>4
<1>9. InvOf(q2.rcv_nxt, q2.rcv_wnd, q2.rbuf, q2.rlen, q2.rlist, pos + n)
    <2>1. r.rcv_wnd <= RcvBuf - r.rlen
        BY <1>2 DEF InvOf
    <2>2. q2.rcv_wnd \in Int /\ q2.rcv_wnd <= RcvBuf - (r.rlen - n)
        BY <1>1, <1>4, <1>6, <1>8, <2>1
    <2>3. /\ DOMAIN q2.rbuf = 0..RcvBuf - 1
          /\ \A i \in 0..RcvBuf - 1 : i + n < RcvBuf => q2.rbuf[i] = r.rbuf[i + n]
        BY <1>6, <1>8
    <2>4. InvOf(r.rcv_nxt, q2.rcv_wnd, q2.rbuf, r.rlen - n, r.rlist, pos + n)
        BY <1>2, <1>4, <2>2, <2>3, ShiftKeepsInv
    <2> QED BY <1>8, <2>4
<1>10. SUFFICES ASSUME Recv(len)
                PROVE  /\ RecvInv' /\ ForgetsNothing
                       /\ r'.rcv_nxt = r.rcv_nxt /\ pos' > pos /\ pos' <= r.rcv_nxt
    OBVIOUS
<1>11. /\ n > 0 /\ r' = q2 /\ pos' = pos + n
       /\ delivered' = [i \in 0..pos + n - 1 |->
                           IF i < pos THEN delivered[i] ELSE r.rbuf[i - pos]]
    BY <1>3, <1>5, <1>7, <1>10 DEF Recv
<1>12. DeliversStream'
    <2>1. ASSUME NEW i \in 0..pos + n - 1
          PROVE  (IF i < pos THEN delivered[i] ELSE r.rbuf[i - pos]) = Stream(i)
        <3>1. CASE i < pos
            <4>1. delivered = [j \in 0..pos - 1 |-> Stream(j)] /\ i \in 0..pos - 1
                BY <1>1, <3>1 DEF RecvInv, DeliversStream
            <4> QED BY <3>1, <4>1
        <3>2. CASE ~(i < pos)
            <4>1. i - pos \in 0..r.rlen - 1 /\ pos + (i - pos) = i
                BY <1>1, <1>4, <3>2
            <4> QED BY <1>1, <3>2, <4>1
        <3> QED BY <3>1, <3>2
    <2>2. delivered' = [i \in 0..pos + n - 1 |-> Stream(i)]
        BY <1>11, <2>1
    <2>3. ASSUME NEW m, m = pos + n
          PROVE  delivered' = [i \in 0..m - 1 |-> Stream(i)]
        <3>1. 0..m - 1 = 0..pos + n - 1
            BY <1>1, <1>4, <2>3
        <3> QED BY <2>2, <3>1
    <2>4. delivered' = [i \in 0..pos' - 1 |-> Stream(i)]
        BY <1>11, <2>3
    <2> QED BY <2>4 DEF DeliversStream
<1>13. RecvInv'
    BY <1>8, <1>9, <1>11, <1>12, InvAfter
<1>14. ForgetsNothing
    BY <1>1, <1>8, <1>11 DEF ForgetsNothing
<1>15. r'.rcv_nxt = r.rcv_nxt /\ pos' > pos /\ pos' <= r.rcv_nxt
    BY <1>1, <1>4, <1>8, <1>11, SMTT(30), Z3T(30)
<1> QED BY <1>13, <1>14, <1>15

\* The step relation keeps the invariant.
LEMMA NextInv ==
    ASSUME RecvInv, [Next]_vars
    PROVE  RecvInv'
<1>1. ASSUME NEW seq \in Starts, NEW len \in Lengths, Process(seq, len)
      PROVE  RecvInv'
    BY <1>1, RecvAssumption, ProcessInv
<1>2. ASSUME NEW len \in ReadSizes, Recv(len)
      PROVE  RecvInv'
    BY <1>2, RecvAssumption, RecvKeepsInv
<1>3. CASE UNCHANGED vars
    BY <1>3, UnchangedInv
<1> QED BY <1>1, <1>2, <1>3 DEF Next

\* A new receiver satisfies the invariant.
LEMMA InitInv ==
    Init => RecvInv
BY RcvBufAssumption DEF Init, RecvInv, TypeOK, BufferHoldsStream, DeliversStream,
                        WindowFits, Remaining, EmptyRbuf

\* What the receiver holds, has delivered and promises is always right, for
\* every capacity of the buffer, every stream and every segmentation of it.
THEOREM RecvInvariant ==
    Spec => []RecvInv
<1>1. RecvInv /\ [Next]_vars => RecvInv'
    BY NextInv
<1> QED BY <1>1, InitInv, PTL DEF Spec

\* The state of the receiver keeps its type.
THEOREM TypeCorrect ==
    Spec => []TypeOK
<1>1. RecvInv => TypeOK
    BY DEF RecvInv
<1> QED BY <1>1, RecvInvariant, PTL

\* The user of pseudo_tcp_socket_recv() reads the peer's stream.
THEOREM StreamDelivered ==
    Spec => []DeliversStream
<1>1. RecvInv => DeliversStream
    BY DEF RecvInv
<1> QED BY <1>1, RecvInvariant, PTL

\* Every byte in the receive buffer is where its sequence number says.
THEOREM BufferSound ==
    Spec => []BufferHoldsStream
<1>1. RecvInv => BufferHoldsStream
    BY DEF RecvInv
<1> QED BY <1>1, RecvInvariant, PTL

\* The window process() and pseudo_tcp_socket_recv() keep fits the buffer.
THEOREM WindowSound ==
    Spec => []WindowFits
<1>1. RecvInv => WindowFits
    BY DEF RecvInv
<1> QED BY <1>1, RecvInvariant, PTL

\* Neither acknowledged nor buffered bytes are forgotten.
THEOREM NothingForgotten ==
    Spec => NeverForgets
<1>1. RecvInv /\ [Next]_vars => [ForgetsNothing]_vars
    <2>1. ASSUME RecvInv, NEW seq \in Starts, NEW len \in Lengths, Process(seq, len)
          PROVE  ForgetsNothing
        BY <2>1, RecvAssumption, ProcessInv
    <2>2. ASSUME RecvInv, NEW len \in ReadSizes, Recv(len)
          PROVE  ForgetsNothing
        BY <2>2, RecvAssumption, RecvKeepsInv
    <2> QED BY <2>1, <2>2 DEF Next
<1> QED BY <1>1, RecvInvariant, PTL DEF Spec, NeverForgets, ForgetsNothing

\* The receiver of pseudotcp.c implements the byte stream.
THEOREM Refinement ==
    Spec => ImplementsByteStream
<1>1. Init => BS!Init
    BY DEF Init, BS!Init, BS!Prefix
<1>2. RecvInv /\ RecvInv' /\ [Next]_vars => [BS!Next]_<<r.rcv_nxt, pos, delivered>>
    <2> SUFFICES ASSUME RecvInv, RecvInv', [Next]_vars
                 PROVE  [BS!Next]_<<r.rcv_nxt, pos, delivered>>
        OBVIOUS
    <2>1. /\ r'.rcv_nxt \in Nat /\ pos' \in Nat /\ r.rcv_nxt \in Nat /\ pos \in Nat
          /\ r'.rcv_nxt - pos' <= RcvBuf
          /\ delivered' = [i \in 0..pos' - 1 |-> Stream(i)]
        BY RcvBufAssumption DEF RecvInv, TypeOK, BufferHoldsStream, DeliversStream
    <2>2. ASSUME NEW seq \in Starts, NEW len \in Lengths, Process(seq, len)
          PROVE  [BS!Next]_<<r.rcv_nxt, pos, delivered>>
        <3>1. r'.rcv_nxt >= r.rcv_nxt /\ UNCHANGED <<pos, delivered>>
            BY <2>2, RecvAssumption, ProcessInv DEF Process, ForgetsNothing
        <3> QED BY <2>1, <3>1 DEF BS!Next, BS!Arrive
    <2>3. ASSUME NEW len \in ReadSizes, Recv(len)
          PROVE  [BS!Next]_<<r.rcv_nxt, pos, delivered>>
        <3>1. r'.rcv_nxt = r.rcv_nxt /\ pos' > pos /\ pos' <= r.rcv_nxt
            BY <2>3, RecvAssumption, RecvKeepsInv
        <3> QED BY <2>1, <3>1 DEF BS!Next, BS!Read, BS!Prefix
    <2>4. CASE UNCHANGED vars
        BY <2>4 DEF vars
    <2> QED BY <2>2, <2>3, <2>4 DEF Next
<1> QED BY <1>1, <1>2, RecvInvariant, PTL DEF Spec, ImplementsByteStream, BS!Spec
=============================================================================
