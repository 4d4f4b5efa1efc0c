----------------------------- MODULE ByteStream -----------------------------
(***************************************************************************)
(* What the receiving end of a pseudo-TCP connection promises its user: the *)
(* bytes of the peer's stream, each once and in order, of which at most     *)
(* Capacity have arrived but are not read yet.                              *)
(***************************************************************************)
EXTENDS Integers

CONSTANTS Capacity,   \* how many bytes wait to be read at most
          Stream(_)   \* the byte the peer writes at each position

VARIABLES arrived,    \* how many bytes have arrived in order
          read,       \* how many of them have been read
          delivered   \* the bytes read so far, a function on 0..read-1

Prefix(n) == [i \in 0..n - 1 |-> Stream(i)]

Init == arrived = 0 /\ read = 0 /\ delivered = Prefix(0)

Arrive ==
    /\ arrived' \in Nat /\ arrived' > arrived
    /\ arrived' - read <= Capacity
    /\ UNCHANGED <<read, delivered>>

Read ==
    /\ read' \in Nat /\ read' > read /\ read' <= arrived
    /\ delivered' = Prefix(read')
    /\ UNCHANGED arrived

Next == Arrive \/ Read
Spec == Init /\ [][Next]_<<arrived, read, delivered>>
=============================================================================
