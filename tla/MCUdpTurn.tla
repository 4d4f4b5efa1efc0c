----------------------------- MODULE MCUdpTurn -----------------------------
(* The scenarios UdpTurn is checked in.                                      *)
EXTENDS UdpTurn

CONSTANTS P, Q

Scenario(p, q, b, f, talk) ==
    [data |-> [x \in Peers |-> IF x = P THEN p ELSE q], binds |-> b, faults |-> f,
     talkers |-> talk, fails |-> FALSE]

\* Data to two peers, one of which answers.
Talk == Scenario(2, 1, 0, 2, {P})

\* Channels to the two peers, in any order and more than once.
Bind(b, f) == Scenario(0, 0, b, f, {})

\* Both at once.
Mixed(q, f) == Scenario(1, q, 1, f, {P})

\* A write of a request to the base socket fails.
Unsent == [Scenario(2, 0, 0, 1, {}) EXCEPT !.fails = TRUE]

MCTurn == {Talk, Bind(3, 2), Bind(1, 3), Mixed(0, 1), Mixed(1, 0), Unsent}
=============================================================================
