---------------------------- MODULE MCConnCheck ----------------------------
(***************************************************************************)
(* Instances of ConnCheck for TLC: two agents, "A" and "B".                *)
(***************************************************************************)
EXTENDS ConnCheck

\* A candidate of component c on a host, and one a STUN server reported for it.
Host(ip, c, priority) ==
    [addr |-> <<ip, c>>, base |-> <<ip, c>>, type |-> "HOST", priority |-> priority,
     stun_priority |-> priority - 4, foundation |-> <<"HOST", ip>>]
Mapped(ip, c, base, priority) ==
    [addr |-> <<ip, c>>, base |-> <<base, c>>, type |-> "SERVER_REFLEXIVE",
     priority |-> priority, stun_priority |-> priority,
     foundation |-> <<"SERVER_REFLEXIVE", base>>]

\* How the application may pass on the candidates of the peer.
Sdp(list) == <<[name |-> "parse_remote_sdp", candidates |-> list]>>
Trickle(list) ==
    <<[name |-> "set_remote_credentials"]>>
    \o [i \in DOMAIN list |-> [name |-> "set_remote_candidates", component |-> list[i].addr[2],
                               candidates |-> <<list[i]>>]]

Party(controlling, tie, mode, candidates, calls) ==
    [controlling |-> controlling, tie |-> tie, mode |-> mode, discovering |-> FALSE,
     candidates |-> candidates, calls |-> calls]

\* Every ip of one side reaches every ip of the other, ...
Direct(left, right) ==
    {[base |-> x[1], to |-> x[2], sock |-> x[2], from |-> x[1]]
        : x \in (left \X right) \cup (right \X left)}

\* ... except that "a1" is private, and translated to "x1".
Translated(ips) ==
    {[base |-> "a1", to |-> ip, sock |-> ip, from |-> "x1"] : ip \in ips}
    \cup {[base |-> ip, to |-> "x1", sock |-> "a1", from |-> ip] : ip \in ips}

Scenario(a, b, route, max_in_flight, kinds, n) ==
    [agents |-> [A |-> a, B |-> b], route |-> route, kinds |-> kinds, faults |-> n,
     components |-> 1, blocked |-> {}, live |-> FALSE,
     max_in_flight |-> max_in_flight, max_conn_checks |-> 3]

A1 == <<Host("a1", 1, 20)>>
B1 == <<Host("b1", 1, 19)>>
B2 == B1 \o <<Host("b2", 1, 14)>>
X1 == A1 \o <<Mapped("x1", 1, "a1", 12)>>
Unreliable == {"loss", "duplicate", "early"}
Failing == {"triggered", "ordinary"}

\* One path, any roles; signalling may be slower than the checks, ...
OnePath(kinds, n) ==
    Scenario(Party(FALSE, 1, "REGULAR", A1, Trickle(B1)), Party(FALSE, 2, "REGULAR", B1, Trickle(A1)),
             Direct({"a1"}, {"b1"}), 2, kinds, n)

\* ... and the gathering of one agent slower than both.
Discovering(s) == [s EXCEPT !.agents.A.discovering = TRUE]

\* Behind a translator, whether or not the mapped address is signalled.
Behind(list, ca, mode, kinds, n) ==
    Scenario(Party(ca, 1, mode, list, Sdp(B1)), Party(~ca, 2, mode, B1, Trickle(list)),
             Translated({"b1"}), 3, kinds, n)

\* ... and the controlling agent is told late of an address out of its reach.
BehindLate(kinds, n) ==
    Scenario(Party(TRUE, 1, "REGULAR", A1, Trickle(B2)), Party(FALSE, 2, "REGULAR", B1, Sdp(A1)),
             Translated({"b1"}), 2, kinds, n)

\* Two paths of different priorities.
TwoPaths(cb, mode, max_in_flight, kinds, n) ==
    Scenario(Party(TRUE, 1, mode, A1, Sdp(B2)), Party(cb, 2, mode, B2, Sdp(A1)),
             Direct({"a1"}, {"b1", "b2"}), max_in_flight, kinds, n)

\* A stream of two components, of which `blocked` cannot be reached.
Both(ip, priority) == <<Host(ip, 1, priority), Host(ip, 2, priority - 1)>>
TwoComponents(ca, peer, blocked, mode, max_in_flight, kinds, n) ==
    [Scenario(Party(ca, 1, mode, Both("a1", 20), Sdp(peer)),
              Party(FALSE, 2, mode, peer, Sdp(Both("a1", 20))),
              Direct({"a1"}, {"b1", "b2"}), max_in_flight, kinds, n)
        EXCEPT !.components = 2, !.blocked = blocked, !.live = TRUE, !.max_conn_checks = 4]

\* ... of which only what must never happen is checked.
Safe(s) == [s EXCEPT !.live = FALSE]

\* A second host, for both components or for the second one only.
Both12 == Both("b1", 19) \o Both("b2", 14)
Spare2 == Both("b1", 19) \o <<Host("b2", 2, 13)>>

MCScenarios ==
    {OnePath(Unreliable, 2),
     Discovering(OnePath(Kinds, 1)),
     Behind(A1, FALSE, "REGULAR", Unreliable, 1),
     Behind(A1, TRUE, "AGGRESSIVE", Kinds, 1),
     Behind(X1, FALSE, "AGGRESSIVE", Unreliable, 1),
     BehindLate(Failing, 1),
     TwoPaths(TRUE, "AGGRESSIVE", 3, {}, 0),
     TwoPaths(FALSE, "REGULAR", 2, Failing, 1),
     TwoComponents(TRUE, Both12, {}, "REGULAR", 1, {}, 0),
     Safe(TwoComponents(TRUE, Both12, {}, "REGULAR", 2, {}, 0)),
     TwoComponents(TRUE, Spare2, {<<"b1", 2>>}, "REGULAR", 1, {}, 0),
     TwoComponents(FALSE, Both("b1", 19), {}, "REGULAR", 2, {}, 0),
     TwoComponents(TRUE, Both("b1", 19), {}, "AGGRESSIVE", 2, Unreliable, 1)}

MCLate == {BehindLate(Failing, 1)}
=============================================================================
