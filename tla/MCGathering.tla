---------------------------- MODULE MCGathering ----------------------------
(* Instances of Gathering: what is gathered, what the users call, and which *)
(* faults may happen.                                                       *)
EXTENDS Gathering

Plain ==
    [hosts |-> <<"h1">>, v6 |-> {}, stun |-> <<>>, dns |-> <<>>, unreachable |-> {},
     nat |-> [h \in {"h1", "h2"} |-> "n"], alternate |-> "a", clash |-> FALSE,
     calls |-> <<<<"gather", 1>>, <<"gather", 2>>>>, selects |-> FALSE,
     kinds |-> {}, faults |-> 0, refreshes |-> 0]

Names == [n \in {"name", "names"} |-> IF n = "name" THEN <<"t1">> ELSE <<"t1", "t6">>]

\* Two streams, STUN and a relay for the first stream by name.  The second
\* STUN server cannot be reached.
TwoStreams ==
    [Plain EXCEPT !.stun = <<"s1", "s2">>, !.unreachable = {"s2"}, !.dns = Names,
       !.calls = <<<<"relay", 1, "name">>, <<"gather", 1>>, <<"gather", 2>>, <<"remove", 1>>>>,
       !.kinds = {"lose", "late", "dns"}, !.faults = 1]

\* Hosts and relays of both versions of IP, the relays by name; all the ways a
\* server can answer.
Dual ==
    [Plain EXCEPT !.hosts = <<"h1", "h6">>, !.v6 = {"h6", "t6"}, !.dns = Names,
       !.nat = [h \in {"h1", "h6"} |-> h],
       !.calls = <<<<"gather", 1>>, <<"relay", 1, "names">>, <<"forget", 1>>, <<"close">>>>,
       !.kinds = {"error", "alternate", "stale", "dns"}, !.faults = 1]

\* Two hosts behind one translator and one relay: the second allocation is
\* redundant.  A second relay is one too many.  The relays are forgotten, and
\* the agent is closed.
Redundancy ==
    [Plain EXCEPT !.hosts = <<"h1", "h2">>,
       !.calls = <<<<"relay", 1, "t1">>, <<"relay", 1, "t2">>, <<"gather", 1>>, <<"forget", 1>>,
                   <<"close">>>>,
       !.kinds = {"lose", "socket"}, !.faults = 1, !.refreshes = 1]

\* A relay that is selected, forgotten and replaced; STUN answers vary.
Replaced ==
    [Plain EXCEPT !.selects = TRUE, !.stun = <<"s1">>,
       !.calls = <<<<"gather", 1>>, <<"relay", 1, "t1">>, <<"forget", 1>>, <<"relay", 1, "t2">>,
                   <<"close">>>>,
       !.kinds = {"alternate"}, !.faults = 1]

\* Refreshes meet late timers and answers of all kinds.
Refreshed ==
    [Plain EXCEPT !.calls = <<<<"relay", 1, "t1">>, <<"gather", 1>>, <<"remove", 1>>>>,
       !.kinds = {"lose", "late", "error", "stale"}, !.faults = 2, !.refreshes = 2]

\* A port that is taken ends the first call; the relay's lookup goes on.
PortTaken ==
    [Plain EXCEPT !.hosts = <<"h1", "h2">>, !.clash = TRUE, !.stun = <<"s1">>, !.dns = Names,
       !.calls = <<<<"relay", 1, "t1">>, <<"relay", 2, "name">>, <<"gather", 1>>, <<"gather", 2>>,
                   <<"close">>>>]

MCScenarios == {TwoStreams, Dual, Redundancy, Replaced, Refreshed, PortTaken}
=============================================================================
