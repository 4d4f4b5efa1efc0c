----------------------------- MODULE ConnCheck -----------------------------
(***************************************************************************)
(* Two ICE agents that check the connectivity between their candidates     *)
(* over an unreliable datagram network: the composition of two instances   *)
(* of ConnCheckAgent.  Each agent holds its lock while it runs a callback, *)
(* so a callback is one step.                                              *)
(*                                                                         *)
(* A scenario says who the agents are, which candidates each has and is    *)
(* told of, whether it still gathers some, how datagrams travel and how    *)
(* many faults, of which kinds, may happen: "loss" and "duplicate" of a    *)
(* datagram, an error of the socket that sends a "triggered" or an         *)
(* "ordinary" check, a timer that runs out "early", with a datagram of its *)
(* transaction still on its way, a request that the peer will "refuse",    *)
(* and an "unmapped" response, which tells no address.                     *)
(***************************************************************************)
EXTENDS ConnCheckAgent

CONSTANT Scenarios       \* the scenarios to explore

\* No timer callback runs with as many datagrams around as max_in_flight.
ASSUME SystemAssumption ==
    \A s \in Scenarios : {s.components, s.max_in_flight, s.max_conn_checks} \subseteq Nat \ {0}

VARIABLES scenario,    \* how datagrams travel and what may go wrong, never changed
          agent,       \* agent[a]: the record of agent a
          net,         \* the bag of datagrams in flight
          todo,        \* todo[a]: the calls the application of a has yet to make
          faults       \* the faults that may still happen

vars == <<scenario, agent, net, todo, faults>>

\* The two peers.
Agents == {"A", "B"}

InitialAgent(s, a) ==
    LET all(x) == [c \in 1..s.components |-> x]
    IN
    [controlling_mode |-> s.agents[a].controlling, tie_breaker |-> s.agents[a].tie,
     nomination_mode |-> s.agents[a].mode,
     local_candidates |-> s.agents[a].candidates, remote_candidates |-> <<>>,
     conncheck_list |-> <<>>, triggered_check_queue |-> <<>>,
     selected_pair |-> all([local |-> None, remote |-> None, priority |-> 0]),
     state |-> all("GATHERING"), incoming_checks |-> all(<<>>),
     max_conn_checks |-> s.max_conn_checks, discovering |-> s.agents[a].discovering,
     conncheck_timer |-> FALSE, idle_delay |-> 0, remote_credentials |-> FALSE,
     next_id |-> 0, out |-> <<>>, failed |-> {}]

Init ==
    \E s \in Scenarios :
        /\ scenario = [x \in {"route", "blocked", "kinds", "max_in_flight", "live"} |-> s[x]]
        /\ agent = [a \in Agents |-> InitialAgent(s, a)]
        /\ net = EmptyBag
        /\ todo = [a \in Agents |-> s.agents[a].calls]
        /\ faults = s.faults

-----------------------------------------------------------------------------
(* The network.                                                            *)

\* The agent a socket belongs to.
Owner(sock) ==
    CHOOSE a \in Agents : \E c \in ToSet(agent[a].local_candidates) : c.base = sock

\* Where a datagram from a socket to an address arrives (the socket of the
\* peer, and the address it seems to come from), if it does.
Hops(m) == {h \in scenario.route : /\ h.base = m.sock[1] /\ h.to = m.to[1]
                                   /\ m.to \notin scenario.blocked}

Datagram(m) ==
    LET hop == CHOOSE h \in Hops(m) : TRUE
    IN  [x \in (DOMAIN m \cup {"from"}) \ {"to"} |->
            CASE x = "sock" -> <<hop.sock, m.to[2]>>
              [] x = "from" -> <<hop.from, m.sock[2]>>
              [] OTHER -> m[x]]

Sent(out) ==
    LET put(b, m) == IF Hops(m) # {} THEN b (+) SetToBag({Datagram(m)}) ELSE b
    IN  FoldLeft(put, EmptyBag, out)

\* Agent a has become g, and hands its messages to the network.
Becomes(a, g, rest) ==
    /\ agent' = [agent EXCEPT ![a] = [g EXCEPT !.out = <<>>, !.next_id = 0]]
    /\ net' = rest (+) Sent(g.out)

\* The transactions of an agent, and those of which a datagram is in flight.
Outstanding(g) ==
    UNION {{t.id : t \in ToSet(p.stun_transactions)} : p \in ToSet(g.conncheck_list)}
InFlight(a) ==
    {m.id : m \in {n \in BagToSet(net) : (n.kind = "response") = (Owner(n.sock) = a)}}

\* Transaction ids are random in the code; here, the first one not in use.
FreshId(a) ==
    LET used == Outstanding(agent[a]) \cup InFlight(a)
    IN  Min(1..Cardinality(used) + 1 \ used)

-----------------------------------------------------------------------------
(* The steps of the system.                                                *)

\* Faults of the given kinds happen.
Spend(kinds) ==
    /\ kinds \subseteq scenario.kinds
    /\ Cardinality(kinds) <= faults
    /\ faults' = faults - Cardinality(kinds)

\* The connectivity check timer of agent a fires, with the timers of the
\* transactions `due` run out.
TickWith(a, due, failing) ==
    /\ agent[a].conncheck_timer
    /\ BagCardinality(net) < scenario.max_in_flight
    /\ Spend(failing \cup (IF due \cap InFlight(a) = {} THEN {} ELSE {"early"}))
    /\ Becomes(a, TickAgent([agent[a] EXCEPT !.next_id = FreshId(a)], due, failing), net)
    /\ UNCHANGED <<scenario, todo>>

Tick(a) ==
    \E due \in SUBSET Outstanding(agent[a]), failing \in SUBSET {"triggered", "ordinary"} :
        TickWith(a, due, failing)

\* conn_check_handle_inbound_stun
HandleInboundStun(g, m) ==
    IF m.kind = "request" THEN HandleRequest(g, m) ELSE HandleResponse(g, m)

\* A datagram arrives at agent a, ...
Receive(a) ==
    /\ \E m \in BagToSet(net) :
        /\ Owner(m.sock) = a
        /\ Becomes(a, HandleInboundStun(agent[a], m), net (-) SetToBag({m}))
    /\ UNCHANGED <<scenario, todo, faults>>

\* ... a request does not authenticate, or a response tells no address.
ReceiveUnusual(a) ==
    /\ \E m \in BagToSet(net) :
        /\ Owner(m.sock) = a
        /\ \/ /\ m.kind = "request"
              /\ Spend({"refuse"})
              /\ Becomes(a, Unauthorized(agent[a], m), net (-) SetToBag({m}))
           \/ /\ m.kind = "response" /\ m.result = "SUCCESS"
              /\ Spend({"unmapped"})
              /\ Becomes(a, HandleResponse(agent[a], [m EXCEPT !.result = "NO_MAPPED_ADDRESS"]),
                         net (-) SetToBag({m}))
    /\ UNCHANGED <<scenario, todo>>

\* The network loses or duplicates a datagram.
Lose ==
    /\ Spend({"loss"})
    /\ \E m \in BagToSet(net) : net' = net (-) SetToBag({m})
    /\ UNCHANGED <<scenario, agent, todo>>

Duplicate ==
    /\ Spend({"duplicate"})
    /\ \E m \in BagToSet(net) : net' = net (+) SetToBag({m})
    /\ UNCHANGED <<scenario, agent, todo>>

\* The application of agent a passes on what the peer signalled.
Perform(g, call) ==
    CASE call.name = "set_remote_credentials" -> SetRemoteCredentials(g)
      [] call.name = "set_remote_candidates" ->
            SetRemoteCandidates(g, call.component, call.candidates)
      [] call.name = "parse_remote_sdp" -> ParseRemoteSdp(g, call.candidates)

ApplicationCall(a) ==
    /\ todo[a] # <<>>
    /\ todo' = [todo EXCEPT ![a] = Tail(@)]
    /\ Becomes(a, Perform(agent[a], Head(todo[a])), net)
    /\ UNCHANGED <<scenario, faults>>

\* The discoveries of agent a end.
DiscoveryEnds(a) ==
    /\ agent[a].discovering
    /\ Becomes(a, GatheringDone(agent[a]), net)
    /\ UNCHANGED <<scenario, todo, faults>>

Next ==
    \/ \E a \in Agents :
        \/ Tick(a) \/ Receive(a) \/ ReceiveUnusual(a)
        \/ ApplicationCall(a) \/ DiscoveryEnds(a)
    \/ Lose
    \/ Duplicate

Spec == Init /\ [][Next]_vars

\* The main loop runs the callbacks that are due, datagrams arrive or are lost,
\* the timer of a transaction runs out at last, and the applications make
\* their calls.
Fairness ==
    \A a \in Agents :
        /\ <>[](/\ scenario.live /\ agent[a].conncheck_timer
                /\ BagCardinality(net) < scenario.max_in_flight)
            => []<><<scenario.live /\ TickWith(a, Outstanding(agent[a]) \ InFlight(a), {})>>_vars
        /\ <>[](scenario.live /\ \E m \in BagToSet(net) : Owner(m.sock) = a)
            => []<><<scenario.live /\ Receive(a)>>_vars
        /\ <>[](scenario.live /\ todo[a] # <<>>)
            => []<><<scenario.live /\ ApplicationCall(a)>>_vars
        /\ <>[](scenario.live /\ agent[a].discovering)
            => []<><<scenario.live /\ DiscoveryEnds(a)>>_vars

FairSpec == Spec /\ Fairness

-----------------------------------------------------------------------------
(* Properties.                                                             *)

Pairs(a) == ToSet(agent[a].conncheck_list)

Kinds == {"loss", "duplicate", "early", "triggered", "ordinary", "refuse", "unmapped"}

\* Every variable stays in its type.
TypeOK ==
    /\ scenario.kinds \subseteq Kinds
    /\ faults \in Nat
    /\ \A a \in Agents :
        LET g == agent[a]
        IN  /\ g.controlling_mode \in BOOLEAN /\ g.conncheck_timer \in BOOLEAN
            /\ g.remote_credentials \in BOOLEAN /\ g.idle_delay \in 0..IdleTicks - 1
            /\ g.discovering \in BOOLEAN
            /\ ToSet(g.state) \subseteq ComponentStates
            /\ \A c \in Components(g) : g.selected_pair[c].priority \in Nat
            /\ \A p \in Pairs(a) :
                /\ p.component \in Components(g) /\ p.state \in CheckStates
                /\ p.priority \in Nat \ {0}
                /\ {p.nominated, p.valid, p.retransmit} \subseteq BOOLEAN
                /\ \A t \in ToSet(p.stun_transactions) : t.left \in 0..Transmissions - 1

\* A discovered pair and the pair whose check found it stay together: neither
\* is freed while the other refers to it (conncheck.c:610-612, 2575).
LinksResolve ==
    \A a \in Agents : \A p \in Pairs(a) :
        /\ p.discovered_pair # None =>
            \E q \in Pairs(a) : Key(q) = p.discovered_pair /\ q.succeeded_pair = Key(p)
        /\ p.succeeded_pair # None =>
            \E q \in Pairs(a) : Key(q) = p.succeeded_pair /\ q.discovered_pair = Key(p)

\* No assertion of the code fails and no freed pair is used: the transitions
\* agent_signal_component_state_change() accepts (agent.c:2659), the
\* assertions of nomination (conncheck.c:956, 959), of triggered checks and
\* of priv_prune_pending_checks (3028), and the pairs reached from a queue, a
\* link or an iterator.
AssertionsHold == TypeOK /\ \A a \in Agents : agent[a].failed = {}

\* The pair an agent sends on is a valid, nominated pair of its list, and none
\* of its nominated pairs has a higher priority; an agent with a nominated
\* pair has such a pair (agent.c:4306-4311).
SelectedIsBest ==
    \A a \in Agents : \A c \in Components(agent[a]) :
        LET s == agent[a].selected_pair[c]
            nominated == {p \in Pairs(a) : p.component = c /\ p.nominated}
        IN  IF s.priority = 0 THEN nominated = {}
            ELSE \E p \in nominated :
                    /\ Key(p) = <<s.local, s.remote>> /\ p.valid
                    /\ \A q \in nominated : q.priority <= p.priority

\* As long as a check is due the timer that would send it runs.
WorkIsScheduled ==
    \A a \in Agents :
        (\/ agent[a].triggered_check_queue # <<>>
         \/ \E p \in Pairs(a) : p.state \in {"FROZEN", "WAITING", "IN_PROGRESS"})
        => agent[a].conncheck_timer

\* Both agents have done all they were going to do.
Quiet ==
    /\ net = EmptyBag
    /\ \A a \in Agents : todo[a] = <<>> /\ ~agent[a].conncheck_timer

\* The socket from which a component sends.
SelectedBase(a, c) ==
    CandidateAt(agent[a].local_candidates, agent[a].selected_pair[c].local).base

\* While they work, both send on their best nominated pair; and two agents that
\* are done and ready use the two ends of one path (what one sends on its
\* pair arrives at the socket of the other's pair, from the address the other
\* sends to), and exactly one of them is in control.
Agreement ==
    SelectedIsBest /\ (Quiet => \A a, b \in Agents : a # b =>
        /\ agent[a].controlling_mode # agent[b].controlling_mode
        /\ \A c \in Components(agent[a]) : {agent[a].state[c], agent[b].state[c]} = {"READY"} =>
            \E h \in Hops([sock |-> SelectedBase(a, c), to |-> agent[a].selected_pair[c].remote]) :
                /\ <<h.sock, c>> = SelectedBase(b, c)
                /\ <<h.from, c>> = agent[b].selected_pair[c].remote)

\* A pair that is nominated, or about to be.
Chosen(p) == p.nominated \/ (p.use_candidate_on_next_check /\ p.state # "FAILED")

\* Component c of an agent has no check left to wait for, and no valid pair
\* between the hosts of q.
Exhausted(g, c, q) ==
    \A p \in ToSet(PairsOf(g, c)) :
        /\ p.state \notin {"FROZEN", "WAITING", "IN_PROGRESS"}
        /\ p.valid => ~SameHosts(Parent(p), q)

\* In a regular nomination the components of a stream part only where they have
\* to.  A pair is chosen between other hosts than the pair chosen for another
\* component only when one of the two components has nothing left to check
\* and no valid pair between the hosts of the other (conncheck.c:1037-1041);
\* and unless some host cannot be reached in both components, the agents
\* never send them on paths between different hosts.
ComponentsTogether ==
    /\ [][\A a \in Agents :
            LET g == agent'[a]
                old == {Key(p) : p \in {q \in Pairs(a) : Chosen(q)}}
            IN  \A p, q \in ToSet(g.conncheck_list) :
                    /\ Chosen(p) /\ Chosen(q) /\ g.nomination_mode = "REGULAR"
                    /\ p.component # q.component /\ ~{Key(p), Key(q)} \subseteq old
                    /\ g.controlling_mode /\ ~SameHosts(Key(p), q)
                    => Exhausted(g, p.component, q) \/ Exhausted(g, q.component, p)]_vars
    /\ [](\A a \in Agents : agent[a].nomination_mode = "REGULAR" =>
            \A c, d \in Components(agent[a]) :
                LET s == agent[a].selected_pair[c]
                    t == agent[a].selected_pair[d]
                IN  s.priority > 0 /\ t.priority > 0 =>
                        \/ s.local[1] = t.local[1] /\ s.remote[1] = t.remote[1]
                        \/ \E ip \in {s.local[1], s.remote[1], t.local[1], t.remote[1]} :
                                {<<ip, c>>, <<ip, d>>} \cap scenario.blocked # {})

\* A role conflict is settled by the tie-breakers whatever order requests and
\* stale 487 answers come in: the agent with the larger one never gives up
\* control, the other never takes it (ice.c:284, conncheck.c:3402).
TieBreakerDecides ==
    [][\A a, b \in Agents : agent[a].tie_breaker > agent[b].tie_breaker =>
        /\ agent[a].controlling_mode => agent'[a].controlling_mode
        /\ agent'[b].controlling_mode => agent[b].controlling_mode]_vars

\* The checks come to an end: whatever is lost, repeated or late, both agents
\* settle on a pair for every component, and their timers stop
\* (conncheck.c:1138-1140).
LiveReady ==
    scenario.live =>
        <>[](\A a \in Agents :
                /\ ~agent[a].conncheck_timer
                /\ ToSet(agent[a].state) \subseteq
                        {"READY"} \cup (IF scenario.blocked = {} THEN {} ELSE {"CONNECTED"}))
=============================================================================
