----------------------------- MODULE Gathering -----------------------------
(***************************************************************************)
(* Gathering of local candidates and the life of TURN allocations          *)
(* (libnice/agent/discovery.c, the replies of conncheck.c, and what        *)
(* agent.c and component.c do to start, extend and end both): names are    *)
(* resolved, discovery items are scheduled one per tick, replies add or    *)
(* prune candidates, allocations are refreshed and, when a relayed         *)
(* candidate or its stream goes, released by a request that takes its time.*)
(*                                                                         *)
(* The agent is a record with the code's field names and a C function is   *)
(* an operator from the record to the record it leaves.  A stream has one  *)
(* component, hosts and TURN servers use UDP, the dialect is RFC 5245.  An *)
(* address is <<ip, socket>>, a socket <<host, stream>>.  Retransmission   *)
(* timers run out once nothing of their transaction is in flight, or early *)
(* at the cost of a fault.                                                 *)
(***************************************************************************)
EXTENDS Integers, Sequences, FiniteSetsExt

CONSTANTS Streams,           \* stream ids
          Transmissions,     \* stun_max_retransmissions
          MaxTurnServers,    \* NICE_CANDIDATE_MAX_TURN_SERVERS
          Scenarios,         \* what users, names, servers and faults do
          None               \* NULL

IsList(l) == l \in Seq(Range(l))

\* Names resolve to some address or not at all, and a port that is taken is
\* that of a host.
ASSUME GatheringAssumption ==
    /\ IsFiniteSet(Streams) /\ Transmissions \in Nat \ {0} /\ MaxTurnServers \in Nat
    /\ \A c \in Scenarios :
        /\ c.faults \in Nat /\ c.refreshes \in Nat
        /\ IsList(c.hosts) /\ IsList(c.stun) /\ (c.clash => c.hosts # <<>>)
        /\ \A name \in DOMAIN c.dns : IsList(c.dns[name]) /\ c.dns[name] # <<>>
        /\ IsList(c.calls)
        /\ \A call \in Range(c.calls) :
            /\ call[1] \in {"gather", "relay", "forget", "remove", "close"}
            /\ call[1] = "relay" => call[3] # None

VARIABLES sc,        \* the scenario
          agent,     \* NiceAgent
          calls,     \* calls the application has still to make
          net,       \* requests and responses in flight
          allocs,    \* allocations of the TURN servers: <<server, socket>>
          faults,    \* faults that may still happen
          refreshes  \* refresh timers that may still fire
vars == <<sc, agent, calls, net, allocs, faults, refreshes>>

\* Lists.  The elements of a list that are in S, and what becomes of a when Op
\* is applied to it and each element in turn.  (With SequencesExt, which brings
\* in Bags, the prover would take five times as long over this module.)
Those(list, S) ==
    LET kept[i \in 0..Len(list)] ==
            IF i = 0 THEN <<>>
            ELSE IF list[i] \in S THEN Append(kept[i - 1], list[i]) ELSE kept[i - 1]
    IN  kept[Len(list)]

Each(Op(_, _), a, list) ==
    LET run[i \in 0..Len(list)] == IF i = 0 THEN a ELSE Op(run[i - 1], list[i])
    IN  run[Len(list)]

Joined(lists) == Each(LAMBDA a, b : a \o b, <<>>, lists)
Ordered(S) == CHOOSE list \in [1..Cardinality(S) -> S] : Range(list) = S
FirstOf(I) == IF I = {} THEN 0 ELSE Min(I)
RemoveAt(list, i) == SubSeq(list, 1, i - 1) \o SubSeq(list, i + 1, Len(list))

Fail(g, what) == [g EXCEPT !.failed = @ \cup {what}]

Version(ip) == IF ip \in sc.v6 THEN 6 ELSE 4

-----------------------------------------------------------------------------
(* Candidates.                                                             *)

Candidate(type, addr, base, id) == [type |-> type, addr |-> addr, base |-> base, id |-> id]

\* priv_add_local_candidate_pruned finds the new candidate to be redundant.
Redundant(g, s, c) ==
    \E e \in Range(g.local_candidates[s]) :
        \/ e.base = c.base /\ e.addr = c.addr
        \/ e.type = c.type /\ c.type # "HOST" /\ e.addr[1] = c.addr[1]

AddLocalCandidate(g, s, c) ==
    IF Redundant(g, s, c) THEN g
    ELSE [g EXCEPT !.local_candidates[s] = Append(@, c)]

\* discovery_add_local_host_candidate, for each of the hosts: a socket of its own.
AddHosts(g, s, hosts) ==
    [g EXCEPT !.local_candidates[s] =
                 [i \in DOMAIN hosts |->
                    Candidate("HOST", <<hosts[i], <<hosts[i], s>>>>, <<hosts[i], s>>, None)],
              !.sockets = @ \cup {<<h, s>> : h \in Range(hosts)}]

\* discovery_add_server_reflexive_candidate
AddServerReflexive(g, d, addr) ==
    AddLocalCandidate(g, d.stream_id, Candidate("SERVER_REFLEXIVE", addr, d.nicesock, None))

\* The hosts of a stream, which both servers' callbacks go through.
HostCandidates(g, s) ==
    LET list == g.local_candidates[s] IN Those(list, {c \in Range(list) : c.type = "HOST"})

-----------------------------------------------------------------------------
(* The discovery list.                                                     *)

Discovery(type, sock, server, key) ==
    [type |-> type, nicesock |-> sock, stream_id |-> sock[2], server |-> server, turn |-> key,
     pending |-> FALSE, done |-> FALSE, msg |-> None, open |-> FALSE, sends |-> 0,
     realm |-> FALSE, requests |-> 0]

Id(d) == <<d.type, d.nicesock, d.turn>>

\* priv_add_new_candidate_discovery_stun and _turn: an item for each host of
\* the stream that can reach the server.
Able(g, s, server) ==
    LET hosts == HostCandidates(g, s)
    IN  Those(hosts, {c \in Range(hosts) : Version(c.addr[1]) = Version(server)})

AddDiscovery(g, items) ==
    [g EXCEPT !.discovery_list = @ \o items,
              !.discovery_unsched_items = @ + Len(items)]

DiscoveryFree(g) ==
    [g EXCEPT !.discovery_list = <<>>, !.discovery_unsched_items = 0,
              !.discovery_timer = FALSE]

\* A way out of a handler that does not look whether gathering is done, which
\* `orphaned` remembers if nothing else is left that would.
WayOut(g) ==
    [g EXCEPT !.orphaned = @ \/ (g.gathering # {} /\ ~g.discovery_timer /\ g.lookups = <<>>)]

\* discovery_prune_stream and discovery_prune_socket, for the sockets given.
DiscoveryPrune(g, socks) ==
    LET list == g.discovery_list
        rest == Those(list, {d \in Range(list) : d.nicesock \notin socks})
    IN  IF rest # <<>> THEN [g EXCEPT !.discovery_list = rest] ELSE WayOut(DiscoveryFree(g))

\* nice_component_resolving_turn
ResolvingTurn(g, s) ==
    \E t \in Range(g.turn_servers[s]) : ~t.resolution_failed /\ t.server = None

StunResolvingList(g) == {l \in Range(g.lookups) : l.type = "STUN"}

\* agent_gathering_done and agent_signal_gathering_done.  That a STUN server
\* is still being resolved is only logged; `early` remembers it.
GatheringDone(g) ==
    IF g.discovery_timer \/ \E s \in g.gathering : ResolvingTurn(g, s) THEN g
    ELSE [g EXCEPT !.gathering = {},
                   !.early = @ \cup {l.stream : l \in {k \in StunResolvingList(g) :
                                                          k.stream \in g.gathering}}]

Request(method, tid, from, to, realm, zero) ==
    [kind |-> "request", method |-> method, tid |-> tid, from |-> from, to |-> to,
     realm |-> realm, zero |-> zero]

DiscoveryRequest(d) ==
    Request(IF d.type = "RELAYED" THEN "Allocate" ELSE "Binding",
            d.msg, d.nicesock, d.server, d.realm, FALSE)

\* One item of the tick.  st.pacing ends the loop, st.not_done keeps the timer.
TickItem(st, i, due) ==
    LET d == st.g.discovery_list[i]
        set(e) == [st.g EXCEPT !.discovery_list[i] = e]
        started == [d EXCEPT !.pending = TRUE, !.sends = 1, !.open = TRUE,
                             !.requests = @ + 1,
                             !.msg = <<"discovery", Id(d), d.requests>>]
        ended == [d EXCEPT !.pending = TRUE, !.done = TRUE, !.msg = None, !.open = FALSE]
        repeated == [d EXCEPT !.sends = @ + 1]
        counted(e) == [set(e) EXCEPT
                         !.discovery_unsched_items = IF @ > 0 THEN @ - 1 ELSE 0]
    IN  IF st.pacing \/ (d.pending /\ d.done) THEN st
        ELSE IF ~d.pending /\ d.server \in sc.unreachable
        THEN [st EXCEPT !.g = counted(ended)]
        ELSE IF ~d.pending
        THEN [g |-> [counted(started) EXCEPT !.out = @ \cup {DiscoveryRequest(started)}],
              not_done |-> TRUE, pacing |-> TRUE]
        ELSE IF d.msg = None \/ (Id(d) \in due /\ d.sends = Transmissions)
        THEN [st EXCEPT !.g = set(ended)]
        ELSE IF Id(d) \in due
        THEN [g |-> [set(repeated) EXCEPT !.out = @ \cup {DiscoveryRequest(repeated)}],
              not_done |-> TRUE, pacing |-> TRUE]
        ELSE [st EXCEPT !.not_done = TRUE]

TickItems(g, due) ==
    Each(LAMBDA st, i : TickItem(st, i, due), [g |-> g, not_done |-> FALSE, pacing |-> FALSE],
         [i \in DOMAIN g.discovery_list |-> i])

\* Mutant of DiscoveryTickUnlocked: the end of the list is not announced.
DiscoveryTickSilent(g, due) ==
    LET st == TickItems(g, due)
    IN  IF st.not_done THEN [st.g EXCEPT !.discovery_timer = TRUE] ELSE DiscoveryFree(st.g)

\* priv_discovery_tick_unlocked
DiscoveryTickUnlocked(g, due) ==
    LET st == TickItems(g, due)
    IN  IF st.not_done THEN [st.g EXCEPT !.discovery_timer = TRUE]
        ELSE GatheringDone(DiscoveryFree(st.g))

\* discovery_schedule: the first tick runs at once.
DiscoverySchedule(g) ==
    LET g1 == IF g.discovery_list = <<>> THEN Fail(g, "nothing to schedule") ELSE g
    IN  IF g1.discovery_unsched_items > 0 /\ ~g1.discovery_timer
        THEN DiscoveryTickUnlocked(g1, {}) ELSE g1

\* The end of the calls that add items.
ScheduleOrDone(g) ==
    IF g.discovery_unsched_items > 0 THEN DiscoverySchedule(g) ELSE GatheringDone(g)

-----------------------------------------------------------------------------
(* Refreshing and releasing allocations.                                   *)

Refresh(d) ==
    [id |-> Id(d), stream_id |-> d.stream_id, nicesock |-> d.nicesock, server |-> d.server,
     realm |-> d.realm, requests |-> 0, msg |-> None, open |-> FALSE, zero |-> FALSE,
     sends |-> 0, timer |-> FALSE, tick |-> FALSE, destroy |-> FALSE,
     disposing |-> FALSE, cb |-> None]

RefreshAt(g, id) == FirstOf({i \in DOMAIN g.refresh_list : g.refresh_list[i].id = id})
SetRefresh(g, r) == [g EXCEPT !.refresh_list[RefreshAt(g, r.id)] = r]
PruningRefreshes(g) == {r \in Range(g.refresh_list) : r.disposing}
RefreshesOf(g, s) == {r \in Range(g.refresh_list) : r.stream_id = s}

SocketsOf(g, s) == {k \in g.sockets : k[2] = s}

\* on_stream_refreshes_pruned: nice_stream_close frees what the component has.
StreamRefreshesPruned(g, s) ==
    [g EXCEPT !.pruning_streams = @ \ {s}, !.local_candidates[s] = <<>>,
              !.turn_servers[s] = <<>>, !.turn_candidate[s] = None,
              !.selected[s] = None, !.sockets = @ \ SocketsOf(g, s)]

\* on_refresh_removed, when the last refresh of a pruning is gone.  What
\* on_candidate_refreshes_pruned frees has left all lists before.
OnRefreshRemoved(g, cb) ==
    IF cb[1] # "stream" \/ \E r \in Range(g.refresh_list) : r.cb = cb THEN g
    ELSE StreamRefreshesPruned(g, cb[2])

\* refresh_free.  `lapsed` remembers allocations that were given up and
\* `unreleased` those freed before the server was asked to release them.
RefreshFree(g, id) ==
    LET i == RefreshAt(g, id)
        r == g.refresh_list[i]
        g1 == [g EXCEPT !.refresh_list = RemoveAt(@, i),
                        !.lapsed = IF r.disposing THEN @ ELSE @ \cup {id},
                        !.unreleased = IF r.disposing /\ ~r.zero THEN @ \cup {id} ELSE @]
    IN  IF r.disposing THEN OnRefreshRemoved(g1, r.cb) ELSE g1

\* refresh_prune_socket
RefreshPruneSocket(g, k) ==
    LET list == Those(g.refresh_list, {r \in Range(g.refresh_list) : r.nicesock = k})
        free(h, r) == IF RefreshAt(h, r.id) = 0 THEN h ELSE RefreshFree(h, r.id)
    IN  Each(free, g, list)

\* refresh_prune_async.  Refreshes that are on their way out are skipped, and
\* the callback runs at once if none is left.
RefreshPruneAsync(g, ids, cb) ==
    LET chosen(r) == r.id \in ids /\ ~r.disposing
        marked(r) == [r EXCEPT !.disposing = TRUE, !.destroy = TRUE, !.cb = cb]
        list == g.refresh_list
        g1 == [g EXCEPT !.refresh_list =
                  [i \in DOMAIN list |-> IF chosen(list[i]) THEN marked(list[i]) ELSE list[i]]
                  \o <<>>]
    IN  IF \E r \in Range(list) : chosen(r) THEN g1 ELSE OnRefreshRemoved(g1, cb)

\* nice_component_prune_relay_candidate
PruneRelayCandidate(g, id) == RefreshPruneAsync(g, {id}, <<"candidate", id>>)

\* A new Refresh request with its retransmission timer.
RefreshRequest(g, r, zero) ==
    LET r1 == [r EXCEPT !.requests = @ + 1, !.msg = <<"refresh", r.id, r.requests>>,
                        !.open = TRUE, !.zero = zero, !.sends = 1, !.tick = TRUE]
    IN  [SetRefresh(g, r1) EXCEPT !.out = @ \cup
            {Request("Refresh", r1.msg, r1.nicesock, r1.server, r1.realm, zero)}]

\* priv_turn_allocate_refresh_tick_unlocked
RefreshTickUnlocked(g, r) == RefreshRequest(g, [r EXCEPT !.timer = FALSE], r.disposing)

\* refresh_remove_async
RefreshRemoveAsync(g, r) ==
    RefreshRequest(g, [r EXCEPT !.timer = FALSE, !.destroy = FALSE], TRUE)

\* priv_turn_allocate_refresh_retransmissions_tick_agent_locked and
\* on_refresh_remove_timeout
RefreshRetransmissionsTick(g, r) ==
    IF r.sends = Transmissions THEN RefreshFree(g, r.id)
    ELSE [SetRefresh(g, [r EXCEPT !.sends = @ + 1]) EXCEPT !.out = @ \cup
            {Request("Refresh", r.msg, r.nicesock, r.server, r.realm, r.zero)}]

-----------------------------------------------------------------------------
(* Replies of the servers.                                                 *)

\* Where the item or the refresh is whose request is answered.
Answered(list, tid) == FirstOf({i \in DOMAIN list : list[i].msg = tid /\ list[i].open})
DiscoveryAt(g, tid) == Answered(g.discovery_list, tid)
RefreshFor(g, tid) == Answered(g.refresh_list, tid)

SetDiscovery(g, i, d) == [g EXCEPT !.discovery_list[i] = d]

Ended(d) == [d EXCEPT !.msg = None, !.open = FALSE, !.done = TRUE]

\* Mutant of Rescheduled: the item is not counted.
RescheduledUncounted(g, i, d) ==
    SetDiscovery(g, i, [d EXCEPT !.pending = FALSE, !.open = FALSE])

\* The item is to be sent again; the tick counts it anew.
Rescheduled(g, i, d) ==
    [SetDiscovery(g, i, [d EXCEPT !.pending = FALSE, !.open = FALSE])
       EXCEPT !.discovery_unsched_items = @ + 1]

\* The error asks for credentials that have not been tried.
Challenged(code, realm) == code = "stale" \/ (code = "unauthorized" /\ ~realm)

\* priv_map_reply_to_discovery_request
ReplyToDiscoveryRequest(g, i, m) ==
    LET d == g.discovery_list[i]
    IN  CASE m.code = "alternate" -> Rescheduled(g, i, [d EXCEPT !.server = m.alternate])
          [] m.code = "success" ->
               SetDiscovery(AddServerReflexive(g, d, m.mapped), i, Ended(d))
          [] OTHER -> SetDiscovery(g, i, Ended(d))

\* priv_handle_turn_alternate_server: all items on the same server move.
TurnAlternateServer(g, d, alternate) ==
    LET moves(e) == ~e.done /\ e.type = d.type /\ e.stream_id = d.stream_id /\ e.server = d.server
        list == g.discovery_list
        moved(e) == [e EXCEPT !.msg = None, !.open = FALSE, !.pending = FALSE, !.server = alternate]
        keys == {e.turn : e \in {x \in Range(list) : moves(x)}}
        server(t) == IF t.key \in keys THEN [t EXCEPT !.server = alternate] ELSE t
    IN  [g EXCEPT !.discovery_list =
                     [i \in DOMAIN list |-> IF moves(list[i]) THEN moved(list[i]) ELSE list[i]]
                     \o <<>>,
                  !.discovery_unsched_items = @ + Cardinality({i \in DOMAIN list : moves(list[i])}),
                  !.turn_servers[d.stream_id] = [i \in DOMAIN @ |-> server(@[i])] \o <<>>]

\* discovery_add_relay_candidate and priv_add_new_turn_refresh: a redundant
\* allocation is released again.
AddRelayCandidate(g, d, addr) ==
    LET c == Candidate("RELAYED", addr, d.nicesock, Id(d))
        r == Refresh(d)
    IN  IF Redundant(g, d.stream_id, c)
        THEN PruneRelayCandidate([g EXCEPT !.refresh_list = Append(@, r)], r.id)
        ELSE [AddLocalCandidate(g, d.stream_id, c) EXCEPT
                !.refresh_list = Append(@, [r EXCEPT !.timer = TRUE])]

\* priv_map_reply_to_relay_request
ReplyToRelayRequest(g, i, m) ==
    LET d == g.discovery_list[i]
    IN  CASE m.code = "alternate" -> TurnAlternateServer(g, d, m.alternate)
          [] m.code = "success" ->
               SetDiscovery(AddRelayCandidate(AddServerReflexive(g, d, m.mapped), d, m.addr),
                            i, Ended(d))
          [] Challenged(m.code, d.realm) -> Rescheduled(g, i, [d EXCEPT !.realm = TRUE])
          [] OTHER -> SetDiscovery(g, i, Ended(d))

\* priv_map_reply_to_relay_refresh
ReplyToRelayRefresh(g, r, m) ==
    LET g1 == IF r.tick THEN g ELSE Fail(g, "refresh without a timer")
    IN  CASE m.code = "success" ->
               SetRefresh(g1, [r EXCEPT !.open = FALSE, !.timer = TRUE, !.tick = FALSE])
          [] Challenged(m.code, r.realm) -> RefreshTickUnlocked(g, [r EXCEPT !.realm = TRUE])
          [] OTHER -> RefreshFree(g, r.id)

\* priv_map_reply_to_relay_remove: whatever the answer, the refresh is freed.
ReplyToRelayRemove(g, r) == RefreshFree(g, r.id)

\* The part of conn_check_handle_inbound_stun for replies to the requests of
\* this module.
HandleReply(g, m) ==
    LET i == DiscoveryAt(g, m.tid)
        j == RefreshFor(g, m.tid)
    IN  CASE i # 0 /\ g.discovery_list[i].type = "RELAYED" -> ReplyToRelayRequest(g, i, m)
          [] i # 0 /\ g.discovery_list[i].type # "RELAYED" -> ReplyToDiscoveryRequest(g, i, m)
          [] i = 0 /\ j = 0 -> g
          [] i = 0 /\ j # 0 /\ ~g.refresh_list[j].disposing ->
               ReplyToRelayRefresh(g, g.refresh_list[j], m)
          [] OTHER -> ReplyToRelayRemove(g, g.refresh_list[j])

-----------------------------------------------------------------------------
(* Calls of the application and answers of the resolver.                   *)

Lookup(type, s, key) ==
    [type |-> type, stream |-> s, key |-> key, counted |-> TRUE, cancelled |-> FALSE]

TurnServer(name) ==
    [key |-> <<name, 1>>, server |-> IF name \in DOMAIN sc.dns THEN None ELSE name,
     resolution_failed |-> FALSE]

TurnServerAt(g, s, key) ==
    FirstOf({i \in DOMAIN g.turn_servers[s] : g.turn_servers[s][i].key = key})
LookupAt(g, l) == FirstOf({i \in DOMAIN g.lookups : g.lookups[i] = l})

\* The discovery items for one server and the hosts that can reach it.
Items(g, s, type, server, key) ==
    LET able == Able(g, s, server)
    IN  [i \in DOMAIN able |-> Discovery(type, able[i].base, server, key)]

\* nice_agent_set_relay_info, refused when the component has all the servers it
\* may have.  (The copies that turn_server_resolved_cb adds are not held to the
\* limit, and a list they made longer than that is not refused.)
SetRelayInfo(g, s, name) ==
    LET t == TurnServer(name)
        g1 == [g EXCEPT !.turn_servers[s] = Append(@, t),
                        !.lookups = IF t.server = None
                                    THEN Append(@, Lookup("TURN", s, t.key)) ELSE @,
                        !.gathering = IF s \in g.gathering_started THEN @ \cup {s} ELSE @]
        items == Items(g, s, "RELAYED", t.server, t.key)
        g2 == AddDiscovery(g1, items)
    IN  IF Len(g.turn_servers[s]) = MaxTurnServers THEN g
        ELSE IF s \notin g.gathering_started \/ t.server = None THEN g1
        ELSE IF g2.discovery_unsched_items > 0 THEN DiscoverySchedule(g2)
        ELSE WayOut(g2)

\* The relay items of a stream, in the order of its hosts.
RelayItems(g, s) ==
    LET servers == g.turn_servers[s]
        valid == {t \in Range(servers) : t.server # None}
        of(c) == LET able == Those(servers, {t \in valid : Version(t.server) = Version(c.addr[1])})
                 IN  [i \in DOMAIN able |->
                        Discovery("RELAYED", c.base, able[i].server, able[i].key)]
        hosts == HostCandidates(g, s)
    IN  Joined([i \in DOMAIN hosts |-> of(hosts[i])])

\* nice_agent_gather_candidates.  Without a host, or with a port that is taken
\* (the last host's), everything but the lookup is undone.
GatherCandidates(g, s) ==
    LET made == IF sc.clash THEN SubSeq(sc.hosts, 1, Len(sc.hosts) - 1) ELSE sc.hosts
        g1 == IF sc.stun = <<>> THEN g
              ELSE [g EXCEPT !.lookups = <<Lookup("STUN", s, None)>> \o @]
        g2 == AddHosts(g1, s, made)
        g3 == AddDiscovery(g2, RelayItems(g2, s))
        failed == DiscoveryPrune(g3, SocketsOf(g3, s))
        started == [g3 EXCEPT !.gathering = @ \cup {s}, !.gathering_started = @ \cup {s}]
    IN  IF s \in g.gathering_started THEN g
        ELSE IF sc.hosts = <<>> \/ sc.clash
        THEN [failed EXCEPT !.local_candidates[s] = <<>>, !.sockets = @ \ SocketsOf(g3, s)]
        ELSE IF started.discovery_unsched_items > 0 THEN DiscoverySchedule(started)
        ELSE IF StunResolvingList(started) = {} /\ ~ResolvingTurn(started, s)
        THEN GatheringDone(started)
        ELSE started

\* stun_server_resolved_cb
StunServerResolved(g, l, ok) ==
    LET g1 == [g EXCEPT !.lookups = RemoveAt(@, LookupAt(g, l))]
        items == [k \in DOMAIN sc.stun |->
                    Items(g1, l.stream, "SERVER_REFLEXIVE", sc.stun[k], <<"stun", k>>)]
    IN  IF ~ok \/ g.close # "open" THEN WayOut(g1)
        ELSE IF l.stream \notin g.streams THEN Fail(g1, "stream of a lookup")
        ELSE ScheduleOrDone(AddDiscovery(g1, Joined(items)))

\* turn_server_resolved_cb, second part: further addresses are further servers.
TurnServerResolved(g, l, ok) ==
    LET s == l.stream
        g1 == [g EXCEPT !.lookups = RemoveAt(@, LookupAt(g, l))]
        at == TurnServerAt(g, s, l.key)
        addrs == sc.dns[l.key[1]]
        resolved == [k \in DOMAIN addrs |-> [key |-> <<l.key[1], k>>, server |-> addrs[k],
                                            resolution_failed |-> FALSE]]
        items == [k \in DOMAIN addrs |->
                    Items(g, s, "RELAYED", addrs[k], <<l.key[1], k>>)]
        g2 == [g1 EXCEPT !.turn_servers[s] = [@ EXCEPT ![at] = resolved[1]] \o Tail(resolved)]
    IN  IF at = 0 THEN WayOut(g1)
        ELSE IF ~ok \/ l.cancelled
        THEN WayOut([g1 EXCEPT !.turn_servers[s][at].resolution_failed = TRUE])
        ELSE ScheduleOrDone(IF s \in g.gathering_started THEN AddDiscovery(g2, Joined(items))
                            ELSE g2)

\* Mutant of CleanTurnServers: a selected relay is not set aside.
CleanTurnServersKeepNone(g, s) ==
    LET list == g.local_candidates[s]
        relayed == {c \in Range(list) : c.type = "RELAYED"}
        g1 == [g EXCEPT !.turn_servers[s] = <<>>,
                        !.local_candidates[s] = Those(@, Range(@) \ relayed)]
    IN  Each(LAMBDA h, c : PruneRelayCandidate(h, c.id), g1, Those(list, relayed \ {g.selected[s]}))

\* nice_component_clean_turn_servers: a selected relay lives on aside.
CleanTurnServers(g, s) ==
    LET list == g.local_candidates[s]
        old == g.turn_candidate[s]
        relayed == {c \in Range(list) : c.type = "RELAYED"}
        kept == relayed \cap {g.selected[s]}
        gone == Those(list, relayed \ kept) \o (IF kept = {} \/ old = None THEN <<>> ELSE <<old>>)
        g1 == [g EXCEPT !.turn_servers[s] = <<>>,
                        !.local_candidates[s] = Those(@, Range(@) \ relayed),
                        !.turn_candidate[s] = IF kept = {} THEN @ ELSE g.selected[s]]
    IN  Each(LAMBDA h, c : PruneRelayCandidate(h, c.id), g1, gone)

\* nice_component_update_selected_pair
UpdateSelectedPair(g, s, c) ==
    LET old == g.turn_candidate[s]
        g1 == [g EXCEPT !.selected[s] = c]
    IN  IF old = None \/ g.selected[s] # old THEN g1
        ELSE PruneRelayCandidate([g1 EXCEPT !.turn_candidate[s] = None], old.id)

\* nice_component_remove_socket
RemoveSocket(g, s, k) ==
    LET g1 == DiscoveryPrune(g, {k})
        g2 == RefreshPruneSocket(g1, k)
        all == Range(g.local_candidates[s])
        gone == {c \in all : c.base = k}
    IN  [g2 EXCEPT !.local_candidates[s] = Those(@, all \ gone),
                   !.selected[s] = IF @ \in gone THEN None ELSE @,
                   !.sockets = @ \ {k}]

\* nice_agent_remove_stream_internal
RemoveStream(g, s) ==
    LET g1 == DiscoveryPrune([g EXCEPT !.gathering = @ \ {s}], SocketsOf(g, s))
        cancelled(l) == IF l.stream = s /\ l.type = "TURN" THEN [l EXCEPT !.cancelled = TRUE] ELSE l
        g2 == [g1 EXCEPT !.streams = @ \ {s}, !.pruning_streams = @ \cup {s},
                         !.gathering_started = @ \ {s},
                         !.lookups = [i \in DOMAIN @ |-> cancelled(@[i])] \o <<>>]
    IN  RefreshPruneAsync(g2, {r.id : r \in RefreshesOf(g, s)}, <<"stream", s>>)

\* nice_agent_close_async
CloseAsync(g) ==
    Each(RemoveStream, [g EXCEPT !.close = "pending"], Ordered(g.streams))

\* agent_unlock_and_emit: a pending close completes when nothing is under way.
UnlockAndEmit(g) ==
    IF /\ g.close = "pending" /\ PruningRefreshes(g) = {} /\ StunResolvingList(g) = {}
       /\ ~\E l \in Range(g.lookups) : l.type = "TURN" /\ l.counted
    THEN [g EXCEPT !.close = "done"] ELSE g

-----------------------------------------------------------------------------
(* The specification.                                                      *)

NewAgent ==
    [streams |-> Streams, pruning_streams |-> {}, gathering_started |-> {}, gathering |-> {},
     turn_servers |-> [s \in Streams |-> <<>>], local_candidates |-> [s \in Streams |-> <<>>],
     sockets |-> {}, turn_candidate |-> [s \in Streams |-> None],
     selected |-> [s \in Streams |-> None], lookups |-> <<>>,
     discovery_list |-> <<>>, discovery_unsched_items |-> 0, discovery_timer |-> FALSE,
     refresh_list |-> <<>>, close |-> "open", out |-> {}, failed |-> {},
     orphaned |-> FALSE, early |-> {}, lapsed |-> {}, unreleased |-> {}]

Init ==
    /\ sc \in Scenarios
    /\ agent = NewAgent
    /\ calls = sc.calls
    /\ net = {} /\ allocs = {}
    /\ faults = sc.faults /\ refreshes = sc.refreshes

\* The end of a handler: the lock is released and what it wrote is under way.
\* An agent that failed runs no more handlers.
Leave(g, rest) ==
    /\ agent.failed = {}
    /\ agent' = [UnlockAndEmit(g) EXCEPT !.out = {}]
    /\ net' = rest \cup g.out

Fault(kind, cost) ==
    /\ cost => kind \in sc.kinds /\ faults > 0
    /\ faults' = IF cost THEN faults - 1 ELSE faults

Sent(kind) == {m \in net : m.kind = kind}
InFlight(tid) == \E m \in net : m.tid = tid

\* What a call does.  Calls on a stream that is gone return at once.
Effect(g, c) ==
    CASE c[1] = "gather" -> GatherCandidates(g, c[2])
      [] c[1] = "relay" -> SetRelayInfo(g, c[2], c[3])
      [] c[1] = "forget" -> CleanTurnServers(g, c[2])
      [] c[1] = "remove" -> RemoveStream(g, c[2])
      [] c[1] = "close" -> CloseAsync(g)

\* Calls come in the order of the scenario, at any time.
Call ==
    /\ calls # <<>>
    /\ LET c == Head(calls) IN
         Leave(IF c[1] # "close" /\ c[2] \notin agent.streams THEN agent ELSE Effect(agent, c), net)
    /\ calls' = Tail(calls)
    /\ UNCHANGED <<sc, allocs, faults, refreshes>>

\* Connectivity checks choose a candidate (conncheck.c).
Select(s, c) ==
    /\ sc.selects /\ s \in agent.streams /\ c # agent.selected[s]
    /\ Leave(UpdateSelectedPair(agent, s, c), net)
    /\ UNCHANGED <<sc, calls, allocs, faults, refreshes>>

StunResolved(l, ok) ==
    /\ l.type = "STUN"
    /\ Fault("dns", ~ok)
    /\ Leave(StunServerResolved(agent, l, ok), net)
    /\ UNCHANGED <<sc, calls, allocs, refreshes>>

\* turn_server_resolved_cb counts the lookup, lets go of the lock ...
TurnLookupCounted(l) ==
    /\ l.type = "TURN" /\ l.counted
    /\ Leave([agent EXCEPT !.lookups[LookupAt(agent, l)].counted = FALSE], net)
    /\ UNCHANGED <<sc, calls, allocs, faults, refreshes>>

\* ... and takes it again.
TurnResolved(l, ok) ==
    /\ l.type = "TURN" /\ ~l.counted
    /\ Fault("dns", ~ok)
    /\ Leave(TurnServerResolved(agent, l, ok), net)
    /\ UNCHANGED <<sc, calls, allocs, refreshes>>

\* priv_discovery_tick_agent_locked
DiscoveryTick(due, late) ==
    /\ agent.discovery_timer
    /\ Fault("late", late # {})
    /\ Leave(DiscoveryTickUnlocked(agent, due \cup late), net)
    /\ UNCHANGED <<sc, calls, allocs, refreshes>>

\* priv_turn_allocate_refresh_tick_agent_locked
RefreshTick(r) ==
    /\ r.timer /\ refreshes > 0
    /\ refreshes' = refreshes - 1
    /\ Leave(RefreshTickUnlocked(agent, r), net)
    /\ UNCHANGED <<sc, calls, allocs, faults>>

RefreshRemove(r) ==
    /\ r.destroy
    /\ Leave(RefreshRemoveAsync(agent, r), net)
    /\ UNCHANGED <<sc, calls, allocs, faults, refreshes>>

RefreshRetransmit(r) ==
    /\ r.tick
    /\ Fault("late", InFlight(r.msg))
    /\ Leave(RefreshRetransmissionsTick(agent, r), net)
    /\ UNCHANGED <<sc, calls, allocs, refreshes>>

\* An error of the socket, found by component_io_cb.
SocketError(k) ==
    /\ k[2] \in agent.streams
    /\ Fault("socket", TRUE)
    /\ Leave(RemoveSocket(agent, k[2], k), net)
    /\ UNCHANGED <<sc, calls, allocs, refreshes>>

\* component_io_cb reads nothing for a stream that has been removed.
Receive(m) ==
    /\ Leave(IF m.to \in agent.sockets /\ m.to[2] \in agent.streams
             THEN HandleReply(agent, m) ELSE agent, net \ {m})
    /\ UNCHANGED <<sc, calls, allocs, faults, refreshes>>

\* What a server may answer, and whether that is out of the ordinary.
Answers(m) ==
    LET usual == CASE m.method = "Binding" -> "success"
                   [] m.method = "Allocate" -> IF m.realm THEN "success" ELSE "unauthorized"
                   [] m.method = "Refresh" -> IF <<m.to, m.from>> \in allocs THEN "success"
                                              ELSE "error"
    IN  {<<usual, FALSE>>, <<"error", TRUE>>}
          \cup (IF m.method = "Binding" THEN {} ELSE {<<"stale", TRUE>>})
          \cup (IF m.method = "Refresh" \/ m.to = sc.alternate THEN {}
                ELSE {<<"alternate", TRUE>>})

Serve(m, answer, unusual) ==
    /\ Fault(answer, unusual)
    /\ net' = (net \ {m}) \cup
          {[kind |-> "response", tid |-> m.tid, to |-> m.from, code |-> answer,
            addr |-> <<m.to, m.from>>, mapped |-> <<sc.nat[m.from[1]], m.from>>,
            alternate |-> sc.alternate]}
    /\ allocs' = CASE answer # "success" \/ m.method = "Binding" -> allocs
                   [] answer = "success" /\ m.zero -> allocs \ {<<m.to, m.from>>}
                   [] OTHER -> allocs \cup {<<m.to, m.from>>}
    /\ UNCHANGED <<sc, agent, calls, refreshes>>

Lose(m) ==
    /\ Fault("lose", TRUE)
    /\ net' = net \ {m}
    /\ UNCHANGED <<sc, agent, calls, allocs, refreshes>>

\* Items whose retransmission timer may have run out: with nothing in flight,
\* or early.
Waiting(flying) ==
    {Id(d) : d \in {x \in Range(agent.discovery_list) :
                       x.pending /\ x.msg # None /\ InFlight(x.msg) = flying}}

System ==
    \/ \E l \in Range(agent.lookups) :
          \/ TurnLookupCounted(l)
          \/ \E ok \in BOOLEAN : StunResolved(l, ok) \/ TurnResolved(l, ok)
    \/ \E due \in SUBSET Waiting(FALSE), late \in SUBSET Waiting(TRUE) : DiscoveryTick(due, late)
    \/ \E r \in Range(agent.refresh_list) : RefreshRemove(r) \/ RefreshRetransmit(r)
    \/ \E m \in Sent("response") : Receive(m)
    \/ \E m \in Sent("request") : \E a \in Answers(m) : Serve(m, a[1], a[2])

Environment ==
    \/ Call
    \/ \E s \in Streams : \E c \in Range(agent.local_candidates[s]) : Select(s, c)
    \/ \E r \in Range(agent.refresh_list) : RefreshTick(r)
    \/ \E k \in agent.sockets : SocketError(k)
    \/ \E m \in net : Lose(m)

Next == System \/ Environment
Spec == Init /\ [][Next]_vars

\* The loop dispatches what is ready, names resolve or fail, and messages that
\* are not lost arrive.  Ready is the condition under which a step of System
\* changes something: the weak fairness of System, with its guard spelled out.
Ready ==
    /\ agent.failed = {}
    /\ \/ agent.lookups # <<>> \/ agent.discovery_timer \/ net # {}
       \/ \E r \in Range(agent.refresh_list) : r.destroy \/ r.tick

FairSpec == Spec /\ (<>[]Ready => []<><<System>>_vars)

-----------------------------------------------------------------------------
(* Properties.                                                             *)

TypeOK ==
    /\ agent.streams \cup agent.pruning_streams \subseteq Streams
    /\ agent.gathering \subseteq agent.gathering_started
    /\ agent.gathering_started \subseteq agent.streams
    /\ agent.discovery_unsched_items \in Nat
    /\ \A d \in Range(agent.discovery_list) :
          /\ d.sends \in 0..Transmissions /\ (d.done => d.msg = None /\ ~d.open)
          /\ d.nicesock \in agent.sockets
    /\ \A r \in Range(agent.refresh_list) : r.sends \in 0..Transmissions /\ r.zero \in BOOLEAN
    /\ agent.close \in {"open", "pending", "done"} /\ agent.out = {}
    /\ faults \in 0..sc.faults /\ refreshes \in 0..sc.refreshes

\* Discovery never comes to a standstill: while the list has items the timer
\* runs, items that have not been sent are counted (so that whoever adds more
\* schedules them), and the counter is never positive with an empty list, which
\* discovery_schedule() asserts.
Driven ==
    LET unsent == {i \in DOMAIN agent.discovery_list : ~agent.discovery_list[i].pending}
    IN  /\ agent.discovery_timer <=> agent.discovery_list # <<>>
        /\ Cardinality(unsent) <= agent.discovery_unsched_items
        /\ agent.discovery_unsched_items > 0 => agent.discovery_list # <<>>
        /\ agent.failed \subseteq {"stream of a lookup"}

\* When "candidate-gathering-done" has been signalled for a stream nothing is
\* being discovered or resolved for it, unless its STUN server was still being
\* resolved at the time (`early`).
DoneMeansComplete ==
    \A s \in agent.gathering_started \ (agent.gathering \cup agent.early) :
        /\ \A d \in Range(agent.discovery_list) : d.stream_id = s => d.done
        /\ ~\E l \in Range(agent.lookups) : l.stream = s /\ l.type = "STUN"
        /\ ~ResolvingTurn(agent, s)

\* No refresh is forgotten: a request under way is retransmitted, a refresh that
\* is kept has exactly one of its two timers, and one that is disposed of is
\* about to be destroyed or waits for the answer to a lifetime of zero, so that
\* the callback that completes a close is called.
RefreshesTimed ==
    \A r \in Range(agent.refresh_list) :
        /\ r.open => r.tick
        /\ ~r.disposing => r.timer # r.tick
        /\ r.disposing => r.destroy \/ (r.tick /\ r.zero)

\* Gathering does not stand still, and neither do the allocations.
DiscoveryDriven == TypeOK /\ Driven /\ RefreshesTimed

\* Allocations and relayed candidates correspond: a refresh that is not being
\* disposed of belongs to a candidate of the component (or the one set aside),
\* and every such candidate is refreshed unless the server gave it up.
Relays(s) ==
    {c.id : c \in {x \in Range(agent.local_candidates[s]) \cup {agent.turn_candidate[s]} :
                      x # None /\ x.type = "RELAYED"}}

RelaysAreRefreshed ==
    \A s \in agent.streams :
        {r.id : r \in {x \in RefreshesOf(agent, s) : ~x.disposing}} = Relays(s) \ agent.lapsed

\* Gathering ends: a stream that gathers is told so or removed, unless one of
\* the ways out was taken that signal nothing (`orphaned`) or the agent failed.
GatheringEnds ==
    \A s \in Streams :
        s \in agent.gathering ~>
            (s \notin agent.gathering \/ agent.orphaned \/ agent.failed # {})

\* A close completes, and then no stream, socket or refresh is left.
CloseCompletes ==
    agent.close = "pending" ~>
        /\ agent.close = "done"
        /\ agent.pruning_streams = {} /\ agent.refresh_list = <<>> /\ agent.sockets = {}

\* What was begun comes to its end, and the end is not announced too soon.
EndsAreReached == GatheringEnds /\ CloseCompletes /\ []DoneMeansComplete
=============================================================================
