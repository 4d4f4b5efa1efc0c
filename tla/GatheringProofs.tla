-------------------------- MODULE GatheringProofs ---------------------------
(***************************************************************************)
(* Gathering (module Gathering) does not stand still, for any streams,     *)
(* hosts, servers, names, calls and faults: what is in the discovery list  *)
(* is driven by the timer, and what has not been sent is counted.  The     *)
(* invariant is that of module GatheringInvariant.                         *)
(***************************************************************************)
EXTENDS GatheringInvariant

-----------------------------------------------------------------------------
(* Calls of the application and answers of the resolver.                   *)

\* What the servers and the lookups leave alone.
Beside(h, g) ==
    /\ DOMAIN h = AgentFields
    /\ h.streams = g.streams /\ h.pruning_streams = g.pruning_streams
    /\ h.gathering_started = g.gathering_started /\ h.local_candidates = g.local_candidates
    /\ h.sockets = g.sockets /\ h.refresh_list = g.refresh_list /\ h.close = g.close
    /\ SameDiscovery(h, g)

\* What they change has to stay in order by itself.
LEMMA BesideSound ==
    ASSUME NEW g, Sound(g), NEW h, Beside(h, g), h.gathering \subseteq g.gathering_started,
           Served(h.turn_servers), LookedUp(h.lookups, DOMAIN sc.dns),
           h.failed \subseteq {"stream of a lookup"}
    PROVE  Sound(h) /\ (Whole(g) => Whole(h))
  <1>1. Nested(h.streams, h.pruning_streams, h.gathering_started, h.gathering)
    BY Zenon DEF Sound, Beside, Nested
  <1>2. Sound(h)
    BY <1>1, Zenon DEF Sound, Beside, SameDiscovery
  <1> QED BY <1>2, Zenon DEF Whole, Beside, SameDiscovery

\* A new item.
LEMMA NewItem ==
    ASSUME NEW socks, NEW streams, NEW sock \in socks, sock[2] \in streams,
           NEW type, NEW server, NEW key
    PROVE  /\ IsItem(Discovery(type, sock, server, key), socks, streams)
           /\ Discovery(type, sock, server, key).nicesock = sock
  <1> DEFINE d == Discovery(type, sock, server, key)
  <1>1. /\ DOMAIN d = ItemFields /\ d.pending = FALSE /\ d.done = FALSE /\ d.open = FALSE
        /\ d.sends = 0 /\ d.nicesock = sock /\ d.stream_id = sock[2]
    BY DEF Discovery, ItemFields
  <1>2. 0 \in 0..Transmissions
    BY GatheringAssumption
  <1> HIDE DEF d
  <1>3. IsItem(d, socks, streams)
    BY <1>1, <1>2, Zenon DEF IsItem
  <1> QED BY <1>1, <1>3 DEF d

\* The hosts of a stream have sockets of the stream.
LEMMA HostsAre ==
    ASSUME NEW g, Sound(g), NEW s \in g.streams
    PROVE  /\ IsList(HostCandidates(g, s))
           /\ \A c \in Range(HostCandidates(g, s)) : c.base \in g.sockets /\ c.base[2] = s
  <1> DEFINE l == g.local_candidates[s]
             S == {c \in Range(l) : c.type = "HOST"}
  <1>1. /\ IsList(l) /\ \A c \in Range(l) : c.base \in g.sockets /\ c.base[2] = s
    BY Zenon DEF Sound, Based, Nested
  <1>2. HostCandidates(g, s) = Those(l, S)
    BY Zenon DEF HostCandidates
  <1> HIDE DEF S
  <1>3. IsList(Those(l, S)) /\ Range(Those(l, S)) \subseteq Range(l)
    BY <1>1, ThoseIsList
  <1> QED BY <1>1, <1>2, <1>3, Zenon

\* The items for a server have sockets of the stream.
LEMMA ItemsItemized ==
    ASSUME NEW g, Sound(g), NEW s \in g.streams, NEW type, NEW server, NEW key
    PROVE  Itemized(Items(g, s, type, server, key), g.sockets, g.streams)
  <1> DEFINE hosts == HostCandidates(g, s)
             able == Able(g, s, server)
             S == {c \in Range(hosts) : Version(c.addr[1]) = Version(server)}
             k == [i \in DOMAIN able |-> Discovery(type, able[i].base, server, key)]
  <1>0. IsList(hosts) /\ \A c \in Range(hosts) : c.base \in g.sockets /\ c.base[2] = s
    BY HostsAre
  <1>1. able = Those(hosts, S)
    BY Zenon DEF Able
  <1>2. Items(g, s, type, server, key) = k
    BY Zenon DEF Items
  <1> HIDE DEF S, hosts
  <1>3. IsList(able) /\ Range(able) \subseteq Range(hosts)
    BY <1>0, <1>1, ThoseIsList
  <1> HIDE DEF able
  <1>4. /\ k = [i \in DOMAIN able |-> k[i]] /\ DOMAIN able = 1..Len(able)
        /\ \A i \in DOMAIN able : k[i] = Discovery(type, able[i].base, server, key)
    BY <1>3, ListIs
  <1> HIDE DEF k
  <1>5. IsList(k) /\ \A x \in Range(k) : \E i \in 1..Len(able) : x = k[i] /\ able[i] \in Range(able)
    BY <1>3, <1>4, MappedIsList
  <1>6. ASSUME NEW x \in Range(k) PROVE IsItem(x, g.sockets, g.streams)
    <2>1. PICK i \in 1..Len(able) : x = k[i] /\ able[i] \in Range(able)
      BY <1>5, Zenon
    <2>2. able[i].base \in g.sockets /\ able[i].base[2] \in g.streams
      BY <1>0, <1>3, <2>1, Zenon
    <2>3. IsItem(Discovery(type, able[i].base, server, key), g.sockets, g.streams)
      BY <2>2, NewItem
    <2> QED BY <1>4, <2>1, <2>3, Zenon
  <1> QED BY <1>2, <1>5, <1>6, Zenon DEF Itemized

\* The items for all addresses of a name.
LEMMA AllItems ==
    ASSUME NEW l, IsList(l), NEW k, k = [i \in DOMAIN l |-> k[i]], NEW socks, NEW streams,
           \A i \in DOMAIN l : Itemized(k[i], socks, streams)
    PROVE  Itemized(Joined(k), socks, streams)
  <1> DEFINE S == UNION {Range(k[i]) : i \in DOMAIN l}
  <1>1. IsList(k) /\ Len(k) = Len(l) /\ DOMAIN l = 1..Len(l)
    BY MappedIsList, ListIs
  <1>2. \A i \in 1..Len(k) : IsList(k[i]) /\ Range(k[i]) \subseteq S
    BY <1>1, Zenon DEF Itemized
  <1>3. \A x \in S : IsItem(x, socks, streams)
    BY Zenon DEF Itemized
  <1> HIDE DEF S
  <1>4. IsList(Joined(k)) /\ Range(Joined(k)) \subseteq S
    BY <1>1, <1>2, JoinedIsList
  <1> QED BY <1>3, <1>4, Zenon DEF Itemized

\* nice_agent_set_relay_info schedules the items it adds.
LEMMA SetRelayInfoWhole ==
    ASSUME NEW g, Whole(g), NEW s \in g.streams, NEW name, name # None
    PROVE  Whole(SetRelayInfo(g, s, name))
  <1> DEFINE t == TurnServer(name)
             ts == g.turn_servers
             a == Append(ts[s], t)
             b == IF t.server = None THEN Append(g.lookups, Lookup("TURN", s, t.key)) ELSE g.lookups
             c == IF s \in g.gathering_started THEN g.gathering \cup {s} ELSE g.gathering
             g1 == [g EXCEPT !.turn_servers = Placed(ts, s, a), !.lookups = b, !.gathering = c]
             items == Items(g, s, "RELAYED", t.server, t.key)
             g2 == AddDiscovery(g1, items)
  <1>0. /\ Sound(g) /\ DOMAIN g = AgentFields /\ Served(ts) /\ LookedUp(g.lookups, DOMAIN sc.dns)
        /\ s \in Streams /\ g.gathering \subseteq g.gathering_started
        /\ g.failed \subseteq {"stream of a lookup"}
    BY Zenon DEF Whole, Sound, Nested
  <1>1. \/ SetRelayInfo(g, s, name) = g
        \/ SetRelayInfo(g, s, name) = g1
        \/ g2.discovery_unsched_items > 0 /\ SetRelayInfo(g, s, name) = DiscoverySchedule(g2)
        \/ ~(g2.discovery_unsched_items > 0) /\ SetRelayInfo(g, s, name) = WayOut(g2)
    BY Zenon DEF SetRelayInfo, Placed
  <1>2. t.server = None => name \in DOMAIN sc.dns /\ t.key[1] = name
    BY DEF TurnServer
  <1>3. LookedUp(b, DOMAIN sc.dns)
    <2> DEFINE l == Lookup("TURN", s, t.key)
    <2>1. CASE t.server = None
      <3>1. DOMAIN l = LookupFields /\ l.stream = s /\ l.type = "TURN" /\ l.key = t.key
        BY DEF Lookup, LookupFields
      <3> HIDE DEF l, t
      <3>2. IsLookup(l, DOMAIN sc.dns)
        BY <1>0, <1>2, <2>1, <3>1, Zenon DEF IsLookup
      <3>3. IsList(Append(g.lookups, l)) /\ Range(Append(g.lookups, l)) \subseteq Range(g.lookups) \cup {l}
        BY <1>0, AppendIsList DEF LookedUp
      <3>4. b = Append(g.lookups, l)
        BY <2>1 DEF l
      <3> HIDE DEF b
      <3> QED BY <1>0, <3>2, <3>3, <3>4, Zenon DEF LookedUp
    <2>2. CASE t.server # None
      BY <1>0, <2>2, Zenon
    <2> QED BY <2>1, <2>2
  <1>4. IsList(ts[s])
    BY <1>0, Zenon DEF Served
  <1>5. Served(Placed(ts, s, a))
    <2>1. IsList(a)
      BY <1>4, AppendIsList
    <2> HIDE DEF a
    <2> QED BY <1>0, <2>1, PlacedServed
  <1>6. c \subseteq g.gathering_started
    BY <1>0, Zenon
  <1>7. Itemized(items, g.sockets, g.streams)
    BY <1>0, ItemsItemized
  <1> HIDE DEF a, b, c, items, t
  <1>8. /\ Beside(g1, g) /\ g1.gathering = c /\ g1.turn_servers = Placed(ts, s, a)
        /\ g1.lookups = b /\ g1.failed = g.failed
    BY <1>0 DEF AgentFields, Beside, SameDiscovery
  <1> HIDE DEF g1
  <1>9. Sound(g1) /\ Whole(g1)
    BY <1>0, <1>3, <1>5, <1>6, <1>8, BesideSound
  <1>10. Sound(g2)
    <2>1. Itemized(items, g1.sockets, g1.streams)
      BY <1>7, <1>8, Zenon DEF Beside
    <2> QED BY <1>9, <2>1, AddDiscoverySound
  <1> HIDE DEF g2
  <1>11. g2.discovery_unsched_items > 0 => Whole(DiscoverySchedule(g2))
    BY <1>10, ScheduleWhole
  <1>12. ~(g2.discovery_unsched_items > 0) => Whole(WayOut(g2))
    BY <1>10, NothingNew, WayOutSound
  <1> QED BY <1>1, <1>9, <1>11, <1>12, Zenon

\* A lookup that is answered leaves the list.
LEMMA LookupTaken ==
    ASSUME NEW g, Whole(g), NEW l \in Range(g.lookups)
    PROVE  /\ Whole([g EXCEPT !.lookups = RemoveAt(@, LookupAt(g, l))])
           /\ Beside([g EXCEPT !.lookups = RemoveAt(@, LookupAt(g, l))], g)
           /\ [g EXCEPT !.lookups = RemoveAt(@, LookupAt(g, l))].turn_servers = g.turn_servers
           /\ IsLookup(l, DOMAIN sc.dns)
           /\ LookupAt(g, l) \in 1..Len(g.lookups) /\ IsList(g.lookups)
  <1> DEFINE L == g.lookups
             I == {i \in DOMAIN L : L[i] = l}
             k == RemoveAt(L, LookupAt(g, l))
             h == [g EXCEPT !.lookups = k]
  <1>0. /\ Sound(g) /\ DOMAIN g = AgentFields /\ LookedUp(L, DOMAIN sc.dns) /\ Served(g.turn_servers)
        /\ g.gathering \subseteq g.gathering_started
        /\ g.failed \subseteq {"stream of a lookup"}
    BY Zenon DEF Whole, Sound, Nested
  <1>1. IsList(L) /\ \A x \in Range(L) : IsLookup(x, DOMAIN sc.dns)
    BY <1>0, Zenon DEF LookedUp
  <1>2. LookupAt(g, l) \in 1..Len(L)
    <2>1. PICK i \in DOMAIN L : l = L[i]
      BY Zenon DEF Range
    <2>2. LookupAt(g, l) = FirstOf(I) /\ I \in SUBSET DOMAIN L /\ I # {}
      BY <2>1, Zenon DEF LookupAt
    <2> HIDE DEF I
    <2> QED BY <1>1, <2>2, FirstIs, Zenon
  <1>3. IsList(k) /\ Range(k) \subseteq Range(L)
    BY <1>1, <1>2, RemovedIsList
  <1> HIDE DEF k
  <1>4. LookedUp(k, DOMAIN sc.dns)
    BY <1>1, <1>3, Zenon DEF LookedUp
  <1>5. /\ Beside(h, g) /\ h.gathering = g.gathering /\ h.turn_servers = g.turn_servers
        /\ h.lookups = k /\ h.failed = g.failed
    BY <1>0 DEF AgentFields, Beside, SameDiscovery
  <1> HIDE DEF h
  <1>6. Whole(h)
    BY <1>0, <1>4, <1>5, BesideSound
  <1> QED BY <1>1, <1>2, <1>5, <1>6 DEF h, k

\* stun_server_resolved_cb schedules the items it adds.
LEMMA StunServerResolvedWhole ==
    ASSUME sc \in Scenarios, NEW g, Whole(g), NEW l \in Range(g.lookups), NEW ok
    PROVE  Whole(StunServerResolved(g, l, ok))
  <1> DEFINE g1 == [g EXCEPT !.lookups = RemoveAt(@, LookupAt(g, l))]
             s == l.stream
             k == [i \in DOMAIN sc.stun |->
                     Items(g1, s, "SERVER_REFLEXIVE", sc.stun[i], <<"stun", i>>)]
  <1>1. Whole(g1) /\ Beside(g1, g)
    BY LookupTaken, Zenon
  <1>2. \/ StunServerResolved(g, l, ok) = WayOut(g1)
        \/ StunServerResolved(g, l, ok) = Fail(g1, "stream of a lookup")
        \/ /\ s \in g.streams
           /\ StunServerResolved(g, l, ok) = ScheduleOrDone(AddDiscovery(g1, Joined(k)))
    BY Zenon DEF StunServerResolved
  <1> HIDE DEF g1
  <1>3. Whole(WayOut(g1))
    BY <1>1, WayOutSound, Zenon DEF Whole
  <1>4. Whole(Fail(g1, "stream of a lookup"))
    <2> DEFINE h == Fail(g1, "stream of a lookup")
    <2>1. /\ Sound(g1) /\ DOMAIN g1 = AgentFields /\ LookedUp(g1.lookups, DOMAIN sc.dns)
          /\ Served(g1.turn_servers) /\ g1.gathering \subseteq g1.gathering_started
          /\ g1.failed \subseteq {"stream of a lookup"}
      BY <1>1, Zenon DEF Whole, Sound, Nested
    <2>2. /\ Beside(h, g1) /\ h.gathering = g1.gathering /\ h.turn_servers = g1.turn_servers
          /\ h.lookups = g1.lookups /\ h.failed = g1.failed \cup {"stream of a lookup"}
      BY <2>1 DEF Fail, AgentFields, Beside, SameDiscovery
    <2> HIDE DEF h
    <2>3. h.failed \subseteq {"stream of a lookup"}
      BY <2>1, <2>2
    <2>4. Whole(h)
      BY <1>1, <2>1, <2>2, <2>3, BesideSound
    <2> QED BY <2>4 DEF h
  <1>5. ASSUME s \in g.streams PROVE Whole(ScheduleOrDone(AddDiscovery(g1, Joined(k))))
    <2>1. Sound(g1) /\ s \in g1.streams
      BY <1>1, <1>5, Zenon DEF Whole, Beside
    <2>2. IsList(sc.stun)
      BY GatheringAssumption
    <2>3. /\ k = [i \in DOMAIN sc.stun |-> k[i]]
          /\ \A i \in DOMAIN sc.stun :
               k[i] = Items(g1, s, "SERVER_REFLEXIVE", sc.stun[i], <<"stun", i>>)
      BY Zenon
    <2> HIDE DEF k
    <2>4. \A i \in DOMAIN sc.stun : Itemized(k[i], g1.sockets, g1.streams)
      BY <2>1, <2>3, ItemsItemized
    <2>5. Itemized(Joined(k), g1.sockets, g1.streams)
      BY <2>2, <2>3, <2>4, AllItems
    <2>6. Sound(AddDiscovery(g1, Joined(k)))
      BY <2>1, <2>5, AddDiscoverySound
    <2> QED BY <2>6, ScheduleOrDoneWhole
  <1> QED BY <1>2, <1>3, <1>4, <1>5, Zenon

\* turn_server_resolved_cb schedules the items it adds.
LEMMA TurnServerResolvedWhole ==
    ASSUME sc \in Scenarios, NEW g, Whole(g), NEW l \in Range(g.lookups), l.type = "TURN", NEW ok
    PROVE  Whole(TurnServerResolved(g, l, ok))
  <1> DEFINE s == l.stream
             g1 == [g EXCEPT !.lookups = RemoveAt(@, LookupAt(g, l))]
             ts == g.turn_servers
             at == TurnServerAt(g, s, l.key)
             addrs == sc.dns[l.key[1]]
             res == [k \in DOMAIN addrs |-> [key |-> <<l.key[1], k>>, server |-> addrs[k],
                                             resolution_failed |-> FALSE]]
             k == [i \in DOMAIN addrs |-> Items(g, s, "RELAYED", addrs[i], <<l.key[1], i>>)]
             a == Written(ts[s], at, res[1]) \o Tail(res)
             b == Written(ts[s], at, [ts[s][at] EXCEPT !.resolution_failed = TRUE])
             g2 == [g1 EXCEPT !.turn_servers = Placed(ts, s, a)]
             g3 == [g1 EXCEPT !.turn_servers = Placed(ts, s, b)]
  <1>1. /\ Whole(g1) /\ Beside(g1, g) /\ g1.turn_servers = g.turn_servers
        /\ IsLookup(l, DOMAIN sc.dns)
    BY LookupTaken, Zenon
  <1> HIDE DEF g1
  <1>2. \/ TurnServerResolved(g, l, ok) = WayOut(g1)
        \/ TurnServerResolved(g, l, ok) = WayOut(g3)
        \/ TurnServerResolved(g, l, ok) = ScheduleOrDone(g2)
        \/ /\ s \in g.gathering_started
           /\ TurnServerResolved(g, l, ok) = ScheduleOrDone(AddDiscovery(g2, Joined(k)))
    BY <1>1, Zenon DEF TurnServerResolved, Placed, Written, g1
  <1>3. /\ s \in Streams /\ l.key[1] \in DOMAIN sc.dns
    BY <1>1, Zenon DEF IsLookup
  <1>4. IsList(addrs) /\ addrs # <<>>
    BY <1>3, GatheringAssumption
  <1>5. /\ Sound(g) /\ Sound(g1) /\ DOMAIN g1 = AgentFields /\ Served(ts)
        /\ LookedUp(g1.lookups, DOMAIN sc.dns) /\ g1.gathering \subseteq g1.gathering_started
        /\ g1.failed \subseteq {"stream of a lookup"} /\ g.gathering_started \subseteq g.streams
    BY <1>1, Zenon DEF Whole, Sound, Nested
  <1>6. IsList(ts[s])
    BY <1>3, <1>5, Zenon DEF Served
  <1>7. IsList(a) /\ IsList(b)
    <2>1. res = [i \in DOMAIN addrs |-> res[i]]
      BY Zenon
    <2> HIDE DEF res, addrs
    <2>2. IsList(res) /\ Len(res) = Len(addrs)
      BY <1>4, <2>1, MappedIsList
    <2>3. res # <<>>
      BY <1>4, <2>2, EmptyIsList
    <2>4. IsList(Tail(res))
      BY <2>2, <2>3, ShortenedIsList, SMTT(30), Z3T(30)
    <2>5. IsList(Written(ts[s], at, res[1])) /\ IsList(b)
      BY <1>6, WrittenIsList
    <2> QED BY <2>4, <2>5, ConcatIsList
  <1>8. Served(Placed(ts, s, a)) /\ Served(Placed(ts, s, b))
    <2> HIDE DEF a, b
    <2> QED BY <1>5, <1>7, PlacedServed
  <1>9. \A h \in {g2, g3} :
          /\ Beside(h, g1) /\ h.gathering = g1.gathering /\ h.lookups = g1.lookups
          /\ h.failed = g1.failed /\ h.turn_servers \in {Placed(ts, s, a), Placed(ts, s, b)}
    <2> HIDE DEF a, b
    <2> QED BY <1>5, ZenonT(30), SMTT(30) DEF AgentFields, Beside, SameDiscovery
  <1> HIDE DEF g2, g3, a, b
  <1>10. Whole(g2) /\ Whole(g3)
    <2> SUFFICES ASSUME NEW h \in {g2, g3} PROVE Whole(h)
      BY Zenon
    <2>1. /\ Beside(h, g1) /\ h.gathering \subseteq g1.gathering_started
          /\ LookedUp(h.lookups, DOMAIN sc.dns) /\ h.failed \subseteq {"stream of a lookup"}
          /\ Served(h.turn_servers)
      BY <1>5, <1>8, <1>9, Zenon
    <2> QED BY <1>1, <1>5, <2>1, BesideSound, Zenon
  <1>11. Whole(WayOut(g1)) /\ Whole(WayOut(g3))
    BY <1>1, <1>5, <1>10, WayOutSound, Zenon DEF Whole
  <1>12. Sound(g2) /\ Whole(ScheduleOrDone(g2))
    BY <1>10, ScheduleOrDoneWhole, Zenon DEF Whole
  <1>13. ASSUME s \in g.gathering_started
         PROVE  Whole(ScheduleOrDone(AddDiscovery(g2, Joined(k))))
    <2>1. s \in g.streams
      BY <1>5, <1>13, Zenon
    <2>2. /\ k = [i \in DOMAIN addrs |-> k[i]]
          /\ \A i \in DOMAIN addrs : k[i] = Items(g, s, "RELAYED", addrs[i], <<l.key[1], i>>)
      BY Zenon
    <2> HIDE DEF k, addrs
    <2>3. \A i \in DOMAIN addrs : Itemized(k[i], g.sockets, g.streams)
      <3> TAKE i \in DOMAIN addrs
      <3>1. k[i] = Items(g, s, "RELAYED", addrs[i], <<l.key[1], i>>)
        BY <2>2, Zenon
      <3> QED BY <1>5, <2>1, <3>1, ItemsItemized, Zenon
    <2>4. Itemized(Joined(k), g.sockets, g.streams)
      BY <1>4, <2>2, <2>3, AllItems
    <2>5. g2.sockets = g.sockets /\ g2.streams = g.streams
      BY <1>1, <1>9, Zenon DEF Beside
    <2>6. Sound(AddDiscovery(g2, Joined(k)))
      BY <1>12, <2>4, <2>5, AddDiscoverySound
    <2> QED BY <2>6, ScheduleOrDoneWhole
  <1> QED BY <1>1, <1>2, <1>11, <1>12, <1>13, Zenon

\* A new socket harms no candidate and no item.
LEMMA MoreSockets ==
    ASSUME NEW socks, NEW more, socks \subseteq more, NEW streams
    PROVE  /\ \A lc : Based(lc, socks, streams) => Based(lc, more, streams)
           /\ \A l : Itemized(l, socks, streams) => Itemized(l, more, streams)
  <1>1. \A d : IsItem(d, socks, streams) => IsItem(d, more, streams)
    BY Zenon DEF IsItem
  <1>2. \A l : Itemized(l, socks, streams) => Itemized(l, more, streams)
    BY <1>1, Zenon DEF Itemized
  <1>3. \A lc : Based(lc, socks, streams) => Based(lc, more, streams)
    BY Zenon DEF Based
  <1> QED BY <1>2, <1>3, Zenon

\* Sockets of a stream go, with the candidates and the items that have them.
LEMMA FewerSockets ==
    ASSUME NEW g, Sound(g), NEW s \in Streams, NEW gone, \A k \in gone : k[2] = s,
           \A d \in Range(g.discovery_list) : d.nicesock \notin gone,
           NEW l, IsList(l), Range(l) \subseteq Range(g.local_candidates[s]),
           \A c \in Range(l) : c.base \notin gone,
           NEW h, Aside(h, g), h.pruning_streams = g.pruning_streams,
           h.local_candidates = Placed(g.local_candidates, s, l),
           h.sockets = g.sockets \ gone, h.turn_servers = g.turn_servers,
           h.refresh_list = g.refresh_list
    PROVE  Sound(h) /\ (Whole(g) => Whole(h))
  <1> DEFINE lc == g.local_candidates
             socks == g.sockets \ gone
             k == Placed(lc, s, l)
  <1>1. /\ Based(lc, g.sockets, g.streams) /\ g.streams \subseteq Streams
        /\ g.pruning_streams \subseteq Streams /\ Served(g.turn_servers)
        /\ Itemized(g.discovery_list, g.sockets, g.streams)
        /\ Refreshing(g.refresh_list, g.streams)
    BY Zenon DEF Sound, Nested
  <1>2. /\ DOMAIN lc = Streams /\ (\A q \in Streams : IsList(lc[q]))
        /\ \A q \in g.streams : \A c \in Range(lc[q]) : c.base \in g.sockets /\ c.base[2] = q
    BY <1>1, Zenon DEF Based
  <1>3. DOMAIN k = Streams /\ \A q \in Streams : k[q] = IF q = s THEN l ELSE lc[q]
    BY <1>2, PlacedIs
  <1> HIDE DEF k
  <1>4. \A q \in Streams : IsList(k[q])
    BY <1>2, <1>3, Zenon
  <1>5. ASSUME NEW q \in g.streams, NEW c \in Range(k[q])
        PROVE  c.base \in socks /\ c.base[2] = q
    <2>1. CASE q = s
      <3>1. k[q] = l
        BY <1>3, <2>1, Zenon
      <3> QED BY <1>2, <2>1, <3>1, Zenon
    <2>2. CASE q # s
      <3>1. k[q] = lc[q]
        BY <1>1, <1>3, <2>2, Zenon
      <3>2. c.base \in g.sockets /\ c.base[2] = q
        BY <1>2, <3>1, Zenon
      <3> QED BY <2>2, <3>2
    <2> QED BY <2>1, <2>2, Zenon
  <1>6. Based(k, socks, g.streams)
    BY <1>3, <1>4, <1>5, Zenon DEF Based
  <1>7. Itemized(g.discovery_list, socks, g.streams)
    BY <1>1, Zenon DEF Itemized, IsItem
  <1>8. /\ Based(h.local_candidates, h.sockets, g.streams) /\ Served(h.turn_servers)
        /\ Itemized(g.discovery_list, h.sockets, g.streams)
        /\ Refreshing(h.refresh_list, g.streams) /\ h.pruning_streams \subseteq Streams
    BY <1>1, <1>6, <1>7, ZenonT(30) DEF k
  <1> QED BY <1>8, AsideSound, Zenon

\* The relay items of a stream have its sockets.
LEMMA RelayItemsItemized ==
    ASSUME NEW g, Sound(g), NEW s \in g.streams
    PROVE  Itemized(RelayItems(g, s), SocketsOf(g, s), g.streams)
  <1> DEFINE servers == g.turn_servers[s]
             valid == {t \in Range(servers) : t.server # None}
             able(c) == Those(servers, {t \in valid : Version(t.server) = Version(c.addr[1])})
             of(c) == [i \in DOMAIN able(c) |->
                         Discovery("RELAYED", c.base, able(c)[i].server, able(c)[i].key)]
             hosts == HostCandidates(g, s)
             k == [i \in DOMAIN hosts |-> of(hosts[i])]
  <1>1. RelayItems(g, s) = Joined(k)
    BY Zenon DEF RelayItems
  <1>2. IsList(hosts) /\ \A c \in Range(hosts) : c.base \in g.sockets /\ c.base[2] = s
    BY HostsAre
  <1>3. IsList(servers)
    BY Zenon DEF Sound, Nested, Served
  <1>4. ASSUME NEW c, c.base \in g.sockets, c.base[2] = s
        PROVE  Itemized(of(c), SocketsOf(g, s), g.streams)
    <2> DEFINE a == able(c)
               f == [i \in DOMAIN a |-> Discovery("RELAYED", c.base, a[i].server, a[i].key)]
               T == {t \in valid : Version(t.server) = Version(c.addr[1])}
    <2>1. IsList(Those(servers, T))
      <3> HIDE DEF T
      <3> QED BY <1>3, ThoseIsList
    <2>2. IsList(a)
      BY <2>1, Zenon
    <2>3. /\ f = [i \in DOMAIN a |-> f[i]]
          /\ \A i \in DOMAIN a : f[i] = Discovery("RELAYED", c.base, a[i].server, a[i].key)
      BY Zenon
    <2>4. of(c) = f
      BY Zenon
    <2> HIDE DEF a, f
    <2>5. c.base \in SocketsOf(g, s) /\ c.base[2] \in g.streams
      BY <1>4, Zenon DEF SocketsOf
    <2>6. \A i \in DOMAIN a : IsItem(f[i], SocketsOf(g, s), g.streams)
      <3> TAKE i \in DOMAIN a
      <3>1. f[i] = Discovery("RELAYED", c.base, a[i].server, a[i].key)
        BY <2>3, Zenon
      <3>2. \A type, server, key :
              IsItem(Discovery(type, c.base, server, key), SocketsOf(g, s), g.streams)
        BY <2>5, NewItem
      <3> QED BY <3>1, <3>2, Zenon
    <2>7. IsList(f) /\ \A x \in Range(f) : \E i \in 1..Len(a) : x = f[i]
      BY <2>2, <2>3, MappedIsList
    <2>8. DOMAIN a = 1..Len(a)
      BY <2>2, ListIs
    <2>9. Itemized(f, SocketsOf(g, s), g.streams)
      BY <2>6, <2>7, <2>8, Zenon DEF Itemized
    <2> QED BY <2>4, <2>9
  <1>5. /\ k = [i \in DOMAIN hosts |-> k[i]]
        /\ \A i \in DOMAIN hosts : k[i] = of(hosts[i]) /\ hosts[i] \in Range(hosts)
    BY Zenon DEF Range
  <1>6. \A i \in DOMAIN hosts : Itemized(k[i], SocketsOf(g, s), g.streams)
    <2> HIDE DEF k, of, hosts
    <2> QED BY <1>2, <1>4, <1>5, Zenon
  <1> HIDE DEF k, of, hosts
  <1>7. Itemized(Joined(k), SocketsOf(g, s), g.streams)
    BY <1>2, <1>5, <1>6, AllItems
  <1> QED BY <1>1, <1>7, ZenonT(30), SMTT(30) DEF k, of, hosts

\* A stream starts to gather.
LEMMA StartedSound ==
    ASSUME NEW g, Sound(g), NEW s \in g.streams, NEW h, DOMAIN h = AgentFields,
           h.streams = g.streams, h.pruning_streams = g.pruning_streams,
           h.gathering = g.gathering \cup {s},
           h.gathering_started = g.gathering_started \cup {s},
           h.local_candidates = g.local_candidates, h.sockets = g.sockets,
           h.turn_servers = g.turn_servers, h.lookups = g.lookups,
           h.refresh_list = g.refresh_list, h.close = g.close, h.failed = g.failed,
           SameDiscovery(h, g)
    PROVE  Sound(h)
  <1>1. Nested(h.streams, h.pruning_streams, h.gathering_started, h.gathering)
    BY Zenon DEF Sound, Nested
  <1> QED BY <1>1, Zenon DEF Sound, SameDiscovery

\* nice_agent_gather_candidates starts a stream or undoes what it began.
LEMMA GatherCandidatesWhole ==
    ASSUME sc \in Scenarios, NEW g, Whole(g), NEW s \in g.streams
    PROVE  Whole(GatherCandidates(g, s))
  <1> DEFINE made == IF sc.clash THEN SubSeq(sc.hosts, 1, Len(sc.hosts) - 1) ELSE sc.hosts
             host(h) == Candidate("HOST", <<h, <<h, s>>>>, <<h, s>>, None)
             hl == [i \in DOMAIN made |-> host(made[i])]
             new == {<<h, s>> : h \in Range(made)}
             look == IF sc.stun = <<>> THEN g.lookups
                     ELSE <<Lookup("STUN", s, None)>> \o g.lookups
             g1 == IF sc.stun = <<>> THEN g
                   ELSE [g EXCEPT !.lookups = <<Lookup("STUN", s, None)>> \o @]
             lc == Placed(g1.local_candidates, s, hl)
             g2 == [g1 EXCEPT !.local_candidates = lc, !.sockets = @ \cup new]
             g3 == AddDiscovery(g2, RelayItems(g2, s))
             all == SocketsOf(g3, s)
             failed == DiscoveryPrune(g3, all)
             undone == [failed EXCEPT !.local_candidates = Placed(@, s, <<>>), !.sockets = @ \ all]
             started == [g3 EXCEPT !.gathering = @ \cup {s}, !.gathering_started = @ \cup {s}]
  <1>0. /\ Sound(g) /\ DOMAIN g = AgentFields /\ s \in Streams /\ g.streams \subseteq Streams
        /\ LookedUp(g.lookups, DOMAIN sc.dns) /\ Served(g.turn_servers)
        /\ g.gathering \subseteq g.gathering_started /\ g.failed \subseteq {"stream of a lookup"}
        /\ Based(g.local_candidates, g.sockets, g.streams)
        /\ Itemized(g.discovery_list, g.sockets, g.streams)
        /\ Refreshing(g.refresh_list, g.streams) /\ g.pruning_streams \subseteq Streams
    BY Zenon DEF Whole, Sound, Nested
  <1>1. \/ GatherCandidates(g, s) = g
        \/ GatherCandidates(g, s) = undone
        \/ started.discovery_unsched_items > 0 /\ GatherCandidates(g, s) = DiscoverySchedule(started)
        \/ /\ ~(started.discovery_unsched_items > 0)
           /\ GatherCandidates(g, s) \in {GatheringDone(started), started}
    BY Zenon DEF GatherCandidates, AddHosts, Placed
  <1>2. IsList(made)
    <2>1. IsList(sc.hosts) /\ (sc.clash => sc.hosts # <<>>)
      BY GatheringAssumption
    <2> QED BY <2>1, ShortenedIsList
  <1>3. /\ hl = [i \in DOMAIN made |-> hl[i]]
        /\ \A i \in DOMAIN made : hl[i] = host(made[i])
    BY Zenon
  <1>4. \A h : host(h).base = <<h, s>> /\ <<h, s>>[2] = s
    BY DEF Candidate
  <1> HIDE DEF made, hl, host
  <1>5. IsList(hl) /\ \A c \in Range(hl) : c.base \in new /\ c.base[2] = s
    <2>1. /\ IsList(hl)
          /\ \A x \in Range(hl) : \E i \in 1..Len(made) : x = hl[i] /\ made[i] \in Range(made)
      BY <1>2, <1>3, MappedIsList
    <2>2. DOMAIN made = 1..Len(made)
      BY <1>2, ListIs
    <2>3. ASSUME NEW c \in Range(hl) PROVE c.base \in new /\ c.base[2] = s
      <3>1. PICK i \in 1..Len(made) : c = hl[i] /\ made[i] \in Range(made)
        BY <2>1, Zenon
      <3>2. c.base = <<made[i], s>> /\ <<made[i], s>>[2] = s
        BY <1>3, <1>4, <2>2, <3>1, Zenon
      <3> QED BY <3>1, <3>2, Zenon
    <2> QED BY <2>1, <2>3, Zenon
  <1>6. LookedUp(look, DOMAIN sc.dns)
    <2> DEFINE q == Lookup("STUN", s, None)
    <2>1. IsLookup(q, DOMAIN sc.dns)
      BY <1>0 DEF Lookup, IsLookup, LookupFields
    <2> HIDE DEF q
    <2>2. IsList(<<q>>) /\ Range(<<q>>) = {q}
      BY SingleIsList
    <2>3. IsList(g.lookups) /\ \A x \in Range(g.lookups) : IsLookup(x, DOMAIN sc.dns)
      BY <1>0, Zenon DEF LookedUp
    <2>4. /\ IsList(<<q>> \o g.lookups)
          /\ Range(<<q>> \o g.lookups) \subseteq Range(<<q>>) \cup Range(g.lookups)
      BY <2>2, <2>3, ConcatIsList
    <2>5. LookedUp(<<q>> \o g.lookups, DOMAIN sc.dns)
      BY <2>1, <2>2, <2>3, <2>4, SMTT(30), Z3T(30) DEF LookedUp
    <2> QED BY <1>0, <2>5 DEF q
  <1> HIDE DEF look, new
  <1>7. Whole(g1) /\ Beside(g1, g) /\ g1.turn_servers = g.turn_servers /\ g1.gathering = g.gathering
    <2>1. /\ Beside(g1, g) /\ g1.gathering = g.gathering /\ g1.turn_servers = g.turn_servers
          /\ g1.lookups = look /\ g1.failed = g.failed
      BY <1>0 DEF AgentFields, Beside, SameDiscovery, look
    <2> HIDE DEF g1
    <2> QED BY <1>0, <1>6, <2>1, BesideSound
  <1>8. Whole(g2) /\ g2.streams = g.streams
    <2>1. DOMAIN g1 = AgentFields
      BY <1>7, Zenon DEF Beside
    <2> HIDE DEF g1, lc
    <2>2. /\ Aside(g2, g1) /\ g2.local_candidates = lc /\ g2.sockets = g1.sockets \cup new
          /\ g2.pruning_streams = g1.pruning_streams /\ g2.turn_servers = g1.turn_servers
          /\ g2.refresh_list = g1.refresh_list
      BY <2>1 DEF AgentFields, Aside, SameDiscovery
    <2> HIDE DEF g2
    <2>3. /\ g1.streams = g.streams /\ g1.sockets = g.sockets /\ g1.discovery_list = g.discovery_list
          /\ g1.pruning_streams = g.pruning_streams /\ g1.refresh_list = g.refresh_list
          /\ g1.local_candidates = g.local_candidates
      BY <1>7, Zenon DEF Beside, SameDiscovery
    <2> DEFINE more == g.sockets \cup new
    <2>4. /\ Based(g.local_candidates, more, g.streams)
          /\ Itemized(g.discovery_list, more, g.streams)
      BY <1>0, MoreSockets
    <2>5. \A c \in Range(hl) : c.base \in more /\ c.base[2] = s
      BY <1>5, Zenon
    <2> HIDE DEF more
    <2>6. Based(lc, more, g.streams)
      BY <1>0, <1>5, <2>3, <2>4, <2>5, PlacedBased DEF lc
    <2>7. g2.sockets = more
      BY <2>2, <2>3 DEF more
    <2>8. /\ Based(g2.local_candidates, g2.sockets, g1.streams) /\ Served(g2.turn_servers)
          /\ Itemized(g1.discovery_list, g2.sockets, g1.streams)
          /\ Refreshing(g2.refresh_list, g1.streams) /\ g2.pruning_streams \subseteq Streams
      BY <1>0, <1>7, <2>2, <2>3, <2>4, <2>6, <2>7, Zenon
    <2>9. Sound(g1)
      BY <1>7, Zenon DEF Whole
    <2>10. Whole(g2)
      BY <1>7, <2>2, <2>8, <2>9, AsideSound, Zenon
    <2> QED BY <2>2, <2>3, <2>10, Zenon DEF Aside
  <1> HIDE DEF g2
  <1>9. Sound(g2) /\ Itemized(RelayItems(g2, s), SocketsOf(g2, s), g2.streams)
    BY <1>8, RelayItemsItemized DEF Whole
  <1>10. /\ Sound(g3) /\ Elsewhere(g3, g2) /\ g3.discovery_timer = g2.discovery_timer
         /\ g3.discovery_list = g2.discovery_list \o RelayItems(g2, s)
    <2>1. SocketsOf(g2, s) \subseteq g2.sockets
      BY Zenon DEF SocketsOf
    <2>2. Itemized(RelayItems(g2, s), g2.sockets, g2.streams)
      BY <1>9, <2>1, MoreSockets
    <2> QED BY <1>9, <2>2, AddDiscoverySound, Zenon
  <1> HIDE DEF g3
  <1>11. g3.streams = g.streams /\ g3.sockets = g2.sockets /\ all = SocketsOf(g2, s)
    BY <1>8, <1>10, Zenon DEF Elsewhere, SocketsOf
  <1>12. Whole(undone)
    <2>1. g3.discovery_timer \/ \A d \in Range(g3.discovery_list) : d.nicesock \in all
      <3> SUFFICES ASSUME ~g3.discovery_timer, NEW d \in Range(g3.discovery_list)
                   PROVE  d.nicesock \in all
        BY Zenon
      <3>1. g2.discovery_list = <<>>
        BY <1>8, <1>10, Zenon DEF Whole
      <3>2. IsList(RelayItems(g2, s))
        BY <1>9, Zenon DEF Itemized
      <3>3. d \in Range(<<>>) \cup Range(RelayItems(g2, s))
        BY <1>10, <3>1, <3>2, EmptyIsList, ConcatIsList, SMTT(30), Z3T(30)
      <3>4. d \in Range(RelayItems(g2, s))
        BY <3>3, EmptyIsList
      <3> QED BY <1>9, <1>11, <3>4, Zenon DEF Itemized, IsItem
    <2>2. /\ Whole(failed) /\ Elsewhere(failed, g3)
          /\ \A d \in Range(failed.discovery_list) : d.nicesock \notin all
      BY <1>10, <2>1, DiscoveryPruneWhole
    <2>3. DOMAIN failed = AgentFields /\ Sound(failed)
      BY <2>2, Zenon DEF Elsewhere, Whole
    <2> HIDE DEF failed, all
    <2>4. /\ Aside(undone, failed) /\ undone.pruning_streams = failed.pruning_streams
          /\ undone.local_candidates = Placed(failed.local_candidates, s, <<>>)
          /\ undone.sockets = failed.sockets \ all
          /\ undone.turn_servers = failed.turn_servers
          /\ undone.refresh_list = failed.refresh_list
      BY <2>3 DEF AgentFields, Aside, SameDiscovery
    <2> HIDE DEF undone
    <2>5. \A k \in all : k[2] = s
      BY Zenon DEF all, SocketsOf
    <2>6. /\ IsList(<<>>) /\ Range(<<>>) \subseteq Range(failed.local_candidates[s])
          /\ \A c \in Range(<<>>) : c.base \notin all
      BY EmptyIsList
    <2> QED BY <1>0, <2>2, <2>3, <2>4, <2>5, <2>6, FewerSockets
  <1>13. Sound(started)
    <2>1. DOMAIN g3 = AgentFields
      BY <1>10, Zenon DEF Elsewhere
    <2>2. /\ DOMAIN started = AgentFields
          /\ started.streams = g3.streams /\ started.pruning_streams = g3.pruning_streams
          /\ started.gathering = g3.gathering \cup {s}
          /\ started.gathering_started = g3.gathering_started \cup {s}
          /\ started.local_candidates = g3.local_candidates /\ started.sockets = g3.sockets
          /\ started.turn_servers = g3.turn_servers /\ started.lookups = g3.lookups
          /\ started.refresh_list = g3.refresh_list /\ started.close = g3.close
          /\ started.failed = g3.failed /\ SameDiscovery(started, g3)
      BY <2>1 DEF AgentFields, SameDiscovery
    <2> HIDE DEF started
    <2>3. s \in g3.streams
      BY <1>11, Zenon
    <2> QED BY <1>10, <2>2, <2>3, StartedSound
  <1> HIDE DEF started, undone
  <1>14. started.discovery_unsched_items > 0 => Whole(DiscoverySchedule(started))
    BY <1>13, ScheduleWhole
  <1>15. ~(started.discovery_unsched_items > 0) => Whole(started) /\ Whole(GatheringDone(started))
    BY <1>13, NothingNew, GatheringDoneSound
  <1> QED BY <1>1, <1>12, <1>14, <1>15, Zenon

-----------------------------------------------------------------------------
(* What goes.                                                              *)

\* The loop of nice_component_clean_turn_servers.
PruneOne(h, c) == PruneRelayCandidate(h, c.id)

PruneRun(f, g, l, n) ==
    f = [i \in 0..n |-> IF i = 0 THEN g
                        ELSE PruneOne(f[i - 1], l[i])]

\* The recursion of that loop has a solution.
LEMMA PruneRunExists ==
    ASSUME NEW g, NEW l
    PROVE  \A n \in Nat : \E f : PruneRun(f, g, l, n)
  <1> DEFINE T == {n \in Nat : \E f : PruneRun(f, g, l, n)}
             next(f, i) == IF i = 0 THEN g
                           ELSE PruneOne(f[i - 1], l[i])
  <1>1. 0 \in T
    <2> DEFINE f == [i \in 0..0 |-> g]
    <2>1. \A i \in 0..0 : next(f, i) = g
      OBVIOUS
    <2>2. PruneRun(f, g, l, 0)
      BY <2>1, Zenon DEF PruneRun
    <2> QED BY <2>2
  <1>2. ASSUME NEW n \in Nat, n \in T PROVE n + 1 \in T
    <2>1. PICK f : PruneRun(f, g, l, n)
      BY <1>2
    <2> DEFINE h == [i \in 0..n + 1 |-> next(f, i)]
    <2>2. \A i \in 0..n : f[i] = next(f, i)
      BY <2>1, Zenon DEF PruneRun
    <2>3. \A i \in 0..n : h[i] = f[i]
      <3> TAKE i \in 0..n
      <3>1. i \in 0..n + 1
        OBVIOUS
      <3>2. h[i] = next(f, i)
        BY <3>1, Zenon
      <3> QED BY <2>2, <3>2, Zenon
    <2>4. \A i \in 0..n + 1 : i # 0 => h[i - 1] = f[i - 1]
      <3> TAKE i \in 0..n + 1
      <3> HAVE i # 0
      <3>1. i - 1 \in 0..n
        OBVIOUS
      <3> QED BY <2>3, <3>1, Zenon
    <2>5. PruneRun(h, g, l, n + 1)
      <3> HIDE DEF h
      <3>1. h = [i \in 0..n + 1 |-> next(f, i)]
        BY DEF h
      <3>2. \A i \in 0..n + 1 : next(f, i) = next(h, i)
        BY <2>4, Zenon
      <3> QED BY <3>1, <3>2, Zenon DEF PruneRun
    <2> QED BY <2>5
  <1> HIDE DEF T
  <1>3. \A n \in Nat : n \in T
    BY <1>1, <1>2, Induct
  <1> QED BY <1>3 DEF T

\* nice_component_clean_turn_servers keeps the record whole.
LEMMA CleanTurnServersWhole ==
    ASSUME NEW g, Whole(g), NEW s \in g.streams
    PROVE  Whole(CleanTurnServers(g, s))
  <1> DEFINE list == g.local_candidates[s]
             old == g.turn_candidate[s]
             relayed == {c \in Range(list) : c.type = "RELAYED"}
             kept == relayed \cap {g.selected[s]}
             l == Those(list, relayed \ kept) \o (IF kept = {} \/ old = None THEN <<>> ELSE <<old>>)
             rest == Those(list, Range(list) \ relayed)
             ts == Placed(g.turn_servers, s, <<>>)
             lc == Placed(g.local_candidates, s, rest)
             tc == Placed(g.turn_candidate, s, IF kept = {} THEN g.turn_candidate[s] ELSE g.selected[s])
             h == [g EXCEPT !.turn_servers = ts, !.local_candidates = lc, !.turn_candidate = tc]
             N == Len(l)
             f == CHOOSE f : f = [i \in 0..N |-> IF i = 0 THEN h ELSE PruneOne(f[i - 1], l[i])]
  <1>0. /\ Sound(g) /\ DOMAIN g = AgentFields /\ s \in Streams /\ g.streams \subseteq Streams
        /\ Based(g.local_candidates, g.sockets, g.streams) /\ Served(g.turn_servers)
        /\ Itemized(g.discovery_list, g.sockets, g.streams)
        /\ Refreshing(g.refresh_list, g.streams) /\ g.pruning_streams \subseteq Streams
    BY Zenon DEF Whole, Sound, Nested
  <1>1. IsList(list) /\ \A c \in Range(list) : c.base \in g.sockets /\ c.base[2] = s
    BY <1>0, Zenon DEF Based
  <1>2. CleanTurnServers(g, s) = f[N]
    <2>1. CleanTurnServers(g, s) = Each(LAMBDA x, c : PruneRelayCandidate(x, c.id), h, l)
      BY Zenon DEF CleanTurnServers, Placed
    <2> HIDE DEF h, l
    <2> QED BY <2>1, Zenon DEF Each, PruneOne
  <1>3. N \in Nat
    <2> DEFINE a == IF kept = {} \/ old = None THEN <<>> ELSE <<old>>
               S == relayed \ kept
    <2>1. IsList(a)
      BY EmptyIsList, SingleIsList
    <2>2. l = Those(list, S) \o a
      BY Zenon
    <2> HIDE DEF a, S, l, list
    <2>3. IsList(Those(list, S))
      BY <1>1, ThoseIsList
    <2>4. IsList(l)
      BY <2>1, <2>2, <2>3, ConcatIsList
    <2> QED BY <2>4, ListIs
  <1>4. IsList(rest) /\ Range(rest) \subseteq Range(list)
    <2> DEFINE S == Range(list) \ relayed
    <2> HIDE DEF S, list
    <2>1. IsList(Those(list, S)) /\ Range(Those(list, S)) \subseteq Range(list)
      BY <1>1, ThoseIsList
    <2> QED BY <2>1 DEF S
  <1> HIDE DEF N, l, rest
  <1>5. Whole(h)
    <2>1. Based(lc, g.sockets, g.streams)
      <3>1. \A c \in Range(rest) : c.base \in g.sockets /\ c.base[2] = s
        BY <1>1, <1>4, Zenon
      <3> QED BY <1>0, <1>4, <3>1, PlacedBased
    <2>2. Served(ts)
      BY <1>0, EmptyIsList, PlacedServed
    <2> HIDE DEF lc, ts, tc
    <2>3. /\ Aside(h, g) /\ h.pruning_streams = g.pruning_streams /\ h.sockets = g.sockets
          /\ h.local_candidates = lc /\ h.turn_servers = ts /\ h.refresh_list = g.refresh_list
      BY <1>0 DEF AgentFields, Aside, SameDiscovery
    <2> HIDE DEF h
    <2> QED BY <1>0, <2>1, <2>2, <2>3, AsideSound, SMTT(30), Z3T(30)
  <1> HIDE DEF h
  <1>6. f = [i \in 0..N |-> IF i = 0 THEN h ELSE PruneOne(f[i - 1], l[i])]
    <2>1. PICK r : PruneRun(r, h, l, N)
      BY <1>3, PruneRunExists
    <2>2. r = [i \in 0..N |-> IF i = 0 THEN h ELSE PruneOne(r[i - 1], l[i])]
      BY <2>1 DEF PruneRun
    <2> QED BY <2>2, Zenon
  <1> HIDE DEF f
  <1>7. \A i \in 0..N : f[i] = IF i = 0 THEN h ELSE PruneOne(f[i - 1], l[i])
    BY <1>6, Zenon
  <1>8. ASSUME NEW x, Whole(x), NEW c PROVE Whole(PruneOne(x, c))
    BY <1>8, PruneRelayCandidateSound, Zenon DEF Whole, PruneOne
  <1> DEFINE T == {n \in Nat : n <= N => Whole(f[n])}
  <1>9. 0 \in T
    BY <1>3, <1>5, <1>7
  <1>10. ASSUME NEW n \in Nat, n \in T PROVE n + 1 \in T
    <2> SUFFICES ASSUME n + 1 <= N PROVE Whole(f[n + 1])
      OBVIOUS
    <2>1. n + 1 \in 0..N /\ n + 1 # 0 /\ (n + 1) - 1 = n /\ n <= N
      BY <1>3
    <2>2. f[n + 1] = PruneOne(f[n], l[n + 1])
      BY <1>7, <2>1
    <2>3. Whole(f[n])
      BY <1>10, <2>1
    <2> QED BY <1>8, <2>2, <2>3, Zenon
  <1> HIDE DEF T
  <1>11. N \in T
    BY <1>3, <1>9, <1>10, Induct
  <1> QED BY <1>2, <1>3, <1>11 DEF T

\* nice_component_update_selected_pair keeps the record whole.
LEMMA UpdateSelectedPairWhole ==
    ASSUME NEW g, Whole(g), NEW s, NEW c
    PROVE  Whole(UpdateSelectedPair(g, s, c))
  <1> DEFINE f == [g EXCEPT !.selected[s] = c]
             h == [f EXCEPT !.turn_candidate[s] = None]
  <1>0. Sound(g) /\ DOMAIN g = AgentFields /\ Refreshing(g.refresh_list, g.streams)
    BY Zenon DEF Whole, Sound
  <1>1. \A x \in {f, h} :
          /\ Aside(x, g) /\ x.pruning_streams = g.pruning_streams
          /\ x.local_candidates = g.local_candidates /\ x.sockets = g.sockets
          /\ x.turn_servers = g.turn_servers /\ x.refresh_list = g.refresh_list
    BY <1>0, ZenonT(30), SMTT(30) DEF AgentFields, Aside, SameDiscovery
  <1>2. \/ UpdateSelectedPair(g, s, c) = f
        \/ UpdateSelectedPair(g, s, c) = PruneRelayCandidate(h, g.turn_candidate[s].id)
    BY Zenon DEF UpdateSelectedPair
  <1> HIDE DEF f, h
  <1>3. \A x \in {f, h} : Whole(x)
    BY <1>0, <1>1, RefreshesOnly
  <1>4. Sound(h)
    BY <1>3, Zenon DEF Whole
  <1> QED BY <1>2, <1>3, <1>4, PruneRelayCandidateSound, Zenon

\* nice_component_remove_socket takes the items, refreshes and candidates
\* along.
LEMMA RemoveSocketWhole ==
    ASSUME NEW g, Whole(g), NEW k, k[2] \in g.streams
    PROVE  Whole(RemoveSocket(g, k[2], k))
  <1> DEFINE s == k[2]
             g1 == DiscoveryPrune(g, {k})
             g2 == RefreshPruneSocket(g1, k)
             all == Range(g.local_candidates[s])
             gone == {c \in all : c.base = k}
             l == Those(g2.local_candidates[s], all \ gone)
             sel == Placed(g2.selected, s, IF g2.selected[s] \in gone THEN None ELSE g2.selected[s])
             h == [g2 EXCEPT !.local_candidates = Placed(@, s, l), !.selected = sel,
                             !.sockets = @ \ {k}]
  <1>0. Sound(g) /\ s \in Streams
    BY Zenon DEF Whole, Sound, Nested
  <1>1. RemoveSocket(g, s, k) = h
    BY Zenon DEF RemoveSocket, Placed
  <1>2. /\ Whole(g1) /\ Elsewhere(g1, g)
        /\ \A d \in Range(g1.discovery_list) : d.nicesock \notin {k}
    <2>1. g.discovery_timer \/ \A d \in Range(g.discovery_list) : d.nicesock \in {k}
      BY EmptyIsList DEF Whole
    <2> QED BY <1>0, <2>1, DiscoveryPruneWhole
  <1> HIDE DEF g1
  <1>3. Whole(g2) /\ Aside(g2, g1)
    BY <1>2, RefreshPruneSocketWhole, Zenon
  <1>4. /\ Sound(g2) /\ DOMAIN g2 = AgentFields
        /\ \A d \in Range(g2.discovery_list) : d.nicesock \notin {k}
    BY <1>2, <1>3, Zenon DEF Whole, Aside, SameDiscovery
  <1> HIDE DEF g2
  <1>5. IsList(g2.local_candidates[s])
    BY <1>0, <1>4, Zenon DEF Sound, Based
  <1>6. /\ IsList(l) /\ Range(l) \subseteq Range(g2.local_candidates[s])
        /\ \A c \in Range(l) : c.base \notin {k}
    <2> DEFINE S == all \ gone
               m == g2.local_candidates[s]
    <2>1. \A c \in S : c.base # k
      BY Zenon
    <2> HIDE DEF S, m
    <2>2. IsList(Those(m, S)) /\ Range(Those(m, S)) \subseteq Range(m) \cap S
      BY <1>5, ThoseIsList DEF m
    <2> QED BY <2>1, <2>2 DEF S, m
  <1> HIDE DEF l, sel
  <1>7. /\ Aside(h, g2) /\ h.pruning_streams = g2.pruning_streams
        /\ h.local_candidates = Placed(g2.local_candidates, s, l)
        /\ h.sockets = g2.sockets \ {k} /\ h.turn_servers = g2.turn_servers
        /\ h.refresh_list = g2.refresh_list
    BY <1>4 DEF AgentFields, Aside, SameDiscovery
  <1> HIDE DEF h
  <1>8. \A q \in {k} : q[2] = s
    BY Zenon
  <1>9. Whole(h)
    <2> HIDE DEF s
    <2> QED BY <1>0, <1>3, <1>4, <1>6, <1>7, <1>8, FewerSockets
  <1> QED BY <1>1, <1>9, Zenon

\* A removed stream gathers no more, and its items and lookups are gone or
\* told so; its refreshes end before what it has is freed.
LEMMA RemoveStreamWhole ==
    ASSUME NEW g, Whole(g), NEW s \in Streams
    PROVE  Whole(RemoveStream(g, s))
  <1> DEFINE g0 == [g EXCEPT !.gathering = @ \ {s}]
             all == SocketsOf(g, s)
             g1 == DiscoveryPrune(g0, all)
             ll == g1.lookups
             cancelled(l) == IF l.stream = s /\ l.type = "TURN"
                             THEN [l EXCEPT !.cancelled = TRUE] ELSE l
             m == [i \in DOMAIN ll |-> cancelled(ll[i])]
             g2 == [g1 EXCEPT !.streams = @ \ {s}, !.pruning_streams = @ \cup {s},
                              !.gathering_started = @ \ {s}, !.lookups = m \o <<>>]
             left == g.streams \ {s}
             names == DOMAIN sc.dns
  <1>0. Sound(g) /\ DOMAIN g = AgentFields
    BY Zenon DEF Whole, Sound
  <1>1. RemoveStream(g, s) = RefreshPruneAsync(g2, {r.id : r \in RefreshesOf(g, s)}, <<"stream", s>>)
    BY Zenon DEF RemoveStream
  <1>2. Whole(g0) /\ Elsewhere(g0, g) /\ g0.gathering = g.gathering \ {s}
    <2>1. Elsewhere(g0, g) /\ SameDiscovery(g0, g) /\ g0.gathering = g.gathering \ {s}
      BY <1>0 DEF AgentFields, Elsewhere, SameDiscovery
    <2> HIDE DEF g0
    <2> QED BY <1>0, <2>1, SameSound, Zenon
  <1> HIDE DEF g0
  <1>3. /\ Whole(g1) /\ Elsewhere(g1, g0)
        /\ \A d \in Range(g1.discovery_list) : d.nicesock \notin all
    <2>1. g0.discovery_timer \/ \A d \in Range(g0.discovery_list) : d.nicesock \in all
      BY <1>2, EmptyIsList DEF Whole
    <2>2. Sound(g0)
      BY <1>2, Zenon DEF Whole
    <2> QED BY <2>1, <2>2, DiscoveryPruneWhole
  <1> HIDE DEF g1
  <1>4. /\ DOMAIN g1 = AgentFields /\ Sound(g1) /\ g1.streams = g.streams
        /\ g1.sockets = g.sockets /\ g1.gathering \subseteq g.gathering \ {s}
    BY <1>2, <1>3, Zenon DEF Elsewhere, Whole
  <1>5. LookedUp(m \o <<>>, names)
    <2>1. IsList(ll) /\ \A x \in Range(ll) : IsLookup(x, names)
      BY <1>4, Zenon DEF Sound, LookedUp
    <2>2. m = [i \in DOMAIN ll |-> m[i]] /\ \A i \in DOMAIN ll : m[i] = cancelled(ll[i])
      BY Zenon
    <2>3. ASSUME NEW l, IsLookup(l, names) PROVE IsLookup(cancelled(l), names)
      BY <2>3 DEF IsLookup, LookupFields
    <2> HIDE DEF m, cancelled, ll
    <2>4. /\ m \o <<>> = m /\ IsList(m)
          /\ \A x \in Range(m) : \E i \in 1..Len(ll) : x = m[i] /\ ll[i] \in Range(ll)
      BY <2>1, <2>2, MappedIsList
    <2>5. DOMAIN ll = 1..Len(ll)
      BY <2>1, ListIs
    <2>6. \A x \in Range(m) : IsLookup(x, names)
      <3> TAKE x \in Range(m)
      <3>1. PICK i \in 1..Len(ll) : x = m[i] /\ ll[i] \in Range(ll)
        BY <2>4, Zenon
      <3>2. x = cancelled(ll[i]) /\ IsLookup(ll[i], names)
        BY <2>1, <2>2, <2>5, <3>1, Zenon
      <3> QED BY <2>3, <3>2, Zenon
    <2> QED BY <2>4, <2>6 DEF LookedUp
  <1> HIDE DEF m
  <1>6. /\ DOMAIN g2 = AgentFields /\ g2.streams = left
        /\ g2.pruning_streams = g1.pruning_streams \cup {s}
        /\ g2.gathering_started = g1.gathering_started \ {s} /\ g2.gathering = g1.gathering
        /\ g2.local_candidates = g1.local_candidates /\ g2.sockets = g1.sockets
        /\ g2.turn_servers = g1.turn_servers /\ g2.lookups = m \o <<>>
        /\ SameDiscovery(g2, g1) /\ g2.refresh_list = g1.refresh_list
        /\ g2.close = g1.close /\ g2.failed = g1.failed
    BY <1>4 DEF AgentFields, SameDiscovery
  <1> HIDE DEF g2
  <1>7. Whole(g2)
    <2>1. Nested(g2.streams, g2.pruning_streams, g2.gathering_started, g2.gathering)
      <3>1. Nested(g1.streams, g1.pruning_streams, g1.gathering_started, g1.gathering)
        BY <1>4, Zenon DEF Sound
      <3> QED BY <1>4, <1>6, <3>1 DEF Nested
    <2>2. Based(g2.local_candidates, g2.sockets, g2.streams)
      <3>1. Based(g1.local_candidates, g1.sockets, g1.streams)
        BY <1>4, Zenon DEF Sound
      <3> QED BY <1>4, <1>6, <3>1, Zenon DEF Based
    <2>3. Itemized(g2.discovery_list, g2.sockets, g2.streams)
      <3>1. Itemized(g1.discovery_list, g1.sockets, g1.streams)
        BY <1>4, Zenon DEF Sound
      <3>2. ASSUME NEW d \in Range(g1.discovery_list) PROVE IsItem(d, g1.sockets, left)
        <4>1. IsItem(d, g1.sockets, g1.streams) /\ d.nicesock \notin all
          BY <1>3, <3>1, Zenon DEF Itemized
        <4>2. d.nicesock[2] # s
          BY <1>4, <4>1, Zenon DEF SocketsOf, IsItem
        <4>3. d.stream_id \in left
          BY <1>4, <4>1, <4>2, Zenon DEF IsItem
        <4> QED BY <4>1, <4>3, Zenon DEF IsItem
      <3> QED BY <1>6, <3>1, <3>2, Zenon DEF Itemized, SameDiscovery
    <2>4. Refreshing(g2.refresh_list, g2.streams)
      <3>1. Refreshing(g1.refresh_list, g.streams)
        BY <1>4, Zenon DEF Sound
      <3>2. \A r : IsRefresh(r, g.streams) => IsRefresh(r, left)
        BY Zenon DEF IsRefresh, AnyRefresh, Callback
      <3> QED BY <1>6, <3>1, <3>2, Zenon DEF Refreshing
    <2>5. Sound(g2)
      BY <1>4, <1>5, <1>6, <2>1, <2>2, <2>3, <2>4, Zenon DEF Sound, SameDiscovery
    <2> QED BY <1>3, <1>6, <2>5, Zenon DEF Whole, SameDiscovery
  <1>8. Callback(<<"stream", s>>, g2.streams)
    <2>1. <<"stream", s>>[2] = s
      OBVIOUS
    <2> QED BY <1>6, <2>1 DEF Callback
  <1>9. Sound(g2)
    BY <1>7, Zenon DEF Whole
  <1> QED BY <1>1, <1>7, <1>8, <1>9, RefreshPruneAsyncSound, Zenon

\* The loop of nice_agent_close_async, which has a solution.
RemoveRun(f, g, l, n) ==
    f = [i \in 0..n |-> IF i = 0 THEN g
                        ELSE RemoveStream(f[i - 1], l[i])]

\* Its recursion has a solution.
LEMMA RemoveRunExists ==
    ASSUME NEW g, NEW l
    PROVE  \A n \in Nat : \E f : RemoveRun(f, g, l, n)
  <1> DEFINE T == {n \in Nat : \E f : RemoveRun(f, g, l, n)}
             next(f, i) == IF i = 0 THEN g
                           ELSE RemoveStream(f[i - 1], l[i])
  <1>1. 0 \in T
    <2> DEFINE f == [i \in 0..0 |-> g]
    <2>1. \A i \in 0..0 : next(f, i) = g
      OBVIOUS
    <2>2. RemoveRun(f, g, l, 0)
      BY <2>1, Zenon DEF RemoveRun
    <2> QED BY <2>2
  <1>2. ASSUME NEW n \in Nat, n \in T PROVE n + 1 \in T
    <2>1. PICK f : RemoveRun(f, g, l, n)
      BY <1>2
    <2> DEFINE h == [i \in 0..n + 1 |-> next(f, i)]
    <2>2. \A i \in 0..n : f[i] = next(f, i)
      BY <2>1, Zenon DEF RemoveRun
    <2>3. \A i \in 0..n : h[i] = f[i]
      <3> TAKE i \in 0..n
      <3>1. i \in 0..n + 1
        OBVIOUS
      <3>2. h[i] = next(f, i)
        BY <3>1, Zenon
      <3> QED BY <2>2, <3>2, Zenon
    <2>4. \A i \in 0..n + 1 : i # 0 => h[i - 1] = f[i - 1]
      <3> TAKE i \in 0..n + 1
      <3> HAVE i # 0
      <3>1. i - 1 \in 0..n
        OBVIOUS
      <3> QED BY <2>3, <3>1, Zenon
    <2>5. RemoveRun(h, g, l, n + 1)
      <3> HIDE DEF h
      <3>1. h = [i \in 0..n + 1 |-> next(f, i)]
        BY DEF h
      <3>2. \A i \in 0..n + 1 : next(f, i) = next(h, i)
        BY <2>4, Zenon
      <3> QED BY <3>1, <3>2, Zenon DEF RemoveRun
    <2> QED BY <2>5
  <1> HIDE DEF T
  <1>3. \A n \in Nat : n \in T
    BY <1>1, <1>2, Induct
  <1> QED BY <1>3 DEF T

\* How far the close has come does not matter to the rest.
LEMMA CloseSet ==
    ASSUME NEW g, Whole(g), NEW x \in {"open", "pending", "done"}
    PROVE  Whole([g EXCEPT !.close = x])
  <1> DEFINE h == [g EXCEPT !.close = x]
  <1>0. Sound(g) /\ DOMAIN g = AgentFields
    BY Zenon DEF Whole, Sound
  <1>1. /\ DOMAIN h = AgentFields /\ h.close = x /\ h.failed = g.failed
        /\ h.streams = g.streams /\ h.pruning_streams = g.pruning_streams
        /\ h.gathering_started = g.gathering_started /\ h.gathering = g.gathering
        /\ h.local_candidates = g.local_candidates /\ h.sockets = g.sockets
        /\ h.turn_servers = g.turn_servers /\ h.lookups = g.lookups
        /\ h.refresh_list = g.refresh_list /\ SameDiscovery(h, g)
    BY <1>0 DEF AgentFields, SameDiscovery
  <1> HIDE DEF h
  <1>2. Sound(h)
    BY <1>0, <1>1, Zenon DEF Sound, SameDiscovery
  <1>3. Whole(h)
    BY <1>1, <1>2, Zenon DEF Whole, SameDiscovery
  <1> QED BY <1>3 DEF h

\* nice_agent_close_async removes all streams.
LEMMA CloseAsyncWhole ==
    ASSUME NEW g, Whole(g)
    PROVE  Whole(CloseAsync(g))
  <1> DEFINE h == [g EXCEPT !.close = "pending"]
             l == Ordered(g.streams)
             N == Len(l)
             f == CHOOSE f : f = [i \in 0..N |-> IF i = 0 THEN h ELSE RemoveStream(f[i - 1], l[i])]
  <1>0. /\ Sound(g) /\ DOMAIN g = AgentFields /\ g.streams \subseteq Streams
    BY Zenon DEF Whole, Sound, Nested
  <1>1. CloseAsync(g) = f[N]
    BY Zenon DEF CloseAsync, Each
  <1>2. N \in Nat /\ \A i \in 1..N : l[i] \in Streams
    <2>1. IsFiniteSet(g.streams)
      BY <1>0, GatheringAssumption, FS_Subset
    <2>2. IsList(l) /\ Range(l) \subseteq g.streams
      BY <2>1, OrderedIsList
    <2> HIDE DEF l
    <2>3. N \in Nat /\ \A i \in 1..N : l[i] \in Range(l)
      BY <2>2, ListIs
    <2> QED BY <1>0, <2>2, <2>3, Zenon
  <1>3. Whole(h)
    BY CloseSet, Zenon
  <1> HIDE DEF h, N, l
  <1>4. f = [i \in 0..N |-> IF i = 0 THEN h ELSE RemoveStream(f[i - 1], l[i])]
    <2>1. PICK r : RemoveRun(r, h, l, N)
      BY <1>2, RemoveRunExists
    <2>2. r = [i \in 0..N |-> IF i = 0 THEN h ELSE RemoveStream(r[i - 1], l[i])]
      BY <2>1 DEF RemoveRun
    <2> QED BY <2>2, Zenon
  <1> HIDE DEF f
  <1>5. \A i \in 0..N : f[i] = IF i = 0 THEN h ELSE RemoveStream(f[i - 1], l[i])
    BY <1>4, Zenon
  <1> DEFINE T == {n \in Nat : n <= N => Whole(f[n])}
  <1>6. 0 \in T
    BY <1>2, <1>3, <1>5
  <1>7. ASSUME NEW n \in Nat, n \in T PROVE n + 1 \in T
    <2> SUFFICES ASSUME n + 1 <= N PROVE Whole(f[n + 1])
      OBVIOUS
    <2>1. n + 1 \in 0..N /\ n + 1 \in 1..N /\ n + 1 # 0 /\ (n + 1) - 1 = n /\ n <= N
      BY <1>2
    <2>2. f[n + 1] = RemoveStream(f[n], l[n + 1]) /\ l[n + 1] \in Streams
      BY <1>2, <1>5, <2>1
    <2>3. Whole(f[n])
      BY <1>7, <2>1
    <2> QED BY <2>2, <2>3, RemoveStreamWhole, Zenon
  <1> HIDE DEF T
  <1>8. N \in T
    BY <1>2, <1>6, <1>7, Induct, SMTT(30), Z3T(30)
  <1> QED BY <1>1, <1>2, <1>8 DEF T

-----------------------------------------------------------------------------
(* The steps.                                                              *)

\* agent_unlock_and_emit ends every handler.
LEMMA LeftWhole ==
    ASSUME NEW g, Whole(g), NEW rest, Leave(g, rest), sc' = sc
    PROVE  Whole(agent)' /\ agent'.out = {}
  <1> DEFINE u == UnlockAndEmit(g)
             h == [u EXCEPT !.out = {}]
  <1>1. u = g \/ u = [g EXCEPT !.close = "done"]
    BY Zenon DEF UnlockAndEmit
  <1>2. Whole(u)
    BY <1>1, CloseSet
  <1> HIDE DEF u
  <1>3. Sound(u) /\ DOMAIN u = AgentFields
    BY <1>2, Zenon DEF Whole, Sound
  <1>4. Whole(h)
    BY <1>2, <1>3, OutOnly, Zenon
  <1>5. h.out = {}
    BY <1>3 DEF AgentFields
  <1>6. agent' = h
    BY Zenon DEF Leave, u
  <1> HIDE DEF h
  <1> QED BY <1>4, <1>5, <1>6, Zenon DEF Whole, Sound

\* A fault is one of those that may still happen.
LEMMA FaultCounted ==
    ASSUME sc \in Scenarios, faults \in 0..sc.faults, NEW kind, NEW cost \in BOOLEAN,
           Fault(kind, cost)
    PROVE  faults' \in 0..sc.faults
  <1>1. sc.faults \in Nat
    BY GatheringAssumption
  <1>2. CASE cost
    BY <1>1, <1>2 DEF Fault
  <1>3. CASE ~cost
    BY <1>3, Zenon DEF Fault
  <1> QED BY <1>2, <1>3

\* A handler that makes no call of the application.
LEMMA HandlerKeeps ==
    ASSUME GatheringInv, NEW g, Whole(g), NEW rest, Leave(g, rest), sc' = sc, calls' = calls,
           faults' \in 0..sc.faults, refreshes' \in 0..sc.refreshes
    PROVE  GatheringInv'
  <1>1. Whole(agent)' /\ agent'.out = {}
    BY LeftWhole, Zenon
  <1> QED BY <1>1, Zenon DEF GatheringInv

\* What the network does is not the agent's.
LEMMA NetworkKeeps ==
    ASSUME GatheringInv, agent' = agent, sc' = sc, calls' = calls,
           faults' \in 0..sc.faults, refreshes' = refreshes
    PROVE  GatheringInv'
  <1>1. Whole(agent)'
    BY Zenon DEF GatheringInv, Whole, Sound
  <1> QED BY <1>1, Zenon DEF GatheringInv

\* Whatever the application calls keeps the invariant.
LEMMA CallKeeps ==
    ASSUME GatheringInv, Call
    PROVE  GatheringInv'
  <1> DEFINE c == Head(calls)
             g == IF c[1] # "close" /\ c[2] \notin agent.streams THEN agent ELSE Effect(agent, c)
  <1>1. /\ sc \in Scenarios /\ IsList(calls) /\ Range(calls) \subseteq Range(sc.calls)
        /\ Whole(agent)
    BY Zenon DEF GatheringInv
  <1>2. /\ calls # <<>> /\ Leave(g, net) /\ calls' = Tail(calls) /\ sc' = sc /\ faults' = faults
        /\ refreshes' = refreshes
    BY DEF Call
  <1>3. IsList(Tail(calls)) /\ Range(Tail(calls)) \subseteq Range(calls) /\ c \in Range(calls)
    BY <1>1, <1>2, ShortenedIsList
  <1> HIDE DEF c
  <1>4. /\ c[1] \in {"gather", "relay", "forget", "remove", "close"}
        /\ c[1] = "relay" => c[3] # None
    <2>1. c \in Range(sc.calls)
      BY <1>1, <1>3, Zenon
    <2> QED BY <1>1, <2>1, GatheringAssumption
  <1>5. Whole(g)
    <2>1. CASE c[1] # "close" /\ c[2] \notin agent.streams
      BY <1>1, <2>1, Zenon
    <2>2. CASE c[1] = "close"
      <3>1. g = CloseAsync(agent)
        BY <2>2 DEF Effect
      <3> QED BY <1>1, <3>1, CloseAsyncWhole, Zenon
    <2>3. CASE c[1] = "gather" /\ c[2] \in agent.streams
      <3>1. g = GatherCandidates(agent, c[2])
        BY <2>3 DEF Effect
      <3> QED BY <1>1, <2>3, <3>1, GatherCandidatesWhole, Zenon
    <2>4. CASE c[1] = "relay" /\ c[2] \in agent.streams
      <3>1. g = SetRelayInfo(agent, c[2], c[3])
        BY <2>4 DEF Effect
      <3> QED BY <1>1, <1>4, <2>4, <3>1, SetRelayInfoWhole, Zenon
    <2>5. CASE c[1] = "forget" /\ c[2] \in agent.streams
      <3>1. g = CleanTurnServers(agent, c[2])
        BY <2>5 DEF Effect
      <3> QED BY <1>1, <2>5, <3>1, CleanTurnServersWhole, Zenon
    <2>6. CASE c[1] = "remove" /\ c[2] \in agent.streams
      <3>1. g = RemoveStream(agent, c[2])
        BY <2>6 DEF Effect
      <3>2. c[2] \in Streams
        BY <1>1, <2>6, Zenon DEF Whole, Sound, Nested
      <3> QED BY <1>1, <3>1, <3>2, RemoveStreamWhole, Zenon
    <2> HIDE DEF g
    <2> QED BY <1>4, <2>1, <2>2, <2>3, <2>4, <2>5, <2>6, Zenon
  <1> HIDE DEF g
  <1>6. Whole(agent)' /\ agent'.out = {}
    BY <1>2, <1>5, LeftWhole, Zenon
  <1>7. IsList(calls') /\ Range(calls') \subseteq Range(sc.calls)
    BY <1>1, <1>2, <1>3, Zenon
  <1>8. IsList(calls)' /\ Range(calls)' = Range(calls')
    BY <1>7 DEF IsList, Range
  <1> QED BY <1>1, <1>2, <1>6, <1>7, <1>8, Zenon DEF GatheringInv

\* The resolver is done with a lookup, and the lock let go of.
LEMMA LookupCountedWhole ==
    ASSUME NEW g, Whole(g), NEW l \in Range(g.lookups)
    PROVE  Whole([g EXCEPT !.lookups[LookupAt(g, l)].counted = FALSE])
  <1> DEFINE at == LookupAt(g, l)
             x == [g.lookups[at] EXCEPT !.counted = FALSE]
             k == Written(g.lookups, at, x)
             h == [g EXCEPT !.lookups = k]
  <1>0. /\ Sound(g) /\ DOMAIN g = AgentFields /\ LookedUp(g.lookups, DOMAIN sc.dns)
        /\ Served(g.turn_servers) /\ g.gathering \subseteq g.gathering_started
        /\ g.failed \subseteq {"stream of a lookup"}
    BY Zenon DEF Whole, Sound, Nested
  <1>1. [g EXCEPT !.lookups[LookupAt(g, l)].counted = FALSE] = h
    BY Zenon DEF Written
  <1>2. at \in 1..Len(g.lookups) /\ IsList(g.lookups)
    BY LookupTaken, Zenon
  <1> HIDE DEF at
  <1>3. IsLookup(x, DOMAIN sc.dns)
    <2>1. g.lookups[at] \in Range(g.lookups)
      BY <1>2, ListIs
    <2>2. IsLookup(g.lookups[at], DOMAIN sc.dns)
      BY <1>0, <2>1, Zenon DEF LookedUp
    <2> QED BY <2>2 DEF IsLookup, LookupFields
  <1>4. LookedUp(k, DOMAIN sc.dns)
    <2> HIDE DEF x
    <2>1. IsList(k) /\ Range(k) \subseteq Range(g.lookups) \cup {x}
      BY <1>2, WrittenIsList
    <2> QED BY <1>0, <1>3, <2>1, Zenon DEF LookedUp
  <1> HIDE DEF k
  <1>5. /\ Beside(h, g) /\ h.gathering = g.gathering /\ h.turn_servers = g.turn_servers
        /\ h.lookups = k /\ h.failed = g.failed
    BY <1>0 DEF AgentFields, Beside, SameDiscovery
  <1> HIDE DEF h
  <1>6. Whole(h)
    BY <1>0, <1>4, <1>5, BesideSound
  <1> QED BY <1>1, <1>6, Zenon

\* So do the resolver, the timers, the replies and the servers,
LEMMA SystemKeeps ==
    ASSUME GatheringInv, System
    PROVE  GatheringInv'
  <1>0. /\ sc \in Scenarios /\ Whole(agent) /\ Sound(agent) /\ faults \in 0..sc.faults
        /\ refreshes \in 0..sc.refreshes
        /\ \A r \in Range(agent.refresh_list) : IsRefresh(r, agent.streams)
    BY Zenon DEF GatheringInv, Whole, Sound, Refreshing
  <1>1. ASSUME NEW l \in Range(agent.lookups), TurnLookupCounted(l) PROVE GatheringInv'
    <2> DEFINE g == [agent EXCEPT !.lookups[LookupAt(agent, l)].counted = FALSE]
    <2>1. Whole(g)
      BY <1>0, LookupCountedWhole, Zenon
    <2>2. Leave(g, net) /\ sc' = sc /\ calls' = calls /\ faults' = faults /\ refreshes' = refreshes
      BY <1>1 DEF TurnLookupCounted
    <2> HIDE DEF g
    <2> QED BY <1>0, <2>1, <2>2, HandlerKeeps, Zenon
  <1>2. ASSUME NEW l \in Range(agent.lookups), NEW ok \in BOOLEAN, StunResolved(l, ok)
        PROVE  GatheringInv'
    <2> DEFINE g == StunServerResolved(agent, l, ok)
    <2>1. Whole(g)
      BY <1>0, StunServerResolvedWhole, Zenon
    <2>2. Leave(g, net) /\ Fault("dns", ~ok) /\ sc' = sc /\ calls' = calls /\ refreshes' = refreshes
      BY <1>2 DEF StunResolved
    <2> HIDE DEF g
    <2>3. faults' \in 0..sc.faults
      BY <1>0, <2>2, FaultCounted
    <2> QED BY <1>0, <2>1, <2>2, <2>3, HandlerKeeps, Zenon
  <1>3. ASSUME NEW l \in Range(agent.lookups), NEW ok \in BOOLEAN, TurnResolved(l, ok)
        PROVE  GatheringInv'
    <2> DEFINE g == TurnServerResolved(agent, l, ok)
    <2>1. /\ l.type = "TURN" /\ Leave(g, net) /\ Fault("dns", ~ok)
          /\ sc' = sc /\ calls' = calls /\ refreshes' = refreshes
      BY <1>3 DEF TurnResolved
    <2>2. Whole(g)
      BY <1>0, <2>1, TurnServerResolvedWhole, Zenon
    <2> HIDE DEF g
    <2>3. faults' \in 0..sc.faults
      BY <1>0, <2>1, FaultCounted
    <2> QED BY <1>0, <2>1, <2>2, <2>3, HandlerKeeps, Zenon
  <1>4. ASSUME NEW due, NEW late, DiscoveryTick(due, late) PROVE GatheringInv'
    <2> DEFINE g == DiscoveryTickUnlocked(agent, due \cup late)
    <2>1. Whole(g)
      BY <1>0, DiscoveryTickWhole, Zenon
    <2>2. /\ Leave(g, net) /\ Fault("late", late # {})
          /\ sc' = sc /\ calls' = calls /\ refreshes' = refreshes
      BY <1>4 DEF DiscoveryTick
    <2> HIDE DEF g
    <2>3. faults' \in 0..sc.faults
      BY <1>0, <2>2, FaultCounted
    <2> QED BY <1>0, <2>1, <2>2, <2>3, HandlerKeeps, Zenon
  <1>5. ASSUME NEW r \in Range(agent.refresh_list), RefreshRemove(r) PROVE GatheringInv'
    <2> DEFINE g == RefreshRemoveAsync(agent, r)
    <2>1. Whole(g)
      BY <1>0, RefreshTickWhole, Zenon DEF IsRefresh
    <2>2. Leave(g, net) /\ sc' = sc /\ calls' = calls /\ faults' = faults /\ refreshes' = refreshes
      BY <1>5 DEF RefreshRemove
    <2> HIDE DEF g
    <2> QED BY <1>0, <2>1, <2>2, HandlerKeeps, Zenon
  <1>6. ASSUME NEW r \in Range(agent.refresh_list), RefreshRetransmit(r) PROVE GatheringInv'
    <2> DEFINE g == RefreshRetransmissionsTick(agent, r)
    <2>1. Whole(g)
      BY <1>0, RefreshRetransmissionsTickWhole, Zenon
    <2>2. /\ Leave(g, net) /\ Fault("late", InFlight(r.msg))
          /\ sc' = sc /\ calls' = calls /\ refreshes' = refreshes
      BY <1>6 DEF RefreshRetransmit
    <2>3. InFlight(r.msg) \in BOOLEAN
      BY DEF InFlight
    <2> HIDE DEF g
    <2>4. faults' \in 0..sc.faults
      BY <1>0, <2>2, <2>3, FaultCounted
    <2> QED BY <1>0, <2>1, <2>2, <2>4, HandlerKeeps, Zenon
  <1>7. ASSUME NEW m, Receive(m) PROVE GatheringInv'
    <2> DEFINE g == IF m.to \in agent.sockets /\ m.to[2] \in agent.streams
                    THEN HandleReply(agent, m) ELSE agent
    <2>1. Whole(g)
      BY <1>0, HandleReplyWhole, Zenon
    <2>2. /\ Leave(g, net \ {m}) /\ sc' = sc /\ calls' = calls /\ faults' = faults
          /\ refreshes' = refreshes
      BY <1>7 DEF Receive
    <2> HIDE DEF g
    <2> QED BY <1>0, <2>1, <2>2, HandlerKeeps, Zenon
  <1>8. ASSUME NEW m, NEW a \in Answers(m), Serve(m, a[1], a[2]) PROVE GatheringInv'
    <2>1. a[2] \in BOOLEAN
      <3>1. \E x : \E b \in BOOLEAN : a = <<x, b>>
        BY Zenon DEF Answers
      <3> QED BY <3>1
    <2>2. /\ Fault(a[1], a[2]) /\ agent' = agent /\ sc' = sc /\ calls' = calls
          /\ refreshes' = refreshes
      BY <1>8, Zenon DEF Serve
    <2>3. faults' \in 0..sc.faults
      BY <1>0, <2>1, <2>2, FaultCounted, SMTT(30), Z3T(30)
    <2> QED BY <2>2, <2>3, NetworkKeeps, Zenon
  <1> QED BY <1>1, <1>2, <1>3, <1>4, <1>5, <1>6, <1>7, <1>8, Zenon DEF System

\* and the calls, the choice of a pair, and the faults.
LEMMA EnvironmentKeeps ==
    ASSUME GatheringInv, Environment
    PROVE  GatheringInv'
  <1>0. /\ sc \in Scenarios /\ Whole(agent) /\ Sound(agent) /\ faults \in 0..sc.faults
        /\ refreshes \in 0..sc.refreshes
        /\ \A r \in Range(agent.refresh_list) : IsRefresh(r, agent.streams)
    BY Zenon DEF GatheringInv, Whole, Sound, Refreshing
  <1>1. CASE Call
    BY <1>1, CallKeeps
  <1>2. ASSUME NEW s, NEW c, Select(s, c) PROVE GatheringInv'
    <2> DEFINE g == UpdateSelectedPair(agent, s, c)
    <2>1. Whole(g)
      BY <1>0, UpdateSelectedPairWhole, Zenon
    <2>2. Leave(g, net) /\ sc' = sc /\ calls' = calls /\ faults' = faults /\ refreshes' = refreshes
      BY <1>2 DEF Select
    <2> HIDE DEF g
    <2> QED BY <1>0, <2>1, <2>2, HandlerKeeps, Zenon
  <1>3. ASSUME NEW r \in Range(agent.refresh_list), RefreshTick(r) PROVE GatheringInv'
    <2> DEFINE g == RefreshTickUnlocked(agent, r)
    <2>1. Whole(g)
      BY <1>0, RefreshTickWhole, Zenon DEF IsRefresh
    <2>2. /\ Leave(g, net) /\ sc' = sc /\ calls' = calls /\ faults' = faults
          /\ refreshes > 0 /\ refreshes' = refreshes - 1
      BY <1>3 DEF RefreshTick
    <2> HIDE DEF g
    <2>3. refreshes' \in 0..sc.refreshes
      <3>1. sc.refreshes \in Nat
        BY <1>0, GatheringAssumption
      <3> QED BY <1>0, <2>2, <3>1
    <2> QED BY <1>0, <2>1, <2>2, <2>3, HandlerKeeps, Zenon
  <1>4. ASSUME NEW k, SocketError(k) PROVE GatheringInv'
    <2> DEFINE g == RemoveSocket(agent, k[2], k)
    <2>1. /\ k[2] \in agent.streams /\ Leave(g, net) /\ Fault("socket", TRUE)
          /\ sc' = sc /\ calls' = calls /\ refreshes' = refreshes
      BY <1>4 DEF SocketError
    <2>2. Whole(g)
      BY <1>0, <2>1, RemoveSocketWhole, Zenon
    <2> HIDE DEF g
    <2>3. faults' \in 0..sc.faults
      BY <1>0, <2>1, FaultCounted
    <2> QED BY <1>0, <2>1, <2>2, <2>3, HandlerKeeps, Zenon
  <1>5. ASSUME NEW m, Lose(m) PROVE GatheringInv'
    <2>1. /\ Fault("lose", TRUE) /\ agent' = agent /\ sc' = sc /\ calls' = calls
          /\ refreshes' = refreshes
      BY <1>5, Zenon DEF Lose
    <2>2. faults' \in 0..sc.faults
      BY <1>0, <2>1, FaultCounted, ZenonT(30), SMTT(30)
    <2> QED BY <2>1, <2>2, NetworkKeeps, Zenon
  <1> QED BY <1>1, <1>2, <1>3, <1>4, <1>5, Zenon DEF Environment

\* A new agent has no lists and no timers.
LEMMA GatheringInvInit ==
    ASSUME Init
    PROVE  GatheringInv
  <1> DEFINE g == NewAgent
  <1>1. /\ sc \in Scenarios /\ agent = g /\ calls = sc.calls
        /\ faults = sc.faults /\ refreshes = sc.refreshes
    BY DEF Init
  <1>2. /\ sc.faults \in Nat /\ sc.refreshes \in Nat /\ IsList(sc.calls)
    BY <1>1, GatheringAssumption
  <1>3. /\ DOMAIN g = AgentFields /\ g.streams = Streams /\ g.pruning_streams = {}
        /\ g.gathering_started = {} /\ g.gathering = {} /\ g.sockets = {}
        /\ g.turn_servers = [s \in Streams |-> <<>>]
        /\ g.local_candidates = [s \in Streams |-> <<>>]
        /\ g.lookups = <<>> /\ g.discovery_list = <<>> /\ g.discovery_unsched_items = 0
        /\ g.discovery_timer = FALSE /\ g.refresh_list = <<>> /\ g.close = "open"
        /\ g.out = {} /\ g.failed = {}
    BY ZenonT(30), SMTT(30) DEF NewAgent, AgentFields
  <1> HIDE DEF g
  <1>4. IsList(<<>>) /\ Range(<<>>) = {}
    BY EmptyIsList
  <1> DEFINE none == [s \in Streams |-> <<>>]
  <1>5. DOMAIN none = Streams /\ \A s \in Streams : none[s] = <<>>
    BY Zenon
  <1> HIDE DEF none
  <1>6. /\ Based(none, {}, Streams) /\ Served(none) /\ LookedUp(<<>>, DOMAIN sc.dns)
        /\ Refreshing(<<>>, Streams) /\ Nested(Streams, {}, {}, {})
    BY <1>4, <1>5 DEF Based, Served, LookedUp, Refreshing, Nested
  <1>7. Itemized(<<>>, {}, Streams) /\ Counted(<<>>, 0) /\ Timed(FALSE, <<>>, 0)
    BY EmptyDiscovery, Zenon
  <1>8. Whole(g)
    BY <1>3, <1>6, <1>7 DEF Whole, Sound, none
  <1> QED BY <1>1, <1>2, <1>3, <1>8 DEF GatheringInv

\* What the invariant says of the discovery list.
LEMMA GatheringInvDriven ==
    ASSUME GatheringInv
    PROVE  DiscoveryDriven
  <1> DEFINE l == agent.discovery_list
             n == agent.discovery_unsched_items
  <1>1. /\ Sound(agent) /\ Itemized(l, agent.sockets, agent.streams) /\ Counted(l, n)
        /\ Timed(agent.discovery_timer, l, n) /\ Refreshing(agent.refresh_list, agent.streams)
        /\ Nested(agent.streams, agent.pruning_streams, agent.gathering_started, agent.gathering)
        /\ agent.close \in {"open", "pending", "done"}
        /\ agent.failed \subseteq {"stream of a lookup"} /\ agent.out = {}
        /\ faults \in 0..sc.faults /\ refreshes \in 0..sc.refreshes
        /\ ~agent.discovery_timer => l = <<>>
    BY Zenon DEF GatheringInv, Whole, Sound
  <1>2. TypeOK
    <2>1. \A d \in Range(l) : /\ d.sends \in 0..Transmissions /\ (d.done => d.msg = None /\ ~d.open)
                              /\ d.nicesock \in agent.sockets
      BY <1>1, Zenon DEF Itemized, IsItem
    <2>2. \A r \in Range(agent.refresh_list) : r.sends \in 0..Transmissions /\ r.zero \in BOOLEAN
      BY <1>1, Zenon DEF Refreshing, IsRefresh, AnyRefresh
    <2>3. n \in Nat
      BY <1>1, Zenon DEF Counted
    <2>4. /\ agent.streams \cup agent.pruning_streams \subseteq Streams
          /\ agent.gathering \subseteq agent.gathering_started
          /\ agent.gathering_started \subseteq agent.streams
      BY <1>1, Zenon DEF Nested
    <2> QED BY <1>1, <2>1, <2>2, <2>3, <2>4, Zenon DEF TypeOK
  <1>3. Driven
    <2>1. agent.discovery_timer <=> l # <<>>
      BY <1>1, Zenon DEF Timed
    <2>2. /\ Cardinality({i \in DOMAIN l : ~l[i].pending}) <= n
          /\ n > 0 => l # <<>>
      BY <1>1, Zenon DEF Counted, Unsent
    <2> QED BY <1>1, <2>1, <2>2, Zenon DEF Driven
  <1>4. RefreshesTimed
    <2> SUFFICES ASSUME NEW r \in Range(agent.refresh_list)
                 PROVE  /\ r.open => r.tick
                        /\ ~r.disposing => r.timer # r.tick
                        /\ r.disposing => r.destroy \/ (r.tick /\ r.zero)
      BY DEF RefreshesTimed
    <2>1. AnyRefresh(r, agent.streams) /\ OneTimer(r)
      BY <1>1, Zenon DEF Refreshing, IsRefresh
    <2>2. ~r.disposing => r.timer # r.tick
      BY <2>1 DEF AnyRefresh, OneTimer
    <2> QED BY <2>1, <2>2, Zenon DEF AnyRefresh, OneTimer
  <1> QED BY <1>2, <1>3, <1>4 DEF DiscoveryDriven

\* The discovery timer runs exactly while the list has items, whatever calls,
\* resolvers, servers, timers and faults do: nothing that is to be sent is
\* forgotten, and discovery_schedule() never finds an empty list.  Every
\* refresh has the one timer that sends its next request, or is being released.
\* Neither gathering nor a close can hang on something nobody drives.
THEOREM GatheringIsDriven == Spec => []DiscoveryDriven
  <1>1. Init => GatheringInv
    BY GatheringInvInit
  <1>2. GatheringInv /\ [Next]_vars => GatheringInv'
    <2> SUFFICES ASSUME GatheringInv, [Next]_vars PROVE GatheringInv'
      OBVIOUS
    <2>1. CASE System
      BY <2>1, SystemKeeps
    <2>2. CASE Environment
      BY <2>2, EnvironmentKeeps
    <2>3. CASE UNCHANGED vars
      <3>1. /\ agent' = agent /\ sc' = sc /\ calls' = calls /\ faults' = faults
            /\ refreshes' = refreshes
        BY <2>3 DEF vars
      <3>2. faults' \in 0..sc.faults
        BY <3>1, Zenon DEF GatheringInv
      <3> QED BY <3>1, <3>2, NetworkKeeps, Zenon
    <2> QED BY <2>1, <2>2, <2>3, Zenon DEF Next
  <1>3. GatheringInv => DiscoveryDriven
    BY GatheringInvDriven
  <1> QED BY <1>1, <1>2, <1>3, PTL DEF Spec
=============================================================================
