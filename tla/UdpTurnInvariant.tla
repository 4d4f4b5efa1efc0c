-------------------------- MODULE UdpTurnInvariant --------------------------
(***************************************************************************)
(* The inductive invariant of the TURN client socket (module UdpTurn), and *)
(* that the steps of the program and the timers of its channels keep it.   *)
(* Module UdpTurnProofs has the other steps and the theorems.              *)
(*                                                                         *)
(* A step changes the socket through several operators, each from a record *)
(* to a record.  The invariant is therefore a predicate on records: Sound  *)
(* holds of every record a step goes through, with the messages under way  *)
(* and those it has written, Linked and Going hold when it is done.        *)
(***************************************************************************)
EXTENDS UdpTurn, FiniteSetTheorems, TLAPS

SockFields ==
    {"channels", "pending_bindings", "current_binding", "current_binding_msg",
     "pending_permissions", "tick_source_channel_bind", "tick_source_create_permission",
     "permissions", "sent_permissions", "granted", "send_data_queues", "out",
     "permission_timeout", "cached_nonce", "written", "endless", "stalled", "expired", "unsent"}

-----------------------------------------------------------------------------
(* What is in the records.                                                 *)

IsRequest(m, method) ==
    /\ DOMAIN m = {"id", "method", "peer", "channel", "nonce", "left"}
    /\ m.id \in Nat /\ m.method = method /\ m.peer \in Peers
    /\ m.left \in 0..Transmissions - 1

\* A request under way to the server, and an answer.
IsWire(m) ==
    \/ /\ DOMAIN m = {"id", "to", "method", "peer", "channel", "nonce"}
       /\ m.id \in Nat /\ m.to = "server" /\ m.peer \in Peers
       /\ m.method \in {"ChannelBind", "CreatePermission"}
    \/ /\ DOMAIN m = {"id", "to", "method", "class", "nonce"}
       /\ m.id \in Nat /\ m.to = "client"

Timers == {"renew", "expire", "off"}
Binding == [peer : Peers, channel : 1..Channels, renew : BOOLEAN, timer : Timers, left : Nat]
Target == [peer : Peers, channel : 1..Channels]

ServerTyped ==
    /\ DOMAIN server = {"nonce", "permission", "binding"}
    /\ server.permission \in [Peers -> Nat]
    /\ server.binding \in [1..Channels -> {None} \cup [peer : Peers, left : Nat]]

-----------------------------------------------------------------------------
(* Permissions and data.                                                   *)

\* The timers of the requests run.
Timed(s) == s.tick_source_create_permission
BindTimed(s) == s.tick_source_channel_bind

PendingPeers(s) == {m.peer : m \in s.pending_permissions}

\* A peer is asked for by one request, or by none that could be written, or is
\* in `asking`, of which the step has yet to make the request.
Asked(s, asking) ==
    /\ IsFiniteSet(s.pending_permissions)
    /\ \A m \in s.pending_permissions : IsRequest(m, "CreatePermission")
    /\ \A m, n \in s.pending_permissions : m.peer = n.peer => m = n
    /\ s.sent_permissions = PendingPeers(s) \cup s.unsent \cup asking
    /\ PendingPeers(s) \cap s.unsent = {}
    /\ asking \cap (PendingPeers(s) \cup s.unsent) = {}
    /\ s.unsent \subseteq Peers /\ asking \subseteq Peers
    /\ s.permissions \subseteq Peers /\ s.permissions \cap s.sent_permissions = {}
    /\ s.granted \subseteq s.permissions

\* Their timer runs, except within the step that makes the first one.
Ticking(s) == s.pending_permissions # {} => Timed(s)

\* What waits is what was given and not written, in order, and waits only for
\* a peer that has been asked for.
Queued(s, g) ==
    /\ s.send_data_queues \in [Peers -> Seq(Nat)] /\ s.out \in [Peers -> Nat]
    /\ \A p \in Peers : LET q == s.send_data_queues[p] IN
          /\ q # <<>> => p \in s.sent_permissions
          /\ Len(q) = g[p] - s.out[p]
          /\ \A i \in 1..Len(q) : q[i] = s.out[p] + i

-----------------------------------------------------------------------------
(* Channels.                                                               *)

\* The server knows a channel to a peer for at least t minutes.
Holds(n, p, t) ==
    /\ server.binding[n] # None
    /\ server.binding[n].peer = p /\ server.binding[n].left >= t

\* ... and does for all channels until the socket lets one expire.
Backed(b) ==
    \/ b.timer = "renew" /\ b.left <= BindingTimeout /\ ~b.renew
       /\ Holds(b.channel, b.peer, b.left + ExpireTimeout)
    \/ b.timer = "expire" /\ b.left <= ExpireTimeout
       /\ (b.left = 0 \/ Holds(b.channel, b.peer, b.left))

\* Only a channel that expires this minute may have a successor to its peer,
\* which is new.
Succeeds(a, b) ==
    /\ a.timer = "expire" /\ a.left = 0
    /\ b.timer = "renew" /\ b.left = BindingTimeout

\* A list of channels, and one of which none was left to expire.
Listed(c) ==
    /\ c \in Seq(Binding)
    /\ \A i \in DOMAIN c :
          /\ c[i].left <= BindingTimeout + ExpireTimeout
          /\ c[i].timer = "renew" => c[i].left <= BindingTimeout
          /\ \A j \in DOMAIN c : c[i].channel = c[j].channel => i = j
Kept(c) ==
    \A i \in DOMAIN c :
        /\ Backed(c[i])
        /\ \A j \in DOMAIN c : i < j /\ c[i].peer = c[j].peer => Succeeds(c[i], c[j])

Channeled(s) ==
    /\ Listed(s.channels) /\ s.pending_bindings \in Seq(Peers)
    /\ s.expired \/ Kept(s.channels)
    /\ s.current_binding # None =>
          /\ s.current_binding \in Target
          /\ \A i \in DOMAIN s.channels : s.channels[i].channel # s.current_binding.channel
    /\ s.current_binding_msg # None => /\ IsRequest(s.current_binding_msg, "ChannelBind")
                                       /\ s.current_binding_msg.channel \in 1..Channels

\* The server has no two channels to a peer.
OneChannel ==
    \A j, k \in 1..Channels :
        server.binding[j] # None /\ server.binding[k] # None
            /\ server.binding[j].peer = server.binding[k].peer => j = k

\* A request to renew is about a channel of the list, which is about to expire.
Linked(s) ==
    s.current_binding_msg # None =>
        IF s.current_binding # None
        THEN /\ s.current_binding_msg.peer = s.current_binding.peer
             /\ s.current_binding_msg.channel = s.current_binding.channel
        ELSE \E i \in DOMAIN s.channels :
                /\ s.channels[i].peer = s.current_binding_msg.peer
                /\ s.channels[i].channel = s.current_binding_msg.channel
                /\ s.expired \/ s.channels[i].timer = "expire"

\* PendingGetProcessed, of a record.
Going(s) ==
    /\ ~s.endless
    /\ s.current_binding # None => s.current_binding_msg # None
    /\ s.pending_bindings # <<>> => s.current_binding # None
    /\ s.current_binding_msg # None => BindTimed(s) \/ s.stalled

-----------------------------------------------------------------------------
(* Requests, their messages and what the server did about them.            *)

Served(r) ==
    /\ server.permission[r.peer] = PermissionLife
    /\ r.method = "ChannelBind" =>
          server.binding[r.channel] = [peer |-> r.peer, left |-> BindingLife]

\* A message with the id of a request is of that request or of its answer.
Matches(m, r) ==
    m.id = r.id =>
        /\ m.to = "server" =>
              m.method = r.method /\ m.peer = r.peer /\ m.channel = r.channel
        /\ m.to = "client" /\ m.class = "ok" /\ m.method = r.method => Served(r)

Tracked(s) ==
    /\ IsFiniteSet(s.written) /\ \A m \in s.written : IsWire(m) /\ m.to = "server"
    /\ \A r, q \in Requests(s) : r.id = q.id => r = q
    /\ \A r \in Requests(s), m \in net \cup s.written : Matches(m, r)

\* A permission the server has granted outlives the socket's trust in it.
Trusted(s) ==
    /\ s.permission_timeout # None =>
          \E n \in 0..PermissionTimeout : s.permission_timeout = <<n>>
    /\ \A p \in s.granted :
          /\ s.permission_timeout # None
          /\ server.permission[p] >= s.permission_timeout[1] + ExpireTimeout

Sound(s, asking) ==
    /\ DOMAIN s = SockFields
    /\ Asked(s, asking) /\ Queued(s, given)
    /\ Channeled(s) /\ Tracked(s) /\ Trusted(s)

\* The inductive invariant.
TurnInv ==
    /\ given \in [Peers -> Nat] /\ ServerTyped /\ OneChannel
    /\ IsFiniteSet(net) /\ \A m \in net : IsWire(m)
    /\ sock.written = {}
    /\ Sound(sock, {}) /\ Linked(sock) /\ Going(sock) /\ Ticking(sock)

\* Taking out what is in one of two sets that share nothing.
LEMMA OneLess ==
    ASSUME NEW A, NEW B, NEW p \in A, A \cap B = {}
    PROVE  (A \cup B) \ {p} = (A \ {p}) \cup B /\ (A \ {p}) \cap B = {}
  OBVIOUS

\* What a list of channels has are bindings.
LEMMA ListedTyped ==
    ASSUME NEW c, Listed(c)
    PROVE  \A i \in DOMAIN c : c[i] \in Binding
  <1>1. c \in Seq(Binding)
    BY DEF Listed
  <1> QED BY <1>1

\* A record of which a part is sound after a step is the socket after it.
LEMMA KeptMoves ==
    ASSUME NEW c, sock'.channels = c, Kept(c)'
    PROVE  Kept(sock.channels)'
  <1>1. ASSUME NEW i \in DOMAIN c PROVE Backed(sock.channels[i])'
    <2>1. Backed(c[i])'
      BY DEF Kept
    <2> QED BY <2>1 DEF Backed, Holds
  <1>2. ASSUME NEW i \in DOMAIN c, NEW j \in DOMAIN c, i < j, c[i].peer = c[j].peer
        PROVE  Succeeds(sock.channels[i], sock.channels[j])'
    <2>1. Succeeds(c[i], c[j])'
      BY <1>2 DEF Kept
    <2> QED BY <2>1 DEF Succeeds
  <1> QED BY <1>1, <1>2 DEF Kept

\* The same channels stay in order ...
LEMMA ChanneledMoves ==
    ASSUME NEW s, sock' = s, Channeled(s)'
    PROVE  Channeled(sock)'
  <1>1. /\ Listed(s.channels) /\ s.pending_bindings \in Seq(Peers)
        /\ s.expired \/ Kept(s.channels)'
        /\ s.current_binding # None =>
              /\ s.current_binding \in Target
              /\ \A i \in DOMAIN s.channels : s.channels[i].channel # s.current_binding.channel
        /\ s.current_binding_msg # None => /\ IsRequest(s.current_binding_msg, "ChannelBind")
                                           /\ s.current_binding_msg.channel \in 1..Channels
    BY DEF Channeled
  <1>2. s.expired \/ Kept(sock.channels)'
    BY <1>1, KeptMoves
  <1> QED BY <1>1, <1>2 DEF Channeled

\* ... and the same requests known to the network.
LEMMA TrackedMoves ==
    ASSUME NEW s, sock' = s, Tracked(s)'
    PROVE  Tracked(sock)'
  BY ZenonT(30) DEF Tracked

-----------------------------------------------------------------------------
(* Numbers and sets.                                                       *)

\* A set of naturals has a least element.
LEMMA Least ==
    ASSUME NEW T \in SUBSET Nat, T # {}
    PROVE  \E n \in T : \A k \in T : n <= k
  <1>1. PICK n \in T : \A k \in T : ~(<<k, n>> \in OpToRel(<, Nat))
    BY NatLessThanWellFounded, WFMin, ZenonT(30)
  <1>2. \A k \in T : ~(k < n)
    BY <1>1, ZenonT(30) DEF OpToRel
  <1> QED BY <1>2, SMT

\* The ids of finitely many messages are finitely many.
LEMMA IdsFinite ==
    ASSUME NEW A, IsFiniteSet(A)
    PROVE  IsFiniteSet({m.id : m \in A})
  <1> DEFINE f == [m \in A |-> m.id]
             B == {m.id : m \in A}
  <1>1. f \in Surjection(A, B)
    BY DEF Surjection
  <1> QED BY <1>1, FS_Surjection

\* Nothing with a field is None.
LEMMA NotNone ==
    ASSUME NEW r, "peer" \in DOMAIN r
    PROVE  r # None
  BY DEF None

\* The new id is in use nowhere.
LEMMA FreshIdIsFresh ==
    ASSUME NEW s, IsFiniteSet(net), IsFiniteSet(s.written),
           IsFiniteSet(s.pending_permissions), IsFiniteSet(sock.pending_permissions)
    PROVE  /\ FreshId(s) \in Nat
           /\ \A m \in net \cup s.written \cup Requests(s) \cup Requests(sock) :
                m.id # FreshId(s)
  <1> DEFINE A == net \cup s.written \cup Requests(s) \cup Requests(sock)
             used == {m.id : m \in A}
             n == Cardinality(used)
             T == {i \in 0..n : i \notin used}
  <1>1. IsFiniteSet(Requests(s)) /\ IsFiniteSet(Requests(sock))
    BY FS_EmptySet, FS_Singleton, FS_Union, ZenonT(30) DEF Requests
  <1>2. IsFiniteSet(A)
    BY <1>1, FS_Union, ZenonT(30)
  <1>3. IsFiniteSet(used)
    BY <1>2, IdsFinite
  <1>4. n \in Nat
    BY <1>3, FS_CardinalityType
  <1> HIDE DEF A
  <1>5. Cardinality(0..n) = n + 1
    BY <1>4, FS_Interval
  <1>6. ~(0..n \subseteq used)
    <2> SUFFICES ASSUME 0..n \in SUBSET used PROVE FALSE
      OBVIOUS
    <2>1. Cardinality(0..n) <= n
      BY <1>3, FS_Subset, ZenonT(30)
    <2> HIDE DEF n
    <2> QED BY <1>4, <1>5, <2>1
  <1> HIDE DEF n, used
  <1>7. T # {} /\ T \in SUBSET Nat
    BY <1>4, <1>6
  <1>8. PICK i \in T : \A k \in T : i <= k
    BY <1>7, Least, ZenonT(30)
  <1>9. i \in 0..n /\ i \notin used /\ 0..i - 1 \subseteq used
    BY <1>4, <1>8
  <1>10. FreshId(s) = CHOOSE j \in 0..n : j \notin used /\ 0..j - 1 \subseteq used
    BY DEF FreshId, n, used, A
  <1>11. FreshId(s) \in 0..n /\ FreshId(s) \notin used
    BY <1>9, <1>10
  <1> QED BY <1>4, <1>11 DEF used, A

-----------------------------------------------------------------------------
(* priv_schedule_tick, second half.                                        *)

\* The local definitions of SchedulePermissions: the requests that are due, those
\* of them that are repeated, the peers of the others, what is pending then.
Ready(s, due) == {m \in s.pending_permissions : m.id \in due}
Again(s, due) == {m \in Ready(s, due) : m.left > 0}
Over(s, due) == {m.peer : m \in Ready(s, due) \ Again(s, due)}
Rest(s, due) ==
    (s.pending_permissions \ Ready(s, due)) \cup {[m EXCEPT !.left = @ - 1] : m \in Again(s, due)}

\* From s to r the channels, and what the server has granted, stay as they are.
KeepsBindings(r, s) ==
    /\ r.channels = s.channels /\ r.pending_bindings = s.pending_bindings
    /\ r.current_binding = s.current_binding
    /\ r.current_binding_msg = s.current_binding_msg
    /\ r.tick_source_channel_bind = s.tick_source_channel_bind
    /\ r.endless = s.endless /\ r.stalled = s.stalled /\ r.expired = s.expired
KeepsGrants(r, s) ==
    /\ r.granted = s.granted /\ r.permission_timeout = s.permission_timeout
    /\ r.unsent = s.unsent

\* What SchedulePermissions does, field by field.
Scheduled(r, s, due) ==
    /\ DOMAIN r = SockFields
    /\ KeepsBindings(r, s) /\ KeepsGrants(r, s)
    /\ r.pending_permissions = Rest(s, due)
    /\ r.sent_permissions = s.sent_permissions \ Over(s, due)
    /\ r.permissions = s.permissions \cup Over(s, due)
    /\ Rest(s, due) # {} => Timed(r)
    /\ r.written = s.written \cup {OnWire(m) : m \in Again(s, due)}
    /\ r.send_data_queues = [p \in Peers |->
          IF p \in Over(s, due) THEN <<>> ELSE s.send_data_queues[p]]
    /\ r.out = [p \in Peers |->
          IF p \in Over(s, due) /\ s.send_data_queues[p] # <<>>
          THEN Last(s.send_data_queues[p]) ELSE s.out[p]]

\* What priv_schedule_tick does to the permissions, part by part.
LEMMA SchedulePermissionsIs ==
    ASSUME NEW s, DOMAIN s = SockFields, NEW due
    PROVE  Scheduled(SchedulePermissions(s, due), s, due)
  <1> DEFINE r == SchedulePermissions(s, due)
  <1>1. r = DequeueAllData(Write([s EXCEPT !.pending_permissions = Rest(s, due),
                                       !.sent_permissions = @ \ Over(s, due),
                                       !.permissions = @ \cup Over(s, due),
                                       !.tick_source_create_permission = Rest(s, due) # {}],
                             Again(s, due)), Over(s, due))
    BY DEF SchedulePermissions, Rest, Over, Again, Ready
  <1> HIDE DEF r
  <1>2. r.tick_source_create_permission = (Rest(s, due) # {})
    BY <1>1 DEF DequeueAllData, Write, SockFields
  <1>3. Rest(s, due) # {} => Timed(r)
    BY ONLY <1>2, ZenonT(30) DEF Timed
  <1>4. Scheduled(r, s, due)
    BY <1>1, <1>3 DEF DequeueAllData, Write, SockFields, KeepsBindings, KeepsGrants, Scheduled
  <1> QED BY <1>4 DEF r

\* The requests after it differ from those before it in their timers only.
Older(r, m) == r.id = m.id /\ r.method = m.method /\ r.peer = m.peer /\ r.channel = m.channel

\* What is left waiting are requests that waited before.
LEMMA RestIs ==
    ASSUME NEW s, NEW due, \A m \in s.pending_permissions : IsRequest(m, "CreatePermission")
    PROVE  /\ \A r \in Rest(s, due) : /\ IsRequest(r, "CreatePermission")
                                      /\ \E m \in s.pending_permissions : Older(r, m)
           /\ \A m \in s.pending_permissions :
                m.id \notin due => m \in Rest(s, due)
           /\ \A m \in s.pending_permissions :
                m.peer \in Over(s, due) \/ \E r \in Rest(s, due) : r.peer = m.peer
  <1>1. ASSUME NEW m \in s.pending_permissions, m.left > 0
        PROVE  /\ IsRequest([m EXCEPT !.left = @ - 1], "CreatePermission")
               /\ Older([m EXCEPT !.left = @ - 1], m)
    BY <1>1, TurnAssumption DEF IsRequest, Older
  <1> QED BY <1>1, ZenonT(30) DEF Rest, Again, Ready, Over, Older

\* Finitely many requests stay finitely many.
LEMMA RestFinite ==
    ASSUME NEW s, NEW due, IsFiniteSet(s.pending_permissions)
    PROVE  IsFiniteSet(Rest(s, due)) /\ IsFiniteSet({OnWire(m) : m \in Again(s, due)})
  <1> DEFINE older == {[m EXCEPT !.left = @ - 1] : m \in Again(s, due)}
             wires == {OnWire(m) : m \in Again(s, due)}
  <1>1. IsFiniteSet(Again(s, due)) /\ IsFiniteSet(s.pending_permissions \ Ready(s, due))
    BY FS_Subset DEF Again, Ready
  <1>2. [m \in Again(s, due) |-> [m EXCEPT !.left = @ - 1]] \in Surjection(Again(s, due), older)
    BY DEF Surjection
  <1>3. [m \in Again(s, due) |-> OnWire(m)] \in Surjection(Again(s, due), wires)
    BY DEF Surjection
  <1>4. IsFiniteSet(older) /\ IsFiniteSet(wires)
    BY <1>1, <1>2, <1>3, FS_Surjection
  <1> QED BY <1>1, <1>4, FS_Union, ZenonT(30) DEF Rest

\* The permissions after it: whoever is given up on counts as permitted.
LEMMA SchedulePermissionsAsked ==
    ASSUME NEW s, NEW due, Asked(s, {}), NEW r, Scheduled(r, s, due)
    PROVE  Asked(r, {})
  <1>1. /\ r.pending_permissions = Rest(s, due)
        /\ r.sent_permissions = s.sent_permissions \ Over(s, due)
        /\ r.permissions = s.permissions \cup Over(s, due)
        /\ KeepsGrants(r, s)
    BY DEF Scheduled
  <1>2. \A m \in s.pending_permissions : IsRequest(m, "CreatePermission")
    BY DEF Asked
  <1>3. /\ \A m \in Rest(s, due) : IsRequest(m, "CreatePermission")
        /\ \A m \in s.pending_permissions :
                m.peer \in Over(s, due) \/ \E n \in Rest(s, due) : n.peer = m.peer
    BY <1>2, RestIs
  <1>4. IsFiniteSet(Rest(s, due))
    BY RestFinite, ZenonT(30) DEF Asked
  <1>5. \A m \in s.pending_permissions : DOMAIN m = {"id", "method", "peer", "channel", "nonce", "left"}
    BY <1>2 DEF IsRequest
  <1>6. \A m, n \in s.pending_permissions : m.peer = n.peer => m = n
    BY DEF Asked
  <1>7. \A m, n \in Rest(s, due) : m.peer = n.peer => m = n
    BY <1>5, <1>6 DEF Rest, Again, Ready
  <1>8. \A m \in Rest(s, due) : m.peer \in PendingPeers(s) /\ m.peer \notin Over(s, due)
    BY <1>5, <1>6 DEF Rest, Again, Ready, Over, PendingPeers
  <1>9. Over(s, due) \subseteq PendingPeers(s)
    BY DEF Over, Ready, PendingPeers
  <1>10. PendingPeers(s) \subseteq Peers
    BY <1>2 DEF PendingPeers, IsRequest
  <1>11. PendingPeers(r) = PendingPeers(s) \ Over(s, due)
    BY <1>1, <1>3, <1>8 DEF PendingPeers
  <1> QED
    BY <1>1, <1>3, <1>4, <1>7, <1>9, <1>10, <1>11 DEF Asked, KeepsGrants

\* ... and its data leaves, in order.
LEMMA SchedulePermissionsQueued ==
    ASSUME NEW s, NEW due, Queued(s, given), given \in [Peers -> Nat],
           NEW r, Scheduled(r, s, due)
    PROVE  Queued(r, given)
  <1>1. /\ r.sent_permissions = s.sent_permissions \ Over(s, due)
        /\ r.send_data_queues = [p \in Peers |->
                IF p \in Over(s, due) THEN <<>> ELSE s.send_data_queues[p]]
        /\ r.out = [p \in Peers |->
                IF p \in Over(s, due) /\ s.send_data_queues[p] # <<>>
                THEN Last(s.send_data_queues[p]) ELSE s.out[p]]
    BY DEF Scheduled
  <1>2. ASSUME NEW p \in Peers, s.send_data_queues[p] # <<>>
        PROVE  Last(s.send_data_queues[p]) = given[p]
    <2> DEFINE q == s.send_data_queues[p]
    <2>1. q \in Seq(Nat) /\ q # <<>> /\ s.out[p] \in Nat /\ given[p] \in Nat
      BY <1>2 DEF Queued
    <2>2. Len(q) = given[p] - s.out[p] /\ \A i \in 1..Len(q) : q[i] = s.out[p] + i
      BY DEF Queued
    <2> HIDE DEF q
    <2>3. Len(q) \in 1..Len(q)
      BY <2>1
    <2>4. q[Len(q)] = given[p]
      BY <2>1, <2>2, <2>3
    <2> QED BY <2>4 DEF Last, q
  <1>3. \A p \in Peers : r.send_data_queues[p] \in Seq(Nat) /\ r.out[p] \in Nat
    BY <1>1, <1>2 DEF Queued
  <1>4. r.send_data_queues \in [Peers -> Seq(Nat)] /\ r.out \in [Peers -> Nat]
    BY <1>1, <1>3
  <1>5. ASSUME NEW p \in Peers
        PROVE  LET q == r.send_data_queues[p] IN
                  /\ q # <<>> => p \in r.sent_permissions
                  /\ Len(q) = given[p] - r.out[p]
                  /\ \A i \in 1..Len(q) : q[i] = r.out[p] + i
    <2>1. CASE p \in Over(s, due)
      <3>1. r.send_data_queues[p] = <<>> /\ r.out[p] = given[p]
        <4>1. CASE s.send_data_queues[p] # <<>>
          BY <1>1, <1>2, <2>1, <4>1
        <4>2. CASE s.send_data_queues[p] = <<>>
          BY <1>1, <2>1, <4>2 DEF Queued
        <4> QED BY <4>1, <4>2
      <3> QED BY <3>1
    <2>2. CASE p \notin Over(s, due)
      BY <1>1, <2>2 DEF Queued
    <2> QED BY <2>1, <2>2
  <1> QED BY <1>4, <1>5, ZenonT(30) DEF Queued

\* Requests and messages: a repeated request is the request it was.
LEMMA ScheduledTracked ==
    ASSUME NEW s, NEW due, Asked(s, {}), Channeled(s), Tracked(s), NEW r, Scheduled(r, s, due)
    PROVE  Tracked(r)
  <1>1. /\ r.pending_permissions = Rest(s, due)
        /\ r.current_binding_msg = s.current_binding_msg
        /\ r.written = s.written \cup {OnWire(m) : m \in Again(s, due)}
    BY DEF Scheduled, KeepsBindings
  <1> DEFINE cb == IF s.current_binding_msg = None THEN {} ELSE {s.current_binding_msg}
  <1>2. Requests(r) = Rest(s, due) \cup cb /\ Requests(s) = s.pending_permissions \cup cb
    BY <1>1 DEF Requests
  <1>3. \A m \in cb : IsRequest(m, "ChannelBind")
    BY DEF Channeled
  <1> HIDE DEF cb
  <1>4. \A m \in s.pending_permissions : IsRequest(m, "CreatePermission")
    BY DEF Asked
  <1>5. \A m \in s.pending_permissions :
            DOMAIN m = {"id", "method", "peer", "channel", "nonce", "left"}
    BY <1>4 DEF IsRequest
  <1>6. \A m \in Rest(s, due) : m.method = "CreatePermission"
    BY <1>4, RestIs DEF IsRequest
  <1>7. \A m \in Rest(s, due) : \E n \in s.pending_permissions : Older(m, n)
    BY <1>4, RestIs
  <1>8. \A m \in Requests(r) : \E n \in Requests(s) : Older(m, n)
    BY <1>2, <1>7 DEF Older
  <1>9. \A m, n \in s.pending_permissions : m.id = n.id => m = n
    BY <1>2 DEF Tracked
  <1>10. \A m, n \in Rest(s, due) : m.id = n.id => m = n
    BY <1>5, <1>9 DEF Rest, Again, Ready
  <1>11. \A m \in s.pending_permissions, n \in cb : m.id # n.id
    BY <1>2, <1>3, <1>4 DEF Tracked, IsRequest
  <1>12. \A m \in Rest(s, due), n \in cb : m.id # n.id
    BY <1>7, <1>11 DEF Older
  <1>13. \A m, n \in cb : m.id = n.id => m = n
    BY <1>2 DEF Tracked
  <1>14. \A m, n \in Requests(r) : m.id = n.id => m = n
    BY <1>2, <1>10, <1>12, <1>13
  <1>15. ASSUME NEW m \in Again(s, due)
         PROVE  /\ IsWire(OnWire(m)) /\ OnWire(m).to = "server"
                /\ \A n \in Requests(s) : Matches(OnWire(m), n)
    <2>1. m \in s.pending_permissions /\ m \in Requests(s)
      BY <1>2 DEF Again, Ready
    <2>2. IsRequest(m, "CreatePermission")
      BY <1>4, <2>1
    <2>3. \A n \in Requests(s) : m.id = n.id => m = n
      BY <2>1 DEF Tracked
    <2> QED BY <2>2, <2>3 DEF OnWire, IsWire, Matches, IsRequest
  <1>16. IsFiniteSet(r.written)
    <2> DEFINE w == {OnWire(m) : m \in Again(s, due)}
    <2>1. IsFiniteSet(s.written) /\ IsFiniteSet(w) /\ r.written = s.written \cup w
      BY <1>1, RestFinite DEF Tracked, Asked
    <2> HIDE DEF w
    <2> QED BY <2>1, FS_Union, ZenonT(30)
  <1>17. \A m \in r.written : IsWire(m) /\ m.to = "server"
    BY <1>1, <1>15 DEF Tracked
  <1>18. \A n \in Requests(s), m \in net \cup r.written : Matches(m, n)
    BY <1>1, <1>15 DEF Tracked
  <1>19. ASSUME NEW q, NEW n, Older(q, n), NEW m, Matches(m, n)
         PROVE  Matches(m, q)
    BY <1>19 DEF Older, Matches, Served
  <1>20. \A q \in Requests(r), m \in net \cup r.written : Matches(m, q)
    BY <1>8, <1>18, <1>19
  <1> QED BY <1>14, <1>16, <1>17, <1>20 DEF Tracked

\* From s to r no request leaves whose timer has not run out.
Forward(r, s, due) ==
    /\ \A m \in s.pending_permissions : m.id \notin due => m \in r.pending_permissions
    /\ Ticking(s) => Ticking(r)

\* The whole of it.
LEMMA SchedulePermissionsSound ==
    ASSUME NEW s, NEW due, Sound(s, {}), given \in [Peers -> Nat]
    PROVE  LET r == SchedulePermissions(s, due)
           IN  Sound(r, {}) /\ Forward(r, s, due) /\ Ticking(r)
  <1> DEFINE r == SchedulePermissions(s, due)
  <1>1. Scheduled(r, s, due)
    BY SchedulePermissionsIs DEF Sound
  <1> HIDE DEF r
  <1>2. Asked(r, {})
    BY <1>1, SchedulePermissionsAsked DEF Sound
  <1>3. Queued(r, given)
    BY <1>1, SchedulePermissionsQueued DEF Sound
  <1>4. Tracked(r)
    BY <1>1, ScheduledTracked DEF Sound
  <1>5. Channeled(r)
    BY <1>1 DEF Sound, Channeled, Scheduled, KeepsBindings
  <1>6. Trusted(r)
    BY <1>1 DEF Sound, Trusted, Scheduled, KeepsGrants
  <1>7. DOMAIN r = SockFields
    BY <1>1 DEF Scheduled
  <1>8. Sound(r, {})
    BY <1>2, <1>3, <1>4, <1>5, <1>6, <1>7 DEF Sound
  <1>9. Ticking(r)
    BY <1>1 DEF Scheduled, Ticking
  <1>10. Forward(r, s, due)
    <2>1. \A m \in s.pending_permissions : IsRequest(m, "CreatePermission")
      BY DEF Sound, Asked
    <2>2. \A m \in s.pending_permissions : m.id \notin due => m \in Rest(s, due)
      BY <2>1, RestIs
    <2> QED BY <1>1, <1>9, <2>2 DEF Forward, Scheduled
  <1> QED BY <1>8, <1>9, <1>10 DEF r
-----------------------------------------------------------------------------
(* New requests.                                                           *)

\* What the operators on the record may assume of the other variables.
Around ==
    /\ given \in [Peers -> Nat] /\ IsFiniteSet(net) /\ IsFiniteSet(sock.pending_permissions)

\* A request of which there is no trace yet.
IsNew(m, s) == \A q \in Requests(s) \cup net \cup s.written : q.id # m.id

\* A new request has an id that nothing under way has.
LEMMA TurnMessageIsNew ==
    ASSUME Around, NEW s, Tracked(s), IsFiniteSet(s.pending_permissions),
           NEW method, NEW p \in Peers, NEW n
    PROVE  LET m == TurnMessage(s, method, p, n)
           IN  IsRequest(m, method) /\ IsNew(m, s) /\ m.peer = p /\ m.channel = n
                 /\ m.id = FreshId(s)
  <1>1. FreshId(s) \in Nat /\ \A q \in Requests(s) \cup net \cup s.written : q.id # FreshId(s)
    BY FreshIdIsFresh DEF Around, Tracked
  <1>2. Transmissions - 1 \in 0..Transmissions - 1
    BY TurnAssumption
  <1> QED BY <1>1, <1>2 DEF TurnMessage, IsRequest, IsNew

\* Requests stay tracked when such a one joins them, some leave, and the new one
\* is written.
LEMMA TrackedNew ==
    ASSUME NEW s, Tracked(s), NEW m, IsNew(m, s),
           IsRequest(m, "ChannelBind") \/ IsRequest(m, "CreatePermission"),
           NEW r, Requests(r) \subseteq Requests(s) \cup {m},
           r.written \subseteq s.written \cup {OnWire(m)}
    PROVE  Tracked(r)
  <1>1. IsWire(OnWire(m)) /\ OnWire(m).to = "server" /\ OnWire(m).id = m.id /\ Matches(OnWire(m), m)
    BY DEF IsWire, OnWire, IsRequest, Matches
  <1>2. IsFiniteSet(r.written)
    <2>1. IsFiniteSet(s.written \cup {OnWire(m)})
      BY FS_AddElement, ZenonT(30) DEF Tracked
    <2> QED BY <2>1, FS_Subset
  <1>3. \A q \in Requests(s) : Matches(OnWire(m), q)
    BY <1>1 DEF Matches, IsNew
  <1>4. \A w \in net \cup s.written : Matches(w, m)
    BY DEF Matches, IsNew
  <1>5. \A a, b \in Requests(r) : a.id = b.id => a = b
    BY DEF IsNew, Tracked
  <1>6. \A q \in Requests(r), w \in net \cup r.written : Matches(w, q)
    BY <1>1, <1>3, <1>4 DEF Tracked
  <1> QED BY <1>1, <1>2, <1>5, <1>6 DEF Tracked

\* ... or when only some leave.
LEMMA TrackedLess ==
    ASSUME NEW s, Tracked(s), NEW r, Requests(r) \subseteq Requests(s), r.written = s.written
    PROVE  Tracked(r)
  BY DEF Tracked

-----------------------------------------------------------------------------
(* The parts of Sound that a step does not touch.                          *)

KeepsPermissions(r, s) ==
    /\ r.pending_permissions = s.pending_permissions
    /\ r.sent_permissions = s.sent_permissions /\ r.permissions = s.permissions
    /\ r.granted = s.granted /\ r.permission_timeout = s.permission_timeout
    /\ r.unsent = s.unsent
    /\ r.tick_source_create_permission = s.tick_source_create_permission
    /\ r.send_data_queues = s.send_data_queues /\ r.out = s.out

\* Whoever leaves the permissions alone keeps what is said of them,
LEMMA PermissionsKept ==
    ASSUME NEW s, NEW r, KeepsPermissions(r, s), NEW asking
    PROVE  /\ Asked(s, asking) => Asked(r, asking)
           /\ Queued(s, given) => Queued(r, given)
           /\ Trusted(s) => Trusted(r)
  <1>2. Asked(s, asking) => Asked(r, asking)
    BY DEF KeepsPermissions, Asked, PendingPeers
  <1>3. Queued(s, given) => Queued(r, given)
    BY DEF KeepsPermissions, Queued
  <1>4. Trusted(s) => Trusted(r)
    BY DEF KeepsPermissions, Trusted
  <1> QED BY <1>2, <1>3, <1>4

\* and their timers,
LEMMA ForwardKept ==
    ASSUME NEW s, NEW r, KeepsPermissions(r, s), NEW due
    PROVE  Forward(r, s, due)
  <1>1. Timed(s) => Timed(r)
    BY DEF KeepsPermissions, Timed
  <1> QED BY <1>1 DEF KeepsPermissions, Forward, Ticking

\* and the same for the channel bindings.
LEMMA BindingsKept ==
    ASSUME NEW s, NEW r, KeepsBindings(r, s)
    PROVE  /\ Channeled(s) => Channeled(r)
           /\ Linked(s) => Linked(r)
           /\ Going(s) => Going(r)
  BY DEF KeepsBindings, Channeled, Linked, Going, BindTimed

-----------------------------------------------------------------------------
(* priv_send_channel_bind.                                                 *)

BindSent(r, s, n, p) ==
    /\ r.current_binding_msg # None
    /\ r.current_binding_msg.peer = p /\ r.current_binding_msg.channel = n
    /\ BindTimed(r)
    /\ r.channels = s.channels /\ r.pending_bindings = s.pending_bindings
    /\ r.current_binding = s.current_binding
    /\ r.endless = s.endless /\ r.stalled = s.stalled /\ r.expired = s.expired

\* priv_send_channel_bind leaves a request that is timed.
LEMMA SendChannelBindSound ==
    ASSUME Around, NEW s, Sound(s, {}), NEW p \in Peers, NEW n \in 1..Channels, NEW due
    PROVE  LET r == SendChannelBind(s, n, p, due)
           IN  Sound(r, {}) /\ BindSent(r, s, n, p) /\ Forward(r, s, due) /\ Ticking(r)
  <1> DEFINE m == TurnMessage(s, "ChannelBind", p, n)
             t == [s EXCEPT !.current_binding_msg = m, !.tick_source_channel_bind = TRUE,
                            !.written = @ \cup {OnWire(m)}]
             r == SendChannelBind(s, n, p, due)
  <1>1. DOMAIN s = SockFields /\ Tracked(s) /\ Channeled(s) /\ IsFiniteSet(s.pending_permissions)
    BY DEF Sound, Asked
  <1>2. IsRequest(m, "ChannelBind") /\ IsNew(m, s) /\ m.peer = p /\ m.channel = n
    BY <1>1, TurnMessageIsNew
  <1>3. m # None
    BY DEF TurnMessage, None
  <1>4. r = SchedulePermissions(t, due)
    <2>1. t = Write([s EXCEPT !.current_binding_msg = m, !.tick_source_channel_bind = TRUE], {m})
      BY <1>1, ZenonT(30) DEF Write, SockFields
    <2> QED BY <2>1 DEF SendChannelBind
  <1> HIDE DEF m, r
  <1>5. /\ DOMAIN t = SockFields /\ t.current_binding_msg = m
        /\ t.tick_source_channel_bind = TRUE /\ t.written = s.written \cup {OnWire(m)}
        /\ t.channels = s.channels /\ t.pending_bindings = s.pending_bindings
        /\ t.current_binding = s.current_binding /\ t.endless = s.endless
        /\ t.stalled = s.stalled /\ t.expired = s.expired
        /\ KeepsPermissions(t, s)
    BY <1>1 DEF SockFields, KeepsPermissions
  <1> HIDE DEF t
  <1>6. Requests(t) \subseteq Requests(s) \cup {m}
    BY <1>5 DEF Requests, KeepsPermissions
  <1>7. Tracked(t)
    BY <1>1, <1>2, <1>5, <1>6, TrackedNew
  <1>8. Channeled(t)
    BY <1>1, <1>2, <1>5 DEF Channeled
  <1>9. Sound(t, {})
    BY <1>5, <1>7, <1>8, PermissionsKept DEF Sound
  <1>10. Sound(r, {}) /\ Forward(r, t, due) /\ Ticking(r)
    BY <1>4, <1>9, SchedulePermissionsSound DEF Around
  <1>11. KeepsBindings(r, t)
    BY <1>4, <1>5, SchedulePermissionsIs, ZenonT(30) DEF Scheduled
  <1>12. BindSent(r, s, n, p)
    BY <1>2, <1>3, <1>5, <1>11 DEF KeepsBindings, BindSent, BindTimed
  <1>13. Forward(r, s, due)
    BY <1>5, <1>10 DEF Forward, KeepsPermissions
  <1> QED BY <1>10, <1>12, <1>13 DEF r

-----------------------------------------------------------------------------
(* priv_add_channel_binding.                                               *)

\* The first free channel is a free channel.
LEMMA FirstFreeIsFree ==
    ASSUME NEW s, FreeChannels(s) # {}
    PROVE  /\ FirstFree(s) \in 1..Channels
           /\ \A i \in DOMAIN s.channels : s.channels[i].channel # FirstFree(s)
  <1>1. FreeChannels(s) \in SUBSET Nat
    BY TurnAssumption DEF FreeChannels
  <1>2. \E n \in FreeChannels(s) : \A k \in FreeChannels(s) : n <= k
    BY <1>1, Least
  <1>3. FirstFree(s) \in FreeChannels(s)
    BY <1>2 DEF FirstFree
  <1> QED BY <1>3 DEF FreeChannels, Elements

\* A record in which nothing is under way halfway.
Whole(s) == Sound(s, {}) /\ Linked(s) /\ Going(s)

\* A request is timed when it is new.
Restarted(r, s) ==
    r.current_binding_msg # None /\ r.current_binding_msg # s.current_binding_msg => BindTimed(r)

\* With a binding under way the peer waits.
LEMMA PeerWaits ==
    ASSUME NEW s, Whole(s), NEW p \in Peers, s.current_binding # None
    PROVE  LET r == [s EXCEPT !.pending_bindings = Append(@, p)]
           IN  Whole(r) /\ (Ticking(s) => Ticking(r)) /\ Restarted(r, s)
  <1> DEFINE r == [s EXCEPT !.pending_bindings = Append(@, p)]
  <1>1. DOMAIN s = SockFields /\ s.pending_bindings \in Seq(Peers)
    BY DEF Whole, Sound, Channeled
  <1>2. /\ DOMAIN r = SockFields /\ r.pending_bindings = Append(s.pending_bindings, p)
        /\ r.channels = s.channels /\ r.current_binding = s.current_binding
        /\ r.current_binding_msg = s.current_binding_msg
        /\ r.tick_source_channel_bind = s.tick_source_channel_bind
        /\ r.endless = s.endless /\ r.stalled = s.stalled /\ r.expired = s.expired
        /\ r.written = s.written
        /\ KeepsPermissions(r, s)
    BY <1>1 DEF SockFields, KeepsPermissions
  <1>3. r.pending_bindings \in Seq(Peers)
    BY <1>1, <1>2
  <1> HIDE DEF r
  <1>4. Channeled(r)
    BY <1>2, <1>3 DEF Whole, Sound, Channeled
  <1>5. Tracked(r)
    BY <1>2, TrackedLess DEF Whole, Sound, Requests, KeepsPermissions
  <1>6. Sound(r, {})
    BY <1>2, <1>4, <1>5, PermissionsKept DEF Sound, Whole
  <1>7. Linked(r) /\ Going(r)
    BY <1>2 DEF Whole, Linked, Going, BindTimed
  <1>8. Whole(r)
    BY <1>6, <1>7 DEF Whole
  <1>9. (Ticking(s) => Ticking(r)) /\ Restarted(r, s)
    BY <1>2, ForwardKept DEF Forward, Restarted
  <1> QED BY <1>8, <1>9 DEF r

\* Otherwise a free channel is asked for.
LEMMA PeerIsBound ==
    ASSUME Around, NEW s, Sound(s, {}), ~s.endless, NEW p \in Peers, NEW due,
           FreeChannels(s) # {}
    PROVE  LET r == [SendChannelBind(s, FirstFree(s), p, due)
                        EXCEPT !.current_binding = [peer |-> p, channel |-> FirstFree(s)]]
           IN  /\ Whole(r) /\ r.current_binding # None /\ BindTimed(r)
               /\ Forward(r, s, due)
  <1> DEFINE n == FirstFree(s)
             c == [peer |-> p, channel |-> n]
             x == SendChannelBind(s, n, p, due)
             r == [x EXCEPT !.current_binding = c]
  <1>1. n \in 1..Channels /\ \A i \in DOMAIN s.channels : s.channels[i].channel # n
    BY FirstFreeIsFree
  <1>2. Sound(x, {}) /\ BindSent(x, s, n, p) /\ Forward(x, s, due)
    BY <1>1, SendChannelBindSound
  <1>3. c # None /\ c \in Target /\ c.peer = p /\ c.channel = n
    BY <1>1 DEF None, Target
  <1> HIDE DEF n, c, x
  <1>4. DOMAIN x = SockFields
    BY <1>2 DEF Sound
  <1>5. /\ DOMAIN r = SockFields /\ r.current_binding = c
        /\ r.channels = x.channels /\ r.pending_bindings = x.pending_bindings
        /\ r.current_binding_msg = x.current_binding_msg
        /\ r.tick_source_channel_bind = x.tick_source_channel_bind
        /\ r.endless = x.endless /\ r.stalled = x.stalled /\ r.expired = x.expired
        /\ r.written = x.written
        /\ KeepsPermissions(r, x)
    BY <1>4, ZenonT(30), SMTT(30) DEF SockFields, KeepsPermissions
  <1> HIDE DEF r
  <1>6. Channeled(r)
    BY <1>1, <1>2, <1>3, <1>5 DEF BindSent, Sound, Channeled
  <1>7. Tracked(r)
    BY <1>2, <1>5, TrackedLess DEF Sound, Requests, KeepsPermissions
  <1>8. Sound(r, {})
    BY <1>2, <1>5, <1>6, <1>7, PermissionsKept DEF Sound
  <1>9. BindTimed(r)
    BY <1>2, <1>5 DEF BindSent, BindTimed
  <1>10. Linked(r) /\ Going(r)
    BY <1>2, <1>3, <1>5, <1>9 DEF Linked, Going, BindSent
  <1>11. Whole(r) /\ r.current_binding # None /\ BindTimed(r)
    BY <1>3, <1>5, <1>8, <1>9, <1>10 DEF Whole
  <1>12. Forward(r, x, due)
    BY <1>5, ForwardKept
  <1>13. Forward(r, s, due)
    BY <1>2, <1>5, <1>12 DEF Forward, KeepsPermissions
  <1> QED BY <1>11, <1>13 DEF r, x, c, n

\* priv_add_channel_binding: a peer waits, is refused or is asked for.
LEMMA AddChannelBindingWhole ==
    ASSUME Around, NEW s, Whole(s), Ticking(s), NEW p \in Peers, NEW due
    PROVE  LET r == AddChannelBinding(s, p, due) IN Whole(r) /\ Ticking(r) /\ Restarted(r, s)
  <1>1. CASE s.current_binding # None
    BY <1>1, PeerWaits DEF AddChannelBinding
  <1>2. CASE s.current_binding = None /\ FreeChannels(s) = {}
    BY <1>2 DEF AddChannelBinding, Restarted
  <1>3. CASE s.current_binding = None /\ FreeChannels(s) # {}
    <2>1. Sound(s, {}) /\ ~s.endless
      BY DEF Whole, Going
    <2> QED BY <1>3, <2>1, PeerIsBound, ZenonT(30) DEF AddChannelBinding, Forward, Restarted
  <1> QED BY <1>1, <1>2, <1>3

-----------------------------------------------------------------------------
(* priv_process_pending_bindings.                                          *)

\* The binding found is marked.
LEMMA RenewableIsMarked ==
    ASSUME NEW s, s.channels \in Seq(Binding), Renewable(s) # 0
    PROVE  Renewable(s) \in DOMAIN s.channels /\ s.channels[Renewable(s)].renew
  <1> DEFINE I == {i \in 1..Len(s.channels) : s.channels[i].renew}
  <1>0. DOMAIN s.channels = 1..Len(s.channels)
    OBVIOUS
  <1>1. Renewable(s) = First(I)
    BY <1>0, ZenonT(30) DEF Renewable
  <1>2. I \in SUBSET Nat /\ I # {}
    BY <1>1 DEF First
  <1>3. \E n \in I : \A k \in I : n <= k
    BY <1>2, Least, ZenonT(30)
  <1>4. First(I) \in I
    BY <1>2, <1>3, ZenonT(30) DEF First
  <1> QED BY <1>1, <1>2, <1>4

\* A record without a binding under way is one whose peers have been taken from
\* the list ...
LEMMA NothingWaits ==
    ASSUME NEW s, Sound(s, {}), ~s.endless, s.current_binding = None,
           s.current_binding_msg = None, NEW r, r = [s EXCEPT !.pending_bindings = <<>>]
    PROVE  /\ Whole(r) /\ r.pending_bindings = <<>> /\ r.current_binding = None
           /\ r.current_binding_msg = None /\ ~r.endless
           /\ \A due : Forward(r, s, due)
  <1>1. DOMAIN s = SockFields
    BY DEF Sound
  <1>2. /\ DOMAIN r = SockFields /\ r.pending_bindings = <<>>
        /\ r.channels = s.channels /\ r.current_binding = None
        /\ r.current_binding_msg = None
        /\ r.endless = s.endless /\ r.expired = s.expired /\ r.written = s.written
        /\ KeepsPermissions(r, s)
    BY <1>1 DEF SockFields, KeepsPermissions
  <1>3. <<>> \in Seq(Peers)
    OBVIOUS
  <1>4. Channeled(r)
    BY <1>2, <1>3 DEF Sound, Channeled
  <1>5. Tracked(r)
    BY <1>2, TrackedLess, ZenonT(30) DEF Sound, Requests, KeepsPermissions
  <1>6. Sound(r, {})
    BY <1>2, <1>4, <1>5, PermissionsKept DEF Sound
  <1>7. Linked(r) /\ Going(r)
    BY <1>2 DEF Linked, Going
  <1>8. \A due : Forward(r, s, due)
    BY <1>2, ForwardKept
  <1> QED BY <1>2, <1>6, <1>7, <1>8 DEF Whole

\* ... after which a channel that expires is renewed.
LEMMA BindingIsRenewed ==
    ASSUME Around, NEW s, Whole(s), s.pending_bindings = <<>>, s.current_binding = None,
           NEW i \in DOMAIN s.channels, s.expired \/ s.channels[i].timer = "expire", NEW due
    PROVE  LET r == SendChannelBind(s, s.channels[i].channel, s.channels[i].peer, due)
           IN  Whole(r) /\ BindTimed(r) /\ Forward(r, s, due)
  <1> DEFINE n == s.channels[i].channel
             p == s.channels[i].peer
             r == SendChannelBind(s, n, p, due)
  <1>1. s.channels[i] \in Binding
    BY DEF Whole, Sound, Channeled, Listed
  <1>2. n \in 1..Channels /\ p \in Peers
    BY <1>1 DEF Binding
  <1>3. Sound(r, {}) /\ BindSent(r, s, n, p) /\ Forward(r, s, due)
    BY <1>2, SendChannelBindSound DEF Whole
  <1> HIDE DEF r
  <1>4. Linked(r)
    BY <1>3 DEF Linked, BindSent
  <1>5. Going(r)
    BY <1>3 DEF Going, BindSent, Whole
  <1>6. Whole(r) /\ BindTimed(r) /\ Forward(r, s, due)
    BY <1>3, <1>4, <1>5 DEF Whole, BindSent
  <1> QED BY <1>6 DEF r

\* When it is called nothing is under way; then something is, and is timed, or
\* nothing waits.
LEMMA ProcessPendingBindingsWhole ==
    ASSUME Around, NEW s, Sound(s, {}), ~s.endless, s.current_binding = None,
           s.current_binding_msg = None, NEW due
    PROVE  LET r == ProcessPendingBindings(s, due)
           IN  /\ Whole(r) /\ (r.current_binding_msg # None => BindTimed(r))
               /\ Forward(r, s, due)
  <1> DEFINE s1 == IF s.pending_bindings = <<>> THEN s
                   ELSE IF FreeChannels(s) = {} THEN [s EXCEPT !.pending_bindings = <<>>]
                   ELSE AddChannelBinding([s EXCEPT !.pending_bindings = Tail(@)],
                                          Head(s.pending_bindings), due)
             i == Renewable(s1)
             r == ProcessPendingBindings(s, due)
  <1>1. r = IF s1.pending_bindings = <<>> /\ s1.current_binding_msg = None /\ i # 0
            THEN SendChannelBind(s1, s1.channels[i].channel, s1.channels[i].peer, due)
            ELSE s1
    BY DEF ProcessPendingBindings
  <1> HIDE DEF r
  <1>2. DOMAIN s = SockFields /\ s.pending_bindings \in Seq(Peers)
    BY DEF Sound, Channeled
  <1>3. /\ Whole(s1) /\ Forward(s1, s, due)
        /\ \/ s1.current_binding # None /\ BindTimed(s1)
           \/ s1.current_binding = None /\ s1.current_binding_msg = None
    <2>1. CASE s.pending_bindings = <<>>
      <3>1. Whole(s)
        BY <2>1 DEF Whole, Linked, Going
      <3>2. Forward(s, s, due)
        BY DEF Forward
      <3> QED BY <2>1, <3>1, <3>2
    <2>3. CASE s.pending_bindings # <<>> /\ FreeChannels(s) = {}
      BY <2>3, NothingWaits
    <2>2. CASE s.pending_bindings # <<>> /\ FreeChannels(s) # {}
      <3> DEFINE t == [s EXCEPT !.pending_bindings = Tail(@)]
                 p == Head(s.pending_bindings)
      <3>1. p \in Peers /\ Tail(s.pending_bindings) \in Seq(Peers)
        BY <1>2, <2>2
      <3>2. /\ DOMAIN t = SockFields /\ t.pending_bindings = Tail(s.pending_bindings)
            /\ t.channels = s.channels /\ t.current_binding = None
            /\ t.current_binding_msg = None
            /\ t.endless = s.endless /\ t.expired = s.expired /\ t.written = s.written
            /\ KeepsPermissions(t, s)
        BY <1>2 DEF SockFields, KeepsPermissions
      <3>3. s1 = AddChannelBinding(t, p, due)
        BY <2>2
      <3> HIDE DEF t, p
      <3>4. Channeled(t)
        BY <3>1, <3>2 DEF Sound, Channeled
      <3>5. Tracked(t)
        BY <3>2, TrackedLess DEF Sound, Requests, KeepsPermissions
      <3>6. Sound(t, {}) /\ ~t.endless
        BY <3>2, <3>4, <3>5, PermissionsKept DEF Sound
      <3>7. FreeChannels(t) # {}
        BY <2>2, <3>2 DEF FreeChannels
      <3>8. s1 = [SendChannelBind(t, FirstFree(t), p, due)
                    EXCEPT !.current_binding = [peer |-> p, channel |-> FirstFree(t)]]
        BY <3>2, <3>3, <3>7, ZenonT(30) DEF AddChannelBinding
      <3> HIDE DEF s1
      <3>9. /\ Whole(s1) /\ Forward(s1, t, due)
            /\ s1.current_binding # None /\ BindTimed(s1)
        BY <3>1, <3>6, <3>7, <3>8, PeerIsBound, ZenonT(30)
      <3>10. Forward(t, s, due)
        BY <3>2, ForwardKept
      <3> QED BY <3>2, <3>9, <3>10 DEF Forward, KeepsPermissions
    <2> QED BY <2>1, <2>2, <2>3
  <1> HIDE DEF s1
  <1>4. CASE s1.pending_bindings = <<>> /\ s1.current_binding_msg = None /\ i # 0
    <2>1. Whole(s1) /\ s1.current_binding = None
      BY <1>3, <1>4, ZenonT(30), SMTT(30) DEF Whole, Going
    <2>2. i \in DOMAIN s1.channels /\ s1.channels[i].renew
      BY <1>4, <2>1, RenewableIsMarked DEF Whole, Sound, Channeled, Listed
    <2>3. s1.expired \/ s1.channels[i].timer = "expire"
      BY <2>1, <2>2, ZenonT(30) DEF Whole, Sound, Channeled, Kept, Backed
    <2>4. r = SendChannelBind(s1, s1.channels[i].channel, s1.channels[i].peer, due)
      BY <1>1, <1>4
    <2> HIDE DEF i
    <2>5. Whole(r) /\ BindTimed(r) /\ Forward(r, s1, due)
      BY <1>4, <2>1, <2>2, <2>3, <2>4, BindingIsRenewed, ZenonT(30)
    <2>6. Forward(r, s, due)
      BY <1>3, <2>5 DEF Forward
    <2> QED BY <2>5, <2>6 DEF r
  <1>5. CASE ~(s1.pending_bindings = <<>> /\ s1.current_binding_msg = None /\ i # 0)
    <2>1. r = s1
      BY <1>1, <1>5
    <2> QED BY <1>3, <2>1 DEF r
  <1> QED BY <1>4, <1>5

-----------------------------------------------------------------------------
(* The retransmission timer of a ChannelBind, and priv_schedule_tick.      *)

\* The binding under way is given up or has its answer.
LEMMA BindingIsOver ==
    ASSUME NEW s, Sound(s, {}), ~s.endless, NEW r, DOMAIN r = SockFields,
           r.current_binding = None, r.current_binding_msg = None, Channeled(r),
           r.endless = s.endless, r.written = s.written, KeepsPermissions(r, s)
    PROVE  Sound(r, {}) /\ ~r.endless /\ \A due : Forward(r, s, due)
  <1>1. Tracked(r)
    BY TrackedLess DEF Sound, Requests, KeepsPermissions
  <1>2. \A due : Forward(r, s, due)
    BY ForwardKept
  <1> QED BY <1>1, <1>2, PermissionsKept DEF Sound

\* A ChannelBind that timed out makes way for the next peer.
LEMMA BindingTimesOutWhole ==
    ASSUME Around, NEW s, Sound(s, {}), ~s.endless, NEW due
    PROVE  LET r == BindingTimesOut(s, due)
           IN  /\ Whole(r) /\ (r.current_binding_msg # None => BindTimed(r))
               /\ Forward(r, s, due)
  <1> DEFINE t == [s EXCEPT !.current_binding = None, !.current_binding_msg = None]
  <1>1. DOMAIN s = SockFields
    BY DEF Sound
  <1>2. /\ DOMAIN t = SockFields /\ t.current_binding = None /\ t.current_binding_msg = None
        /\ t.channels = s.channels /\ t.pending_bindings = s.pending_bindings
        /\ t.endless = s.endless /\ t.expired = s.expired /\ t.written = s.written
        /\ KeepsPermissions(t, s)
    BY <1>1 DEF SockFields, KeepsPermissions
  <1>3. BindingTimesOut(s, due) = ProcessPendingBindings(t, due)
    BY DEF BindingTimesOut
  <1> HIDE DEF t
  <1>4. Channeled(t)
    BY <1>2 DEF Sound, Channeled
  <1>5. Sound(t, {}) /\ ~t.endless /\ Forward(t, s, due)
    BY <1>2, <1>4, BindingIsOver
  <1>6. LET r == ProcessPendingBindings(t, due)
        IN  /\ Whole(r) /\ (r.current_binding_msg # None => BindTimed(r))
            /\ Forward(r, t, due)
    BY <1>2, <1>5, ProcessPendingBindingsWhole
  <1> QED BY <1>2, <1>3, <1>5, <1>6 DEF Forward, KeepsPermissions

\* The request is repeated, and stays the request it was.
LEMMA RepeatBindingWhole ==
    ASSUME NEW s, Sound(s, {}), Linked(s), ~s.endless, s.current_binding_msg # None,
           s.current_binding_msg.left > 0,
           s.pending_bindings # <<>> => s.current_binding # None
    PROVE  LET r == RepeatBinding(s)
           IN  Whole(r) /\ BindTimed(r) /\ \A due : Forward(r, s, due)
  <1> DEFINE m == s.current_binding_msg
             q == [m EXCEPT !.left = @ - 1]
             r == RepeatBinding(s)
  <1>1. DOMAIN s = SockFields /\ IsRequest(m, "ChannelBind") /\ m.channel \in 1..Channels
    BY DEF Sound, Channeled
  <1>2. IsRequest(q, "ChannelBind") /\ Older(q, m) /\ q # None
    <2>1. /\ q.id = m.id /\ q.method = m.method /\ q.peer = m.peer /\ q.channel = m.channel
          /\ q.nonce = m.nonce /\ q.left = m.left - 1 /\ DOMAIN q = DOMAIN m
      BY <1>1, SMTT(30), Z3T(30) DEF IsRequest
    <2>2. q # None
      BY <1>1, SMTT(30), Z3T(30) DEF IsRequest, None
    <2> HIDE DEF q
    <2>3. IsRequest(q, "ChannelBind") /\ Older(q, m)
      BY <1>1, <2>1, TurnAssumption, SMTT(30), Z3T(30) DEF IsRequest, Older
    <2> QED BY <2>2, <2>3, ZenonT(30), SMTT(30)
  <1>3. /\ DOMAIN r = SockFields /\ r.current_binding_msg = q
        /\ r.tick_source_channel_bind = TRUE /\ r.written = s.written \cup {OnWire(m)}
        /\ r.channels = s.channels /\ r.pending_bindings = s.pending_bindings
        /\ r.current_binding = s.current_binding /\ r.endless = s.endless
        /\ r.stalled = s.stalled /\ r.expired = s.expired
        /\ KeepsPermissions(r, s)
    BY <1>1 DEF RepeatBinding, Write, SockFields, KeepsPermissions
  <1>4. m \in Requests(s) /\ Requests(r) = s.pending_permissions \cup {q}
    BY <1>2, <1>3 DEF Requests, KeepsPermissions
  <1>5. s.pending_permissions \subseteq Requests(s)
    BY DEF Requests
  <1> HIDE DEF r, q
  <1>6. \A a \in s.pending_permissions : a.id # m.id
    <2>1. \A a \in s.pending_permissions : a.method = "CreatePermission"
      BY DEF Sound, Asked, IsRequest
    <2>2. m.method = "ChannelBind"
      BY <1>1, ZenonT(30), SMTT(30) DEF IsRequest
    <2> QED BY <1>4, <1>5, <2>1, <2>2 DEF Sound, Tracked
  <1>7. IsWire(OnWire(m)) /\ OnWire(m).to = "server" /\ OnWire(m).id = m.id /\ Matches(OnWire(m), m)
    BY <1>1, ZenonT(30), SMTT(30) DEF IsWire, OnWire, IsRequest, Matches
  <1>8. Tracked(r)
    <2>1. IsFiniteSet(r.written)
      BY <1>3, FS_AddElement, SMTT(30), Z3T(30) DEF Sound, Tracked
    <2>2. \A w \in r.written : IsWire(w) /\ w.to = "server"
      BY <1>3, <1>7 DEF Sound, Tracked
    <2>3. q.id = m.id
      BY <1>2 DEF Older
    <2>4. \A a, b \in Requests(r) : a.id = b.id => a = b
      BY <1>4, <1>5, <1>6, <2>3, ZenonT(30), SMTT(30) DEF Sound, Tracked
    <2>5. \A a \in s.pending_permissions : Matches(OnWire(m), a)
      BY <1>6, <1>7, ZenonT(30), SMTT(30) DEF Matches
    <2>6. \A a \in s.pending_permissions, w \in net \cup r.written : Matches(w, a)
      BY <1>3, <1>5, <2>5, ZenonT(30), SMTT(30) DEF Sound, Tracked
    <2>7. \A w \in net \cup r.written : Matches(w, m)
      BY <1>3, <1>4, <1>7, ZenonT(30), SMTT(30) DEF Sound, Tracked
    <2>8. \A w \in net \cup r.written : Matches(w, q)
      BY <1>2, <2>7 DEF Matches, Older, Served
    <2>9. \A a \in Requests(r), w \in net \cup r.written : Matches(w, a)
      BY <1>4, <2>6, <2>8, ZenonT(30), SMTT(30)
    <2> QED BY <2>1, <2>2, <2>4, <2>9, ZenonT(30), SMTT(30) DEF Tracked
  <1>9. Channeled(r)
    BY <1>1, <1>2, <1>3, ZenonT(30), SMTT(30) DEF Sound, Channeled, Older
  <1>10. Sound(r, {})
    BY <1>3, <1>8, <1>9, PermissionsKept, ZenonT(30), SMTT(30) DEF Sound
  <1>11. BindTimed(r)
    BY <1>3, ZenonT(30), SMTT(30) DEF BindTimed
  <1>12. Linked(r) /\ Going(r)
    BY <1>2, <1>3, <1>11 DEF Linked, Going, Older
  <1>13. Whole(r) /\ BindTimed(r)
    BY <1>10, <1>11, <1>12, ZenonT(30), SMTT(30) DEF Whole
  <1>14. \A due : Forward(r, s, due)
    BY <1>3, ForwardKept
  <1> QED BY <1>13, <1>14 DEF r

\* From s to r only the timer of the ChannelBind is set anew.
LEMMA BindTimerSet ==
    ASSUME NEW s, Sound(s, {}), NEW b, NEW r, r = [s EXCEPT !.tick_source_channel_bind = b]
    PROVE  /\ Sound(r, {}) /\ (Linked(s) => Linked(r)) /\ \A due : Forward(r, s, due)
           /\ r.channels = s.channels /\ r.pending_bindings = s.pending_bindings
           /\ r.current_binding = s.current_binding
           /\ r.current_binding_msg = s.current_binding_msg
           /\ r.tick_source_channel_bind = b
           /\ r.endless = s.endless /\ r.stalled = s.stalled /\ r.expired = s.expired
  <1>1. DOMAIN s = SockFields
    BY DEF Sound
  <1>2. /\ DOMAIN r = SockFields
        /\ r.channels = s.channels /\ r.pending_bindings = s.pending_bindings
        /\ r.current_binding = s.current_binding
        /\ r.current_binding_msg = s.current_binding_msg
        /\ r.tick_source_channel_bind = b
        /\ r.endless = s.endless /\ r.stalled = s.stalled /\ r.expired = s.expired
        /\ r.written = s.written
        /\ KeepsPermissions(r, s)
    BY <1>1 DEF SockFields, KeepsPermissions
  <1>3. Channeled(r)
    BY <1>2 DEF Sound, Channeled
  <1>4. Tracked(r)
    BY <1>2, TrackedLess, ZenonT(30) DEF Sound, Requests, KeepsPermissions
  <1>5. Sound(r, {})
    BY <1>2, <1>3, <1>4, PermissionsKept DEF Sound
  <1>6. Linked(s) => Linked(r)
    BY <1>2 DEF Linked
  <1>7. \A due : Forward(r, s, due)
    BY <1>2, ForwardKept
  <1> QED BY <1>2, <1>5, <1>6, <1>7

\* The part of priv_schedule_tick for the ChannelBind request.
LEMMA ScheduleBindingWhole ==
    ASSUME Around, NEW s, Whole(s), NEW due
    PROVE  LET r == ScheduleBinding(s, due)
           IN  /\ Whole(r) /\ Forward(r, s, {})
               /\ r.current_binding_msg # None => BindTimed(r)
  <1> DEFINE m == s.current_binding_msg
             on == TRUE
             s0 == [s EXCEPT !.tick_source_channel_bind = FALSE]
             s1 == [s EXCEPT !.tick_source_channel_bind = on]
             r == ScheduleBinding(s, due)
  <1>1. r = IF m = None THEN s0
            ELSE IF m.id \notin due THEN s1
            ELSE IF m.left > 0 THEN RepeatBinding(s0) ELSE BindingTimesOut(s0, {})
    BY DEF ScheduleBinding
  <1> HIDE DEF on
  <1>2. /\ Sound(s0, {}) /\ Linked(s0) /\ Forward(s0, s, {})
        /\ s0.pending_bindings = s.pending_bindings /\ s0.current_binding = s.current_binding
        /\ s0.current_binding_msg = m /\ s0.endless = s.endless
    BY BindTimerSet DEF Whole
  <1>3. /\ Sound(s1, {}) /\ Linked(s1) /\ Forward(s1, s, {})
        /\ s1.pending_bindings = s.pending_bindings /\ s1.current_binding = s.current_binding
        /\ s1.current_binding_msg = m /\ s1.endless = s.endless
        /\ s1.tick_source_channel_bind = on
    BY BindTimerSet, SMTT(30), Z3T(30) DEF Whole
  <1> HIDE DEF s0, s1, r
  <1>4. CASE m = None
    <2>1. Going(s0)
      BY <1>2, <1>4, ZenonT(30), SMTT(30) DEF Whole, Going
    <2> QED BY <1>1, <1>2, <1>4, <2>1 DEF Whole, r
  <1>5. CASE m # None /\ m.id \notin due
    <2>1. BindTimed(s1)
      BY <1>3 DEF BindTimed, on
    <2>2. Going(s1)
      BY <1>3, <2>1 DEF Whole, Going
    <2> QED BY <1>1, <1>3, <1>5, <2>1, <2>2, ZenonT(30), SMTT(30) DEF Whole, r
  <1>6. CASE m # None /\ m.id \in due /\ m.left > 0
    <2>1. Whole(RepeatBinding(s0)) /\ BindTimed(RepeatBinding(s0)) /\ Forward(RepeatBinding(s0), s0, {})
      BY <1>2, <1>6, RepeatBindingWhole DEF Whole, Going
    <2>2. r = RepeatBinding(s0)
      BY <1>1, <1>6
    <2>3. Forward(r, s, {})
      BY <1>2, <2>1, <2>2 DEF Forward
    <2> QED BY <2>1, <2>2, <2>3, ZenonT(30), SMTT(30) DEF r
  <1>7. CASE m # None /\ m.id \in due /\ ~(m.left > 0)
    <2>1. r = BindingTimesOut(s0, {})
      BY <1>1, <1>7
    <2>2. ~s0.endless
      BY <1>2 DEF Whole, Going
    <2>3. Whole(r) /\ (r.current_binding_msg # None => BindTimed(r)) /\ Forward(r, s0, {})
      BY <1>2, <2>1, <2>2, BindingTimesOutWhole
    <2>4. Forward(r, s, {})
      BY <1>2, <2>3 DEF Forward
    <2> QED BY <2>3, <2>4 DEF r
  <1> QED BY <1>4, <1>5, <1>6, <1>7

\* The part of priv_schedule_tick for the CreatePermission requests.
LEMMA SchedulePermissionsWhole ==
    ASSUME Around, NEW s, Whole(s), NEW due
    PROVE  LET r == SchedulePermissions(s, due)
           IN  Whole(r) /\ Forward(r, s, due) /\ Ticking(r)
  <1> DEFINE r == SchedulePermissions(s, due)
  <1>1. Sound(r, {}) /\ Forward(r, s, due) /\ Ticking(r)
    BY SchedulePermissionsSound DEF Around, Whole
  <1>2. KeepsBindings(r, s)
    BY SchedulePermissionsIs, ZenonT(30) DEF Scheduled, Whole, Sound
  <1>3. Linked(r) /\ Going(r)
    BY <1>2, BindingsKept DEF Whole
  <1> QED BY <1>1, <1>3 DEF Whole

\* priv_schedule_tick.
LEMMA ScheduleTickWhole ==
    ASSUME Around, NEW s, Whole(s), NEW due
    PROVE  LET r == ScheduleTick(s, due)
           IN  Whole(r) /\ Forward(r, s, due) /\ Ticking(r) /\ \A x : Restarted(r, x)
  <1> DEFINE t == ScheduleBinding(s, due)
             r == SchedulePermissions(t, due)
  <1>1. Whole(t) /\ Forward(t, s, {}) /\ (t.current_binding_msg # None => BindTimed(t))
    BY ScheduleBindingWhole
  <1>2. Whole(r) /\ Forward(r, t, due) /\ Ticking(r)
    BY <1>1, SchedulePermissionsWhole
  <1>3. r = ScheduleTick(s, due) /\ KeepsBindings(r, t)
    BY <1>1, SchedulePermissionsIs, ZenonT(30) DEF ScheduleTick, Scheduled, Whole, Sound
  <1> HIDE DEF t, r
  <1>4. Forward(r, s, due)
    BY <1>1, <1>2 DEF Forward
  <1>5. \A x : Restarted(r, x)
    BY <1>1, <1>3 DEF Restarted, KeepsBindings, BindTimed
  <1> QED BY <1>2, <1>3, <1>4, <1>5

-----------------------------------------------------------------------------
(* priv_send_create_permission.                                            *)

\* A CreatePermission is sent, and waits with a timer, or fails.
LEMMA SendCreatePermissionWhole ==
    ASSUME Around, NEW s, NEW p \in Peers, NEW res, NEW due, NEW s1,
           s1 = [s EXCEPT !.sent_permissions = @ \cup {p}], DOMAIN s = SockFields,
           Sound(s1, {p}), Linked(s), Going(s), Ticking(s),
           FreshId(s) \notin due
    PROVE  LET r == SendCreatePermission(s, p, res, due)
           IN  /\ Whole(r) /\ Ticking(r) /\ Restarted(r, s)
               /\ res # "error" => p \in r.sent_permissions
  <1> DEFINE m == TurnMessage(s, "CreatePermission", p, 0)
             ms == IF res = "ok" THEN {m} ELSE {}
             t == [s1 EXCEPT !.pending_permissions = @ \cup {m},
                             !.written = @ \cup {OnWire(q) : q \in ms}]
             e == [s1 EXCEPT !.unsent = @ \cup {p}]
             r == SendCreatePermission(s, p, res, due)
  <1>1. /\ DOMAIN s1 = SockFields /\ KeepsBindings(s1, s)
        /\ s1.sent_permissions = s.sent_permissions \cup {p}
        /\ s1.pending_permissions = s.pending_permissions /\ s1.written = s.written
        /\ s1.unsent = s.unsent
        /\ s1.tick_source_create_permission = s.tick_source_create_permission
    BY DEF SockFields, KeepsBindings
  <1>2. Linked(s1) /\ Going(s1)
    BY <1>1, BindingsKept
  <1>3. Ticking(s1)
    BY <1>1 DEF Ticking, Timed
  <1>4. Requests(s1) = Requests(s)
    BY <1>1 DEF Requests, KeepsBindings
  <1>5. Tracked(s)
    BY <1>1, <1>4, ZenonT(30) DEF Sound, Tracked
  <1>6. IsFiniteSet(s.pending_permissions)
    BY <1>1 DEF Sound, Asked
  <1>7. /\ IsRequest(m, "CreatePermission") /\ IsNew(m, s) /\ m.peer = p /\ m.id = FreshId(s)
    BY <1>5, <1>6, TurnMessageIsNew
  <1>8. CASE res = "error"
    <2>1. r = e
      BY <1>8 DEF SendCreatePermission
    <2>2. /\ DOMAIN e = SockFields /\ KeepsBindings(e, s1)
          /\ e.unsent = s1.unsent \cup {p} /\ e.sent_permissions = s1.sent_permissions
          /\ e.pending_permissions = s1.pending_permissions
          /\ e.permissions = s1.permissions /\ e.granted = s1.granted
          /\ e.permission_timeout = s1.permission_timeout
          /\ e.tick_source_create_permission = s1.tick_source_create_permission
          /\ e.send_data_queues = s1.send_data_queues /\ e.out = s1.out
          /\ e.written = s1.written
      BY <1>1 DEF SockFields, KeepsBindings
    <2> HIDE DEF e, r
    <2>3. Asked(e, {})
      BY <2>2 DEF Sound, Asked, PendingPeers
    <2>4. Queued(e, given)
      BY <2>2 DEF Sound, Queued
    <2>5. Trusted(e)
      BY <2>2 DEF Sound, Trusted
    <2>6. Channeled(e) /\ Linked(e) /\ Going(e)
      BY <1>2, <2>2, BindingsKept DEF Sound
    <2>7. Tracked(e)
      BY <2>2, TrackedLess, ZenonT(30) DEF Sound, Requests, KeepsBindings
    <2>8. Ticking(e)
      BY <1>3, <2>2 DEF Ticking, Timed
    <2>9. Whole(e)
      BY <2>2, <2>3, <2>4, <2>5, <2>6, <2>7 DEF Whole, Sound
    <2>10. Restarted(e, s)
      BY <1>1, <2>2 DEF Restarted, KeepsBindings
    <2> QED BY <1>8, <2>1, <2>8, <2>9, <2>10 DEF r
  <1>9. CASE res # "error"
    <2>1. r = ScheduleTick(t, due)
      <3>1. t = Write([s1 EXCEPT !.pending_permissions = @ \cup {m}], ms)
        BY <1>1 DEF Write, SockFields
      <3> QED BY <1>9, <3>1 DEF SendCreatePermission
    <2>2. {OnWire(q) : q \in ms} \subseteq {OnWire(m)}
      OBVIOUS
    <2> HIDE DEF ms, m, r
    <2>3. /\ DOMAIN t = SockFields /\ KeepsBindings(t, s1)
          /\ t.unsent = s1.unsent /\ t.sent_permissions = s1.sent_permissions
          /\ t.pending_permissions = s1.pending_permissions \cup {m}
          /\ t.permissions = s1.permissions /\ t.granted = s1.granted
          /\ t.permission_timeout = s1.permission_timeout
          /\ t.send_data_queues = s1.send_data_queues /\ t.out = s1.out
          /\ t.written \subseteq s1.written \cup {OnWire(m)}
      BY <1>1, <2>2 DEF SockFields, KeepsBindings
    <2> HIDE DEF t
    <2>4. PendingPeers(t) = PendingPeers(s1) \cup {p}
      BY <1>7, <2>3 DEF PendingPeers
    <2>5. IsFiniteSet(t.pending_permissions)
      BY <2>3, FS_AddElement DEF Sound, Asked
    <2>6. \A a \in s1.pending_permissions : a.peer # p
      BY DEF Sound, Asked, PendingPeers
    <2>7. \A a, b \in t.pending_permissions : a.peer = b.peer => a = b
      BY <1>7, <2>3, <2>6 DEF Sound, Asked
    <2>8. \A a \in t.pending_permissions : IsRequest(a, "CreatePermission")
      BY <1>7, <2>3 DEF Sound, Asked
    <2>9. Asked(t, {})
      BY <2>3, <2>4, <2>5, <2>7, <2>8, ZenonT(30) DEF Sound, Asked
    <2>10. Queued(t, given)
      BY <2>3 DEF Sound, Queued
    <2>11. Trusted(t)
      BY <2>3 DEF Sound, Trusted
    <2>12. Channeled(t) /\ Linked(t) /\ Going(t)
      BY <1>2, <2>3, BindingsKept DEF Sound
    <2>13. IsNew(m, s1)
      BY <1>1, <1>4, <1>7 DEF IsNew
    <2>14. Requests(t) \subseteq Requests(s1) \cup {m}
      BY <2>3 DEF Requests, KeepsBindings
    <2>15. Tracked(t)
      BY <1>7, <2>3, <2>13, <2>14, TrackedNew, ZenonT(30) DEF Sound
    <2>16. Whole(t)
      BY <2>3, <2>9, <2>10, <2>11, <2>12, <2>15 DEF Whole, Sound
    <2>17. Whole(r) /\ Forward(r, t, due) /\ Ticking(r) /\ Restarted(r, s)
      BY <2>1, <2>16, ScheduleTickWhole
    <2>18. m \in r.pending_permissions
      BY <1>7, <2>3, <2>17 DEF Forward
    <2>19. p \in r.sent_permissions
      BY <1>7, <2>17, <2>18, SMTT(30), Z3T(30) DEF Whole, Sound, Asked, PendingPeers
    <2> QED BY <2>17, <2>19 DEF r
  <1> QED BY <1>8, <1>9

-----------------------------------------------------------------------------
(* The steps of the program.                                               *)

\* From s to r the list of channels and the request under way stay as they are.
KeepsChannels(r, s) ==
    /\ r.channels = s.channels /\ r.pending_bindings = s.pending_bindings
    /\ r.current_binding = s.current_binding
    /\ r.current_binding_msg = s.current_binding_msg
    /\ r.endless = s.endless /\ r.expired = s.expired

\* What a step leaves in the record is the state after it.
LEMMA StepInv ==
    ASSUME TurnInv, NEW s, Asked(s, {}), Queued(s, given'),
           Channeled(s), Tracked(s), Trusted(s), Linked(s), Ticking(s),
           NEW v, sock' = v, DOMAIN v = SockFields, v.written = {},
           KeepsChannels(v, s), KeepsPermissions(v, s), Going(v),
           given' \in [Peers -> Nat], UNCHANGED server, net' \subseteq net \cup s.written
    PROVE  TurnInv'
  <1>3. Asked(v, {}) /\ Ticking(v)
    BY ZenonT(30) DEF Asked, PendingPeers, KeepsPermissions, Ticking, Timed
  <1>4. Queued(v, given') /\ Channeled(v) /\ Trusted(v) /\ Linked(v)
    <2>1. Queued(v, given') /\ Trusted(v)
      BY DEF Queued, Trusted, KeepsPermissions
    <2>2. Channeled(v)
      BY ZenonT(30) DEF Channeled, KeepsChannels
    <2>3. Linked(v)
      BY ZenonT(30) DEF Linked, KeepsChannels
    <2> QED BY <2>1, <2>2, <2>3, ZenonT(30), SMTT(30)
  <1>8. Requests(v) = Requests(s)
    BY DEF Requests, KeepsPermissions, KeepsChannels
  <1>9. IsFiniteSet(net')
    <2>1. IsFiniteSet(net \cup s.written)
      BY FS_Union, ZenonT(30) DEF TurnInv, Tracked
    <2> QED BY <2>1, FS_Subset
  <1>10. \A m \in net' : IsWire(m)
    BY ZenonT(30), SMTT(30) DEF TurnInv, Tracked
  <1>11. \A q \in Requests(v), m \in net' : Matches(m, q)
    BY <1>8 DEF Tracked
  <1>12. \A a, b \in Requests(v) : a.id = b.id => a = b
    BY <1>8 DEF Tracked
  <1>13. Tracked(sock)'
    <2>1. ASSUME NEW q \in Requests(v), NEW m \in net' PROVE Matches(m, q)'
      <3>1. Matches(m, q)
        BY <1>11
      <3> QED BY <3>1 DEF Matches, Served
    <2>2. net' \cup v.written = net' /\ IsFiniteSet(v.written)
      BY FS_EmptySet, ZenonT(30), SMTT(30)
    <2>3. Tracked(v)'
      BY <1>12, <2>1, <2>2 DEF Tracked
    <2> QED BY <2>3, TrackedMoves, ZenonT(30), SMTT(30)
  <1>14. Asked(sock, {})' /\ Ticking(sock)' /\ Linked(sock)' /\ Going(sock)'
    BY <1>3, <1>4, ZenonT(30) DEF Asked, PendingPeers, Ticking, Timed, Linked, Going, BindTimed
  <1>15. Queued(sock, given)' /\ Trusted(sock)'
    BY <1>4, ZenonT(30), SMTT(30) DEF Queued, Trusted
  <1>16. Channeled(sock)'
    BY <1>4, ZenonT(60), SMTT(30) DEF Channeled, Listed, Kept, Backed, Holds
  <1>17. (\A m \in net : IsWire(m))'
    BY <1>10, ZenonT(30) DEF IsWire
  <1>18. ServerTyped' /\ OneChannel'
    BY ZenonT(30), SMTT(30), ZenonT(30) DEF TurnInv, ServerTyped, OneChannel
  <1>19. Sound(sock, {})'
    BY <1>13, <1>14, <1>15, <1>16, ZenonT(30) DEF Sound
  <1> QED BY <1>9, <1>14, <1>17, <1>18, <1>19 DEF TurnInv

\* A step that leaves the socket in a record with all parts in order keeps the
\* invariant.
LEMMA BecomeInv ==
    ASSUME TurnInv, NEW s, DOMAIN s = SockFields, Asked(s, {}), Queued(s, given'),
           Channeled(s), Tracked(s), Trusted(s), Linked(s), Going(s), Ticking(s),
           Restarted(s, sock), given' \in [Peers -> Nat], UNCHANGED server,
           NEW taken, Become(s, taken)
    PROVE  TurnInv'
  <1> DEFINE v == sock'
             st == (s.stalled /\ s.current_binding_msg = sock.current_binding_msg)
  <1>1. v = [s EXCEPT !.written = {}, !.stalled = st] /\ net' = (net \ taken) \cup s.written
    BY DEF Become
  <1>2. /\ DOMAIN v = SockFields /\ v.written = {} /\ v.stalled = st
        /\ v.tick_source_channel_bind = s.tick_source_channel_bind
        /\ KeepsChannels(v, s) /\ KeepsPermissions(v, s)
    BY <1>1 DEF SockFields, KeepsPermissions, KeepsChannels
  <1>3. sock' = v /\ net' \subseteq net \cup s.written
    BY <1>1, ZenonT(30), SMTT(30)
  <1> HIDE DEF v
  <1>5. BindTimed(v) = BindTimed(s)
    BY <1>2, ZenonT(30), SMTT(30) DEF BindTimed
  <1>6. s.stalled /\ s.current_binding_msg = sock.current_binding_msg => v.stalled
    BY ONLY <1>2, ZenonT(30)
  <1>7. Going(v)
    BY <1>2, <1>5, <1>6 DEF Going, Restarted, KeepsChannels
  <1> QED BY <1>2, <1>3, <1>7, StepInv

\* The usual case: the user gives nothing.
LEMMA BecomeWhole ==
    ASSUME TurnInv, NEW s, Whole(s), Ticking(s), Restarted(s, sock),
           UNCHANGED <<server, given>>, NEW taken, Become(s, taken)
    PROVE  TurnInv'
  <1>1. /\ DOMAIN s = SockFields /\ Asked(s, {}) /\ Queued(s, given) /\ Channeled(s)
        /\ Tracked(s) /\ Trusted(s) /\ Linked(s) /\ Going(s)
    BY ZenonT(30), SMTT(30) DEF Whole, Sound
  <1>2. Queued(s, given') /\ given' \in [Peers -> Nat] /\ UNCHANGED server
    BY <1>1, ZenonT(30), SMTT(30) DEF TurnInv
  <1> QED BY <1>1, <1>2, BecomeInv

\* Between two steps the socket is whole.
LEMMA InvIsWhole ==
    ASSUME TurnInv
    PROVE  Around /\ Whole(sock) /\ Ticking(sock)
  BY ZenonT(30), SMTT(30) DEF TurnInv, Around, Whole, Sound, Asked

\* A new id belongs to no request whose timer could have run out.
LEMMA FreshIsNotDue ==
    ASSUME TurnInv, NEW s, Tracked(s), IsFiniteSet(s.pending_permissions), NEW due \in Due
    PROVE  FreshId(s) \notin due
  <1>1. \A m \in Requests(sock) : m.id # FreshId(s)
    BY InvIsWhole, FreshIdIsFresh DEF Around, Tracked
  <1> QED BY <1>1 DEF Due

\* nice_udp_turn_socket_set_peer keeps the invariant.
LEMMA SetPeerInv ==
    ASSUME TurnInv, NEW p \in Peers, SetPeer(p)
    PROVE  TurnInv'
  <1>1. PICK due \in Due : Become(AddChannelBinding(sock, p, due), {})
    BY DEF SetPeer
  <1> DEFINE s == AddChannelBinding(sock, p, due)
  <1>2. Whole(s) /\ Ticking(s) /\ Restarted(s, sock)
    BY InvIsWhole, AddChannelBindingWhole
  <1>3. UNCHANGED <<server, given>>
    BY DEF SetPeer
  <1> HIDE DEF s
  <1>4. Become(s, {})
    BY <1>1 DEF s
  <1> QED BY <1>2, <1>3, <1>4, BecomeWhole

\* Somebody is asked for who has no permission and was not asked for.
LEMMA AskFor ==
    ASSUME TurnInv, NEW p \in Peers, p \notin sock.permissions \cup sock.sent_permissions,
           NEW res, NEW due \in Due
    PROVE  LET r == SendCreatePermission(sock, p, res, due)
           IN  /\ Whole(r) /\ Ticking(r) /\ Restarted(r, sock)
               /\ res # "error" => p \in r.sent_permissions
  <1> DEFINE s1 == [sock EXCEPT !.sent_permissions = @ \cup {p}]
  <1>1. Around /\ Whole(sock) /\ Ticking(sock)
    BY InvIsWhole
  <1>2. DOMAIN sock = SockFields /\ Tracked(sock) /\ IsFiniteSet(sock.pending_permissions)
    BY <1>1 DEF Whole, Sound, Asked
  <1>3. /\ DOMAIN s1 = SockFields /\ KeepsBindings(s1, sock)
        /\ s1.sent_permissions = sock.sent_permissions \cup {p}
        /\ s1.pending_permissions = sock.pending_permissions /\ s1.written = sock.written
        /\ s1.unsent = sock.unsent /\ s1.permissions = sock.permissions
        /\ s1.granted = sock.granted /\ s1.permission_timeout = sock.permission_timeout
        /\ s1.send_data_queues = sock.send_data_queues /\ s1.out = sock.out
    BY <1>2, ZenonT(30), SMTT(30) DEF SockFields, KeepsBindings
  <1>4. Sound(s1, {p})
    <2> HIDE DEF s1
    <2>0. Asked(sock, {}) /\ PendingPeers(s1) = PendingPeers(sock)
      BY <1>1, <1>3 DEF Whole, Sound, PendingPeers
    <2>1. Asked(s1, {p})
      BY <1>3, <2>0, SMTT(30), Z3T(30) DEF Asked
    <2>2. Queued(s1, given)
      <3>1. Queued(sock, given)
        BY <1>1, ZenonT(30) DEF Whole, Sound
      <3> QED BY <1>3, <3>1, SMTT(30), Z3T(30) DEF Queued
    <2>3. Trusted(s1)
      BY <1>1, <1>3, ZenonT(30), SMTT(30) DEF Whole, Sound, Trusted
    <2>4. Channeled(s1)
      BY <1>1, <1>3, BindingsKept DEF Whole, Sound
    <2>5. Tracked(s1)
      BY <1>2, <1>3, TrackedLess DEF Requests, KeepsBindings
    <2> QED BY <1>3, <2>1, <2>2, <2>3, <2>4, <2>5, ZenonT(30), SMTT(30) DEF Sound
  <1>5. FreshId(sock) \notin due
    BY <1>2, FreshIsNotDue
  <1>6. Linked(sock) /\ Going(sock)
    BY <1>1 DEF Whole
  <1> QED BY <1>1, <1>2, <1>4, <1>5, <1>6, SendCreatePermissionWhole, ZenonT(30), SMTT(30)

\* Data from a peer without a permission keeps the invariant.
LEMMA RecvDataInv ==
    ASSUME TurnInv, NEW p \in Peers, RecvData(p)
    PROVE  TurnInv'
  <1>1. PICK res \in Results, due \in Due : Become(SendCreatePermission(sock, p, res, due), {})
    BY DEF RecvData
  <1> DEFINE s == SendCreatePermission(sock, p, res, due)
  <1>2. p \notin sock.permissions \cup sock.sent_permissions /\ UNCHANGED <<server, given>>
    BY DEF RecvData
  <1>3. Whole(s) /\ Ticking(s) /\ Restarted(s, sock)
    BY <1>2, AskFor
  <1>4. Become(s, {})
    BY <1>1
  <1> HIDE DEF s
  <1> QED BY <1>2, <1>3, <1>4, BecomeWhole

\* A message joins those that wait.
LEMMA MessageWaits ==
    ASSUME NEW s, Whole(s), Ticking(s), Restarted(s, sock), given \in [Peers -> Nat],
           NEW p \in Peers, p \in s.sent_permissions, NEW n, n = given[p] + 1,
           NEW r, r = [s EXCEPT !.send_data_queues[p] = Append(@, n)]
    PROVE  /\ DOMAIN r = SockFields /\ Asked(r, {}) /\ Queued(r, [given EXCEPT ![p] = n])
           /\ Channeled(r) /\ Tracked(r) /\ Trusted(r) /\ Linked(r) /\ Going(r) /\ Ticking(r)
           /\ Restarted(r, sock)
  <1>1. /\ DOMAIN s = SockFields /\ Asked(s, {}) /\ Queued(s, given) /\ Channeled(s)
        /\ Tracked(s) /\ Trusted(s) /\ Linked(s) /\ Going(s)
    BY DEF Whole, Sound
  <1> DEFINE qs == [s.send_data_queues EXCEPT ![p] = Append(@, n)]
  <1>2. /\ DOMAIN r = SockFields /\ r.send_data_queues = qs /\ KeepsBindings(r, s)
        /\ KeepsGrants(r, s) /\ r.pending_permissions = s.pending_permissions
        /\ r.sent_permissions = s.sent_permissions /\ r.permissions = s.permissions
        /\ r.tick_source_create_permission = s.tick_source_create_permission
        /\ r.out = s.out /\ r.written = s.written
    BY <1>1 DEF SockFields, KeepsBindings, KeepsGrants
  <1>3. Channeled(r) /\ Linked(r) /\ Going(r) /\ Trusted(r)
    BY <1>1, <1>2, BindingsKept DEF KeepsGrants, Trusted
  <1>4. Asked(r, {}) /\ Ticking(r)
    BY <1>1, <1>2 DEF Asked, Ticking, Timed, KeepsGrants, PendingPeers
  <1>5. Tracked(r)
    BY <1>1, <1>2, TrackedLess, ZenonT(30) DEF Requests, KeepsBindings
  <1>6. Restarted(r, sock)
    BY <1>2 DEF Restarted, KeepsBindings, BindTimed
  <1>7. Queued(r, [given EXCEPT ![p] = n])
    <2> DEFINE q == s.send_data_queues[p]
               g == [given EXCEPT ![p] = n]
    <2>1. q \in Seq(Nat) /\ s.out[p] \in Nat /\ given[p] \in Nat /\ n \in Nat
      BY <1>1 DEF Queued
    <2>2. Len(q) = given[p] - s.out[p] /\ \A i \in 1..Len(q) : q[i] = s.out[p] + i
      BY <1>1 DEF Queued
    <2>3. /\ s.send_data_queues \in [Peers -> Seq(Nat)] /\ s.out \in [Peers -> Nat]
          /\ qs[p] = Append(q, n) /\ \A o \in Peers \ {p} : qs[o] = s.send_data_queues[o]
      BY <1>1 DEF Queued
    <2>4. Append(q, n) \in Seq(Nat)
      BY <2>1
    <2>5. qs \in [Peers -> Seq(Nat)]
      BY <2>3, <2>4
    <2>6. g[p] = n /\ \A o \in Peers \ {p} : g[o] = given[o]
      OBVIOUS
    <2> HIDE DEF qs, q, g
    <2>7. /\ Len(Append(q, n)) = n - s.out[p]
          /\ \A i \in 1..Len(Append(q, n)) : Append(q, n)[i] = s.out[p] + i
      <3>1. Len(Append(q, n)) = Len(q) + 1 /\ Len(q) \in Nat
        BY <2>1
      <3>2. \A i \in 1..Len(q) : Append(q, n)[i] = q[i]
        BY <2>1
      <3>3. Append(q, n)[Len(q) + 1] = n
        BY <2>1
      <3>4. Len(q) + 1 = n - s.out[p]
        BY <2>1, <2>2
      <3>5. ASSUME NEW i \in 1..Len(q) + 1 PROVE Append(q, n)[i] = s.out[p] + i
        <4>1. CASE i \in 1..Len(q)
          BY <2>2, <3>2, <4>1
        <4>2. CASE i = Len(q) + 1
          BY <2>1, <3>3, <3>4, <4>2
        <4> QED BY <3>1, <4>1, <4>2
      <3> QED BY <3>1, <3>4, <3>5
    <2>8. ASSUME NEW o \in Peers
          PROVE  LET w == r.send_data_queues[o] IN
                    /\ w # <<>> => o \in r.sent_permissions
                    /\ Len(w) = g[o] - r.out[o]
                    /\ \A i \in 1..Len(w) : w[i] = r.out[o] + i
      <3>1. CASE o = p
        <4>1. r.send_data_queues[o] = Append(q, n) /\ r.out[o] = s.out[p] /\ g[o] = n
          BY <1>2, <2>3, <2>6, <3>1, ZenonT(30), SMTT(30)
        <4>2. o \in r.sent_permissions
          BY <1>1, <1>2, <3>1, ZenonT(30), SMTT(30)
        <4> QED BY <2>7, <4>1, <4>2, ZenonT(30), SMTT(30)
      <3>2. CASE o # p
        <4>1. /\ r.send_data_queues[o] = s.send_data_queues[o] /\ r.out[o] = s.out[o]
              /\ g[o] = given[o] /\ r.sent_permissions = s.sent_permissions
          BY <1>2, <2>3, <2>6, <3>2, ZenonT(30), SMTT(30)
        <4>2. LET w == s.send_data_queues[o] IN
                 /\ w # <<>> => o \in s.sent_permissions
                 /\ Len(w) = given[o] - s.out[o]
                 /\ \A i \in 1..Len(w) : w[i] = s.out[o] + i
          BY <1>1, ZenonT(30), SMTT(30) DEF Queued
        <4> QED BY <4>1, <4>2, ZenonT(30), SMTT(30)
      <3> QED BY <3>1, <3>2
    <2>9. Queued(r, g)
      BY <1>2, <2>3, <2>5, <2>8, ZenonT(30), SMTT(30) DEF Queued
    <2> QED BY <2>9 DEF g
  <1> QED BY <1>2, <1>3, <1>4, <1>5, <1>6, <1>7

\* ... or is written at once, when nothing waits.
LEMMA MessageLeaves ==
    ASSUME NEW s, Whole(s), Ticking(s), Restarted(s, sock), given \in [Peers -> Nat],
           NEW p \in Peers, p \in s.permissions, NEW n, n = given[p] + 1,
           NEW r, r = [s EXCEPT !.out[p] = n]
    PROVE  /\ DOMAIN r = SockFields /\ Asked(r, {}) /\ Queued(r, [given EXCEPT ![p] = n])
           /\ Channeled(r) /\ Tracked(r) /\ Trusted(r) /\ Linked(r) /\ Going(r) /\ Ticking(r)
           /\ Restarted(r, sock)
  <1>1. /\ DOMAIN s = SockFields /\ Asked(s, {}) /\ Queued(s, given) /\ Channeled(s)
        /\ Tracked(s) /\ Trusted(s) /\ Linked(s) /\ Going(s)
    BY DEF Whole, Sound
  <1> DEFINE os == [s.out EXCEPT ![p] = n]
             g == [given EXCEPT ![p] = n]
  <1>2. /\ DOMAIN r = SockFields /\ r.out = os /\ KeepsBindings(r, s)
        /\ KeepsGrants(r, s) /\ r.pending_permissions = s.pending_permissions
        /\ r.sent_permissions = s.sent_permissions /\ r.permissions = s.permissions
        /\ r.tick_source_create_permission = s.tick_source_create_permission
        /\ r.send_data_queues = s.send_data_queues /\ r.written = s.written
    BY <1>1 DEF SockFields, KeepsBindings, KeepsGrants
  <1>3. Channeled(r) /\ Linked(r) /\ Going(r) /\ Trusted(r)
    BY <1>1, <1>2, BindingsKept DEF KeepsGrants, Trusted
  <1>4. Asked(r, {}) /\ Ticking(r)
    BY <1>1, <1>2 DEF Asked, Ticking, Timed, KeepsGrants, PendingPeers
  <1>5. Tracked(r)
    BY <1>1, <1>2, TrackedLess, ZenonT(30) DEF Requests, KeepsBindings
  <1>6. Restarted(r, sock)
    BY <1>2 DEF Restarted, KeepsBindings, BindTimed
  <1>7. s.send_data_queues[p] = <<>>
    BY <1>1 DEF Asked, Queued
  <1>8. s.out \in [Peers -> Nat] /\ n \in Nat
    BY <1>1 DEF Queued
  <1>9. os \in [Peers -> Nat] /\ os[p] = n /\ g[p] = n
        /\ \A o \in Peers \ {p} : os[o] = s.out[o] /\ g[o] = given[o]
    BY <1>8
  <1> HIDE DEF os, g
  <1>10. ASSUME NEW o \in Peers
         PROVE  LET w == r.send_data_queues[o] IN
                    /\ w # <<>> => o \in r.sent_permissions
                    /\ Len(w) = g[o] - r.out[o]
                    /\ \A i \in 1..Len(w) : w[i] = r.out[o] + i
    <2>1. CASE o = p
      BY <1>2, <1>7, <1>8, <1>9, <2>1
    <2>2. CASE o # p
      BY <1>1, <1>2, <1>9, <2>2 DEF Queued
    <2> QED BY <2>1, <2>2
  <1>11. r.send_data_queues \in [Peers -> Seq(Nat)]
    BY <1>1, <1>2 DEF Queued
  <1>12. Queued(r, g)
    BY <1>2, <1>9, <1>10, <1>11, ZenonT(30) DEF Queued
  <1> QED BY <1>2, <1>3, <1>4, <1>5, <1>6, <1>12 DEF g

\* socket_send_messages keeps the invariant, and the order of the data.
LEMMA SendMessageInv ==
    ASSUME TurnInv, NEW p \in Peers, SendMessage(p)
    PROVE  TurnInv'
  <1> DEFINE n == given[p] + 1
             g == [given EXCEPT ![p] = n]
             queued(s) == [s EXCEPT !.send_data_queues[p] = Append(@, n)]
  <1>1. given \in [Peers -> Nat] /\ g \in [Peers -> Nat] /\ UNCHANGED server
    BY DEF TurnInv, SendMessage
  <1>2. Whole(sock) /\ Ticking(sock) /\ Restarted(sock, sock)
    BY InvIsWhole DEF Restarted
  <1>3. CASE p \in sock.permissions /\ Become([sock EXCEPT !.out[p] = n], {}) /\ given' = g
    <2> DEFINE r == [sock EXCEPT !.out[p] = n]
    <2>1. /\ DOMAIN r = SockFields /\ Asked(r, {}) /\ Queued(r, g)
          /\ Channeled(r) /\ Tracked(r) /\ Trusted(r) /\ Linked(r) /\ Going(r) /\ Ticking(r)
          /\ Restarted(r, sock)
      BY <1>1, <1>2, <1>3, MessageLeaves, ZenonT(30)
    <2> HIDE DEF r, g
    <2>2. Become(r, {}) /\ given' = g
      BY <1>3 DEF r
    <2> QED BY <1>1, <2>1, <2>2, BecomeInv
  <1>4. CASE p \in sock.sent_permissions /\ Become(queued(sock), {}) /\ given' = g
    <2> DEFINE r == queued(sock)
    <2>1. /\ DOMAIN r = SockFields /\ Asked(r, {}) /\ Queued(r, g)
          /\ Channeled(r) /\ Tracked(r) /\ Trusted(r) /\ Linked(r) /\ Going(r) /\ Ticking(r)
          /\ Restarted(r, sock)
      BY <1>1, <1>2, <1>4, MessageWaits, ZenonT(30)
    <2> HIDE DEF r, g
    <2>2. Become(r, {}) /\ given' = g
      BY <1>4 DEF r
    <2> QED BY <1>1, <2>1, <2>2, BecomeInv
  <1>5. ASSUME p \notin sock.permissions \cup sock.sent_permissions,
               NEW res \in Results, NEW due \in Due, NEW s,
               s = SendCreatePermission(sock, p, res, due),
               Become(IF res = "ok" THEN queued(s) ELSE s, {}),
               given' = IF res = "ok" THEN g ELSE given
        PROVE  TurnInv'
    <2>1. /\ Whole(s) /\ Ticking(s) /\ Restarted(s, sock)
          /\ res # "error" => p \in s.sent_permissions
      BY <1>5, AskFor
    <2>2. CASE res # "ok"
      BY <1>1, <1>5, <2>1, <2>2, BecomeWhole, ZenonT(30), SMTT(30)
    <2>3. CASE res = "ok"
      <3> DEFINE r == queued(s)
      <3>1. p \in s.sent_permissions
        BY <2>1, <2>3
      <3>2. /\ DOMAIN r = SockFields /\ Asked(r, {}) /\ Queued(r, g)
            /\ Channeled(r) /\ Tracked(r) /\ Trusted(r) /\ Linked(r) /\ Going(r) /\ Ticking(r)
            /\ Restarted(r, sock)
        BY <1>1, <2>1, <3>1, MessageWaits, ZenonT(30)
      <3>3. Become(r, {}) /\ given' = g
        BY <1>5, <2>3
      <3> HIDE DEF r, g
      <3> QED BY <1>1, <3>2, <3>3, BecomeInv
    <2> QED BY <2>2, <2>3
  <1> QED BY <1>3, <1>4, <1>5, ZenonT(30) DEF SendMessage

\* priv_retransmissions_tick keeps the invariant.
LEMMA RetransmissionsTickInv ==
    ASSUME TurnInv, RetransmissionsTick
    PROVE  TurnInv'
  <1> DEFINE m == sock.current_binding_msg
  <1>1. UNCHANGED <<server, given>> /\ Around /\ Whole(sock) /\ Ticking(sock)
    BY InvIsWhole DEF RetransmissionsTick
  <1>2. PICK due \in Due :
            IF m = None THEN Become([sock EXCEPT !.tick_source_channel_bind = FALSE], {})
            ELSE IF m.left > 0 THEN Become(SchedulePermissions(RepeatBinding(sock), due), {})
            ELSE LET s == BindingTimesOut(sock, due)
                 IN  /\ sock' = [s EXCEPT !.written = {}, !.tick_source_channel_bind = FALSE,
                                          !.stalled = s.current_binding_msg # None]
                     /\ net' = net \cup s.written
    BY ZenonT(30) DEF RetransmissionsTick
  <1>3. CASE m = None
    <2> DEFINE s == [sock EXCEPT !.tick_source_channel_bind = FALSE]
    <2>1. /\ Sound(s, {}) /\ Linked(s) /\ Forward(s, sock, {})
          /\ s.pending_bindings = sock.pending_bindings
          /\ s.current_binding = sock.current_binding
          /\ s.current_binding_msg = m /\ s.endless = sock.endless
      BY <1>1, BindTimerSet DEF Whole
    <2>2. Become(s, {})
      BY <1>2, <1>3, ZenonT(30), SMTT(30)
    <2> HIDE DEF s
    <2>3. Whole(s) /\ Ticking(s) /\ Restarted(s, sock)
      BY <1>1, <1>3, <2>1 DEF Whole, Going, Forward, Restarted
    <2> QED BY <1>1, <2>2, <2>3, BecomeWhole
  <1>4. CASE m # None /\ m.left > 0
    <2> DEFINE t == RepeatBinding(sock)
               s == SchedulePermissions(t, due)
    <2>1. Whole(t) /\ BindTimed(t)
      BY <1>1, <1>4, RepeatBindingWhole DEF Whole, Going
    <2>2. Whole(s) /\ Ticking(s) /\ KeepsBindings(s, t)
      BY <1>1, <2>1, SchedulePermissionsWhole, SchedulePermissionsIs, ZenonT(30) DEF Scheduled, Whole, Sound
    <2>3. Become(s, {})
      BY <1>2, <1>4
    <2> HIDE DEF s, t
    <2>4. Restarted(s, sock)
      BY <2>1, <2>2, ZenonT(30), SMTT(30) DEF Restarted, KeepsBindings, BindTimed
    <2> QED BY <1>1, <2>2, <2>3, <2>4, BecomeWhole, ZenonT(30), SMTT(30)
  <1>5. CASE m # None /\ ~(m.left > 0)
    <2> DEFINE s == BindingTimesOut(sock, due)
               st == (s.current_binding_msg # None)
               v == sock'
    <2>1. Whole(s) /\ Forward(s, sock, due)
      BY <1>1, BindingTimesOutWhole, ZenonT(30) DEF Whole, Going
    <2>2. /\ v = [s EXCEPT !.written = {}, !.tick_source_channel_bind = FALSE, !.stalled = st]
          /\ net' = net \cup s.written
      BY <1>2, <1>5
    <2> HIDE DEF s
    <2>3. DOMAIN s = SockFields
      BY <2>1 DEF Whole, Sound
    <2>4. /\ DOMAIN v = SockFields /\ v.written = {} /\ v.stalled = st
          /\ KeepsChannels(v, s) /\ KeepsPermissions(v, s)
      BY <2>2, <2>3 DEF SockFields, KeepsPermissions, KeepsChannels
    <2>5. s.current_binding_msg # None => v.stalled
      BY ONLY <2>4, ZenonT(30)
    <2>6. sock' = v /\ net' \subseteq net \cup s.written
      BY <2>2
    <2> HIDE DEF v
    <2>7. Going(v)
      BY <2>1, <2>4, <2>5, ZenonT(30) DEF Whole, Going, KeepsChannels
    <2>8. /\ Asked(s, {}) /\ Queued(s, given) /\ Channeled(s)
          /\ Tracked(s) /\ Trusted(s) /\ Linked(s) /\ Ticking(s)
      BY <1>1, <2>1 DEF Whole, Sound, Forward
    <2>9. Queued(s, given') /\ given' \in [Peers -> Nat] /\ UNCHANGED server
      BY <1>1, <2>8 DEF TurnInv
    <2> QED BY <2>4, <2>6, <2>7, <2>8, <2>9, StepInv
  <1> QED BY <1>3, <1>4, <1>5

\* priv_retransmissions_create_permission_tick keeps the invariant.
LEMMA CreatePermissionTickInv ==
    ASSUME TurnInv, CreatePermissionTick
    PROVE  TurnInv'
  <1>1. PICK due \in Due : Become(ScheduleTick(sock, due), {})
    BY DEF CreatePermissionTick
  <1> DEFINE s == ScheduleTick(sock, due)
  <1>2. Whole(s) /\ Ticking(s) /\ Restarted(s, sock)
    BY InvIsWhole, ScheduleTickWhole
  <1>3. UNCHANGED <<server, given>> /\ Become(s, {})
    BY <1>1, ZenonT(30), SMTT(30) DEF CreatePermissionTick
  <1> HIDE DEF s
  <1> QED BY <1>2, <1>3, BecomeWhole

\* A step of the socket that writes nothing.
LEMMA QuietInv ==
    ASSUME TurnInv, NEW v, sock' = v, Whole(v), Ticking(v), v.written = {},
           UNCHANGED <<server, net, given>>
    PROVE  TurnInv'
  <1>1. /\ Asked(v, {}) /\ Queued(v, given) /\ Channeled(v) /\ DOMAIN v = SockFields
        /\ Tracked(v) /\ Trusted(v) /\ Linked(v) /\ Going(v)
    BY DEF Whole, Sound
  <1>2. Queued(v, given') /\ given' \in [Peers -> Nat] /\ UNCHANGED server
    BY <1>1 DEF TurnInv
  <1>3. KeepsChannels(v, v) /\ KeepsPermissions(v, v) /\ net' \subseteq net \cup v.written
    BY DEF KeepsChannels, KeepsPermissions
  <1> QED BY <1>1, <1>2, <1>3, StepInv, ZenonT(30), SMTT(30)

\* priv_permission_timeout keeps the invariant.
LEMMA ClearPermissionsInv ==
    ASSUME TurnInv, ClearPermissions
    PROVE  TurnInv'
  <1> DEFINE v == sock'
             pt == <<PermissionTimeout>>
  <1>1. Whole(sock) /\ Ticking(sock) /\ DOMAIN sock = SockFields /\ sock.written = {}
    BY InvIsWhole DEF Whole, Sound, TurnInv
  <1>2. v = [sock EXCEPT !.permissions = {}, !.granted = {}, !.permission_timeout = pt]
    BY DEF ClearPermissions
  <1>3. /\ DOMAIN v = SockFields /\ KeepsBindings(v, sock)
        /\ v.permissions = {} /\ v.granted = {} /\ v.permission_timeout = pt
        /\ v.pending_permissions = sock.pending_permissions /\ v.unsent = sock.unsent
        /\ v.sent_permissions = sock.sent_permissions /\ v.written = sock.written
        /\ v.tick_source_create_permission = sock.tick_source_create_permission
        /\ v.send_data_queues = sock.send_data_queues /\ v.out = sock.out
    BY <1>1, <1>2 DEF SockFields, KeepsBindings
  <1>4. sock' = v /\ UNCHANGED <<server, net, given>>
    BY ZenonT(30), SMTT(30) DEF ClearPermissions
  <1> HIDE DEF v
  <1>5. Asked(v, {}) /\ Ticking(v)
    BY <1>1, <1>3 DEF Whole, Sound, Asked, PendingPeers, Ticking, Timed
  <1>6. Queued(v, given)
    <2>1. Queued(sock, given)
      BY <1>1, ZenonT(30) DEF Whole, Sound
    <2> QED BY <1>3, <2>1, ZenonT(30) DEF Queued
  <1>7. Channeled(v) /\ Linked(v) /\ Going(v)
    BY <1>1, <1>3, BindingsKept, ZenonT(30), SMTT(30) DEF Whole, Sound
  <1>8. Tracked(v)
    BY <1>1, <1>3, TrackedLess DEF Whole, Sound, Requests, KeepsBindings
  <1>9. PermissionTimeout \in 0..PermissionTimeout
    BY TurnAssumption
  <1>10. Trusted(v)
    BY <1>3, <1>9 DEF Trusted
  <1>11. Whole(v)
    BY <1>3, <1>5, <1>6, <1>7, <1>8, <1>10 DEF Whole, Sound
  <1> QED BY <1>1, <1>3, <1>4, <1>5, <1>11, QuietInv, ZenonT(30), SMTT(30)

-----------------------------------------------------------------------------
(* The list of channels.                                                   *)

\* One channel of it gets other timers.
LEMMA ChannelReplaced ==
    ASSUME NEW c, Listed(c), NEW i \in DOMAIN c, NEW b \in Binding,
           b.channel = c[i].channel, b.left <= BindingTimeout + ExpireTimeout,
           b.timer = "renew" => b.left <= BindingTimeout,
           NEW d, d = [c EXCEPT ![i] = b]
    PROVE  /\ Listed(d) /\ DOMAIN d = DOMAIN c
           /\ d[i] = b /\ \A j \in DOMAIN c : j # i => d[j] = c[j]
  <1>1. c \in Seq(Binding) /\ DOMAIN c = 1..Len(c)
    BY DEF Listed
  <1>2. /\ d \in Seq(Binding) /\ DOMAIN d = DOMAIN c
        /\ d[i] = b /\ \A j \in DOMAIN c : j # i => d[j] = c[j]
    BY <1>1
  <1>3. \A j \in DOMAIN d : d[j].channel = c[j].channel
    BY <1>2
  <1>4. \A j \in DOMAIN d : /\ d[j].left <= BindingTimeout + ExpireTimeout
                            /\ d[j].timer = "renew" => d[j].left <= BindingTimeout
    BY <1>2 DEF Listed
  <1> QED BY <1>2, <1>3, <1>4 DEF Listed

\* priv_binding_expired_timeout keeps the invariant.
LEMMA BindingExpiredInv ==
    ASSUME TurnInv, NEW i \in DOMAIN sock.channels, BindingExpired(i)
    PROVE  TurnInv'
  <1> DEFINE c == sock.channels
             b == [c[i] EXCEPT !.timer = "off"]
             d == [c EXCEPT ![i] = b]
             v == sock'
             on == TRUE
  <1>1. Whole(sock) /\ Ticking(sock) /\ DOMAIN sock = SockFields /\ sock.written = {}
    BY InvIsWhole DEF Whole, Sound, TurnInv
  <1>2. Listed(c) /\ c[i] \in Binding
    <2>1. Listed(c)
      BY <1>1, ZenonT(30) DEF Whole, Sound, Channeled
    <2>2. c \in Seq(Binding)
      BY <2>1, ZenonT(30) DEF Listed
    <2>3. c[i] \in Binding
      BY <2>2
    <2> QED BY <2>1, <2>3
  <1>3. /\ b \in Binding /\ b.channel = c[i].channel /\ b.peer = c[i].peer
        /\ b.left <= BindingTimeout + ExpireTimeout /\ b.timer # "renew"
    <2>1. b.left = c[i].left
      BY <1>2 DEF Binding
    <2>2. b.left <= BindingTimeout + ExpireTimeout
      BY <1>2, <2>1 DEF Listed
    <2> QED BY <1>2, <2>2 DEF Binding, Timers
  <1>4. v = [sock EXCEPT !.channels = d, !.expired = on]
    BY <1>1 DEF BindingExpired, SockFields
  <1> HIDE DEF b, on
  <1>5. /\ Listed(d) /\ DOMAIN d = DOMAIN c
        /\ d[i] = b /\ \A j \in DOMAIN c : j # i => d[j] = c[j]
    BY <1>2, <1>3, ChannelReplaced
  <1> HIDE DEF d
  <1>6. /\ DOMAIN v = SockFields /\ v.channels = d /\ v.expired = on
        /\ v.pending_bindings = sock.pending_bindings
        /\ v.current_binding = sock.current_binding
        /\ v.current_binding_msg = sock.current_binding_msg
        /\ v.tick_source_channel_bind = sock.tick_source_channel_bind
        /\ v.endless = sock.endless /\ v.stalled = sock.stalled
        /\ v.written = sock.written /\ KeepsPermissions(v, sock)
    BY <1>1, <1>4 DEF SockFields, KeepsPermissions
  <1>7. sock' = v /\ UNCHANGED <<server, net, given>>
    BY DEF BindingExpired
  <1> HIDE DEF v
  <1>8. v.expired
    BY <1>6 DEF on
  <1>9. \A j \in DOMAIN c : d[j].channel = c[j].channel /\ d[j].peer = c[j].peer
    BY <1>3, <1>5
  <1>10. Channeled(v)
    BY <1>1, <1>5, <1>6, <1>8, <1>9, ZenonT(30) DEF Whole, Sound, Channeled
  <1>11. Linked(v)
    BY <1>1, <1>5, <1>6, <1>8, <1>9, ZenonT(30) DEF Whole, Linked
  <1>12. Going(v)
    BY <1>1, <1>6, ZenonT(30), SMTT(30) DEF Whole, Going, BindTimed
  <1>13. Tracked(v)
    BY <1>1, <1>6, TrackedLess, ZenonT(30), SMTT(30) DEF Whole, Sound, Requests, KeepsPermissions
  <1>14. Asked(v, {}) /\ Queued(v, given) /\ Trusted(v) /\ Ticking(v)
    <2>1. Asked(sock, {}) /\ Queued(sock, given) /\ Trusted(sock) /\ Ticking(sock)
      BY <1>1, ZenonT(30) DEF Whole, Sound
    <2>2. Forward(v, sock, {})
      BY <1>6, ForwardKept, ZenonT(30)
    <2>3. Ticking(v)
      BY <2>1, <2>2, ZenonT(30) DEF Forward
    <2> QED BY <1>6, <2>1, <2>3, PermissionsKept, ZenonT(30)
  <1>15. Whole(v)
    BY <1>6, <1>10, <1>11, <1>12, <1>13, <1>14, ZenonT(30), SMTT(30) DEF Whole, Sound
  <1> QED BY <1>1, <1>6, <1>7, <1>14, <1>15, QuietInv, ZenonT(30), SMTT(30)

\* A channel that is to be renewed is known to the server for a while.
LEMMA RenewBindingInv ==
    ASSUME TurnInv, NEW i \in DOMAIN sock.channels, RenewBinding(i)
    PROVE  TurnInv'
  <1> DEFINE c == sock.channels
             on == TRUE
             b == [c[i] EXCEPT !.renew = on, !.timer = "expire", !.left = ExpireTimeout]
             d == [c EXCEPT ![i] = b]
             s == [sock EXCEPT !.channels = d]
  <1>1. Whole(sock) /\ Ticking(sock) /\ DOMAIN sock = SockFields /\ Around
    BY InvIsWhole DEF Whole, Sound
  <1>2. Listed(c) /\ c[i] \in Binding /\ c[i].timer = "renew" /\ c[i].left = 0
    BY <1>1 DEF Whole, Sound, Channeled, Listed, RenewBinding
  <1>3. PICK due \in Due :
            Become(IF sock.current_binding_msg # None THEN s
                   ELSE SendChannelBind(s, c[i].channel, c[i].peer, due), {})
    <2>1. s = [sock EXCEPT !.channels[i].renew = TRUE, !.channels[i].timer = "expire",
                           !.channels[i].left = ExpireTimeout]
      <3>1. c \in Seq(Binding) /\ DOMAIN c[i] = {"peer", "channel", "renew", "timer", "left"}
        BY <1>2 DEF Listed, Binding
      <3> QED BY <1>1, <3>1, ZenonT(30) DEF SockFields
    <2> QED BY <2>1 DEF RenewBinding
  <1>4. on \in BOOLEAN
    OBVIOUS
  <1> HIDE DEF on
  <1>5. /\ b \in Binding /\ b.channel = c[i].channel /\ b.peer = c[i].peer
        /\ b.timer = "expire" /\ b.left = ExpireTimeout
    BY <1>2, <1>4, TurnAssumption, ZenonT(30) DEF Binding, Timers
  <1> HIDE DEF b
  <1>6. b.left <= BindingTimeout + ExpireTimeout
    BY <1>5, TurnAssumption
  <1>7. /\ Listed(d) /\ DOMAIN d = DOMAIN c
        /\ d[i] = b /\ \A j \in DOMAIN c : j # i => d[j] = c[j]
    BY <1>2, <1>5, <1>6, ChannelReplaced, ZenonT(30), SMTT(30)
  <1> HIDE DEF d
  <1>8. \A j \in DOMAIN c : d[j].channel = c[j].channel /\ d[j].peer = c[j].peer
    BY <1>5, <1>7
  <1>9. Kept(c) => Kept(d)
    <2> SUFFICES ASSUME Kept(c) PROVE Kept(d)
      BY ZenonT(30), SMTT(30)
    <2>1. Holds(c[i].channel, c[i].peer, c[i].left + ExpireTimeout)
      BY <1>2, ZenonT(30), SMTT(30) DEF Kept, Backed
    <2>2. Holds(b.channel, b.peer, b.left)
      <3>1. c[i].left = 0
        BY <1>2, ZenonT(30), SMTT(30)
      <3> QED BY <1>5, <2>1, <3>1, TurnAssumption, SMTT(30), Z3T(30)
    <2>3. Backed(b)
      BY <1>5, <2>2, TurnAssumption, SMTT(30), Z3T(30) DEF Backed
    <2>4. \A j \in DOMAIN c : i < j => c[i].peer # c[j].peer
      BY <1>2 DEF Kept, Succeeds
    <2>5. \A j \in DOMAIN c : j < i => c[i].peer # c[j].peer
      BY <1>2, TurnAssumption DEF Kept, Succeeds
    <2>6. DOMAIN c = 1..Len(c) /\ Len(c) \in Nat
      BY <1>2 DEF Listed
    <2>7. ASSUME NEW j \in DOMAIN d PROVE Backed(d[j])
      BY <1>7, <2>3, ZenonT(30), SMTT(30) DEF Kept
    <2>8. ASSUME NEW j \in DOMAIN d, NEW k \in DOMAIN d, j < k, d[j].peer = d[k].peer
          PROVE  Succeeds(d[j], d[k])
      <3>1. c[j].peer = c[k].peer /\ j \in DOMAIN c /\ k \in DOMAIN c
        BY <1>7, <1>8, <2>8, ZenonT(30), SMTT(30)
      <3>2. j # i /\ k # i
        BY <2>4, <2>5, <2>6, <2>8, <3>1
      <3> QED BY <1>7, <2>8, <3>1, <3>2, ZenonT(30), SMTT(30) DEF Kept
    <2> QED BY <2>7, <2>8 DEF Kept
  <1>10. /\ DOMAIN s = SockFields /\ s.channels = d /\ s.expired = sock.expired
         /\ s.pending_bindings = sock.pending_bindings
         /\ s.current_binding = sock.current_binding
         /\ s.current_binding_msg = sock.current_binding_msg
         /\ s.tick_source_channel_bind = sock.tick_source_channel_bind
         /\ s.endless = sock.endless /\ s.stalled = sock.stalled
         /\ s.written = sock.written /\ KeepsPermissions(s, sock)
    BY <1>1 DEF SockFields, KeepsPermissions
  <1> HIDE DEF s
  <1>11. Channeled(s)
    BY <1>1, <1>7, <1>8, <1>9, <1>10, ZenonT(30) DEF Whole, Sound, Channeled
  <1>12. \A j \in DOMAIN c : c[j].timer = "expire" => d[j].timer = "expire"
    BY <1>5, <1>7
  <1>13. Linked(s)
    BY <1>1, <1>7, <1>8, <1>10, <1>12, ZenonT(30) DEF Whole, Linked
  <1>14. Going(s)
    BY <1>1, <1>10, ZenonT(30), SMTT(30) DEF Whole, Going, BindTimed
  <1>15. Tracked(s)
    BY <1>1, <1>10, TrackedLess, ZenonT(30), SMTT(30) DEF Whole, Sound, Requests, KeepsPermissions
  <1>16. Asked(s, {}) /\ Queued(s, given) /\ Trusted(s) /\ Ticking(s)
    BY <1>1, <1>10, PermissionsKept, ForwardKept, ZenonT(30) DEF Whole, Sound, Forward
  <1>17. Whole(s)
    BY <1>10, <1>11, <1>13, <1>14, <1>15, <1>16, ZenonT(30) DEF Whole, Sound
  <1>18. UNCHANGED <<server, given>>
    BY DEF RenewBinding
  <1>19. CASE sock.current_binding_msg # None
    <2>1. Become(s, {}) /\ Restarted(s, sock)
      BY <1>3, <1>10, <1>19 DEF Restarted
    <2> QED BY <1>16, <1>17, <1>18, <2>1, BecomeWhole, ZenonT(30), SMTT(30)
  <1>20. CASE sock.current_binding_msg = None
    <2> DEFINE r == SendChannelBind(s, d[i].channel, d[i].peer, due)
    <2>1. Become(r, {})
      BY <1>3, <1>8, <1>20, ZenonT(30), SMTT(30)
    <2>2. s.current_binding = None /\ s.pending_bindings = <<>>
      BY <1>1, <1>10, <1>20, ZenonT(30), SMTT(30) DEF Whole, Going
    <2>3. i \in DOMAIN d /\ d[i].timer = "expire"
      BY <1>5, <1>7
    <2>4. Whole(r) /\ BindTimed(r) /\ Forward(r, s, due)
      BY <1>1, <1>10, <1>17, <2>2, <2>3, BindingIsRenewed, ZenonT(30)
    <2> HIDE DEF r
    <2>5. Ticking(r) /\ Restarted(r, sock)
      BY <1>16, <2>4 DEF Forward, Restarted
    <2> QED BY <1>18, <2>1, <2>4, <2>5, BecomeWhole, ZenonT(30), SMTT(30)
  <1> QED BY <1>19, <1>20
=============================================================================
