--------------------------- MODULE UdpTurnProofs ----------------------------
(***************************************************************************)
(* The TURN client socket (module UdpTurn) for any number of peers,        *)
(* channels, retransmissions and faults, and for all lifetimes that leave  *)
(* the margin of the code: data leaves in order, what waits has been asked *)
(* for, and the server holds what the socket relies on.                    *)
(*                                                                         *)
(* The invariant is that of module UdpTurnInvariant.  Here are the answers *)
(* of the server, its steps, and those of the network and the clock.       *)
(***************************************************************************)
EXTENDS UdpTurnInvariant

-----------------------------------------------------------------------------
(* Answers to ChannelBind.                                                 *)

\* The channel that an answer to a renewal is taken to be about is the one that
\* was to be renewed.
LEMMA RenewedIsMeant ==
    ASSUME TurnInv, sock.current_binding_msg # None, sock.current_binding = None
    PROVE  LET c == sock.channels[Renewed]
           IN  /\ Renewed \in DOMAIN sock.channels
               /\ c.peer = sock.current_binding_msg.peer
               /\ \A i \in DOMAIN sock.channels :
                      i < Renewed => sock.channels[i].peer # c.peer
               /\ sock.expired \/ /\ c.timer = "expire"
                                  /\ c.channel = sock.current_binding_msg.channel
  <1> DEFINE c == sock.channels
             m == sock.current_binding_msg
             I == {i \in 1..Len(c) : c[i].peer = m.peer}
  <1>1. Channeled(sock) /\ Linked(sock)
    BY DEF TurnInv, Sound
  <1>2. c \in Seq(Binding) /\ DOMAIN c = 1..Len(c) /\ Len(c) \in Nat
    BY <1>1 DEF Channeled, Listed
  <1>3. PICK j \in DOMAIN c : /\ c[j].peer = m.peer /\ c[j].channel = m.channel
                              /\ sock.expired \/ c[j].timer = "expire"
    BY <1>1 DEF Linked
  <1>4. j \in I /\ I \in SUBSET Nat
    BY <1>2, <1>3
  <1>5. Renewed = First(I)
    BY <1>2 DEF Renewed
  <1>6. \E n \in I : \A k \in I : n <= k
    BY <1>4, Least, ZenonT(30)
  <1>7. Renewed \in I /\ \A k \in I : Renewed <= k
    BY <1>4, <1>5, <1>6, ZenonT(30) DEF First
  <1>8. Renewed \in DOMAIN c /\ c[Renewed].peer = m.peer
    BY <1>2, <1>7
  <1>9. \A i \in DOMAIN c : i < Renewed => c[i].peer # m.peer
    BY <1>2, <1>7
  <1>10. ASSUME ~sock.expired PROVE Renewed = j
    <2>1. Kept(c)
      BY <1>1, <1>10 DEF Channeled
    <2>2. Renewed < j => Succeeds(c[Renewed], c[j])
      BY <1>3, <1>8, <2>1 DEF Kept
    <2>3. ~(Renewed < j)
      BY <1>3, <1>10, <2>2 DEF Succeeds
    <2> QED BY <1>2, <1>4, <1>7, <2>3
  <1> QED BY <1>3, <1>8, <1>9, <1>10

\* A channel the server has just bound joins the list, or starts anew in it.
Fresh(b, p, n) ==
    /\ b \in Binding /\ b.peer = p /\ b.channel = n
    /\ b.timer = "renew" /\ b.left = BindingTimeout /\ ~b.renew

\* The server holds what it has just granted.
LEMMA FreshIsBacked ==
    ASSUME NEW b, NEW p, NEW n, Fresh(b, p, n),
           server.binding[n] = [peer |-> p, left |-> BindingLife]
    PROVE  Backed(b)
  <1>1. server.binding[n] # None
    BY DEF None
  <1>2. BindingTimeout + ExpireTimeout <= BindingLife
    BY TurnAssumption
  <1>3. Holds(n, p, BindingTimeout + ExpireTimeout)
    BY <1>1, <1>2 DEF Holds
  <1>4. BindingTimeout <= BindingTimeout
    BY TurnAssumption
  <1> QED BY <1>3, <1>4 DEF Fresh, Backed

\* No other channel to the peer is one the server knows.
LEMMA OthersAreOver ==
    ASSUME ServerTyped, OneChannel, NEW p, NEW n \in 1..Channels,
           server.binding[n] = [peer |-> p, left |-> BindingLife],
           NEW b \in Binding, Backed(b), b.peer = p, b.channel # n
    PROVE  b.timer = "expire" /\ b.left = 0
  <1>1. server.binding[n] # None /\ server.binding[n].peer = p
    BY DEF None
  <1>2. b.channel \in 1..Channels
    BY DEF Binding
  <1>3. ~ \E t : Holds(b.channel, p, t)
    BY <1>1, <1>2, ZenonT(30), SMTT(30) DEF OneChannel, Holds
  <1> QED BY <1>3 DEF Backed

\* A new binding joins the channels.
LEMMA ChannelAppended ==
    ASSUME ServerTyped, OneChannel, NEW c, Listed(c), NEW p \in Peers, NEW n \in 1..Channels,
           \A i \in DOMAIN c : c[i].channel # n,
           server.binding[n] = [peer |-> p, left |-> BindingLife],
           NEW b, Fresh(b, p, n)
    PROVE  Listed(Append(c, b)) /\ (Kept(c) => Kept(Append(c, b)))
  <1> DEFINE d == Append(c, b)
             k == Len(c) + 1
  <1>1. c \in Seq(Binding) /\ DOMAIN c = 1..Len(c) /\ Len(c) \in Nat /\ b \in Binding
    BY DEF Listed, Fresh
  <1>2. /\ d \in Seq(Binding) /\ Len(d) = k /\ d[k] = b /\ \A i \in DOMAIN c : d[i] = c[i]
    BY <1>1
  <1>3. DOMAIN d = 1..k
    BY <1>2
  <1> HIDE DEF d
  <1>4. \A i \in DOMAIN d : i = k \/ i \in DOMAIN c
    BY <1>1, <1>3
  <1>5. k \notin DOMAIN c /\ k \in DOMAIN d /\ \A i \in DOMAIN c : i < k /\ i \in DOMAIN d
    BY <1>1, <1>3
  <1> HIDE DEF k
  <1>6. BindingTimeout <= BindingTimeout + ExpireTimeout /\ BindingTimeout <= BindingTimeout
    BY TurnAssumption
  <1>7. \A i \in DOMAIN d : /\ d[i].left <= BindingTimeout + ExpireTimeout
                            /\ d[i].timer = "renew" => d[i].left <= BindingTimeout
    BY <1>2, <1>4, <1>6, ZenonT(30), SMTT(30) DEF Listed, Fresh
  <1>8. \A i, j \in DOMAIN d : d[i].channel = d[j].channel => i = j
    BY <1>2, <1>4, ZenonT(30), SMTT(30) DEF Listed, Fresh
  <1>9. Listed(d)
    BY <1>2, <1>7, <1>8, ZenonT(30), SMTT(30) DEF Listed
  <1>10. ASSUME Kept(c) PROVE Kept(d)
    <2>1. Backed(b)
      BY FreshIsBacked, ZenonT(30), SMTT(30)
    <2>2. \A i \in DOMAIN d : Backed(d[i])
      BY <1>2, <1>4, <1>10, <2>1, ZenonT(30), SMTT(30) DEF Kept
    <2>3. ASSUME NEW i \in DOMAIN d, NEW j \in DOMAIN d, i < j, d[i].peer = d[j].peer
          PROVE  Succeeds(d[i], d[j])
      <3>1. CASE j \in DOMAIN c
        <4>1. i \in DOMAIN c
          BY <1>1, <1>4, <2>3, <3>1 DEF k
        <4> QED BY <1>2, <1>10, <2>3, <3>1, <4>1, ZenonT(30), SMTT(30) DEF Kept
      <3>2. CASE j = k
        <4>1. i \in DOMAIN c
          BY <1>1, <1>4, <2>3, <3>2, SMTT(30), Z3T(30) DEF k
        <4>2. c[i].peer = p /\ c[i].channel # n /\ c[i] \in Binding /\ Backed(c[i])
          BY <1>1, <1>2, <1>10, <2>3, <3>2, <4>1, SMTT(30), Z3T(30) DEF Fresh, Kept
        <4>3. c[i].timer = "expire" /\ c[i].left = 0
          BY <4>2, OthersAreOver
        <4> QED BY <1>2, <3>2, <4>1, <4>3, ZenonT(30), SMTT(30) DEF Succeeds, Fresh
      <3> QED BY <1>4, <3>1, <3>2, ZenonT(30), SMTT(30)
    <2> QED BY <2>2, <2>3, ZenonT(30), SMTT(30) DEF Kept
  <1> QED BY <1>9, <1>10 DEF d

\* A renewed binding takes the place of the old one.
LEMMA ChannelRenewed ==
    ASSUME ServerTyped, OneChannel, NEW c, Listed(c), NEW i \in DOMAIN c,
           NEW b, Fresh(b, c[i].peer, c[i].channel),
           NEW d, d = [c EXCEPT ![i] = b]
    PROVE  /\ Listed(d)
           /\ /\ Kept(c) /\ \A j \in DOMAIN c : j < i => c[j].peer # c[i].peer
              /\ server.binding[c[i].channel] = [peer |-> c[i].peer, left |-> BindingLife]
              => Kept(d)
  <1>1. c \in Seq(Binding) /\ DOMAIN c = 1..Len(c) /\ Len(c) \in Nat
    BY DEF Listed
  <1>2. BindingTimeout <= BindingTimeout + ExpireTimeout /\ BindingTimeout <= BindingTimeout
    BY TurnAssumption
  <1>3. /\ Listed(d) /\ DOMAIN d = DOMAIN c
        /\ d[i] = b /\ \A j \in DOMAIN c : j # i => d[j] = c[j]
    BY <1>2, ChannelReplaced, ZenonT(30) DEF Fresh
  <1>4. ASSUME Kept(c), \A j \in DOMAIN c : j < i => c[j].peer # c[i].peer,
               server.binding[c[i].channel] = [peer |-> c[i].peer, left |-> BindingLife]
        PROVE  Kept(d)
    <2>1. Backed(b)
      BY <1>4, FreshIsBacked
    <2>2. \A j \in DOMAIN d : Backed(d[j])
      BY <1>3, <1>4, <2>1 DEF Kept
    <2>3. \A j \in DOMAIN d : d[j].peer = c[j].peer
      BY <1>3 DEF Fresh
    <2>4. ASSUME NEW j \in DOMAIN c, i < j PROVE c[j].peer # c[i].peer
      <3> SUFFICES ASSUME c[j].peer = c[i].peer PROVE FALSE
        OBVIOUS
      <3>1. Succeeds(c[i], c[j]) /\ Backed(c[j])
        BY <1>4, <2>4 DEF Kept
      <3>2. c[j].channel # c[i].channel
        BY <1>1, <2>4 DEF Listed
      <3>3. c[i] \in Binding /\ c[j] \in Binding
        BY <1>1
      <3>5. c[i].channel \in 1..Channels
        BY <3>3 DEF Binding
      <3>4. c[j].timer = "expire"
        BY <1>4, <3>1, <3>2, <3>3, <3>5, OthersAreOver, ZenonT(30), SMTT(30)
      <3> QED BY <3>1, <3>4 DEF Succeeds
    <2>5. ASSUME NEW j \in DOMAIN d, NEW k \in DOMAIN d, j < k, d[j].peer = d[k].peer
          PROVE  Succeeds(d[j], d[k])
      <3>1. j \in DOMAIN c /\ k \in DOMAIN c /\ c[j].peer = c[k].peer
        BY <1>3, <2>3, <2>5
      <3>2. j # i /\ k # i
        BY <1>4, <2>4, <2>5, <3>1
      <3> QED BY <1>3, <1>4, <2>5, <3>1, <3>2, ZenonT(30), SMTT(30) DEF Kept
    <2> QED BY <2>2, <2>5 DEF Kept
  <1> QED BY <1>3, <1>4

\* The list after the server has confirmed what was asked for.
LEMMA BoundIsListed ==
    ASSUME TurnInv, sock.current_binding_msg # None, Served(sock.current_binding_msg)
    PROVE  Listed(Bound) /\ (sock.expired \/ Kept(Bound))
  <1> DEFINE m == sock.current_binding_msg
             c == sock.channels
             timed(p, n) == [peer |-> p, channel |-> n, renew |-> FALSE, timer |-> "renew",
                             left |-> BindingTimeout]
  <1>1. /\ Channeled(sock) /\ Linked(sock) /\ ServerTyped /\ OneChannel
    BY ZenonT(30), SMTT(30) DEF TurnInv, Sound
  <1>2. Listed(c) /\ (sock.expired \/ Kept(c)) /\ IsRequest(m, "ChannelBind")
        /\ m.channel \in 1..Channels
    BY <1>1, ZenonT(30), SMTT(30) DEF Channeled
  <1>3. server.binding[m.channel] = [peer |-> m.peer, left |-> BindingLife] /\ m.peer \in Peers
    BY <1>2 DEF Served, IsRequest
  <1>4. ASSUME NEW p \in Peers, NEW n \in 1..Channels PROVE Fresh(timed(p, n), p, n)
    BY TurnAssumption DEF Fresh, Binding, Timers
  <1>5. CASE sock.current_binding # None
    <2>1. Bound = Append(c, timed(sock.current_binding.peer, sock.current_binding.channel))
      BY <1>5 DEF Bound
    <2>2. /\ m.peer = sock.current_binding.peer /\ m.channel = sock.current_binding.channel
          /\ \A i \in DOMAIN c : c[i].channel # m.channel
      BY <1>1, <1>5, ZenonT(30), SMTT(30) DEF Linked, Channeled
    <2>3. Fresh(timed(m.peer, m.channel), m.peer, m.channel)
      BY <1>2, <1>3, <1>4
    <2> HIDE DEF timed
    <2>4. Listed(Append(c, timed(m.peer, m.channel)))
          /\ (Kept(c) => Kept(Append(c, timed(m.peer, m.channel))))
      BY <1>1, <1>2, <1>3, <2>2, <2>3, ChannelAppended, ZenonT(30)
    <2> QED BY <1>2, <2>1, <2>2, <2>4, ZenonT(30), SMTT(30)
  <1>6. CASE sock.current_binding = None
    <2> DEFINE i == Renewed
               b == timed(c[i].peer, c[i].channel)
    <2>1. /\ i \in DOMAIN c /\ c[i].peer = m.peer
          /\ \A j \in DOMAIN c : j < i => c[j].peer # c[i].peer
          /\ sock.expired \/ c[i].channel = m.channel
      BY <1>6, RenewedIsMeant, ZenonT(30), SMTT(30)
    <2>2. Bound = [c EXCEPT ![i] = b]
      BY <1>6, <2>1, ZenonT(30), SMTT(30) DEF Bound
    <2>3. c[i] \in Binding
      BY <1>2, <2>1 DEF Listed
    <2>4. c[i].peer \in Peers /\ c[i].channel \in 1..Channels
      BY <2>3, ZenonT(30), SMTT(30) DEF Binding
    <2>5. Fresh(b, c[i].peer, c[i].channel)
      BY <1>4, <2>4
    <2> HIDE DEF i, b
    <2>6. /\ Listed(Bound)
          /\ /\ Kept(c) /\ \A j \in DOMAIN c : j < i => c[j].peer # c[i].peer
             /\ server.binding[c[i].channel] = [peer |-> c[i].peer, left |-> BindingLife]
             => Kept(Bound)
      BY <1>1, <1>2, <2>1, <2>2, <2>5, ChannelRenewed
    <2> QED BY <1>2, <1>3, <2>1, <2>6, ZenonT(30)
  <1> QED BY <1>5, <1>6, ZenonT(30), SMTT(30)

\* The answer to the ChannelBind under way.
LEMMA RecvChannelBindInv ==
    ASSUME TurnInv, NEW m \in net, m.to = "client", m.method = "ChannelBind",
           NEW q \in Requests(sock), q.id = m.id, q.method = m.method,
           RecvChannelBind(m), UNCHANGED <<server, given>>
    PROVE  TurnInv'
  <1> DEFINE c == sock.channels
             s == [sock EXCEPT !.current_binding_msg = None]
             b == IF sock.current_binding # None THEN sock.current_binding ELSE c[Renewed]
  <1>1. Whole(sock) /\ Ticking(sock) /\ DOMAIN sock = SockFields /\ Around
    BY InvIsWhole, ZenonT(30) DEF Whole, Sound
  <1>2. Channeled(sock) /\ Tracked(sock) /\ Linked(sock) /\ Going(sock)
    BY <1>1, ZenonT(30) DEF Whole, Sound
  <1>3. q = sock.current_binding_msg /\ sock.current_binding_msg # None
    <2>1. \A r \in sock.pending_permissions : r.method = "CreatePermission"
      BY <1>1 DEF Whole, Sound, Asked, IsRequest
    <2> QED BY <2>1, ZenonT(30), SMTT(30) DEF Requests
  <1>4. PICK due \in Due :
            Become(IF m.class = "auth"
                   THEN SendChannelBind(Challenged(m, s), b.channel, b.peer, due)
                   ELSE Concluded(m, s, due), {m})
    BY DEF RecvChannelBind
  <1>5. CASE m.class = "auth"
    <2> DEFINE t == [sock EXCEPT !.current_binding_msg = None, !.cached_nonce = m.nonce]
               r == SendChannelBind(t, b.channel, b.peer, due)
    <2>1. Become(r, {m})
      <3>1. t = Challenged(m, s)
        BY <1>1 DEF Challenged, SockFields
      <3> QED BY <1>4, <1>5, <3>1
    <2>2. /\ DOMAIN t = SockFields /\ t.channels = c /\ t.expired = sock.expired
          /\ t.pending_bindings = sock.pending_bindings
          /\ t.current_binding = sock.current_binding /\ t.current_binding_msg = None
          /\ t.endless = sock.endless /\ t.stalled = sock.stalled
          /\ t.written = sock.written /\ KeepsPermissions(t, sock)
      BY <1>1 DEF SockFields, KeepsPermissions
    <2> HIDE DEF t
    <2>3. Channeled(t)
      BY <1>2, <2>2, ZenonT(30) DEF Channeled
    <2>4. Tracked(t)
      BY <1>2, <2>2, TrackedLess DEF Requests, KeepsPermissions
    <2>5. Asked(t, {}) /\ Queued(t, given) /\ Trusted(t) /\ Ticking(t)
      BY <1>1, <2>2, PermissionsKept, ForwardKept, ZenonT(30) DEF Whole, Sound, Forward
    <2>6. Sound(t, {})
      BY <2>2, <2>3, <2>4, <2>5, ZenonT(30) DEF Sound
    <2>7. sock.current_binding = None => /\ Renewed \in DOMAIN c
                                         /\ sock.expired \/ c[Renewed].timer = "expire"
      BY <1>3, RenewedIsMeant
    <2>8. b.channel \in 1..Channels /\ b.peer \in Peers
      <3>1. CASE sock.current_binding # None
        BY <1>2, <3>1 DEF Channeled, Target
      <3>2. CASE sock.current_binding = None
        <4>1. c[Renewed] \in Binding
          BY <1>2, <2>7, <3>2 DEF Channeled, Listed
        <4> QED BY <3>2, <4>1, ZenonT(30), SMTT(30) DEF Binding
      <3> QED BY <3>1, <3>2, ZenonT(30), SMTT(30)
    <2>9. Sound(r, {}) /\ BindSent(r, t, b.channel, b.peer) /\ Ticking(r)
      BY <1>1, <2>6, <2>8, SendChannelBindSound, ZenonT(30)
    <2> HIDE DEF r
    <2>10. Linked(r)
      <3>1. CASE sock.current_binding # None
        BY <2>2, <2>9, <3>1, ZenonT(30), SMTT(30) DEF Linked, BindSent
      <3>2. CASE sock.current_binding = None
        BY <2>2, <2>7, <2>9, <3>2 DEF Linked, BindSent
      <3> QED BY <3>1, <3>2, ZenonT(30), SMTT(30)
    <2>11. Going(r)
      BY <1>2, <2>2, <2>9, ZenonT(30) DEF Going, BindSent
    <2>12. Whole(r) /\ Restarted(r, sock)
      BY <2>9, <2>10, <2>11, ZenonT(30) DEF Whole, Restarted, BindSent
    <2> QED BY <2>1, <2>9, <2>12, BecomeWhole, ZenonT(30)
  <1>6. CASE m.class # "auth"
    <2> DEFINE d == IF m.class = "ok" THEN Bound ELSE c
               t == [sock EXCEPT !.current_binding = None, !.current_binding_msg = None,
                                 !.channels = d]
               r == ProcessPendingBindings(t, due)
    <2>1. Become(r, {m})
      <3>1. t = [s EXCEPT !.current_binding = None,
                          !.channels = IF m.class = "ok" THEN Bound ELSE @]
        BY <1>1, ZenonT(30) DEF SockFields
      <3> QED BY <1>4, <1>6, <3>1 DEF Concluded
    <2>2. Listed(d) /\ (sock.expired \/ Kept(d))
      <3>1. CASE m.class = "ok"
        <4>1. Matches(m, q)
          BY <1>2 DEF Tracked
        <4>2. Served(q)
          BY <3>1, <4>1, ZenonT(30), SMTT(30) DEF Matches
        <4> QED BY <1>3, <3>1, <4>2, BoundIsListed, ZenonT(30), SMTT(30)
      <3>2. CASE m.class # "ok"
        BY <1>2, <3>2 DEF Channeled
      <3> QED BY <3>1, <3>2
    <2> HIDE DEF d
    <2>3. /\ DOMAIN t = SockFields /\ t.channels = d /\ t.expired = sock.expired
          /\ t.pending_bindings = sock.pending_bindings
          /\ t.current_binding = None /\ t.current_binding_msg = None
          /\ t.endless = sock.endless /\ t.written = sock.written
          /\ KeepsPermissions(t, sock)
      BY <1>1 DEF SockFields, KeepsPermissions
    <2> HIDE DEF t
    <2>4. Channeled(t)
      BY <1>2, <2>2, <2>3, ZenonT(30) DEF Channeled
    <2>5. Sound(t, {}) /\ ~t.endless /\ Forward(t, sock, due)
      <3>1. Sound(sock, {}) /\ ~sock.endless
        BY <1>1 DEF Whole, Going
      <3> QED BY <2>3, <2>4, <3>1, BindingIsOver, ZenonT(30), SMTT(30)
    <2>6. Whole(r) /\ (r.current_binding_msg # None => BindTimed(r)) /\ Forward(r, t, due)
      BY <1>1, <2>3, <2>5, ProcessPendingBindingsWhole, ZenonT(30)
    <2> HIDE DEF r
    <2>7. Ticking(r) /\ Restarted(r, sock)
      BY <1>1, <2>5, <2>6 DEF Forward, Restarted
    <2> QED BY <2>1, <2>6, <2>7, BecomeWhole, ZenonT(30)
  <1> QED BY <1>5, <1>6

-----------------------------------------------------------------------------
(* Answers to CreatePermission.                                            *)

\* The answer to a CreatePermission, when it is a challenge: the request is made anew.
LEMMA PermissionChallenged ==
    ASSUME TurnInv, NEW m, NEW req \in sock.pending_permissions, NEW res, NEW due \in Due,
           UNCHANGED <<server, given>>,
           Become(SendCreatePermission(Challenged(m, [sock EXCEPT !.pending_permissions = @ \ {req}]),
                                       req.peer, res, due), {m})
    PROVE  TurnInv'
  <1> DEFINE p == req.peer
             s == [sock EXCEPT !.pending_permissions = @ \ {req}, !.cached_nonce = m.nonce]
             s1 == [s EXCEPT !.sent_permissions = @ \cup {p}]
             r == SendCreatePermission(s, p, res, due)
  <1>1. Whole(sock) /\ Ticking(sock) /\ DOMAIN sock = SockFields /\ Around
    BY InvIsWhole DEF Whole, Sound
  <1>2. Become(r, {m})
    <2>1. s = Challenged(m, [sock EXCEPT !.pending_permissions = @ \ {req}])
      BY <1>1 DEF Challenged, SockFields
    <2> QED BY <2>1
  <1>3. /\ DOMAIN s = SockFields /\ KeepsBindings(s, sock) /\ KeepsGrants(s, sock)
        /\ s.pending_permissions = sock.pending_permissions \ {req}
        /\ s.sent_permissions = sock.sent_permissions /\ s.permissions = sock.permissions
        /\ s.tick_source_create_permission = sock.tick_source_create_permission
        /\ s.send_data_queues = sock.send_data_queues /\ s.out = sock.out
        /\ s.written = sock.written
    BY <1>1 DEF SockFields, KeepsBindings, KeepsGrants
  <1> HIDE DEF s
  <1>4. /\ DOMAIN s1 = SockFields /\ KeepsBindings(s1, s) /\ KeepsGrants(s1, s)
        /\ s1.pending_permissions = s.pending_permissions
        /\ s1.sent_permissions = s.sent_permissions \cup {p} /\ s1.permissions = s.permissions
        /\ s1.send_data_queues = s.send_data_queues /\ s1.out = s.out
        /\ s1.written = s.written
    BY <1>3 DEF SockFields, KeepsBindings, KeepsGrants
  <1>5. Asked(sock, {})
    BY <1>1 DEF Whole, Sound
  <1>6. p \in Peers /\ p \in PendingPeers(sock)
    BY <1>5 DEF Asked, IsRequest, PendingPeers
  <1>7. PendingPeers(s1) = PendingPeers(sock) \ {p}
    BY <1>3, <1>4, <1>5 DEF PendingPeers, Asked
  <1>8. IsFiniteSet(s.pending_permissions)
    BY <1>3, <1>5, FS_Subset DEF Asked
  <1>9. s1.sent_permissions = sock.sent_permissions
    BY <1>3, <1>4, <1>5, <1>6 DEF Asked
  <1>10. s1 = [s EXCEPT !.sent_permissions = @ \cup {p}]
    OBVIOUS
  <1> HIDE DEF s1, p, r
  <1>11. Asked(s1, {p})
    BY <1>3, <1>4, <1>5, <1>6, <1>7, <1>8, <1>9, SMTT(30), Z3T(30) DEF Asked, KeepsGrants
  <1>12. Queued(s1, given) /\ Trusted(s1)
    BY <1>1, <1>3, <1>4, <1>9 DEF Whole, Sound, Queued, Trusted, KeepsGrants
  <1>13. Tracked(s)
    BY <1>1, <1>3, TrackedLess DEF Whole, Sound, Requests, KeepsBindings
  <1>14. Tracked(s1)
    BY <1>4, <1>13, TrackedLess DEF Requests, KeepsBindings
  <1>15. Channeled(s) /\ Linked(s) /\ Going(s)
    BY <1>1, <1>3, BindingsKept DEF Whole, Sound
  <1>16. Channeled(s1)
    BY <1>4, <1>15, BindingsKept
  <1>17. Sound(s1, {p})
    BY <1>4, <1>11, <1>12, <1>14, <1>16 DEF Sound
  <1>18. Ticking(s)
    BY <1>1, <1>3 DEF Ticking, Timed
  <1>19. FreshId(s) \notin due
    BY <1>8, <1>13, FreshIsNotDue
  <1>20. Whole(r) /\ Ticking(r) /\ Restarted(r, s)
    BY <1>1, <1>3, <1>6, <1>10, <1>15, <1>17, <1>18, <1>19, SendCreatePermissionWhole,
       SMTT(30), Z3T(30) DEF r
  <1>21. Restarted(r, sock)
    BY <1>3, <1>20 DEF Restarted, KeepsBindings
  <1> QED BY <1>2, <1>20, <1>21, BecomeWhole

\* ... and when it is final: what waits leaves.
LEMMA PermissionInstalled ==
    ASSUME TurnInv, NEW m \in net, m.to = "client", NEW req \in sock.pending_permissions,
           m.id = req.id, m.method = req.method, m.class # "auth",
           RecvCreatePermission(m, req), UNCHANGED <<server, given>>
    PROVE  TurnInv'
  <1> DEFINE p == req.peer
             gr == IF m.class = "ok" THEN sock.granted \cup {p} ELSE sock.granted
             pt == IF m.class = "ok" /\ sock.permission_timeout = None
                   THEN <<PermissionTimeout>> ELSE sock.permission_timeout
             t == [sock EXCEPT !.pending_permissions = @ \ {req},
                               !.sent_permissions = @ \ {p}, !.permissions = @ \cup {p},
                               !.granted = gr, !.permission_timeout = pt]
             s == DequeueAllData(t, {p})
  <1>1. Whole(sock) /\ Ticking(sock) /\ DOMAIN sock = SockFields /\ given \in [Peers -> Nat]
    BY InvIsWhole, ZenonT(30) DEF Whole, Sound, TurnInv
  <1>2. Become(s, {m})
    BY <1>1 DEF RecvCreatePermission, SockFields
  <1>3. Asked(sock, {}) /\ Queued(sock, given) /\ Trusted(sock) /\ Tracked(sock)
    BY <1>1, ZenonT(30) DEF Whole, Sound
  <1> DEFINE qs == [o \in Peers |-> IF o \in {p} THEN <<>> ELSE sock.send_data_queues[o]]
             os == [o \in Peers |-> IF o \in {p} /\ sock.send_data_queues[o] # <<>>
                                    THEN Last(sock.send_data_queues[o]) ELSE sock.out[o]]
  <1> HIDE DEF gr, pt
  <1>4. /\ DOMAIN s = SockFields /\ KeepsBindings(s, sock)
        /\ s.pending_permissions = sock.pending_permissions \ {req}
        /\ s.sent_permissions = sock.sent_permissions \ {p}
        /\ s.permissions = sock.permissions \cup {p}
        /\ s.granted = gr /\ s.permission_timeout = pt /\ s.unsent = sock.unsent
        /\ s.tick_source_create_permission = sock.tick_source_create_permission
        /\ s.send_data_queues = qs /\ s.out = os /\ s.written = sock.written
    BY <1>1 DEF DequeueAllData, SockFields, KeepsBindings
  <1> HIDE DEF s
  <1>5. p \in Peers /\ p \in PendingPeers(sock)
    BY <1>3 DEF Asked, IsRequest, PendingPeers
  <1>6. PendingPeers(s) = PendingPeers(sock) \ {p}
    <2>1. \A n \in sock.pending_permissions : n.peer = p => n = req
      BY <1>3 DEF Asked
    <2> QED BY <1>4, <2>1 DEF PendingPeers
  <1>7. IsFiniteSet(s.pending_permissions)
    BY <1>3, <1>4, FS_Subset, ZenonT(30) DEF Asked
  <1>8. gr \subseteq sock.granted \cup {p}
    BY DEF gr
  <1>9. Asked(s, {})
    <2> HIDE DEF p
    <2>1. /\ \A n \in s.pending_permissions : IsRequest(n, "CreatePermission")
          /\ \A n, o \in s.pending_permissions : n.peer = o.peer => n = o
      BY <1>3, <1>4, ZenonT(30) DEF Asked
    <2>2. /\ s.sent_permissions = PendingPeers(s) \cup s.unsent
          /\ PendingPeers(s) \cap s.unsent = {} /\ s.unsent \subseteq Peers
      <3>1. /\ sock.sent_permissions = PendingPeers(sock) \cup sock.unsent
            /\ PendingPeers(sock) \cap sock.unsent = {} /\ sock.unsent \subseteq Peers
        BY <1>3, ZenonT(30) DEF Asked
      <3>2. /\ (PendingPeers(sock) \cup sock.unsent) \ {p} = (PendingPeers(sock) \ {p}) \cup sock.unsent
            /\ (PendingPeers(sock) \ {p}) \cap sock.unsent = {}
        BY <1>5, <3>1, OneLess
      <3> QED BY <1>4, <1>6, <3>1, <3>2, ZenonT(30)
    <2>3. /\ s.permissions \subseteq Peers /\ s.permissions \cap s.sent_permissions = {}
          /\ s.granted \subseteq s.permissions
      BY <1>3, <1>4, <1>5, <1>8, ZenonT(30) DEF Asked
    <2> QED BY <1>7, <2>1, <2>2, <2>3, ZenonT(30) DEF Asked
  <1>10. Ticking(s)
    BY <1>1, <1>4, ZenonT(30) DEF Ticking, Timed
  <1>11. Channeled(s) /\ Linked(s) /\ Going(s) /\ Restarted(s, sock)
    BY <1>1, <1>4, BindingsKept, ZenonT(30) DEF Whole, Sound, Restarted, KeepsBindings
  <1>12. Tracked(s)
    <2>1. Requests(s) \subseteq Requests(sock)
      BY <1>4, ZenonT(30) DEF Requests, KeepsBindings
    <2> QED BY <1>3, <1>4, <2>1, TrackedLess, ZenonT(30)
  <1>13. Trusted(s)
    <2>1. CASE m.class = "ok"
      <3>1. Matches(m, req)
        BY <1>3 DEF Tracked, Requests
      <3>2. server.permission[p] = PermissionLife
        BY <2>1, <3>1 DEF Matches, Served
      <3>3. PermissionTimeout \in 0..PermissionTimeout
        BY TurnAssumption
      <3>4. PICK n \in 0..PermissionTimeout : pt = <<n>>
        BY <1>3, <2>1, <3>3 DEF pt, Trusted
      <3>5. server.permission[p] >= n + ExpireTimeout
        BY <3>2, TurnAssumption
      <3>6. \A o \in sock.granted : server.permission[o] >= n + ExpireTimeout
        BY <1>3, <3>4 DEF Trusted, pt
      <3>7. gr = sock.granted \cup {p} /\ pt # None
        BY <2>1, <3>4 DEF gr, None
      <3> HIDE DEF p
      <3> QED BY <1>4, <3>4, <3>5, <3>6, <3>7 DEF Trusted
    <2>2. CASE m.class # "ok"
      <3>1. s.granted = sock.granted /\ s.permission_timeout = sock.permission_timeout
        BY <1>4, <2>2 DEF gr, pt
      <3> QED BY <1>3, <3>1 DEF Trusted
    <2> QED BY <2>1, <2>2
  <1>14. Queued(s, given)
    <2> DEFINE q == sock.send_data_queues[p]
    <2>1. q \in Seq(Nat) /\ sock.out[p] \in Nat /\ given[p] \in Nat
      BY <1>1, <1>3, <1>5, ZenonT(30) DEF Queued
    <2>2. Len(q) = given[p] - sock.out[p] /\ \A i \in 1..Len(q) : q[i] = sock.out[p] + i
      BY <1>3, <1>5 DEF Queued
    <2>3. q # <<>> => Last(q) = given[p]
      <3> SUFFICES ASSUME q # <<>> PROVE q[Len(q)] = given[p]
        BY DEF Last
      <3> HIDE DEF q
      <3>1. Len(q) \in 1..Len(q)
        BY <2>1
      <3> QED BY <2>1, <2>2, <3>1
    <2>4. q = <<>> => sock.out[p] = given[p]
      BY <2>1, <2>2
    <2>5. os[p] = given[p] /\ qs[p] = <<>>
      BY <1>5, <2>3, <2>4
    <2>6. \A o \in Peers \ {p} : os[o] = sock.out[o] /\ qs[o] = sock.send_data_queues[o]
      OBVIOUS
    <2>7. DOMAIN os = Peers /\ DOMAIN qs = Peers /\ os = [o \in Peers |-> os[o]]
          /\ qs = [o \in Peers |-> qs[o]]
      OBVIOUS
    <2> HIDE DEF os, qs, p
    <2>8. \A o \in Peers : os[o] \in Nat /\ qs[o] \in Seq(Nat)
      <3>1. <<>> \in Seq(Nat) /\ given[p] \in Nat
        BY <2>1
      <3>2. ASSUME NEW o \in Peers PROVE os[o] \in Nat /\ qs[o] \in Seq(Nat)
        <4>1. CASE o = p
          BY <2>5, <3>1, <4>1, ZenonT(30)
        <4>2. CASE o # p
          BY <1>3, <2>6, <4>2 DEF Queued
        <4> QED BY <4>1, <4>2
      <3> QED BY <3>2
    <2>9. os \in [Peers -> Nat] /\ qs \in [Peers -> Seq(Nat)]
      BY <2>7, <2>8
    <2>10. ASSUME NEW o \in Peers
           PROVE  LET w == s.send_data_queues[o] IN
                    /\ w # <<>> => o \in s.sent_permissions
                    /\ Len(w) = given[o] - s.out[o]
                    /\ \A i \in 1..Len(w) : w[i] = s.out[o] + i
      <3>1. CASE o = p
        BY <1>1, <1>4, <2>5, <3>1
      <3>2. CASE o # p
        BY <1>3, <1>4, <2>6, <3>2, ZenonT(30) DEF Queued
      <3> QED BY <3>1, <3>2
    <2> QED BY <1>4, <2>9, <2>10 DEF Queued
  <1>15. Whole(s)
    BY <1>4, <1>9, <1>11, <1>12, <1>13, <1>14, ZenonT(30) DEF Whole, Sound
  <1> QED BY <1>2, <1>10, <1>11, <1>15, BecomeWhole

\* nice_udp_turn_socket_parse_recv keeps the invariant.
LEMMA ParseRecvInv ==
    ASSUME TurnInv, NEW m \in net, ParseRecv(m)
    PROVE  TurnInv'
  <1> DEFINE req == {r \in Requests(sock) : r.id = m.id /\ r.method = m.method}
  <1>1. m.to = "client" /\ UNCHANGED <<server, given>>
    BY DEF ParseRecv
  <1>2. CASE Become(sock, {m})
    <2>1. Whole(sock) /\ Ticking(sock) /\ Restarted(sock, sock)
      BY InvIsWhole DEF Restarted
    <2> QED BY <1>1, <1>2, <2>1, BecomeWhole
  <1>3. CASE req # {} /\ m.method = "ChannelBind" /\ RecvChannelBind(m)
    <2>1. PICK q \in Requests(sock) : q.id = m.id /\ q.method = m.method
      BY <1>3
    <2> QED BY <1>1, <1>3, <2>1, RecvChannelBindInv
  <1>4. CASE m.method = "CreatePermission" /\ \E r \in req : RecvCreatePermission(m, r)
    <2>1. PICK r \in req : RecvCreatePermission(m, r)
      BY <1>4
    <2>2. r \in sock.pending_permissions
      <3>1. Channeled(sock)
        BY DEF TurnInv, Sound
      <3> QED BY <1>4, <3>1 DEF Requests, Channeled, IsRequest
    <2>3. CASE m.class = "auth"
      <3>1. PICK res \in Results, due \in Due :
                Become(SendCreatePermission(Challenged(m,
                          [sock EXCEPT !.pending_permissions = @ \ {r}]), r.peer, res, due), {m})
        BY <2>1, <2>3, ZenonT(30) DEF RecvCreatePermission
      <3> QED BY <1>1, <2>2, <3>1, PermissionChallenged, ZenonT(30)
    <2>4. CASE m.class # "auth"
      BY <1>1, <2>1, <2>2, <2>4, PermissionInstalled
    <2> QED BY <2>3, <2>4
  <1> QED BY <1>2, <1>3, <1>4 DEF ParseRecv, HandUp

-----------------------------------------------------------------------------
(* The server, the network and the clock.                                  *)

\* What the server grants: nothing it has promised before is taken back.
Granted(m) ==
    /\ DOMAIN server' = {"nonce", "permission", "binding"}
    /\ server'.permission = [server.permission EXCEPT ![m.peer] = PermissionLife]
    /\ \/ m.method # "ChannelBind" /\ server'.binding = server.binding
       \/ /\ m.channel \in 1..Channels /\ Bindable(m.peer, m.channel)
          /\ server'.binding = [server.binding EXCEPT
                ![m.channel] = [peer |-> m.peer, left |-> BindingLife]]

\* What the server does when it grants a request.
LEMMA GrantIsGranted ==
    ASSUME TurnInv, NEW m, m.method \in {"ChannelBind", "CreatePermission"},
           m.method = "ChannelBind" => Bindable(m.peer, m.channel), server' = Grant(m)
    PROVE  Granted(m)
  BY DEF TurnInv, ServerTyped, Grant, Granted, Bindable

\* A grant keeps one channel for a peer and one peer for a channel,
LEMMA GrantedTyped ==
    ASSUME TurnInv, NEW m, m.peer \in Peers, Granted(m)
    PROVE  ServerTyped' /\ OneChannel'
  <1> DEFINE nb == [peer |-> m.peer, left |-> BindingLife]
             B == {None} \cup [peer : Peers, left : Nat]
  <1>1. server.permission \in [Peers -> Nat] /\ server.binding \in [1..Channels -> B]
    BY DEF TurnInv, ServerTyped
  <1>2. server'.permission \in [Peers -> Nat]
    BY <1>1, TurnAssumption DEF Granted
  <1>3. nb \in B /\ nb # None /\ nb.peer = m.peer
    BY TurnAssumption DEF None
  <1> HIDE DEF nb, B
  <1>4. CASE server'.binding = server.binding
    BY <1>1, <1>2, <1>4 DEF TurnInv, ServerTyped, OneChannel, Granted, B
  <1>5. CASE /\ m.channel \in 1..Channels /\ Bindable(m.peer, m.channel)
             /\ server'.binding = [server.binding EXCEPT ![m.channel] = nb]
    <2>1. server'.binding \in [1..Channels -> B]
      BY <1>1, <1>3, <1>5
    <2>2. /\ server'.binding[m.channel] = nb
          /\ \A k \in 1..Channels : k # m.channel => server'.binding[k] = server.binding[k]
      BY <1>1, <1>5, ZenonT(30)
    <2>3. \A k \in 1..Channels : k # m.channel /\ server.binding[k] # None
                                    => server.binding[k].peer # m.peer
      BY <1>5 DEF Bindable
    <2>4. OneChannel'
      BY <1>3, <2>2, <2>3 DEF OneChannel, TurnInv
    <2>5. ServerTyped'
      BY <1>2, <2>1 DEF ServerTyped, Granted, B
    <2> QED BY <2>4, <2>5
  <1> QED BY <1>4, <1>5 DEF Granted, nb

\* takes no time from any binding,
LEMMA GrantedHolds ==
    ASSUME TurnInv, NEW m, m.peer \in Peers, Granted(m),
           NEW n \in 1..Channels, NEW p, NEW t, t <= BindingLife, Holds(n, p, t)
    PROVE  Holds(n, p, t)'
  <1> DEFINE nb == [peer |-> m.peer, left |-> BindingLife]
  <1>1. server.binding \in [1..Channels -> {None} \cup [peer : Peers, left : Nat]]
    BY ZenonT(30) DEF TurnInv, ServerTyped
  <1>2. CASE server'.binding[n] = server.binding[n]
    BY <1>2 DEF Holds
  <1>3. CASE server'.binding[n] # server.binding[n]
    <2>1. server'.binding[n] = nb /\ server.binding[n].peer = m.peer
      BY <1>1, <1>3, ZenonT(30) DEF Granted, Bindable, Holds
    <2>2. nb # None
      BY DEF None
    <2> QED BY <2>1, <2>2 DEF Holds
  <1> QED BY <1>2, <1>3

\* leaves every channel of the client what it rests on,
LEMMA GrantedBacked ==
    ASSUME TurnInv, NEW m, m.peer \in Peers, Granted(m), NEW b \in Binding, Backed(b)
    PROVE  Backed(b)'
  <1>1. b.channel \in 1..Channels /\ b.left \in Nat
    BY DEF Binding
  <1>2. CASE b.timer = "renew" /\ b.left <= BindingTimeout /\ ~b.renew
             /\ Holds(b.channel, b.peer, b.left + ExpireTimeout)
    <2>1. b.left + ExpireTimeout <= BindingLife
      BY <1>1, <1>2, TurnAssumption
    <2>2. Holds(b.channel, b.peer, b.left + ExpireTimeout)'
      BY <1>1, <1>2, <2>1, GrantedHolds
    <2> QED BY <1>2, <2>2 DEF Backed
  <1>3. CASE b.timer = "expire" /\ b.left <= ExpireTimeout /\ Holds(b.channel, b.peer, b.left)
    <2>1. b.left <= BindingLife
      BY <1>1, <1>3, TurnAssumption
    <2>2. Holds(b.channel, b.peer, b.left)'
      BY <1>1, <1>3, <2>1, GrantedHolds
    <2> QED BY <1>3, <2>2 DEF Backed
  <1>4. CASE b.timer = "expire" /\ b.left <= ExpireTimeout /\ b.left = 0
    BY <1>4 DEF Backed
  <1> QED BY <1>2, <1>3, <1>4 DEF Backed

\* and serves what was served.
LEMMA GrantedServed ==
    ASSUME TurnInv, NEW m, m.peer \in Peers, Granted(m), NEW r, r.peer \in Peers,
           r.method = "ChannelBind" => r.channel \in 1..Channels
    PROVE  /\ Served(r) => Served(r)'
           /\ m.method = r.method /\ m.peer = r.peer /\ m.channel = r.channel => Served(r)'
  <1>1. /\ server.binding \in [1..Channels -> {None} \cup [peer : Peers, left : Nat]]
        /\ server.permission \in [Peers -> Nat]
    BY DEF TurnInv, ServerTyped
  <1>2. \A n, p : [peer |-> p, left |-> n] # None
    BY DEF None
  <1>3. ASSUME Served(r) PROVE Served(r)'
    <2>1. server'.permission[r.peer] = PermissionLife
      BY <1>1, <1>3 DEF Served, Granted
    <2>2. ASSUME r.method = "ChannelBind"
          PROVE  server'.binding[r.channel] = [peer |-> r.peer, left |-> BindingLife]
      <3>1. server.binding[r.channel] = [peer |-> r.peer, left |-> BindingLife]
        BY <1>3, <2>2 DEF Served
      <3>2. CASE server'.binding[r.channel] = server.binding[r.channel]
        BY <3>1, <3>2
      <3>3. CASE server'.binding[r.channel] # server.binding[r.channel]
        <4>1. /\ r.channel = m.channel /\ Bindable(m.peer, m.channel)
              /\ server'.binding[r.channel] = [peer |-> m.peer, left |-> BindingLife]
          BY <1>1, <2>2, <3>3, ZenonT(30) DEF Granted
        <4>2. m.peer = r.peer
          BY <1>2, <2>2, <3>1, <4>1 DEF Bindable
        <4> QED BY <4>1, <4>2
      <3> QED BY <3>2, <3>3
    <2> QED BY <2>1, <2>2 DEF Served
  <1>4. ASSUME m.method = r.method, m.peer = r.peer, m.channel = r.channel
        PROVE  Served(r)'
    <2>1. server'.permission[r.peer] = PermissionLife
      BY <1>1, <1>4 DEF Granted
    <2>2. r.method = "ChannelBind" =>
              server'.binding[r.channel] = [peer |-> r.peer, left |-> BindingLife]
      BY <1>1, <1>4, ZenonT(30) DEF Granted
    <2> QED BY <2>1, <2>2 DEF Served
  <1> QED BY <1>3, <1>4

\* A step of the others, which leaves the socket alone.
LEMMA OutsideInv ==
    ASSUME TurnInv, UNCHANGED <<sock, given>>, ServerTyped', OneChannel',
           IsFiniteSet(net'), \A m \in net' : IsWire(m),
           \A b \in Binding : Backed(b) => Backed(b)',
           \A p \in sock.granted : server'.permission[p] >= sock.permission_timeout[1] + ExpireTimeout,
           \A r \in Requests(sock), m \in net' : Matches(m, r)'
    PROVE  TurnInv'
  <1>1. Channeled(sock) /\ Tracked(sock) /\ Trusted(sock) /\ Asked(sock, {}) /\ Queued(sock, given)
        /\ Linked(sock) /\ Going(sock) /\ Ticking(sock) /\ sock.written = {}
        /\ DOMAIN sock = SockFields
    BY ZenonT(30) DEF TurnInv, Sound
  <1>2. PICK s : s = sock
    OBVIOUS
  <1>3. sock' = s
    BY <1>2
  <1>4. Kept(s.channels) => Kept(s.channels)'
    <2>1. Listed(s.channels)
      BY <1>1, <1>2, ZenonT(30) DEF Channeled
    <2>2. \A i \in DOMAIN s.channels : s.channels[i] \in Binding
      BY <2>1, ListedTyped, ZenonT(30)
    <2> QED BY <2>2, ZenonT(30) DEF Kept, Succeeds
  <1>5. Channeled(s)'
    BY <1>1, <1>2, <1>4, ZenonT(30) DEF Channeled, Listed
  <1>6. Channeled(sock)'
    BY <1>3, <1>5, ChanneledMoves
  <1>7. Trusted(sock)'
    BY <1>1, ZenonT(30) DEF Trusted
  <1>8. \A r \in Requests(s), m \in net' \cup s.written : Matches(m, r)'
    BY <1>1, <1>2, ZenonT(30)
  <1>9. Tracked(s)'
    BY <1>1, <1>2, <1>8, FS_EmptySet, ZenonT(30) DEF Tracked, Requests
  <1>10. Tracked(sock)'
    BY <1>3, <1>9, TrackedMoves
  <1>11. Asked(sock, {})' /\ Queued(sock, given)'
    BY <1>1, ZenonT(30) DEF Asked, PendingPeers, Queued
  <1>12. Linked(sock)' /\ Going(sock)' /\ Ticking(sock)'
    BY <1>1, ZenonT(30) DEF Linked, Going, BindTimed, Ticking, Timed
  <1>13. (\A m \in net : IsWire(m))'
    BY DEF IsWire
  <1>14. Sound(sock, {})'
    BY <1>1, <1>6, <1>7, <1>10, <1>11, ZenonT(30) DEF Sound
  <1> QED BY <1>1, <1>12, <1>13, <1>14, ZenonT(30) DEF TurnInv

\* A lost message keeps the invariant.
LEMMA LoseInv ==
    ASSUME TurnInv, NEW m \in net, Lose(m)
    PROVE  TurnInv'
  <1>1. UNCHANGED <<sock, given>> /\ server' = server /\ net' = net \ {m}
    BY DEF Lose
  <1>2. IsFiniteSet(net') /\ (\A w \in net' : IsWire(w)) /\ ServerTyped' /\ OneChannel'
    BY <1>1, FS_Subset DEF TurnInv, ServerTyped, OneChannel
  <1>3. \A b \in Binding : Backed(b) => Backed(b)'
    BY <1>1 DEF Backed, Holds
  <1>4. \A p \in sock.granted : server'.permission[p] >= sock.permission_timeout[1] + ExpireTimeout
    BY <1>1 DEF TurnInv, Sound, Trusted
  <1>5. \A r \in Requests(sock), w \in net' : Matches(w, r)
    BY <1>1 DEF TurnInv, Sound, Tracked
  <1>6. \A r, w : Matches(w, r) => Matches(w, r)'
    BY <1>1, ZenonT(30), SMTT(30) DEF Matches, Served
  <1> QED BY <1>1, <1>2, <1>3, <1>4, <1>5, <1>6, OutsideInv, ZenonT(30)

\* So does a new nonce,
LEMMA NewNonceInv ==
    ASSUME TurnInv, NewNonce
    PROVE  TurnInv'
  <1>1. /\ UNCHANGED <<sock, given>> /\ net' = net
        /\ DOMAIN server' = {"nonce", "permission", "binding"}
        /\ server'.permission = server.permission /\ server'.binding = server.binding
    BY DEF NewNonce, TurnInv, ServerTyped
  <1>2. IsFiniteSet(net') /\ (\A w \in net' : IsWire(w)) /\ ServerTyped' /\ OneChannel'
    BY <1>1 DEF TurnInv, ServerTyped, OneChannel
  <1>3. \A b \in Binding : Backed(b) => Backed(b)'
    BY <1>1 DEF Backed, Holds
  <1>4. \A p \in sock.granted : server'.permission[p] >= sock.permission_timeout[1] + ExpireTimeout
    BY <1>1 DEF TurnInv, Sound, Trusted
  <1>5. \A r \in Requests(sock), w \in net' : Matches(w, r)
    BY <1>1 DEF TurnInv, Sound, Tracked
  <1>6. \A r, w : Matches(w, r) => Matches(w, r)'
    BY <1>1 DEF Matches, Served
  <1> QED BY <1>1, <1>2, <1>3, <1>4, <1>5, <1>6, OutsideInv, ZenonT(30), SMTT(30)

\* and an answer of the server.
LEMMA ServeInv ==
    ASSUME TurnInv, NEW m \in net, Serve(m)
    PROVE  TurnInv'
  <1>1. UNCHANGED <<sock, given>> /\ m.to = "server"
    BY DEF Serve
  <1>2. PICK class \in {"ok", "auth", "error"} :
            /\ m.method = "ChannelBind" /\ ~Bindable(m.peer, m.channel) => class # "ok"
            /\ server' = IF class = "ok" THEN Grant(m) ELSE server
            /\ net' = (net \ {m}) \cup {[id |-> m.id, to |-> "client", method |-> m.method,
                                         class |-> class, nonce |-> server.nonce]}
    BY DEF Serve
  <1> DEFINE a == [id |-> m.id, to |-> "client", method |-> m.method,
                   class |-> class, nonce |-> server.nonce]
  <1>3. /\ m.id \in Nat /\ m.peer \in Peers
        /\ m.method \in {"ChannelBind", "CreatePermission"}
    <2>1. IsWire(m)
      BY DEF TurnInv
    <2> QED BY <1>1, <2>1 DEF IsWire
  <1>4. IsWire(a) /\ a.id = m.id /\ a.to = "client" /\ a.method = m.method /\ a.class = class
    BY <1>3 DEF IsWire
  <1>5. net' = (net \ {m}) \cup {a}
    BY <1>2
  <1> HIDE DEF a
  <1>6. IsFiniteSet(net') /\ \A w \in net' : IsWire(w)
    <2>1. IsFiniteSet(net \ {m})
      BY FS_Subset DEF TurnInv
    <2>2. IsFiniteSet(net')
      BY <1>5, <2>1, FS_AddElement, ZenonT(30), SMTT(30)
    <2> QED BY <1>4, <1>5, <2>2 DEF TurnInv
  <1>7. ASSUME NEW r \in Requests(sock)
        PROVE  r.peer \in Peers /\ (r.method = "ChannelBind" => r.channel \in 1..Channels)
    BY DEF TurnInv, Sound, Asked, Channeled, IsRequest, Requests
  <1>8. \A r \in Requests(sock), w \in net : Matches(w, r)
    BY DEF TurnInv, Sound, Tracked
  <1>9. CASE class = "ok"
    <2>1. Granted(m)
      BY <1>2, <1>3, <1>9, GrantIsGranted
    <2>2. ServerTyped' /\ OneChannel'
      BY <1>3, <2>1, GrantedTyped
    <2>3. \A b \in Binding : Backed(b) => Backed(b)'
      BY <1>3, <2>1, GrantedBacked
    <2>4. \A p \in sock.granted :
              server'.permission[p] >= sock.permission_timeout[1] + ExpireTimeout
      <3> SUFFICES ASSUME NEW p \in sock.granted
                   PROVE  server'.permission[p] >= sock.permission_timeout[1] + ExpireTimeout
        BY ZenonT(30), SMTT(30)
      <3>1. PICK n \in 0..PermissionTimeout : sock.permission_timeout = <<n>>
        BY DEF TurnInv, Sound, Trusted
      <3>2. server.permission[p] >= n + ExpireTimeout
        BY <3>1 DEF TurnInv, Sound, Trusted
      <3>3. PermissionLife >= n + ExpireTimeout
        BY TurnAssumption
      <3>4. server'.permission[p] = PermissionLife \/ server'.permission[p] = server.permission[p]
        <4>1. p \in Peers /\ server.permission \in [Peers -> Nat]
          BY DEF TurnInv, Sound, Asked, ServerTyped
        <4> QED BY <2>1, <4>1, ZenonT(30), SMTT(30) DEF Granted
      <3> QED BY <3>1, <3>2, <3>3, <3>4
    <2>5. \A r \in Requests(sock) :
              /\ Served(r) => Served(r)'
              /\ m.method = r.method /\ m.peer = r.peer /\ m.channel = r.channel => Served(r)'
      BY <1>3, <1>7, <2>1, GrantedServed
    <2>6. ASSUME NEW r \in Requests(sock), NEW w \in net' PROVE Matches(w, r)'
      <3>1. CASE w \in net
        <4>1. Matches(w, r) /\ (Served(r) => Served(r)')
          BY <1>8, <2>5, <3>1
        <4> QED BY <4>1 DEF Matches
      <3>2. CASE w = a
        <4>1. Matches(m, r)
          BY <1>8
        <4> QED BY <1>1, <1>4, <2>5, <3>2, <4>1 DEF Matches
      <3> QED BY <1>5, <3>1, <3>2
    <2> QED BY <1>1, <1>6, <2>2, <2>3, <2>4, <2>6, OutsideInv, ZenonT(30), SMTT(30)
  <1>10. CASE class # "ok"
    <2>1. server' = server
      BY <1>2, <1>10, ZenonT(30), SMTT(30)
    <2>2. ServerTyped' /\ OneChannel'
      BY <2>1 DEF TurnInv, ServerTyped, OneChannel
    <2>3. \A b \in Binding : Backed(b) => Backed(b)'
      BY <2>1 DEF Backed, Holds
    <2>4. \A p \in sock.granted :
              server'.permission[p] >= sock.permission_timeout[1] + ExpireTimeout
      BY <2>1 DEF TurnInv, Sound, Trusted
    <2>5. \A r \in Requests(sock), w \in net' : Matches(w, r)
      BY <1>4, <1>5, <1>8, <1>10 DEF Matches
    <2>6. \A r, w : Matches(w, r) => Matches(w, r)'
      BY <2>1 DEF Matches, Served
    <2> QED BY <1>1, <1>6, <2>2, <2>3, <2>4, <2>5, <2>6, OutsideInv, ZenonT(30), SMTT(30)
  <1> QED BY <1>9, <1>10

\* What a minute does to the lists of the server and of the socket.
LEMMA MinuteIs ==
    ASSUME TurnInv, Minute
    PROVE  /\ DOMAIN server' = {"nonce", "permission", "binding"}
           /\ server'.permission = [p \in Peers |-> Aged(server.permission[p])]
           /\ server'.binding = [n \in 1..Channels |-> AgedBinding(server.binding[n])]
           /\ sock' = [sock EXCEPT
                !.permission_timeout = IF @ = None THEN None ELSE <<@[1] - 1>>,
                !.channels = [i \in DOMAIN @ |-> AgedChannel(@[i])] \o <<>>]
  <1> DEFINE P == [p \in Peers |-> Aged(server.permission[p])]
             B == [n \in 1..Channels |-> AgedBinding(server.binding[n])]
  <1>1. server' = [server EXCEPT !.permission = P, !.binding = B]
    BY DEF Minute
  <1>2. DOMAIN server = {"nonce", "permission", "binding"}
    BY DEF TurnInv, ServerTyped
  <1> HIDE DEF P, B
  <1>3. /\ DOMAIN server' = {"nonce", "permission", "binding"}
        /\ server'.permission = P /\ server'.binding = B
    BY <1>1, <1>2
  <1>4. sock' = [sock EXCEPT
                !.permission_timeout = IF @ = None THEN None ELSE <<@[1] - 1>>,
                !.channels = [i \in DOMAIN @ |-> AgedChannel(@[i])] \o <<>>]
    BY DEF Minute
  <1> QED BY <1>3, <1>4 DEF P, B

\* The server's bindings age with those of the list.
LEMMA MinuteHolds ==
    ASSUME TurnInv, Minute, NEW n \in 1..Channels, NEW p, NEW t \in Nat \ {0}, Holds(n, p, t + 1)
    PROVE  Holds(n, p, t)'
  <1> DEFINE o == server.binding[n]
  <1>1. server.binding \in [1..Channels -> {None} \cup [peer : Peers, left : Nat]]
        /\ DOMAIN server = {"nonce", "permission", "binding"}
    BY DEF TurnInv, ServerTyped
  <1>2. o # None /\ o.peer = p /\ o.left >= t + 1
    BY DEF Holds
  <1>3. o \in [peer : Peers, left : Nat]
    BY <1>1, <1>2, ZenonT(30)
  <1>4. server'.binding[n] = AgedBinding(o)
    BY MinuteIs, ZenonT(30)
  <1> HIDE DEF o
  <1>5. ~(o.left <= 1)
    BY <1>2, <1>3
  <1> DEFINE a == Aged(o.left)
  <1>6. a >= t
    BY <1>2, <1>3 DEF Aged
  <1> HIDE DEF a
  <1>7. [o EXCEPT !.left = a].peer = p /\ [o EXCEPT !.left = a].left = a
        /\ [o EXCEPT !.left = a] # None
    BY <1>2, <1>3, NotNone
  <1>8. server'.binding[n] = [o EXCEPT !.left = a]
    BY <1>2, <1>3, <1>4, <1>5 DEF a, AgedBinding, AgedChannel
  <1> QED BY <1>6, <1>7, <1>8 DEF Holds

\* A minute passes for a binding and for what the server holds of it.
LEMMA MinuteBacked ==
    ASSUME TurnInv, Minute, NEW b \in Binding, Backed(b), b.left > 0,
           NEW a \in Binding, a.peer = b.peer, a.channel = b.channel, a.renew = b.renew,
           a.timer = b.timer, a.left = b.left - 1
    PROVE  Backed(a)'
  <1>1. b.left \in Nat /\ b.channel \in 1..Channels
    BY DEF Binding
  <1>2. CASE b.timer = "renew" /\ b.left <= BindingTimeout /\ ~b.renew
             /\ Holds(b.channel, b.peer, b.left + ExpireTimeout)
    <2> DEFINE t == a.left + ExpireTimeout
    <2>1. t \in Nat \ {0} /\ t + 1 = b.left + ExpireTimeout
      BY <1>1, TurnAssumption
    <2> HIDE DEF t
    <2>2. Holds(b.channel, b.peer, t)'
      BY <1>1, <1>2, <2>1, MinuteHolds
    <2>3. a.left <= BindingTimeout /\ ~a.renew
      BY <1>1, <1>2, TurnAssumption
    <2> QED BY <1>2, <2>2, <2>3 DEF Backed, t
  <1>3. CASE b.timer = "expire" /\ b.left <= ExpireTimeout /\ Holds(b.channel, b.peer, b.left)
    <2>1. a.left <= ExpireTimeout /\ a.left \in Nat
      BY <1>1, <1>3, TurnAssumption
    <2>2. CASE a.left = 0
      BY <1>3, <2>1, <2>2, ZenonT(30) DEF Backed
    <2>3. CASE a.left # 0
      <3>1. a.left \in Nat \ {0} /\ a.left + 1 = b.left
        BY <1>1, <2>1, <2>3
      <3>2. Holds(b.channel, b.peer, a.left)'
        BY <1>1, <1>3, <3>1, MinuteHolds
      <3> QED BY <1>3, <2>1, <3>2 DEF Backed
    <2> QED BY <2>2, <2>3
  <1> QED BY <1>1, <1>2, <1>3 DEF Backed

\* The bindings of the server get older and lapse.
LEMMA MinuteServer ==
    ASSUME TurnInv, Minute
    PROVE  ServerTyped' /\ OneChannel'
  <1> DEFINE B == {None} \cup [peer : Peers, left : Nat]
             old == server.binding
             new == server'.binding
  <1>1. old \in [1..Channels -> B] /\ server.permission \in [Peers -> Nat]
    BY DEF TurnInv, ServerTyped
  <1>2. /\ DOMAIN server' = {"nonce", "permission", "binding"}
        /\ server'.permission = [p \in Peers |-> Aged(server.permission[p])]
        /\ new = [n \in 1..Channels |-> AgedBinding(old[n])]
    BY MinuteIs
  <1>3. \A n \in Nat : Aged(n) \in Nat
    BY DEF Aged
  <1>4. ASSUME NEW o \in B
        PROVE  /\ AgedBinding(o) \in B
               /\ AgedBinding(o) # None => o # None /\ AgedBinding(o).peer = o.peer
    <2>1. CASE o = None \/ o.left <= 1
      BY <2>1 DEF AgedBinding
    <2>2. CASE ~(o = None \/ o.left <= 1)
      <3>1. o \in [peer : Peers, left : Nat] /\ Aged(o.left) \in Nat
        BY <1>3, <2>2
      <3>2. AgedBinding(o) = [o EXCEPT !.left = Aged(o.left)]
        BY <2>2 DEF AgedBinding, AgedChannel
      <3> QED BY <2>2, <3>1, <3>2
    <2> QED BY <2>1, <2>2
  <1>5. server'.permission \in [Peers -> Nat]
    BY <1>1, <1>2, <1>3
  <1> HIDE DEF B, old, new
  <1>6. \A n \in 1..Channels :
            new[n] \in B /\ (new[n] # None => old[n] # None /\ new[n].peer = old[n].peer)
    BY <1>1, <1>2, <1>4
  <1>7. new \in [1..Channels -> B]
    BY <1>2, <1>6
  <1>8. \A j, k \in 1..Channels :
            old[j] # None /\ old[k] # None /\ old[j].peer = old[k].peer => j = k
    BY DEF TurnInv, OneChannel, old
  <1>9. \A j, k \in 1..Channels :
            new[j] # None /\ new[k] # None /\ new[j].peer = new[k].peer => j = k
    BY <1>6, <1>8
  <1>10. OneChannel'
    BY <1>9, ZenonT(30), SMTT(30) DEF OneChannel, new
  <1> QED BY <1>2, <1>5, <1>7, <1>10, ZenonT(30), SMTT(30) DEF ServerTyped, B, new

\* A minute keeps the invariant: client and server age together.
LEMMA MinuteInv ==
    ASSUME TurnInv, Minute
    PROVE  TurnInv'
  <1> DEFINE c == sock.channels
             d == sock'.channels
             v == sock'
             pt == IF sock.permission_timeout = None THEN None
                   ELSE <<sock.permission_timeout[1] - 1>>
  <1>1. Whole(sock) /\ Ticking(sock) /\ DOMAIN sock = SockFields /\ sock.written = {}
    BY InvIsWhole DEF Whole, Sound, TurnInv
  <1>2. Channeled(sock) /\ Linked(sock) /\ Going(sock) /\ Trusted(sock) /\ Tracked(sock)
    BY <1>1, ZenonT(30), SMTT(30) DEF Whole, Sound
  <1>3. Listed(c) /\ c \in Seq(Binding) /\ DOMAIN c = 1..Len(c) /\ Len(c) \in Nat
    BY <1>2 DEF Channeled, Listed
  <1>4. \A i \in DOMAIN c : c[i] \in Binding /\ c[i].left \in Nat
    <2>1. \A i \in DOMAIN c : c[i] \in Binding
      BY <1>3
    <2> QED BY <2>1 DEF Binding
  <1>5. \A i \in DOMAIN c : c[i].timer # "off" => c[i].left > 0
    BY DEF Minute, Elements
  <1> DEFINE e == [i \in DOMAIN c |-> AgedChannel(c[i])]
  <1>6. v = [sock EXCEPT !.permission_timeout = pt, !.channels = e \o <<>>]
    BY MinuteIs
  <1>7. \A n \in Nat : Aged(n) \in Nat /\ Aged(n) <= n /\ (n > 0 => Aged(n) = n - 1)
    BY DEF Aged
  <1>8. \A i \in DOMAIN c : e[i] = [c[i] EXCEPT !.left = Aged(c[i].left)]
    BY DEF AgedChannel
  <1>9. \A i \in DOMAIN c :
            /\ e[i] \in Binding /\ e[i].peer = c[i].peer /\ e[i].channel = c[i].channel
            /\ e[i].renew = c[i].renew /\ e[i].timer = c[i].timer
            /\ e[i].left = Aged(c[i].left)
    <2> SUFFICES ASSUME NEW i \in DOMAIN c
                 PROVE  /\ e[i] \in Binding /\ e[i].peer = c[i].peer
                        /\ e[i].channel = c[i].channel /\ e[i].renew = c[i].renew
                        /\ e[i].timer = c[i].timer /\ e[i].left = Aged(c[i].left)
      OBVIOUS
    <2> DEFINE a == Aged(c[i].left)
    <2>1. a \in Nat /\ e[i] = [c[i] EXCEPT !.left = a] /\ c[i] \in Binding
      BY <1>4, <1>7, <1>8, ZenonT(30), SMTT(30)
    <2> HIDE DEF a, e
    <2>2. /\ e[i] \in Binding /\ e[i].peer = c[i].peer
          /\ e[i].channel = c[i].channel /\ e[i].renew = c[i].renew
          /\ e[i].timer = c[i].timer /\ e[i].left = a
      BY <2>1 DEF Binding
    <2> QED BY <2>2, ZenonT(30), SMTT(30) DEF a
  <1>10. e \in Seq(Binding) /\ DOMAIN e = DOMAIN c
    <2>1. DOMAIN e = 1..Len(c) /\ \A i \in 1..Len(c) : e[i] \in Binding
      BY <1>3, <1>9, ZenonT(30)
    <2>2. e = [i \in 1..Len(c) |-> e[i]]
      BY <1>3
    <2> HIDE DEF e
    <2>3. e \in [1..Len(c) -> Binding]
      BY <2>1, <2>2
    <2> QED BY <1>3, <2>1, <2>3
  <1>11. e \o <<>> = e
    BY <1>10
  <1> HIDE DEF e, pt
  <1>12. /\ DOMAIN v = SockFields /\ v.channels = e /\ v.permission_timeout = pt
         /\ v.pending_bindings = sock.pending_bindings /\ v.expired = sock.expired
         /\ v.current_binding = sock.current_binding
         /\ v.current_binding_msg = sock.current_binding_msg
         /\ v.tick_source_channel_bind = sock.tick_source_channel_bind
         /\ v.endless = sock.endless /\ v.stalled = sock.stalled
         /\ v.written = {} /\ v.granted = sock.granted /\ v.unsent = sock.unsent
         /\ v.pending_permissions = sock.pending_permissions
         /\ v.sent_permissions = sock.sent_permissions /\ v.permissions = sock.permissions
         /\ v.tick_source_create_permission = sock.tick_source_create_permission
         /\ v.send_data_queues = sock.send_data_queues /\ v.out = sock.out
    BY <1>1, <1>6, <1>11 DEF SockFields
  <1>13. net' = {} /\ given' = given
    BY DEF Minute
  <1> HIDE DEF v
  <1>14. Listed(e)
    <2>1. \A i \in DOMAIN e : /\ e[i].left <= BindingTimeout + ExpireTimeout
                              /\ e[i].timer = "renew" => e[i].left <= BindingTimeout
      <3>1. \A i \in DOMAIN c : e[i].left <= c[i].left /\ e[i].left \in Nat
        BY <1>4, <1>7, <1>9, ZenonT(30), SMTT(30)
      <3> QED BY <1>3, <1>4, <1>9, <1>10, <3>1, TurnAssumption, SMTT(30), Z3T(30) DEF Listed
    <2>2. \A i, j \in DOMAIN e : e[i].channel = e[j].channel => i = j
      BY <1>3, <1>9, <1>10 DEF Listed
    <2> QED BY <1>10, <2>1, <2>2, ZenonT(30), SMTT(30) DEF Listed
  <1>15. PICK w : w = e
    OBVIOUS
  <1>16. Kept(c) => Kept(w)'
    <2> SUFFICES ASSUME Kept(c) PROVE Kept(w)'
      OBVIOUS
    <2>1. \A i \in DOMAIN c : Backed(c[i]) /\ c[i].left > 0
      BY <1>5 DEF Kept, Backed
    <2>2. ASSUME NEW i \in DOMAIN c PROVE Backed(w[i])'
      <3>1. PICK a : a = w[i]
        OBVIOUS
      <3>2. /\ a \in Binding /\ a.peer = c[i].peer /\ a.channel = c[i].channel
            /\ a.renew = c[i].renew /\ a.timer = c[i].timer /\ a.left = c[i].left - 1
        BY <1>4, <1>7, <1>9, <1>15, <2>1, <3>1, ZenonT(30), SMTT(30)
      <3>3. Backed(a)'
        BY <1>4, <2>1, <3>2, MinuteBacked, ZenonT(30), SMTT(30)
      <3> QED BY <3>1, <3>3
    <2>3. \A i, j \in DOMAIN c : i < j => c[i].peer # c[j].peer
      BY <2>1 DEF Kept, Succeeds
    <2>4. \A i, j \in DOMAIN w : i < j => w[i].peer # w[j].peer
      BY <1>9, <1>10, <1>15, <2>3
    <2> QED BY <1>10, <1>15, <2>2, <2>4 DEF Kept
  <1>17. Channeled(sock)'
    <2>1. sock' = v
      BY DEF v
    <2>2. Listed(w)
      BY <1>14, <1>15
    <2>3. v.expired \/ Kept(w)'
      BY <1>2, <1>12, <1>16, ZenonT(30) DEF Channeled
    <2>4. \A i \in DOMAIN w : w[i].channel = c[i].channel /\ i \in DOMAIN c
      BY <1>9, <1>10, <1>15, ZenonT(30), SMTT(30)
    <2>5. /\ v.channels = w /\ v.pending_bindings \in Seq(Peers)
          /\ v.current_binding # None =>
                /\ v.current_binding \in Target
                /\ \A i \in DOMAIN w : w[i].channel # v.current_binding.channel
          /\ v.current_binding_msg # None => /\ IsRequest(v.current_binding_msg, "ChannelBind")
                                             /\ v.current_binding_msg.channel \in 1..Channels
      BY <1>2, <1>12, <1>15, <2>4, ZenonT(30), SMTT(30) DEF Channeled
    <2> QED
      <3>1. PICK u : u = sock'
        OBVIOUS
      <3>2. Channeled(u)'
        BY <2>1, <2>2, <2>3, <2>5, <3>1 DEF Channeled
      <3> QED BY <3>1, <3>2, ChanneledMoves
  <1>18. Linked(v)
    BY <1>2, <1>9, <1>10, <1>12, ZenonT(30), SMTT(30) DEF Linked
  <1>19. Going(v)
    BY <1>2, <1>12, ZenonT(30), SMTT(30) DEF Going, BindTimed
  <1>20. Asked(v, {}) /\ Ticking(v)
    BY <1>1, <1>12, ZenonT(30), SMTT(30) DEF Whole, Sound, Asked, PendingPeers, Ticking, Timed
  <1>21. Queued(v, given)
    BY <1>1, <1>12 DEF Whole, Sound, Queued
  <1>22. Trusted(sock)'
    <2>1. CASE sock.permission_timeout = None
      <3>1. v.permission_timeout = None /\ v.granted = {}
        BY <1>2, <1>12, <2>1 DEF Trusted, pt
      <3> QED BY <3>1 DEF Trusted, v
    <2>2. CASE sock.permission_timeout # None
      <3>1. PICK n \in 0..PermissionTimeout : sock.permission_timeout = <<n>>
        BY <1>2, <2>2 DEF Trusted
      <3>2. n # 0
        BY <3>1 DEF Minute
      <3>3. n - 1 \in 0..PermissionTimeout /\ v.permission_timeout = <<n - 1>>
        BY <1>12, <2>2, <3>1, <3>2, TurnAssumption, SMTT(30), Z3T(30) DEF pt
      <3>4. server.permission \in [Peers -> Nat] /\ DOMAIN server = {"nonce", "permission", "binding"}
        BY DEF TurnInv, ServerTyped
      <3>5. server'.permission = [p \in Peers |-> Aged(server.permission[p])]
        BY MinuteIs
      <3>6. ASSUME NEW p \in sock.granted
            PROVE  server'.permission[p] >= (n - 1) + ExpireTimeout
        <4>1. p \in Peers
          BY <1>1 DEF Whole, Sound, Asked
        <4>2. server.permission[p] >= n + ExpireTimeout /\ server.permission[p] \in Nat
          BY <1>2, <3>1, <3>4, <4>1, SMTT(30), Z3T(30) DEF Trusted
        <4>3. server'.permission[p] = Aged(server.permission[p])
          BY <3>5, <4>1
        <4> QED BY <3>2, <4>2, <4>3, TurnAssumption, SMTT(30), Z3T(30) DEF Aged
      <3>7. <<n - 1>> # None /\ <<n - 1>>[1] = n - 1
        BY DEF None
      <3> QED BY <1>12, <3>3, <3>6, <3>7 DEF Trusted, v
    <2> QED BY <2>1, <2>2
  <1>23. Requests(v) = Requests(sock)
    BY <1>12, ZenonT(30), SMTT(30) DEF Requests
  <1>24. Tracked(sock)'
    <2>1. \A r, q \in Requests(v) : r.id = q.id => r = q
      BY <1>2, <1>23, ZenonT(30), SMTT(30) DEF Tracked
    <2>2. v.written = {} /\ net' \cup v.written = {} /\ IsFiniteSet(v.written)
      BY <1>12, <1>13, FS_EmptySet, ZenonT(30), SMTT(30)
    <2> QED BY <2>1, <2>2, ZenonT(30), SMTT(30) DEF Tracked, Requests, v
  <1>25. Asked(sock, {})' /\ Queued(sock, given)' /\ Linked(sock)' /\ Going(sock)' /\ Ticking(sock)'
    <2>1. Asked(sock, {})'
      BY <1>20, ZenonT(30), SMTT(30) DEF Asked, PendingPeers, v
    <2>2. Queued(sock, given)'
      BY <1>13, <1>21, ZenonT(30), SMTT(30) DEF Queued, v
    <2>3. Linked(sock)'
      BY <1>18, ZenonT(30), SMTT(30) DEF Linked, v
    <2>4. Going(sock)'
      BY <1>19, ZenonT(30), SMTT(30) DEF Going, BindTimed, v
    <2>5. Ticking(sock)'
      BY <1>20, ZenonT(30), SMTT(30) DEF Ticking, Timed, v
    <2> QED BY <2>1, <2>2, <2>3, <2>4, <2>5
  <1>26. Sound(sock, {})'
    BY <1>12, <1>17, <1>22, <1>24, <1>25, ZenonT(30), SMTT(30) DEF Sound, v
  <1>27. ServerTyped' /\ OneChannel'
    BY MinuteServer
  <1>28. given' \in [Peers -> Nat] /\ IsFiniteSet(net')
    BY <1>13, FS_EmptySet, ZenonT(30), SMTT(30) DEF TurnInv
  <1> QED BY <1>12, <1>13, <1>25, <1>26, <1>27, <1>28, ZenonT(30), SMTT(30) DEF TurnInv, v
-----------------------------------------------------------------------------
(* The theorems.                                                           *)

\* nice_udp_turn_socket_new: a new socket has nothing and waits for nothing.
LEMMA InitInv ==
    ASSUME Init
    PROVE  TurnInv
  <1>1. /\ sock.channels = <<>> /\ sock.pending_bindings = <<>> /\ sock.current_binding = None
        /\ sock.current_binding_msg = None /\ sock.pending_permissions = {}
        /\ sock.permissions = {} /\ sock.sent_permissions = {} /\ sock.granted = {}
        /\ sock.send_data_queues = [p \in Peers |-> <<>>] /\ sock.out = [p \in Peers |-> 0]
        /\ sock.permission_timeout = None /\ sock.written = {} /\ ~sock.endless
        /\ sock.unsent = {}
    BY DEF Init
  <1>2. DOMAIN sock = SockFields
    BY DEF Init, SockFields
  <1>3. net = {} /\ given = [p \in Peers |-> 0]
        /\ server = [nonce |-> 0, permission |-> [p \in Peers |-> 0],
                     binding |-> [n \in 1..Channels |-> None]]
    BY DEF Init
  <1>4. Requests(sock) = {} /\ PendingPeers(sock) = {}
    BY <1>1 DEF Requests, PendingPeers
  <1>5. ServerTyped /\ OneChannel
    BY <1>3, ZenonT(30), SMTT(30) DEF ServerTyped, OneChannel
  <1>6. Asked(sock, {}) /\ Ticking(sock)
    BY <1>1, <1>4, FS_EmptySet DEF Asked, Ticking
  <1>7. Queued(sock, given)
    <2> DEFINE q == sock.send_data_queues
    <2>1. q \in [Peers -> Seq(Nat)] /\ sock.out \in [Peers -> Nat]
      BY <1>1
    <2>2. \A p \in Peers : q[p] = <<>> /\ given[p] = 0 /\ sock.out[p] = 0
      BY <1>1, <1>3
    <2>3. \A p \in Peers : Len(q[p]) = 0
      BY <2>2
    <2>4. 1..0 = {}
      OBVIOUS
    <2> HIDE DEF q
    <2>5. ASSUME NEW p \in Peers
          PROVE  /\ q[p] # <<>> => p \in sock.sent_permissions
                 /\ Len(q[p]) = given[p] - sock.out[p]
                 /\ \A i \in 1..Len(q[p]) : q[p][i] = sock.out[p] + i
      BY <2>2, <2>3, <2>4
    <2> QED BY <2>1, <2>5, ZenonT(30) DEF Queued, q
  <1>8. Channeled(sock)
    <2>1. Listed(sock.channels) /\ Kept(sock.channels)
      BY <1>1 DEF Listed, Kept
    <2> QED BY <1>1, <2>1 DEF Channeled
  <1>9. Tracked(sock)
    BY <1>1, <1>4, FS_EmptySet DEF Tracked
  <1>10. Trusted(sock)
    BY <1>1 DEF Trusted
  <1>11. Linked(sock) /\ Going(sock)
    BY <1>1 DEF Linked, Going
  <1>12. given \in [Peers -> Nat] /\ IsFiniteSet(net) /\ \A m \in net : IsWire(m)
    BY <1>3, FS_EmptySet
  <1>13. Sound(sock, {})
    BY <1>1, <1>2, <1>5, <1>6, <1>7, <1>8, <1>9, <1>10, ZenonT(30), SMTT(30) DEF Sound
  <1> QED BY <1>1, <1>2, <1>5, <1>6, <1>11, <1>12, <1>13, ZenonT(30), SMTT(30) DEF TurnInv

\* Every handler of the socket, the server, the network and the clock keep the
\* invariant.
LEMMA NextInv ==
    ASSUME TurnInv, [Next]_vars
    PROVE  TurnInv'
  <1>1. ASSUME NEW p \in Peers, SetPeer(p) PROVE TurnInv'
    BY <1>1, SetPeerInv
  <1>2. ASSUME NEW p \in Peers, SendMessage(p) PROVE TurnInv'
    BY <1>2, SendMessageInv
  <1>3. ASSUME NEW p \in Peers, RecvData(p) PROVE TurnInv'
    BY <1>3, RecvDataInv
  <1>4. ASSUME NEW m \in net, ParseRecv(m) PROVE TurnInv'
    BY <1>4, ParseRecvInv
  <1>5. ASSUME NEW m \in net, Serve(m) PROVE TurnInv'
    BY <1>5, ServeInv
  <1>6. ASSUME NEW m \in net, Lose(m) PROVE TurnInv'
    BY <1>6, LoseInv
  <1>7. CASE RetransmissionsTick
    BY <1>7, RetransmissionsTickInv
  <1>8. CASE CreatePermissionTick
    BY <1>8, CreatePermissionTickInv
  <1>9. CASE ClearPermissions
    BY <1>9, ClearPermissionsInv
  <1>10. ASSUME NEW i \in DOMAIN sock.channels, RenewBinding(i) PROVE TurnInv'
    BY <1>10, RenewBindingInv
  <1>11. ASSUME NEW i \in DOMAIN sock.channels, BindingExpired(i) PROVE TurnInv'
    BY <1>11, BindingExpiredInv, ZenonT(30), SMTT(30)
  <1>12. CASE NewNonce
    BY <1>12, NewNonceInv
  <1>13. CASE Minute
    BY <1>13, MinuteInv
  <1>14. CASE UNCHANGED vars
    <2>1. UNCHANGED <<sock, server, net, given>>
      BY <1>14 DEF vars
    <2>2. Whole(sock) /\ Ticking(sock) /\ sock.written = {}
      BY InvIsWhole DEF TurnInv
    <2> QED BY <2>1, <2>2, QuietInv
  <1> QED
    BY <1>1, <1>2, <1>3, <1>4, <1>5, <1>6, <1>7, <1>8, <1>9, <1>10, <1>11, <1>12, <1>13, <1>14,
       SMTT(30), Z3T(30)
    DEF Next

\* The invariant holds in every state of every behaviour.
THEOREM TurnInvariant == Spec => []TurnInv
  <1>1. Init => TurnInv
    BY InitInv
  <1>2. TurnInv /\ [Next]_vars => TurnInv'
    BY NextInv
  <1> QED BY <1>1, <1>2, PTL DEF Spec

\* Whatever is sent to a peer leaves in the order it was given to the socket,
\* nothing twice and nothing left out (socket_send_message, socket_enqueue_data,
\* socket_dequeue_all_data).
THEOREM DataLeavesInOrder == Spec => []DataInOrder
  <1>1. TurnInv => DataInOrder
    <2> SUFFICES ASSUME TurnInv, NEW p \in Peers
                 PROVE  LET waiting == sock.send_data_queues[p] IN
                            /\ Len(waiting) = given[p] - sock.out[p]
                            /\ \A i \in DOMAIN waiting : waiting[i] = sock.out[p] + i
      BY ZenonT(30), SMTT(30) DEF DataInOrder
    <2> DEFINE q == sock.send_data_queues[p]
    <2>1. q \in Seq(Nat) /\ Len(q) = given[p] - sock.out[p]
          /\ \A i \in 1..Len(q) : q[i] = sock.out[p] + i
      BY DEF TurnInv, Sound, Queued
    <2>2. DOMAIN q = 1..Len(q)
      BY <2>1, SMTT(30), Z3T(30)
    <2> QED BY <2>1, <2>2
  <1> QED BY <1>1, TurnInvariant, PTL

\* Data waits only for a permission that is asked for and timed, no peer is
\* asked for twice, and bindings that wait are behind one that has a request
\* (priv_send_create_permission, priv_process_pending_bindings).
THEOREM WhatWaitsIsAskedFor == Spec => []RequestsAgree
  <1>1. TurnInv => TypeOK
    <2> SUFFICES ASSUME TurnInv PROVE TypeOK
      OBVIOUS
    <2>1. Asked(sock, {}) /\ Queued(sock, given) /\ Channeled(sock)
      BY ZenonT(30), SMTT(30) DEF TurnInv, Sound
    <2> DEFINE c == sock.channels
    <2>2. c \in Seq(Binding) /\ Listed(c)
      BY <2>1 DEF Channeled, Listed
    <2>3. ASSUME NEW b \in Elements(c)
          PROVE  /\ b.peer \in Peers /\ b.channel \in 1..Channels /\ b.renew \in BOOLEAN
                 /\ b.timer \in {"renew", "expire", "off"}
                 /\ b.left \in 0..BindingTimeout + ExpireTimeout
      <3>1. PICK i \in DOMAIN c : b = c[i]
        BY <2>3 DEF Elements
      <3>2. b \in Binding
        BY <2>2, <3>1
      <3>3. b.left <= BindingTimeout + ExpireTimeout
        BY <2>2, <3>1 DEF Listed
      <3>4. b.left \in Nat
        BY <3>2 DEF Binding
      <3>5. b.left \in 0..BindingTimeout + ExpireTimeout
        BY <3>3, <3>4, TurnAssumption, SMTT(30), Z3T(30)
      <3> QED BY <3>2, <3>5 DEF Binding, Timers
    <2>4. Elements(sock.pending_bindings) \subseteq Peers
      BY <2>1 DEF Channeled, Elements
    <2>5. /\ sock.granted \subseteq sock.permissions /\ sock.permissions \subseteq Peers
          /\ sock.sent_permissions \subseteq Peers
      BY <2>1, ZenonT(30), SMTT(30) DEF Asked, PendingPeers, IsRequest
    <2>6. \A m \in Requests(sock) : m.peer \in Peers /\ m.left \in 0..Transmissions - 1
      BY <2>1 DEF Requests, Asked, Channeled, IsRequest
    <2>7. \A p \in Peers : sock.out[p] \in 0..given[p]
      <3> TAKE p \in Peers
      <3>1. sock.send_data_queues[p] \in Seq(Nat) /\ sock.out[p] \in Nat
        BY <2>1 DEF Queued
      <3>2. Len(sock.send_data_queues[p]) = given[p] - sock.out[p]
        BY <2>1 DEF Queued
      <3>3. Len(sock.send_data_queues[p]) \in Nat /\ given[p] \in Nat
        BY <3>1 DEF TurnInv
      <3> QED BY <3>1, <3>2, <3>3
    <2> QED BY <2>3, <2>4, <2>5, <2>6, <2>7 DEF TypeOK
  <1>2. TurnInv => QueuedIsAwaited /\ OnePermissionRequest
    <2> SUFFICES ASSUME TurnInv PROVE QueuedIsAwaited /\ OnePermissionRequest
      OBVIOUS
    <2>1. Asked(sock, {}) /\ Queued(sock, given) /\ Ticking(sock)
      BY DEF TurnInv, Sound
    <2>2. OnePermissionRequest
      BY <2>1 DEF Asked, OnePermissionRequest, PendingPeers
    <2>3. ASSUME NEW p \in Peers \ sock.unsent, sock.send_data_queues[p] # <<>>
          PROVE  (\E m \in sock.pending_permissions : m.peer = p)
                 /\ sock.tick_source_create_permission
      <3>1. p \in PendingPeers(sock)
        BY <2>1, <2>3 DEF Queued, Asked
      <3>2. PICK m \in sock.pending_permissions : m.peer = p
        BY <3>1 DEF PendingPeers
      <3>3. sock.tick_source_create_permission
        BY <2>1, <3>2 DEF Ticking, Timed
      <3> QED BY <3>2, <3>3, ZenonT(30), SMTT(30)
    <2> QED BY <2>2, <2>3 DEF QueuedIsAwaited
  <1>3. TurnInv => PendingGetProcessed
    BY DEF TurnInv, Going, BindTimed, PendingGetProcessed
  <1>4. TurnInv => RequestsAgree
    BY <1>1, <1>2, <1>3, ZenonT(30), SMTT(30) DEF RequestsAgree
  <1> QED BY <1>4, TurnInvariant, PTL

\* The server still grants what the socket takes for granted, and knows every
\* channel of a list none of which was left to expire (priv_permission_timeout,
\* priv_binding_timeout).
THEOREM ServerHoldsWhatIsUsed == Spec => []ServerAgrees
  <1>1. TurnInv => ServerAgrees
    <2> SUFFICES ASSUME TurnInv PROVE ServerAgrees
      OBVIOUS
    <2>1. Channeled(sock) /\ Trusted(sock) /\ Asked(sock, {})
      BY DEF TurnInv, Sound
    <2>2. server.permission \in [Peers -> Nat]
      BY DEF TurnInv, ServerTyped
    <2>3. ASSUME NEW p \in sock.granted PROVE server.permission[p] > 0
      <3>1. p \in Peers
        BY <2>1 DEF Asked
      <3>2. PICK n \in 0..PermissionTimeout : sock.permission_timeout = <<n>>
        BY <2>1 DEF Trusted
      <3>3. server.permission[p] >= n + ExpireTimeout
        BY <2>1, <3>2 DEF Trusted
      <3> QED BY <2>2, <3>1, <3>3, TurnAssumption, SMTT(30), Z3T(30)
    <2>4. ASSUME ~sock.expired, NEW b \in Elements(sock.channels)
          PROVE  \/ b.timer = "expire" /\ b.left = 0
                 \/ server.binding[b.channel] # None /\ server.binding[b.channel].peer = b.peer
      <3>1. PICK i \in DOMAIN sock.channels : b = sock.channels[i]
        BY <2>4, ZenonT(30), SMTT(30) DEF Elements
      <3>2. Backed(b)
        BY <2>1, <2>4, <3>1 DEF Channeled, Kept
      <3> QED BY <3>2 DEF Backed, Holds
    <2> QED BY <2>3, <2>4, ZenonT(30), SMTT(30) DEF ServerAgrees
  <1> QED BY <1>1, TurnInvariant, PTL
=============================================================================
