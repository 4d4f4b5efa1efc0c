------------------------------ MODULE UdpTurn ------------------------------
(***************************************************************************)
(* The TURN client socket (libnice/socket/udp-turn.c) in RFC 5766 mode:    *)
(* permissions, channel bindings, the data that waits for a permission,    *)
(* and the timers that repeat requests and renew what the server forgets.  *)
(*                                                                         *)
(* `sock` is UdpTurnPriv; the C functions are operators from the record to *)
(* the record they leave.  The mutex makes every callback one step.  The   *)
(* TURN server and the network, which loses and reorders, are external.    *)
(* The retransmission timers run out within seconds, everything else lasts *)
(* minutes: `due` names the requests whose timer has run out by the time a *)
(* step looks at it, and Minute is a step of the slow clock.               *)
(***************************************************************************)
EXTENDS Integers, Sequences, FiniteSets

CONSTANTS
    Peers,              \* addresses of the peers
    Transmissions,      \* STUN_TIMER_DEFAULT_MAX_RETRANSMISSIONS
    Channels,           \* how many channel numbers there are from 0x4000 on
    PermissionTimeout,  \* STUN_PERMISSION_TIMEOUT, ...
    BindingTimeout,     \* ... STUN_BINDING_TIMEOUT
    ExpireTimeout,      \* ... and STUN_EXPIRE_TIMEOUT, in minutes
    PermissionLife,     \* how long the server keeps a permission
    BindingLife,        \* ... and a channel binding
    Scenarios           \* what may happen, see ScenarioOK

ASSUME TurnAssumption ==
    /\ IsFiniteSet(Peers) /\ Transmissions \in Nat \ {0} /\ Channels \in Nat \ {0}
    /\ ExpireTimeout \in Nat \ {0} /\ PermissionTimeout \in Nat \ {0}
    /\ BindingTimeout \in Nat \ {0} /\ PermissionLife \in Nat /\ BindingLife \in Nat
    /\ PermissionTimeout + ExpireTimeout <= PermissionLife
    /\ BindingTimeout + ExpireTimeout <= BindingLife

\* A scenario bounds the messages the user sends to each peer, the calls of
\* set_peer and the faults (losses, refusals, new nonces, failing writes), and
\* says which peers send data and whether a write to the base socket may fail.
ScenarioOK(sc) ==
    /\ sc.data \in [Peers -> Nat] /\ sc.binds \in Nat /\ sc.faults \in Nat
    /\ sc.talkers \subseteq Peers /\ sc.fails \in BOOLEAN

ASSUME ScenariosAssumption == \A sc \in Scenarios : ScenarioOK(sc)

\* Besides the fields of the code `sock` has `out`, the last message written to
\* each peer, `written`, the requests of the present step, and notes on what has
\* happened: `granted` (permissions the server confirmed), `unsent` (peers whose
\* request could not be written), `stalled` (the request under way has lost its
\* timer), `expired` (a binding was left to expire) and `endless` (a loop that
\* would not end).
VARIABLES sock,     \* UdpTurnPriv
          server,   \* what the TURN server holds
          net,      \* requests and responses under way
          given,    \* number of messages the user has sent to each peer
          binds,    \* number of calls of set_peer
          faults,   \* faults so far
          scenario  \* the scenario of this behaviour

vars == <<sock, server, net, given, binds, faults, scenario>>

None == <<>>

\* Of a list: its elements, its last one, and the first of some places in it, 0
\* for no place.
Elements(s) == {s[i] : i \in DOMAIN s}
Last(s) == s[Len(s)]
First(I) == IF I = {} THEN 0 ELSE CHOOSE i \in I : \A j \in I : i <= j

-----------------------------------------------------------------------------
(* Requests and the messages that carry them.                              *)

Requests(s) == s.pending_permissions
               \cup IF s.current_binding_msg = None THEN {} ELSE {s.current_binding_msg}

\* A transaction id differs from every id that is still around.
FreshId(s) ==
    LET used == {m.id : m \in net \cup s.written \cup Requests(s) \cup Requests(sock)}
    IN  CHOOSE i \in 0..Cardinality(used) : i \notin used /\ 0..i - 1 \subseteq used

\* A request, with its retransmission timer just started.
TurnMessage(s, method, peer, channel) ==
    [id |-> FreshId(s), method |-> method, peer |-> peer, channel |-> channel,
     nonce |-> s.cached_nonce, left |-> Transmissions - 1]

\* _socket_send_wrapped to the server.
OnWire(m) == [id |-> m.id, to |-> "server", method |-> m.method, peer |-> m.peer,
              channel |-> m.channel, nonce |-> m.nonce]
Write(s, ms) == [s EXCEPT !.written = @ \cup {OnWire(m) : m \in ms}]

-----------------------------------------------------------------------------
(* Permissions and the data that waits for them.                           *)

\* Mutant of DequeueAllData: only the first message of a queue is written.
DequeueAllDataFirst(s, ps) ==
    [s EXCEPT !.send_data_queues = [p \in Peers |-> IF p \in ps THEN <<>> ELSE @[p]],
              !.out = [p \in Peers |-> IF p \in ps /\ s.send_data_queues[p] # <<>>
                                       THEN Head(s.send_data_queues[p]) ELSE @[p]]]

\* socket_dequeue_all_data, for the peers of a set.
DequeueAllData(s, ps) ==
    [s EXCEPT !.send_data_queues = [p \in Peers |-> IF p \in ps THEN <<>> ELSE @[p]],
              !.out = [p \in Peers |-> IF p \in ps /\ s.send_data_queues[p] # <<>>
                                       THEN Last(s.send_data_queues[p]) ELSE @[p]]]

\* Mutant of SchedulePermissions: the data of a given up request stays queued.
SchedulePermissionsHoldsData(s, due) ==
    LET ready == {m \in s.pending_permissions : m.id \in due}
        again == {m \in ready : m.left > 0}
        over == {m.peer : m \in ready \ again}
        rest == (s.pending_permissions \ ready) \cup {[m EXCEPT !.left = @ - 1] : m \in again}
    IN  Write([s EXCEPT !.pending_permissions = rest, !.sent_permissions = @ \ over,
                        !.permissions = @ \cup over,
                        !.tick_source_create_permission = rest # {}], again)

\* The second half of priv_schedule_tick: the requests in `due` are repeated or
\* given up, in which case the permission is taken to exist.
SchedulePermissions(s, due) ==
    LET ready == {m \in s.pending_permissions : m.id \in due}
        again == {m \in ready : m.left > 0}
        over == {m.peer : m \in ready \ again}
        rest == (s.pending_permissions \ ready) \cup {[m EXCEPT !.left = @ - 1] : m \in again}
    IN  DequeueAllData(Write([s EXCEPT !.pending_permissions = rest,
                                       !.sent_permissions = @ \ over,
                                       !.permissions = @ \cup over,
                                       !.tick_source_create_permission = rest # {}],
                             again), over)

-----------------------------------------------------------------------------
(* Channel bindings.                                                       *)

\* priv_send_channel_bind and priv_send_turn_message: the request replaces the
\* one under way, whose answer will not be recognised any more.
SendChannelBind(s, channel, peer, due) ==
    LET m == TurnMessage(s, "ChannelBind", peer, channel)
    IN  SchedulePermissions(Write([s EXCEPT !.current_binding_msg = m,
                                            !.tick_source_channel_bind = TRUE], {m}), due)

\* The first channel number that no binding has.
FreeChannels(s) == (1..Channels) \ {b.channel : b \in Elements(s.channels)}
FirstFree(s) == CHOOSE n \in FreeChannels(s) : \A k \in FreeChannels(s) : n <= k

\* priv_add_channel_binding
AddChannelBinding(s, peer, due) ==
    IF s.current_binding # None
    THEN [s EXCEPT !.pending_bindings = Append(@, peer)]
    ELSE IF FreeChannels(s) = {} THEN s
    ELSE [SendChannelBind(s, FirstFree(s), peer, due)
            EXCEPT !.current_binding = [peer |-> peer, channel |-> FirstFree(s)]]

\* Where to look for a binding to renew: the first one that is marked.
Renewable(s) == First({i \in DOMAIN s.channels : s.channels[i].renew})

\* priv_process_pending_bindings: peers are taken from the list until a binding
\* is under way; when nothing is, a binding that is about to expire is renewed.
\* With a current binding the loop would put back what it takes, for ever.
ProcessPendingBindings(s, due) ==
    LET s1 == IF s.pending_bindings = <<>> THEN s
              ELSE IF FreeChannels(s) = {} THEN [s EXCEPT !.pending_bindings = <<>>]
              ELSE AddChannelBinding([s EXCEPT !.pending_bindings = Tail(@)],
                                     Head(s.pending_bindings), due)
        s2 == IF s.current_binding # None /\ s.pending_bindings # <<>>
              THEN [s1 EXCEPT !.endless = TRUE] ELSE s1
        i == Renewable(s2)
    IN  IF s2.pending_bindings = <<>> /\ s2.current_binding_msg = None /\ i # 0
        THEN SendChannelBind(s2, s2.channels[i].channel, s2.channels[i].peer, due)
        ELSE s2

\* priv_retransmissions_tick_unlocked, when the request's timer has run out and
\* no retransmission is left ...
BindingTimesOut(s, due) ==
    ProcessPendingBindings([s EXCEPT !.current_binding = None, !.current_binding_msg = None], due)

\* ... and when one is.
RepeatBinding(s) ==
    Write([s EXCEPT !.current_binding_msg.left = @ - 1, !.tick_source_channel_bind = TRUE],
          {s.current_binding_msg})

\* The first half of priv_schedule_tick.
ScheduleBinding(s, due) ==
    LET m == s.current_binding_msg
        s1 == [s EXCEPT !.tick_source_channel_bind = FALSE]
    IN  IF m = None THEN s1
        ELSE IF m.id \notin due THEN [s EXCEPT !.tick_source_channel_bind = TRUE]
        ELSE IF m.left > 0 THEN RepeatBinding(s1) ELSE BindingTimesOut(s1, {})

ScheduleTick(s, due) == SchedulePermissions(ScheduleBinding(s, due), due)

\* priv_send_create_permission; `res` is what writing to the base socket returns.
SendCreatePermission(s, peer, res, due) ==
    LET m == TurnMessage(s, "CreatePermission", peer, 0)
        s1 == [s EXCEPT !.sent_permissions = @ \cup {peer}]
    IN  IF res = "error" THEN [s1 EXCEPT !.unsent = @ \cup {peer}]
        ELSE ScheduleTick(Write([s1 EXCEPT !.pending_permissions = @ \cup {m}],
                                IF res = "ok" THEN {m} ELSE {}), due)

-----------------------------------------------------------------------------
(* The steps of the program.                                               *)

Init ==
    /\ sock = [channels |-> <<>>, pending_bindings |-> <<>>, current_binding |-> None,
               current_binding_msg |-> None, pending_permissions |-> {},
               tick_source_channel_bind |-> FALSE, tick_source_create_permission |-> FALSE,
               permissions |-> {}, sent_permissions |-> {}, granted |-> {},
               send_data_queues |-> [p \in Peers |-> <<>>], out |-> [p \in Peers |-> 0],
               permission_timeout |-> None, cached_nonce |-> 0,
               written |-> {}, endless |-> FALSE, stalled |-> FALSE, expired |-> FALSE,
               unsent |-> {}]
    /\ server = [nonce |-> 0, permission |-> [p \in Peers |-> 0],
                 binding |-> [n \in 1..Channels |-> None]]
    /\ net = {} /\ given = [p \in Peers |-> 0] /\ binds = 0 /\ faults = 0
    /\ scenario \in Scenarios

\* The socket becomes `s`; what it has written is under way, `taken` is not.
Become(s, taken) ==
    /\ sock' = [s EXCEPT !.written = {},
                         !.stalled = @ /\ s.current_binding_msg = sock.current_binding_msg]
    /\ net' = (net \ taken) \cup s.written

\* The requests whose timers may have run out: those of which nothing is under
\* way any more, and as a fault also one whose messages are late.
Late(due) == \E m \in net : m.id \in due
Due == {due \in SUBSET {m.id : m \in Requests(sock)} : Late(due) => faults < scenario.faults}

\* The results of writing a request to the base socket; not "ok" is a fault.
Results == {"ok"} \cup IF scenario.fails /\ faults < scenario.faults THEN {"error", "blocked"} ELSE {}

Charge(due, res) ==
    faults' = faults + (IF Late(due) THEN 1 ELSE 0) + (IF res = "ok" THEN 0 ELSE 1)

\* nice_udp_turn_socket_set_peer
SetPeer(p) ==
    /\ binds < scenario.binds
    /\ \E due \in Due : Become(AddChannelBinding(sock, p, due), {}) /\ Charge(due, "ok")
    /\ binds' = binds + 1
    /\ UNCHANGED <<server, given, scenario>>

\* socket_send_message: without a permission the message waits for one.  The
\* user has sent it unless the result is an error.
SendMessage(p) ==
    /\ given[p] < scenario.data[p]
    /\ LET n == given[p] + 1
           queued(s) == [s EXCEPT !.send_data_queues[p] = Append(@, n)]
           sent == [given EXCEPT ![p] = n]
       IN  \/ /\ p \in sock.permissions
              /\ Become([sock EXCEPT !.out[p] = n], {})
              /\ given' = sent /\ UNCHANGED faults
           \/ /\ p \notin sock.permissions /\ p \in sock.sent_permissions
              /\ Become(queued(sock), {})
              /\ given' = sent /\ UNCHANGED faults
           \/ /\ p \notin sock.permissions \cup sock.sent_permissions
              /\ \E res \in Results, due \in Due :
                    LET s == SendCreatePermission(sock, p, res, due)
                    IN  /\ Become(IF res = "ok" THEN queued(s) ELSE s, {})
                        /\ given' = IF res = "ok" THEN sent ELSE given
                        /\ Charge(due, res)
    /\ UNCHANGED <<server, binds, scenario>>

\* The binding that is renewed: the first one with the request's peer.
Renewed ==
    First({i \in DOMAIN sock.channels :
             sock.channels[i].peer = sock.current_binding_msg.peer})

\* The list of channels after the server has confirmed a ChannelBind.
Bound ==
    LET timed(p, n) == [peer |-> p, channel |-> n, renew |-> FALSE, timer |-> "renew",
                        left |-> BindingTimeout]
    IN  IF sock.current_binding # None
        THEN Append(sock.channels, timed(sock.current_binding.peer, sock.current_binding.channel))
        ELSE [sock.channels EXCEPT ![Renewed] = timed(@.peer, @.channel)]

\* Mutant of Concluded: an error counts as a binding.
ConcludedAnyway(m, s, due) ==
    ProcessPendingBindings([s EXCEPT !.current_binding = None,
                                     !.channels = Bound], due)

\* The request under way has its final answer.
Concluded(m, s, due) ==
    ProcessPendingBindings([s EXCEPT !.current_binding = None,
                                     !.channels = IF m.class = "ok" THEN Bound ELSE @], due)

\* Mutant of Challenged: the new nonce is not kept.
ChallengedInVain(m, s) == s

\* nice_udp_turn_socket_cache_realm_nonce_locked
Challenged(m, s) == [s EXCEPT !.cached_nonce = m.nonce]

\* nice_udp_turn_socket_parse_recv: the answer to the ChannelBind under way.
RecvChannelBind(m) ==
    LET s == [sock EXCEPT !.current_binding_msg = None]
        b == IF sock.current_binding # None THEN sock.current_binding ELSE sock.channels[Renewed]
    IN  \E due \in Due :
        /\ Charge(due, "ok")
        /\ Become(IF m.class = "auth"
                  THEN SendChannelBind(Challenged(m, s), b.channel, b.peer, due)
                  ELSE Concluded(m, s, due), {m})

\* ... and the answer to a CreatePermission: an error counts as a permission.
RecvCreatePermission(m, req) ==
    LET s1 == [sock EXCEPT !.pending_permissions = @ \ {req}]
        installed == [s1 EXCEPT
            !.sent_permissions = @ \ {req.peer},
            !.permissions = @ \cup {req.peer},
            !.granted = IF m.class = "ok" THEN @ \cup {req.peer} ELSE @,
            !.permission_timeout = IF m.class = "ok" /\ @ = None THEN <<PermissionTimeout>> ELSE @]
    IN  IF m.class = "auth"
        THEN \E res \in Results, due \in Due :
                /\ Become(SendCreatePermission(Challenged(m, s1), req.peer, res, due), {m})
                /\ Charge(due, res)
        ELSE Become(DequeueAllData(installed, {req.peer}), {m}) /\ UNCHANGED faults

\* The recv label: a response the socket's agent has no request for is none of
\* its own.  It is handed to the caller as data from the server's address; the
\* socket and its requests stay as they are.
HandUp(m) == Become(sock, {m}) /\ UNCHANGED faults

\* The requests a response may belong to are those that are still under way.
ParseRecv(m) ==
    /\ m \in net /\ m.to = "client"
    /\ LET req == {r \in Requests(sock) : r.id = m.id /\ r.method = m.method}
       IN  \/ req = {} /\ HandUp(m)
           \/ /\ req # {} /\ m.method = "ChannelBind"
              /\ RecvChannelBind(m)
           \/ /\ req # {} /\ m.method = "CreatePermission"
              /\ \E r \in req : RecvCreatePermission(m, r)
    /\ UNCHANGED <<server, given, binds, scenario>>

\* ... or data of a peer: a permission that has run out is asked for again.
RecvData(p) ==
    /\ p \in scenario.talkers /\ server.permission[p] > 0
    /\ p \notin sock.permissions \cup sock.sent_permissions
    /\ \E res \in Results, due \in Due :
          Become(SendCreatePermission(sock, p, res, due), {}) /\ Charge(due, res)
    /\ UNCHANGED <<server, given, binds, scenario>>

\* priv_retransmissions_tick: when the tick did not repeat the request it
\* destroys the source, also one that was installed for a new request.
RetransmissionsTick ==
    /\ sock.tick_source_channel_bind
    /\ \E due \in Due :
          LET m == sock.current_binding_msg
              s == BindingTimesOut(sock, due)
          IN  /\ m # None => m.id \in due
              /\ Charge(due, "ok")
              /\ IF m = None THEN Become([sock EXCEPT !.tick_source_channel_bind = FALSE], {})
                 ELSE IF m.left > 0 THEN Become(SchedulePermissions(RepeatBinding(sock), due), {})
                 ELSE /\ sock' = [s EXCEPT !.written = {}, !.tick_source_channel_bind = FALSE,
                                           !.stalled = s.current_binding_msg # None]
                      /\ net' = net \cup s.written
    /\ UNCHANGED <<server, given, binds, scenario>>

\* priv_retransmissions_create_permission_tick: the timer that is first has run out.
CreatePermissionTick ==
    /\ sock.tick_source_create_permission
    /\ \E due \in Due :
          /\ sock.pending_permissions = {} \/ \E m \in sock.pending_permissions : m.id \in due
          /\ Become(ScheduleTick(sock, due), {}) /\ Charge(due, "ok")
    /\ UNCHANGED <<server, given, binds, scenario>>

\* priv_permission_timeout: all permissions are forgotten, and the timer goes on.
ClearPermissions ==
    /\ sock.permission_timeout = <<0>>
    /\ sock' = [sock EXCEPT !.permissions = {}, !.granted = {},
                            !.permission_timeout = <<PermissionTimeout>>]
    /\ UNCHANGED <<server, net, given, binds, faults, scenario>>

\* priv_binding_timeout
RenewBinding(i) ==
    LET b == sock.channels[i]
        s == [sock EXCEPT !.channels[i].renew = TRUE, !.channels[i].timer = "expire",
                          !.channels[i].left = ExpireTimeout]
    IN  /\ b.timer = "renew" /\ b.left = 0
        /\ \E due \in Due :
              /\ Become(IF sock.current_binding_msg # None THEN s
                        ELSE SendChannelBind(s, b.channel, b.peer, due), {})
              /\ Charge(due, "ok")
        /\ UNCHANGED <<server, given, binds, scenario>>

\* priv_binding_expired_timeout: the source it looks for is never set, so no
\* binding is found, and the list stays as it is.
BindingExpired(i) ==
    /\ sock.channels[i].timer = "expire" /\ sock.channels[i].left = 0
    /\ sock' = [sock EXCEPT !.channels[i].timer = "off", !.expired = TRUE]
    /\ UNCHANGED <<server, net, given, binds, faults, scenario>>

-----------------------------------------------------------------------------
(* The server, the network and the clock.                                  *)

\* A channel and a peer are bound to each other or not at all.
Bindable(p, n) ==
    /\ n \in 1..Channels
    /\ \A k \in 1..Channels : server.binding[k] # None
                                => (k = n <=> server.binding[k].peer = p)

Grant(m) ==
    LET permitted == [server EXCEPT !.permission[m.peer] = PermissionLife]
    IN  IF m.method = "CreatePermission" THEN permitted
        ELSE [permitted EXCEPT !.binding[m.channel] = [peer |-> m.peer, left |-> BindingLife]]

\* A request is answered according to the nonce it carries; the server may refuse.
Serve(m) ==
    /\ m \in net /\ m.to = "server"
    /\ \E class \in {"ok", "auth", "error"} :
          /\ (class = "auth") <=> (m.nonce # server.nonce)
          /\ IF m.method = "ChannelBind" /\ ~Bindable(m.peer, m.channel)
             THEN class # "ok" /\ UNCHANGED faults
             ELSE /\ class = "error" => faults < scenario.faults
                  /\ faults' = IF class = "error" THEN faults + 1 ELSE faults
          /\ server' = IF class = "ok" THEN Grant(m) ELSE server
          /\ net' = (net \ {m}) \cup {[id |-> m.id, to |-> "client", method |-> m.method,
                                       class |-> class, nonce |-> server.nonce]}
    /\ UNCHANGED <<sock, given, binds, scenario>>

Lose(m) ==
    /\ faults < scenario.faults
    /\ net' = net \ {m} /\ faults' = faults + 1
    /\ UNCHANGED <<sock, server, given, binds, scenario>>

\* The server takes a new nonce; the old one is stale.
NewNonce ==
    /\ faults < scenario.faults
    /\ server' = [server EXCEPT !.nonce = @ + 1] /\ faults' = faults + 1
    /\ UNCHANGED <<sock, net, given, binds, scenario>>

\* What is left of a timer, of a channel's, and of a binding of the server after
\* another minute.
Aged(n) == IF n > 0 THEN n - 1 ELSE 0
AgedChannel(b) == [b EXCEPT !.left = Aged(b.left)]
AgedBinding(o) == IF o = None \/ o.left <= 1 THEN None ELSE AgedChannel(o)

\* A minute is longer than any request or packet lives, unless nothing times
\* the request.
Minute ==
    /\ net = {} /\ sock.pending_permissions = {}
    /\ sock.current_binding_msg # None => ~sock.tick_source_channel_bind
    /\ sock.permission_timeout # <<0>>
    /\ \A b \in Elements(sock.channels) : b.timer # "off" => b.left > 0
    /\ sock' = [sock EXCEPT
            !.permission_timeout = IF @ = None THEN None ELSE <<@[1] - 1>>,
            !.channels = [i \in DOMAIN @ |-> AgedChannel(@[i])] \o <<>>]
    /\ server' = [server EXCEPT
            !.permission = [p \in Peers |-> Aged(@[p])],
            !.binding = [n \in 1..Channels |-> AgedBinding(@[n])]]
    /\ UNCHANGED <<net, given, binds, faults, scenario>>

Next ==
    \/ \E p \in Peers : SetPeer(p) \/ SendMessage(p) \/ RecvData(p)
    \/ \E m \in net : ParseRecv(m) \/ Serve(m) \/ Lose(m)
    \/ RetransmissionsTick \/ CreatePermissionTick \/ ClearPermissions
    \/ \E i \in DOMAIN sock.channels : RenewBinding(i) \/ BindingExpired(i)
    \/ NewNonce \/ Minute

Spec == Init /\ [][Next]_vars

\* The main loop dispatches a retransmission timer that has run out, and a
\* packet that is not lost arrives.
Arrive == \E m \in net : ParseRecv(m) \/ Serve(m)
TickDue ==
    /\ sock.tick_source_create_permission
    /\ \E m \in sock.pending_permissions : ~Late({m.id})
FairSpec ==
    /\ Spec
    /\ <>[](net # {}) => []<><<Arrive>>_vars
    /\ <>[]TickDue => []<><<CreatePermissionTick>>_vars

-----------------------------------------------------------------------------
(* Properties.                                                             *)

\* Types, with the numbers that the timers and the histories may hold.
TypeOK ==
    /\ \A b \in Elements(sock.channels) :
          /\ b.peer \in Peers /\ b.channel \in 1..Channels /\ b.renew \in BOOLEAN
          /\ b.timer \in {"renew", "expire", "off"}
          /\ b.left \in 0..BindingTimeout + ExpireTimeout
    /\ Elements(sock.pending_bindings) \subseteq Peers
    /\ sock.granted \subseteq sock.permissions /\ sock.permissions \subseteq Peers
    /\ sock.sent_permissions \subseteq Peers
    /\ \A m \in Requests(sock) : m.peer \in Peers /\ m.left \in 0..Transmissions - 1
    /\ \A p \in Peers : sock.out[p] \in 0..given[p]

\* socket_send_message and socket_dequeue_all_data: what the user sends to a
\* peer is written in the order it was sent, nothing twice and nothing left
\* out, however permissions come and go in between.
DataInOrder ==
    \A p \in Peers : LET waiting == sock.send_data_queues[p] IN
        /\ Len(waiting) = given[p] - sock.out[p]
        /\ \A i \in DOMAIN waiting : waiting[i] = sock.out[p] + i

\* Data is "stored while obtaining a permission": as long as some waits, a
\* CreatePermission for its peer is under way and its timer runs.  The
\* exception is a peer whose request could not be written: it counts as asked
\* for and is never asked for again (priv_send_create_permission).
QueuedIsAwaited ==
    \A p \in Peers \ sock.unsent : sock.send_data_queues[p] # <<>> =>
        /\ \E m \in sock.pending_permissions : m.peer = p
        /\ sock.tick_source_create_permission

\* A peer has at most one CreatePermission under way, and is then listed as
\* asked for: no second request is sent next to the first.
OnePermissionRequest ==
    /\ \A m, n \in sock.pending_permissions : m.peer = n.peer => m = n
    /\ sock.sent_permissions = {m.peer : m \in sock.pending_permissions} \cup sock.unsent

\* The server holds what the socket relies on.  A permission it has granted is
\* still in force (priv_permission_timeout is early enough), and as long as no
\* binding was left to expire it knows every channel of the list, as a channel to
\* the same peer.
ServerAgrees ==
    /\ \A p \in sock.granted : server.permission[p] > 0
    /\ sock.expired \/ \A b \in Elements(sock.channels) :
          \/ b.timer = "expire" /\ b.left = 0
          \/ server.binding[b.channel] # None /\ server.binding[b.channel].peer = b.peer

\* Channel bindings go on: priv_process_pending_bindings never runs with a
\* binding under way, when it would not end; a binding that waits for its answer
\* has a request; and the request has a timer that repeats it or gives it up,
\* except one that was sent when its predecessor timed out
\* (priv_retransmissions_tick).
PendingGetProcessed ==
    /\ ~sock.endless
    /\ sock.current_binding # None => sock.current_binding_msg # None
    /\ sock.pending_bindings # <<>> => sock.current_binding # None
    /\ sock.current_binding_msg # None => sock.tick_source_channel_bind \/ sock.stalled

\* What waits has been asked for: the data of a peer, a channel's binding, and
\* each of them once.
RequestsAgree == TypeOK /\ QueuedIsAwaited /\ OnePermissionRequest /\ PendingGetProcessed

\* Data that waits for a permission leaves in the end, be it that the server
\* grants the permission, refuses it or is never heard of, unless the request
\* could not be written.
QueuedDataLeaves ==
    \A p \in Peers : (sock.send_data_queues[p] # <<>>)
                      ~> (sock.send_data_queues[p] = <<>> \/ p \in sock.unsent)
=============================================================================
