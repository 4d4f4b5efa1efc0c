---------------------------- MODULE StreamSocket ----------------------------
(***************************************************************************)
(* The stack of sockets through which the agent speaks to a TURN server    *)
(* (socket/udp-turn-over-tcp.c over the layers of ProxySocket), or to a    *)
(* peer (socket/tcp-active.c, socket/tcp-passive.c), and the agent and the *)
(* other side that use it.                                                 *)
(***************************************************************************)
EXTENDS ProxySocket

-----------------------------------------------------------------------------
(* What is written: requests of the layers, and the frames of messages.     *)

Padded(u, id) == IF Len(u) % 2 = 0 THEN u ELSE Append(u, <<"pad", id, 0>>)

\* socket_send_message of udp-turn-over-tcp.c: what a message becomes.
Framed(compat, m) ==
    LET body == [k \in 1 .. m.len |-> <<"data", m.id, k>>]
    IN  CASE compat = "GOOGLE" -> <<<<"length", m.id, m.len>>>> \o body
          [] compat = "RFC5766" -> Padded(body, m.id)
          [] compat = "OC2007" -> <<<<"type", m.id, IF m.stun THEN 2 ELSE 3>>>> \o body
          [] OTHER -> body

\* The server's frame for a message, and what the agent is to be given of it.
Reply(compat, m) ==
    LET body(n) == [k \in 1 .. n |-> <<"reply", m.id, k>>]
        length == <<"length", m.id, m.len>>
    IN  CASE compat = "GOOGLE" -> <<length>> \o body(m.len)
          [] compat = "RFC5766" ->
                Padded(<<<<"magic", m.id, IF m.stun THEN 0 ELSE 1>>, length>>
                       \o body(m.len + IF m.stun THEN StunUnits - 2 ELSE 0), m.id)
          [] compat = "OC2007" -> <<<<"type", m.id, m.pt>>, length>> \o body(m.len)
          [] OTHER -> body(m.len)
Unframed(compat, u) == IF compat \in {"GOOGLE", "OC2007"} THEN Tail(u) ELSE u

-----------------------------------------------------------------------------
(* udp-turn-over-tcp.c: frames out of the stream.                            *)

Compat == IF sc.role = "turn" THEN sc.compat ELSE "none"
HeaderUnits == IF sc.compat = "GOOGLE" THEN 1 ELSE 2

\* What the header says: how many units the message has, what of the header is
\* kept with it, and 0 for a header that starts no frame.
Expecting(header) ==
    LET length == header[Len(header)][3]
    IN  CASE sc.compat = "GOOGLE" -> [n |-> length, buf |-> <<>>]
          [] sc.compat = "RFC5766" ->
                [n |-> length + IF header[1][3] = 0 THEN StunUnits ELSE 2, buf |-> header]
          [] sc.compat = "OC2007" ->
                IF header[1][3] \in {2, 3} THEN [n |-> length + 1, buf |-> <<header[2]>>]
                ELSE [n |-> 0, buf |-> header]

\* The second read of socket_recv_message, up to the end of the frame.
FrameUnits(turn) ==
    turn.expecting + IF sc.compat = "RFC5766" THEN turn.expecting % 2 ELSE 0
TurnMessage(turn, x) ==
    LET buf == turn.buf \o x.got
    IN  IF x.ret < 0 THEN x
        ELSE IF Len(buf) = FrameUnits(turn)
        THEN [r |-> [x.r EXCEPT !.sk.turn = [buf |-> <<>>, expecting |-> 0]], ret |-> 1, got |-> buf]
        ELSE [r |-> [x.r EXCEPT !.sk.turn.buf = buf], ret |-> 0, got |-> <<>>]
TurnBody(r, junk) ==
    TurnMessage(r.sk.turn, SslRecv(r, FrameUnits(r.sk.turn) - Len(r.sk.turn.buf), junk))

\* The first read, up to the end of the header; x is the result so far, and goes
\* on when its ret is 1.
TurnHeader(turn, x) ==
    LET header == turn.buf \o x.got
        frame == Expecting(header)
        Kept(ret) == [r |-> [x.r EXCEPT !.sk.turn.buf = header], ret |-> ret, got |-> <<>>]
    IN  IF x.ret < 0 THEN x
        ELSE IF Len(header) < HeaderUnits THEN Kept(0)
        ELSE IF sc.compat = "OC2007" /\ frame.n = 0 THEN Kept(-1)
        ELSE [r |-> [x.r EXCEPT !.sk.turn = [buf |-> frame.buf, expecting |-> frame.n]],
              ret |-> 1, got |-> <<>>]

\* socket_recv_message
TurnAfterHeader(x, junk) == IF x.ret <= 0 THEN x ELSE TurnBody(x.r, junk)
TurnRecv(r, junk) ==
    TurnAfterHeader(
        IF r.sk.turn.expecting # 0 THEN [r |-> r, ret |-> 1, got |-> <<>>]
        ELSE TurnHeader(r.sk.turn, SslRecv(r, HeaderUnits - Len(r.sk.turn.buf), junk)),
        junk)

-----------------------------------------------------------------------------
(* The kernel and the other side.                                           *)

Here == [sk |-> sk, net |-> net]
Becomes(r) == sk' = r.sk /\ net' = r.net

NoNet(todo) == [st |-> "none", out |-> <<>>, wire |-> <<>>, inq |-> <<>>, todo |-> todo]

\* A connection attempt succeeds.
Established(c) ==
    /\ net[c].st = "pending"
    /\ net' = [net EXCEPT ![c].st = "up"]
    /\ UNCHANGED <<sc, sk, app>>

\* The other side connects to the listening socket.
PeerConnects(c) ==
    /\ sc.role = "passive" /\ sk.listening
    /\ net[c].st = "none"
    /\ net' = [net EXCEPT ![c].st = "up"]
    /\ UNCHANGED <<sc, sk, app>>

PeerReads(c) ==
    /\ net[c].st \in {"up", "shut"} /\ net[c].out # <<>>
    /\ net' = [net EXCEPT ![c].wire = Append(@, Head(net[c].out)), ![c].out = Tail(@)]
    /\ UNCHANGED <<sc, sk, app>>

\* The other side answers what it waited for, and the answer arrives whole or
\* in pieces.
Asked(c) ==
    LET need == Head(net[c].todo).need
    IN  need # <<>> =>
            \E u \in Range(net[c].wire) : need[1] = u[1] /\ need[2] = u[3]
Arrive(c) ==
    /\ net[c].st = "up" /\ net[c].todo # <<>> /\ Asked(c)
    /\ LET stage == Head(net[c].todo)
           n == IF stage.whole THEN Len(stage.send) ELSE 1
           left == Rest(stage.send, n)
       IN  net' = [net EXCEPT ![c].inq = @ \o Prefix(stage.send, n),
                              ![c].todo = IF left = <<>> THEN Tail(@)
                                          ELSE [@ EXCEPT ![1].send = left, ![1].need = <<>>]]
    /\ UNCHANGED <<sc, sk, app>>

\* The other side shuts the connection down or resets it, or refuses it.
PeerEnds(c, how) ==
    /\ how \in sc.ends
    /\ net[c].st \in (IF how = "reset" THEN {"pending", "up"} ELSE {"up"})
    /\ net' = IF how = "reset" THEN Reset(Here, c).net ELSE [net EXCEPT ![c].st = how]
    /\ UNCHANGED <<sc, sk, app>>

\* When the main loop finds a socket readable or writable.
Readable(c) == net[c].inq # <<>> \/ net[c].st \in {"shut", "reset"}
Writable(c) == \/ net[c].st \in {"up", "shut"} /\ Len(net[c].out) < SendBuf
               \/ net[c].st = "reset"

-----------------------------------------------------------------------------
(* The sockets and the agent that uses them.                                *)

Init ==
    /\ sc \in Scenarios
    /\ sk = [tcp |-> [c \in Conns |-> NoTcp], table |-> [a \in Range(sc.address) |-> 0],
             sources |-> <<>>, listening |-> FALSE, px |-> NoProxy,
             ssl |-> [handshaken |-> TRUE, base |-> TRUE, q |-> <<>>],
             turn |-> [buf |-> <<>>, expecting |-> 0], created |-> FALSE,
             dangling |-> FALSE]
    /\ net = [c \in Conns |-> NoNet(sc.todo[c])]
    /\ app = [next |-> 1, acc |-> [c \in Conns |-> <<>>], got |-> [c \in Conns |-> <<>>],
              waiting |-> {}]

\* A connection to the proxy, with the proxy's socket on it, or to the server.
TurnBase(r) ==
    CASE sc.proxy = "none" \/ "proxy" \in sc.fails -> r
      [] sc.proxy = "HTTP" -> HttpNew(r)
      [] sc.proxy = "SOCKS5" -> SocksNew(r)

\* agent_create_tcp_turn_socket: a connection that cannot be started to the
\* proxy is started to the server, and there is no socket if that fails as well.
CreateTurn ==
    /\ sc.role = "turn" /\ ~sk.created
    /\ \E st \in {"pending", "up"} :
         LET failed == IF sc.proxy = "none" THEN "server" \in sc.fails
                       ELSE {"proxy", "server"} \subseteq sc.fails
             r == [TcpNew(Here, 1, st) EXCEPT !.sk.created = TRUE, !.sk.sources = <<1>>]
         IN  IF failed THEN Becomes([Here EXCEPT !.sk.created = TRUE])
             ELSE Becomes(IF sc.ssl THEN SslNew(TurnBase(r)) ELSE TurnBase(r))
    /\ UNCHANGED <<sc, app>>

\* nice_tcp_active_socket_connect
ActiveConnect ==
    /\ sc.role = "active" /\ ~sk.created
    /\ \E st \in {"pending", "up", "none"} :
         Becomes(IF st = "none" THEN [Here EXCEPT !.sk.created = TRUE]
                 ELSE [Here EXCEPT !.sk.created = TRUE, !.sk.tcp[1] = NewTcp(FALSE),
                                   !.sk.sources = <<1>>, !.net[1].st = st])
    /\ UNCHANGED <<sc, app>>

\* nice_tcp_passive_socket_new, nice_component_attach_socket
Listen ==
    /\ sc.role = "passive" /\ ~sk.created
    /\ sk' = [sk EXCEPT !.created = TRUE, !.listening = TRUE, !.sources = <<Listener>>]
    /\ UNCHANGED <<sc, net, app>>

\* nice_tcp_passive_socket_accept; a connection that is gone has no address.
Accept(c) ==
    /\ sk.listening /\ ~sk.tcp[c].open
    /\ net[c].st \in {"up", "shut", "reset"}
    /\ IF net[c].st = "reset" THEN net' = [net EXCEPT ![c].st = "closed"] /\ UNCHANGED sk
       ELSE /\ sk' = [sk EXCEPT !.tcp[c] = NewTcp(TRUE), !.table[sc.address[c]] = c,
                                !.sources = <<c>> \o @]
            /\ UNCHANGED net
    /\ UNCHANGED <<sc, app>>

\* The connection a message to the address of connection c goes to, 0 if none.
Target(c) == IF sc.role = "passive" THEN sk.table[sc.address[c]] ELSE c

\* socket_send_messages, socket_send_messages_reliable of tcp-passive.c
PassiveSendMessages(r, c, batch, cut) ==
    IF Target(c) = 0 THEN [r |-> r, taken |-> 0, n |-> -1]
    ELSE TcpSendMessages(r, Target(c), batch, sc.reliable, cut)

\* socket_send_messages, socket_send_messages_reliable of udp-turn-over-tcp.c
TurnSendMessages(r, batch, cut) ==
    UntilRefused(LAMBDA x, i : SslSend(Cut(x, 1, i, cut), batch[i], sc.reliable),
                 r, Len(batch), sc.reliable)

SendMessages(r, c, batch, cut) ==
    LET frames == [i \in DOMAIN batch |-> Framed(Compat, batch[i])]
    IN  CASE sc.role = "turn" -> TurnSendMessages(r, frames, cut)
          [] sc.role = "active" -> TcpSendMessages(r, c, frames, sc.reliable, cut)
          [] sc.role = "passive" -> PassiveSendMessages(r, c, frames, cut)

\* Where a batch of k messages may be cut off: 0 for nowhere.
Cuts(to, k) ==
    {0} \cup IF to # 0 /\ "reset" \in sc.ends /\ net[to].st \in {"pending", "up"}
             THEN 2 .. k ELSE {}

\* The agent sends the next messages; it waits when nice_socket_can_send says no.
\* What it counts as sent (next) is the result of the call, which may be less
\* than the socket has taken (acc).
Send(c, k) ==
    /\ sk.created /\ (sc.role # "passive" => sk.tcp[c].open)
    /\ app.next + k - 1 <= Len(sc.send)
    /\ LET batch == SubSeq(sc.send, app.next, app.next + k - 1)
           to == Target(c)
       IN  \E cut \in Cuts(to, k) : \E x \in {SendMessages(Here, c, batch, cut)} :
           /\ Becomes(x.r)
           /\ app' = [app EXCEPT !.next = @ + Most(x.n, 0),
                        !.acc = IF to = 0 THEN @
                                ELSE [@ EXCEPT ![to] = @ \o Prefix(batch, x.taken)],
                        !.waiting = IF to # 0 /\ ~TcpCanSend(x.r, to) THEN @ \cup {to} ELSE @]
    /\ UNCHANGED sc

\* socket_send_more, with the writable callback at its end.
SendMore(c) ==
    /\ sk.tcp[c].source /\ Writable(c)
    /\ \E hup \in IF net[c].st = "reset" THEN BOOLEAN ELSE {FALSE} :
         LET x == IF hup THEN Here ELSE FlushToSocket(Here, c)
         IN  IF hup \/ x.sk.tcp[c].q = <<>>
             THEN /\ Becomes([x EXCEPT !.sk.tcp[c].source = FALSE])
                  /\ app' = [app EXCEPT !.waiting = @ \ {c}]
             ELSE Becomes(x) /\ UNCHANGED app
    /\ UNCHANGED sc

\* socket_close of the top socket.
TurnClose(r) == [SslClose(r) EXCEPT !.sk.turn.buf = <<>>]
SocketClose(r, c) == IF sc.role = "turn" THEN TurnClose(r) ELSE TcpClose(r, c)

\* nice_component_remove_socket, after a read that failed.
RemoveSocket(r, c) ==
    [SocketClose(r, c) EXCEPT !.sk.sources = SelectSeq(@, LAMBDA i : i # c)]

\* component_io_cb reads one message.
Receive(c) ==
    /\ sk.tcp[c].open /\ Readable(c)
    /\ \E junk \in Octets :
       \E x \in {IF sc.role = "turn" THEN TurnRecv(Here, junk) ELSE TcpRecv(Here, c, MaxRaw)} :
         IF x.ret < 0
         THEN /\ Becomes(RemoveSocket(x.r, c))
              /\ app' = [app EXCEPT !.waiting = @ \ {c}]
         ELSE /\ Becomes(x.r)
              /\ app' = IF x.ret = 0 THEN app ELSE [app EXCEPT !.got[c] = Append(@, x.got)]
    /\ UNCHANGED sc

\* socket_close of tcp-passive.c
PassiveClose(r) == [r EXCEPT !.sk.listening = FALSE]

\* nice_component_free_socket_sources: the sockets are freed in list order.
Close ==
    /\ sk.sources # <<>> /\ sc.closes
    /\ LET Free(x, i) == IF i = Listener THEN PassiveClose(x) ELSE SocketClose(x, i)
       IN  Becomes([FoldLeft(Free, Here, sk.sources) EXCEPT !.sk.sources = <<>>])
    /\ app' = [app EXCEPT !.waiting = {}]
    /\ UNCHANGED sc

Network ==
    \E c \in Conns : \/ Established(c)
                     \/ PeerConnects(c)
                     \/ PeerReads(c)
                     \/ Arrive(c)
                     \/ \E how \in {"shut", "reset"} : PeerEnds(c, how)

Next ==
    \/ CreateTurn
    \/ ActiveConnect
    \/ Listen
    \/ \E c \in Conns : \/ Accept(c)
                        \/ \E k \in 1 .. 2 : Send(c, k)
                        \/ SendMore(c)
                        \/ Receive(c)
    \/ Close
    \/ Network

Spec == Init /\ [][Next]_vars

-----------------------------------------------------------------------------
(* Properties.                                                              *)

Requests(kinds) == Concat([i \in DOMAIN kinds |-> Request(kinds[i])])
Messages(c) ==
    Concat([i \in DOMAIN app.acc[c] |->
               Framed(Compat, app.acc[c][i])])

Layered(c) == sc.role = "turn" /\ c = 1

\* Everything connection c was given to write, and what became of it.
Given(c) ==
    IF ~Layered(c) THEN Messages(c)
    ELSE Requests(sk.px.asked) \o (IF sc.ssl /\ sk.created THEN Request("hello") ELSE <<>>)
         \o Messages(c)
Written(c) == net[c].wire \o net[c].out \o Concat(sk.tcp[c].q)
Waiting(c) ==
    IF Layered(c) THEN Concat(sk.px.q) \o Concat(sk.ssl.q) ELSE <<>>

\* The proxy has answered that it connected to the server.
ProxyAgreed ==
    \/ sk.px.kind = "none"
    \/ \E i \in DOMAIN sc.todo[1] :
         sc.todo[1][i].accepts /\ i <= Len(sc.todo[1]) - Len(net[1].todo)

\* What is written to a connection is the handshakes and then the frames of the
\* messages that were accepted, each whole, once and in order, however often the
\* kernel takes only a part; the proxy is sent nothing but its own requests
\* before it agreed, and no message goes out before the SSL handshake is done.
OutIsWhole ==
    \A c \in Conns :
        /\ IsPrefix(net[c].wire, Given(c))
        /\ sk.tcp[c].open /\ net[c].st # "reset" => Written(c) \o Waiting(c) = Given(c)
        /\ \A u \in Range(Written(c)) :
             /\ u[1] \in {"hello", "data", "length", "type", "pad"} => ProxyAgreed
             /\ u[1] \in {"data", "length", "type", "pad"} => sk.ssl.handshaken

\* The agent is given the frames the server sent, each whole, once and in order,
\* wherever the stream was cut; of a connection without frames it is given the
\* units in order.
Reassembled ==
    /\ sc.role = "turn" =>
         IsPrefix(app.got[1], [i \in DOMAIN sc.replies |->
                                  Unframed(sc.compat, Reply(sc.compat, sc.replies[i]))])
    /\ sc.role # "turn" =>
         \A c \in Conns : IsPrefix(Concat(app.got[c]),
                                   Concat([i \in DOMAIN sc.todo[c] |-> sc.todo[c][i].send]))

\* No octet is lost, repeated or out of place, in either direction.
OctetsKept == OutIsWhole /\ Reassembled

\* A queue that holds data has a source that will empty it, unless the connection
\* was reset, and no source is left behind; the ring buffer keeps its assertions;
\* the table of a listening socket names the open connections, under their
\* addresses, and is not touched after it was freed.
SocketsAgree ==
    /\ RingValid(sk.px.ring)
    /\ ~sk.dangling
    /\ \A c \in Conns :
         LET t == sk.tcp[c]
         IN  /\ t.q # <<>> => t.source \/ net[c].st = "reset"
             /\ t.source => t.open /\ t.q # <<>>
             /\ t.open <=> c \in Range(sk.sources)
             /\ t.parent => sk.listening
             /\ sk.table[sc.address[c]] = c <=> t.open /\ t.parent

-----------------------------------------------------------------------------
(* The main loop dispatches what is ready, the network delivers, and the     *)
(* other side reads and answers.                                            *)

System ==
    \/ CreateTurn \/ ActiveConnect \/ Listen
    \/ \E c \in Conns : \/ Accept(c) \/ SendMore(c) \/ Receive(c)
                        \/ Established(c) \/ PeerReads(c) \/ Arrive(c)

\* When one of these steps can be taken.
Busy ==
    \/ ~sk.created
    \/ \E c \in Conns :
         \/ sk.listening /\ ~sk.tcp[c].open /\ net[c].st \in {"up", "shut", "reset"}
         \/ sk.tcp[c].source /\ Writable(c)
         \/ sk.tcp[c].open /\ Readable(c)
         \/ net[c].st = "pending"
         \/ net[c].st \in {"up", "shut"} /\ net[c].out # <<>>
         \/ net[c].st = "up" /\ net[c].todo # <<>> /\ Asked(c)

FairSpec == Spec /\ (<>[]Busy => []<><<System>>_vars)

\* A message that was accepted is read by the other side in the end, or the
\* connection is gone; and who found that nothing can be sent now is told by
\* the writable callback when it can be.
DataMoves ==
    /\ \A c \in Conns :
         (Given(c) # net[c].wire) ~> (Given(c) = net[c].wire \/ net[c].st \in {"reset", "closed"})
    /\ \A c \in Conns : (c \in app.waiting) ~> (c \notin app.waiting)
=============================================================================
