---------------------------- MODULE ProxySocket ----------------------------
(***************************************************************************)
(* The sockets that ask another machine for a connection before they pass  *)
(* data on: an HTTP proxy (socket/http.c), a SOCKS5 proxy                  *)
(* (socket/socks5.c) and pseudo-SSL (socket/pseudossl.c).                  *)
(***************************************************************************)
EXTENDS TcpSocket

Request(kind) == <<<<kind, 0, 1>>, <<kind, 0, 2>>>>

-----------------------------------------------------------------------------
(* The ring buffer of http.c.                                               *)

Junk == <<"junk", 0, 0>>
EmptyRing == [buf |-> <<>>, length |-> 0, pos |-> 0, fill |-> 0]
Cell(ring, i) == ring.buf[((ring.pos + i) % ring.length) + 1]
Held(ring) == [i \in 1 .. ring.fill |-> Cell(ring, i - 1)]

\* The buffer is reallocated at twice its length when it is full.
Grow(ring) ==
    LET length == Most(2 * ring.length, RingMin)
    IN  IF ring.fill < ring.length THEN ring
        ELSE [ring EXCEPT !.length = length,
                          !.buf = @ \o [i \in 1 .. length - ring.length |-> Junk]]

Fill(ring, u) ==
    [ring EXCEPT !.buf = [i \in DOMAIN @ |->
                    LET k == ((i - 1 - ring.pos - ring.fill) % ring.length) + 1
                    IN  IF k \in DOMAIN u THEN u[k] ELSE @[i]],
                 !.fill = @ + Len(u)]

Consume(ring, n) ==
    [ring EXCEPT !.pos = (@ + n) % ring.length, !.fill = @ - n]

\* assert_ring_buffer_valid
RingValid(ring) ==
    /\ ring.fill <= ring.length
    /\ ring.pos = 0 \/ ring.pos < ring.length

-----------------------------------------------------------------------------
(* http.c                                                                   *)

\* nice_socket_queue_send
QueueLater(q, u) == IF u = <<>> THEN q ELSE Append(q, u)

\* Mutant: only the oldest message is sent on.
FlushProxyFirst(r) ==
    IF r.sk.px.q = <<>> THEN r
    ELSE [TcpSend(r, 1, Head(r.sk.px.q), TRUE).r EXCEPT !.sk.px.q = Tail(@)]

\* nice_socket_flush_send_queue of the proxy's queue.
FlushProxy(r) ==
    FoldLeft(LAMBDA x, u : TcpSend(x, 1, u, TRUE).r, [r EXCEPT !.sk.px.q = <<>>], r.sk.px.q)

\* The error label of socket_recv_messages: the base socket is freed.
ProxyError(r) == [TcpClose(r, 1) EXCEPT !.sk.px.state = "ERROR", !.sk.px.base = FALSE]

EndOfLine(h) == SelectInSeq(h, LAMBDA u : u[1] = "eol")

\* How a pass of the parser ends: with a jump back to retry (again), with
\* not_enough_data, with an error or in HTTP_STATE_CONNECTED.
End(how, px) == [px |-> px, how |-> how]

\* HTTP_STATE_INIT: the status line.
HttpStatus(px, h, eol) ==
    CASE h = <<>> -> End("not_enough", px)
      [] h # <<>> /\ h[1] # <<"status", 2, 0>> -> End("error", px)
      [] OTHER -> IF eol = 0 THEN End("not_enough", px)
                  ELSE End("again", [px EXCEPT !.ring = Consume(@, eol), !.content = 0,
                                               !.state = "HEADERS"])

\* Skip over the header; an empty one ends the headers.
HttpSkip(px, eol) ==
    IF eol = 0 THEN End("not_enough", px)
    ELSE End("again", [px EXCEPT !.ring = Consume(@, eol),
                                 !.state = IF eol = 1 THEN "BODY" ELSE @])

\* HTTP_STATE_HEADERS: one header.  A number that ends where the data ends is
\* continued in a cell that holds nothing yet: `unlucky' is a cell that is no
\* digit and no end of line.
HttpHeader(px, h, eol, unlucky) ==
    IF h = <<>> \/ h[1][1] # "content-length" \/ Len(h) = 1 THEN HttpSkip(px, eol)
    ELSE IF h[2][1] = "eol" THEN HttpSkip([px EXCEPT !.content = 0], eol)
    ELSE IF h[2][1] # "number" \/ (Len(h) = 2 /\ unlucky)
    THEN End("error", [px EXCEPT !.content = 0])
    ELSE HttpSkip([px EXCEPT !.content = h[2][2]], eol)

\* HTTP_STATE_BODY: as much of the body as there is.
HttpBody(px, h) ==
    LET n == Least(px.content, Len(h))
    IN  IF px.content = 0 THEN End("again", [px EXCEPT !.state = "CONNECTED"])
        ELSE IF h = <<>> THEN End("not_enough", px)
        ELSE End("again", [px EXCEPT !.ring = Consume(@, n), !.content = @ - n])

\* One pass of the parser, from retry on.
HttpPass(px, unlucky) ==
    LET h == Held(px.ring)
    IN  CASE px.state = "INIT" -> HttpStatus(px, h, EndOfLine(h))
          [] px.state = "HEADERS" -> HttpHeader(px, h, EndOfLine(h), unlucky)
          [] px.state = "BODY" -> HttpBody(px, h)
          [] px.state = "CONNECTED" -> End("connected", px)

\* All passes: each one eats a unit or leaves a state.
HttpParse(px, unlucky) ==
    FoldLeft(LAMBDA x, i : IF x.how = "again" THEN HttpPass(x.px, unlucky) ELSE x,
             [px |-> px, how |-> "again"], [i \in 1 .. px.ring.fill + 5 |-> i])

\* memcpy_ring_buffer_to_input_messages: what follows the reply is copied out of
\* the ring, but no length is set on the message it is copied to.
HttpLeftovers(ring, n) == Consume(ring, Least(n, ring.fill))

\* HTTP_STATE_CONNECTED, reached by the parser.
HttpConnected(r, n) ==
    [r |-> FlushProxy([r EXCEPT !.sk.px.ring = HttpLeftovers(@, n)]),
     ret |-> IF Least(n, r.sk.px.ring.fill) > 0 THEN 1 ELSE 0, got |-> <<>>]

\* What the end of the parser leads to.
HttpEnd(r, how, n) ==
    CASE how = "error" -> [r |-> ProxyError(r), ret |-> -1, got |-> <<>>]
      [] how = "connected" -> HttpConnected(r, n)
      [] OTHER -> [r |-> r, ret |-> 0, got |-> <<>>]
HttpParsed(r, end, n) == HttpEnd([r EXCEPT !.sk.px = end.px], end.how, n)

\* The slow path, through the ring: x is what the base socket had.
HttpSlow(x, n, unlucky) ==
    IF x.ret <= 0 THEN x
    ELSE HttpParsed(x.r, HttpParse([x.r.sk.px EXCEPT !.ring = Fill(@, x.got)], unlucky), n)

\* socket_recv_messages: the base socket's data once connected.
HttpRecv(r, n, unlucky) ==
    LET ring == Grow(r.sk.px.ring)
    IN  IF r.sk.px.state = "CONNECTED" THEN TcpRecv(r, 1, n)
        ELSE HttpSlow(TcpRecv([r EXCEPT !.sk.px.ring = ring], 1, ring.length - ring.fill),
                      n, unlucky)

\* What either proxy does with data before it is connected.
Later(r, u, reliable) ==
    IF r.sk.px.state \in {"CONNECTED", "ERROR"} THEN [r |-> r, ret |-> -1]
    ELSE IF reliable THEN [r |-> [r EXCEPT !.sk.px.q = QueueLater(@, u)], ret |-> 1]
    ELSE [r |-> r, ret |-> 0]

\* socket_send_messages, socket_send_messages_reliable
HttpSend(r, u, reliable) ==
    IF r.sk.px.state = "CONNECTED" /\ r.sk.px.base THEN TcpSend(r, 1, u, reliable)
    ELSE Later(r, u, reliable)

NoProxy == [kind |-> "none", state |-> "CONNECTED", base |-> TRUE, q |-> <<>>,
            ring |-> EmptyRing, content |-> 0, asked |-> <<>>]
NewProxy(kind, request) ==
    [NoProxy EXCEPT !.kind = kind, !.state = "INIT", !.asked = <<request>>]

\* nice_http_socket_new: the request goes out at once.
HttpNew(r) ==
    [TcpSend(r, 1, Request("CONNECT"), TRUE).r EXCEPT !.sk.px = NewProxy("HTTP", "CONNECT")]

\* socket_close, with what waited for the proxy; the socket below goes first.
HttpClose(r) ==
    [(IF r.sk.px.base THEN TcpClose(r, 1) ELSE r) EXCEPT !.sk.px.base = FALSE, !.sk.px.q = <<>>]

-----------------------------------------------------------------------------
(* socks5.c.  A field that has not arrived is read from a buffer that was    *)
(* never written: `junk' is the octet found there.                          *)

Octets == 0 .. 2

\* What is read of the k-th field of a reply.
Field(got, k, junk) == IF k \in DOMAIN got THEN got[k] ELSE <<"junk", junk, 0>>

Ask(r, kind, state) ==
    [TcpSend(r, 1, Request(kind), TRUE).r EXCEPT !.sk.px.state = state,
                                                 !.sk.px.asked = Append(@, kind)]

AddressUnits(type) == IF type = 4 THEN 2 ELSE 1

SocksFail(r) == [r |-> ProxyError(r), ret |-> -1, got |-> <<>>]
SocksGoOn(r) == [r |-> r, ret |-> 0, got |-> <<>>]

\* SOCKS_STATE_INIT: the method the server chose.
SocksMethod(x, junk) ==
    LET method == Field(x.got, 2, junk)[2]
    IN  IF x.got[1] # <<"version", 5, 0>> THEN SocksFail(x.r)
        ELSE CASE method = 2 /\ sc.credentials -> SocksGoOn(Ask(x.r, "auth", "AUTH"))
               [] method = 0 -> SocksGoOn(Ask(x.r, "connect", "CONNECT"))
               [] OTHER -> SocksFail(x.r)

\* SOCKS_STATE_AUTH: whether the credentials were accepted.
SocksStatus(x, junk) ==
    IF x.got[1] = <<"version", 1, 0>> /\ Field(x.got, 2, junk)[2] = 0
    THEN SocksGoOn(Ask(x.r, "connect", "CONNECT"))
    ELSE SocksFail(x.r)

\* SOCKS_STATE_CONNECT: the answer, then the address the server is bound to.
SocksBound(y) ==
    IF y.ret # 1 THEN SocksFail(y.r)
    ELSE SocksGoOn([FlushProxy(y.r) EXCEPT !.sk.px.state = "CONNECTED"])
SocksAnswer(x, junk) ==
    LET type == Field(x.got, 2, junk)[2]
    IN  IF x.got[1] # <<"answer", 0, 0>> \/ type \notin {1, 4} THEN SocksFail(x.r)
        ELSE SocksBound(TcpRecv(x.r, 1, AddressUnits(type)))

\* A reply x, in the state it is for.
SocksReply(x, junk) ==
    IF x.ret <= 0 THEN x
    ELSE CASE x.r.sk.px.state = "INIT" -> SocksMethod(x, junk)
           [] x.r.sk.px.state = "AUTH" -> SocksStatus(x, junk)
           [] x.r.sk.px.state = "CONNECT" -> SocksAnswer(x, junk)

\* socket_recv_messages
SocksRecv(r, n, junk) ==
    CASE r.sk.px.state = "CONNECTED" -> TcpRecv(r, 1, n)
      [] r.sk.px.state = "ERROR" -> SocksFail(r)
      [] OTHER -> SocksReply(TcpRecv(r, 1, 2), junk)

\* socket_send_messages, socket_send_messages_reliable
SocksSend(r, u, reliable) ==
    IF r.sk.px.state = "CONNECTED" THEN TcpSend(r, 1, u, reliable) ELSE Later(r, u, reliable)

\* nice_socks5_socket_new
SocksNew(r) ==
    [TcpSend(r, 1, Request("greeting"), TRUE).r EXCEPT !.sk.px = NewProxy("SOCKS5", "greeting")]

\* socket_close
SocksClose(r) ==
    [(IF r.sk.px.base THEN TcpClose(r, 1) ELSE r) EXCEPT !.sk.px.base = FALSE, !.sk.px.q = <<>>]

-----------------------------------------------------------------------------
(* pseudossl.c, over a proxy if there is one.                                *)

ProxySend(r, u, reliable) ==
    CASE r.sk.px.kind = "none" -> TcpSend(r, 1, u, reliable)
      [] r.sk.px.kind = "HTTP" -> HttpSend(r, u, reliable)
      [] r.sk.px.kind = "SOCKS5" -> SocksSend(r, u, reliable)
ProxyRecv(r, n, junk) ==
    CASE r.sk.px.kind = "none" -> TcpRecv(r, 1, n)
      [] r.sk.px.kind = "HTTP" -> HttpRecv(r, n, junk # 0)
      [] r.sk.px.kind = "SOCKS5" -> SocksRecv(r, n, junk)
ProxyClose(r) ==
    CASE r.sk.px.kind = "none" -> TcpClose(r, 1)
      [] r.sk.px.kind = "HTTP" -> HttpClose(r)
      [] r.sk.px.kind = "SOCKS5" -> SocksClose(r)

\* socket_send_messages and socket_send_messages_reliable of pseudossl.c.
SslSend(r, u, reliable) ==
    LET ssl == r.sk.ssl
    IN  IF ssl.handshaken
        THEN IF ssl.base THEN ProxySend(r, u, reliable) ELSE [r |-> r, ret |-> -1]
        ELSE IF reliable THEN [r |-> [r EXCEPT !.sk.ssl.q = QueueLater(@, u)], ret |-> 1]
        ELSE [r |-> r, ret |-> 0]

\* server_handshake_valid
HandshakeValid(got) == got = Request("serverhello")

\* The server's handshake is taken whole; what waited for it follows.
SslHandshake(x) ==
    IF x.ret <= 0 THEN x
    ELSE IF HandshakeValid(x.got)
    THEN [r |-> FoldLeft(LAMBDA y, u : ProxySend(y, u, TRUE).r,
                         [x.r EXCEPT !.sk.ssl.handshaken = TRUE, !.sk.ssl.q = <<>>],
                         x.r.sk.ssl.q),
          ret |-> 0, got |-> <<>>]
    ELSE [r |-> [ProxyClose(x.r) EXCEPT !.sk.ssl.base = FALSE], ret |-> -1, got |-> <<>>]

\* socket_recv_messages of pseudossl.c
SslRecv(r, n, junk) ==
    CASE r.sk.ssl.handshaken /\ ~r.sk.ssl.base -> [r |-> r, ret |-> 0, got |-> <<>>]
      [] OTHER -> LET x == ProxyRecv(r, IF r.sk.ssl.handshaken THEN n ELSE 2, junk)
                  IN  IF r.sk.ssl.handshaken THEN x ELSE SslHandshake(x)

\* nice_pseudossl_socket_new
SslNew(r) ==
    [ProxySend(r, Request("hello"), TRUE).r EXCEPT !.sk.ssl.handshaken = FALSE]

\* socket_close
SslClose(r) ==
    [(IF r.sk.ssl.base THEN ProxyClose(r) ELSE r) EXCEPT !.sk.ssl.base = FALSE, !.sk.ssl.q = <<>>]
=============================================================================
