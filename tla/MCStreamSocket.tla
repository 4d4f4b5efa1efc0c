-------------------------- MODULE MCStreamSocket --------------------------
(***************************************************************************)
(* The settings StreamSocket is checked in.                                *)
(***************************************************************************)
EXTENDS StreamSocket

Message(id, len, stun) == [id |-> id, len |-> len, stun |-> stun, pt |-> IF stun THEN 2 ELSE 3]

\* What the other side says: a whole reply or one that comes in pieces.
Stage(need, send, whole, accepts) ==
    [need |-> need, send |-> send, whole |-> whole, accepts |-> accepts]

Eol == <<"eol", 0, 0>>
HttpReply(code, body) ==
    <<<<"status", code, 0>>, Eol>>
    \o (IF body = 0 THEN <<<<"header", 0, 0>>, Eol>>
        ELSE <<<<"content-length", 0, 0>>, <<"number", body, 0>>, Eol>>)
    \o <<Eol>> \o [i \in 1 .. body |-> <<"body", 0, i>>]
Http(code, body) ==
    <<Stage(<<"CONNECT", 2>>, HttpReply(code, body), FALSE, code = 2)>>

SocksMethodReply(m, whole) ==
    Stage(<<"greeting", 2>>, <<<<"version", 5, 0>>, <<"method", m, 0>>>>, whole, FALSE)
SocksAuthReply(status, whole) ==
    Stage(<<"auth", 2>>, <<<<"version", 1, 0>>, <<"status", status, 0>>>>, whole, FALSE)
SocksConnectReply(answer, type) ==
    Stage(<<"connect", 2>>, <<<<"answer", answer, 0>>, <<"type", type, 0>>>>
                            \o [k \in 1 .. AddressUnits(type) |-> <<"bound", 0, k>>],
          TRUE, answer = 0)
SslReply(whole) == <<Stage(<<"hello", 2>>, Request("serverhello"), whole, FALSE)>>

\* The TURN server answers the first frame it is sent.
Frames(compat, replies) ==
    [i \in DOMAIN replies |-> Stage(IF i = 1 THEN <<"data", 1>> ELSE <<>>,
                                    Reply(compat, replies[i]), FALSE, FALSE)]

Plain ==
    [role |-> "turn", compat |-> "RFC5766", proxy |-> "none", credentials |-> FALSE, ssl |-> FALSE,
     reliable |-> TRUE,
     send |-> <<Message(1, 3, FALSE), Message(2, 2, TRUE), Message(3, 1, FALSE)>>,
     replies |-> <<Message(1, 1, FALSE), Message(2, 1, TRUE)>>, todo |-> <<<<>>, <<>>>>,
     address |-> <<"p1", "p2">>, fails |-> {}, error |-> "CLOSED", ends |-> {}, closes |-> FALSE]

Turn(s, handshake) == [s EXCEPT !.todo = <<handshake \o Frames(s.compat, s.replies), <<>>>>]

\* Straight to the server, which may go away.
Direct == {Turn([Plain EXCEPT !.compat = c, !.reliable = r, !.closes = r, !.ends = {"shut", "reset"}], <<>>)
             : c \in {"RFC5766", "GOOGLE", "OC2007"}, r \in BOOLEAN}

\* Less data for what is about the handshakes.
Short == [Plain EXCEPT !.send = <<Message(1, 2, TRUE), Message(2, 1, FALSE)>>,
                       !.replies = <<Message(1, 1, FALSE)>>, !.compat = "GOOGLE"]

\* Through an HTTP proxy: with and without a body, refused, not reachable, and
\* with pseudo-SSL on top.
ByHttp == [Short EXCEPT !.proxy = "HTTP", !.closes = TRUE]
ThroughHttp ==
    {Turn(ByHttp, Http(2, 0)), Turn(ByHttp, Http(2, 2)), Turn(ByHttp, Http(4, 0)),
     Turn([ByHttp EXCEPT !.reliable = FALSE], Http(2, 0)),
     Turn([ByHttp EXCEPT !.ssl = TRUE, !.compat = "OC2007"], Http(2, 0) \o SslReply(TRUE)),
     Turn([ByHttp EXCEPT !.fails = {"proxy"}], <<>>),
     Turn([ByHttp EXCEPT !.fails = {"proxy", "server"}], <<>>)}

\* Through a SOCKS5 proxy, with each method, accepted or not.
BySocks == [Short EXCEPT !.proxy = "SOCKS5", !.credentials = TRUE, !.closes = TRUE]
ThroughSocks ==
    {Turn(BySocks, <<SocksMethodReply(0, w), SocksConnectReply(answer, 1)>>)
        : w \in BOOLEAN, answer \in 0 .. 1}
    \cup {Turn(BySocks, <<SocksMethodReply(2, TRUE), SocksAuthReply(status, w),
                          SocksConnectReply(0, 4)>>) : w \in BOOLEAN, status \in 0 .. 1}
    \cup {Turn([BySocks EXCEPT !.credentials = FALSE], <<SocksMethodReply(2, TRUE)>>)}

\* Pseudo-SSL alone: the server's handshake comes in one piece or in two.
Ssl == {Turn([Short EXCEPT !.ssl = TRUE, !.reliable = w], SslReply(w)) : w \in BOOLEAN}

\* Between peers: connecting, and accepting two connections.
Active ==
    {[Plain EXCEPT !.role = "active", !.reliable = r, !.error = e, !.ends = {"shut", "reset"},
                   !.todo = <<Frames("none", Plain.replies), <<>>>>]
        : r \in BOOLEAN, e \in {"CLOSED", "FAILED"}}
Passive ==
    {[Plain EXCEPT !.role = "passive", !.send = <<Message(1, 3, FALSE), Message(2, 1, FALSE)>>,
                   !.ends = {"shut", "reset"}, !.closes = TRUE]}

MCSettings == Direct \cup ThroughHttp \cup ThroughSocks \cup Ssl \cup Active \cup Passive
=============================================================================
