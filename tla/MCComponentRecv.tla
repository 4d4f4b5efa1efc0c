-------------------------- MODULE MCComponentRecv ---------------------------
(* Settings of ComponentRecv for TLC.                                        *)
EXTENDS ComponentRecv

M(kind, len) == [kind |-> kind, len |-> len]
Op(op) == [op |-> op, quiet |-> FALSE]
Later(op) == [op |-> op, quiet |-> TRUE]
R(n, size, blocking) == [op |-> "recv", n |-> n, size |-> size, quiet |-> FALSE,
                         blocking |-> blocking, drain |-> FALSE]
LaterR(n, size) == [R(n, size, FALSE) EXCEPT !.quiet = TRUE]
P(size, drain) == [R(1, size, FALSE) EXCEPT !.op = "poll", !.drain = drain]

Base == [mode |-> "dgram", bytestream |-> FALSE, force |-> FALSE, msgs |-> <<>>,
         ops |-> <<>>, lops |-> <<>>, cbops |-> <<>>, poll |-> NoOp, shuts |-> FALSE,
         keepalive |-> FALSE, fails |-> FALSE, isDefault |-> TRUE]

D1 == M("data", 1)
D2 == M("data", 2)
St == M("stun", 1)
Syn == M("syn", 1)
Fin == M("fin", 1)

Datagrams ==
  { [Base EXCEPT !.msgs = <<D1, St, M("stray", 1), M("data", 0), D2, D1>>,
                 !.ops = <<Op("attach"), Op("detach"), Op("attach"), Op("remove")>>,
                 !.cbops = cb] : cb \in {<<>>, <<"detach">>, <<"remove">>} }
  \cup { [Base EXCEPT !.msgs = <<D1, St, D1, D1>>, !.ops = o] :
           o \in {<<R(2, 2, TRUE), R(1, 2, FALSE)>>,
                  <<R(3, 2, FALSE), R(1, 2, TRUE), Op("remove")>>} }
  \cup { [Base EXCEPT !.mode = m, !.msgs = <<D1, D1>>, !.ops = <<R(2, 2, TRUE)>>,
                      !.lops = <<Op("remove")>>] : m \in {"dgram", "ptcp"} }
  \cup { [Base EXCEPT !.msgs = <<D1, M("relay", 2), M("turn", 1), D1, M("relay", 1),
                                 M("err", 1)>>,
                      !.force = TRUE, !.ops = <<Op("attach")>>] }

PseudoTcps ==
  { [Base EXCEPT !.mode = "ptcp", !.msgs = <<Syn, D2, St, D1, D2>>,
                 !.ops = <<Op("attach"), Op("attach"), Op("remove")>>, !.cbops = cb] :
      cb \in {<<"detach">>, <<"remove">>} }
  \cup { [Base EXCEPT !.mode = "ptcp", !.msgs = <<Syn, M("data", 4)>>,
                      !.ops = <<R(1, 1, TRUE), Later("attach"), Later("detach"),
                                LaterR(2, IF b THEN 2 ELSE 3)>>,
                      !.isDefault = def, !.bytestream = b] :
           def \in BOOLEAN, b \in BOOLEAN }
  \cup { [Base EXCEPT !.mode = "ptcp", !.msgs = <<Syn, M("data", 4)>>,
                      !.ops = <<R(1, 1, TRUE), Later("attach")>> \o x[1],
                      !.cbops = x[2], !.isDefault = def] :
           x \in {<< <<Op("detach"), Op("attach")>>, <<"detach">> >>,
                  << <<Op("remove")>>, <<>> >>, << <<>>, <<"remove">> >>},
           def \in BOOLEAN }
  \cup { [Base EXCEPT !.mode = "ptcp", !.msgs = <<Syn, D2, D1, Fin>>,
                      !.keepalive = TRUE, !.ops = o] :
           o \in {<<R(1, 2, TRUE), R(2, 1, TRUE)>>,
                  <<R(1, 1, FALSE), R(1, 4, TRUE)>>} }
  \cup { [Base EXCEPT !.mode = "ptcp", !.msgs = <<Syn, D2, D1, Fin>>,
                      !.poll = P(2, TRUE)],
         [Base EXCEPT !.mode = "ptcp", !.msgs = <<Syn, D2>>, !.fails = TRUE,
                      !.ops = <<R(1, 2, FALSE), Op("attach")>>] }

Streams ==
  { [Base EXCEPT !.mode = "stream", !.bytestream = b, !.msgs = <<D1, St, D2>>,
                 !.ops = <<Op("attach")>>, !.cbops = cb, !.shuts = s] :
      b \in BOOLEAN, cb \in {<<>>, <<"remove">>}, s \in BOOLEAN }
  \cup { [Base EXCEPT !.mode = "stream", !.bytestream = TRUE,
                      !.msgs = <<St, D2, D1>>, !.ops = o] :
           o \in {<<R(2, 1, TRUE), R(1, 2, TRUE)>>, <<R(1, 2, FALSE), R(1, 4, FALSE)>>} }
  \cup { [Base EXCEPT !.mode = "stream", !.bytestream = b,
                      !.msgs = <<St, D2, D1>>, !.poll = P(2, FALSE),
                      !.ops = o] : b \in BOOLEAN, o \in {<<>>, <<Op("remove")>>} }

MCSettings == Datagrams \cup PseudoTcps \cup Streams

==============================================================================
