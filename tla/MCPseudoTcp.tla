---------------------------- MODULE MCPseudoTcp ----------------------------
(* The scenarios PseudoTcp is checked in.  A is the side that sends.         *)
EXTENDS PseudoTcp

Default == [finAck |-> TRUE, nagle |-> FALSE, ackDelay |-> TRUE, mtu |-> 1,
            rcvBuf |-> 4, sndBuf |-> 4]
Both(a, b) == [e \in {A, B} |-> IF e = A THEN a ELSE b]

\* Nothing but A's data, no fault.
Quiet(app, sizes) ==
    [app |-> Both(app, 0), sizes |-> sizes, reads |-> {4},
     options |-> Both(Default, Default), ends |-> Both({}, {}),
     cwnds |-> {4}, net |-> 3, faults |-> 0, errors |-> 0, ticks |-> 0]

\* A long transfer with Nagle and delayed acks, a fault and a run of a clock.
Transfer ==
    [Quiet(4, {1, 2}) EXCEPT
        !.options = Both([Default EXCEPT !.nagle = TRUE], [Default EXCEPT !.nagle = TRUE]),
        !.reads = {2}, !.cwnds = {2, 4}, !.faults = 1, !.ticks = 1, !.net = 2]

\* Four one-byte segments at once and two faults: duplicate acks, fast
\* retransmit and recovery.
Recovery ==
    LET small == [Default EXCEPT !.ackDelay = FALSE, !.mtu = 2]
    IN  [Quiet(4, {4}) EXCEPT !.options = Both(small, small), !.reads = {},
                           !.net = 4, !.faults = 2]

\* WritePacket fails or refuses a packet; B's user shuts down or aborts.
Errors ==
    [Quiet(2, {2}) EXCEPT !.ends = Both({}, {"RD", "RDWR", "force"}),
                          !.errors = 1, !.ticks = 1, !.net = 2]

\* A write fails while a user shuts down with data that Nagle's algorithm held
\* back.
FailingClose ==
    LET nagle == [Default EXCEPT !.nagle = TRUE]
    IN  [Quiet(2, {1}) EXCEPT !.options = Both(nagle, nagle), !.errors = 1, !.net = 1,
                              !.ends = Both({"WR"}, {"WR"})]

\* Both users shut down, with a fault, with runs of the clocks, and with both
\* on a network that holds one packet.
Closing(inFlight, lost, clocks) ==
    [Quiet(1, {1}) EXCEPT !.ends = Both({"WR"}, {"WR"}), !.net = inFlight,
                          !.faults = lost, !.ticks = clocks]

\* Two segments of one size and a FIN, reordered, one of them repeated.
Repeated ==
    [Quiet(4, {2}) EXCEPT !.ends = Both({"WR"}, {}), !.faults = 1]

\* A does not know FIN-ACK.
Plain ==
    [Quiet(2, {2}) EXCEPT !.options = Both([Default EXCEPT !.finAck = FALSE], Default),
                          !.ends = Both({"close"}, {"WR", "force"}), !.net = 2,
                          !.faults = 1, !.ticks = 1]

\* Clocks that never stop, for liveness, and a receive buffer of one byte, so
\* that the window closes after each segment.
Unbounded(inFlight, lost) ==
    LET small == [Default EXCEPT !.nagle = TRUE, !.rcvBuf = 1, !.sndBuf = 2]
    IN  [Quiet(2, {2}) EXCEPT !.options = Both(small, small), !.net = inFlight,
                              !.faults = lost, !.ticks = -1]

MCScenarios == {Transfer, Recovery, Errors, FailingClose, Closing(2, 1, 0), Closing(2, 0, 1),
                Closing(1, 0, 2), Repeated, Plain, Unbounded(1, 2), Unbounded(2, 0)}
MCRepeated == {Repeated}
MCMss == <<2, 1>>
=============================================================================
