---------------------------- MODULE MCStunTimer ----------------------------
(***************************************************************************)
(* Small instances of StunTimer: the default timeout of timer.h, and others *)
(* that make the microseconds carry; steps of the clock that make callers  *)
(* poll late.                                                              *)
(***************************************************************************)
EXTENDS StunTimer

MCInitialTimeouts == {1, 500, 501}
MCMaxRetransmissions == 1..4
MCTickSteps == {250001, 999000}
MCStartTimes == {0, 499999, 500000, 999999}
=============================================================================
