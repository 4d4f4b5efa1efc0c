-------------------------- MODULE MCPseudoTcpRecv --------------------------
(* A stream of MaxPos + MaxLen bytes, all different, so that a byte in the   *)
(* wrong place is a wrong byte; segments of up to MaxLen bytes of it.        *)
EXTENDS PseudoTcpRecv

CONSTANTS MaxPos, MaxLen

MCStream(i) == i + 1
MCStarts == 0..MaxPos
MCLengths == 0..MaxLen
=============================================================================
