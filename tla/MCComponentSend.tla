-------------------------- MODULE MCComponentSend ---------------------------
(***************************************************************************)
(* Instances of ComponentSend for TLC.  Some settings let time pass and    *)
(* watch keepalives and consent, the others let time stand still and watch *)
(* the writers.                                                            *)
(***************************************************************************)
EXTENDS ComponentSend

MCComponents == 1 .. 2
MCConsentDelays == {2, 3}
MCPairs == 1 .. 2

Op(op) == [op |-> op, c |-> 1, pair |-> 1, prio |-> 1]
Nominate(c, p) == [op |-> "nominate", c |-> c, pair |-> p, prio |-> p]

Base ==
  [compat |-> "rfc5245", fresh |-> TRUE, conncheck |-> FALSE, udp |-> TRUE,
   creds |-> TRUE, stunServer |-> FALSE, lossy |-> FALSE, dup |-> FALSE, timed |-> TRUE,
   api |-> "none", mode |-> "udp", spurious |-> FALSE, fails |-> FALSE, breaks |-> FALSE,
   ends |-> <<Count>>,
   todo |-> <<Op("schedule"), Nominate(1, 1), Nominate(2, 1)>>]

\* Keepalives and consent.
Timed ==
  {[Base EXCEPT !.todo = @ \o <<Nominate(1, 2), Nominate(1, 1)>>],
   [Base EXCEPT !.todo = @ \o <<Op("restart")>>],
   [Base EXCEPT !.dup = TRUE, !.todo = <<Nominate(1, 1), Op("consent_lost"), Nominate(1, 2)>>],
   [Base EXCEPT !.todo = @ \o <<Op("peer_restart")>>],
   [Base EXCEPT !.compat = "google", !.fresh = FALSE, !.stunServer = TRUE],
   [Base EXCEPT !.fresh = FALSE, !.conncheck = TRUE, !.udp = FALSE,
                !.todo = <<Nominate(1, 1), Op("select")>>],
   [Base EXCEPT !.fresh = FALSE, !.stunServer = TRUE],
   [Base EXCEPT !.fresh = FALSE, !.stunServer = TRUE, !.udp = FALSE],
   [Base EXCEPT !.creds = FALSE, !.todo = <<Op("schedule"), Op("select")>>],
   [Base EXCEPT !.lossy = TRUE, !.todo = <<Nominate(1, 1), Op("consent_lost")>>],
   [Base EXCEPT !.lossy = TRUE, !.todo = <<Nominate(1, 1), Nominate(1, 2)>>]}

\* Writers.
Untimed ==
  {[Base EXCEPT !.timed = FALSE, !.fresh = (Len(t) = 3), !.api = a, !.mode = m,
                !.udp = (m = "ptcp"), !.todo = t, !.spurious = (Len(t) = 1),
                !.fails = (Len(t) = 1)] :
     a \in {"stream", "poll"}, m \in {"ptcp", "tcp"},
     t \in {<<Nominate(1, 1)>>,
            <<Nominate(1, 1), Op("remove")>>,
            <<Nominate(1, 1), Op("cancel")>>,
            <<Nominate(1, 1), Op("close")>>,
            <<Op("consent_lost"), Nominate(1, 1), Nominate(1, 2)>>}}

\* Connections that break, and messages of several buffers.
Broken ==
  {[Base EXCEPT !.timed = FALSE, !.fresh = FALSE, !.api = a, !.mode = "tcp", !.udp = FALSE,
                !.breaks = TRUE, !.todo = <<Nominate(1, 1), Nominate(1, 2)>>] :
     a \in {"stream", "poll"}}
Buffers ==
  {[Base EXCEPT !.timed = FALSE, !.fresh = FALSE, !.api = "messages", !.mode = m,
                !.udp = (m = "ptcp"), !.breaks = TRUE, !.ends = e,
                !.todo = <<Nominate(1, 1)>>] :
     m \in {"ptcp", "tcp"}, e \in {<<1, 4>>, <<2, 4>>}}

MCSettings == Timed \cup Untimed \cup Broken \cup Buffers
=============================================================================
