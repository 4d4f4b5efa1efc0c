----------------------------- MODULE Keepalive ------------------------------
(***************************************************************************)
(* Keepalives and consent (conncheck.c, component.c): the agent's          *)
(* keepalive timer, the consent tick of every selected pair, the answers   *)
(* of the peer and the operations that change the selected pair.           *)
(*                                                                         *)
(* Time is discrete and every instant is relative, which keeps the state   *)
(* finite: a timer holds what is left of its delay (0: due, None: not      *)
(* armed), comp[c].age holds how long ago last_received was (None: never). *)
(* A timer that is due runs before time passes on.                         *)
(*                                                                         *)
(* comp[c], a component:                                                   *)
(*   sel    the selected pair, 0: none        prio   its priority          *)
(*   have   remote_consent.have               age    of last_received      *)
(*   tick   remote_consent.tick_source        next   keepalive.next_tick   *)
(*   host   keepalive_next_tick of its host candidate                      *)
(*   st     the component's state             agent  its StunAgent         *)
(*   quiet  how long no keepalive has left for the selected pair           *)
(* peer[c], the component of the peer, which runs the same code:           *)
(*   local  have_local_consent                                             *)
(*   user   its credentials are still the ones this agent knows            *)
(***************************************************************************)
EXTENDS StunAgent, Sequences, FiniteSetsExt

CONSTANTS
  Components,        \* 1 .. n, in the order of the agent's lists
  Ta,                \* agent->timer_ta, the pace of the keepalives
  ConsentDelays,     \* CONSENT_DEFAULT * 0.8 .. 1.2, at least MIN_CONSENT
  MinConsent,        \* NICE_AGENT_TIMER_MIN_CONSENT_INTERVAL
  Tr,                \* NICE_AGENT_TIMER_TR_DEFAULT
  ConsentTimeout,    \* NICE_AGENT_TIMER_CONSENT_TIMEOUT
  KeepaliveTimeout,  \* NICE_AGENT_TIMER_KEEPALIVE_TIMEOUT
  MaxInFlight,       \* bound: messages under way while time passes
  None

ASSUME KeepaliveAssumption ==
  /\ 1 \in Components /\ Components \subseteq Nat \ {0} /\ IsFiniteSet(Components)
  /\ {Ta, MinConsent, Tr, ConsentTimeout, KeepaliveTimeout} \cup ConsentDelays
       \subseteq Nat \ {0}
  /\ ConsentDelays # {} /\ MaxInFlight \in Nat
  /\ None \notin Int

VARIABLES
  sc,      \* the settings of the agent and what the application will do
  comp,    \* the components
  timer,   \* keepalive_timer_source
  net,     \* the STUN messages under way
  peer,    \* the components of the peer
  todo     \* the application's calls still to come, in order

kvars == <<sc, comp, timer, net, peer, todo>>

(* Timers ****************************************************************)

\* NICE_AGENT_DO_KEEPALIVE_CONNCHECKS.
Connchecks == sc.fresh \/ sc.conncheck \/ sc.compat = "google"

Timeout == IF sc.fresh THEN ConsentTimeout ELSE KeepaliveTimeout

Cap == Max({ConsentTimeout, KeepaliveTimeout, Tr} \cup ConsentDelays)
         + 2 * Ta * Cardinality(Components) + 2

Older(age)    == IF age = None THEN None ELSE Min({age + 1, Cap})
Nearer(left)  == IF left \in {None, 0} THEN left ELSE left - 1

(* Selecting a pair ******************************************************)

NewComponent(flags) ==
  [sel |-> 0, prio |-> 0, have |-> FALSE, age |-> None, tick |-> None,
   next |-> None, host |-> None, st |-> "connecting",
   agent |-> InitAgent(flags), quiet |-> 0]

\* nice_component_clear_selected_pair, and the fields of the new pair.
SelectedPair(k, p, prio) ==
  [k EXCEPT !.sel = p, !.prio = prio, !.have = TRUE, !.age = None,
            !.tick = None, !.next = None, !.quiet = 0]

(* The consent tick ******************************************************)

\* Mutant of ConsentTicked: the consent is never given up.
ConsentTickedForever(k) ==
  [k EXCEPT !.tick = IF k.age > Timeout THEN None ELSE Timeout - k.age + 1]

\* priv_conn_remote_consent_tick_agent_locked.  A source fires once its delay
\* is over, so the clock it reads has moved past the instant: one unit more.
ConsentTicked(k) ==
  IF k.age > Timeout
  THEN [k EXCEPT !.tick = None, !.have = FALSE, !.st = "failed"]
  ELSE [k EXCEPT !.tick = Timeout - k.age + 1]

ConsentTick(c) ==
  /\ comp[c].tick = 0
  /\ comp' = [comp EXCEPT ![c] = ConsentTicked(@)]
  /\ UNCHANGED <<sc, timer, net, peer, todo>>

(* The keepalive tick, on components cs ***********************************)

\* The selected pairs that are kept alive at all.
KeptPairs(cs) == {c \in Components : cs[c].sel # 0 /\ (sc.udp \/ Connchecks)}

\* A keepalive is due, and its user name can be made: a connectivity check
\* needs the credentials of both sides, an indication needs none.
Sending(cs) == {c \in KeptPairs(cs) : /\ cs[c].next \in {None, 0}
                                      /\ Connchecks => sc.creds}

\* stun_usage_ice_conncheck_create returns 0: no room for the transaction.
CreateFails(k) == Connchecks /\ ~CanFinish(k.agent, "request")

\* The components that can send now (the first one does), and those the tick
\* came to before it in vain.
Senders(cs) == {c \in Sending(cs) : ~CreateFails(cs[c])}
Errors(cs)  == {c \in Sending(cs) : CreateFails(cs[c]) /\ \A d \in Senders(cs) : c < d}

\* The host candidates that are kept alive at the STUN server meanwhile.
Connecting(cs)  == {c \in Components : sc.stunServer /\ cs[c].st \in {"gathering", "connecting"}}
HostSenders(cs) == {c \in Connecting(cs) : cs[c].host \in {None, 0}}

FreeId(cs, c) == Min((1 .. 2 * MaxSavedIds + 4)
                      \ ({s[2] : s \in cs[c].agent.ids}
                           \cup {m.id : m \in {n \in net : n.c = c}}))

\* The component after a keepalive connectivity check of its selected pair.
CheckSent(k, id, delay) ==
  LET sent == [k EXCEPT !.next = delay, !.quiet = 0,
                        !.agent = Finished(@, "request", "binding", id)]
  IN  IF k.have
      THEN ConsentTicked([sent EXCEPT !.age = IF @ = None THEN 0 ELSE @])
      ELSE sent

\* next_timer_tick when nothing is sent: the nearest keepalive, or the
\* interval of the agent when that comes first.
NearestTick(cs) ==
  Min({IF sc.fresh THEN MinConsent ELSE Tr}
        \cup (({cs[c].next : c \in KeptPairs(cs)} \cup {cs[c].host : c \in Connecting(cs)})
                \ {None}))

\* An error ends the tick without arming the timer, whatever else was sent;
\* t is what the caller leaves of the timer then.
Rearmed(cs, t, delay) == IF Errors(cs) = {} THEN delay ELSE t

\* Case 1: the first pair that is due, with a connectivity check ...
SendCheck(cs, t) ==
  /\ Senders(cs) # {} /\ Connchecks
  /\ LET c == Min(Senders(cs)) IN
     \E delay \in ConsentDelays :
       /\ comp' = [cs EXCEPT ![c] = CheckSent(@, FreeId(cs, c), delay)]
       /\ net' = net \cup {[c |-> c, id |-> FreeId(cs, c), pair |-> cs[c].sel,
                            kind |-> "request"]}
  /\ timer' = Rearmed(cs, t, Ta)

\* ... or with a binding indication.
SendIndication(cs, t) ==
  /\ Senders(cs) # {} /\ ~Connchecks
  /\ comp' = [cs EXCEPT ![Min(Senders(cs))] = [@ EXCEPT !.next = Tr, !.quiet = 0]]
  /\ timer' = Rearmed(cs, t, Ta)
  /\ UNCHANGED net

\* Case 2: no pair is due, the first host candidate that is.
SendHost(cs, t) ==
  /\ Senders(cs) = {} /\ HostSenders(cs) # {}
  /\ comp' = [cs EXCEPT ![Min(HostSenders(cs))].host = Tr]
  /\ timer' = Rearmed(cs, t, Ta)
  /\ UNCHANGED net

\* Mutant of SendNone: the keepalives of the other components are forgotten.
SendNoneLate(cs, t) ==
  /\ Senders(cs) = {} /\ HostSenders(cs) = {}
  /\ comp' = cs
  /\ timer' = Rearmed(cs, t, Cap)
  /\ UNCHANGED net

SendNone(cs, t) ==
  /\ Senders(cs) = {} /\ HostSenders(cs) = {}
  /\ comp' = cs
  /\ timer' = Rearmed(cs, t, NearestTick(cs))
  /\ UNCHANGED net

\* priv_conn_keepalive_tick_unlocked.
SendKeepalive(cs, t) ==
  SendCheck(cs, t) \/ SendIndication(cs, t) \/ SendHost(cs, t) \/ SendNone(cs, t)

\* priv_conn_keepalive_tick_agent_locked: the timer is gone after an error.
KeepaliveTick ==
  /\ timer = 0
  /\ SendKeepalive(comp, None)
  /\ UNCHANGED <<sc, peer, todo>>

(* STUN messages *********************************************************)

\* The message of an answer, as the StunAgent sees it.  Only the answers of
\* an authenticated peer carry an integrity that verifies.
Stun(m) ==
  [cls |-> IF m.kind = "request" THEN "request"
           ELSE IF m.kind = "ok" THEN "response" ELSE "error",
   mth |-> "binding", id |-> m.id, cookie |-> TRUE, fpr |-> TRUE,
   user |-> IF m.kind # "request" THEN "none"
            ELSE IF peer[m.c].user THEN "good" ELSE "bad",
   mi   |-> IF m.kind = "401" THEN "none" ELSE "good",
   err  |-> IF m.kind = "403" THEN 403 ELSE IF m.kind = "401" THEN 401 ELSE 0,
   unk  |-> FALSE]

\* What conn_check_handle_inbound_stun of the peer answers to a request.
Reply(m) ==
  LET status == Status(InitAgent(AgentFlags(sc.compat, sc.fresh)), Stun(m))
  IN  CASE status = "UNAUTHORIZED"                 -> "401"
        [] status = "SUCCESS" /\ ~peer[m.c].local  -> "403"
        [] OTHER                                   -> "ok"

Answer(m) ==
  /\ m \in net /\ m.kind = "request"
  /\ net' = (net \ {m}) \cup {[m EXCEPT !.kind = Reply(m)]}
  /\ UNCHANGED <<sc, comp, timer, peer, todo>>

\* The network loses a message, where it may.
Lose(m) ==
  /\ sc.lossy /\ m \in net
  /\ net' = net \ {m}
  /\ UNCHANGED <<sc, comp, timer, peer, todo>>

\* Mutant of Refreshed: a late answer gives a lost consent back.
RefreshedRestores(k) == [k EXCEPT !.age = 0, !.have = TRUE]

\* priv_map_reply_to_keepalive_conncheck.
Refreshed(k) == [k EXCEPT !.age = 0]

\* An answer FORBIDDEN from the remote address of the selected pair.
Revoked(k, pair) ==
  IF k.sel = pair THEN [k EXCEPT !.have = FALSE, !.tick = None, !.st = "failed"]
                  ELSE k

\* conn_check_handle_inbound_stun with an answer to a keepalive.  A message
\* may come twice, where the network repeats messages.
Receive(m) ==
  /\ m \in net /\ m.kind # "request"
  /\ LET status == Status(comp[m.c].agent, Stun(m))
         k      == [comp[m.c] EXCEPT !.agent = Validated(@, Stun(m))]
     IN  comp' = [comp EXCEPT ![m.c] =
           CASE status = "FORBIDDEN" -> Revoked(k, m.pair)
             [] status = "SUCCESS"   -> Refreshed(k)
             [] OTHER                -> k]
  /\ net' \in {net \ {m}} \cup (IF sc.dup THEN {net} ELSE {})
  /\ UNCHANGED <<sc, timer, peer, todo>>

(* The applications ******************************************************)

Call(op) ==
  /\ todo # <<>> /\ Head(todo).op = op
  /\ todo' = Tail(todo)

\* conn_check_update_selected_pair: a nominated pair of a higher priority is
\* selected, and kept alive at once.
UpdateSelectedPair ==
  /\ Call("nominate")
  /\ LET o == Head(todo) k == comp[o.c] IN
     IF o.prio > k.prio
     THEN SendKeepalive([comp EXCEPT ![o.c] =
                           [SelectedPair(k, o.pair, o.prio) EXCEPT !.st = "ready"]],
                        timer)
     ELSE UNCHANGED <<comp, timer, net>>
  /\ UNCHANGED <<sc, peer>>

\* nice_agent_set_selected_pair, nice_agent_set_selected_remote_candidate:
\* the pair is kept alive at the next tick.
SetSelectedPair ==
  /\ Call("select")
  /\ LET o == Head(todo) IN
     comp' = [comp EXCEPT ![o.c] =
                [SelectedPair(@, o.pair, o.prio) EXCEPT !.st = "ready"]]
  /\ UNCHANGED <<sc, timer, net, peer>>

\* nice_agent_restart: the selected pairs stay in use, the StunAgents forget
\* the transactions under way.
Restart ==
  /\ Call("restart")
  /\ comp' = [c \in Components |->
                [comp[c] EXCEPT !.prio = 0, !.st = "gathering",
                                !.agent = InitAgent(comp[c].agent.flags)]]
  /\ UNCHANGED <<sc, timer, net, peer>>

\* priv_schedule_next starts the timer when connectivity checks begin.
ScheduleNext ==
  /\ Call("schedule")
  /\ timer' = IF timer = None THEN Ta ELSE timer
  /\ UNCHANGED <<sc, comp, net, peer>>

\* nice_agent_consent_lost at the peer.
ConsentLost ==
  /\ Call("consent_lost") /\ sc.fresh
  /\ peer' = [peer EXCEPT ![Head(todo).c].local = FALSE]
  /\ UNCHANGED <<sc, comp, timer, net>>

\* nice_agent_restart at the peer: new credentials, consent again.
PeerRestart ==
  /\ Call("peer_restart")
  /\ peer' = [c \in Components |-> [local |-> TRUE, user |-> FALSE]]
  /\ UNCHANGED <<sc, comp, timer, net>>

(* Time ******************************************************************)

\* Nothing is due.  The answers of a prompt peer do not wait.
Pass ==
  /\ timer # 0 /\ \A c \in Components : comp[c].tick # 0
  /\ Cardinality(net) <= (IF sc.lossy THEN MaxInFlight ELSE 0)
  /\ comp' = [c \in Components |->
                [comp[c] EXCEPT !.age = Older(@), !.tick = Nearer(@), !.next = Nearer(@),
                                !.host = Nearer(@),
                                !.quiet = IF comp[c].sel = 0 THEN 0 ELSE Older(@)]]
  /\ timer' = Nearer(timer)
  /\ UNCHANGED <<sc, net, peer, todo>>
=============================================================================
