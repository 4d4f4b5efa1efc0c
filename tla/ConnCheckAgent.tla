--------------------------- MODULE ConnCheckAgent ---------------------------
(***************************************************************************)
(* An ICE agent that runs connectivity checks (libnice/agent/conncheck.c): *)
(* the timer callback that paces the checks and nominates a pair, the      *)
(* handling of STUN requests and responses, and the calls that tell the    *)
(* agent the candidates and the credentials of its peer.                   *)
(*                                                                         *)
(* Each is an operator on the record of an agent; the messages it sends    *)
(* are collected in the field `out`.                                       *)
(***************************************************************************)
EXTENDS ConnCheckList

CONSTANT IdleTicks     \* idle_timeout / timer_ta

ASSUME AgentAssumption == IdleTicks \in Nat \ {0}

-----------------------------------------------------------------------------
(* Forming pairs.                                                          *)

\* priv_conn_check_unfreeze_maybe
UnfreezeMaybe(g, p) ==
    IF p.state = "FROZEN"
       /\ \E q \in ToSet(g.conncheck_list) : q.state = "SUCCEEDED" /\ q.foundation = p.foundation
    THEN [p EXCEPT !.state = "WAITING"] ELSE p

\* priv_limit_conn_check_list_size
LimitConnCheckListSize(g) ==
    LET l == g.conncheck_list
    IN  FreePairs(g, {Key(l[i]) : i \in {j \in DOMAIN l :
                        \/ l[j].state = "FAILED"
                        \/ j > g.max_conn_checks /\ l[j].state = "FROZEN"}})

\* A component with a new pair k, unless the limit removed it, has work to do.
HasNewPair(g, k, c) ==
    IF k \notin PairKeys(g) THEN g
    ELSE SignalState(g, c, IF g.state[c] \in {"CONNECTED", "READY"}
                           THEN "CONNECTED" ELSE "CONNECTING")

\* priv_conn_check_add_for_candidate_pair_matched and priv_add_new_check_pair
AddPair(g, local, remote, state) ==
    LET c == local.addr[2]
        p == NewPair(g, local, remote, state)
        g1 == ScheduleNext([g EXCEPT !.conncheck_list = InsertSorted(@, UnfreezeMaybe(g, p))])
    IN  IF p.priority < g.selected_pair[c].priority THEN g
        ELSE HasNewPair(LimitConnCheckListSize(g1), Key(p), c)

\* conn_check_add_for_candidate_pair: no pair starts from a reflexive candidate.
AddForCandidatePair(g, local, remote) ==
    IF \/ local.addr[2] # remote.addr[2]
       \/ local.type \in {"SERVER_REFLEXIVE", "PEER_REFLEXIVE"}
    THEN g ELSE AddPair(g, local, remote, "FROZEN")

\* conn_check_add_for_candidate: a learned candidate is paired with none.
AddForCandidate(g, remote) ==
    LET add(h, l) == AddForCandidatePair(h, l, remote)
    IN  IF remote.type = "PEER_REFLEXIVE" THEN g
        ELSE FoldLeft(add, g, g.local_candidates)

-----------------------------------------------------------------------------
(* Sending checks.                                                         *)

\* A STUN request of transaction t over the pair p.
Request(g, p, t) ==
    [kind |-> "request", sock |-> p.sockptr, to |-> p.remote, id |-> t.id,
     controlling |-> t.controlling, use_candidate |-> t.use_candidate,
     priority |-> p.stun_priority, tie |-> g.tie_breaker]

\* conn_check_send: `sent` is whether the socket takes the message.
ConnCheckSend(g, k, sent) ==
    LET p == Pair(g, k)
        t == [id |-> g.next_id, left |-> Transmissions - 1, saved |-> TRUE,
              controlling |-> g.controlling_mode,
              use_candidate |-> IF g.nomination_mode = "AGGRESSIVE"
                                THEN g.controlling_mode
                                ELSE p.use_candidate_on_next_check]
        p1 == [p EXCEPT !.stun_transactions = <<t>> \o @, !.retransmit = TRUE]
    IN  IF ~g.remote_credentials THEN g
        ELSE IF sent
        THEN [SetPair(g, p1) EXCEPT !.out = Append(@, Request(g, p, t))]
        ELSE SetPair(g, RemoveStunTransaction(p1, t.id))

\* priv_conn_check_initiate
Initiate(g, k, sent) ==
    LET g1 == ConnCheckSend(SetPair(g, [Pair(g, k) EXCEPT !.state = "IN_PROGRESS"]), k, sent)
    IN  IF sent /\ g.remote_credentials THEN g1
        ELSE GiveUp(g1, k)

-----------------------------------------------------------------------------
(* The timer callback, priv_conn_check_tick_agent_locked.  A step that     *)
(* sends a message leaves one in `out`, and the following ones are skipped.*)

\* priv_conn_check_triggered_check
TriggeredCheck(g, sent) ==
    IF g.triggered_check_queue = <<>> THEN g
    ELSE LET k == Head(g.triggered_check_queue)
         IN  IF k \notin PairKeys(g) THEN Fail(g, "freed pair")
             ELSE Initiate(RemoveFromTriggeredQueue(g, k), k, sent)

\* Whether a transaction whose timer has run out is transmitted again.
Retransmits(p, t, due) == t.id \in due /\ t.left > 0 /\ p.retransmit

\* priv_conn_check_tick_stream, for one pair: only the latest transaction is
\* retransmitted, every other one that is due is over.
TickPair(g, k, due) ==
    LET p == Pair(g, k)
        t == p.stun_transactions[1]
        rest == SelectSeq(p.stun_transactions, LAMBDA s : s.id \notin due)
    IN  IF k \notin PairKeys(g) \/ g.out # <<>> \/ p.stun_transactions = <<>> THEN g
        ELSE IF Retransmits(p, t, due)
        THEN [SetPair(g, [p EXCEPT !.stun_transactions[1].left = @ - 1])
                EXCEPT !.out = Append(@, Request(g, p, t))]
        ELSE IF rest # <<>>
        THEN SetPair(g, [p EXCEPT !.stun_transactions = rest])
        ELSE DemandPair(GiveUp(g, k), k)

TickStream(g, due) ==
    LET tick(h, p) == TickPair(h, Key(p), due)
    IN  IF g.out # <<>> THEN g ELSE FoldLeft(tick, g, g.conncheck_list)

\* priv_conn_check_unfreeze_next: one pair per foundation.
UnfreezeNext(g) ==
    LET l == g.conncheck_list
        first(i) == /\ l[i].state = "FROZEN"
                    /\ \A j \in 1..i - 1 :
                        l[j].state # "FROZEN" \/ l[j].foundation # l[i].foundation
        thaw(i) == IF first(i) THEN [l[i] EXCEPT !.state = "WAITING"] ELSE l[i]
    IN  [g EXCEPT !.conncheck_list = AsSeq([i \in DOMAIN l |-> thaw(i)])]

\* priv_conn_check_find_next_waiting
NextWaiting(g) == SelectInSeq(g.conncheck_list, LAMBDA p : p.state = "WAITING")

\* priv_conn_check_ordinary_check
OrdinaryCheck(g, sent) ==
    LET g1 == IF NextWaiting(g) = 0 THEN UnfreezeNext(g) ELSE g
    IN  IF g.out # <<>> \/ NextWaiting(g1) = 0 THEN g
        ELSE Initiate(g1, Key(g1.conncheck_list[NextWaiting(g1)]), sent)

-----------------------------------------------------------------------------
(* Nomination, and the end of the checks.                                  *)

\* The valid pairs of a component that may still be nominated, ...
Nominable(g, c) ==
    SelectSeq(PairsOf(g, c), LAMBDA p :
        ~p.nominated /\ ~p.use_candidate_on_next_check /\ p.valid)

\* ... and the pair whose check produced a valid pair.
Parent(p) == IF p.succeeded_pair = None THEN Key(p) ELSE p.succeeded_pair

\* Mutant of OtherComponentPair: each component is on its own.
OtherComponentPairIgnored(g, c) == 0

\* A pair nominated, or about to be, in another component.
OtherComponentPair(g, c) ==
    SelectInSeq(g.conncheck_list, LAMBDA p :
        /\ p.component # c
        /\ p.nominated \/ (p.use_candidate_on_next_check /\ p.state # "FAILED"))

\* Two pairs between the same hosts, in different components.
SameHosts(k, p) == k[1][1] = p.local[1] /\ k[2][1] = p.remote[1]

\* The stopping criterion of regular nomination.
StoppingCriterion(g, c, first, matched) ==
    LET ps == ToSet(PairsOf(g, c))
        valid == {p \in ps : p.valid}
        host(p) == /\ CandidateAt(g.local_candidates, p.local).type = "HOST"
                   /\ CandidateAt(g.remote_candidates, p.remote).type = "HOST"
    IN  \/ first /\ \E p \in valid : host(p) \/ valid # {p}
        \/ matched
        \/ \A p \in ps : p.state \notin {"FROZEN", "WAITING", "IN_PROGRESS"}

\* priv_conn_check_tick_stream_nominate, for one component: choose a pair and
\* queue its check again, this time with USE-CANDIDATE.
NominateComponent(g, c) ==
    LET ps == Nominable(g, c)
        o == OtherComponentPair(g, c)
        match == IF o = 0 THEN 0
                 ELSE SelectInSeq(ps, LAMBDA p : SameHosts(Parent(p), g.conncheck_list[o]))
        k == Parent(ps[IF match > 0 THEN match ELSE 1])
        seen == 1..(IF o = 0 THEN 1 ELSE IF match > 0 THEN match ELSE Len(ps))
        sound(p) == /\ p.succeeded_pair # None => p.state = "DISCOVERED"
                    /\ Parent(p) \in PairKeys(g) /\ Pair(g, Parent(p)).state = "SUCCEEDED"
    IN  IF (\E p \in ToSet(PairsOf(g, c)) : p.use_candidate_on_next_check) \/ ps = <<>>
        THEN g
        ELSE IF \E i \in seen : ~sound(ps[i]) THEN Fail(g, "nominable pair")
        ELSE IF StoppingCriterion(g, c, o = 0, match > 0)
        THEN AddToTriggeredQueue(SetPair(g, [Pair(g, k) EXCEPT
                                    !.use_candidate_on_next_check = TRUE]), k)
        ELSE g

TickStreamNominate(g) ==
    LET done == SelectSeq(g.conncheck_list, LAMBDA p : p.state \in {"SUCCEEDED", "DISCOVERED"})
        nominated == SelectSeq(done, LAMBDA p : p.nominated)
    IN  IF /\ Len(nominated) < Len(g.state)
           /\ Len(nominated) < Len(done)
           /\ g.nomination_mode = "REGULAR" /\ g.controlling_mode
        THEN FoldLeft(NominateComponent, g, [c \in Components(g) |-> c])
        ELSE g

\* priv_update_check_list_failed_components, for one component
UpdateFailedComponent(g, c) ==
    IF /\ g.conncheck_list # <<>> /\ ~g.discovering
       /\ \A p \in ToSet(PairsOf(g, c)) :
            ~p.nominated /\ p.state \in {"FAILED", "SUCCEEDED", "DISCOVERED"}
       /\ \E r \in ToSet(g.remote_candidates) : r.addr[2] = c
    THEN SignalState(g, c, "FAILED") ELSE g

\* The end of the callback, with the agent as the checks left it (g) and as
\* the nomination did (h): the timer stops when nothing has happened for long.
EndTick(g, h) ==
    LET going == \/ g.out # <<>>
                 \/ \E p \in ToSet(g.conncheck_list) : p.state = "IN_PROGRESS"
                 \/ h # g
        idle == IF going THEN 0 ELSE g.idle_delay + 1
    IN  IF idle < IdleTicks THEN [h EXCEPT !.idle_delay = idle]
        ELSE [FoldLeft(UpdateFailedComponent, h, [c \in Components(h) |-> c])
                EXCEPT !.conncheck_timer = FALSE, !.idle_delay = 0]

\* priv_conn_check_tick_agent_locked: `due` are the transactions whose timer
\* has run out, `failing` the new checks the socket does not take.
TickAgent(g, due, failing) ==
    LET g1 == OrdinaryCheck(TickStream(TriggeredCheck(g, "triggered" \notin failing), due),
                            "ordinary" \notin failing)
    IN  EndTick(g1, TickStreamNominate(g1))

-----------------------------------------------------------------------------
(* Reacting to the checks of the peer.                                     *)

\* conn_check_unfreeze_related
UnfreezeRelated(g, k) ==
    LET thaw(q) == IF q.state = "FROZEN" /\ q.foundation = Pair(g, k).foundation
                   THEN [q EXCEPT !.state = "WAITING"] ELSE q
    IN  [g EXCEPT !.conncheck_list = AsSeq([i \in DOMAIN @ |-> thaw(@[i])])]

\* The nominated pair n is valid, and may be the one its component uses.
UseNominated(g, c, n) ==
    LET g1 == UpdateSelectedPair(SignalFrom(g, c, {"FAILED"}, "CONNECTING"), c, n)
    IN  SignalFrom(g1, c, {"CONNECTING"}, "CONNECTED")

\* priv_mark_pair_nominated, for the pair of two candidates
MarkNominated(g, k) ==
    LET q == Pair(g, k)
        disc == q.state = "SUCCEEDED" /\ q.discovered_pair # None
        n == IF disc THEN q.discovered_pair ELSE k
        p == Pair(g, n)
        c == p.component
        p1 == [p EXCEPT !.mark_nominated_on_response_arrival =
                            @ \/ Queued(g, n) \/ p.state = "IN_PROGRESS",
                        !.nominated = @ \/ p.valid]
        g1 == SetPair(g, p1)
        g2 == IF p.valid THEN UseNominated(g1, c, n) ELSE g1
    IN  IF g.controlling_mode \/ k \notin PairKeys(g) THEN g
        ELSE IF n \notin PairKeys(g) THEN Fail(g, "freed pair")
        ELSE IF disc /\ p.state # "DISCOVERED" THEN Fail(g, "discovered pair is DISCOVERED")
        ELSE IF p1.nominated THEN DemandPair(UpdateCheckListStateForReady(g2, c), k)
        ELSE g1

\* Mutant of Reopen: a failed component is taken to be connected.
ReopenConnected(g, c) ==
    IF g.state[c] \in {"FAILED", "READY"} THEN SignalState(g, c, "CONNECTED") ELSE g

\* A failed pair is tried again, and its component goes on.
Reopen(g, c) ==
    CASE g.state[c] = "FAILED" -> SignalState(g, c, "CONNECTING")
      [] g.state[c] = "READY" -> SignalState(g, c, "CONNECTED")
      [] OTHER -> g

\* priv_schedule_triggered_check, when the pair is in the list ...
TriggerPair(g, p) ==
    LET c == p.component
        g1 == AddToTriggeredQueue(g, Key(p))
        higher == p.priority > g.selected_pair[c].priority
    IN  CASE p.state \in {"WAITING", "FROZEN"} -> g1
          [] p.state = "IN_PROGRESS" /\ higher -> g1
          [] p.state = "FAILED" /\ higher -> Reopen(g1, c)
          [] OTHER -> g

\* ... and when it has to be added first: the limit may have removed it.
TriggerNew(g, k) == IF k \in PairKeys(g) THEN AddToTriggeredQueue(g, k) ELSE g

ScheduleTriggered(g, sock, raddr) ==
    LET i == SelectInSeq(g.conncheck_list, LAMBDA p : p.remote = raddr /\ p.sockptr = sock)
        p == g.conncheck_list[i]
        local == LocalCandidate(g, sock)
        k == <<local.addr, raddr>>
        g1 == AddPair(g, local, CandidateAt(g.remote_candidates, raddr), "WAITING")
    IN  IF i = 0 THEN TriggerNew(g1, k)
        ELSE IF p.succeeded_pair # None /\ p.state # "DISCOVERED"
        THEN Fail(g, "discovered pair is DISCOVERED")
        ELSE IF Parent(p) \notin PairKeys(g) THEN Fail(g, "freed pair")
        ELSE TriggerPair(g, Pair(g, Parent(p)))

\* What follows a request from `from` once the credentials are known.
React(g, sock, from, use_candidate) ==
    LET g1 == ScheduleTriggered(g, sock, from)
    IN  IF use_candidate THEN MarkNominated(g1, <<LocalCandidate(g, sock).addr, from>>)
        ELSE g1

\* Candidates of one type and one host share a foundation.
ReflexiveFoundation(addr) == <<"PEER_REFLEXIVE", addr[1]>>

\* discovery_learn_remote_peer_reflexive_candidate
LearnRemote(g, from, priority) ==
    LET r == [addr |-> from, base |-> from, type |-> "PEER_REFLEXIVE", priority |-> priority,
              stun_priority |-> 0, foundation |-> ReflexiveFoundation(from)]
        g1 == [g EXCEPT !.remote_candidates = Append(@, r)]
    IN  IF CandidateAt(g.remote_candidates, from) # None THEN g
        ELSE IF g.remote_credentials THEN AddForCandidate(g1, r) ELSE g1

\* priv_store_pending_check
StorePendingCheck(g, sock, from, use_candidate) ==
    LET c == sock[2]
        q == Append(g.incoming_checks[c], [sock |-> sock, from |-> from,
                                           use_candidate |-> use_candidate])
    IN  [g EXCEPT !.incoming_checks[c] = IF Len(q) >= 2 * g.max_conn_checks THEN Tail(q) ELSE q]

\* priv_check_for_role_conflict
CheckForRoleConflict(g, control) ==
    IF g.controlling_mode = control THEN g
    ELSE RecalculatePairPriorities([g EXCEPT !.controlling_mode = control])

\* Mutant of RoleAfter: the smaller tie-breaker wins.
RoleAfterSmaller(g, m) ==
    IF m.controlling # g.controlling_mode THEN g.controlling_mode
    ELSE g.tie_breaker <= m.tie

\* stun_usage_ice_conncheck_create_reply: the role the agent takes on, if both
\* claim the same one.
RoleAfter(g, m) ==
    IF m.controlling # g.controlling_mode THEN g.controlling_mode
    ELSE g.tie_breaker >= m.tie

\* conn_check_handle_inbound_stun, for a request that does not authenticate ...
Unauthorized(g, m) ==
    [g EXCEPT !.out = Append(@, [kind |-> "response", sock |-> m.sock, to |-> m.from,
                                 id |-> m.id, result |-> "ERROR", mapped |-> None])]

\* ... and for one that does.
HandleRequest(g, m) ==
    LET refuse == m.controlling = g.controlling_mode /\ RoleAfter(g, m) = g.controlling_mode
        reply == [kind |-> "response", sock |-> m.sock, to |-> m.from, id |-> m.id,
                  result |-> IF refuse THEN "ROLE_CONFLICT" ELSE "SUCCESS", mapped |-> m.from]
        g1 == LearnRemote(CheckForRoleConflict(g, RoleAfter(g, m)), m.from, m.priority)
        g2 == [g1 EXCEPT !.out = Append(@, reply)]
    IN  IF g.remote_credentials THEN React(g2, m.sock, m.from, m.use_candidate)
        ELSE StorePendingCheck(g2, m.sock, m.from, m.use_candidate)

-----------------------------------------------------------------------------
(* The answers to our own checks.                                          *)

\* discovery_add_peer_reflexive_candidate, unless the address is known
LearnLocal(g, p, sock, mapped) ==
    IF CandidateAt(g.local_candidates, mapped) # None THEN g
    ELSE [g EXCEPT !.local_candidates = Append(@,
            [addr |-> mapped, base |-> sock, type |-> "PEER_REFLEXIVE",
             priority |-> p.stun_priority, stun_priority |-> 0,
             foundation |-> ReflexiveFoundation(sock)])]

\* priv_add_peer_reflexive_pair, of the parent pair p
AddPeerReflexivePair(g, p, mapped) ==
    LET d == [NewPair(g, CandidateAt(g.local_candidates, mapped),
                         CandidateAt(g.remote_candidates, p.remote), "DISCOVERED")
                EXCEPT !.nominated = p.nominated, !.stun_priority = p.stun_priority,
                       !.succeeded_pair = Key(p), !.valid = TRUE]
        g1 == SetPair(g, [p EXCEPT !.discovered_pair = Key(d)])
    IN  [g1 EXCEPT !.conncheck_list = InsertSorted(@, d)]

PairSucceed(g, k) ==
    LET p == [FreeAllStunTransactions(Pair(g, k)) EXCEPT !.state = "SUCCEEDED"]
    IN  RemoveFromTriggeredQueue(SetPair(g, p), k)

\* priv_process_response_check_for_reflexive: the check of pair k succeeded,
\* and the peer saw it come from `mapped`.
CheckForReflexive(g, k, sock, mapped) ==
    LET p == Pair(g, k)
        n == <<mapped, p.remote>>
        g1 == IF n = k THEN SetPair(g, [p EXCEPT !.valid = TRUE])
              ELSE IF n \in PairKeys(g)
              THEN SetPair(g, [Pair(g, n) EXCEPT !.state = "DISCOVERED"])
              ELSE AddPeerReflexivePair(LearnLocal(g, p, sock, mapped), p, mapped)
    IN  PairSucceed(g1, k)

\* Mutant of NominatedBy: the controlled agent nominates on its own.
NominatedByAnyone(g, p) ==
    IF g.nomination_mode = "REGULAR" /\ g.controlling_mode
    THEN p.use_candidate_on_next_check ELSE ~p.nominated

\* The rule by which a successful check of p nominates the valid pair.
NominatedBy(g, p) ==
    IF ~g.controlling_mode THEN p.mark_nominated_on_response_arrival
    ELSE IF g.nomination_mode = "REGULAR" THEN p.use_candidate_on_next_check
    ELSE ~p.nominated

\* The check of k nominates the valid pair n, ...
NominateValid(g, k, n) ==
    SetPair(g, [Pair(g, n) EXCEPT !.nominated = @ \/ NominatedBy(g, Pair(g, k))])

\* ... and a nominated pair may be the one its component uses.
UseValid(g, c, n) ==
    IF ~Pair(g, n).nominated THEN g
    ELSE SignalFrom(UpdateSelectedPair(g, c, n), c, ComponentStates \ {"READY"}, "CONNECTED")

\* priv_map_reply_to_conn_check_request, for a success response ...
CheckSucceeded(g, k, m) ==
    LET c == Pair(g, k).component
        n == <<m.mapped, k[2]>>
        g1 == UnfreezeRelated(CheckForReflexive(g, k, m.sock, m.mapped), k)
    IN  UpdateCheckListStateForReady(UseValid(NominateValid(g1, k, n), c, n), c)

\* ... for one without a mapped address: the other checks of the pair go on ...
CheckUnmapped(g, k) ==
    LET c == Pair(g, k).component
        g1 == SetPair(g, [Pair(g, k) EXCEPT !.state = "SUCCEEDED", !.valid = TRUE])
    IN  UpdateCheckListStateForReady(UseValid(NominateValid(UnfreezeRelated(g1, k), k, k), c, k), c)

\* ... for the role conflict of the j-th transaction of p, unless the pair was
\* given up ...
CheckConflicted(g, p, j) ==
    LET t == p.stun_transactions[j]
        g1 == CheckForRoleConflict(SetPair(g, RemoveStunTransaction(p, t.id)), ~t.controlling)
    IN  IF p.retransmit THEN AddToTriggeredQueue(g1, Key(p))
        ELSE SetPair(g, [p EXCEPT !.stun_transactions[j].saved = FALSE])

\* ... and for any response.
HandleResponse(g, m) ==
    LET mine(t) == t.id = m.id /\ t.saved
        i == SelectInSeq(g.conncheck_list, LAMBDA q :
                \E t \in ToSet(q.stun_transactions) : mine(t))
        p == g.conncheck_list[i]
        k == Key(p)
        j == SelectInSeq(p.stun_transactions, mine)
        g1 == SetPair(g, RemoveStunTransaction(p, m.id))
    IN  IF i = 0 THEN g
        ELSE IF m.result = "ROLE_CONFLICT" THEN CheckConflicted(g, p, j)
        ELSE IF m.result = "ERROR" \/ m.from # p.remote THEN GiveUp(g1, k)
        ELSE IF m.result = "SUCCESS" THEN CheckSucceeded(g1, k, m)
        ELSE CheckUnmapped(g1, k)

-----------------------------------------------------------------------------
(* The calls of the application.                                           *)

\* priv_update_pair_foundations, for one pair of the remote candidate
UpdatePairFoundation(g, k) ==
    LET p == Pair(g, k)
        f == <<CandidateAt(g.local_candidates, k[1]).foundation,
               CandidateAt(g.remote_candidates, k[2]).foundation>>
        g1 == SetPair(g, [p EXCEPT !.foundation = f])
        g2 == IF p.state = "SUCCEEDED" THEN UnfreezeRelated(g1, k) ELSE g1
        s == g.selected_pair[p.component]
    IN  IF f = p.foundation THEN g
        ELSE IF <<s.local, s.remote>> = k
        THEN [g2 EXCEPT !.selected_pair[p.component].priority = p.priority]
        ELSE g2

UpdatePairFoundations(g, addr) ==
    LET keys == SelectSeq([i \in DOMAIN g.conncheck_list |-> Key(g.conncheck_list[i])],
                          LAMBDA k : k[2] = addr)
    IN  FoldLeft(UpdatePairFoundation, g, keys)

\* The priorities have changed: another nominated pair may be the best now.
SelectAgain(g, c) ==
    LET i == SelectInSeq(g.conncheck_list, LAMBDA p : p.component = c /\ p.nominated)
        k == Key(g.conncheck_list[i])
        s == g.selected_pair[c]
    IN  IF i = 0 \/ k = <<s.local, s.remote>> THEN g
        ELSE UpdateSelectedPair(Demand(g, s.priority > 0, "no selected pair"), c, k)

\* priv_add_remote_candidate, for a candidate that is known already ...
UpdateRemoteCandidate(g, r) ==
    LET c == r.addr[2]
        same(l) == AsSeq([i \in DOMAIN l |-> IF l[i].addr = r.addr THEN r ELSE l[i]])
        g1 == RecalculatePairPriorities([g EXCEPT !.remote_candidates = same(@)])
    IN  UpdateCheckListStateForReady(SelectAgain(UpdatePairFoundations(g1, r.addr), c), c)

\* ... and for a new one.
AddRemoteCandidate(g, r) ==
    LET old == CandidateAt(g.remote_candidates, r.addr)
    IN  IF old # None /\ old.type \in {"PEER_REFLEXIVE", r.type} THEN UpdateRemoteCandidate(g, r)
        ELSE [AddForCandidate(g, r) EXCEPT !.remote_candidates = Append(@, r)]

\* Mutant of RemoteCandidatesSet: the early checks are forgotten.
RemoteCandidatesSetForgets(g, c) == [g EXCEPT !.incoming_checks[c] = <<>>]

\* conn_check_remote_candidates_set: the early checks are replayed.
RemoteCandidatesSet(g, c) ==
    LET replay(h, i) == React(h, i.sock, i.from, i.use_candidate)
    IN  IF ~g.remote_credentials THEN g
        ELSE [FoldLeft(replay, g, g.incoming_checks[c]) EXCEPT !.incoming_checks[c] = <<>>]

\* nice_agent_set_remote_candidates
SetRemoteCandidates(g, c, candidates) ==
    RemoteCandidatesSet(FoldLeft(AddRemoteCandidate, g, candidates), c)

\* nice_agent_set_remote_credentials
SetRemoteCredentials(g) ==
    FoldLeft(RemoteCandidatesSet, [g EXCEPT !.remote_credentials = TRUE],
             [c \in Components(g) |-> c])

\* agent_gathering_done, when the discoveries of the agent have ended: local and
\* remote candidates that are not paired yet are.
GatheringDone(g) ==
    LET pair(h, r, l) == IF <<l.addr, r.addr>> \in PairKeys(h) THEN h
                         ELSE AddForCandidatePair(h, l, r)
        local(h, l) == LET add(i, r) == pair(i, r, l) IN FoldLeft(add, h, g.remote_candidates)
    IN  FoldLeft(local, [g EXCEPT !.discovering = FALSE], g.local_candidates)

\* nice_agent_parse_remote_sdp: the credentials, then the candidates one by one
ParseRemoteSdp(g, candidates) ==
    LET set(h, r) == SetRemoteCandidates(h, r.addr[2], <<r>>)
    IN  FoldLeft(set, [g EXCEPT !.remote_credentials = TRUE], candidates)
=============================================================================
