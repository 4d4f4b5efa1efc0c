--------------------------- MODULE ConnCheckList ---------------------------
(***************************************************************************)
(* The check list of an ICE agent (libnice/agent/conncheck.c): candidate   *)
(* pairs, the queue of triggered checks, the STUN transactions of a pair,  *)
(* the selected pair and the state of each component.  The C functions are *)
(* operators from the record of an agent to the record they leave.         *)
(*                                                                         *)
(* One stream, UDP candidates and RFC 5245 compatibility.  An address is a *)
(* pair <<ip, component>>; a pair is identified by the addresses of its    *)
(* candidates, which stand for the code's pointers to it.  An assertion of *)
(* the code that fails, or a freed pair that is used, is noted in `failed`.*)
(***************************************************************************)
EXTENDS Integers, SequencesExt

CONSTANT Transmissions      \* stun_max_retransmissions

ASSUME ListAssumption == Transmissions \in Nat \ {0}

None == <<>>

\* The components of the stream, in order.
Components(g) == DOMAIN g.state

\* NiceCheckState and NiceComponentState
CheckStates == {"WAITING", "IN_PROGRESS", "SUCCEEDED", "FAILED", "FROZEN",
                "DISCOVERED"}
ComponentStates == {"DISCONNECTED", "GATHERING", "CONNECTING", "CONNECTED",
                    "READY", "FAILED"}

\* The code is left in a state it asserts to be impossible.
Fail(g, what) == [g EXCEPT !.failed = @ \cup {what}]
Demand(g, holds, what) == IF holds THEN g ELSE Fail(g, what)

-----------------------------------------------------------------------------
(* Candidates and pairs.                                                   *)

\* A function on 1..n as a sequence, computed at once: TLC would otherwise
\* lose an EXCEPT applied to the unevaluated function.
AsSeq(f) == f \o <<>>

Key(p) == <<p.local, p.remote>>
PairKeys(g) == {Key(g.conncheck_list[i]) : i \in DOMAIN g.conncheck_list}
Place(g, k) == CHOOSE i \in DOMAIN g.conncheck_list : Key(g.conncheck_list[i]) = k
Pair(g, k) == g.conncheck_list[Place(g, k)]
DemandPair(g, k) == Demand(g, k \in PairKeys(g), "freed pair")
SetPair(g, p) == [g EXCEPT !.conncheck_list[Place(g, Key(p))] = p]

\* The pairs of a component, in the order of the list.
PairsOf(g, c) == SelectSeq(g.conncheck_list, LAMBDA p : p.component = c)

Queued(g, k) == k \in ToSet(g.triggered_check_queue)

CandidateAt(candidates, addr) ==
    LET i == SelectInSeq(candidates, LAMBDA c : c.addr = addr)
    IN  IF i = 0 THEN None ELSE candidates[i]

\* The local candidate a socket belongs to: relayed candidates have a socket
\* of their own, the others are found by their base.
LocalCandidate(g, sock) ==
    g.local_candidates[SelectInSeq(g.local_candidates, LAMBDA c : c.base = sock)]

\* nice_candidate_pair_priority, with PrioritySpan for 2^32
PrioritySpan == 64
NiceCandidatePairPriority(o, a) ==
    PrioritySpan * (IF o < a THEN o ELSE a) + 2 * (IF o > a THEN o ELSE a)
      + (IF o > a THEN 1 ELSE 0)

PairPriority(g, local, remote) ==
    IF g.controlling_mode
    THEN NiceCandidatePairPriority(local.priority, remote.priority)
    ELSE NiceCandidatePairPriority(remote.priority, local.priority)

NewPair(g, local, remote, state) ==
    [local |-> local.addr, remote |-> remote.addr, component |-> local.addr[2],
     sockptr |-> local.base,
     foundation |-> <<local.foundation, remote.foundation>>,
     priority |-> PairPriority(g, local, remote),
     stun_priority |-> local.stun_priority,
     state |-> state, nominated |-> FALSE, valid |-> FALSE,
     use_candidate_on_next_check |-> FALSE,
     mark_nominated_on_response_arrival |-> FALSE,
     retransmit |-> FALSE, stun_transactions |-> <<>>,
     discovered_pair |-> None, succeeded_pair |-> None]

\* g_slist_insert_sorted with conn_check_compare
InsertSorted(list, p) ==
    LET i == SelectInSeq(list, LAMBDA q : q.priority <= p.priority)
    IN  InsertAt(list, IF i = 0 THEN Len(list) + 1 ELSE i, p)

\* recalculate_pair_priorities
RecalculatePairPriorities(g) ==
    LET again(p) == [p EXCEPT !.priority =
                        PairPriority(g, CandidateAt(g.local_candidates, p.local),
                                        CandidateAt(g.remote_candidates, p.remote))]
        list == [i \in DOMAIN g.conncheck_list |-> again(g.conncheck_list[i])]
    IN  [g EXCEPT !.conncheck_list = SortSeq(list, LAMBDA p, q : p.priority > q.priority)]

-----------------------------------------------------------------------------
(* Component states.                                                       *)

\* The transitions agent_signal_component_state_change() asserts to be valid.
ValidStateChange(old, new) ==
    \/ new \in {"FAILED", "GATHERING"}
    \/ <<old, new>> \in {<<"GATHERING", "CONNECTING">>, <<"CONNECTING", "CONNECTED">>,
                         <<"CONNECTED", "READY">>, <<"READY", "CONNECTED">>,
                         <<"FAILED", "CONNECTING">>, <<"DISCONNECTED", "CONNECTING">>,
                         <<"CONNECTED", "CONNECTING">>}

SignalState(g, c, new) ==
    IF g.state[c] = new THEN g
    ELSE [Demand(g, ValidStateChange(g.state[c], new), "component state")
            EXCEPT !.state[c] = new]

\* ... signalled only from some of the states.
SignalFrom(g, c, old, new) == IF g.state[c] \in old THEN SignalState(g, c, new) ELSE g

-----------------------------------------------------------------------------
(* The queue of triggered checks and the transactions of a pair.           *)

\* priv_schedule_next: the timer runs, unless it already does.
ScheduleNext(g) == [g EXCEPT !.conncheck_timer = TRUE]

\* Mutant of AddToTriggeredQueue: the timer is not started.
AddToTriggeredQueueUntimed(g, k) ==
    IF Queued(g, k) THEN g
    ELSE [g EXCEPT !.triggered_check_queue = Append(@, k)]

AddToTriggeredQueue(g, k) ==
    IF Queued(g, k) THEN g
    ELSE ScheduleNext([g EXCEPT !.triggered_check_queue = Append(@, k)])

RemoveFromTriggeredQueue(g, k) ==
    [g EXCEPT !.triggered_check_queue = Remove(@, k)]

FreeAllStunTransactions(p) ==
    [p EXCEPT !.stun_transactions = <<>>, !.retransmit = FALSE]

RemoveStunTransaction(p, tid) ==
    LET rest == SelectSeq(p.stun_transactions, LAMBDA t : t.id # tid)
    IN  [p EXCEPT !.stun_transactions = rest,
                  !.retransmit = IF rest = <<>> THEN FALSE ELSE @]

\* candidate_check_pair_free of some pairs, and their removal from the list.
FreePairs(g, keys) ==
    [g EXCEPT !.conncheck_list = SelectSeq(@, LAMBDA p : Key(p) \notin keys),
              !.triggered_check_queue = SelectSeq(@, LAMBDA k : k \notin keys)]

\* candidate_check_pair_fail
PairFail(g, k) ==
    LET p == Pair(g, k)
        g1 == SetPair(g, [FreeAllStunTransactions(p) EXCEPT !.state = "FAILED"])
    IN  IF p.discovered_pair = None THEN g1
        ELSE IF p.discovered_pair \notin PairKeys(g1) THEN Fail(g1, "freed pair")
        ELSE SetPair(g1, [Pair(g1, p.discovered_pair) EXCEPT !.state = "FAILED"])

-----------------------------------------------------------------------------
(* Concluding the checks of a component.                                   *)

\* priv_prune_pending_checks: a pair that waits is given up, and so is one
\* that is queued or in progress below the priority of the selected pair.
Pruned(g, c, p) ==
    /\ p.component = c
    /\ IF Queued(g, Key(p)) /\ p.state # "IN_PROGRESS"
       THEN p.priority < g.selected_pair[c].priority
       ELSE p.state \in {"FROZEN", "WAITING"}

Superseded(g, c, p) ==
    /\ p.component = c /\ p.state = "IN_PROGRESS"
    /\ p.priority < g.selected_pair[c].priority

PrunePendingChecks(g, c) ==
    LET keys(P(_)) == {Key(p) : p \in {q \in ToSet(g.conncheck_list) : P(q)}}
        pruned == keys(LAMBDA p : Pruned(g, c, p))
        superseded == keys(LAMBDA p : Superseded(g, c, p))
        going(p) == p.component = c /\ p.state = "IN_PROGRESS" /\ p.stun_transactions # <<>>
        after(p) == IF Key(p) \in superseded THEN [p EXCEPT !.retransmit = FALSE]
                    ELSE IF going(p) THEN [p EXCEPT !.retransmit = TRUE]
                    ELSE p
        g1 == [g EXCEPT !.triggered_check_queue = SelectSeq(@, LAMBDA k : k \notin superseded),
                        !.conncheck_list = AsSeq([i \in DOMAIN @ |-> after(@[i])])]
    IN  FreePairs(g1, pruned)

\* ... and its result, the number of checks the component still waits for.
ChecksPending(g, c) ==
    \E p \in ToSet(PairsOf(g, c)) :
        /\ p.priority >= g.selected_pair[c].priority
        /\ p.state = "IN_PROGRESS" \/ Queued(g, Key(p))

\* A component becomes ready by way of the states in between.
SignalReady(g, c) ==
    LET g1 == SignalFrom(g, c, {"DISCONNECTED", "GATHERING", "FAILED"}, "CONNECTING")
        g2 == SignalFrom(g1, c, {"CONNECTING"}, "CONNECTED")
    IN  SignalState(g2, c, "READY")

\* conn_check_update_check_list_state_for_ready
UpdateCheckListStateForReady(g, c) ==
    IF ~\E p \in ToSet(PairsOf(g, c)) : p.valid /\ p.nominated THEN g
    ELSE LET g1 == Demand(PrunePendingChecks(g, c), g.selected_pair[c].priority > 0,
                           "priority of the selected pair")
         IN  IF ChecksPending(g, c) THEN g1 ELSE SignalReady(g1, c)

\* A pair fails, and may have been the last its component waited for.
GiveUp(g, k) == UpdateCheckListStateForReady(PairFail(g, k), Pair(g, k).component)

\* conn_check_update_selected_pair
UpdateSelectedPair(g, c, k) ==
    LET p == Pair(g, k)
        g1 == Demand(g, p.nominated, "selected pair is nominated")
    IN  IF p.priority <= g.selected_pair[c].priority THEN g1
        ELSE [g1 EXCEPT !.selected_pair[c] =
                [local |-> p.local, remote |-> p.remote, priority |-> p.priority]]
=============================================================================
