----------------------------- MODULE StunAgent ------------------------------
(***************************************************************************)
(* StunAgent (stun/stunagent.c): the table of transactions whose answer is *)
(* awaited, and what becomes of a STUN message that comes in.  Operators   *)
(* over an agent                                                           *)
(*   [flags, ids]: its usage flags, and the saved pairs <<method, id>>,    *)
(* and messages                                                            *)
(*   [cls, mth, id, cookie, fpr, user, mi, err, unk].                      *)
(* user and mi say whether the attribute USERNAME or MESSAGE-INTEGRITY is  *)
(* missing ("none"), verifies ("good") or does not ("bad"); err is the     *)
(* code of an error response; unk whether an unknown attribute that must   *)
(* be understood is in the message.                                        *)
(***************************************************************************)
EXTENDS Integers, FiniteSets

CONSTANT MaxSavedIds   \* STUN_AGENT_MAX_SAVED_IDS

ASSUME MaxSavedIdsAssumption == MaxSavedIds \in Nat \ {0}

\* stun_agent_init: nothing is saved.
InitAgent(flags) == [flags |-> flags, ids |-> {}]

\* The flags nice_agent_init_stun_agent gives the agent of a component; a
\* compatibility that checks the magic cookie has the flag "cookie" too.
AgentFlags(compat, freshness) ==
  CASE compat = "google"                   -> {"short", "ignore"}
    [] compat \in {"msn", "oc2007"}        -> {"short", "force"}
    [] compat \in {"wlm2009", "oc2007r2"}  -> {"cookie", "fingerprint", "short"}
    [] OTHER -> {"cookie", "fingerprint", "short"}
                  \cup (IF freshness THEN {"consent"} ELSE {})

IsAnswer(m) == m.cls \in {"response", "error"}
Saved(a, m) == a.ids \cap {<<m.mth, m.id>>}

\* Credentials do not matter: the agent ignores them, or the error is about
\* them, or an indication needs none.
IgnoresCredentials(a, m) ==
  \/ "ignore" \in a.flags
  \/ m.cls = "error" /\ m.err \in {300, 400, 401, 438}
  \/ m.cls = "indication" /\ a.flags \cap {"long", "noindauth"} # {}

\* A request or an indication that lacks the attributes it is verified by.
LacksCredentials(a, m) ==
  /\ m.cls \in {"request", "indication"}
  /\ ~IgnoresCredentials(a, m)
  /\ \/ "short" \in a.flags /\ "none" \in {m.user, m.mi}
     \/ m.user # "none" /\ m.mi = "none"

\* The validater looks a user up: for a message without a saved key, and for
\* every message with the flag FORCE_VALIDATER.
UserRejected(a, m) ==
  /\ m.mi # "none" /\ m.user # "good"
  /\ (~IsAnswer(m) /\ ~IgnoresCredentials(a, m)) \/ "force" \in a.flags

\* The integrity does not verify.
Forged(a, m) ==
  /\ ~IgnoresCredentials(a, m)
  /\ \/ m.mi = "bad"
     \/ m.mi = "none" /\ IsAnswer(m)

Status(a, m) ==
  CASE "cookie" \in a.flags /\ ~m.cookie     -> "BAD_REQUEST"
    [] "fingerprint" \in a.flags /\ ~m.fpr   -> "BAD_REQUEST"
    [] IsAnswer(m) /\ Saved(a, m) = {}       -> "UNMATCHED_RESPONSE"
    [] OTHER ->
       IF LacksCredentials(a, m) THEN "UNAUTHORIZED_BAD_REQUEST"
       ELSE IF UserRejected(a, m) \/ Forged(a, m) THEN "UNAUTHORIZED"
       ELSE IF "consent" \in a.flags /\ m.cls = "error" /\ m.err = 403
       THEN "FORBIDDEN"
       ELSE IF m.unk /\ m.cls = "request" THEN "UNKNOWN_REQUEST_ATTRIBUTE"
       ELSE IF m.unk THEN "UNKNOWN_ATTRIBUTE"
       ELSE "SUCCESS"

\* Mutant of Validated: an answered transaction stays in the table.
ValidatedKeepsId(a, m) == a

\* stun_agent_validate: the transaction a verified answer belongs to is free
\* again.
Validated(a, m) ==
  IF Status(a, m) \in {"SUCCESS", "UNKNOWN_ATTRIBUTE", "UNKNOWN_REQUEST_ATTRIBUTE"}
  THEN [a EXCEPT !.ids = @ \ Saved(a, m)]
  ELSE a

\* stun_agent_finish_message: a request needs a free entry.
CanFinish(a, cls) == cls = "request" => Cardinality(a.ids) < MaxSavedIds
Finished(a, cls, mth, id) ==
  IF cls = "request" THEN [a EXCEPT !.ids = @ \cup {<<mth, id>>}] ELSE a
=============================================================================
