----------------------------- MODULE PolicyReplay -----------------------------
(***************************************************************************)
(* AuditStore and PolicyReplayer (audit/store.py, replay.py): what a        *)
(* session records of a tool call, and what a replay of the record under    *)
(* the present policies says of it.  The replaying gate has no broker: one  *)
(* that has rejects the tokens of ended sessions, and with them all records.*)
(***************************************************************************)
EXTENDS GovernedToolbox

\* What a session records of a call by the decision v, and what it does.
Recorded(v) == IF v.deny THEN {"blocked"}
               ELSE IF v.requires_hitl
                    THEN {"hitl_queued", "hitl_approved", "hitl_denied", "hitl_timeout"}
               ELSE IF v.allow THEN {"allowed"} ELSE {"soft_denied"}

\* As a bug: what is allowed counts as allowed, also if a human must be asked.
BugDecisionToOutcome(v) == IF v.deny THEN "denied"
                           ELSE IF v.allow THEN "allowed" ELSE "pending_review"

\* _decision_to_outcome, which does not look at `allow'.
DecisionToOutcome(v) == IF v.deny THEN "denied"
                        ELSE IF v.requires_hitl THEN "pending_review" ELSE "allowed"

\* The input that replay_record makes of a record: without the resource path,
\* which is not recorded, and without the budgets.
Replayed(in) == [in EXCEPT !.path = "none", !.spent = "unlimited"]

\* outcome_changed
OutcomeChanged(in, outcome) == outcome # DecisionToOutcome(Verdict(Replayed(in), user))

-----------------------------------------------------------------------------
(* Properties.                                                             *)

\* "Verify that policy changes don't silently alter past decisions" (replay.py):
\* a record that the replay does not report as changed is of a call with which a
\* session would do the same today, although the replay has neither its path nor
\* its budgets, and knows fewer outcomes than sessions do.
ReplayMissesNothing ==
    \A c \in Calls : at[c] \in {"ran", "blocked", "needs_human", "denied"} /\ input[c].event = "absent" =>
        \A outcome \in Recorded(verdict[c]) :
            ~OutcomeChanged(input[c], outcome) => outcome \in Recorded(Verdict(input[c], user))
=============================================================================
