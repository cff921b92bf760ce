----------------------------- MODULE MainPolicy -----------------------------
(***************************************************************************)
(* The shipped policy package kitelogik.main (src/kitelogik/policies/*.rego) *)
(* as operators on an input document.  What a rule leaves undefined is      *)
(* FALSE here, as its default says.                                         *)
(*                                                                         *)
(* An input is a record:                                                   *)
(*   event     event_type; "absent" in a PolicyInput, which has none       *)
(*   action, role, scopes, depth, sandbox    of the call and its context   *)
(*   amount    args.amount, [sort, n]: "number" with its value, "below" or *)
(*             "above" for what OPA orders before or after all numbers     *)
(*             (null and booleans; strings), "absent" for no such argument *)
(*   path      resource_path: "none", "plain" or "sensitive" (any of the   *)
(*             three regular expressions matches)                          *)
(*   foreign   args.session_id is set and not the context's                *)
(*   spent     the budget: "unlimited", "left", or "exhausted" when one of *)
(*             tokens, API calls and cost is used up                       *)
(*   wants     requested_capabilities                                      *)
(*   steps     number of plan steps; blockedStep: one is a blocked tool    *)
(*   data      data_classification; "absent" in a PolicyInput, "null" in   *)
(*             an event that names none                                    *)
(* The compiled user policy says some of "allow", "deny" and "hitl".       *)
(* session_id is never empty, and the context's depth always an integer:   *)
(* GovernanceEvent and PolicyInput are validated before they are sent.     *)
(***************************************************************************)
EXTENDS Integers

Documents == [event : {"absent", "tool_call", "agent.spawn", "agent.delegate", "agent.plan",
                       "agent.budget"},
              action : STRING, role : STRING, scopes : SUBSET STRING, depth : Nat,
              sandbox : BOOLEAN,
              amount : [sort : {"absent", "below", "number", "above"}, n : Int],
              path : {"none", "plain", "sensitive"}, foreign : BOOLEAN,
              spent : {"unlimited", "left", "exhausted"}, wants : SUBSET STRING,
              steps : Nat, blockedStep : BOOLEAN,
              data : {"absent", "null", "public", "internal", "confidential", "restricted"}]

\* OPA's comparisons are total: what is not a number still compares.
AmountOver(in, n) == in.amount.sort = "above" \/ (in.amount.sort = "number" /\ in.amount.n > n)
AmountUnder(in, n) == in.amount.sort = "below" \/ (in.amount.sort = "number" /\ in.amount.n < n)
AmountIn(in, lo, hi) == in.amount.sort = "number" /\ lo <= in.amount.n /\ in.amount.n <= hi

-----------------------------------------------------------------------------
(* security.rego, delegation.rego, financial.rego.                         *)

SecurityDeny(in) ==
    \/ in.path = "sensitive"
    \/ in.action \in {"execute_shell", "run_command", "eval_code", "execute_code"} /\ ~in.sandbox
    \/ in.foreign

\* As a bug: the rule for grandchildren is missing.
BugDelegationDeny(in) ==
    \/ in.depth > 2
    \/ /\ in.action = "approve_refund"
       /\ in.depth = 1 /\ (AmountOver(in, 50) \/ AmountUnder(in, 0))

DelegationDeny(in) ==
    \/ in.depth > 2
    \/ /\ in.action = "approve_refund"
       /\ \/ in.depth = 1 /\ (AmountOver(in, 50) \/ AmountUnder(in, 0))
          \/ in.depth >= 2

FinancialAllow(in) ==
    \/ in.action \in {"read_customer_record", "list_transactions"} /\ "read_customer" \in in.scopes
    \/ /\ in.action = "approve_refund"
       /\ \/ /\ in.role \in {"support_agent", "manager", "worker_agent"}
             /\ "approve_refund_under_100" \in in.scopes
             /\ AmountIn(in, 0, 100)
          \/ /\ in.role = "manager"
             /\ "approve_refund_under_1000" \in in.scopes
             /\ AmountIn(in, 0, 1000)
    \/ in.action = "send_notification" /\ "send_notifications" \in in.scopes
    \/ in.action = "query_memory"
    \/ in.action = "write_memory" /\ "memory_write" \in in.scopes
    \/ in.action = "execute_code" /\ in.sandbox

-----------------------------------------------------------------------------
(* agent_lifecycle.rego, agent_plan.rego, agent_budget.rego,               *)
(* data_classification.rego.                                               *)

CapabilitiesValid(in) == in.wants \subseteq in.scopes

LifecycleAllow(in) ==
    /\ CapabilitiesValid(in)
    /\ \/ in.event = "agent.spawn" /\ in.depth <= 2
       \/ in.event = "agent.delegate" /\ in.depth <= 1

LifecycleDeny(in) ==
    \/ in.event = "agent.spawn" /\ (in.depth > 2 \/ ~CapabilitiesValid(in))
    \/ in.event = "agent.delegate" /\ (in.depth > 1 \/ ~CapabilitiesValid(in))

MaxSteps == 50

PlanAllow(in) == in.steps \in 1..MaxSteps /\ ~in.blockedStep
PlanDeny(in) == in.steps = 0 \/ in.steps > MaxSteps \/ in.blockedStep

BudgetAllow(in) == in.event = "agent.budget" /\ in.spent # "exhausted"
BudgetDeny(in) == in.event \in {"agent.budget", "tool_call"} /\ in.spent = "exhausted"

DataAllow(in) ==
    \/ in.data \in {"null", "public", "internal"}
    \/ in.data = "confidential" /\ in.depth = 0
    \/ in.data = "restricted" /\ "restricted_data" \in in.scopes

DataDeny(in) ==
    \/ in.data = "confidential" /\ in.depth > 0
    \/ in.data = "restricted" /\ "restricted_data" \notin in.scopes

-----------------------------------------------------------------------------
(* main.rego; `user' is what the compiled user policy says.                *)

\* As a bug: delegation is left out of the denials.
BugDeny(in, user) ==
    \/ SecurityDeny(in) \/ BudgetDeny(in) \/ DataDeny(in)
    \/ "deny" \in user
    \/ in.event \in {"agent.spawn", "agent.delegate"} /\ LifecycleDeny(in)
    \/ in.event = "agent.plan" /\ PlanDeny(in)

Deny(in, user) ==
    \/ SecurityDeny(in) \/ DelegationDeny(in) \/ BudgetDeny(in) \/ DataDeny(in)
    \/ "deny" \in user
    \/ in.event \in {"agent.spawn", "agent.delegate"} /\ LifecycleDeny(in)
    \/ in.event = "agent.plan" /\ PlanDeny(in)

Allow(in, user) ==
    /\ ~Deny(in, user)
    /\ \/ FinancialAllow(in) \/ DataAllow(in)
       \/ "allow" \in user
       \/ in.event \in {"agent.spawn", "agent.delegate"} /\ LifecycleAllow(in)
       \/ in.event = "agent.plan" /\ PlanAllow(in)
       \/ in.event = "agent.budget" /\ BudgetAllow(in)

RiskTier(in) ==
    IF SecurityDeny(in) \/ DelegationDeny(in) THEN "SECURITY_CRITICAL"
    ELSE IF in.action = "approve_refund" /\ in.amount.sort = "number"
         THEN IF in.amount.n > 100 THEN "TRANSACTIONAL_HIGH" ELSE "TRANSACTIONAL_LOW"
    ELSE IF in.action \in {"read_customer_record", "list_transactions", "query_memory"}
         THEN "INFORMATIONAL"
    ELSE "OPERATIONAL"

\* As a bug: a gap in the policies is a silent refusal.
BugSilentGap(in, user) ==
    \/ "hitl" \in user
    \/ ~Deny(in, user) /\ RiskTier(in) = "TRANSACTIONAL_HIGH"

RequiresHitl(in, user) ==
    \/ "hitl" \in user
    \/ ~Deny(in, user) /\ RiskTier(in) = "TRANSACTIONAL_HIGH"
    \/ /\ ~Allow(in, user)
       /\ ~SecurityDeny(in) /\ ~DelegationDeny(in) /\ "deny" \notin user

\* The package's answer as result_to_decision() reads it.
Decide(in, user) == [allow |-> Allow(in, user), deny |-> Deny(in, user),
                     requires_hitl |-> RequiresHitl(in, user), risk |-> RiskTier(in)]
=============================================================================
