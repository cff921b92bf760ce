--------------------------- MODULE GovernedToolbox ---------------------------
(***************************************************************************)
(* A tool call or a plan on its way through GovernedToolbox (governed.py),  *)
(* the gate (tether/gate.py) and a HierarchicalEvaluator (hierarchy.py)     *)
(* whose two tiers run the shipped policies, each with a user policy of its *)
(* own.  @governed, the adapters' _run_governed_call and governed_handoff   *)
(* take the same way.  Each tier is awaited; in between the engine may be   *)
(* given another user policy, or be lost.                                   *)
(***************************************************************************)
EXTENDS PolicyCompiler, PolicyTiers

CONSTANTS Calls,        \* calls in progress
          Inputs,       \* the inputs they may have
          UserPolicies  \* the user policies a tier may have

ASSUME ConstantsAssumption ==
    /\ \A rules \in UserPolicies : \A rule \in rules : rule \in PolicyRules
    /\ Inputs \subseteq Documents

Tiers == {"global", "project"}

\* The tier was not asked, or its answer not awaited.
Unasked == [allow |-> FALSE, deny |-> FALSE, requires_hitl |-> FALSE, risk |-> "OPERATIONAL"]

VARIABLES at,       \* where each call is
          input,    \* what the call is about
          user,     \* the user policy each tier has now
          asked,    \* the tiers that answered each call
          said,     \* what they answered
          verdict   \* the decision the gate returned

vars == <<at, input, user, asked, said, verdict>>

Init == /\ at = [c \in Calls |-> "idle"]
        /\ input \in [Calls -> Inputs]
        /\ user \in [Tiers -> UserPolicies]
        /\ asked = [c \in Calls |-> {}]
        /\ said = [c \in Calls |-> [t \in Tiers |-> Unasked]]
        /\ verdict = [c \in Calls |-> Unasked]

\* The engine's answer under a user policy.
DecideBy(in, rules) == Decide(in, Says(rules, in))

\* _check_decision: the call goes on, or GovernanceError is raised with one of
\* three messages.  evaluate_plan raises for the same decisions.
Outcome(v) == IF v.deny THEN "blocked"
              ELSE IF v.allow THEN "ran"
              ELSE IF v.requires_hitl THEN "needs_human" ELSE "denied"

\* The gate returns v, and the caller acts on it at once.
Return(c, v) == /\ verdict' = [verdict EXCEPT ![c] = v]
                /\ at' = [at EXCEPT ![c] = Outcome(v)]

\* The gate validates the context's token and asks the engine.
Call(c, tokenValid) ==
    /\ at[c] = "idle"
    /\ IF tokenValid THEN at' = [at EXCEPT ![c] = "global"] /\ UNCHANGED verdict
                     ELSE Return(c, FailClosed)
    /\ UNCHANGED <<input, user, asked, said>>

Answer(c, t, d) == /\ asked' = [asked EXCEPT ![c] = @ \cup {t}]
                   /\ said' = [said EXCEPT ![c][t] = d]
                   /\ UNCHANGED <<input, user>>

\* The global tier answers; its denial is final.
GlobalAnswers(c) ==
    /\ at[c] = "global"
    /\ LET d == DecideBy(input[c], user["global"]) IN
       /\ Answer(c, "global", d)
       /\ IF d.deny THEN Return(c, SkipProject(d))
                    ELSE at' = [at EXCEPT ![c] = "project"] /\ UNCHANGED verdict

\* The project tier answers, and the two answers are merged.
ProjectAnswers(c) ==
    /\ at[c] = "project"
    /\ LET d == DecideBy(input[c], user["project"]) IN
       /\ Answer(c, "project", d)
       /\ Return(c, Merge(said[c]["global"], d))

\* OPAConnectionError from either tier: the gate denies.
EngineUnreachable(c) ==
    /\ at[c] \in Tiers
    /\ Return(c, FailClosed)
    /\ UNCHANGED <<input, user, asked, said>>

\* Another error of the engine passes through the gate.
EngineRaises(c) ==
    /\ at[c] \in Tiers
    /\ at' = [at EXCEPT ![c] = "raised"]
    /\ UNCHANGED <<input, user, asked, said, verdict>>

\* The engine of a tier is given another user policy.
Recompile(t, u) ==
    /\ user[t] # u
    /\ user' = [user EXCEPT ![t] = u]
    /\ UNCHANGED <<at, input, asked, said, verdict>>

Next == \/ \E c \in Calls, valid \in BOOLEAN : Call(c, valid)
        \/ \E c \in Calls : GlobalAnswers(c) \/ ProjectAnswers(c)
        \/ \E c \in Calls : EngineUnreachable(c) \/ EngineRaises(c)
        \/ \E t \in Tiers, u \in UserPolicies : Recompile(t, u)

Spec == Init /\ [][Next]_vars

-----------------------------------------------------------------------------
(* Properties.                                                             *)

\* The type of every variable.
TypeOK ==
    /\ at \in [Calls -> Tiers \cup {"idle", "ran", "blocked", "needs_human", "denied", "raised"}]
    /\ input \in [Calls -> Inputs]
    /\ user \in [Tiers -> UserPolicies]
    /\ asked \in [Calls -> SUBSET Tiers]
    /\ said \in [Calls -> [Tiers -> Decisions]]
    /\ verdict \in [Calls -> Decisions]

\* Deny overrides: what runs was put to both tiers, neither denied it and one
\* allowed it; with an invalid token or an engine lost half way nothing runs.
DenyWins ==
    \A c \in Calls : at[c] = "ran" =>
        /\ asked[c] = Tiers
        /\ \A t \in Tiers : ~said[c][t].deny
        /\ \E t \in Tiers : said[c][t].allow

\* A gap in the policies reaches a human: nothing is refused without either
\* an explicit denial or a request for review (main.rego, "policy gaps fail
\* safe rather than silently deny"), also when the two tiers disagree.
GapsReachAHuman == \A c \in Calls : at[c] # "denied"

\* The risk tier and the decision agree, whichever tier each comes from: what
\* is classified as SECURITY_CRITICAL is blocked, and a refund above the limit
\* never comes out as plainly allowed, whatever the user policies grant.
RiskMatchesDecision ==
    \A c \in Calls :
        /\ verdict[c].risk = "SECURITY_CRITICAL" => at[c] = "blocked"
        /\ verdict[c].risk = "TRANSACTIONAL_HIGH" /\ ~verdict[c].deny => verdict[c].requires_hitl

\* The tiers' decision of an input whose user policies say `says'.
VerdictOf(in, says) ==
    LET g == Decide(in, says["global"])
    IN IF g.deny THEN SkipProject(g) ELSE Merge(g, Decide(in, says["project"]))

\* What they would decide of an input under some user policies.
Verdict(in, policies) == VerdictOf(in, [t \in Tiers |-> Says(policies[t], in)])

\* Some of the scopes that inputs have.
Scopes == UNION {in.scopes : in \in Inputs}

\* Delegation only narrows ("child never gets more than parent", README.md):
\* whatever the policies let a deeper agent do with fewer scopes, they let a
\* shallower one with more scopes do, where the user policies say the same of both.
DepthOnlyNarrows ==
    \A c \in Calls :
        LET says == [t \in Tiers |-> Says(user[t], input[c])] IN
        VerdictOf(input[c], says).allow =>
            \A d \in 0..input[c].depth, s \in Scopes :
                VerdictOf([input[c] EXCEPT !.depth = d, !.scopes = @ \cup {s}], says).allow

\* Files of rules merge safely (compiler.py, "union cleanly with each other"): in
\* either tier, another rule that allows lifts no denial, of the shipped policies
\* or of another rule, and one that denies or asks for review allows nothing new.
RulesPullTheirWay ==
    \A c \in Calls, t \in Tiers : \A rule \in UNION UserPolicies :
        LET before == Verdict(input[c], user)
            after == Verdict(input[c], [user EXCEPT ![t] = @ \cup {rule}])
        IN IF rule.then = "allow" THEN before.deny => after.deny ELSE after.allow => before.allow

-----------------------------------------------------------------------------
(* What the policies' comments say and the code does not do.               *)

\* "Budget enforcement on tool_call events (deny if budget exhausted)"
\* (main.rego): a tool call whose context has no budget left does not run.
ToolCallsRespectBudget ==
    \A c \in Calls : input[c].spent = "exhausted" => at[c] # "ran"
=============================================================================
