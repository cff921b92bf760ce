----------------------------- MODULE PolicyTiers -----------------------------
(***************************************************************************)
(* PolicyDecision and the two-tier hierarchy                               *)
(* (src/kitelogik/tether/models.py, hierarchy.py) as operators.            *)
(***************************************************************************)
EXTENDS Naturals

RiskTiers == {"INFORMATIONAL", "OPERATIONAL", "TRANSACTIONAL_LOW", "TRANSACTIONAL_HIGH",
              "DESTRUCTIVE", "SECURITY_CRITICAL"}

Severity == [INFORMATIONAL |-> 0, OPERATIONAL |-> 1, TRANSACTIONAL_LOW |-> 2,
             TRANSACTIONAL_HIGH |-> 3, DESTRUCTIVE |-> 4, SECURITY_CRITICAL |-> 5]

HigherRisk(a, b) == IF Severity[a] >= Severity[b] THEN a ELSE b

Decisions == [allow : BOOLEAN, deny : BOOLEAN, requires_hitl : BOOLEAN, risk : RiskTiers]

\* What the gate answers itself: the token is invalid, or the engine unreachable.
FailClosed == [allow |-> FALSE, deny |-> TRUE, requires_hitl |-> FALSE,
               risk |-> "SECURITY_CRITICAL"]

\* A global deny ends the evaluation; the project is not asked.
SkipProject(g) == [g EXCEPT !.allow = FALSE]

\* As a bug: a permission of one tier outweighs the denial of the other.
BugMerge(g, p) ==
    [allow |-> g.allow \/ p.allow,
     deny |-> (g.deny \/ p.deny) /\ ~(g.allow \/ p.allow),
     requires_hitl |-> g.requires_hitl \/ p.requires_hitl,
     risk |-> HigherRisk(g.risk, p.risk)]

\* _merge_decisions.
Merge(g, p) ==
    [allow |-> ~(g.deny \/ p.deny) /\ (g.allow \/ p.allow),
     deny |-> g.deny \/ p.deny,
     requires_hitl |-> g.requires_hitl \/ p.requires_hitl,
     risk |-> HigherRisk(g.risk, p.risk)]
=============================================================================
