---------------------------- MODULE MCAgentSession ----------------------------
(***************************************************************************)
(* AgentSession on small sets for TLC.  The two clients of a run are of    *)
(* one provider, or of two.  Session ids are interchangeable.              *)
(***************************************************************************)
EXTENDS AgentSession, TLC

Pair(p, q) == [main |-> p, fallback |-> q]

MCClients == {Pair("anthropic", "anthropic"), Pair("openai", "openai"), Pair("google", "openai")}
OneClient == {Pair("anthropic", "anthropic")}

\* A gap, a grant, and the two in which Route has to choose between flags.
Says(allow, deny, hitl) == [allow |-> allow, deny |-> deny, requires_hitl |-> hitl]
SomeAnswers == {Says(FALSE, FALSE, FALSE), Says(TRUE, FALSE, FALSE),
                Says(TRUE, FALSE, TRUE), Says(TRUE, TRUE, TRUE)}

Symmetry == Permutations(SessionIds)
=============================================================================
