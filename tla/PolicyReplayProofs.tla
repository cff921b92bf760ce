-------------------------- MODULE PolicyReplayProofs --------------------------
(***************************************************************************)
(* Proof about replays, for every set of calls, inputs and user policies.   *)
(***************************************************************************)
EXTENDS PolicyReplay, GovernedToolboxProofs

\* What a tier does not deny, security.rego did not; no user policy changes that.
NotDenied(c) == \A t \in asked[c] : ~said[c][t].deny => ~SecurityDeny(input[c])

Past == \A c \in Calls : NotDenied(c)

LEMMA DecideSecurity ==
    ASSUME NEW in, NEW rules, ~DecideBy(in, rules).deny
    PROVE  ~SecurityDeny(in)
BY DEF DecideBy, Decide, Deny

LEMMA PastAnswered ==
    ASSUME TypeOK, Past, NEW c \in Calls, NEW t \in Tiers,
           Answer(c, t, DecideBy(input[c], user[t]))
    PROVE  Past'
<1>1. asked' = [asked EXCEPT ![c] = @ \cup {t}] /\ input' = input
      BY DEF Answer
<1>2. said' = [said EXCEPT ![c][t] = DecideBy(input[c], user[t])]
      BY DEF Answer
<1>3. NotDenied(c)'
  <2> SUFFICES ASSUME NEW s \in asked'[c], ~said'[c][s].deny
               PROVE  ~SecurityDeny(input[c])
      BY <1>1 DEF NotDenied
  <2>1. CASE s = t
        BY <2>1, <1>2, DecideSecurity DEF TypeOK
  <2>2. CASE s # t
        BY <2>2, <1>1, <1>2 DEF TypeOK, Past, NotDenied
  <2> QED  BY <2>1, <2>2
<1>4. ASSUME NEW e \in Calls, e # c PROVE NotDenied(e)'
      BY <1>4, <1>1, <1>2 DEF TypeOK, Past, NotDenied
<1> QED  BY <1>3, <1>4 DEF Past

LEMMA PastKept == TypeOK /\ Past /\ [Next]_vars => Past'
<1> SUFFICES ASSUME TypeOK, Past, [Next]_vars PROVE Past'
    OBVIOUS
<1>1. CASE UNCHANGED <<input, asked, said>>
      BY <1>1 DEF Past, NotDenied
<1>2. ASSUME NEW c \in Calls, GlobalAnswers(c) PROVE Past'
      BY <1>2, PastAnswered DEF GlobalAnswers, Tiers
<1>3. ASSUME NEW c \in Calls, ProjectAnswers(c) PROVE Past'
      BY <1>3, PastAnswered DEF ProjectAnswers, Tiers
<1>4. ASSUME NEW c \in Calls, NEW valid \in BOOLEAN, Call(c, valid) PROVE Past'
      BY <1>4, <1>1 DEF Call
<1>5. ASSUME NEW c \in Calls, EngineUnreachable(c) \/ EngineRaises(c) PROVE Past'
      BY <1>5, <1>1 DEF EngineUnreachable, EngineRaises
<1>6. ASSUME NEW t \in Tiers, NEW u \in UserPolicies, Recompile(t, u) PROVE Past'
      BY <1>6, <1>1 DEF Recompile
<1>7. CASE UNCHANGED vars
      BY <1>7, <1>1 DEF vars
<1> QED  BY <1>2, <1>3, <1>4, <1>5, <1>6, <1>7 DEF Next

LEMMA PastHolds == Spec => []Past
<1>1. Init => Past
      BY DEF Init, Past, NotDenied
<1> QED  BY <1>1, PastKept, TypeCorrect, PTL DEF Spec

\* The package decides of the input of a replay as of the call's own, when the
\* call's path is not what denies it: nothing but security.rego looks at the
\* path, and no rule for tool calls at the budgets.
LEMMA ReplayedAlike ==
    ASSUME NEW in \in Documents, in.event = "absent", ~SecurityDeny(in), NEW rules
    PROVE  DecideBy(Replayed(in), rules) = DecideBy(in, rules)
<1> DEFINE p == Replayed(in)
<1>1. /\ p.event = in.event /\ p.action = in.action /\ p.role = in.role
      /\ p.scopes = in.scopes /\ p.depth = in.depth /\ p.sandbox = in.sandbox
      /\ p.amount = in.amount /\ p.foreign = in.foreign /\ p.data = in.data
      /\ p.path = "none"
      BY DEF Replayed, Documents
<1> HIDE DEF p
<1>2. ~SecurityDeny(p)
      BY <1>1 DEF SecurityDeny
<1>3. DelegationDeny(p) = DelegationDeny(in) /\ DataDeny(p) = DataDeny(in)
      BY <1>1 DEF DelegationDeny, DataDeny, AmountOver, AmountUnder
<1>4. ~BudgetDeny(p) /\ ~BudgetDeny(in)
      BY <1>1 DEF BudgetDeny
<1>5. FinancialAllow(p) = FinancialAllow(in) /\ DataAllow(p) = DataAllow(in)
      BY <1>1 DEF FinancialAllow, DataAllow, AmountIn
<1>6. RiskTier(p) = RiskTier(in)
      BY <1>1, <1>2, <1>3 DEF RiskTier
<1>7. Says(rules, p) = Says(rules, in)
  <2>1. ASSUME NEW rule PROVE Applies(rule, p) = Applies(rule, in)
        BY <1>1 DEF Applies, Passes, AmountOver, AmountUnder, AmountIn, IsText
  <2> QED  BY <2>1 DEF Says
<1>8. ASSUME NEW says PROVE /\ Deny(p, says) = Deny(in, says)
                            /\ Allow(p, says) = Allow(in, says)
                            /\ RequiresHitl(p, says) = RequiresHitl(in, says)
  <2>1. Deny(p, says) = Deny(in, says)
        BY <1>1, <1>2, <1>3, <1>4 DEF Deny
  <2>2. Allow(p, says) = Allow(in, says)
        BY <2>1, <1>1, <1>5 DEF Allow
  <2> QED  BY <2>1, <2>2, <1>2, <1>3, <1>6 DEF RequiresHitl
<1> QED  BY <1>6, <1>7, <1>8 DEF DecideBy, Decide, p

\* Of a call whose path does not deny it, both tiers decide what they decide of
\* its replay.
LEMMA VerdictsAlike ==
    ASSUME NEW in \in Documents, in.event = "absent", ~SecurityDeny(in)
    PROVE  Verdict(Replayed(in), user) = Verdict(in, user)
<1>1. ASSUME NEW t \in Tiers
      PROVE  Decide(Replayed(in), Says(user[t], Replayed(in))) = Decide(in, Says(user[t], in))
      BY ReplayedAlike DEF DecideBy
<1> QED  BY <1>1 DEF Verdict, VerdictOf, Tiers

\* The verdict on an input is sound, like each answer it is made of.
LEMMA VerdictSound ==
    ASSUME NEW in
    PROVE  Sound(Verdict(in, user))
<1> DEFINE g == Decide(in, Says(user["global"], in))
           p == Decide(in, Says(user["project"], in))
<1>1. g \in Decisions /\ Sound(g) /\ p \in Decisions /\ Sound(p)
      BY DecideSound
<1>2. Verdict(in, user) = IF g.deny THEN SkipProject(g) ELSE Merge(g, p)
      BY DEF Verdict, VerdictOf, Tiers
<1> HIDE DEF g, p
<1>3. g.deny => Sound(SkipProject(g))
      BY <1>1 DEF Sound, SkipProject, Decisions
<1> QED  BY <1>1, <1>2, <1>3, MergeSound

\* What a replay reports as unchanged was allowed, and would be allowed by the
\* user policies of now, whatever they were when it was decided.
THEOREM ReplayMisses == Spec => []ReplayMissesNothing
<1>1. ASSUME IInv, Past PROVE ReplayMissesNothing
  <2> SUFFICES ASSUME NEW c \in Calls, at[c] \in {"ran", "blocked", "needs_human", "denied"},
                      input[c].event = "absent", NEW outcome \in Recorded(verdict[c]),
                      ~OutcomeChanged(input[c], outcome)
               PROVE  outcome \in Recorded(Verdict(input[c], user))
      BY DEF ReplayMissesNothing
  <2>1. CallInv(c) /\ NotDenied(c) /\ input[c] \in Documents
        BY <1>1, ConstantsAssumption DEF IInv, TypeOK, Past
  <2>2. outcome = "allowed" /\ verdict[c].allow /\ ~verdict[c].deny
        BY DEF OutcomeChanged, DecisionToOutcome, Recorded
  <2>3. at[c] = "ran"
        BY <2>1, <2>2 DEF CallInv, Ended, Waiting, Outcome
  <2>4. ~SecurityDeny(input[c])
        BY <2>1, <2>3 DEF CallInv, Backed, NotDenied, Tiers
  <2>5. Verdict(Replayed(input[c]), user) = Verdict(input[c], user)
        BY <2>1, <2>4, VerdictsAlike
  <2>6. ~Verdict(input[c], user).deny /\ ~Verdict(input[c], user).requires_hitl
        BY <2>2, <2>5 DEF OutcomeChanged, DecisionToOutcome
  <2>7. Verdict(input[c], user).allow
        BY <2>6, VerdictSound DEF Sound
  <2> QED  BY <2>2, <2>6, <2>7 DEF Recorded
<1> QED  BY <1>1, Invariant, PastHolds, PTL
=============================================================================
