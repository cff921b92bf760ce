------------------------ MODULE GovernedToolboxProofs ------------------------
(***************************************************************************)
(* Proofs about the shipped policies, the merge of two tiers and the        *)
(* toolbox, for every set of calls, inputs and user policies.              *)
(***************************************************************************)
EXTENDS GovernedToolbox, TLAPS

\* What is true of a decision wherever it was made.
Sound(d) ==
    /\ ~d.allow /\ ~d.deny => d.requires_hitl
    /\ d.risk = "SECURITY_CRITICAL" => d.deny
    /\ d.risk = "TRANSACTIONAL_HIGH" /\ ~d.deny => d.requires_hitl

\* The shipped package answers with a decision, and with a sound one,
\* whatever the input and the user policy are.
LEMMA DecideSound ==
    ASSUME NEW in, NEW u
    PROVE  /\ Decide(in, u) \in Decisions
           /\ Sound(Decide(in, u))
           /\ Decide(in, u).allow => ~Decide(in, u).deny
<1>1. Allow(in, u) \in BOOLEAN /\ Deny(in, u) \in BOOLEAN /\ RequiresHitl(in, u) \in BOOLEAN
      BY DEF Allow, Deny, RequiresHitl
<1>2. RiskTier(in) \in RiskTiers
      BY DEF RiskTier, RiskTiers
<1>3. Allow(in, u) => ~Deny(in, u)
      BY DEF Allow
<1>4. RiskTier(in) = "SECURITY_CRITICAL" => SecurityDeny(in) \/ DelegationDeny(in)
      BY DEF RiskTier
<1>5. (SecurityDeny(in) \/ DelegationDeny(in) \/ "deny" \in u) => Deny(in, u)
      BY DEF Deny
<1>6. ~Allow(in, u) /\ ~Deny(in, u) => RequiresHitl(in, u)
      BY <1>5 DEF RequiresHitl
<1>7. RiskTier(in) = "TRANSACTIONAL_HIGH" /\ ~Deny(in, u) => RequiresHitl(in, u)
      BY DEF RequiresHitl
<1> QED
    BY <1>1, <1>2, <1>3, <1>4, <1>5, <1>6, <1>7 DEF Decide, Decisions, Sound

\* Merging keeps what is sound, and denies what either tier denies.
LEMMA MergeSound ==
    ASSUME NEW g \in Decisions, NEW p \in Decisions, Sound(g), Sound(p)
    PROVE  /\ Merge(g, p) \in Decisions
           /\ Sound(Merge(g, p))
           /\ Merge(g, p).allow => ~g.deny /\ ~p.deny /\ (g.allow \/ p.allow)
<1>1. HigherRisk(g.risk, p.risk) \in {g.risk, p.risk}
      BY DEF HigherRisk
<1>2. Merge(g, p) \in Decisions
      BY <1>1 DEF Merge, Decisions
<1>3. Sound(Merge(g, p))
      BY <1>1 DEF Merge, Sound, Decisions
<1> QED
    BY <1>2, <1>3 DEF Merge

-----------------------------------------------------------------------------
(* The inductive invariant: a call that has no verdict has the neutral one, *)
(* one that waits for the project tier has a sound global answer that is    *)
(* no denial, and every end is the outcome of a sound verdict.              *)

Places == Tiers \cup {"idle", "ran", "blocked", "needs_human", "denied", "raised"}

Waiting == {"idle", "global", "project", "raised"}

Undecided(c) == at[c] \in Waiting => verdict[c] = Unasked

Begun(c) ==
    /\ at[c] \in {"idle", "global"} => asked[c] = {}
    /\ at[c] = "project" => /\ asked[c] = {"global"}
                            /\ Sound(said[c]["global"])
                            /\ ~said[c]["global"].deny

Ended(c) ==
    at[c] \notin Waiting => /\ at[c] = Outcome(verdict[c])
                            /\ Sound(verdict[c])

Backed(c) ==
    at[c] = "ran" => /\ asked[c] = Tiers
                     /\ \A t \in Tiers : ~said[c][t].deny
                     /\ \E t \in Tiers : said[c][t].allow

CallInv(c) == Undecided(c) /\ Begun(c) /\ Ended(c) /\ Backed(c)

IInv == TypeOK /\ \A c \in Calls : CallInv(c)

LEMMA UnaskedSound == Unasked \in Decisions /\ FailClosed \in Decisions /\ Sound(FailClosed)
BY DEF Unasked, FailClosed, Decisions, RiskTiers, Sound

LEMMA OutcomePlaces ==
    ASSUME NEW v
    PROVE  Outcome(v) \in {"ran", "blocked", "needs_human", "denied"}
BY DEF Outcome

LEMMA InvInit == Init => IInv
BY UnaskedSound
   DEF Init, IInv, TypeOK, CallInv, Undecided, Begun, Ended, Backed, Waiting, Tiers

\* Refusing a call keeps the invariant: the token is invalid or the engine lost.
LEMMA RefuseInv ==
    ASSUME IInv, NEW c \in Calls, Return(c, FailClosed),
           UNCHANGED <<input, user, asked, said>>
    PROVE  IInv'
<1>1. Outcome(FailClosed) = "blocked"
      BY DEF Outcome, FailClosed
<1>2. TypeOK'
      BY <1>1, UnaskedSound DEF IInv, TypeOK, Return
<1>3. ASSUME NEW e \in Calls PROVE CallInv(e)'
  <2>1. CASE e = c
        BY <2>1, <1>1, UnaskedSound
           DEF IInv, TypeOK, Return, CallInv, Undecided, Begun, Ended, Backed, Waiting
  <2>2. CASE e # c
        BY <2>2 DEF IInv, TypeOK, Return, CallInv, Undecided, Begun, Ended, Backed
  <2> QED BY <2>1, <2>2
<1> QED BY <1>2, <1>3 DEF IInv

LEMMA CallPreserves ==
    ASSUME IInv, NEW c \in Calls, NEW valid \in BOOLEAN, Call(c, valid)
    PROVE  IInv'
<1>1. CASE ~valid
      BY <1>1, RefuseInv DEF Call
<1>2. CASE valid
  <2>1. TypeOK'
        BY <1>2 DEF IInv, TypeOK, Call, Tiers
  <2>2. ASSUME NEW e \in Calls PROVE CallInv(e)'
        BY <1>2, <2>2
           DEF IInv, TypeOK, Call, CallInv, Undecided, Begun, Ended, Backed, Waiting
  <2> QED BY <2>1, <2>2 DEF IInv
<1> QED BY <1>1, <1>2

LEMMA GlobalPreserves ==
    ASSUME IInv, NEW c \in Calls, GlobalAnswers(c)
    PROVE  IInv'
<1> DEFINE d == DecideBy(input[c], user["global"])
<1>1. d \in Decisions /\ Sound(d) /\ (d.allow => ~d.deny)
      BY DecideSound DEF DecideBy
<1>2. CASE d.deny
  <2> DEFINE v == SkipProject(d)
  <2>1. v \in Decisions /\ v.deny /\ v.allow = FALSE /\ v.risk = d.risk
        BY <1>1, <1>2 DEF SkipProject, Decisions
  <2>2. Sound(v) /\ Outcome(v) = "blocked"
        BY <2>1 DEF Sound, Outcome
  <2>3. at' = [at EXCEPT ![c] = "blocked"] /\ verdict' = [verdict EXCEPT ![c] = v]
        BY <1>2, <2>2 DEF GlobalAnswers, Return
  <2>4. /\ asked' = [asked EXCEPT ![c] = @ \cup {"global"}]
        /\ said' = [said EXCEPT ![c]["global"] = d]
        /\ UNCHANGED <<input, user>>
        BY DEF GlobalAnswers, Answer
  <2> HIDE DEF d, v
  <2>5. TypeOK'
        BY <1>1, <2>1, <2>3, <2>4 DEF IInv, TypeOK, Tiers
  <2>6. ASSUME NEW e \in Calls PROVE CallInv(e)'
    <3>1. CASE e = c
          BY <3>1, <2>2, <2>3, <2>4
             DEF IInv, TypeOK, CallInv, Undecided, Begun, Ended, Backed, Waiting
    <3>2. CASE e # c
          BY <3>2, <2>3, <2>4
             DEF IInv, TypeOK, CallInv, Undecided, Begun, Ended, Backed
    <3> QED BY <3>1, <3>2
  <2> QED BY <2>5, <2>6 DEF IInv
<1>3. CASE ~d.deny
  <2>1. at' = [at EXCEPT ![c] = "project"] /\ UNCHANGED verdict /\ at[c] = "global"
        BY <1>3 DEF GlobalAnswers
  <2>2. /\ asked' = [asked EXCEPT ![c] = @ \cup {"global"}]
        /\ said' = [said EXCEPT ![c]["global"] = d]
        /\ UNCHANGED <<input, user>>
        BY DEF GlobalAnswers, Answer
  <2> HIDE DEF d
  <2>3. TypeOK'
        BY <1>1, <2>1, <2>2 DEF IInv, TypeOK, Tiers
  <2>4. ASSUME NEW e \in Calls PROVE CallInv(e)'
    <3>1. CASE e = c
          BY <3>1, <1>1, <1>3, <2>1, <2>2
             DEF IInv, TypeOK, CallInv, Undecided, Begun, Ended, Backed, Waiting, Tiers
    <3>2. CASE e # c
          BY <3>2, <2>1, <2>2
             DEF IInv, TypeOK, CallInv, Undecided, Begun, Ended, Backed
    <3> QED BY <3>1, <3>2
  <2> QED BY <2>3, <2>4 DEF IInv
<1> QED BY <1>1, <1>2, <1>3 DEF Decisions

LEMMA ProjectPreserves ==
    ASSUME IInv, NEW c \in Calls, ProjectAnswers(c)
    PROVE  IInv'
<1> DEFINE d == DecideBy(input[c], user["project"])
           g == said[c]["global"]
           v == Merge(g, d)
<1>1. d \in Decisions /\ Sound(d)
      BY DecideSound DEF DecideBy
<1>2. g \in Decisions /\ Sound(g) /\ asked[c] = {"global"} /\ ~g.deny
      BY DEF ProjectAnswers, IInv, TypeOK, Tiers, CallInv, Begun
<1>3. v \in Decisions /\ Sound(v) /\ (v.allow => ~d.deny /\ (g.allow \/ d.allow))
      BY <1>1, <1>2, MergeSound
<1>4. /\ at' = [at EXCEPT ![c] = Outcome(v)]
      /\ verdict' = [verdict EXCEPT ![c] = v]
      /\ asked' = [asked EXCEPT ![c] = @ \cup {"project"}]
      /\ said' = [said EXCEPT ![c]["project"] = d]
      /\ UNCHANGED <<input, user>>
      BY DEF ProjectAnswers, Return, Answer
<1>5. Outcome(v) \in {"ran", "blocked", "needs_human", "denied"}
      BY OutcomePlaces
<1>6. Outcome(v) = "ran" => v.allow
      BY DEF Outcome
<1> HIDE DEF d, v
<1>7. TypeOK'
      BY <1>1, <1>3, <1>4, <1>5 DEF IInv, TypeOK, Tiers
<1>8. ASSUME NEW e \in Calls PROVE CallInv(e)'
  <2>1. CASE e = c
    <3>1. /\ at'[c] = Outcome(v) /\ verdict'[c] = v
          /\ asked'[c] = Tiers
          /\ said'[c]["project"] = d /\ said'[c]["global"] = g
          BY <1>2, <1>4 DEF IInv, TypeOK, Tiers
    <3>2. Undecided(c)' /\ Begun(c)' /\ Ended(c)'
          BY <3>1, <1>3, <1>5 DEF Undecided, Begun, Ended, Waiting
    <3>3. Backed(c)'
          BY <3>1, <1>2, <1>3, <1>6 DEF Backed, Tiers
    <3> QED BY <2>1, <3>2, <3>3 DEF CallInv
  <2>2. CASE e # c
        BY <2>2, <1>4 DEF IInv, TypeOK, CallInv, Undecided, Begun, Ended, Backed
  <2> QED BY <2>1, <2>2
<1> QED BY <1>7, <1>8 DEF IInv

LEMMA InvNext == IInv /\ [Next]_vars => IInv'
<1> SUFFICES ASSUME IInv, [Next]_vars PROVE IInv'
    OBVIOUS
<1>1. ASSUME NEW c \in Calls, NEW valid \in BOOLEAN, Call(c, valid) PROVE IInv'
      BY <1>1, CallPreserves
<1>2. ASSUME NEW c \in Calls, GlobalAnswers(c) PROVE IInv'
      BY <1>2, GlobalPreserves
<1>3. ASSUME NEW c \in Calls, ProjectAnswers(c) PROVE IInv'
      BY <1>3, ProjectPreserves
<1>4. ASSUME NEW c \in Calls, EngineUnreachable(c) PROVE IInv'
      BY <1>4, RefuseInv DEF EngineUnreachable
<1>5. ASSUME NEW c \in Calls, EngineRaises(c) PROVE IInv'
  <2>1. TypeOK'
        BY <1>5 DEF IInv, TypeOK, EngineRaises
  <2>2. ASSUME NEW e \in Calls PROVE CallInv(e)'
        BY <1>5, <2>2
           DEF IInv, TypeOK, EngineRaises, CallInv, Undecided, Begun, Ended, Backed, Waiting,
               Tiers
  <2> QED BY <2>1, <2>2 DEF IInv
<1>6. ASSUME NEW t \in Tiers, NEW u \in UserPolicies, Recompile(t, u) PROVE IInv'
      BY <1>6
         DEF IInv, TypeOK, Recompile, CallInv, Undecided, Begun, Ended, Backed
<1>7. CASE UNCHANGED vars
      BY <1>7 DEF IInv, TypeOK, vars, CallInv, Undecided, Begun, Ended, Backed
<1> QED
    BY <1>1, <1>2, <1>3, <1>4, <1>5, <1>6, <1>7 DEF Next

-----------------------------------------------------------------------------

\* The invariant holds of every reachable state.
THEOREM Invariant == Spec => []IInv
BY InvInit, InvNext, PTL DEF Spec

\* The type invariant of the toolbox.
THEOREM TypeCorrect == Spec => []TypeOK
<1>1. IInv => TypeOK
      BY DEF IInv
<1> QED
    BY <1>1, Invariant, PTL

\* Deny overrides, for every input and user policy: what runs was asked of
\* both tiers and denied by neither.
THEOREM DenyOverrides == Spec => []DenyWins
<1>1. IInv => DenyWins
      BY DEF IInv, CallInv, Backed, DenyWins
<1> QED
    BY <1>1, Invariant, PTL

\* No call is refused without a denial or a request for review.
THEOREM GapsFailSafe == Spec => []GapsReachAHuman
<1>1. IInv => GapsReachAHuman
      BY DEF IInv, CallInv, Ended, Waiting, GapsReachAHuman, Outcome, Sound
<1> QED
    BY <1>1, Invariant, PTL

\* What is classified as SECURITY_CRITICAL is blocked, and a refund above the
\* limit is denied or flagged for review.
THEOREM RiskAgrees == Spec => []RiskMatchesDecision
<1>1. IInv => RiskMatchesDecision
      BY DEF IInv, CallInv, Undecided, Ended, Waiting, RiskMatchesDecision, Outcome, Sound,
             Unasked
<1> QED
    BY <1>1, Invariant, PTL

-----------------------------------------------------------------------------
(* Delegation only narrows.                                                *)

\* b is a, but of an agent that is no deeper and has no fewer scopes.
Wider(a, b) ==
    /\ b.depth <= a.depth /\ a.scopes \subseteq b.scopes
    /\ b.event = a.event /\ b.action = a.action /\ b.role = a.role
    /\ b.sandbox = a.sandbox /\ b.amount = a.amount /\ b.path = a.path
    /\ b.foreign = a.foreign /\ b.spent = a.spent /\ b.wants = a.wants
    /\ b.steps = a.steps /\ b.blockedStep = a.blockedStep /\ b.data = a.data

\* What is denied to the wider agent is denied to the narrower one.
LEMMA DenyWidens ==
    ASSUME NEW a \in Documents, NEW b \in Documents, Wider(a, b), NEW u, Deny(b, u)
    PROVE  Deny(a, u)
<1>1. a.depth \in Nat /\ b.depth \in Nat /\ b.depth <= a.depth
      BY DEF Documents, Wider
<1>2. SecurityDeny(b) => SecurityDeny(a)
      BY DEF SecurityDeny, Wider
<1>3. DelegationDeny(b) => DelegationDeny(a)
  <2>1. b.action = a.action
        /\ (AmountOver(b, 50) <=> AmountOver(a, 50)) /\ (AmountUnder(b, 0) <=> AmountUnder(a, 0))
        BY DEF Wider, AmountOver, AmountUnder
  <2> QED BY <1>1, <2>1 DEF DelegationDeny
<1>4. BudgetDeny(b) => BudgetDeny(a)
      BY DEF BudgetDeny, Wider
<1>5. DataDeny(b) => DataDeny(a)
      BY <1>1 DEF DataDeny, Wider
<1>6. LifecycleDeny(b) => LifecycleDeny(a)
      BY <1>1 DEF LifecycleDeny, CapabilitiesValid, Wider
<1>7. PlanDeny(b) => PlanDeny(a)
      BY DEF PlanDeny, Wider
<1>8. b.event = a.event
      BY DEF Wider
<1> QED
    BY <1>2, <1>3, <1>4, <1>5, <1>6, <1>7, <1>8 DEF Deny

\* What is allowed to the narrower agent is allowed to the wider one.
LEMMA AllowWidens ==
    ASSUME NEW a \in Documents, NEW b \in Documents, Wider(a, b), NEW u, Allow(a, u)
    PROVE  Allow(b, u)
<1>1. a.depth \in Nat /\ b.depth \in Nat /\ b.depth <= a.depth
      BY DEF Documents, Wider
<1>2. ~Deny(b, u)
      BY DenyWidens DEF Allow
<1>3. FinancialAllow(a) => FinancialAllow(b)
  <2>1. (AmountIn(a, 0, 100) <=> AmountIn(b, 0, 100))
        /\ (AmountIn(a, 0, 1000) <=> AmountIn(b, 0, 1000))
        BY DEF AmountIn, Wider
  <2> QED BY <2>1 DEF FinancialAllow, Wider
<1>4. DataAllow(a) => DataAllow(b)
      BY <1>1 DEF DataAllow, Wider
<1>5. LifecycleAllow(a) => LifecycleAllow(b)
      BY <1>1 DEF LifecycleAllow, CapabilitiesValid, Wider
<1>6. (PlanAllow(a) => PlanAllow(b)) /\ (BudgetAllow(a) => BudgetAllow(b))
      BY DEF PlanAllow, BudgetAllow, Wider
<1>7. b.event = a.event
      BY DEF Wider
<1> QED
    BY <1>2, <1>3, <1>4, <1>5, <1>6, <1>7 DEF Allow

\* Whatever two tiers let a deeper agent do with fewer scopes, they let a
\* shallower one with more scopes do.
THEOREM DepthNarrows == Spec => []DepthOnlyNarrows
<1>1. IInv => DepthOnlyNarrows
  <2> SUFFICES ASSUME IInv, NEW c \in Calls,
                      VerdictOf(input[c], [t \in Tiers |-> Says(user[t], input[c])]).allow,
                      NEW d \in 0..input[c].depth, NEW s \in Scopes
               PROVE  VerdictOf([input[c] EXCEPT !.depth = d, !.scopes = @ \cup {s}],
                                [t \in Tiers |-> Says(user[t], input[c])]).allow
      BY DEF DepthOnlyNarrows
  <2> DEFINE says == [t \in Tiers |-> Says(user[t], input[c])]
             a == input[c]
             b == [a EXCEPT !.depth = d, !.scopes = a.scopes \cup {s}]
  <2>1. a \in Documents
        BY ConstantsAssumption DEF IInv, TypeOK
  <2>2. s \in STRING
        BY ConstantsAssumption DEF Scopes, Documents
  <2>3. b \in Documents /\ Wider(a, b)
    <3>1. /\ a.depth \in Nat /\ d \in Nat /\ d <= a.depth
          /\ a.scopes \in SUBSET STRING
          BY <2>1 DEF Documents
    <3>2. a.scopes \cup {s} \in SUBSET STRING
          BY <2>2, <3>1
    <3> DEFINE t == a.scopes \cup {s}
    <3>3. t \in SUBSET STRING /\ a.scopes \subseteq t
          BY <3>2
    <3> HIDE DEF t
    <3>4. [a EXCEPT !.depth = d, !.scopes = t] \in Documents
      <4> HIDE DEF a
      <4> QED BY <2>1, <3>1, <3>3 DEF Documents
    <3>5. Wider(a, [a EXCEPT !.depth = d, !.scopes = t])
      <4> HIDE DEF a
      <4> QED BY <2>1, <3>1, <3>3 DEF Documents, Wider
    <3> QED BY <3>4, <3>5 DEF t
  <2> HIDE DEF a, b, says
  <2>4. ASSUME NEW u PROVE /\ Decide(a, u).allow => Decide(b, u).allow
                           /\ Decide(b, u).deny => Decide(a, u).deny
        BY <2>1, <2>3, AllowWidens, DenyWidens DEF Decide
  <2> DEFINE g(x) == Decide(x, says["global"])
             p(x) == Decide(x, says["project"])
  <2>5. /\ ~g(a).deny /\ ~p(a).deny /\ (g(a).allow \/ p(a).allow)
    <3>1. /\ g(a) \in Decisions /\ p(a) \in Decisions
          BY DecideSound
    <3>2. CASE g(a).deny
      <4>1. SkipProject(g(a)).allow = FALSE
            BY <3>1 DEF SkipProject, Decisions
      <4> QED BY <3>2, <4>1 DEF VerdictOf, a, says
    <3>3. CASE ~g(a).deny
          BY <3>3 DEF VerdictOf, Merge, a, says
    <3> QED BY <3>2, <3>3
  <2>6. ~g(b).deny /\ ~p(b).deny /\ (g(b).allow \/ p(b).allow)
        BY <2>4, <2>5
  <2>7. VerdictOf(b, says).allow
        BY <2>6 DEF VerdictOf, Merge
  <2> QED BY <2>7 DEF b, a, says
<1> QED
    BY <1>1, Invariant, PTL

-----------------------------------------------------------------------------
(* The rules of user policies.                                             *)

\* Another rule adds what it says, at most.
LEMMA RuleAdds ==
    ASSUME NEW rules, NEW rule, NEW in
    PROVE  Says(rules \cup {rule}, in) \in {Says(rules, in), Says(rules, in) \cup {rule.then}}
BY DEF Says

\* A word of permission takes no denial back; another permits nothing.
LEMMA WordsPull ==
    ASSUME NEW in, NEW u, NEW w
    PROVE  /\ Deny(in, u) => Deny(in, u \cup {w})
           /\ w # "deny" => (Deny(in, u \cup {w}) => Deny(in, u))
           /\ w # "allow" => (Allow(in, u \cup {w}) => Allow(in, u))
BY DEF Deny, Allow

\* In either tier, another rule that allows lifts no denial, and one that denies
\* or asks for review allows nothing new.
THEOREM RulesPull == Spec => []RulesPullTheirWay
<1>1. IInv => RulesPullTheirWay
  <2> SUFFICES ASSUME IInv, NEW c \in Calls, NEW t \in Tiers, NEW rule \in UNION UserPolicies
               PROVE  LET before == Verdict(input[c], user)
                          after == Verdict(input[c], [user EXCEPT ![t] = @ \cup {rule}])
                      IN IF rule.then = "allow" THEN before.deny => after.deny
                                                ELSE after.allow => before.allow
      BY DEF RulesPullTheirWay
  <2> DEFINE in == input[c]
             more == [user EXCEPT ![t] = user[t] \cup {rule}]
             D(x) == Decide(in, Says(user[x], in))
             E(x) == Decide(in, Says(more[x], in))
  <2>1. \A x \in Tiers : more[x] = user[x] \/ more[x] = user[x] \cup {rule}
        BY DEF IInv, TypeOK
  <2>2. \A x \in Tiers : \/ Says(more[x], in) = Says(user[x], in)
                         \/ Says(more[x], in) = Says(user[x], in) \cup {rule.then}
        BY <2>1, RuleAdds
  <2>3. ASSUME NEW x \in Tiers
        PROVE  /\ D(x).deny => E(x).deny
               /\ rule.then # "allow" => (E(x).allow => D(x).allow)
    <3> DEFINE u == Says(user[x], in)
    <3>1. E(x) = D(x) \/ E(x) = Decide(in, u \cup {rule.then})
          BY <2>2
    <3>2. /\ D(x).deny = Deny(in, u) /\ D(x).allow = Allow(in, u)
          /\ Decide(in, u \cup {rule.then}).deny = Deny(in, u \cup {rule.then})
          /\ Decide(in, u \cup {rule.then}).allow = Allow(in, u \cup {rule.then})
          BY DEF Decide
    <3> HIDE DEF D, E, u
    <3> QED BY <3>1, <3>2, WordsPull
  <2>4. \A x \in Tiers : D(x) \in Decisions /\ E(x) \in Decisions
        BY DecideSound
  <2>5. /\ Verdict(in, user) = IF D("global").deny THEN SkipProject(D("global"))
                               ELSE Merge(D("global"), D("project"))
        /\ Verdict(in, more) = IF E("global").deny THEN SkipProject(E("global"))
                               ELSE Merge(E("global"), E("project"))
        BY DEF Verdict, VerdictOf, Tiers
  <2> HIDE DEF D, E, in, more
  <2>6. "global" \in Tiers /\ "project" \in Tiers
        BY DEF Tiers
  <2>7. Verdict(in, user).deny => Verdict(in, more).deny
        BY <2>3, <2>4, <2>5, <2>6 DEF SkipProject, Merge, Decisions
  <2>8. rule.then # "allow" => (Verdict(in, more).allow => Verdict(in, user).allow)
        BY <2>3, <2>4, <2>5, <2>6 DEF SkipProject, Merge, Decisions
  <2> QED BY <2>7, <2>8 DEF in, more
<1> QED
    BY <1>1, Invariant, PTL
=============================================================================
