------------------------ MODULE CredentialBrokerProofs ------------------------
(***************************************************************************)
(* What the credential broker guarantees for any number of tokens,         *)
(* sessions, scopes, restarts and failed writes, and any clock bound.      *)
(***************************************************************************)
EXTENDS CredentialBroker, TLAPS

(* Types.                                                                  *)

\* The initial state is well typed.
LEMMA TypeInit == Init => TypeOK
  BY ConstantsAssumption DEF Init, TypeOK, Stored, made

\* A new token keeps the types.
LEMMA MakeTypes ==
    ASSUME TypeOK, NEW t \in Tokens, NEW g \in Grants, NEW ok \in BOOLEAN, Make(t, g, ok)
    PROVE  TypeOK'
<1>1. made' = made \cup {t}
      BY DEF Make, made, TypeOK
<1>2. grant' \in [made' -> Grants]
      BY <1>1 DEF Make, TypeOK
<1> QED
    BY <1>1, <1>2, ConstantsAssumption DEF Make, Write, TypeOK, Stored

\* Every step keeps the types.
LEMMA TypeNext == TypeOK /\ [Next]_vars => TypeOK'
<1> SUFFICES ASSUME TypeOK, [Next]_vars
             PROVE  TypeOK'
    OBVIOUS
<1>1. ASSUME NEW t \in Tokens, NEW s \in Sessions, NEW sc \in SUBSET Scopes,
             NEW ok \in BOOLEAN, NEW e \in Expiries, Issue(t, s, sc, e, ok)
      PROVE  TypeOK'
  <2>1. [session |-> s, scopes |-> sc, expires |-> e,
         parent |-> NoToken, depth |-> 0] \in Grants
        BY ConstantsAssumption DEF Grants
  <2> QED
      BY <1>1, <2>1, MakeTypes DEF Issue
<1>2. ASSUME NEW t \in Tokens, NEW s \in Sessions, NEW sc \in SUBSET Scopes,
             NEW ok \in BOOLEAN, NEW p \in Tokens, Delegate(p, t, s, sc, ok)
      PROVE  TypeOK'
  <2>1. p \in made /\ grant[p] \in Grants
        BY <1>2 DEF Delegate, TypeOK
  <2>2. Child(p, s, sc) \in Grants
        BY <2>1 DEF Child, Grants
  <2> QED
      BY <1>2, <2>2, MakeTypes DEF Delegate
<1>3. ASSUME NEW t \in Tokens, NEW ok \in BOOLEAN, Revoke(t, ok)
      PROVE  TypeOK'
      BY <1>3, ConstantsAssumption DEF Revoke, Write, TypeOK, Stored, made
<1>4. ASSUME NEW s \in Sessions, NEW ok \in BOOLEAN, RevokeSession(s, ok)
      PROVE  TypeOK'
      BY <1>4, ConstantsAssumption
      DEF RevokeSession, Marked, OfSession, Write, TypeOK, Stored, made
<1>5. CASE Tick
      BY <1>5, ConstantsAssumption DEF Tick, TypeOK, made
<1>6. CASE Restart
      BY <1>6, ConstantsAssumption DEF Restart, Loaded, TypeOK, Stored, made
<1>7. CASE UNCHANGED vars
      BY <1>7 DEF vars, TypeOK, made
<1> QED
    BY <1>1, <1>2, <1>3, <1>4, <1>5, <1>6, <1>7 DEF Next

\* Every variable keeps its type in every behaviour.
THEOREM TypeCorrect == Spec => []TypeOK
  BY TypeInit, TypeNext, PTL DEF Spec

-----------------------------------------------------------------------------
(* The invariant behind the three properties.  A revocation that returned  *)
(* is in both stores, so neither the cache nor a reload of it shows the    *)
(* token as live; a token in somebody's hands is in both stores until it   *)
(* expires; and a child expires with its parent, which somebody held.      *)

RevokedInBoth == \A t \in revoked : memory[t] # "live" /\ disk[t] # "live"

HeldInBoth == \A t \in held \ named :
                  now < grant[t].expires => memory[t] = "live" /\ disk[t] = "live"

ChildOfHeld(t) == grant[t].parent # NoToken =>
                      /\ grant[t].parent \in held
                      /\ grant[grant[t].parent].expires = grant[t].expires
                      /\ memory[t] # "absent" => memory[grant[t].parent] # "absent"

BrokerInv == RevokedInBoth /\ HeldInBoth /\ \A t \in made : ChildOfHeld(t)

\* It holds initially.
LEMMA BrokerInvInit == Init => BrokerInv
  BY DEF Init, BrokerInv, RevokedInBoth, HeldInBoth, ChildOfHeld, made

\* Making a token keeps it, if the new token is no child or a child as
\* delegate() makes it.
LEMMA MakeKeepsInv ==
    ASSUME TypeOK, BrokerInv, NEW t \in Tokens, NEW g \in Grants, NEW ok \in BOOLEAN,
           Make(t, g, ok),
           g.parent # NoToken => /\ g.parent \in held
                                 /\ grant[g.parent].expires = g.expires
                                 /\ memory[g.parent] # "absent"
    PROVE  BrokerInv'
<1>1. /\ made' = made \cup {t}
      /\ t \notin made
      /\ t \notin held /\ t \notin named /\ t \notin revoked
      /\ \A u \in made : grant'[u] = grant[u]
      /\ grant'[t] = g
      BY DEF Make, made, TypeOK
<1>2. /\ memory' = [memory EXCEPT ![t] = "live"]
      /\ disk' = disk \/ disk' = [disk EXCEPT ![t] = "live"]
      /\ ok => disk' = [disk EXCEPT ![t] = "live"]
      /\ held' = IF ok THEN held \cup {t} ELSE held
      /\ UNCHANGED <<now, named, revoked>>
      BY DEF Make, Write
<1>3. held \subseteq made /\ revoked \subseteq made /\ made \subseteq Tokens
      BY DEF TypeOK
<1>4. RevokedInBoth'
      BY <1>1, <1>2, <1>3 DEF BrokerInv, RevokedInBoth, TypeOK
<1>5. HeldInBoth'
      BY <1>1, <1>2, <1>3 DEF BrokerInv, HeldInBoth, TypeOK
<1>6. ASSUME NEW u \in made' PROVE ChildOfHeld(u)'
  <2>1. CASE u = t
        BY <2>1, <1>1, <1>2, <1>3 DEF ChildOfHeld, TypeOK
  <2>2. CASE u \in made
        BY <2>2, <1>1, <1>2, <1>3 DEF BrokerInv, ChildOfHeld, TypeOK
  <2> QED
      BY <2>1, <2>2, <1>1
<1> QED
    BY <1>4, <1>5, <1>6 DEF BrokerInv

\* Every step keeps it.
LEMMA BrokerInvNext == TypeOK /\ BrokerInv /\ [Next]_vars => BrokerInv'
<1> SUFFICES ASSUME TypeOK, BrokerInv, [Next]_vars
             PROVE  BrokerInv'
    OBVIOUS
<1>1. ASSUME NEW t \in Tokens, NEW s \in Sessions, NEW sc \in SUBSET Scopes,
             NEW ok \in BOOLEAN, NEW e \in Expiries, Issue(t, s, sc, e, ok)
      PROVE  BrokerInv'
  <2> DEFINE g == [session |-> s, scopes |-> sc, expires |-> e,
                   parent |-> NoToken, depth |-> 0]
  <2>1. g \in Grants /\ g.parent = NoToken
        BY ConstantsAssumption DEF Grants
  <2>2. Make(t, g, ok)
        BY <1>1 DEF Issue
  <2> HIDE DEF g
  <2> QED
      BY <2>1, <2>2, MakeKeepsInv
<1>2. ASSUME NEW t \in Tokens, NEW s \in Sessions, NEW sc \in SUBSET Scopes,
             NEW ok \in BOOLEAN, NEW p \in Tokens, Delegate(p, t, s, sc, ok)
      PROVE  BrokerInv'
  <2> DEFINE g == Child(p, s, sc)
  <2>1. p \in held /\ grant[p] \in Grants /\ memory[p] = "live" /\ Make(t, g, ok)
        BY <1>2 DEF Delegate, MayDelegate, Usable, TypeOK
  <2>2. /\ g \in Grants
        /\ g.parent = p /\ g.expires = grant[p].expires
        BY <2>1 DEF Child, Grants
  <2> HIDE DEF g
  <2> QED
      BY <2>1, <2>2, MakeKeepsInv
<1>3. ASSUME NEW t \in Tokens, NEW ok \in BOOLEAN, Revoke(t, ok)
      PROVE  BrokerInv'
      BY <1>3 DEF Revoke, Write, BrokerInv, RevokedInBoth, HeldInBoth, ChildOfHeld,
                  TypeOK, made
<1>4. ASSUME NEW s \in Sessions, NEW ok \in BOOLEAN, RevokeSession(s, ok)
      PROVE  BrokerInv'
      BY <1>4 DEF RevokeSession, Marked, OfSession, Write, BrokerInv, RevokedInBoth,
                  HeldInBoth, ChildOfHeld, TypeOK, made
<1>5. CASE Tick
  <2>1. \A t \in made : grant[t].expires \in Nat
        BY DEF TypeOK, Grants
  <2> QED
      BY <1>5, <2>1 DEF Tick, BrokerInv, RevokedInBoth, HeldInBoth, ChildOfHeld,
                        TypeOK, made
<1>6. CASE Restart
      BY <1>6 DEF Restart, Loaded, BrokerInv, RevokedInBoth, HeldInBoth, ChildOfHeld,
                  TypeOK, made
<1>7. CASE UNCHANGED vars
      BY <1>7 DEF vars, BrokerInv, RevokedInBoth, HeldInBoth, ChildOfHeld, made
<1> QED
    BY <1>1, <1>2, <1>3, <1>4, <1>5, <1>6, <1>7 DEF Next

\* The invariant holds in every behaviour.
LEMMA BrokerInvHolds == Spec => [](TypeOK /\ BrokerInv)
  BY TypeInit, TypeNext, BrokerInvInit, BrokerInvNext, PTL DEF Spec

\* A token whose revocation returned is never valid again, restarts included.
THEOREM RevocationDurable == Spec => []RevocationIsDurable
<1>1. BrokerInv => RevocationIsDurable
      BY DEF BrokerInv, RevokedInBoth, RevocationIsDurable, Usable
<1> QED
    BY <1>1, BrokerInvHolds, PTL

\* A token in somebody's hands stays valid until it expires or somebody tries
\* to revoke it.
THEOREM HeldUsable == Spec => []HeldStaysUsable
<1>1. BrokerInv => HeldStaysUsable
      BY DEF BrokerInv, HeldInBoth, HeldStaysUsable, Usable
<1> QED
    BY <1>1, BrokerInvHolds, PTL

\* No token is in the cache without the token it was delegated from.
THEOREM OrphansImpossible == Spec => []NoOrphans
<1>1. TypeOK /\ BrokerInv => NoOrphans
      BY DEF TypeOK, BrokerInv, ChildOfHeld, NoOrphans
<1> QED
    BY <1>1, BrokerInvHolds, PTL

-----------------------------------------------------------------------------
(* Delegation.                                                             *)

\* A child has some of its parent's scopes, its expiry, and is one deeper.
NarrowsParent(t) == grant[t].parent # NoToken =>
                        /\ grant[t].parent \in made
                        /\ grant[t].scopes # {}
                        /\ grant[t].scopes \subseteq grant[grant[t].parent].scopes
                        /\ grant[t].expires = grant[grant[t].parent].expires
                        /\ grant[t].depth = grant[grant[t].parent].depth + 1

Narrowing == \A t \in made : NarrowsParent(t)

LEMMA MakeKeepsNarrowing ==
    ASSUME TypeOK, Narrowing, NEW t \in Tokens, NEW g, NEW ok \in BOOLEAN, Make(t, g, ok),
           g.parent # NoToken => /\ g.parent \in made
                                 /\ g.scopes # {} /\ g.scopes \subseteq grant[g.parent].scopes
                                 /\ g.expires = grant[g.parent].expires
                                 /\ g.depth = grant[g.parent].depth + 1
    PROVE  Narrowing'
<1>1. /\ made' = made \cup {t} /\ t \notin made
      /\ \A u \in made : grant'[u] = grant[u]
      /\ grant'[t] = g
      BY DEF Make, made, TypeOK
<1>2. NarrowsParent(t)'
      BY <1>1 DEF NarrowsParent
<1>3. ASSUME NEW u \in made PROVE NarrowsParent(u)'
      BY <1>1 DEF Narrowing, NarrowsParent
<1> QED
    BY <1>1, <1>2, <1>3 DEF Narrowing

LEMMA NarrowingKept == TypeOK /\ Narrowing /\ [Next]_vars => Narrowing'
<1> SUFFICES ASSUME TypeOK, Narrowing, [Next]_vars
             PROVE  Narrowing'
    OBVIOUS
<1>1. ASSUME NEW t \in Tokens, NEW s \in Sessions, NEW sc \in SUBSET Scopes,
             NEW ok \in BOOLEAN, NEW e \in Expiries, Issue(t, s, sc, e, ok)
      PROVE  Narrowing'
  <2> DEFINE g == [session |-> s, scopes |-> sc, expires |-> e,
                   parent |-> NoToken, depth |-> 0]
  <2>1. g.parent = NoToken /\ Make(t, g, ok)
        BY <1>1 DEF Issue
  <2> HIDE DEF g
  <2> QED
      BY <2>1, MakeKeepsNarrowing
<1>2. ASSUME NEW t \in Tokens, NEW s \in Sessions, NEW sc \in SUBSET Scopes,
             NEW ok \in BOOLEAN, NEW p \in Tokens, Delegate(p, t, s, sc, ok)
      PROVE  Narrowing'
  <2> DEFINE g == Child(p, s, sc)
  <2>1. p \in made /\ MayDelegate(p, sc) /\ Make(t, g, ok)
        BY <1>2 DEF Delegate, TypeOK
  <2>2. /\ g.parent = p /\ g.scopes = sc /\ g.expires = grant[p].expires
        /\ g.depth = grant[p].depth + 1
        BY DEF Child
  <2> HIDE DEF g
  <2> QED
      BY <2>1, <2>2, MakeKeepsNarrowing DEF MayDelegate
<1>3. ASSUME UNCHANGED grant PROVE Narrowing'
      BY <1>3 DEF Narrowing, NarrowsParent, made
<1> QED
    BY <1>1, <1>2, <1>3 DEF Next, Revoke, RevokeSession, Tick, Restart, vars

\* Along every chain of delegations, however long, scopes and lifetimes only
\* shrink, and it has a beginning: the tokens that are wider than t are among
\* the sets that no ancestor of t is missing from.
THEOREM DelegationAlwaysNarrows == Spec => []DelegationNarrows
<1>1. Init => Narrowing
      BY DEF Init, Narrowing, made
<1>2. ASSUME TypeOK, Narrowing PROVE DelegationNarrows
  <2> SUFFICES ASSUME NEW t \in made, NEW u \in Ancestors(t)
               PROVE  /\ grant[t].scopes # {}
                      /\ grant[t].scopes \subseteq grant[u].scopes
                      /\ grant[t].expires <= grant[u].expires
                      /\ grant[u].depth < grant[t].depth
      BY DEF DelegationNarrows
  <2> DEFINE wider == {v \in made : /\ grant[t].scopes \subseteq grant[v].scopes
                                    /\ grant[t].expires = grant[v].expires
                                    /\ grant[v].depth < grant[t].depth}
  <2>1. \A v \in made : grant[v].depth \in Nat /\ grant[v].expires \in Nat
        BY <1>2, ConstantsAssumption DEF TypeOK, Grants
  <2>2. ParentIn(t, wider)
        BY <1>2, <2>1 DEF ParentIn, Narrowing, NarrowsParent
  <2>3. \A v \in wider : ParentIn(v, wider)
        BY <1>2, <2>1 DEF ParentIn, Narrowing, NarrowsParent
  <2>4. u \in wider
        BY <2>2, <2>3 DEF Ancestors
  <2>5. grant[t].scopes # {}
    <3>1. CASE grant[t].parent = NoToken
      <4>1. ParentIn(t, {}) /\ \A v \in {} : ParentIn(v, {})
            BY <3>1 DEF ParentIn
      <4>2. u \in {}
            BY <4>1 DEF Ancestors
      <4> QED  BY <4>2
    <3>2. CASE grant[t].parent # NoToken
          BY <3>2, <1>2 DEF Narrowing, NarrowsParent
    <3> QED  BY <3>1, <3>2
  <2> QED
      BY <2>1, <2>4, <2>5
<1> QED
    BY <1>1, <1>2, NarrowingKept, TypeCorrect, PTL DEF Spec
-----------------------------------------------------------------------------
(* What holders may rely on.  By the invariant a token that is neither     *)
(* named nor expired is live in the cache, and a revoked one is not; so    *)
(* the abstract register's picture fits in every state, and of a step only *)
(* the tokens whose status changes remain to be looked at.                 *)

\* The register's picture fits the cache.
LEMMA RegisterFits == TypeOK /\ BrokerInv => Register!Fits
<1> SUFFICES ASSUME TypeOK, BrokerInv PROVE Register!Fits
    OBVIOUS
<1>1. \A t \in made : grant[t].expires \in Nat
  <2>1. grant \in [made -> Grants] /\ MaxTime \in Nat
        BY ConstantsAssumption DEF TypeOK
  <2> QED  BY <2>1 DEF Grants
<1>2. now \in Nat /\ held \subseteq made /\ made \subseteq Tokens
      BY ConstantsAssumption DEF TypeOK
<1>3. ASSUME NEW t \in Tokens, Status(t) = "good" PROVE t \in held /\ Usable(t)
      BY <1>1, <1>2, <1>3 DEF Status, Usable, BrokerInv, HeldInBoth
<1>4. ASSUME NEW t \in held, Usable(t) PROVE Status(t) \in {"good", "doubtful"}
      BY <1>1, <1>2, <1>4 DEF Status, Usable, BrokerInv, RevokedInBoth
<1> QED
    BY <1>2, <1>3, <1>4 DEF Register!Fits

\* A step that lets tokens die, and changes the status of no other, kills them.
LEMMA StepKills ==
    ASSUME Register!Fits',
           \A t \in Tokens : \/ Status(t)' = Status(t)
                             \/ Status(t)' = "dead" /\ Status(t) # "none"
    PROVE  \E set \in SUBSET Tokens : Register!Kill(set)
<1> DEFINE set == {t \in Tokens : Status(t)' = "dead" /\ Status(t) # "none"}
<1>1. \A t \in Tokens : Status(t) \in {"none", "good", "doubtful", "dead"}
      BY DEF Status
<1>2. \A t \in set : Status(t) \in {"good", "doubtful", "dead"}
      BY <1>1
<1>3. \A t \in Tokens : Status(t)' = IF t \in set THEN "dead" ELSE Status(t)
      OBVIOUS
<1>4. Register!Kill(set)
  <2> HIDE DEF set
  <2>1. set \subseteq Tokens
        BY DEF set
  <2> QED  BY <1>2, <1>3, <2>1 DEF Register!Kill, Register!Turn
<1> QED  BY <1>4

\* A step that leaves good tokens in doubt, and changes the status of no other.
LEMMA StepDoubts ==
    ASSUME Register!Fits',
           \A t \in Tokens : \/ Status(t)' = Status(t)
                             \/ Status(t)' = "doubtful" /\ Status(t) = "good"
    PROVE  \E set \in SUBSET Tokens : Register!Doubt(set)
<1> DEFINE set == {t \in Tokens : Status(t)' = "doubtful" /\ Status(t) = "good"}
<1>1. \A t \in Tokens : Status(t)' = IF t \in set THEN "doubtful" ELSE Status(t)
      OBVIOUS
<1>2. Register!Doubt(set)
  <2>1. set \subseteq Tokens /\ \A t \in set : Status(t) = "good"
        OBVIOUS
  <2> HIDE DEF set
  <2> QED  BY <1>1, <2>1 DEF Register!Doubt, Register!Turn
<1> QED  BY <1>2

\* Making a token gives it out, or changes nothing that its holders see.
LEMMA MakeIsRegistered ==
    ASSUME TypeOK, Register!Fits', NEW t \in Tokens, NEW g \in Grants, NEW ok \in BOOLEAN,
           Make(t, g, ok)
    PROVE  [Register!Next]_(Register!vars)
<1>1. /\ t \notin held /\ t \notin named /\ t \notin revoked
      /\ held \subseteq made /\ made \subseteq Tokens
      /\ \A u \in held : u # t /\ grant'[u] = grant[u] /\ memory'[u] = memory[u]
      /\ UNCHANGED <<now, named, revoked>>
      BY DEF Make, TypeOK, made
<1>2. \A u \in Tokens \ {t} : Status(u)' = Status(u)
      BY <1>1 DEF Make, Status
<1>3. CASE ok
  <2>1. Status(t) = "none" /\ Status(t)' \in {"good", "dead"}
        BY <1>1, <1>3 DEF Make, Status
  <2>2. \A u \in Tokens : Status(u)' = IF u \in {t} THEN Status(t)' ELSE Status(u)
        BY <1>2
  <2>3. Register!Turn({t}, {"none"}, Status(t)')
        BY <2>1, <2>2 DEF Register!Turn
  <2> QED  BY <2>1, <2>3 DEF Register!Next, Register!Give
<1>4. CASE ~ok
  <2>1. held' = held
        BY <1>4 DEF Make
  <2>2. \A u \in held : Usable(u)' = Usable(u)
        BY <1>1 DEF Usable
  <2>3. \A u \in Tokens : Status(u)' = Status(u)
        BY <1>1, <2>1 DEF Status
  <2> QED  BY <2>1, <2>2, <2>3 DEF Register!vars
<1> QED  BY <1>3, <1>4

\* Every step of the broker is a step of the register, or none.
LEMMA StepIsRegistered ==
    ASSUME TypeOK, Register!Fits', [Next]_vars
    PROVE  [Register!Next]_(Register!vars)
<1>1. ASSUME NEW t \in Tokens, NEW s \in Sessions, NEW sc \in SUBSET Scopes,
             NEW ok \in BOOLEAN, NEW e \in Expiries, Issue(t, s, sc, e, ok)
      PROVE  [Register!Next]_(Register!vars)
  <2>1. [session |-> s, scopes |-> sc, expires |-> e,
         parent |-> NoToken, depth |-> 0] \in Grants
        BY ConstantsAssumption DEF Grants
  <2> QED
      BY <1>1, <2>1, MakeIsRegistered DEF Issue
<1>2. ASSUME NEW t \in Tokens, NEW s \in Sessions, NEW sc \in SUBSET Scopes,
             NEW ok \in BOOLEAN, NEW p \in Tokens, Delegate(p, t, s, sc, ok)
      PROVE  [Register!Next]_(Register!vars)
  <2>1. Child(p, s, sc) \in Grants
        BY <1>2 DEF Delegate, TypeOK, Child, Grants
  <2> QED
      BY <1>2, <2>1, MakeIsRegistered DEF Delegate
<1>3. ASSUME NEW ok \in BOOLEAN, NEW set \in SUBSET made,
             UNCHANGED <<grant, now, held>>,
             named' = named \cup set,
             revoked' = IF ok THEN revoked \cup set ELSE revoked
      PROVE  [Register!Next]_(Register!vars)
  <2>1. CASE ok
    <3>1. \A t \in Tokens : \/ Status(t)' = Status(t)
                            \/ Status(t)' = "dead" /\ Status(t) # "none"
          BY <1>3, <2>1 DEF Status
    <3> QED  BY <3>1, StepKills DEF Register!Next
  <2>2. CASE ~ok
    <3>1. \A t \in Tokens : \/ Status(t)' = Status(t)
                            \/ Status(t)' = "doubtful" /\ Status(t) = "good"
          BY <1>3, <2>2 DEF Status
    <3> QED  BY <3>1, StepDoubts DEF Register!Next
  <2> QED  BY <2>1, <2>2
<1>4. ASSUME NEW t \in Tokens, NEW ok \in BOOLEAN, Revoke(t, ok)
      PROVE  [Register!Next]_(Register!vars)
      BY <1>4, <1>3, {t} \in SUBSET made DEF Revoke, TypeOK
<1>5. ASSUME NEW s \in Sessions, NEW ok \in BOOLEAN, RevokeSession(s, ok)
      PROVE  [Register!Next]_(Register!vars)
      BY <1>5, <1>3, OfSession(s) \in SUBSET made DEF RevokeSession, OfSession
<1>6. CASE Tick
  <2>1. \A t \in held : grant[t].expires \in Nat
        BY DEF TypeOK, Grants, made
  <2>2. now \in Nat /\ now' = now + 1 /\ UNCHANGED <<grant, held, named, revoked>>
        BY <1>6, ConstantsAssumption DEF Tick, TypeOK
  <2>3. \A t \in Tokens : \/ Status(t)' = Status(t)
                          \/ Status(t)' = "dead" /\ Status(t) # "none"
        BY <2>1, <2>2 DEF Status
  <2> QED  BY <2>3, StepKills DEF Register!Next
<1>7. CASE Restart
  <2>1. \A t \in Tokens : Status(t)' = Status(t)
        BY <1>7 DEF Restart, Status
  <2> QED  BY <2>1, StepDoubts DEF Register!Next
<1>8. CASE UNCHANGED vars
      BY <1>8 DEF vars, Register!vars, Status, Usable
<1> QED
    BY <1>1, <1>2, <1>4, <1>5, <1>6, <1>7, <1>8 DEF Next

\* To whoever holds tokens the broker is the abstract register: good tokens are
\* usable until they are revoked or expire, and dead ones stay dead, through
\* restarts and failed writes.
THEOREM BrokerImplementsRegister == Spec => ImplementsTokenRegister
<1>1. Init => Register!Init
      BY DEF Init, Register!Init, Register!Fits, Status
<1> QED
    BY <1>1, BrokerInvHolds, RegisterFits, StepIsRegistered, PTL
    DEF Spec, ImplementsTokenRegister, Register!Spec
=============================================================================
