--------------------------- MODULE CredentialBroker ---------------------------
(***************************************************************************)
(* Session tokens: issue, delegate, revoke, validate, and their write-     *)
(* through to SQLite (src/kitelogik/anchor/credentials.py).                *)
(*                                                                         *)
(* The broker's methods are synchronous, so on the event loop each one is  *)
(* a single step, except that the in-memory cache is changed before the    *)
(* row is written: the write may raise, or the process may die before it,  *)
(* and then only the cache has changed.  Both are the same step here with  *)
(* the write left out, the second followed by Restart.                     *)
(*                                                                         *)
(* A token's scopes, expiry, session and parent never change after it was  *)
(* made (the upsert updates `revoked' alone), so they are kept once, in    *)
(* grant; memory and disk say for each token whether the cache, and the    *)
(* table, hold it as live or as revoked.                                   *)
(***************************************************************************)
EXTENDS Naturals

CONSTANTS Tokens,      \* token ids; issue() and delegate() take a fresh one
          Sessions,    \* session ids
          Scopes,      \* capability names
          NoToken,     \* the parent of a token that was issued, not delegated
          MaxTime,     \* bound of the clock
          Expiries,    \* the moments at which an issued token may expire
          MaxFaults    \* bound on failed writes and restarts

ASSUME ConstantsAssumption ==
    /\ NoToken \notin Tokens
    /\ MaxTime \in Nat
    /\ Expiries \subseteq 0..MaxTime
    /\ MaxFaults \in Nat

VARIABLES grant,       \* what each token was made with; its domain is the tokens made
          memory,      \* self._tokens: "absent", "live" or "revoked"
          disk,        \* table session_tokens, likewise
          now,         \* the clock
          held,        \* history: the tokens that issue() or delegate() returned
          named,       \* history: the tokens a revocation was attempted for
          revoked,     \* history: the tokens a revocation that returned was for
          faults       \* failed writes and restarts so far

vars == <<grant, memory, disk, now, held, named, revoked, faults>>

made == DOMAIN grant

Grants == [session : Sessions, scopes : SUBSET Scopes, expires : 0..MaxTime,
           parent : Tokens \cup {NoToken}, depth : Nat]

\* As a bug: a token is still valid at the moment it expires.
BugUsable(t) == memory[t] = "live" /\ now <= grant[t].expires

\* SessionToken.is_valid and CredentialBroker.validate: the token is in the
\* cache, not revoked, and not expired.  Its parent is not asked.
Usable(t) == memory[t] = "live" /\ now < grant[t].expires

Init == /\ grant = [t \in {} |-> NoToken]
        /\ memory = [t \in Tokens |-> "absent"]
        /\ disk = [t \in Tokens |-> "absent"]
        /\ now = 0
        /\ held = {}
        /\ named = {}
        /\ revoked = {}
        /\ faults = 0

\* The write to the table, after the cache was changed: it succeeds (ok), or
\* it raises or the process dies before it.
Write(table, ok) ==
    \/ ok /\ disk' = table /\ UNCHANGED faults
    \/ ~ok /\ faults < MaxFaults /\ faults' = faults + 1 /\ UNCHANGED disk

-----------------------------------------------------------------------------
(* Making tokens.                                                          *)

\* A new token enters the cache and then the table; its id reaches the
\* caller only if the write succeeds.
Make(t, g, ok) ==
    /\ t \notin made
    /\ grant' = [u \in made \cup {t} |-> IF u = t THEN g ELSE grant[u]]
    /\ memory' = [memory EXCEPT ![t] = "live"]
    /\ Write([disk EXCEPT ![t] = "live"], ok)
    /\ held' = IF ok THEN held \cup {t} ELSE held
    /\ UNCHANGED <<now, named, revoked>>

\* issue(): any scopes, and any expiry from now on (ttl 0 included).
Issue(t, s, sc, expires, ok) ==
    /\ now <= expires
    /\ Make(t, [session |-> s, scopes |-> sc, expires |-> expires,
                parent |-> NoToken, depth |-> 0], ok)

\* As a bug: it is enough that one requested scope is the parent's.
BugMayDelegate(p, sc) == Usable(p) /\ sc \cap grant[p].scopes # {}

\* The three ValueErrors of delegate(): an invalid parent, no scopes, scopes
\* the parent does not have.
MayDelegate(p, sc) == Usable(p) /\ sc # {} /\ sc \subseteq grant[p].scopes

\* As a bug: the child gets a lifetime of its own, as in issue().
BugChild(p, s, sc) == [session |-> s, scopes |-> sc, expires |-> MaxTime,
                       parent |-> p, depth |-> grant[p].depth + 1]

Child(p, s, sc) == [session |-> s, scopes |-> sc, expires |-> grant[p].expires,
                    parent |-> p, depth |-> grant[p].depth + 1]

\* delegate(), called with the id of a token somebody holds.
Delegate(p, t, s, sc, ok) ==
    /\ p \in held
    /\ MayDelegate(p, sc)
    /\ Make(t, Child(p, s, sc), ok)

-----------------------------------------------------------------------------
(* Revoking tokens.                                                        *)

\* revoke(): an id the cache does not have changes nothing (no step); any
\* other is marked and upserted, revoked before or not.
Revoke(t, ok) ==
    /\ t \in held
    /\ memory[t] # "absent"
    /\ memory' = [memory EXCEPT ![t] = "revoked"]
    /\ Write([disk EXCEPT ![t] = "revoked"], ok)
    /\ named' = named \cup {t}
    /\ revoked' = IF ok THEN revoked \cup {t} ELSE revoked
    /\ UNCHANGED <<grant, now, held>>

OfSession(s) == {t \in made : grant[t].session = s}

\* The tokens of session s that `store' has, marked as revoked in it.
Marked(store, s) ==
    [t \in Tokens |-> IF t \in OfSession(s) /\ store[t] = "live" THEN "revoked" ELSE store[t]]

\* As a bug: the subclass inherits revoke_session(), only the cache changes.
BugRevokeSession(s, ok) ==
    /\ memory' = Marked(memory, s)
    /\ Write(disk, ok)
    /\ named' = named \cup OfSession(s)
    /\ revoked' = IF ok THEN revoked \cup OfSession(s) ELSE revoked
    /\ UNCHANGED <<grant, now, held>>

\* revoke_session(): every token with this session id, in the cache and in
\* the table.  Tokens delegated to another session id are not among them.
RevokeSession(s, ok) ==
    /\ memory' = Marked(memory, s)
    /\ Write(Marked(disk, s), ok)
    /\ named' = named \cup OfSession(s)
    /\ revoked' = IF ok THEN revoked \cup OfSession(s) ELSE revoked
    /\ UNCHANGED <<grant, now, held>>

-----------------------------------------------------------------------------
Tick == /\ now < MaxTime
        /\ now' = now + 1
        /\ UNCHANGED <<grant, memory, disk, held, named, revoked, faults>>

\* As a bug: the cutoff also drops the rows that expire at the next tick.
BugLoaded(t) == IF disk[t] # "absent" /\ now + 1 < grant[t].expires
                THEN disk[t] ELSE "absent"

\* _load_unexpired(): the rows WHERE expires_at > now, revoked or not.
Loaded(t) == IF disk[t] # "absent" /\ now < grant[t].expires
             THEN disk[t] ELSE "absent"

Restart == /\ faults < MaxFaults
           /\ faults' = faults + 1
           /\ memory' = [t \in Tokens |-> Loaded(t)]
           /\ UNCHANGED <<grant, disk, now, held, named, revoked>>

Next == \/ \E t \in Tokens \ made, s \in Sessions, sc \in SUBSET Scopes, ok \in BOOLEAN :
              \/ \E e \in Expiries : Issue(t, s, sc, e, ok)
              \/ \E p \in Tokens : Delegate(p, t, s, sc, ok)
        \/ \E t \in Tokens, ok \in BOOLEAN : Revoke(t, ok)
        \/ \E s \in Sessions, ok \in BOOLEAN : RevokeSession(s, ok)
        \/ Tick
        \/ Restart

Spec == Init /\ [][Next]_vars

-----------------------------------------------------------------------------
(* Properties.                                                             *)

Stored == {"absent", "live", "revoked"}

\* The type of every variable; what is stored was made, and what a caller
\* holds is in the table.
TypeOK == /\ made \subseteq Tokens
          /\ grant \in [made -> Grants]
          /\ memory \in [Tokens -> Stored]
          /\ disk \in [Tokens -> Stored]
          /\ \A t \in Tokens \ made : memory[t] = "absent" /\ disk[t] = "absent"
          /\ now \in 0..MaxTime
          /\ held \subseteq {t \in made : disk[t] # "absent"}
          /\ named \subseteq made
          /\ revoked \subseteq named
          /\ faults \in 0..MaxFaults

\* A token whose revocation returned (revoke, or revoke_session of its
\* session) is never valid again, also after the process restarts and reloads
\* its cache from the table.
RevocationIsDurable == \A t \in revoked : ~Usable(t)

\* A token somebody was given stays valid until it expires or somebody tries
\* to revoke it: no restart and no failed write takes it away.
HeldStaysUsable ==
    \A t \in held \ named : now < grant[t].expires => Usable(t)

\* What the holder of a token may rely on.
Status(t) == IF t \notin held THEN "none"
             ELSE IF t \in revoked \/ now >= grant[t].expires THEN "dead"
             ELSE IF t \in named THEN "doubtful"
             ELSE "good"

Register == INSTANCE TokenRegister WITH
                status <- [t \in Tokens |-> Status(t)],
                usable <- {t \in held : Usable(t)}

\* To whoever holds tokens the broker is the abstract register: a token it gave
\* out is good until it is revoked or expires, and then dead for good, whatever
\* is delegated from it, fails to be written or is reloaded; only an attempt to
\* revoke it that failed leaves it in doubt.
ImplementsTokenRegister == Register!Spec

\* A delegated token in the cache has its parent in the cache: reloading
\* never revives a child without the parent its rights come from.
NoOrphans ==
    \A t \in made : (grant[t].parent # NoToken /\ memory[t] # "absent")
        => /\ grant[t].parent \in made
           /\ memory[grant[t].parent] # "absent"

ParentIn(t, set) == grant[t].parent # NoToken => grant[t].parent \in set

\* The tokens t descends from: those in every set of tokens that has the parent
\* of t and of its own members.
Ancestors(t) ==
    LET closed == {set \in SUBSET made : ParentIn(t, set) /\ \A v \in set : ParentIn(v, set)}
    IN  {u \in made : \A set \in closed : u \in set}

\* Along every chain of delegations scopes only shrink and no token outlives
\* one it descends from; a chain begins with an issued token.
DelegationNarrows ==
    \A t \in made : \A u \in Ancestors(t) :
        /\ grant[t].scopes # {}
        /\ grant[t].scopes \subseteq grant[u].scopes
        /\ grant[t].expires <= grant[u].expires
        /\ grant[u].depth < grant[t].depth
=============================================================================
