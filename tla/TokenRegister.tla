---------------------------- MODULE TokenRegister ----------------------------
(***************************************************************************)
(* What the credential broker promises to those who hold tokens, with no   *)
(* cache, table, clock, scopes or restarts in it.  A token that was given  *)
(* out is good until it is dead, and what is dead stays dead.  In between  *)
(* there may be doubt: somebody tried to revoke it and failed, and then it *)
(* may stop to be usable, and be usable again, but not be good again.      *)
(* CredentialBroker implements this.  A session takes its token for one    *)
(* that is never in doubt.                                                 *)
(***************************************************************************)
CONSTANT Tokens

VARIABLES status,   \* [Tokens -> {"none", "good", "doubtful", "dead"}]
          usable    \* the tokens that the gate accepts

vars == <<status, usable>>

\* What is good can be used, and what was never given out, or is dead, cannot.
Fits == /\ \A t \in Tokens : status[t] = "good" => t \in usable
        /\ \A t \in usable : t \in Tokens /\ status[t] \in {"good", "doubtful"}

Init == status \in [Tokens -> {"none", "good", "dead"}] /\ Fits

\* Tokens change to a status that they may take from the one they had.
Turn(set, from, to) ==
    /\ \A t \in set : status[t] \in from
    /\ status' = [t \in Tokens |-> IF t \in set THEN to ELSE status[t]]
    /\ Fits'

\* A token is given out; it may be one that has expired already.
Give(t) == \E to \in {"good", "dead"} : Turn({t}, {"none"}, to)

\* Tokens are revoked, or expire.
Kill(set) == Turn(set, {"good", "doubtful", "dead"}, "dead")

\* An attempt to revoke tokens fails.
Doubt(set) == Turn(set, {"good"}, "doubtful")

Next == \/ \E t \in Tokens : Give(t)
        \/ \E set \in SUBSET Tokens : Kill(set) \/ Doubt(set)

Spec == Init /\ [][Next]_vars
=============================================================================
