---------------------------- MODULE GovernedCalls ----------------------------
(***************************************************************************)
(* What governance promises of every tool call, whichever way it takes: it *)
(* is let pass, put to a human, or refused, once and for all; it runs only *)
(* when it was let pass or approved, and once.  A session's loop           *)
(* (AgentSession) and the framework adapters (Adapters) implement this.    *)
(***************************************************************************)
CONSTANT Calls

VARIABLES permission,  \* "new", or what became of the question whether a call may run
          ran          \* the calls whose tool was started

vars == <<permission, ran>>

Permissions == {"new", "barred", "review", "cleared", "approved", "refused"}

Init == permission = [k \in Calls |-> "new"] /\ ran = {}

Turn(k, from, to) == /\ permission[k] \in from
                     /\ permission' = [permission EXCEPT ![k] = to]

\* Before any policy is asked it is settled that a call will be refused: its
\* token is dead.
Bar(k) == Turn(k, {"new"}, "barred") /\ UNCHANGED ran

\* The policies, the human or the clock refuse; or it is no call that can be
\* made, or is given up before it is decided.
Refuse(k) == Turn(k, {"new", "barred", "review"}, "refused") /\ UNCHANGED ran

\* A human is asked, and approves.
Ask(k) == Turn(k, {"new"}, "review") /\ UNCHANGED ran
Approve(k) == Turn(k, {"review"}, "approved") /\ UNCHANGED ran

\* The policies let the call pass; it may have to wait before its tool starts.
Clear(k) == Turn(k, {"new"}, "cleared") /\ (UNCHANGED ran \/ ran' = ran \cup {k})

\* A tool is started, for the first time.
Run(k) == /\ permission[k] \in {"cleared", "approved"}
          /\ k \notin ran
          /\ ran' = ran \cup {k}
          /\ UNCHANGED permission

\* Time refuses what humans were asked about, or takes back what they approved,
\* if it did not run yet.
Withdraw(late) ==
    /\ \A k \in late : permission[k] \in {"review", "approved"} /\ k \notin ran
    /\ permission' = [k \in Calls |-> IF k \in late THEN "refused" ELSE permission[k]]
    /\ UNCHANGED ran

Next == \/ \E k \in Calls : Bar(k) \/ Refuse(k) \/ Ask(k) \/ Approve(k) \/ Clear(k) \/ Run(k)
        \/ \E late \in SUBSET Calls : Withdraw(late)

Spec == Init /\ [][Next]_vars
=============================================================================
