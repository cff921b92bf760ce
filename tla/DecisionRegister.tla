-------------------------- MODULE DecisionRegister --------------------------
(***************************************************************************)
(* What the human-approval queue promises to a session that asks for a     *)
(* decision, with no database, threads, events or timers in it: an action  *)
(* is submitted once, it is decided once, and whoever asked about it is    *)
(* answered with that one decision.  Where an expiry task sweeps the table *)
(* it promises less (SweptSpec): time may take a decision back.  HITLQueue *)
(* is the detailed specification; it implements this one when every caller *)
(* enqueued the action it waits for.                                       *)
(***************************************************************************)
CONSTANTS Actions,    \* ids of the actions a human may be asked about
          Callers,    \* the sessions that ask
          NoAction    \* "this caller is not asking about anything"

VARIABLES decision,   \* [Actions -> Statuses]
          about,      \* the action a caller asks about, or NoAction
          answer      \* the decision a caller was given, or "NONE"

vars == <<decision, about, answer>>

Verdicts == {"APPROVED", "DENIED", "TIMED_OUT"}

Init == /\ decision = [a \in Actions |-> "ABSENT"]
        /\ about = [c \in Callers |-> NoAction]
        /\ answer = [c \in Callers |-> "NONE"]

\* A caller submits an action that nobody submitted before, and asks about it.
Request(c, a) == /\ decision[a] = "ABSENT"
                 /\ decision' = [decision EXCEPT ![a] = "PENDING"]
                 /\ about' = [about EXCEPT ![c] = a]
                 /\ answer' = [answer EXCEPT ![c] = "NONE"]

\* The decision is taken: by a human or because time ran out, and only once.
Decide(a, v) == /\ decision[a] = "PENDING"
                /\ decision' = [decision EXCEPT ![a] = v]
                /\ UNCHANGED <<about, answer>>

\* The caller is told the decision of its action, never that it is pending.
Answer(c) == /\ about[c] # NoAction
             /\ answer[c] = "NONE"
             /\ decision[about[c]] \in Verdicts
             /\ answer' = [answer EXCEPT ![c] = decision[about[c]]]
             /\ UNCHANGED <<decision, about>>

\* Some callers go away: they were cancelled, or their process died.
Forget(gone) == /\ about' = [c \in Callers |-> IF c \in gone THEN NoAction ELSE about[c]]
                /\ answer' = [c \in Callers |-> IF c \in gone THEN "NONE" ELSE answer[c]]
                /\ UNCHANGED decision

\* Time takes the decisions of some actions, or takes them back: they may
\* have been decided since they were found to be late.
Expire(late) == /\ \A a \in late : decision[a] # "ABSENT"
                /\ decision' = [a \in Actions |-> IF a \in late THEN "TIMED_OUT" ELSE decision[a]]
                /\ UNCHANGED <<about, answer>>

Next == \/ \E c \in Callers, a \in Actions : Request(c, a)
        \/ \E a \in Actions, v \in Verdicts : Decide(a, v)
        \/ \E c \in Callers : Answer(c)
        \/ \E gone \in SUBSET Callers : Forget(gone)

Spec == Init /\ [][Next]_vars

SweptNext == Next \/ \E late \in SUBSET Actions : Expire(late)

SweptSpec == Init /\ [][SweptNext]_vars
=============================================================================
