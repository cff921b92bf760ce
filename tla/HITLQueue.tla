------------------------------ MODULE HITLQueue ------------------------------
(***************************************************************************)
(* The human-in-the-loop approval queue (src/kitelogik/anchor/queue.py).   *)
(*                                                                         *)
(* A row of the SQLite table pending_actions is status[a] and              *)
(* decidedBy[a]; it survives a crash of the process.  The in-process half  *)
(* is HITLQueue._events: `events' is the set of ids registered in it and   *)
(* `isSet' the events whose flag is set.  Every SQL statement runs in a    *)
(* worker thread (asyncio.to_thread) and is one atomic step; what the      *)
(* coroutine does after the await is another step, so that everything else *)
(* can run in between.                                                     *)
(*                                                                         *)
(* A caller is a coroutine that enqueues an action and then waits for its  *)
(* decision, as AgentSession._handle_hitl does.  An observer only waits,   *)
(* for an id it has from somewhere else: a second call for the same id, or *)
(* a call made after a restart.  A remote approver decides through a       *)
(* HITLQueue object of another process, whose _events is empty.            *)
(***************************************************************************)
EXTENDS Naturals

CONSTANTS Actions,     \* ids of actions, each enqueued at most once
          Callers,     \* coroutines that call enqueue and wait_for_decision
          Observers,   \* the callers that wait for ids they did not enqueue
          Approvers,   \* coroutines that call approve() or deny()
          Remote,      \* the approvers of other processes
          Sweepers,    \* start_expiry_task() loops that run; {} when none was started
          NoAction,    \* no action
          MaxFaults    \* bound on cancellations, crashes and database errors

ASSUME ConstantsAssumption ==
    /\ Observers \subseteq Callers
    /\ Remote \subseteq Approvers
    /\ NoAction \notin Actions
    /\ "system" \notin Approvers
    /\ "nobody" \notin Approvers
    /\ MaxFaults \in Nat

VARIABLES status,      \* the status column; "ABSENT" when there is no row
          decidedBy,   \* the decided_by column; "nobody" is NULL
          overdue,     \* the actions whose created_at is older than the cutoff
          events,      \* the ids in self._events
          isSet,       \* the ids whose asyncio.Event is set
          at,          \* where each caller is
          act,         \* the action each caller is concerned with
          answer,      \* the status wait_for_decision returned, or "NONE"
          decided,     \* the action an approver's thread just decided, its event not set yet
          swept,       \* the ids a sweeper's SELECT returned
          sweepAt,     \* where each sweeper is
          wins,        \* history: the approve()/deny() calls that return True
          faults       \* cancellations, crashes and database errors so far

rows == <<status, decidedBy>>
calls == <<at, act, answer>>
sweeps == <<swept, sweepAt>>
vars == <<status, decidedBy, overdue, events, isSet, at, act, answer, decided,
          swept, sweepAt, wins, faults>>

HumanVerdicts == {"APPROVED", "DENIED"}
Verdicts == HumanVerdicts \cup {"TIMED_OUT"}
Statuses == {"ABSENT", "PENDING"} \cup Verdicts

Init == /\ status = [a \in Actions |-> "ABSENT"]
        /\ decidedBy = [a \in Actions |-> "nobody"]
        /\ overdue = {}
        /\ events = {}
        /\ isSet = {}
        /\ at = [c \in Callers |-> "idle"]
        /\ act = [c \in Callers |-> NoAction]
        /\ answer = [c \in Callers |-> "NONE"]
        /\ decided = [p \in Approvers |-> NoAction]
        /\ swept = [s \in Sweepers |-> {}]
        /\ sweepAt = [s \in Sweepers |-> "asleep"]
        /\ wins = {}
        /\ faults = 0

-----------------------------------------------------------------------------
(* The table.                                                              *)

\* As a bug: the UPDATE without its second condition.
BugMatchesAnyRow(a) == status[a] # "ABSENT"

\* WHERE id = ? AND status = 'PENDING': whether rowcount will be 1.
Matches(a) == status[a] = "PENDING"

\* The conditional UPDATE.
SyncDecide(a, v, by) ==
    IF Matches(a)
    THEN /\ status' = [status EXCEPT ![a] = v]
         /\ decidedBy' = [decidedBy EXCEPT ![a] = by]
    ELSE UNCHANGED rows

\* The expiry's second statement, UPDATE ... WHERE id IN (the ids selected
\* before): the status is written, decided_by and the status it had are not read.
SyncExpire(ids) ==
    /\ status' = [a \in Actions |-> IF a \in ids THEN "TIMED_OUT" ELSE status[a]]
    /\ UNCHANGED decidedBy

-----------------------------------------------------------------------------
(* enqueue() and wait_for_decision().                                      *)

\* enqueue(): the thread commits the INSERT.
EnqueueInsert(c, a) ==
    /\ c \notin Observers
    /\ at[c] \in {"idle", "returned"}
    /\ status[a] = "ABSENT"
    /\ status' = [status EXCEPT ![a] = "PENDING"]
    /\ at' = [at EXCEPT ![c] = "inserted"]
    /\ act' = [act EXCEPT ![c] = a]
    /\ answer' = [answer EXCEPT ![c] = "NONE"]
    /\ UNCHANGED <<decidedBy, overdue, events, isSet, decided, sweeps, wins, faults>>

\* enqueue(): back on the event loop, a fresh Event is registered.
EnqueueRegister(c) ==
    /\ at[c] = "inserted"
    /\ events' = events \cup {act[c]}
    /\ isSet' = isSet \ {act[c]}
    /\ at' = [at EXCEPT ![c] = "enqueued"]
    /\ UNCHANGED <<rows, overdue, act, answer, decided, sweeps, wins, faults>>

\* wait_for_decision(): without a registered event it goes straight to the
\* row, whatever the row says; with one it blocks.
BeginWait(c, a) ==
    /\ \/ c \notin Observers /\ at[c] = "enqueued" /\ a = act[c]
       \/ c \in Observers /\ at[c] \in {"idle", "returned"} /\ status[a] # "ABSENT"
    /\ at' = [at EXCEPT ![c] = IF a \in events THEN "blocked" ELSE "reading"]
    /\ act' = [act EXCEPT ![c] = a]
    /\ answer' = [answer EXCEPT ![c] = "NONE"]
    /\ UNCHANGED <<rows, overdue, events, isSet, decided, sweeps, wins, faults>>

\* event.wait() returned; `finally' removes the event.
Wake(c) ==
    /\ at[c] = "blocked"
    /\ act[c] \in isSet
    /\ at' = [at EXCEPT ![c] = "reading"]
    /\ events' = events \ {act[c]}
    /\ UNCHANGED <<rows, overdue, isSet, act, answer, decided, sweeps, wins, faults>>

\* As a bug: no timeout, only the event ends the wait.
BugTimerNeverFires(c) == /\ FALSE
                         /\ UNCHANGED vars

\* asyncio.wait_for raised TimeoutError; it may do so in the very loop
\* iteration in which the event is set.
TimerFires(c) ==
    /\ at[c] = "blocked"
    /\ at' = [at EXCEPT ![c] = "expired"]
    /\ UNCHANGED <<rows, overdue, events, isSet, act, answer, decided, sweeps, wins, faults>>

\* As a bug: an unanswered request counts as approved.
BugTimeoutApproves(c) ==
    /\ at[c] = "expired"
    /\ SyncDecide(act[c], "APPROVED", "system")
    /\ at' = [at EXCEPT ![c] = "closing"]
    /\ UNCHANGED <<overdue, events, isSet, act, answer, decided, sweeps, wins, faults>>

\* As a bug: the caller gives up without marking the row.
BugTimeoutSilent(c) ==
    /\ at[c] = "expired"
    /\ at' = [at EXCEPT ![c] = "closing"]
    /\ UNCHANGED <<rows, overdue, events, isSet, act, answer, decided, sweeps, wins, faults>>

\* `except TimeoutError': the thread marks the row TIMED_OUT if it is pending.
TimeoutDecide(c) ==
    /\ at[c] = "expired"
    /\ SyncDecide(act[c], "TIMED_OUT", "system")
    /\ at' = [at EXCEPT ![c] = "closing"]
    /\ UNCHANGED <<overdue, events, isSet, act, answer, decided, sweeps, wins, faults>>

\* `finally' after the timeout.
Close(c) ==
    /\ at[c] = "closing"
    /\ events' = events \ {act[c]}
    /\ at' = [at EXCEPT ![c] = "reading"]
    /\ UNCHANGED <<rows, overdue, isSet, act, answer, decided, sweeps, wins, faults>>

\* get_status(): the SELECT whose row wait_for_decision returns.
ReadRow(c) ==
    /\ at[c] = "reading"
    /\ answer' = [answer EXCEPT ![c] = status[act[c]]]
    /\ at' = [at EXCEPT ![c] = "returned"]
    /\ UNCHANGED <<rows, overdue, events, isSet, act, decided, sweeps, wins, faults>>

\* As a bug: the cancelled wait forgets its action and goes on waiting.
BugCancelIgnored(c) ==
    /\ faults < MaxFaults
    /\ at[c] = "blocked"
    /\ act' = [act EXCEPT ![c] = NoAction]
    /\ faults' = faults + 1
    /\ UNCHANGED <<rows, overdue, events, isSet, at, answer, decided, sweeps, wins>>

\* The task that waits is cancelled: `finally' removes the event, the row
\* stays as it is.
CancelWait(c) ==
    /\ faults < MaxFaults
    /\ at[c] = "blocked"
    /\ at' = [at EXCEPT ![c] = "idle"]
    /\ act' = [act EXCEPT ![c] = NoAction]
    /\ events' = events \ {act[c]}
    /\ faults' = faults + 1
    /\ UNCHANGED <<rows, overdue, isSet, answer, decided, sweeps, wins>>

-----------------------------------------------------------------------------
(* approve() and deny().  A call that finds the row decided returns False  *)
(* and changes nothing, so it is no step here.                             *)

DecideCommit(p, a, v) ==
    /\ decided[p] = NoAction
    /\ Matches(a)
    /\ SyncDecide(a, v, p)
    /\ decided' = [decided EXCEPT ![p] = a]
    /\ wins' = wins \cup {<<p, a, v>>}
    /\ UNCHANGED <<overdue, events, isSet, calls, sweeps, faults>>

\* Back on the loop the event is set, if one is registered: _NullEvent
\* swallows the signal otherwise.  A remote approver's map is empty.
DecideSignal(p) ==
    /\ decided[p] # NoAction
    /\ isSet' = IF p \in Remote THEN isSet ELSE isSet \cup ({decided[p]} \cap events)
    /\ decided' = [decided EXCEPT ![p] = NoAction]
    /\ UNCHANGED <<rows, overdue, events, calls, sweeps, wins, faults>>

-----------------------------------------------------------------------------
(* expire_old(), called by the loop of start_expiry_task().                *)

\* An action becomes older than the cutoff; created_at precedes the INSERT.
BecomeOverdue(a) ==
    /\ status[a] # "ABSENT"
    /\ a \notin overdue
    /\ overdue' = overdue \cup {a}
    /\ UNCHANGED <<rows, events, isSet, calls, decided, sweeps, wins, faults>>

\* As a bug: only actions somebody waits for in this process are swept.
BugOverdueWaited == {a \in overdue \cap events : status[a] = "PENDING"}

OverduePending == {a \in overdue : status[a] = "PENDING"}

\* The SELECT, which leaves no transaction open.
SweepSelect(s) ==
    /\ sweepAt[s] = "asleep"
    /\ OverduePending # {}
    /\ swept' = [swept EXCEPT ![s] = OverduePending]
    /\ sweepAt' = [sweepAt EXCEPT ![s] = "selected"]
    /\ UNCHANGED <<rows, overdue, events, isSet, calls, decided, wins, faults>>

SweepUpdate(s) ==
    /\ sweepAt[s] = "selected"
    /\ SyncExpire(swept[s])
    /\ sweepAt' = [sweepAt EXCEPT ![s] = "updated"]
    /\ UNCHANGED <<overdue, events, isSet, calls, decided, swept, wins, faults>>

\* expire_old() wakes the waiters of the ids it expired.
SweepSignal(s) ==
    /\ sweepAt[s] = "updated"
    /\ isSet' = isSet \cup (swept[s] \cap events)
    /\ swept' = [swept EXCEPT ![s] = {}]
    /\ sweepAt' = [sweepAt EXCEPT ![s] = "asleep"]
    /\ UNCHANGED <<rows, overdue, events, calls, decided, wins, faults>>

\* sqlite3.DatabaseError in the thread: the loop logs it and sleeps again.
SweepFail(s) ==
    /\ faults < MaxFaults
    /\ sweepAt[s] = "selected"
    /\ swept' = [swept EXCEPT ![s] = {}]
    /\ sweepAt' = [sweepAt EXCEPT ![s] = "asleep"]
    /\ faults' = faults + 1
    /\ UNCHANGED <<rows, overdue, events, isSet, calls, decided, wins>>

-----------------------------------------------------------------------------
\* The process dies and starts again: the table stays, the events and every
\* coroutine are gone.  Remote approvers live in other processes.
Restart ==
    /\ faults < MaxFaults
    /\ events' = {}
    /\ isSet' = {}
    /\ at' = [c \in Callers |-> "idle"]
    /\ act' = [c \in Callers |-> NoAction]
    /\ answer' = [c \in Callers |-> "NONE"]
    /\ decided' = [p \in Approvers |-> IF p \in Remote THEN decided[p] ELSE NoAction]
    /\ swept' = [s \in Sweepers |-> {}]
    /\ sweepAt' = [s \in Sweepers |-> "asleep"]
    /\ faults' = faults + 1
    /\ UNCHANGED <<rows, overdue, wins>>

CallerStep(c) == \/ EnqueueRegister(c)
                 \/ Wake(c)
                 \/ TimerFires(c)
                 \/ TimeoutDecide(c)
                 \/ Close(c)
                 \/ ReadRow(c)

SweeperStep(s) == SweepSelect(s) \/ SweepUpdate(s) \/ SweepSignal(s)

Next == \/ \E c \in Callers : CallerStep(c) \/ CancelWait(c)
        \/ \E c \in Callers, a \in Actions : EnqueueInsert(c, a) \/ BeginWait(c, a)
        \/ \E p \in Approvers : DecideSignal(p)
        \/ \E p \in Approvers, a \in Actions, v \in HumanVerdicts : DecideCommit(p, a, v)
        \/ \E a \in Actions : BecomeOverdue(a)
        \/ \E s \in Sweepers : SweeperStep(s) \/ SweepFail(s)
        \/ Restart

Spec == Init /\ [][Next]_vars

\* A coroutine that can run is eventually run by the event loop, a thread
\* finishes, a timer fires, time passes and the expiry task wakes up; a
\* session goes on from enqueue() to wait_for_decision().  Nobody has to
\* enqueue, to decide, to observe, or to fail.
Fairness == /\ \A c \in Callers : WF_vars(CallerStep(c))
            /\ \A c \in Callers \ Observers : WF_vars(\E a \in Actions : BeginWait(c, a))
            /\ \A p \in Approvers : WF_vars(DecideSignal(p))
            /\ \A a \in Actions : WF_vars(BecomeOverdue(a))
            /\ \A s \in Sweepers : WF_vars(SweeperStep(s))

FairSpec == Spec /\ Fairness

-----------------------------------------------------------------------------
(* Properties.                                                             *)

\* The type of every variable.
TypeOK ==
    /\ status \in [Actions -> Statuses]
    /\ decidedBy \in [Actions -> Approvers \cup {"system", "nobody"}]
    /\ overdue \subseteq Actions
    /\ events \subseteq Actions
    /\ isSet \subseteq Actions
    /\ at \in [Callers -> {"idle", "inserted", "enqueued", "blocked", "expired",
                           "closing", "reading", "returned"}]
    /\ act \in [Callers -> Actions \cup {NoAction}]
    /\ \A c \in Callers : at[c] # "idle" => act[c] \in Actions
    /\ answer \in [Callers -> Statuses \cup {"NONE"}]
    /\ decided \in [Approvers -> Actions \cup {NoAction}]
    /\ swept \in [Sweepers -> SUBSET Actions]
    /\ sweepAt \in [Sweepers -> {"asleep", "selected", "updated"}]
    /\ wins \subseteq (Approvers \X Actions \X HumanVerdicts)
    /\ faults \in 0..MaxFaults

\* Two humans cannot both be told that their decision on one action took
\* effect: approve() and deny() return True at most once per action, however
\* they race with each other, with timeouts, sweeps and restarts.
AtMostOneWin ==
    \A w1, w2 \in wins : w1[2] = w2[2] => w1 = w2

\* A decision that a human was told took effect is the decision on record,
\* with that human's name, from then on (approve/deny returned True).
DecisionStands ==
    \A w \in wins : status[w[2]] = w[3] /\ decidedBy[w[2]] = w[1]

\* wait_for_decision() never lets a tool run on its own: when it returns
\* APPROVED, some human's approve() of that very action took effect.
ApprovalIsBacked ==
    \A c \in Callers : (at[c] = "returned" /\ answer[c] = "APPROVED")
        => \E p \in Approvers : <<p, act[c], "APPROVED">> \in wins

\* The decision a caller acts on is still the one on record later, so the
\* session and the table never disagree about what was decided.
AnswerStands ==
    \A c \in Callers : (at[c] = "returned" /\ answer[c] \in Verdicts)
        => status[act[c]] = answer[c]

\* A refused or timed-out action is never approved afterwards, even by an
\* approver whose click was in flight, and no decided action is reopened.
NoLateApproval ==
    [][\A a \in Actions : status[a] \in Verdicts =>
           /\ status'[a] \in Verdicts
           /\ status'[a] = "APPROVED" => status[a] = "APPROVED"]_vars

\* Whoever enqueued an action or waits for one returns from
\* wait_for_decision(), even when the event that should wake it is lost
\* (unless it is cancelled or its process dies, which brings it to "idle").
EveryWaitEnds ==
    \A c \in Callers :
        at[c] \in {"inserted", "blocked"} ~> at[c] \in {"returned", "idle"}

\* With an expiry task running no action stays pending for ever, also when
\* the session that asked for it was cancelled or died.
NothingPendsForever ==
    \A a \in Actions : status[a] = "PENDING" ~> status[a] \in Verdicts

-----------------------------------------------------------------------------
(* The decision register this queue implements.                            *)

Register == INSTANCE DecisionRegister WITH decision <- status, about <- act

\* Every step of the queue is a step of the register or a stutter: decisions
\* are taken once and a caller is answered with the final one.
ImplementsRegister == Register!Spec

\* With an expiry task they are taken once but for a sweep, which may turn any
\* of them into TIMED_OUT; a caller is still answered with the decision on
\* record at that moment, and never that there is none.
ImplementsSweptRegister == Register!SweptSpec

-----------------------------------------------------------------------------
(* What the queue's documentation says and the code does not do.           *)

\* "Mark overdue PENDING actions as TIMED_OUT" (expire_old): an action turns
\* TIMED_OUT only while it is PENDING.
OnlyPendingExpires ==
    [][\A a \in Actions : status'[a] = "TIMED_OUT" /\ status[a] # "TIMED_OUT"
           => status[a] = "PENDING"]_vars
=============================================================================
