--------------------------- MODULE HITLQueueProofs ---------------------------
(***************************************************************************)
(* What HITLQueue guarantees for any number of actions, callers, observers *)
(* and approvers, and any number of faults.                                *)
(***************************************************************************)
EXTENDS HITLQueue, TLAPS

(* Types.                                                                  *)

\* The initial state is well typed.
LEMMA TypeInit == Init => TypeOK
  BY ConstantsAssumption DEF Init, TypeOK, Statuses, Verdicts, HumanVerdicts

\* Every step keeps the types.
LEMMA TypeNext == TypeOK /\ [Next]_vars => TypeOK'
<1> SUFFICES ASSUME TypeOK, [Next]_vars
             PROVE  TypeOK'
    OBVIOUS
<1> USE ConstantsAssumption DEF TypeOK, Statuses, Verdicts, HumanVerdicts,
                                rows, calls, sweeps, Matches, SyncDecide
<1>1. ASSUME NEW c \in Callers, EnqueueRegister(c) PROVE TypeOK'
      BY <1>1 DEF EnqueueRegister
<1>2. ASSUME NEW c \in Callers, NEW a \in Actions, BeginWait(c, a) PROVE TypeOK'
      BY <1>2 DEF BeginWait
<1>3. ASSUME NEW c \in Callers, Wake(c) PROVE TypeOK'
      BY <1>3 DEF Wake
<1>4. ASSUME NEW c \in Callers, TimerFires(c) PROVE TypeOK'
      BY <1>4 DEF TimerFires
<1>5. ASSUME NEW c \in Callers, TimeoutDecide(c) PROVE TypeOK'
      BY <1>5 DEF TimeoutDecide
<1>6. ASSUME NEW c \in Callers, Close(c) PROVE TypeOK'
      BY <1>6 DEF Close
<1>7. ASSUME NEW c \in Callers, ReadRow(c) PROVE TypeOK'
      BY <1>7 DEF ReadRow
<1>8. ASSUME NEW c \in Callers, CancelWait(c) PROVE TypeOK'
      BY <1>8 DEF CancelWait
<1>9. ASSUME NEW c \in Callers, NEW a \in Actions, EnqueueInsert(c, a) PROVE TypeOK'
      BY <1>9 DEF EnqueueInsert
<1>10. ASSUME NEW p \in Approvers, DecideSignal(p) PROVE TypeOK'
       BY <1>10 DEF DecideSignal
<1>11. ASSUME NEW p \in Approvers, NEW a \in Actions, NEW v \in HumanVerdicts,
              DecideCommit(p, a, v)
       PROVE  TypeOK'
       BY <1>11 DEF DecideCommit
<1>12. ASSUME NEW a \in Actions, BecomeOverdue(a) PROVE TypeOK'
       BY <1>12 DEF BecomeOverdue
<1>13. ASSUME NEW s \in Sweepers, SweepSelect(s) PROVE TypeOK'
       BY <1>13 DEF SweepSelect, OverduePending
<1>14. ASSUME NEW s \in Sweepers, SweepUpdate(s) PROVE TypeOK'
       BY <1>14 DEF SweepUpdate, SyncExpire
<1>15. ASSUME NEW s \in Sweepers, SweepSignal(s) PROVE TypeOK'
       BY <1>15 DEF SweepSignal
<1>16. ASSUME NEW s \in Sweepers, SweepFail(s) PROVE TypeOK'
       BY <1>16 DEF SweepFail
<1>17. CASE Restart
       BY <1>17 DEF Restart
<1>18. CASE UNCHANGED vars
       BY <1>18 DEF vars
<1> QED
    BY <1>1, <1>2, <1>3, <1>4, <1>5, <1>6, <1>7, <1>8, <1>9, <1>10, <1>11, <1>12,
       <1>13, <1>14, <1>15, <1>16, <1>17, <1>18 DEF Next, CallerStep, SweeperStep

\* Every variable keeps its type in every behaviour.
THEOREM TypeCorrect == Spec => []TypeOK
  BY TypeInit, TypeNext, PTL DEF Spec

-----------------------------------------------------------------------------
(* Approvals, with or without an expiry task.  The answer a caller got was *)
(* read from the row, so the row has to be backed too; and a second win is *)
(* impossible because the first left the row decided.                      *)

WinsAreDecided == \A w \in wins : status[w[2]] \in Verdicts

RowsAreBacked == \A a \in Actions : status[a] = "APPROVED"
                    => \E p \in Approvers : <<p, a, "APPROVED">> \in wins

BackedInv == WinsAreDecided /\ AtMostOneWin /\ RowsAreBacked /\ ApprovalIsBacked

\* It holds initially.
LEMMA BackedInit == Init => BackedInv
  BY DEF Init, BackedInv, WinsAreDecided, AtMostOneWin, RowsAreBacked, ApprovalIsBacked

\* Every step keeps it; the interesting one is DecideCommit.
LEMMA BackedNext == TypeOK /\ BackedInv /\ [Next]_vars => BackedInv'
<1> SUFFICES ASSUME TypeOK, BackedInv, [Next]_vars
             PROVE  BackedInv'
    OBVIOUS
<1> USE ConstantsAssumption
    DEF TypeOK, BackedInv, WinsAreDecided, AtMostOneWin, RowsAreBacked, ApprovalIsBacked,
        Statuses, Verdicts, HumanVerdicts, rows, calls, sweeps, Matches, SyncDecide
<1>1. ASSUME NEW c \in Callers, EnqueueRegister(c) PROVE BackedInv'
      BY <1>1 DEF EnqueueRegister
<1>2. ASSUME NEW c \in Callers, NEW a \in Actions,
           BeginWait(c, a)
    PROVE  BackedInv'
      BY <1>2 DEF BeginWait
<1>3. ASSUME NEW c \in Callers, Wake(c) PROVE BackedInv'
      BY <1>3 DEF Wake
<1>4. ASSUME NEW c \in Callers, TimerFires(c) PROVE BackedInv'
      BY <1>4 DEF TimerFires
<1>5. ASSUME NEW c \in Callers, TimeoutDecide(c) PROVE BackedInv'
      BY <1>5 DEF TimeoutDecide
<1>6. ASSUME NEW c \in Callers, Close(c) PROVE BackedInv'
      BY <1>6 DEF Close
<1>7. ASSUME NEW c \in Callers, ReadRow(c) PROVE BackedInv'
      BY <1>7 DEF ReadRow
<1>8. ASSUME NEW c \in Callers, CancelWait(c) PROVE BackedInv'
      BY <1>8 DEF CancelWait
<1>9. ASSUME NEW c \in Callers, NEW a \in Actions,
           EnqueueInsert(c, a)
    PROVE  BackedInv'
      BY <1>9 DEF EnqueueInsert
<1>10. ASSUME NEW p \in Approvers, DecideSignal(p) PROVE BackedInv'
      BY <1>10 DEF DecideSignal
<1>11. ASSUME NEW p \in Approvers, NEW a \in Actions, NEW v \in HumanVerdicts,
              DecideCommit(p, a, v)
       PROVE  BackedInv'
  <2>1. /\ status[a] = "PENDING"
        /\ status' = [status EXCEPT ![a] = v]
        /\ wins' = wins \cup {<<p, a, v>>}
        /\ UNCHANGED <<at, act, answer>>
        BY <1>11 DEF DecideCommit
  <2>2. \A w \in wins : w[2] # a
        BY <2>1
  <2>3. WinsAreDecided'
        BY <2>1, <2>2
  <2>4. AtMostOneWin'
        BY <2>1, <2>2
  <2>5. RowsAreBacked'
        BY <2>1
  <2>6. ApprovalIsBacked'
        BY <2>1
  <2> QED
      BY <2>3, <2>4, <2>5, <2>6
<1>12. ASSUME NEW a \in Actions, BecomeOverdue(a) PROVE BackedInv'
      BY <1>12 DEF BecomeOverdue
<1>13. ASSUME NEW s \in Sweepers, SweepSelect(s) PROVE BackedInv'
      BY <1>13 DEF SweepSelect
<1>14. ASSUME NEW s \in Sweepers, SweepUpdate(s) PROVE BackedInv'
      BY <1>14 DEF SweepUpdate, SyncExpire
<1>15. ASSUME NEW s \in Sweepers, SweepSignal(s) PROVE BackedInv'
      BY <1>15 DEF SweepSignal
<1>16. ASSUME NEW s \in Sweepers, SweepFail(s) PROVE BackedInv'
      BY <1>16 DEF SweepFail
<1>17. CASE Restart
      BY <1>17 DEF Restart
<1>18. CASE UNCHANGED vars
      BY <1>18 DEF vars
<1> HIDE DEF TypeOK, BackedInv
<1> QED
    BY <1>1, <1>2, <1>3, <1>4, <1>5, <1>6, <1>7, <1>8, <1>9, <1>10, <1>11,
       <1>12, <1>13, <1>14, <1>15, <1>16, <1>17, <1>18 DEF Next, CallerStep, SweeperStep

\* Two humans are never both told that they decided one action.
THEOREM OneWinPerAction == Spec => []AtMostOneWin
<1>1. BackedInv => AtMostOneWin
      BY DEF BackedInv
<1> QED
    BY <1>1, TypeInit, TypeNext, BackedInit, BackedNext, PTL DEF Spec

\* A caller is told APPROVED only if a human approved that action.
THEOREM ApprovalsAreBacked == Spec => []ApprovalIsBacked
<1>1. BackedInv => ApprovalIsBacked
      BY DEF BackedInv
<1> QED
    BY <1>1, TypeInit, TypeNext, BackedInit, BackedNext, PTL DEF Spec

-----------------------------------------------------------------------------
(* What no step may do, sweeps included: reopen a decided action, or turn  *)
(* a refused one into an approved one.                                     *)

\* The property of one step, for one action.
LEMMA NoLateApprovalStep ==
    ASSUME TypeOK, Next, NEW b \in Actions, status[b] \in Verdicts
    PROVE  /\ status'[b] \in Verdicts
           /\ status'[b] = "APPROVED" => status[b] = "APPROVED"
<1> DEFINE Goal == /\ status'[b] \in Verdicts
                   /\ status'[b] = "APPROVED" => status[b] = "APPROVED"
<1> SUFFICES Goal
    OBVIOUS
<1> USE DEF TypeOK, Statuses, Verdicts, HumanVerdicts, rows, Matches, SyncDecide
<1>1. ASSUME NEW c \in Callers, EnqueueRegister(c) PROVE Goal
      BY <1>1 DEF EnqueueRegister
<1>2. ASSUME NEW c \in Callers, NEW a \in Actions, BeginWait(c, a) PROVE Goal
      BY <1>2 DEF BeginWait
<1>3. ASSUME NEW c \in Callers, Wake(c) PROVE Goal
      BY <1>3 DEF Wake
<1>4. ASSUME NEW c \in Callers, TimerFires(c) PROVE Goal
      BY <1>4 DEF TimerFires
<1>5. ASSUME NEW c \in Callers, TimeoutDecide(c) PROVE Goal
      BY <1>5 DEF TimeoutDecide
<1>6. ASSUME NEW c \in Callers, Close(c) PROVE Goal
      BY <1>6 DEF Close
<1>7. ASSUME NEW c \in Callers, ReadRow(c) PROVE Goal
      BY <1>7 DEF ReadRow
<1>8. ASSUME NEW c \in Callers, CancelWait(c) PROVE Goal
      BY <1>8 DEF CancelWait
<1>9. ASSUME NEW c \in Callers, NEW a \in Actions,
           EnqueueInsert(c, a)
    PROVE  Goal
      BY <1>9 DEF EnqueueInsert
<1>10. ASSUME NEW p \in Approvers, DecideSignal(p) PROVE Goal
      BY <1>10 DEF DecideSignal
<1>11. ASSUME NEW p \in Approvers, NEW a \in Actions, NEW v \in HumanVerdicts,
           DecideCommit(p, a, v)
    PROVE  Goal
      BY <1>11 DEF DecideCommit
<1>12. ASSUME NEW a \in Actions, BecomeOverdue(a) PROVE Goal
      BY <1>12 DEF BecomeOverdue
<1>13. ASSUME NEW s \in Sweepers, SweepSelect(s) PROVE Goal
      BY <1>13 DEF SweepSelect
<1>14. ASSUME NEW s \in Sweepers, SweepUpdate(s) PROVE Goal
      BY <1>14 DEF SweepUpdate, SyncExpire
<1>15. ASSUME NEW s \in Sweepers, SweepSignal(s) PROVE Goal
      BY <1>15 DEF SweepSignal
<1>16. ASSUME NEW s \in Sweepers, SweepFail(s) PROVE Goal
      BY <1>16 DEF SweepFail
<1>17. CASE Restart
      BY <1>17 DEF Restart
<1> HIDE DEF Goal, TypeOK
<1> QED
    BY <1>1, <1>2, <1>3, <1>4, <1>5, <1>6, <1>7, <1>8, <1>9, <1>10, <1>11,
       <1>12, <1>13, <1>14, <1>15, <1>16, <1>17 DEF Next, CallerStep, SweeperStep

\* Decided is decided: refused and timed-out actions are never approved later.
THEOREM LateApprovalImpossible == Spec => NoLateApproval
<1>1. TypeOK /\ [Next]_vars =>
        [\A a \in Actions : status[a] \in Verdicts =>
              /\ status'[a] \in Verdicts
              /\ status'[a] = "APPROVED" => status[a] = "APPROVED"]_vars
      BY NoLateApprovalStep
<1> QED
    BY <1>1, TypeInit, TypeNext, PTL DEF Spec, NoLateApproval

-----------------------------------------------------------------------------
(* Without an expiry task a human's decision is final.  The assumption is  *)
(* needed: the run expiry_overwrites shows what a sweep does to it.        *)

\* One step keeps every human decision on record.
LEMMA StandsNext ==
    ASSUME Sweepers = {}, TypeOK, DecisionStands, [Next]_vars
    PROVE  DecisionStands'
<1> USE ConstantsAssumption
    DEF TypeOK, DecisionStands, Statuses, Verdicts, HumanVerdicts, rows, calls, sweeps,
        Matches, SyncDecide
<1>1. ASSUME NEW c \in Callers, EnqueueRegister(c) PROVE DecisionStands'
      BY <1>1 DEF EnqueueRegister
<1>2. ASSUME NEW c \in Callers, NEW a \in Actions,
           BeginWait(c, a)
    PROVE  DecisionStands'
      BY <1>2 DEF BeginWait
<1>3. ASSUME NEW c \in Callers, Wake(c) PROVE DecisionStands'
      BY <1>3 DEF Wake
<1>4. ASSUME NEW c \in Callers, TimerFires(c) PROVE DecisionStands'
      BY <1>4 DEF TimerFires
<1>5. ASSUME NEW c \in Callers, TimeoutDecide(c) PROVE DecisionStands'
      BY <1>5 DEF TimeoutDecide
<1>6. ASSUME NEW c \in Callers, Close(c) PROVE DecisionStands'
      BY <1>6 DEF Close
<1>7. ASSUME NEW c \in Callers, ReadRow(c) PROVE DecisionStands'
      BY <1>7 DEF ReadRow
<1>8. ASSUME NEW c \in Callers, CancelWait(c) PROVE DecisionStands'
      BY <1>8 DEF CancelWait
<1>9. ASSUME NEW c \in Callers, NEW a \in Actions,
           EnqueueInsert(c, a)
    PROVE  DecisionStands'
      BY <1>9 DEF EnqueueInsert
<1>10. ASSUME NEW p \in Approvers, DecideSignal(p) PROVE DecisionStands'
      BY <1>10 DEF DecideSignal
<1>11. ASSUME NEW p \in Approvers, NEW a \in Actions, NEW v \in HumanVerdicts,
           DecideCommit(p, a, v)
    PROVE  DecisionStands'
      BY <1>11 DEF DecideCommit
<1>12. ASSUME NEW a \in Actions, BecomeOverdue(a) PROVE DecisionStands'
      BY <1>12 DEF BecomeOverdue
<1>13. CASE Restart
      BY <1>13 DEF Restart
<1>14. CASE UNCHANGED vars
      BY <1>14 DEF vars
<1> HIDE DEF TypeOK, DecisionStands
<1> QED
    BY <1>1, <1>2, <1>3, <1>4, <1>5, <1>6, <1>7, <1>8, <1>9, <1>10, <1>11,
       <1>12, <1>13, <1>14 DEF Next, CallerStep, SweeperStep

\* What approve() or deny() was told it decided stays on record, under the
\* name of the human who decided it.
THEOREM DecisionsStand ==
    ASSUME Sweepers = {}
    PROVE  Spec => []DecisionStands
<1>1. Init => DecisionStands
      BY DEF Init, DecisionStands
<1>2. TypeOK /\ DecisionStands /\ [Next]_vars => DecisionStands'
      BY StandsNext
<1> QED
    BY <1>1, <1>2, TypeInit, TypeNext, PTL DEF Spec

\* One step keeps every answer that was given the decision on record.
LEMMA AnswerNext ==
    ASSUME Sweepers = {}, TypeOK, AnswerStands, [Next]_vars
    PROVE  AnswerStands'
<1> USE ConstantsAssumption
    DEF TypeOK, AnswerStands, Statuses, Verdicts, HumanVerdicts, rows, calls, sweeps,
        Matches, SyncDecide
<1>1. ASSUME NEW c \in Callers, EnqueueRegister(c) PROVE AnswerStands'
      BY <1>1 DEF EnqueueRegister
<1>2. ASSUME NEW c \in Callers, NEW a \in Actions,
           BeginWait(c, a)
    PROVE  AnswerStands'
      BY <1>2 DEF BeginWait
<1>3. ASSUME NEW c \in Callers, Wake(c) PROVE AnswerStands'
      BY <1>3 DEF Wake
<1>4. ASSUME NEW c \in Callers, TimerFires(c) PROVE AnswerStands'
      BY <1>4 DEF TimerFires
<1>5. ASSUME NEW c \in Callers, TimeoutDecide(c) PROVE AnswerStands'
      BY <1>5 DEF TimeoutDecide
<1>6. ASSUME NEW c \in Callers, Close(c) PROVE AnswerStands'
      BY <1>6 DEF Close
<1>7. ASSUME NEW c \in Callers, ReadRow(c) PROVE AnswerStands'
      BY <1>7 DEF ReadRow
<1>8. ASSUME NEW c \in Callers, CancelWait(c) PROVE AnswerStands'
      BY <1>8 DEF CancelWait
<1>9. ASSUME NEW c \in Callers, NEW a \in Actions,
           EnqueueInsert(c, a)
    PROVE  AnswerStands'
      BY <1>9 DEF EnqueueInsert
<1>10. ASSUME NEW p \in Approvers, DecideSignal(p) PROVE AnswerStands'
      BY <1>10 DEF DecideSignal
<1>11. ASSUME NEW p \in Approvers, NEW a \in Actions, NEW v \in HumanVerdicts,
           DecideCommit(p, a, v)
    PROVE  AnswerStands'
      BY <1>11 DEF DecideCommit
<1>12. ASSUME NEW a \in Actions, BecomeOverdue(a) PROVE AnswerStands'
      BY <1>12 DEF BecomeOverdue
<1>13. CASE Restart
      BY <1>13 DEF Restart
<1>14. CASE UNCHANGED vars
      BY <1>14 DEF vars
<1> HIDE DEF TypeOK, AnswerStands
<1> QED
    BY <1>1, <1>2, <1>3, <1>4, <1>5, <1>6, <1>7, <1>8, <1>9, <1>10, <1>11,
       <1>12, <1>13, <1>14 DEF Next, CallerStep, SweeperStep

\* What wait_for_decision() told a caller stays the decision on record.
THEOREM AnswersStand ==
    ASSUME Sweepers = {}
    PROVE  Spec => []AnswerStands
<1>1. Init => AnswerStands
      BY DEF Init, AnswerStands
<1>2. TypeOK /\ AnswerStands /\ [Next]_vars => AnswerStands'
      BY AnswerNext
<1> QED
    BY <1>1, <1>2, TypeInit, TypeNext, PTL DEF Spec

-----------------------------------------------------------------------------
(* The queue implements the decision register when every caller enqueued   *)
(* what it waits for: the one whose decisions may expire, and, when nothing *)
(* sweeps, the one whose decisions are final.  What has to be known of a   *)
(* reachable state: a caller is the only one concerned with its action,    *)
(* whose event is registered when it begins to wait; and wherever something *)
(* may make a caller go and read the row, the row is decided.              *)

Undecided == {"ABSENT", "PENDING"}

OwnsItsAction ==
    /\ \A c \in Callers : at[c] # "idle" => status[act[c]] # "ABSENT"
    /\ \A c, d \in Callers : (at[c] # "idle" /\ at[d] # "idle" /\ act[c] = act[d]) => c = d
    /\ \A c \in Callers : at[c] = "enqueued" => act[c] \in events

WokenWhenDecided ==
    /\ \A a \in isSet : status[a] \notin Undecided
    /\ \A p \in Approvers : decided[p] # NoAction => status[decided[p]] \notin Undecided
    /\ \A c \in Callers : at[c] \in {"closing", "reading"} => status[act[c]] \notin Undecided

SweptWereInserted ==
    \A s \in Sweepers : \A a \in swept[s] :
        status[a] # "ABSENT" /\ (sweepAt[s] = "updated" => status[a] \notin Undecided)

AnsweredWhenReturned == \A c \in Callers : at[c] # "returned" => answer[c] = "NONE"

RegisterInv == OwnsItsAction /\ WokenWhenDecided /\ SweptWereInserted /\ AnsweredWhenReturned

\* It holds initially.
LEMMA RegisterInvInit == Init => RegisterInv
  BY DEF Init, RegisterInv, OwnsItsAction, WokenWhenDecided, SweptWereInserted,
        AnsweredWhenReturned

\* Every step keeps it.
LEMMA RegisterInvNext ==
    ASSUME Observers = {}, TypeOK, RegisterInv, [Next]_vars
    PROVE  RegisterInv'
<1> USE ConstantsAssumption
    DEF TypeOK, RegisterInv, OwnsItsAction, WokenWhenDecided, SweptWereInserted,
        AnsweredWhenReturned,
        Undecided, Statuses, Verdicts, HumanVerdicts, rows, calls, sweeps,
        Matches, SyncDecide
<1>1. ASSUME NEW c \in Callers, EnqueueRegister(c) PROVE RegisterInv'
      BY <1>1 DEF EnqueueRegister
<1>2. ASSUME NEW c \in Callers, NEW a \in Actions,
           BeginWait(c, a)
    PROVE  RegisterInv'
      BY <1>2 DEF BeginWait
<1>3. ASSUME NEW c \in Callers, Wake(c) PROVE RegisterInv'
      BY <1>3 DEF Wake
<1>4. ASSUME NEW c \in Callers, TimerFires(c) PROVE RegisterInv'
      BY <1>4 DEF TimerFires
<1>5. ASSUME NEW c \in Callers, TimeoutDecide(c) PROVE RegisterInv'
      BY <1>5 DEF TimeoutDecide
<1>6. ASSUME NEW c \in Callers, Close(c) PROVE RegisterInv'
      BY <1>6 DEF Close
<1>7. ASSUME NEW c \in Callers, ReadRow(c) PROVE RegisterInv'
      BY <1>7 DEF ReadRow
<1>8. ASSUME NEW c \in Callers, CancelWait(c) PROVE RegisterInv'
      BY <1>8 DEF CancelWait
<1>9. ASSUME NEW c \in Callers, NEW a \in Actions,
           EnqueueInsert(c, a)
    PROVE  RegisterInv'
      BY <1>9 DEF EnqueueInsert
<1>10. ASSUME NEW p \in Approvers, DecideSignal(p) PROVE RegisterInv'
      BY <1>10 DEF DecideSignal
<1>11. ASSUME NEW p \in Approvers, NEW a \in Actions, NEW v \in HumanVerdicts,
           DecideCommit(p, a, v)
    PROVE  RegisterInv'
      BY <1>11 DEF DecideCommit
<1>12. ASSUME NEW a \in Actions, BecomeOverdue(a) PROVE RegisterInv'
      BY <1>12 DEF BecomeOverdue
<1>13. CASE Restart
      BY <1>13 DEF Restart
<1>14. CASE UNCHANGED vars
      BY <1>14 DEF vars
<1>15. ASSUME NEW s \in Sweepers, SweepSelect(s) PROVE RegisterInv'
      BY <1>15 DEF SweepSelect, OverduePending
<1>16. ASSUME NEW s \in Sweepers, SweepUpdate(s) PROVE RegisterInv'
      BY <1>16 DEF SweepUpdate, SyncExpire
<1>17. ASSUME NEW s \in Sweepers, SweepSignal(s) PROVE RegisterInv'
      BY <1>17 DEF SweepSignal
<1>18. ASSUME NEW s \in Sweepers, SweepFail(s) PROVE RegisterInv'
      BY <1>18 DEF SweepFail
<1> HIDE DEF TypeOK, RegisterInv
<1> QED
    BY <1>1, <1>2, <1>3, <1>4, <1>5, <1>6, <1>7, <1>8, <1>9, <1>10, <1>11,
       <1>12, <1>13, <1>14, <1>15, <1>16, <1>17, <1>18 DEF Next, CallerStep, SweeperStep

\* The steps that concern the register; the others leave its variables alone.
\* The sweeper's UPDATE is looked at by itself.
LEMMA RegisterStep ==
    ASSUME Observers = {}, TypeOK, RegisterInv, [Next]_vars,
           \A s \in Sweepers : ~SweepUpdate(s)
    PROVE  [Register!Next]_(Register!vars)
<1> USE ConstantsAssumption
    DEF TypeOK, RegisterInv, OwnsItsAction, WokenWhenDecided, SweptWereInserted,
        AnsweredWhenReturned,
        Undecided, Statuses, Verdicts, HumanVerdicts, rows, calls, sweeps,
        Matches, SyncDecide, Register!Next, Register!vars, Register!Verdicts
<1>1. ASSUME NEW c \in Callers,
           EnqueueRegister(c)
    PROVE  [Register!Next]_(Register!vars)
      BY <1>1 DEF EnqueueRegister
<1>2. ASSUME NEW c \in Callers, NEW a \in Actions,
           BeginWait(c, a)
    PROVE  [Register!Next]_(Register!vars)
      BY <1>2 DEF BeginWait
<1>3. ASSUME NEW c \in Callers, Wake(c) PROVE [Register!Next]_(Register!vars)
      BY <1>3 DEF Wake
<1>4. ASSUME NEW c \in Callers,
           TimerFires(c)
    PROVE  [Register!Next]_(Register!vars)
      BY <1>4 DEF TimerFires
<1>5. ASSUME NEW c \in Callers,
           TimeoutDecide(c)
    PROVE  [Register!Next]_(Register!vars)
      BY <1>5 DEF TimeoutDecide, Register!Decide
<1>6. ASSUME NEW c \in Callers, Close(c) PROVE [Register!Next]_(Register!vars)
      BY <1>6 DEF Close
<1>7. ASSUME NEW c \in Callers,
           ReadRow(c)
    PROVE  [Register!Next]_(Register!vars)
  <2>1. act[c] \in Actions /\ status[act[c]] \in Verdicts /\ answer[c] = "NONE"
        BY <1>7 DEF ReadRow
  <2>2. Register!Answer(c)
        BY <1>7, <2>1 DEF ReadRow, Register!Answer
  <2> QED
      BY <2>2
<1>8. ASSUME NEW c \in Callers,
           CancelWait(c)
    PROVE  [Register!Next]_(Register!vars)
  <2>1. Register!Forget({c})
        BY <1>8 DEF CancelWait, Register!Forget
  <2> QED
      BY <2>1
<1>9. ASSUME NEW c \in Callers, NEW a \in Actions,
           EnqueueInsert(c, a)
    PROVE  [Register!Next]_(Register!vars)
      BY <1>9 DEF EnqueueInsert, Register!Request
<1>10. ASSUME NEW p \in Approvers,
           DecideSignal(p)
    PROVE  [Register!Next]_(Register!vars)
      BY <1>10 DEF DecideSignal
<1>11. ASSUME NEW p \in Approvers, NEW a \in Actions, NEW v \in HumanVerdicts,
           DecideCommit(p, a, v)
    PROVE  [Register!Next]_(Register!vars)
      BY <1>11 DEF DecideCommit, Register!Decide
<1>12. ASSUME NEW a \in Actions,
           BecomeOverdue(a)
    PROVE  [Register!Next]_(Register!vars)
      BY <1>12 DEF BecomeOverdue
<1>13. CASE Restart
  <2>1. Register!Forget(Callers)
        BY <1>13 DEF Restart, Register!Forget
  <2> QED
      BY <2>1
<1>14. CASE UNCHANGED vars
      BY <1>14 DEF vars
<1>15. ASSUME NEW s \in Sweepers, SweepSelect(s) \/ SweepSignal(s) \/ SweepFail(s)
       PROVE  [Register!Next]_(Register!vars)
      BY <1>15 DEF SweepSelect, SweepSignal, SweepFail
<1> HIDE DEF TypeOK, RegisterInv, Register!Next, Register!vars
<1> QED
    BY <1>1, <1>2, <1>3, <1>4, <1>5, <1>6, <1>7, <1>8, <1>9, <1>10, <1>11,
       <1>12, <1>13, <1>14, <1>15 DEF Next, CallerStep, SweeperStep

\* Decisions are taken once, and every caller is answered with the final
\* decision of its own action: the queue is a decision register, through
\* every race, cancellation and restart.
THEOREM QueueImplementsRegister ==
    ASSUME Sweepers = {}, Observers = {}
    PROVE  Spec => ImplementsRegister
<1>1. Init => Register!Init
      BY DEF Init, Register!Init
<1>2. TypeOK /\ RegisterInv /\ [Next]_vars => RegisterInv'
      BY RegisterInvNext
<1>3. TypeOK /\ RegisterInv /\ [Next]_vars => [Register!Next]_(Register!vars)
      BY RegisterStep
<1> QED
    BY <1>1, <1>2, <1>3, TypeInit, TypeNext, RegisterInvInit, PTL
       DEF Spec, Register!Spec, ImplementsRegister

\* With any number of expiry tasks: a sweep's UPDATE hits rows that were once
\* inserted, whatever became of them since its SELECT, and all else is as it is
\* without. So the only thing a caller may find changed is a decision that
\* became TIMED_OUT before it read the row.
THEOREM QueueImplementsSweptRegister ==
    ASSUME Observers = {}
    PROVE  Spec => ImplementsSweptRegister
<1>1. Init => Register!Init
      BY DEF Init, Register!Init
<1>2. TypeOK /\ RegisterInv /\ [Next]_vars => RegisterInv'
      BY RegisterInvNext
<1>3. TypeOK /\ RegisterInv /\ [Next]_vars => [Register!SweptNext]_(Register!vars)
  <2> SUFFICES ASSUME TypeOK, RegisterInv, [Next]_vars
               PROVE  [Register!SweptNext]_(Register!vars)
      OBVIOUS
  <2>1. ASSUME NEW s \in Sweepers, SweepUpdate(s) PROVE Register!SweptNext
    <3>1. swept[s] \in SUBSET Actions
          BY DEF TypeOK
    <3>2. Register!Expire(swept[s])
          BY <2>1, <3>1 DEF SweepUpdate, SyncExpire, Register!Expire, RegisterInv,
             SweptWereInserted, calls
    <3> QED
        BY <3>1, <3>2 DEF Register!SweptNext
  <2>2. CASE \A s \in Sweepers : ~SweepUpdate(s)
        BY <2>2, RegisterStep DEF Register!SweptNext
  <2> QED
      BY <2>1, <2>2
<1> QED
    BY <1>1, <1>2, <1>3, TypeInit, TypeNext, RegisterInvInit, PTL
       DEF Spec, Register!SweptSpec, ImplementsSweptRegister
=============================================================================
