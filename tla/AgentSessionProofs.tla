-------------------------- MODULE AgentSessionProofs --------------------------
(***************************************************************************)
(* Proofs about runs of AgentSession, for every number of runs, turns and   *)
(* retries and every budget.                                               *)
(***************************************************************************)
EXTENDS AgentSession, TLAPS

-----------------------------------------------------------------------------
(* Types, and which run a tool call belongs to.                            *)

\* A model that is going to be called has a turn left.
Counted == \A r \in Runs : at[r] \in {"new", "calling"} => turns[r] < MaxTurns

\* A tool call is the work of one run, and is put to the gate once.
Apart ==
    /\ \A r \in Runs : todo[r] \cap DOMAIN says = {}
    /\ \A r, q \in Runs : cur[q] \notin todo[r]
    /\ \A r, q \in Runs : r # q => /\ todo[r] \cap todo[q] = {}
                                   /\ cur[r] # cur[q] \/ cur[r] = NoCall

Base == TypeOK /\ Counted /\ Apart

LEMMA NoCallIsNone == NoCall \notin Calls /\ MaxTurns \in Nat \ {0} /\ MaxTokens \in Nat
BY ConstantsAssumption

LEMMA AnswersAreDecisions == Answers \cup {Denied} \subseteq Decisions
<1>1. Denied \in Decisions
      BY DEF Denied, Decisions
<1> QED  BY <1>1, ConstantsAssumption

\* What a client makes of a response and of results is a message.
LEMMA ClientsTalk ==
    ASSUME NEW p \in Providers, NEW by \in Providers, NEW calls \in SUBSET Calls
    PROVE  /\ AssistantMessage(p, by, calls) \in Messages
           /\ ResultMessages(p, calls) \in Messages
<1>1. /\ AnthropicAssistant(by, calls) \in Messages /\ AnthropicResults(calls) \in Messages
      /\ OpenAIAssistant(by, calls) \in Messages /\ OpenAIResults(calls) \in Messages
      /\ GoogleAssistant(by, calls) \in Messages /\ GoogleResults(calls) \in Messages
      BY DEF Providers, Messages, Assistant, Results, AnthropicAssistant, AnthropicResults,
         OpenAIAssistant, OpenAIResults, GoogleAssistant, GoogleResults
<1>2. AssistantMessage(p, by, calls) \in Messages
      BY <1>1, Zenon DEF Providers, AssistantMessage
<1>3. ResultMessages(p, calls) \in Messages
      BY <1>1, Zenon DEF Providers, ResultMessages
<1> QED  BY <1>2, <1>3

Reasons == {"tool_use", "end_turn", "max_tokens"}

LEMMA ClientsStop ==
    ASSUME NEW p \in Providers, NEW finish \in Reasons, NEW calls
    PROVE  StopReason(p, finish, calls) \in Reasons
<1>1. /\ AnthropicStop(finish, calls) \in Reasons
      /\ OpenAIStop(finish, calls) \in Reasons
      /\ GoogleStop(finish, calls) \in Reasons
      BY DEF Reasons, AnthropicStop, OpenAIStop, GoogleStop
<1> QED  BY <1>1, Zenon DEF Providers, StopReason

LEMMA ClientsKnown ==
    ASSUME TypeOK, NEW r \in Runs
    PROVE  Asked(r) \in Providers /\ client[r].main \in Providers
BY ConstantsAssumption DEF TypeOK, RunTypes, Asked

LEMMA BaseInit == Init => Base
<1> SUFFICES ASSUME Init PROVE Base  OBVIOUS
<1> USE NoCallIsNone DEF Init, Queue!Init
<1>1. RunTypes
      BY DEF RunTypes, Places
<1>2. WorkTypes
      BY DEF WorkTypes
<1>3. HandTypes /\ BookTypes /\ QueueTypes
      BY DEF HandTypes, BookTypes, QueueTypes, Queue!Verdicts
<1>4. Counted /\ Apart
      BY DEF Counted, Apart
<1> QED  BY <1>1, <1>2, <1>3, <1>4 DEF Base, TypeOK

\* A message that joins the conversation of a run.
LEMMA SayKeeps ==
    ASSUME history \in [Runs -> Seq(Messages)], NEW r \in Runs, NEW m \in Messages, Say(r, m)
    PROVE  history' \in [Runs -> Seq(Messages)]
<1>1. Append(history[r], m) \in Seq(Messages)
      OBVIOUS
<1> QED  BY <1>1 DEF Say

\* A call in hand is kept, or done with.
Hands(r) == \/ cur' = cur /\ pairs' = pairs
            \/ /\ cur' = [cur EXCEPT ![r] = NoCall]
               /\ pairs' = [pairs EXCEPT ![r] = @ \cup {cur[r]}]

LEMMA HandsKeep ==
    ASSUME WorkTypes, NEW r \in Runs, cur[r] \in Calls, Hands(r), UNCHANGED <<history, todo>>
    PROVE  WorkTypes'
<1>1. cur' \in [Runs -> Calls \cup {NoCall}]
      BY DEF WorkTypes, Hands
<1>2. pairs[r] \cup {cur[r]} \in SUBSET Calls
      BY DEF WorkTypes
<1>3. pairs' \in [Runs -> SUBSET Calls]
      BY <1>2 DEF WorkTypes, Hands
<1> QED  BY <1>1, <1>3 DEF WorkTypes

LEMMA HandsApart ==
    ASSUME WorkTypes, Apart, NEW r \in Runs, Hands(r), UNCHANGED todo,
           DOMAIN says' \subseteq DOMAIN says \cup {cur[r]}
    PROVE  Apart'
<1>1. \A q \in Runs : cur'[q] = cur[q] \/ cur'[q] = NoCall
      BY DEF Hands, WorkTypes
<1>2. \A q \in Runs : cur[r] \notin todo[q] /\ todo[q] \subseteq Calls
      BY DEF Apart, WorkTypes
<1>3. \A q \in Runs : todo'[q] \cap DOMAIN says' = {}
      BY <1>2 DEF Apart
<1>4. \A p, q \in Runs : cur'[q] \notin todo'[p]
      BY <1>1, <1>2, NoCallIsNone DEF Apart
<1>5. \A p, q \in Runs : p # q => /\ todo'[p] \cap todo'[q] = {}
                                  /\ cur'[p] # cur'[q] \/ cur'[p] = NoCall
      BY <1>1 DEF Apart
<1> QED  BY <1>3, <1>4, <1>5 DEF Apart

\* One step per action; what an action leaves alone keeps its part.
LEMMA BaseKept == Base /\ [Next]_vars => Base'
<1> SUFFICES ASSUME RunTypes, WorkTypes, HandTypes, BookTypes, QueueTypes, Counted, Apart,
                    [Next]_vars
             PROVE  Base'
    BY DEF Base, TypeOK
<1> USE NoCallIsNone DEF Go, Leave, llm, talk, books, queue
<1>1. CASE UNCHANGED vars
      BY <1>1 DEF vars, Base, TypeOK, RunTypes, WorkTypes, HandTypes, BookTypes, QueueTypes,
         Counted, Apart
<1>2. ASSUME NEW r \in Runs, Spawn(r) PROVE Base'
  <2>1. RunTypes'
        BY <1>2 DEF RunTypes, Spawn, Places, InLoop
  <2>2. HandTypes'
        BY <1>2 DEF HandTypes, Spawn, RunTypes
  <2>3. Counted'
        BY <1>2 DEF Counted, Spawn, RunTypes
  <2>4. WorkTypes' /\ BookTypes' /\ QueueTypes' /\ Apart'
        BY <1>2 DEF WorkTypes, BookTypes, QueueTypes, Apart, Spawn
  <2> QED  BY <2>1, <2>2, <2>3, <2>4 DEF Base, TypeOK
<1>3. ASSUME NEW r \in Runs, SpawnDenied(r) PROVE Base'
  <2>1. RunTypes'
        BY <1>3 DEF RunTypes, SpawnDenied, Places, InLoop
  <2>2. HandTypes'
        BY <1>3 DEF HandTypes, SpawnDenied, RunTypes
  <2>3. Counted'
        BY <1>3 DEF Counted, SpawnDenied, RunTypes
  <2>4. WorkTypes' /\ BookTypes' /\ QueueTypes' /\ Apart'
        BY <1>3 DEF WorkTypes, BookTypes, QueueTypes, Apart, SpawnDenied
  <2> QED  BY <2>1, <2>2, <2>3, <2>4 DEF Base, TypeOK
<1>4. ASSUME NEW r \in Runs, SpawnCallbackRaises(r) PROVE Base'
  <2>1. RunTypes'
        BY <1>4 DEF RunTypes, SpawnCallbackRaises, Places, InLoop
  <2>2. HandTypes'
        BY <1>4 DEF HandTypes, SpawnCallbackRaises, RunTypes
  <2>3. Counted'
        BY <1>4 DEF Counted, SpawnCallbackRaises, RunTypes
  <2>4. WorkTypes' /\ BookTypes' /\ QueueTypes' /\ Apart'
        BY <1>4 DEF WorkTypes, BookTypes, QueueTypes, Apart, SpawnCallbackRaises
  <2> QED  BY <2>1, <2>2, <2>3, <2>4 DEF Base, TypeOK
<1>5. ASSUME NEW r \in Runs, Finally(r) PROVE Base'
  <2>1. RunTypes'
        BY <1>5 DEF RunTypes, Finally, Places, InLoop
  <2>2. HandTypes'
        BY <1>5 DEF HandTypes, Finally, RunTypes
  <2>3. Counted'
        BY <1>5 DEF Counted, Finally, RunTypes
  <2>4. WorkTypes' /\ BookTypes' /\ QueueTypes' /\ Apart'
        BY <1>5 DEF WorkTypes, BookTypes, QueueTypes, Apart, Finally
  <2> QED  BY <2>1, <2>2, <2>3, <2>4 DEF Base, TypeOK
<1>6. ASSUME NEW r \in Runs, TokenDies(r) PROVE Base'
  <2>1. RunTypes'
        BY <1>6 DEF RunTypes, TokenDies
  <2>2. WorkTypes' /\ HandTypes' /\ BookTypes' /\ QueueTypes' /\ Counted' /\ Apart'
        BY <1>6 DEF WorkTypes, HandTypes, BookTypes, QueueTypes, Counted, Apart, TokenDies
  <2> QED  BY <2>1, <2>2 DEF Base, TypeOK
<1>7. ASSUME NEW r \in Runs, LoopRaises(r) PROVE Base'
  <2>1. RunTypes'
        BY <1>7 DEF RunTypes, LoopRaises, Places, InLoop
  <2>2. HandTypes'
        BY <1>7 DEF HandTypes, LoopRaises, RunTypes
  <2>3. QueueTypes'
        BY <1>7 DEF QueueTypes, LoopRaises, Queue!Forget, Queue!Verdicts
  <2>4. Counted'
        BY <1>7 DEF Counted, LoopRaises, RunTypes
  <2>5. WorkTypes' /\ BookTypes' /\ Apart'
        BY <1>7 DEF WorkTypes, BookTypes, Apart, LoopRaises
  <2> QED  BY <2>1, <2>2, <2>3, <2>4, <2>5 DEF Base, TypeOK
<1>8. ASSUME NEW r \in Runs, NEW status \in Statuses, LLMFails(r, status)
      PROVE  Base'
  <2>1. RunTypes'
        BY <1>8 DEF RunTypes, LLMFails, Places, InLoop
  <2>2. HandTypes'
        BY <1>8 DEF HandTypes, LLMFails, RunTypes
  <2>3. Counted'
        BY <1>8 DEF Counted, LLMFails, RunTypes
  <2>4. WorkTypes' /\ BookTypes' /\ QueueTypes' /\ Apart'
        BY <1>8 DEF WorkTypes, BookTypes, QueueTypes, Apart, LLMFails
  <2> QED  BY <2>1, <2>2, <2>3, <2>4 DEF Base, TypeOK
<1>9. ASSUME NEW r \in Runs, NEW finish \in Reasons, NEW calls \in SUBSET Calls,
             NEW n \in 0..MaxTokens, LLMResponds(r, finish, calls, n)
      PROVE  Base'
  <2> DEFINE reason == StopReason(Asked(r), finish, calls)
  <2>1. reason \in Reasons
        BY ClientsKnown, ClientsStop DEF TypeOK
  <2> HIDE DEF reason
  <2>2. /\ at[r] = "calling" /\ at' = [at EXCEPT ![r] = "budget"]
        /\ \A k \in calls : Fresh(k)
        /\ turns' = [turns EXCEPT ![r] = @ + 1]
        /\ tries' = [tries EXCEPT ![r] = 0]
        /\ used' = [used EXCEPT ![r] = IF r \in WithBudget THEN @ + n ELSE @]
        /\ stop' = [stop EXCEPT ![r] = reason]
        /\ todo' = [todo EXCEPT ![r] = IF reason = "tool_use" THEN calls ELSE {}]
        /\ UNCHANGED <<sid, token, onFallback, client, history, pairs, cur, ending>>
        /\ UNCHANGED <<says, late, invoked, listed, audit, decision, about, answer, verdict>>
        BY <1>9 DEF LLMResponds, reason
  <2>3. turns[r] + 1 \in 0..MaxTurns
        BY <2>2 DEF RunTypes, Counted
  <2>4. RunTypes'
        BY <2>1, <2>2, <2>3 DEF RunTypes, Reasons, Places, InLoop
  <2>5. WorkTypes'
        BY <2>2 DEF WorkTypes
  <2>6. HandTypes' /\ Counted'
        BY <2>2 DEF HandTypes, Counted, RunTypes
  <2>7. BookTypes' /\ QueueTypes'
        BY <2>2 DEF BookTypes, QueueTypes
  <2>8. Apart'
        BY <2>2 DEF Apart, WorkTypes, Fresh
  <2> QED  BY <2>4, <2>5, <2>6, <2>7, <2>8 DEF Base, TypeOK
<1>10. ASSUME NEW r \in Runs, CheckBudget(r) PROVE Base'
  <2>1. history' \in [Runs -> Seq(Messages)]
    <3>1. AssistantMessage(client[r].main, Asked(r), todo[r]) \in Messages
          BY ClientsKnown, ClientsTalk DEF WorkTypes, TypeOK
    <3> QED  BY <1>10, <3>1, SayKeeps DEF CheckBudget, WorkTypes
  <2>2. RunTypes'
        BY <1>10 DEF RunTypes, CheckBudget, Places, InLoop
  <2>3. WorkTypes'
        BY <1>10, <2>1 DEF WorkTypes, CheckBudget
  <2>4. HandTypes'
        BY <1>10 DEF HandTypes, CheckBudget, RunTypes
  <2>5. Counted'
        BY <1>10 DEF Counted, CheckBudget, RunTypes
  <2>6. BookTypes' /\ QueueTypes' /\ Apart'
        BY <1>10 DEF BookTypes, QueueTypes, Apart, CheckBudget
  <2> QED  BY <2>2, <2>3, <2>4, <2>5, <2>6 DEF Base, TypeOK
<1>11. ASSUME NEW r \in Runs, EndTurn(r) PROVE Base'
  <2>1. history' \in [Runs -> Seq(Messages)]
    <3>1. ResultMessages(client[r].main, pairs[r]) \in Messages
          BY ClientsKnown, ClientsTalk DEF WorkTypes, TypeOK
    <3> QED  BY <1>11, <3>1, SayKeeps DEF EndTurn, WorkTypes
  <2>2. RunTypes'
        BY <1>11 DEF RunTypes, EndTurn, Places, InLoop
  <2>3. WorkTypes'
        BY <1>11, <2>1 DEF WorkTypes, EndTurn
  <2>4. HandTypes'
        BY <1>11 DEF HandTypes, EndTurn, RunTypes
  <2>5. Counted'
        BY <1>11 DEF Counted, EndTurn, RunTypes, TurnsLeft
  <2>6. BookTypes' /\ QueueTypes' /\ Apart'
        BY <1>11 DEF BookTypes, QueueTypes, Apart, EndTurn
  <2> QED  BY <2>2, <2>3, <2>4, <2>5, <2>6 DEF Base, TypeOK
<1>12. ASSUME NEW r \in Runs, NEW k \in Calls, PutToGate(r, k)
      PROVE  Base'
  <2>1. RunTypes'
        BY <1>12 DEF RunTypes, PutToGate, Places, InLoop
  <2>2. WorkTypes'
        BY <1>12 DEF WorkTypes, PutToGate
  <2>3. HandTypes'
        BY <1>12 DEF HandTypes, PutToGate, RunTypes, WorkTypes, Apart
  <2>4. BookTypes'
        BY <1>12 DEF BookTypes, PutToGate
  <2>5. Counted'
        BY <1>12 DEF Counted, PutToGate, RunTypes
  <2>6. Apart'
        BY <1>12 DEF Apart, PutToGate, WorkTypes
  <2>7. QueueTypes'
        BY <1>12 DEF QueueTypes, PutToGate
  <2> QED  BY <2>1, <2>2, <2>3, <2>4, <2>5, <2>6, <2>7 DEF Base, TypeOK
<1>13. ASSUME NEW r \in Runs, NEW d \in Decisions, Dispatch(r, d) PROVE Base'
  <2> DEFINE k == cur[r]
  <2>1. /\ at[r] \in {"asking", "refusing"} /\ k \in Calls \ DOMAIN says
        /\ says' = [j \in DOMAIN says \cup {k} |-> IF j = k THEN d ELSE says[j]]
        /\ UNCHANGED <<sid, token, turns, tries, onFallback, used, stop, client, history>>
        /\ UNCHANGED <<todo, ending, late>>
        BY <1>13 DEF Dispatch, HandTypes
  <2>2. \/ /\ at' = [at EXCEPT ![r] = "tools"]
           /\ cur' = [cur EXCEPT ![r] = NoCall]
           /\ pairs' = [pairs EXCEPT ![r] = @ \cup {k}]
           /\ \E name \in {"blocked_calls", "hitl_required"} : listed' = [listed EXCEPT ![k] = name]
           /\ \/ UNCHANGED audit
              \/ \E outcome \in Outcomes : audit' = [audit EXCEPT ![k] = @ \cup {outcome}]
           /\ UNCHANGED <<invoked, decision, about, answer, verdict>>
        \/ /\ at' = [at EXCEPT ![r] = "running"] /\ invoked' = invoked \cup {k}
           /\ UNCHANGED <<cur, pairs, listed, audit, decision, about, answer, verdict>>
        \/ /\ Queue!Request(r, k) /\ at' = [at EXCEPT ![r] = "queued"]
           /\ UNCHANGED <<cur, pairs, invoked, listed, audit, verdict>>
        BY <1>13 DEF Dispatch, List, Record, Insert, NextCall, Outcomes
  <2>3. /\ k \in Calls /\ cur[r] = k /\ Hands(r)
        /\ \A q \in Runs \ {r} : cur[q] # k
        BY <2>1, <2>2 DEF Apart, Hands
  <2> HIDE DEF k
  <2>4. DOMAIN says' = DOMAIN says \cup {k} /\ says' \in [DOMAIN says' -> Decisions]
        BY <2>1, <2>3 DEF BookTypes
  <2>5. RunTypes'
        BY <2>1, <2>2 DEF RunTypes, Places, InLoop
  <2>6. WorkTypes'
        BY <2>1, <2>3, HandsKeep
  <2>7. HandTypes'
        BY <2>1, <2>2, <2>3, <2>4 DEF HandTypes, RunTypes, WorkTypes
  <2>8. BookTypes'
        BY <2>1, <2>2, <2>3, <2>4 DEF BookTypes
  <2>9. QueueTypes'
        BY <2>2, <2>3 DEF QueueTypes, Queue!Request
  <2>10. Counted'
        BY <2>1, <2>2 DEF RunTypes, Counted
  <2>11. Apart'
        BY <2>1, <2>3, <2>4, HandsApart
  <2> QED  BY <2>5, <2>6, <2>7, <2>8, <2>9, <2>10, <2>11 DEF Base, TypeOK
<1>14. ASSUME NEW r \in Runs, HitlAudit(r) PROVE Base'
  <2>1. RunTypes'
        BY <1>14 DEF RunTypes, HitlAudit, Places, InLoop
  <2>2. HandTypes'
        BY <1>14 DEF HandTypes, HitlAudit, RunTypes
  <2>3. BookTypes'
        BY <1>14 DEF BookTypes, HitlAudit, Record, Insert, Outcomes
  <2>4. Counted'
        BY <1>14 DEF Counted, HitlAudit, RunTypes
  <2>5. WorkTypes' /\ QueueTypes' /\ Apart'
        BY <1>14 DEF WorkTypes, QueueTypes, Apart, HitlAudit
  <2> QED  BY <2>1, <2>2, <2>3, <2>4, <2>5 DEF Base, TypeOK
<1>15. ASSUME NEW r \in Runs, WaitReturns(r) PROVE Base'
  <2>1. /\ cur[r] \in Calls /\ Hands(r)
        /\ UNCHANGED <<history, todo, says>>
        BY <1>15 DEF WaitReturns, NextCall, Hands, HandTypes, BookTypes
  <2>2. RunTypes'
        BY <1>15 DEF RunTypes, WaitReturns, NextCall, Places, InLoop
  <2>3. WorkTypes'
        BY <2>1, HandsKeep
  <2>4. HandTypes'
        BY <1>15 DEF HandTypes, WaitReturns, RunTypes, WorkTypes, NextCall
  <2>5. BookTypes'
        BY <1>15 DEF BookTypes, WaitReturns, NextCall, HandTypes, List, Record, Insert, Outcomes
  <2>6. QueueTypes'
        BY <1>15 DEF QueueTypes, WaitReturns, Queue!Answer, Queue!Verdicts
  <2>7. Counted'
        BY <1>15 DEF Counted, WaitReturns, RunTypes, NextCall
  <2>8. Apart'
        BY <2>1, HandsApart
  <2> QED  BY <2>2, <2>3, <2>4, <2>5, <2>6, <2>7, <2>8 DEF Base, TypeOK
<1>16. ASSUME NEW r \in Runs, ToolReturns(r) PROVE Base'
  <2>1. RunTypes'
        BY <1>16 DEF RunTypes, ToolReturns, NextCall, Places, InLoop
  <2>2. WorkTypes'
        BY <1>16 DEF WorkTypes, ToolReturns, NextCall, HandTypes, BookTypes
  <2>3. HandTypes'
        BY <1>16 DEF HandTypes, ToolReturns, RunTypes, WorkTypes, NextCall
  <2>4. BookTypes'
        BY <1>16 DEF BookTypes, ToolReturns, NextCall, HandTypes, List, Record, Insert, Ran, Outcomes
  <2>5. Counted'
        BY <1>16 DEF Counted, ToolReturns, RunTypes, NextCall
  <2>6. Apart'
        BY <1>16 DEF Apart, ToolReturns, WorkTypes, NextCall
  <2>7. QueueTypes'
        BY <1>16 DEF QueueTypes, ToolReturns
  <2> QED  BY <2>1, <2>2, <2>3, <2>4, <2>5, <2>6, <2>7 DEF Base, TypeOK
<1>17. ASSUME QueueTypes', UNCHANGED <<at, sid, token, llm, pairs, todo, cur, ending, books>>
       PROVE  Base'
  <2>1. QueueTypes'
        BY <1>17
  <2>2. RunTypes' /\ WorkTypes' /\ HandTypes' /\ BookTypes' /\ Counted' /\ Apart'
        BY <1>17 DEF RunTypes, WorkTypes, HandTypes, BookTypes, Counted, Apart
  <2> QED  BY <2>1, <2>2 DEF Base, TypeOK
<1>18. ASSUME NEW r \in Runs, HitlTimeout(r) PROVE Base'
  <2>1. QueueTypes'
        BY <1>18 DEF HitlTimeout, QueueTypes, Queue!Decide, Queue!Verdicts
  <2> QED  BY <1>17, <1>18, <2>1 DEF HitlTimeout
<1>19. ASSUME NEW k \in Calls, NEW v \in Queue!Verdicts, HumanDecides(k, v) PROVE Base'
  <2>1. QueueTypes'
        BY <1>19 DEF HumanDecides, QueueTypes, Queue!Decide, Queue!Verdicts
  <2> QED  BY <1>17, <1>19, <2>1 DEF HumanDecides
<1>20. ASSUME NEW rows \in SUBSET Calls, Sweep(rows) PROVE Base'
  <2>1. QueueTypes'
        BY <1>20 DEF Sweep, QueueTypes, Queue!Expire, Queue!Verdicts
  <2> QED  BY <1>17, <1>20, <2>1 DEF Sweep
<1> QED
    BY <1>1, <1>2, <1>3, <1>4, <1>5, <1>6, <1>7, <1>8, <1>9, <1>10, <1>11, <1>12, <1>13, <1>14,
       <1>15, <1>16, <1>18, <1>19, <1>20, AnswersAreDecisions DEF Next, RunStep, Reasons

\* Every variable has its type, and no call is dispatched twice.
THEOREM TypeCorrect == Spec => []TypeOK
<1>1. Base => TypeOK
      BY DEF Base
<1> QED  BY BaseInit, BaseKept, <1>1, PTL DEF Spec

-----------------------------------------------------------------------------
(* Tokens.                                                                 *)

\* A step in the body of the try, as far as tokens are concerned.
LoopStep(r) == /\ at[r] \in InLoop
               /\ \E place \in InLoop \cup {"closing"} : at' = [at EXCEPT ![r] = place]
               /\ UNCHANGED <<sid, token>>

LEMMA Moves ==
    ASSUME TypeOK, [Next]_vars
    PROVE  \/ UNCHANGED <<at, sid, token, ending>>
           \/ \E r \in Runs : \/ Spawn(r) \/ SpawnDenied(r) \/ SpawnCallbackRaises(r)
                              \/ Finally(r) \/ TokenDies(r)
                              \/ LoopStep(r) /\ \A q \in Runs \ {r} : ending'[q] = ending[q]
<1> USE DEF TypeOK, RunTypes, Go, Leave, llm
<1>1. CASE UNCHANGED vars
      BY <1>1 DEF vars
<1>2. ASSUME NEW r \in Runs, RunStep(r) \/ SpawnCallbackRaises(r) \/ LoopRaises(r) \/ TokenDies(r)
      PROVE  \/ UNCHANGED <<at, sid, token, ending>>
             \/ Spawn(r) \/ SpawnDenied(r) \/ SpawnCallbackRaises(r) \/ Finally(r) \/ TokenDies(r)
             \/ LoopStep(r) /\ \A q \in Runs \ {r} : ending'[q] = ending[q]
  <2> USE DEF LoopStep, InLoop
  <2>1. CASE LoopRaises(r)
        BY <2>1 DEF LoopRaises
  <2>2. ASSUME NEW status \in Statuses, LLMFails(r, status)
        PROVE  \/ UNCHANGED <<at, sid, token, ending>>
               \/ LoopStep(r) /\ \A q \in Runs \ {r} : ending'[q] = ending[q]
        BY <2>2 DEF LLMFails
  <2>3. ASSUME NEW finish, NEW calls, NEW n, LLMResponds(r, finish, calls, n)
        PROVE  LoopStep(r) /\ UNCHANGED ending
        BY <2>3 DEF LLMResponds
  <2>4. CASE CheckBudget(r) \/ EndTurn(r)
        BY <2>4 DEF CheckBudget, EndTurn
  <2>5. ASSUME NEW k \in Calls, PutToGate(r, k) PROVE LoopStep(r) /\ UNCHANGED ending
        BY <2>5 DEF PutToGate
  <2>6. ASSUME NEW d, Dispatch(r, d) PROVE LoopStep(r) /\ UNCHANGED ending
        BY <2>6 DEF Dispatch, NextCall
  <2>7. CASE HitlAudit(r) \/ WaitReturns(r) \/ ToolReturns(r)
        BY <2>7 DEF HitlAudit, WaitReturns, ToolReturns, NextCall
  <2>8. CASE HitlTimeout(r)
        BY <2>8 DEF HitlTimeout
  <2> QED  BY <1>2, <2>1, <2>2, <2>3, <2>4, <2>5, <2>6, <2>7, <2>8 DEF RunStep
<1>3. ASSUME NEW k \in Calls, NEW v \in Queue!Verdicts, HumanDecides(k, v)
      PROVE  UNCHANGED <<at, sid, token, ending>>
      BY <1>3 DEF HumanDecides
<1>4. ASSUME NEW rows \in SUBSET Calls, Sweep(rows) PROVE UNCHANGED <<at, sid, token, ending>>
      BY <1>4 DEF Sweep
<1> HIDE DEF TypeOK, RunTypes, Go, Leave, llm
<1> QED  BY <1>1, <1>2, <1>3, <1>4 DEF Next

\* Once the loop was entered, the finally revokes all tokens of the session id
\* however the loop is left, and a run that has not begun is issued none.
THEOREM TokensDieWithRuns == Spec => []NoTokenOutlivesRun
<1>1. Init => NoTokenOutlivesRun
      BY DEF Init, NoTokenOutlivesRun
<1>2. TypeOK /\ NoTokenOutlivesRun /\ [Next]_vars => NoTokenOutlivesRun'
  <2> SUFFICES ASSUME TypeOK, NoTokenOutlivesRun, [Next]_vars PROVE NoTokenOutlivesRun'
      OBVIOUS
  <2> USE DEF TypeOK, RunTypes, NoTokenOutlivesRun, Go
  <2>1. CASE UNCHANGED <<at, sid, token, ending>>
        BY <2>1
  <2>2. ASSUME NEW r \in Runs, Spawn(r) PROVE NoTokenOutlivesRun'
        BY <2>2 DEF Spawn
  <2>3. ASSUME NEW r \in Runs, SpawnDenied(r) PROVE NoTokenOutlivesRun'
        BY <2>3 DEF SpawnDenied
  <2>4. ASSUME NEW r \in Runs, Finally(r) PROVE NoTokenOutlivesRun'
        BY <2>4 DEF Finally
  <2>5. ASSUME NEW r \in Runs, TokenDies(r) PROVE NoTokenOutlivesRun'
        BY <2>5 DEF TokenDies
  <2>6. ASSUME NEW r \in Runs, LoopStep(r), \A q \in Runs \ {r} : ending'[q] = ending[q]
        PROVE  NoTokenOutlivesRun'
        BY <2>6 DEF LoopStep, InLoop
  <2>7. ASSUME NEW r \in Runs, SpawnCallbackRaises(r) PROVE NoTokenOutlivesRun'
        BY <2>7 DEF SpawnCallbackRaises
  <2> QED  BY Moves, <2>1, <2>2, <2>3, <2>4, <2>5, <2>6, <2>7
<1> QED  BY <1>1, <1>2, TypeCorrect, PTL DEF Spec

\* The broker's register allows what the runs do with their tokens.
THEOREM TokensAreRegistered == Spec => ImplementsTokenRegister
<1>1. Init => Broker!Init
      BY DEF Init, Broker!Init, Broker!Fits
<1>2. TypeOK /\ [Next]_vars => [Broker!Next]_(Broker!vars)
  <2> SUFFICES ASSUME TypeOK, [Next]_vars PROVE [Broker!Next]_(Broker!vars)
      OBVIOUS
  <2> DEFINE Status(r) == IF token[r] = "live" THEN "good" ELSE token[r]
  <2>1. token \in [Runs -> {"none", "live", "dead"}]
        BY DEF TypeOK, RunTypes
  <2>2. CASE UNCHANGED token
        BY <2>2 DEF Broker!vars
  <2>3. ASSUME NEW set \in SUBSET Runs, \A r \in set : token[r] # "none",
               token' = [r \in Runs |-> IF r \in set THEN "dead" ELSE token[r]]
        PROVE  [Broker!Next]_(Broker!vars)
    <3>1. Broker!Fits'
          BY <2>1, <2>3 DEF Broker!Fits
    <3>2. \A r \in set : Status(r) \in {"good", "doubtful", "dead"}
          BY <2>1, <2>3
    <3>3. \A r \in Runs : Status(r)' = IF r \in set THEN "dead" ELSE Status(r)
          BY <2>3
    <3> QED  BY <3>1, <3>2, <3>3 DEF Broker!Next, Broker!Kill, Broker!Turn
  <2>4. ASSUME NEW r \in Runs, token[r] = "none", token' = [token EXCEPT ![r] = "live"]
        PROVE  [Broker!Next]_(Broker!vars)
    <3>1. Broker!Fits'
          BY <2>1, <2>4 DEF Broker!Fits
    <3>2. Status(r) = "none" /\ \A q \in Runs : Status(q)' = IF q \in {r} THEN "good" ELSE Status(q)
          BY <2>1, <2>4
    <3> QED  BY <3>1, <3>2 DEF Broker!Next, Broker!Give, Broker!Turn
  <2>5. ASSUME NEW r \in Runs, Spawn(r) PROVE [Broker!Next]_(Broker!vars)
    <3>1. CASE token[r] = "none"
          BY <3>1, <2>4, <2>5 DEF Spawn
    <3>2. CASE token[r] # "none"
      <4>1. token[r] = "live" /\ token' = token
            BY <3>2, <2>1, <2>5 DEF Spawn, TokenValid
      <4> QED  BY <4>1, <2>2
    <3> QED  BY <3>1, <3>2
  <2>6. ASSUME NEW r \in Runs, Finally(r) PROVE [Broker!Next]_(Broker!vars)
    <3> DEFINE set == {q \in Runs : sid[q] = sid[r] /\ token[q] = "live"}
    <3>1. token' = [q \in Runs |-> IF q \in set THEN "dead" ELSE token[q]]
          BY <2>6 DEF Finally
    <3>2. set \in SUBSET Runs /\ \A q \in set : token[q] # "none"
          OBVIOUS
    <3> HIDE DEF set
    <3> QED  BY <3>1, <3>2, <2>3
  <2>7. ASSUME NEW r \in Runs, TokenDies(r) PROVE [Broker!Next]_(Broker!vars)
    <3> DEFINE set == {r}
    <3>1. token' = [q \in Runs |-> IF q \in set THEN "dead" ELSE token[q]]
          BY <2>1, <2>7 DEF TokenDies
    <3>2. set \in SUBSET Runs /\ \A q \in set : token[q] # "none"
          BY <2>7 DEF TokenDies
    <3> HIDE DEF set
    <3> QED  BY <3>1, <3>2, <2>3
  <2>8. ASSUME NEW r \in Runs, SpawnCallbackRaises(r) PROVE [Broker!Next]_(Broker!vars)
        BY <2>8, <2>4 DEF SpawnCallbackRaises
  <2> QED  BY Moves, <2>2, <2>5, <2>6, <2>7, <2>8 DEF SpawnDenied, LoopStep
<1> QED  BY <1>1, <1>2, TypeCorrect, PTL DEF Spec, ImplementsTokenRegister, Broker!Spec

-----------------------------------------------------------------------------
(* The budget.                                                             *)

\* Whatever budget and whatever a response costs: the check that follows the
\* response denies, and no other step leaves it.
THEOREM BudgetStops == Spec => []ExhaustedBudgetStops
<1>1. Init => ExhaustedBudgetStops
      BY DEF Init, ExhaustedBudgetStops
<1>2. TypeOK /\ ExhaustedBudgetStops /\ [Next]_vars => ExhaustedBudgetStops'
  <2> SUFFICES ASSUME TypeOK, ExhaustedBudgetStops, [Next]_vars PROVE ExhaustedBudgetStops'
      OBVIOUS
  <2> USE DEF TypeOK, RunTypes, ExhaustedBudgetStops, Go, Leave, llm
  <2>1. CASE UNCHANGED <<at, turns, used>>
        BY <2>1
  <2>2. ASSUME NEW r \in Runs, Spawn(r) \/ SpawnDenied(r) \/ SpawnCallbackRaises(r) \/ Finally(r)
                                \/ TokenDies(r) \/ LoopRaises(r) \/ HitlAudit(r)
        PROVE  ExhaustedBudgetStops'
        BY <2>2 DEF Spawn, SpawnDenied, SpawnCallbackRaises, Finally, TokenDies, LoopRaises,
           HitlAudit
  <2>3. ASSUME NEW r \in Runs, NEW status \in Statuses, LLMFails(r, status)
        PROVE  ExhaustedBudgetStops'
        BY <2>3 DEF LLMFails
  <2>4. ASSUME NEW r \in Runs, NEW finish, NEW calls, NEW n, LLMResponds(r, finish, calls, n)
        PROVE  ExhaustedBudgetStops'
    <3>1. at' = [at EXCEPT ![r] = "budget"]
          BY <2>4 DEF LLMResponds
    <3>2. \A q \in Runs \ {r} : turns'[q] = turns[q] /\ used'[q] = used[q]
          BY <2>4 DEF LLMResponds
    <3> QED  BY <3>1, <3>2
  <2>5. ASSUME NEW r \in Runs, CheckBudget(r) PROVE ExhaustedBudgetStops'
        BY <2>5 DEF CheckBudget, Exhausted
  <2>6. ASSUME NEW r \in Runs, EndTurn(r) PROVE ExhaustedBudgetStops'
        BY <2>6 DEF EndTurn
  <2>7. ASSUME NEW r \in Runs, NEW k \in Calls, PutToGate(r, k) PROVE ExhaustedBudgetStops'
        BY <2>7 DEF PutToGate
  <2>8. ASSUME NEW r \in Runs, NEW d, Dispatch(r, d) PROVE ExhaustedBudgetStops'
        BY <2>8 DEF Dispatch, NextCall
  <2>9. ASSUME NEW r \in Runs, WaitReturns(r) \/ ToolReturns(r) PROVE ExhaustedBudgetStops'
        BY <2>9 DEF WaitReturns, ToolReturns, NextCall
  <2>10. ASSUME NEW r \in Runs, HitlTimeout(r) PROVE UNCHANGED <<at, turns, used>>
         BY <2>10 DEF HitlTimeout
  <2>11. ASSUME NEW k \in Calls, NEW v \in Queue!Verdicts, HumanDecides(k, v)
         PROVE  UNCHANGED <<at, turns, used>>
         BY <2>11 DEF HumanDecides
  <2>12. CASE UNCHANGED vars
         BY <2>12, <2>1 DEF vars
  <2>13. ASSUME NEW rows \in SUBSET Calls, Sweep(rows) PROVE UNCHANGED <<at, turns, used>>
         BY <2>13 DEF Sweep
  <2> QED
      BY <2>1, <2>2, <2>3, <2>4, <2>5, <2>6, <2>7, <2>8, <2>9, <2>10, <2>11, <2>12, <2>13
         DEF Next, RunStep
<1> QED  BY <1>1, <1>2, TypeCorrect, PTL DEF Spec

-----------------------------------------------------------------------------
(* What runs, and what is said of it.                                      *)

\* Between two calls a run has none in hand.
Idle == \A r \in Runs : at[r] \in {"new", "calling", "budget", "tools"} => cur[r] = NoCall

\* Only what the gate has decided, and wants reviewed, is put to a human.
Submitted == \A k \in Calls : decision[k] # "ABSENT" =>
                 k \in DOMAIN says /\ says[k].requires_hitl /\ ~says[k].deny

\* A decision on record that is not the clock's is the one a human took.
HumansDecide ==
    \A k \in Calls : /\ decision[k] \in {"ABSENT", "PENDING"} => verdict[k] = "none"
                     /\ decision[k] \in {"APPROVED", "DENIED"} => verdict[k] = decision[k]

\* A call that reached the gate with a dead token is on its way to be refused.
LateIsLost ==
    /\ \A r \in Runs : todo[r] \cap late = {}
    /\ \A r \in Runs : cur[r] \in late => at[r] \notin {"asking", "queued", "waiting", "running"}
    /\ \A k \in late : k \in DOMAIN says \/ k \in InHand

\* What a human is asked about is what the policies want reviewed, and did not deny.
Review == \A r \in Runs : at[r] \in {"queued", "waiting"} =>
              /\ says[cur[r]].requires_hitl /\ ~says[cur[r]].deny
              /\ about[r] = cur[r]
              /\ decision[cur[r]] # "ABSENT"
              /\ cur[r] \notin invoked

\* The records of a call that is on its way.
OnItsWay ==
    /\ \A k \in Calls \ DOMAIN says : audit[k] = {}
    /\ \A r \in Runs : /\ at[r] = "queued" => audit[cur[r]] = {}
                       /\ at[r] = "waiting" => audit[cur[r]] \subseteq {"hitl_queued"}
                       /\ at[r] = "running" => /\ cur[r] \in invoked
                                               /\ audit[cur[r]] \subseteq {"hitl_queued"}

\* Every call the gate decided and no run has in hand is in a list of the result.
ListsAreTrue == \A k \in DOMAIN says \ InHand : /\ listed[k] # "none"
                                                /\ listed[k] = "tool_calls" <=> k \in invoked

Inv == Base /\ Idle /\ Submitted /\ HumansDecide /\ LateIsLost /\ Review /\ OnItsWay
            /\ OnlyGovernedCallsRun /\ AuditIsTrue /\ ListsAreTrue

LEMMA InvInit == Init => Inv
<1> SUFFICES ASSUME Init PROVE Inv  OBVIOUS
<1>1. Idle /\ Submitted /\ HumansDecide /\ LateIsLost /\ Review /\ OnItsWay
      BY DEF Init, Queue!Init, Idle, Submitted, HumansDecide, LateIsLost, Review, OnItsWay
<1>2. OnlyGovernedCallsRun /\ AuditIsTrue /\ ListsAreTrue
      BY DEF Init, Queue!Init, OnlyGovernedCallsRun, AuditIsTrue, AuditIsTrueOf, ListsAreTrue, Refusals
<1> QED  BY <1>1, <1>2, BaseInit DEF Inv

\* Steps that dispatch nothing: a run moves without its call, or drops it.
Quiet ==
    /\ UNCHANGED <<cur, says, late, invoked, listed, audit, decision, verdict>>
    /\ \A r \in Runs : /\ todo'[r] = todo[r] \/ \A k \in todo'[r] : Fresh(k)
                       /\ \/ at'[r] = at[r] /\ about'[r] = about[r]
                          \/ at[r] \in InLoop \cup {"new"} /\ at'[r] \in {"closing", "ended"}
                          \/ /\ at[r] \in {"new", "calling", "budget", "tools"}
                             /\ at'[r] \in {"calling", "budget", "tools", "closing", "ended"}
                          \/ at[r] = "closing" /\ at'[r] = "ended"

LEMMA QuietKeeps ==
    ASSUME Inv, Quiet, Base'
    PROVE  Inv'
<1> USE DEF Inv
<1>1. Idle'
      BY DEF Quiet, Idle, InLoop
<1>2. Submitted' /\ HumansDecide' /\ OnlyGovernedCallsRun'
      BY DEF Quiet, Submitted, HumansDecide, OnlyGovernedCallsRun
<1>3. LateIsLost'
      BY DEF Quiet, LateIsLost, InHand, InLoop, Fresh
<1>4. Review'
      BY DEF Quiet, Review, InLoop
<1>5. OnItsWay'
      BY DEF Quiet, OnItsWay, InLoop
<1>6. AuditIsTrue' /\ ListsAreTrue'
      BY DEF Quiet, AuditIsTrue, AuditIsTrueOf, ListsAreTrue, InHand
<1> QED  BY <1>1, <1>2, <1>3, <1>4, <1>5, <1>6

LEMMA QuietSteps ==
    ASSUME TypeOK, NEW r \in Runs,
           \/ Spawn(r) \/ SpawnDenied(r) \/ SpawnCallbackRaises(r) \/ Finally(r) \/ TokenDies(r)
           \/ LoopRaises(r) \/ CheckBudget(r) \/ EndTurn(r)
           \/ \E status \in Statuses : LLMFails(r, status)
           \/ \E finish \in Reasons, calls \in SUBSET Calls, n \in 0..MaxTokens :
                 LLMResponds(r, finish, calls, n)
    PROVE  Quiet
<1> USE DEF TypeOK, RunTypes, WorkTypes, QueueTypes, Go, Leave, books, queue, llm, Quiet, InLoop
<1>1. CASE Spawn(r) \/ SpawnDenied(r) \/ SpawnCallbackRaises(r) \/ Finally(r) \/ TokenDies(r)
      BY <1>1 DEF Spawn, SpawnDenied, SpawnCallbackRaises, Finally, TokenDies
<1>2. CASE LoopRaises(r)
      BY <1>2 DEF LoopRaises, Queue!Forget
<1>3. CASE CheckBudget(r) \/ EndTurn(r)
      BY <1>3 DEF CheckBudget, EndTurn
<1>4. ASSUME NEW status \in Statuses, LLMFails(r, status) PROVE Quiet
      BY <1>4 DEF LLMFails
<1>5. ASSUME NEW finish \in Reasons, NEW calls \in SUBSET Calls, NEW n \in 0..MaxTokens,
             LLMResponds(r, finish, calls, n)
      PROVE  Quiet
  <2>1. /\ at[r] = "calling" /\ at' = [at EXCEPT ![r] = "budget"]
        /\ \A k \in calls : Fresh(k)
        /\ UNCHANGED <<cur, says, late, invoked, listed, audit, decision, about, verdict>>
        /\ \E new \in {calls, {}} : todo' = [todo EXCEPT ![r] = new]
        BY <1>5 DEF LLMResponds
  <2> QED  BY <2>1
<1> QED  BY <1>1, <1>2, <1>3, <1>4, <1>5

LEMMA PutKeeps ==
    ASSUME Inv, NEW r \in Runs, NEW k \in Calls, PutToGate(r, k), Base'
    PROVE  Inv'
<1> USE DEF Inv, PutToGate, Go, Base, TypeOK
<1>1. /\ k \notin DOMAIN says /\ k \notin late /\ cur[r] = NoCall /\ k # NoCall
      /\ k \notin invoked /\ decision[k] = "ABSENT"
      BY NoCallIsNone DEF Apart, LateIsLost, Idle, BookTypes, Submitted
<1>2. /\ cur' = [cur EXCEPT ![r] = k] /\ cur[r] = NoCall
      /\ InHand' \subseteq InHand \cup {k} /\ InHand \subseteq InHand' \cup {NoCall}
      BY <1>1 DEF InHand, WorkTypes
<1>3. Idle' /\ Submitted' /\ HumansDecide'
      BY DEF Idle, Submitted, HumansDecide, RunTypes, WorkTypes, queue
<1>4. LateIsLost'
  <2>1. late' \subseteq late \cup {k} /\ (late' # late => at'[r] = "refusing")
        BY DEF TokenValid, RunTypes
  <2>2. \A q \in Runs : todo'[q] \cap late' = {}
        BY <2>1 DEF LateIsLost, Apart, WorkTypes
  <2>3. \A q \in Runs : cur'[q] \in late' => at'[q] \notin {"asking", "queued", "waiting", "running"}
        BY <1>1, <1>2, <2>1 DEF LateIsLost, Apart, RunTypes, WorkTypes
  <2>4. \A j \in late' : j \in DOMAIN says' \/ j \in InHand'
        BY <1>2, <2>1, NoCallIsNone DEF LateIsLost, InHand, WorkTypes, BookTypes
  <2> QED  BY <2>2, <2>3, <2>4 DEF LateIsLost
<1>5. Review'
      BY DEF Review, RunTypes, WorkTypes, queue
<1>6. OnItsWay'
      BY DEF OnItsWay, RunTypes, WorkTypes
<1>7. OnlyGovernedCallsRun'
      BY <1>1 DEF OnlyGovernedCallsRun, queue
<1>8. AuditIsTrue' /\ ListsAreTrue'
      BY <1>1, <1>2, NoCallIsNone DEF AuditIsTrue, AuditIsTrueOf, ListsAreTrue, BookTypes, queue
<1> QED  BY <1>3, <1>4, <1>5, <1>6, <1>7, <1>8

\* A call leaves the hand of a run: nobody else had it.
LEMMA Handed ==
    ASSUME Base, NEW r \in Runs, cur[r] \in Calls, cur' = [cur EXCEPT ![r] = NoCall]
    PROVE  /\ \A q \in Runs \ {r} : cur'[q] = cur[q] /\ cur[q] # cur[r]
           /\ cur'[r] = NoCall
           /\ InHand \subseteq InHand' \cup {cur[r]} /\ InHand' \subseteq InHand \cup {NoCall}
           /\ cur[r] \notin InHand'
BY NoCallIsNone DEF Base, TypeOK, WorkTypes, Apart, InHand

LEMMA DispatchKeeps ==
    ASSUME Inv, NEW r \in Runs, NEW d \in Decisions, Dispatch(r, d), Base'
    PROVE  Inv'
<1> DEFINE k == cur[r]
<1> USE DEF Inv, Base, TypeOK
<1>1. /\ at[r] \in {"asking", "refusing"} /\ k \in Calls \ DOMAIN says
      /\ at[r] = "refusing" => d = Denied
      /\ DOMAIN says' = DOMAIN says \cup {k}
      /\ says'[k] = d /\ \A j \in DOMAIN says : says'[j] = says[j]
      /\ UNCHANGED <<todo, late>>
      BY DEF Dispatch, HandTypes
<1>2. /\ k \notin invoked /\ decision[k] = "ABSENT" /\ audit[k] = {}
      /\ \A q \in Runs \ {r} : cur[q] # k
      /\ k \in late => d = Denied
      /\ cur[r] = k /\ k \in InHand
  <2>1. k \notin invoked /\ decision[k] = "ABSENT" /\ audit[k] = {}
        BY <1>1 DEF BookTypes, Submitted, OnItsWay
  <2>2. \A q \in Runs \ {r} : cur[q] # k
        BY <1>1, NoCallIsNone DEF Apart
  <2>3. k \in late => d = Denied
        BY <1>1 DEF LateIsLost
  <2> QED  BY <2>1, <2>2, <2>3 DEF InHand
<1>3. CASE Route(d) \in {"block", "soft_deny"} \/ (Route(d) = "hitl" /\ r \notin WithQueue)
  <2>1. /\ at' = [at EXCEPT ![r] = "tools"] /\ cur' = [cur EXCEPT ![r] = NoCall]
        /\ UNCHANGED <<invoked, decision, about, verdict>>
        /\ \E name \in {"blocked_calls", "hitl_required"} : listed' = [listed EXCEPT ![k] = name]
        /\ \/ k \in AuditMayFail /\ UNCHANGED audit
           \/ \E outcome \in {"blocked", "soft_denied", "hitl_queued"} :
                 /\ audit' = [audit EXCEPT ![k] = @ \cup {outcome}]
                 /\ outcome = "hitl_queued" <=> ~d.deny /\ d.requires_hitl
        BY <1>3 DEF Dispatch, NextCall, Go, List, Record, Insert, queue, Route
  <2>2. /\ \A q \in Runs \ {r} : cur'[q] = cur[q] /\ cur[q] # k
        /\ cur'[r] = NoCall
        /\ InHand \subseteq InHand' \cup {k} /\ InHand' \subseteq InHand \cup {NoCall}
        /\ k \notin InHand'
        BY <1>1, <2>1, Handed
  <2>10. /\ \A j \in Calls \ {k} : audit'[j] = audit[j]
        /\ \/ k \in AuditMayFail /\ audit'[k] = {}
           \/ audit'[k] = {"hitl_queued"} /\ ~d.deny /\ d.requires_hitl
           \/ audit'[k] \in {{"blocked"}, {"soft_denied"}} /\ ~(~d.deny /\ d.requires_hitl)
    <3>1. CASE k \in AuditMayFail /\ UNCHANGED audit
          BY <1>2, <3>1
    <3>2. ASSUME NEW outcome \in {"blocked", "soft_denied", "hitl_queued"},
                 audit' = [audit EXCEPT ![k] = @ \cup {outcome}]
          PROVE  (\A j \in Calls \ {k} : audit'[j] = audit[j]) /\ audit'[k] = {outcome}
          BY <1>1, <1>2, <3>2 DEF BookTypes
    <3> HIDE DEF k
    <3> QED  BY <2>1, <3>1, <3>2
  <2> HIDE DEF k
  <2>3. Idle' /\ Submitted' /\ HumansDecide'
        BY <1>1, <1>2, <2>1, <2>2 DEF Idle, Submitted, HumansDecide, RunTypes
  <2>4. LateIsLost'
        BY <1>1, <2>1, <2>2, NoCallIsNone DEF LateIsLost, RunTypes, BookTypes
  <2>5. Review'
        BY <1>1, <2>1, <2>2 DEF Review, RunTypes, HandTypes
  <2>6. OnItsWay'
    <3>1. \A j \in Calls \ DOMAIN says' : audit'[j] = {}
          BY <1>1, <2>10 DEF OnItsWay
    <3>2. ASSUME NEW q \in Runs \ {r}, at[q] \in {"queued", "waiting", "running"}
          PROVE  cur'[q] = cur[q] /\ audit'[cur[q]] = audit[cur[q]]
          BY <2>2, <2>10, <3>2 DEF HandTypes, BookTypes
    <3>3. at'[r] = "tools" /\ \A q \in Runs \ {r} : at'[q] = at[q]
          BY <2>1 DEF RunTypes
    <3> QED  BY <2>1, <3>1, <3>2, <3>3 DEF OnItsWay
  <2>7. OnlyGovernedCallsRun'
        BY <1>1, <1>2, <2>1 DEF OnlyGovernedCallsRun, BookTypes
  <2>8. ListsAreTrue'
        BY <1>1, <1>2, <2>1, <2>2, NoCallIsNone DEF ListsAreTrue, BookTypes
  <2>9. AuditIsTrue'
    <3>1. ASSUME NEW j \in Calls, j # k
          PROVE  /\ audit'[j] = audit[j] /\ decision'[j] = decision[j] /\ verdict'[j] = verdict[j]
                 /\ j \in DOMAIN says' <=> j \in DOMAIN says
                 /\ j \in DOMAIN says => says'[j] = says[j]
                 /\ j \in InHand' <=> j \in InHand
          BY <1>1, <2>1, <2>2, <2>10, <3>1, NoCallIsNone DEF BookTypes
    <3>2. /\ audit'[k] \cap {"allowed", "hitl_approved", "hitl_denied", "hitl_timeout"} = {}
          /\ k \notin AuditMayFail =>
                 IF ~d.deny /\ d.requires_hitl THEN audit'[k] = {"hitl_queued"}
                 ELSE audit'[k] \cap Refusals # {}
          BY <2>10 DEF Refusals
    <3>3. k \notin invoked' /\ decision'[k] = "ABSENT" /\ says'[k] = d
          BY <1>1, <1>2, <2>1
    <3>4. invoked' = invoked /\ k \in Calls
          BY <1>1, <2>1
    <3>5. /\ audit'[k] \cap {"allowed", "hitl_approved"} = {}
          /\ "hitl_denied" \notin audit'[k] /\ "hitl_timeout" \notin audit'[k]
          BY <3>2
    <3> SUFFICES ASSUME NEW j \in Calls PROVE AuditIsTrueOf(j)'
        BY DEF AuditIsTrue, AuditIsTrueOf
    <3>6. CASE j = k
          BY <3>2, <3>3, <3>5, <3>6 DEF AuditIsTrueOf
    <3>7. CASE j # k
          BY <3>1, <3>4, <3>7 DEF AuditIsTrue, AuditIsTrueOf, OnItsWay
    <3> QED  BY <3>6, <3>7
  <2> QED  BY <2>3, <2>4, <2>5, <2>6, <2>7, <2>8, <2>9
<1>4. CASE Route(d) = "execute"
  <2>1. /\ at' = [at EXCEPT ![r] = "running"] /\ invoked' = invoked \cup {k}
        /\ UNCHANGED <<cur, listed, audit, decision, about, verdict>>
        /\ ~d.deny /\ ~d.requires_hitl /\ d.allow /\ k \notin late
        BY <1>2, <1>4 DEF Dispatch, Go, queue, Route, Denied, Decisions
  <2>2. k \in InHand /\ InHand' = InHand
        BY <1>1, <2>1 DEF InHand
  <2> HIDE DEF k
  <2>3. Idle' /\ Submitted' /\ HumansDecide'
        BY <1>1, <1>2, <2>1 DEF Idle, Submitted, HumansDecide, RunTypes
  <2>4. LateIsLost'
        BY <1>1, <2>1 DEF k, LateIsLost, RunTypes, InHand
  <2>5. Review'
        BY <1>1, <1>2, <2>1 DEF Review, RunTypes, HandTypes
  <2>6. OnItsWay'
    <3>1. \A j \in Calls \ DOMAIN says' : audit'[j] = {}
          BY <1>1, <2>1 DEF OnItsWay
    <3>2. at'[r] = "running" /\ cur'[r] = k /\ \A q \in Runs \ {r} : at'[q] = at[q]
          BY <1>2, <2>1 DEF RunTypes
    <3> QED  BY <1>2, <2>1, <3>1, <3>2 DEF OnItsWay
  <2>7. OnlyGovernedCallsRun'
        BY <1>1, <1>2, <2>1 DEF OnlyGovernedCallsRun, BookTypes
  <2>8. ListsAreTrue'
        BY <1>1, <2>1, <2>2 DEF ListsAreTrue
  <2>9. AuditIsTrue'
        BY <1>1, <1>2, <2>1, <2>2 DEF AuditIsTrue, AuditIsTrueOf, BookTypes
  <2> QED  BY <2>3, <2>4, <2>5, <2>6, <2>7, <2>8, <2>9
<1>5. CASE Route(d) = "hitl" /\ r \in WithQueue
  <2>1. /\ at' = [at EXCEPT ![r] = "queued"]
        /\ decision' = [decision EXCEPT ![k] = "PENDING"]
        /\ about' = [about EXCEPT ![r] = k]
        /\ UNCHANGED <<cur, listed, audit, invoked, verdict>>
        /\ ~d.deny /\ d.requires_hitl /\ k \notin late
        BY <1>2, <1>5 DEF Dispatch, Go, Queue!Request, Route, Denied, Decisions
  <2>2. k \in InHand /\ InHand' = InHand /\ cur'[r] = k
        BY <1>1, <2>1 DEF InHand
  <2> HIDE DEF k
  <2>3. Idle' /\ Submitted' /\ HumansDecide'
    <3>1. decision'[k] = "PENDING" /\ \A j \in Calls \ {k} : decision'[j] = decision[j]
          BY <1>1, <2>1 DEF QueueTypes
    <3> QED  BY <1>1, <1>2, <2>1, <3>1 DEF Idle, Submitted, HumansDecide, RunTypes
  <2>4. LateIsLost'
        BY <1>1, <2>1, <2>2 DEF k, LateIsLost, RunTypes, InHand
  <2>5. Review'
    <3>1. ASSUME NEW q \in Runs \ {r}, at'[q] \in {"queued", "waiting"}
          PROVE  /\ at[q] \in {"queued", "waiting"} /\ cur[q] \in Calls \ {k} /\ cur[q] \in DOMAIN says
                 /\ about'[q] = about[q] /\ decision'[cur[q]] = decision[cur[q]]
          BY <1>1, <1>2, <2>1, <3>1 DEF RunTypes, HandTypes, BookTypes, QueueTypes
    <3>2. at'[r] = "queued" /\ about'[r] = k /\ decision'[k] = "PENDING"
          BY <1>1, <2>1 DEF RunTypes, QueueTypes
    <3> QED  BY <1>1, <1>2, <2>1, <2>2, <3>1, <3>2 DEF Review
  <2>6. OnItsWay'
    <3>1. \A j \in Calls \ DOMAIN says' : audit'[j] = {}
          BY <1>1, <2>1 DEF OnItsWay
    <3>2. at'[r] = "queued" /\ cur'[r] = k /\ \A q \in Runs \ {r} : at'[q] = at[q]
          BY <1>2, <2>1 DEF RunTypes
    <3> QED  BY <1>2, <2>1, <3>1, <3>2 DEF OnItsWay
  <2>7. OnlyGovernedCallsRun'
        BY <1>1, <1>2, <2>1 DEF OnlyGovernedCallsRun, BookTypes, QueueTypes
  <2>8. ListsAreTrue'
        BY <1>1, <2>1, <2>2 DEF ListsAreTrue
  <2>9. AuditIsTrue'
        BY <1>1, <1>2, <2>1, <2>2 DEF AuditIsTrue, AuditIsTrueOf, BookTypes, QueueTypes
  <2> QED  BY <2>3, <2>4, <2>5, <2>6, <2>7, <2>8, <2>9
<1> QED  BY <1>3, <1>4, <1>5 DEF Dispatch, Route

LEMMA HitlAuditKeeps ==
    ASSUME Inv, NEW r \in Runs, HitlAudit(r), Base'
    PROVE  Inv'
<1> DEFINE k == cur[r]
<1> USE DEF Inv, Base, TypeOK
<1>1. /\ at[r] = "queued" /\ at' = [at EXCEPT ![r] = "waiting"]
      /\ k \in Calls /\ k \in DOMAIN says /\ k \in InHand /\ audit[k] = {}
      /\ UNCHANGED <<todo, cur, says, late, invoked, listed, decision, about, verdict>>
      /\ InHand' = InHand
      BY DEF HitlAudit, Go, queue, HandTypes, BookTypes, OnItsWay, InHand
<1>2. \A q \in Runs \ {r} : cur[q] # k
      BY <1>1, NoCallIsNone DEF Apart
<1>3. /\ \A j \in Calls \ {k} : audit'[j] = audit[j]
      /\ audit'[k] \subseteq {"hitl_queued"}
  <2>1. CASE UNCHANGED audit
        BY <1>1, <2>1
  <2>2. CASE Insert(k, "hitl_queued")
        BY <1>1, <2>2 DEF Insert, BookTypes
  <2> QED  BY <2>1, <2>2 DEF HitlAudit, Record
<1> cur[r] = k
    OBVIOUS
<1> HIDE DEF k
<1>4. Idle' /\ Submitted' /\ HumansDecide' /\ OnlyGovernedCallsRun' /\ ListsAreTrue'
      BY <1>1 DEF Idle, Submitted, HumansDecide, OnlyGovernedCallsRun, ListsAreTrue, RunTypes
<1>5. LateIsLost'
      BY <1>1 DEF LateIsLost, RunTypes
<1>6. Review'
      BY <1>1 DEF Review, RunTypes
<1>7. OnItsWay'
  <2>1. \A j \in Calls \ DOMAIN says' : audit'[j] = {}
        BY <1>1, <1>3 DEF OnItsWay
  <2>2. at'[r] = "waiting" /\ \A q \in Runs \ {r} : at'[q] = at[q] /\ cur[q] # k
        BY <1>1, <1>2 DEF RunTypes
  <2>3. ASSUME NEW q \in Runs \ {r}, at[q] \in {"queued", "waiting", "running"}
        PROVE  audit'[cur[q]] = audit[cur[q]]
        BY <1>2, <1>3, <2>3 DEF HandTypes, BookTypes
  <2> QED  BY <1>1, <1>3, <2>1, <2>2, <2>3 DEF OnItsWay
<1>8. AuditIsTrue'
  <2> SUFFICES ASSUME NEW j \in Calls PROVE AuditIsTrueOf(j)'
      BY DEF AuditIsTrue
  <2>1. CASE j = k
        BY <1>1, <1>3, <2>1 DEF AuditIsTrueOf, Refusals
  <2>2. CASE j # k
        BY <1>1, <1>3, <2>2 DEF AuditIsTrue, AuditIsTrueOf
  <2> QED  BY <2>1, <2>2
<1> QED  BY <1>4, <1>5, <1>6, <1>7, <1>8

\* A call in hand that leaves it with a record, and perhaps in another list.
LEMMA DoneKeeps ==
    ASSUME Inv, NEW r \in Runs, NEW k, k = cur[r], k \in Calls, k \in DOMAIN says,
           at' = [at EXCEPT ![r] = "tools"], cur' = [cur EXCEPT ![r] = NoCall],
           UNCHANGED <<todo, says, late, invoked, decision, about, verdict>>,
           NEW name \in {"tool_calls", "blocked_calls", "hitl_required"},
           listed' = [listed EXCEPT ![k] = name], name = "tool_calls" <=> k \in invoked,
           NEW outcome \in Outcomes, Record(k, outcome),
           audit[k] \subseteq {"hitl_queued"},
           outcome \in {"allowed", "hitl_approved", "hitl_denied", "hitl_timeout"},
           outcome \in {"allowed", "hitl_approved"} <=> k \in invoked,
           outcome = "allowed" => ~says[k].requires_hitl,
           outcome = "hitl_approved" => verdict[k] = "APPROVED",
           outcome = "hitl_denied" => verdict[k] = "DENIED",
           outcome = "hitl_timeout" => decision[k] = "TIMED_OUT",
           Base'
    PROVE  Inv'
<1> USE DEF Inv, Base, TypeOK
<1>1. /\ \A q \in Runs \ {r} : cur'[q] = cur[q] /\ cur[q] # k
      /\ cur'[r] = NoCall
      /\ InHand \subseteq InHand' \cup {k} /\ InHand' \subseteq InHand \cup {NoCall}
      /\ k \notin InHand'
      BY Handed
<1>2. /\ \A j \in Calls \ {k} : audit'[j] = audit[j]
      /\ \/ k \in AuditMayFail /\ audit'[k] = audit[k]
         \/ audit'[k] = audit[k] \cup {outcome}
      BY DEF Record, Insert, BookTypes
<1>3. at'[r] = "tools" /\ \A q \in Runs \ {r} : at'[q] = at[q]
      BY DEF RunTypes
<1>4. Idle' /\ Submitted' /\ HumansDecide' /\ OnlyGovernedCallsRun'
      BY <1>1, <1>3 DEF Idle, Submitted, HumansDecide, OnlyGovernedCallsRun
<1>5. LateIsLost'
      BY <1>1, <1>3, NoCallIsNone DEF LateIsLost, BookTypes
<1>6. Review'
      BY <1>1, <1>3 DEF Review
<1>7. OnItsWay'
  <2>1. \A j \in Calls \ DOMAIN says' : audit'[j] = {}
        BY <1>2 DEF OnItsWay
  <2>2. ASSUME NEW q \in Runs \ {r}, at[q] \in {"queued", "waiting", "running"}
        PROVE  cur'[q] = cur[q] /\ audit'[cur[q]] = audit[cur[q]]
        BY <1>1, <1>2, <2>2 DEF HandTypes, BookTypes
  <2> QED  BY <1>3, <2>1, <2>2 DEF OnItsWay
<1>8. ListsAreTrue'
      BY <1>1, NoCallIsNone DEF ListsAreTrue, BookTypes
<1>9. AuditIsTrue'
  <2> SUFFICES ASSUME NEW j \in Calls PROVE AuditIsTrueOf(j)'
      BY DEF AuditIsTrue
  <2>1. CASE j = k
    <3>1. audit'[k] \subseteq {"hitl_queued", outcome} /\ (k \notin AuditMayFail => outcome \in audit'[k])
          BY <1>2
    <3>2. says[k].requires_hitl /\ decision[k] = "ABSENT" => outcome \notin Outcomes
          BY DEF HumansDecide, Outcomes, OnlyGovernedCallsRun
    <3> QED  BY <2>1, <3>1, <3>2 DEF AuditIsTrueOf, Refusals
  <2>2. CASE j # k
    <3>1. j \in InHand' <=> j \in InHand
          BY <1>1, <2>2, NoCallIsNone
    <3> QED  BY <1>2, <2>2, <3>1 DEF AuditIsTrue, AuditIsTrueOf
  <2> QED  BY <2>1, <2>2
<1> QED  BY <1>4, <1>5, <1>6, <1>7, <1>8, <1>9

LEMMA ToolReturnsKeeps ==
    ASSUME Inv, NEW r \in Runs, ToolReturns(r), Base'
    PROVE  Inv'
<1> DEFINE k == cur[r]
<1>1. /\ at[r] = "running" /\ k \in Calls /\ k \in DOMAIN says /\ k \in invoked
      /\ audit[k] \subseteq {"hitl_queued"}
      BY DEF ToolReturns, Inv, Base, TypeOK, HandTypes, BookTypes, OnItsWay
<1>2. /\ at' = [at EXCEPT ![r] = "tools"] /\ cur' = [cur EXCEPT ![r] = NoCall]
      /\ UNCHANGED <<todo, says, late, invoked, decision, about, verdict>>
      /\ listed' = [listed EXCEPT ![k] = "tool_calls"] /\ Record(k, Ran(k))
      BY DEF ToolReturns, NextCall, Go, List, queue
<1>3. /\ Ran(k) \in {"allowed", "hitl_approved"} /\ Ran(k) \in Outcomes
      /\ Ran(k) = "allowed" => ~says[k].requires_hitl
      /\ Ran(k) = "hitl_approved" => verdict[k] = "APPROVED"
      BY <1>1 DEF Ran, Outcomes, Inv, OnlyGovernedCallsRun
<1> DEFINE outcome == Ran(k)
<1> HIDE DEF k, outcome
<1>4. k = cur[r] /\ outcome = Ran(k)
      BY DEF k, outcome
<1>5. outcome # "hitl_denied" /\ outcome # "hitl_timeout"
      BY <1>3, <1>4
<1> QED  BY <1>1, <1>2, <1>3, <1>4, <1>5, DoneKeeps

LEMMA WaitReturnsKeeps ==
    ASSUME Inv, NEW r \in Runs, WaitReturns(r), Base'
    PROVE  Inv'
<1> DEFINE k == cur[r]
<1> USE DEF Inv, Base, TypeOK
<1>1. /\ at[r] = "waiting" /\ k \in Calls /\ k \in DOMAIN says /\ k \notin invoked
      /\ says[k].requires_hitl /\ ~says[k].deny /\ audit[k] \subseteq {"hitl_queued"}
      /\ decision[k] \in {"APPROVED", "DENIED", "TIMED_OUT"}
      /\ UNCHANGED <<todo, says, late, decision, about, verdict>>
      BY DEF WaitReturns, HandTypes, BookTypes, OnItsWay, Review, Queue!Answer, Queue!Verdicts
<1>2. /\ k \notin late /\ \A q \in Runs \ {r} : cur[q] # k
      /\ k \in InHand /\ cur[r] = k
      BY <1>1, NoCallIsNone DEF LateIsLost, Apart, InHand
<1>3. CASE decision[k] # "APPROVED"
  <2>1. PICK name \in {"hitl_required", "blocked_calls"}, outcome \in {"hitl_timeout", "hitl_denied"} :
           /\ listed' = [listed EXCEPT ![k] = name] /\ Record(k, outcome)
           /\ outcome = "hitl_denied" => verdict[k] = "DENIED"
           /\ outcome = "hitl_timeout" => decision[k] = "TIMED_OUT"
        BY <1>1, <1>3 DEF WaitReturns, Approves, List, HumansDecide
  <2>2. /\ at' = [at EXCEPT ![r] = "tools"] /\ cur' = [cur EXCEPT ![r] = NoCall]
        /\ UNCHANGED invoked
        BY <1>3 DEF WaitReturns, Approves, NextCall, Go
  <2> HIDE DEF k, Inv
  <2>3. outcome \in Outcomes /\ outcome \notin {"allowed", "hitl_approved"} /\ name # "tool_calls"
        BY DEF Outcomes
  <2> QED  BY <1>1, <1>2, <2>1, <2>2, <2>3, DoneKeeps
<1>4. CASE decision[k] = "APPROVED"
  <2>1. /\ at' = [at EXCEPT ![r] = "running"] /\ invoked' = invoked \cup {k}
        /\ listed' = [listed EXCEPT ![k] = "tool_calls"] /\ UNCHANGED <<audit, cur>>
        BY <1>4 DEF WaitReturns, Approves, Go, List
  <2>2. InHand' = InHand
        BY <2>1 DEF InHand
  <2> HIDE DEF k
  <2>3. at'[r] = "running" /\ \A q \in Runs \ {r} : at'[q] = at[q]
        BY <2>1 DEF RunTypes
  <2>4. Idle' /\ Submitted' /\ HumansDecide'
        BY <1>1, <2>1, <2>3 DEF Idle, Submitted, HumansDecide
  <2>5. LateIsLost'
        BY <1>1, <1>2, <2>1, <2>2, <2>3 DEF LateIsLost
  <2>6. Review'
        BY <1>1, <1>2, <2>1, <2>3 DEF Review
  <2>7. OnItsWay'
        BY <1>1, <1>2, <2>1, <2>3 DEF OnItsWay
  <2>8. OnlyGovernedCallsRun'
        BY <1>1, <1>2, <1>4, <2>1 DEF OnlyGovernedCallsRun, HumansDecide
  <2>9. ListsAreTrue'
        BY <1>1, <1>2, <2>1, <2>2 DEF ListsAreTrue, BookTypes
  <2>10. AuditIsTrue'
    <3> SUFFICES ASSUME NEW j \in Calls PROVE AuditIsTrueOf(j)'
        BY DEF AuditIsTrue
    <3>1. CASE j = k
          BY <1>1, <1>2, <2>1, <2>2, <3>1 DEF AuditIsTrueOf, Refusals
    <3>2. CASE j # k
          BY <1>1, <2>1, <2>2, <3>2 DEF AuditIsTrue, AuditIsTrueOf
    <3> QED  BY <3>1, <3>2
  <2> QED  BY <2>4, <2>5, <2>6, <2>7, <2>8, <2>9, <2>10
<1> QED  BY <1>3, <1>4

\* A human, the clock or a sweep turns decisions; what is said of calls that ran
\* or were denied rests on what humans said, which is said once.
LEMMA QueueKeeps ==
    ASSUME Inv, UNCHANGED <<at, todo, cur, books, about>>, Base',
           \A k \in Calls : /\ decision'[k] = "ABSENT" <=> decision[k] = "ABSENT"
                            /\ decision[k] = "TIMED_OUT" => decision'[k] = "TIMED_OUT"
                            /\ verdict[k] # "none" => verdict'[k] = verdict[k],
           HumansDecide'
    PROVE  Inv'
<1> USE DEF Inv, books
<1>1. Idle' /\ Submitted' /\ LateIsLost' /\ OnItsWay' /\ ListsAreTrue'
      BY DEF Idle, Submitted, LateIsLost, OnItsWay, ListsAreTrue, InHand
<1>2. Review'
      BY DEF Review, Base, TypeOK, HandTypes, BookTypes
<1>3. OnlyGovernedCallsRun'
      BY DEF OnlyGovernedCallsRun, Base, TypeOK, BookTypes
<1>4. AuditIsTrue'
  <2> SUFFICES ASSUME NEW j \in Calls PROVE AuditIsTrueOf(j)'
      BY DEF AuditIsTrue
  <2>1. AuditIsTrueOf(j) /\ InHand' = InHand
        BY DEF AuditIsTrue, InHand
  <2> QED  BY <2>1 DEF AuditIsTrueOf
<1> QED  BY <1>1, <1>2, <1>3, <1>4

LEMMA DecideKeeps ==
    ASSUME Inv, NEW k \in Calls, NEW v \in Queue!Verdicts, Queue!Decide(k, v),
           UNCHANGED <<at, todo, cur, books>>, Base',
           IF v = "TIMED_OUT" THEN UNCHANGED verdict ELSE verdict' = [verdict EXCEPT ![k] = v]
    PROVE  Inv'
<1> USE DEF Inv, Base, TypeOK, QueueTypes
<1>1. /\ decision[k] = "PENDING" /\ verdict[k] = "none" /\ UNCHANGED about
      /\ decision'[k] = v /\ v \in {"APPROVED", "DENIED", "TIMED_OUT"}
      /\ verdict'[k] = IF v = "TIMED_OUT" THEN "none" ELSE v
      BY DEF Queue!Decide, Queue!Verdicts, HumansDecide
<1>2. \A j \in Calls \ {k} : decision'[j] = decision[j] /\ verdict'[j] = verdict[j]
      BY DEF Queue!Decide
<1>3. HumansDecide'
      BY <1>1, <1>2 DEF HumansDecide
<1> QED  BY <1>1, <1>2, <1>3, QueueKeeps

LEMMA SweepKeeps ==
    ASSUME Inv, NEW rows \in SUBSET Calls, Sweep(rows), Base'
    PROVE  Inv'
<1>1. /\ UNCHANGED <<at, todo, cur, books, about, verdict>>
      /\ \A k \in Calls : /\ k \in rows => decision[k] # "ABSENT" /\ decision'[k] = "TIMED_OUT"
                          /\ k \notin rows => decision'[k] = decision[k]
      BY DEF Sweep, Queue!Expire
<1>2. HumansDecide'
      BY <1>1 DEF Inv, HumansDecide
<1> QED  BY <1>1, <1>2, QueueKeeps

LEMMA InvKept == Inv /\ [Next]_vars => Inv'
<1> SUFFICES ASSUME Inv, [Next]_vars PROVE Inv'  OBVIOUS
<1>1. Base' /\ TypeOK
      BY BaseKept DEF Inv, Base
<1>2. CASE UNCHANGED vars
  <2>1. Quiet
        BY <1>2 DEF vars, Quiet, books, queue
  <2> QED  BY <1>1, <2>1, QuietKeeps
<1>3. ASSUME NEW r \in Runs, RunStep(r) \/ SpawnCallbackRaises(r) \/ LoopRaises(r) \/ TokenDies(r)
      PROVE  Inv'
  <2>1. CASE HitlTimeout(r)
    <3>1. cur[r] \in Calls /\ "TIMED_OUT" \in Queue!Verdicts
          BY <1>1, <2>1 DEF HitlTimeout, TypeOK, HandTypes, BookTypes, Queue!Verdicts
    <3> QED  BY <1>1, <2>1, <3>1, DecideKeeps DEF HitlTimeout
  <2>2. ASSUME NEW k \in Calls, PutToGate(r, k) PROVE Inv'
        BY <1>1, <2>2, PutKeeps
  <2>3. ASSUME NEW d \in Answers \cup {Denied}, Dispatch(r, d) PROVE Inv'
        BY <1>1, <2>3, DispatchKeeps, AnswersAreDecisions
  <2>4. CASE HitlAudit(r)
        BY <1>1, <2>4, HitlAuditKeeps
  <2>5. CASE WaitReturns(r)
        BY <1>1, <2>5, WaitReturnsKeeps
  <2>6. CASE ToolReturns(r)
        BY <1>1, <2>6, ToolReturnsKeeps
  <2>7. CASE \/ Spawn(r) \/ SpawnDenied(r) \/ SpawnCallbackRaises(r) \/ Finally(r) \/ TokenDies(r)
             \/ LoopRaises(r) \/ CheckBudget(r) \/ EndTurn(r)
             \/ \E status \in Statuses : LLMFails(r, status)
             \/ \E finish \in Reasons, calls \in SUBSET Calls, n \in 0..MaxTokens :
                   LLMResponds(r, finish, calls, n)
    <3>1. Quiet
          BY <1>1, <2>7, QuietSteps
    <3> QED  BY <1>1, <3>1, QuietKeeps
  <2> QED  BY <1>3, <2>1, <2>2, <2>3, <2>4, <2>5, <2>6, <2>7 DEF RunStep, Reasons
<1>4. ASSUME NEW k \in Calls, NEW v \in Queue!Verdicts, HumanDecides(k, v) PROVE Inv'
      BY <1>1, <1>4, DecideKeeps DEF HumanDecides
<1>5. ASSUME NEW rows \in SUBSET Calls, Sweep(rows) PROVE Inv'
      BY <1>1, <1>5, SweepKeeps
<1> QED  BY <1>2, <1>3, <1>4, <1>5 DEF Next

\* Whatever the policies, the model, the humans and other runs do, and whenever
\* tokens die: only what the gate let through, or a human approved, runs.
THEOREM OnlyGoverned == Spec => []OnlyGovernedCallsRun
<1>1. Inv => OnlyGovernedCallsRun
      BY DEF Inv
<1> QED  BY InvInit, InvKept, <1>1, PTL DEF Spec

\* The audit log is true, whichever writes fail and wherever runs are aborted.
THEOREM AuditTrue == Spec => []AuditIsTrue
<1>1. Inv => AuditIsTrue
      BY DEF Inv
<1> QED  BY InvInit, InvKept, <1>1, PTL DEF Spec

-----------------------------------------------------------------------------
(* Runs implement the abstract governance of calls.                        *)

\* What the states of a call are made of.
LEMMA PermissionOf ==
    ASSUME Inv, NEW k \in Calls
    PROVE  /\ decision[k] # "ABSENT" => k \in DOMAIN says /\ Route(says[k]) = "hitl"
           /\ k \notin DOMAIN says => /\ Permission(k) = IF k \in late THEN "barred" ELSE "new"
                                      /\ k \notin invoked /\ decision[k] = "ABSENT"
           /\ decision[k] = "PENDING" => Permission(k) = "review" /\ k \notin invoked
           /\ decision[k] = "APPROVED" => Permission(k) = "approved"
           /\ decision[k] \in {"DENIED", "TIMED_OUT"} =>
                  Permission(k) = IF k \in invoked THEN "approved" ELSE "refused"
<1> USE DEF Inv, Base, TypeOK
<1>1. k \in DOMAIN says => says[k] \in Decisions
      BY DEF BookTypes
<1>2. decision[k] # "ABSENT" => k \in DOMAIN says /\ Route(says[k]) = "hitl"
      BY DEF Submitted, Route
<1>3. k \notin DOMAIN says => k \notin invoked
      BY DEF BookTypes
<1>4. decision[k] = "PENDING" => k \notin invoked
      BY <1>2 DEF OnlyGovernedCallsRun, HumansDecide, Submitted
<1> QED  BY <1>2, <1>3, <1>4 DEF Permission

\* Nothing changed for any call.
LEMMA NoTurn ==
    ASSUME \A k \in Calls : Permission(k)' = Permission(k), UNCHANGED invoked
    PROVE  [Governance!Next]_(Governance!vars)
BY DEF Governance!vars

\* One call took a turn.
LEMMA OneTurn ==
    ASSUME NEW k \in Calls, NEW from, NEW to,
           \A j \in Calls \ {k} : Permission(j)' = Permission(j),
           Permission(k) \in from, Permission(k)' = to
    PROVE  Governance!Turn(k, from, to)
<1>1. [j \in Calls |-> Permission(j)]' = [[j \in Calls |-> Permission(j)] EXCEPT ![k] = to]
      OBVIOUS
<1> QED  BY <1>1 DEF Governance!Turn

LEMMA PutIsGoverned ==
    ASSUME Inv, Inv', NEW r \in Runs, NEW k \in Calls, PutToGate(r, k)
    PROVE  [Governance!Next]_(Governance!vars)
<1>1. /\ k \notin DOMAIN says /\ k \notin late /\ k \notin invoked
      /\ UNCHANGED <<says, invoked, decision>>
      /\ late' = late \/ late' = late \cup {k}
      BY DEF PutToGate, queue, Inv, Base, TypeOK, BookTypes, Apart, LateIsLost
<1>2. \A j \in Calls \ {k} : Permission(j)' = Permission(j)
      BY <1>1 DEF Permission
<1>3. CASE late' = late
  <2>1. \A j \in Calls : Permission(j)' = Permission(j)
        BY <1>1, <1>3 DEF Permission
  <2> QED  BY <1>1, <2>1, NoTurn
<1>4. CASE late' = late \cup {k}
  <2>1. Permission(k) \in {"new"} /\ Permission(k)' = "barred"
        BY <1>1, <1>4 DEF Permission
  <2>2. Governance!Bar(k)
        BY <1>1, <1>2, <2>1, OneTurn DEF Governance!Bar
  <2> QED  BY <2>2 DEF Governance!Next
<1> QED  BY <1>1, <1>3, <1>4

LEMMA DispatchIsGoverned ==
    ASSUME Inv, Inv', NEW r \in Runs, NEW d \in Decisions, Dispatch(r, d)
    PROVE  [Governance!Next]_(Governance!vars)
<1>0. PICK k \in Calls : k = cur[r]
      BY DEF Dispatch, Inv, Base, TypeOK, HandTypes
<1>1. /\ k \notin DOMAIN says /\ k \notin invoked /\ decision[k] = "ABSENT"
      /\ at[r] = "refusing" => d = Denied
      /\ k \in late => at[r] = "refusing"
      /\ DOMAIN says' = DOMAIN says \cup {k} /\ says'[k] = d
      /\ \A j \in DOMAIN says : says'[j] = says[j]
      /\ UNCHANGED late
      BY <1>0 DEF Dispatch, Inv, Base, TypeOK, HandTypes, BookTypes, LateIsLost, Submitted
<1>2. Permission(k) = IF k \in late THEN "barred" ELSE "new"
      BY <1>1 DEF Permission
<1>3. \/ /\ Route(d) \in {"block", "soft_deny"} \/ (Route(d) = "hitl" /\ r \notin WithQueue)
         /\ UNCHANGED <<invoked, decision>>
      \/ Route(d) = "execute" /\ invoked' = invoked \cup {k} /\ UNCHANGED decision
      \/ /\ Route(d) = "hitl" /\ decision' = [decision EXCEPT ![k] = "PENDING"]
         /\ UNCHANGED invoked
      BY <1>0 DEF Dispatch, queue, Queue!Request
<1>4. k \in late => Route(d) = "block"
      BY <1>1 DEF Route, Denied
<1>5. \A j \in Calls \ {k} : decision'[j] = decision[j] /\ (j \in invoked' <=> j \in invoked)
      BY <1>3 DEF Inv, Base, TypeOK, QueueTypes
<1>6. \A j \in Calls \ {k} : Permission(j)' = Permission(j)
      BY <1>1, <1>5 DEF Permission
<1>7. CASE /\ Route(d) \in {"block", "soft_deny", "hitl"}
           /\ UNCHANGED <<invoked, decision>>
  <2>1. Permission(k)' = "refused"
        BY <1>1, <1>7 DEF Permission
  <2>2. Permission(k) \in {"new", "barred", "review"}
        BY <1>2
  <2>3. Governance!Refuse(k)
        BY <1>1, <1>6, <1>7, <2>1, <2>2, OneTurn DEF Governance!Refuse
  <2> QED  BY <1>1, <2>3 DEF Governance!Next
<1>8. CASE Route(d) = "execute" /\ invoked' = invoked \cup {k}
  <2>1. Permission(k) \in {"new"} /\ Permission(k)' = "cleared"
        BY <1>1, <1>2, <1>4, <1>8 DEF Permission
  <2>2. Governance!Clear(k)
        BY <1>1, <1>6, <1>8, <2>1, OneTurn DEF Governance!Clear
  <2> QED  BY <1>1, <2>2 DEF Governance!Next
<1>9. CASE /\ Route(d) = "hitl" /\ decision' = [decision EXCEPT ![k] = "PENDING"]
           /\ UNCHANGED invoked
  <2>1. decision'[k] = "PENDING"
        BY <1>1, <1>9 DEF Inv, Base, TypeOK, QueueTypes
  <2>2. Permission(k) \in {"new"} /\ Permission(k)' = "review"
        BY <1>1, <1>2, <1>4, <1>9, <2>1 DEF Permission
  <2>3. Governance!Ask(k)
        BY <1>1, <1>6, <1>9, <2>2, OneTurn DEF Governance!Ask
  <2> QED  BY <1>1, <2>3 DEF Governance!Next
<1> QED  BY <1>3, <1>7, <1>8, <1>9

LEMMA WaitIsGoverned ==
    ASSUME Inv, Inv', NEW r \in Runs, WaitReturns(r)
    PROVE  [Governance!Next]_(Governance!vars)
<1>0. PICK k \in Calls : k = cur[r]
      BY DEF WaitReturns, Inv, Base, TypeOK, HandTypes, BookTypes
<1>1. k \notin invoked /\ UNCHANGED <<says, late, decision>>
      BY <1>0 DEF WaitReturns, Queue!Answer, Inv, Review
<1>2. \/ UNCHANGED invoked
      \/ decision[k] = "APPROVED" /\ invoked' = invoked \cup {k}
      BY <1>0 DEF WaitReturns, Approves
<1>3. CASE UNCHANGED invoked
  <2>1. \A j \in Calls : Permission(j)' = Permission(j)
        BY <1>1, <1>3 DEF Permission
  <2> QED  BY <1>3, <2>1, NoTurn
<1>4. CASE decision[k] = "APPROVED" /\ invoked' = invoked \cup {k}
  <2>1. Permission(k) = "approved" /\ Permission(k)' = "approved"
        BY <1>1, <1>4, PermissionOf DEF Permission
  <2>2. \A j \in Calls : Permission(j)' = Permission(j)
        BY <1>1, <1>4, <2>1 DEF Permission
  <2>3. [j \in Calls |-> Permission(j)]' = [j \in Calls |-> Permission(j)]
        BY <2>2
  <2>4. Governance!Run(k)
        BY <1>1, <1>4, <2>1, <2>3 DEF Governance!Run
  <2> QED  BY <1>1, <2>4 DEF Governance!Next
<1> QED  BY <1>2, <1>3, <1>4

LEMMA DecideIsGoverned ==
    ASSUME Inv, Inv', NEW k \in Calls, NEW v \in Queue!Verdicts, Queue!Decide(k, v), UNCHANGED books
    PROVE  [Governance!Next]_(Governance!vars)
<1>1. /\ decision[k] = "PENDING" /\ decision'[k] = v /\ v \in {"APPROVED", "DENIED", "TIMED_OUT"}
      /\ \A j \in Calls \ {k} : decision'[j] = decision[j]
      /\ UNCHANGED <<says, late, invoked>>
      BY DEF Queue!Decide, Queue!Verdicts, books, Inv, Base, TypeOK, QueueTypes
<1>2. \A j \in Calls \ {k} : Permission(j)' = Permission(j)
      BY <1>1 DEF Permission
<1>3. Permission(k) = "review" /\ k \notin invoked /\ UNCHANGED invoked
      BY <1>1, PermissionOf
<1>4. Permission(k)' = IF v = "APPROVED" THEN "approved" ELSE "refused"
  <2>1. k \in DOMAIN says /\ Route(says[k]) = "hitl"
        BY <1>1, PermissionOf
  <2> QED  BY <1>1, <1>3, <2>1 DEF Permission
<1>5. CASE v = "APPROVED"
  <2>1. Governance!Approve(k)
        BY <1>2, <1>3, <1>4, <1>5, OneTurn DEF Governance!Approve
  <2> QED  BY <2>1 DEF Governance!Next
<1>6. CASE v # "APPROVED"
  <2>1. Governance!Refuse(k)
        BY <1>2, <1>3, <1>4, <1>6, OneTurn DEF Governance!Refuse
  <2> QED  BY <2>1 DEF Governance!Next
<1> QED  BY <1>5, <1>6

\* What a sweep takes back was not started, and what was started stays approved.
LEMMA SweepIsGoverned ==
    ASSUME Inv, Inv', NEW rows \in SUBSET Calls, Sweep(rows)
    PROVE  [Governance!Next]_(Governance!vars)
<1> DEFINE back == {k \in rows : Permission(k) \in {"review", "approved"} /\ k \notin invoked}
<1>1. /\ UNCHANGED <<says, late, invoked>>
      /\ \A k \in Calls : /\ k \in rows => decision[k] # "ABSENT" /\ decision'[k] = "TIMED_OUT"
                          /\ k \notin rows => decision'[k] = decision[k]
      BY DEF Sweep, Queue!Expire, books
<1>2. ASSUME NEW k \in Calls
      PROVE  Permission(k)' = IF k \in back THEN "refused" ELSE Permission(k)
  <2>1. CASE k \notin rows
        BY <1>1, <2>1 DEF Permission
  <2>2. CASE k \in rows
    <3>1. decision[k] \in {"PENDING", "APPROVED", "DENIED", "TIMED_OUT"}
          BY <1>1, <2>2 DEF Inv, Base, TypeOK, QueueTypes, Queue!Verdicts
    <3>2. Permission(k)' = IF k \in invoked THEN "approved" ELSE "refused"
      <4>1. k \in DOMAIN says /\ Route(says[k]) = "hitl"
            BY <3>1, PermissionOf
      <4> QED  BY <1>1, <2>2, <4>1 DEF Permission
    <3>3. /\ decision[k] = "PENDING" => Permission(k) = "review" /\ k \notin invoked
          /\ decision[k] = "APPROVED" => Permission(k) = "approved"
          /\ decision[k] \in {"DENIED", "TIMED_OUT"} =>
                 Permission(k) = IF k \in invoked THEN "approved" ELSE "refused"
          BY PermissionOf
    <3> QED  BY <2>2, <3>1, <3>2, <3>3
  <2> QED  BY <2>1, <2>2
<1>3. Governance!Withdraw(back)
  <2>1. [k \in Calls |-> Permission(k)]' =
            [k \in Calls |-> IF k \in back THEN "refused" ELSE [j \in Calls |-> Permission(j)][k]]
        BY <1>2
  <2>2. \A k \in back : [j \in Calls |-> Permission(j)][k] \in {"review", "approved"} /\ k \notin invoked
        OBVIOUS
  <2> HIDE DEF back
  <2> QED  BY <1>1, <2>1, <2>2 DEF Governance!Withdraw
<1>4. back \in SUBSET Calls
      OBVIOUS
<1> QED  BY <1>3, <1>4 DEF Governance!Next

\* Whatever the policies, the model, the humans, the clock and an expiry task do,
\* a run's calls are governed: a refusal is final, only what is still cleared or
\* approved is started, and that once.
THEOREM RunsAreGoverned == Spec => ImplementsGovernance
<1>1. Init => Governance!Init
      BY DEF Init, Queue!Init, Governance!Init, Permission
<1>2. Inv /\ Inv' /\ [Next]_vars => [Governance!Next]_(Governance!vars)
  <2> SUFFICES ASSUME Inv, Inv', [Next]_vars PROVE [Governance!Next]_(Governance!vars)
      OBVIOUS
  <2>1. CASE UNCHANGED <<says, late, invoked, decision>>
    <3>1. \A k \in Calls : Permission(k)' = Permission(k)
          BY <2>1 DEF Permission
    <3> QED  BY <2>1, <3>1, NoTurn
  <2>2. CASE UNCHANGED vars
        BY <2>1, <2>2 DEF vars, books, queue
  <2>3. ASSUME NEW r \in Runs,
               RunStep(r) \/ SpawnCallbackRaises(r) \/ LoopRaises(r) \/ TokenDies(r)
        PROVE  [Governance!Next]_(Governance!vars)
    <3>1. CASE HitlTimeout(r)
      <4>1. cur[r] \in Calls /\ "TIMED_OUT" \in Queue!Verdicts
            BY <3>1 DEF HitlTimeout, Inv, Base, TypeOK, HandTypes, BookTypes, Queue!Verdicts
      <4> QED  BY <3>1, <4>1, DecideIsGoverned DEF HitlTimeout
    <3>2. ASSUME NEW k \in Calls, PutToGate(r, k) PROVE [Governance!Next]_(Governance!vars)
          BY <3>2, PutIsGoverned
    <3>3. ASSUME NEW d \in Answers \cup {Denied}, Dispatch(r, d)
          PROVE  [Governance!Next]_(Governance!vars)
          BY <3>3, DispatchIsGoverned, AnswersAreDecisions
    <3>4. CASE WaitReturns(r)
          BY <3>4, WaitIsGoverned
    <3>5. CASE HitlAudit(r) \/ ToolReturns(r)
          BY <2>1, <3>5 DEF HitlAudit, ToolReturns, queue
    <3>6. CASE \/ Spawn(r) \/ SpawnDenied(r) \/ SpawnCallbackRaises(r) \/ Finally(r) \/ TokenDies(r)
               \/ LoopRaises(r) \/ CheckBudget(r) \/ EndTurn(r)
               \/ \E status \in Statuses : LLMFails(r, status)
               \/ \E finish \in Reasons, calls \in SUBSET Calls, n \in 0..MaxTokens :
                     LLMResponds(r, finish, calls, n)
      <4>1. Quiet
            BY <3>6, QuietSteps DEF Inv, Base
      <4> QED  BY <2>1, <4>1 DEF Quiet
    <3> QED  BY <2>3, <3>1, <3>2, <3>3, <3>4, <3>5, <3>6 DEF RunStep, Reasons
  <2>4. ASSUME NEW k \in Calls, NEW v \in Queue!Verdicts, HumanDecides(k, v)
        PROVE  [Governance!Next]_(Governance!vars)
        BY <2>4, DecideIsGoverned DEF HumanDecides
  <2>5. ASSUME NEW rows \in SUBSET Calls, Sweep(rows) PROVE [Governance!Next]_(Governance!vars)
        BY <2>5, SweepIsGoverned
  <2> QED  BY <2>2, <2>3, <2>4, <2>5 DEF Next
<1> QED  BY <1>1, <1>2, InvInit, InvKept, PTL DEF Spec, Governance!Spec, ImplementsGovernance

-----------------------------------------------------------------------------
(* The conversation.                                                       *)

\* The runs whose clients are of one provider, and find what they look for.
Same(r) == /\ client[r].main # "google"
           /\ r \in WithFallback => client[r].fallback = client[r].main

Working == {"tools", "asking", "refusing", "queued", "waiting", "running"}

\* The last message asks for some calls, and nothing before it is unanswered.
Asks(r, calls) == \E h \in Seq(Messages) :
    /\ Accepts(client[r].main, h)
    /\ history[r] = Append(h, Assistant(client[r].main, calls))

\* The calls of a turn: dispatched, not yet dispatched, in hand.
OfTurn(r) == pairs[r] \cup todo[r] \cup (IF at[r] = "tools" THEN {} ELSE {cur[r]})

Answered(r) ==
    /\ at[r] \in {"new", "calling", "budget"} =>
           Accepts(client[r].main, history[r]) /\ pairs[r] = {}
    /\ at[r] \in Working => IF stop[r] = "tool_use" THEN Asks(r, OfTurn(r))
                                                   ELSE Accepts(client[r].main, history[r])

Talk == /\ onFallback \subseteq WithFallback
        /\ \A r \in Runs : Same(r) => Answered(r)

LEMMA AnswersAreAccepted ==
    ASSUME NEW p \in Providers, NEW h \in Seq(Messages), NEW calls \in SUBSET Calls, Accepts(p, h)
    PROVE  Accepts(p, Append(Append(h, Assistant(p, calls)), Results(p, calls)))
<1> DEFINE g == Append(Append(h, Assistant(p, calls)), Results(p, calls))
<1>1. Assistant(p, calls) \in Messages /\ Results(p, calls) \in Messages
      BY DEF Messages, Assistant, Results
<1>2. /\ DOMAIN h = 1..Len(h) /\ DOMAIN g = 1..(Len(h) + 2) /\ Len(h) \in Nat
      /\ \A i \in 1..Len(h) : g[i] = h[i]
      /\ g[Len(h) + 1] = Assistant(p, calls) /\ g[Len(h) + 2] = Results(p, calls)
      BY <1>1
<1> HIDE DEF g
<1>3. ASSUME NEW i \in 1..Len(h)
      PROVE  /\ g[i].shape = p
             /\ g[i].role = "assistant" => /\ i + 1 \in DOMAIN g
                                           /\ g[i + 1].role = "tool"
                                           /\ g[i + 1].calls = g[i].calls
      BY <1>2 DEF Accepts
<1>4. /\ g[Len(h) + 1].shape = p /\ g[Len(h) + 2].shape = p
      /\ g[Len(h) + 2].role = "tool" /\ g[Len(h) + 2].calls = g[Len(h) + 1].calls
      BY <1>2 DEF Assistant, Results
<1>5. Accepts(p, g)
  <2> SUFFICES ASSUME NEW i \in 1..(Len(h) + 2)
               PROVE  /\ g[i].shape = p
                      /\ g[i].role = "assistant" => /\ i + 1 \in DOMAIN g
                                                    /\ g[i + 1].role = "tool"
                                                    /\ g[i + 1].calls = g[i].calls
      BY <1>2 DEF Accepts
  <2>1. CASE i \in 1..Len(h)
        BY <1>3, <2>1
  <2>2. CASE i = Len(h) + 1
        BY <1>2, <1>4, <2>2
  <2>3. CASE i = Len(h) + 2
        BY <1>4, <2>3
  <2> QED  BY <1>2, <2>1, <2>2, <2>3
<1> QED  BY <1>5 DEF g

\* What the client of a provider makes of its own responses and of results.
LEMMA OwnMessages ==
    ASSUME NEW p \in Providers \ {"google"}, NEW calls
    PROVE  /\ AssistantMessage(p, p, calls) = Assistant(p, calls)
           /\ ResultMessages(p, calls) = Results(p, calls)
<1>1. CASE p = "anthropic"
  <2>1. AssistantMessage(p, p, calls) = AnthropicAssistant(p, calls)
        BY <1>1, Zenon DEF AssistantMessage
  <2>2. ResultMessages(p, calls) = AnthropicResults(calls)
        BY <1>1, Zenon DEF ResultMessages
  <2> QED  BY <1>1, <2>1, <2>2 DEF AnthropicAssistant, AnthropicResults
<1>2. CASE p = "openai"
  <2>1. AssistantMessage(p, p, calls) = OpenAIAssistant(p, calls)
        BY <1>2, Zenon DEF AssistantMessage
  <2>2. ResultMessages(p, calls) = OpenAIResults(calls)
        BY <1>2, Zenon DEF ResultMessages
  <2> QED  BY <1>2, <2>1, <2>2 DEF OpenAIAssistant, OpenAIResults
<1> QED  BY <1>1, <1>2 DEF Providers

LEMMA TalkInit == Init => Talk
BY DEF Init, Talk, Answered, Working, Accepts

LEMMA AskedIsMain ==
    ASSUME Talk, TypeOK, NEW r \in Runs, Same(r)
    PROVE  Asked(r) = client[r].main /\ client[r].main \in Providers \ {"google"}
BY ClientsKnown DEF Talk, Same, Asked

\* The other runs are not concerned.
Only(r) == \A q \in Runs \ {r} : /\ at'[q] = at[q] /\ history'[q] = history[q]
                                 /\ pairs'[q] = pairs[q] /\ todo'[q] = todo[q]
                                 /\ cur'[q] = cur[q] /\ stop'[q] = stop[q]

LEMMA TalkFrame ==
    ASSUME Talk, NEW r \in Runs, Only(r), client' = client, onFallback' \subseteq WithFallback,
           Same(r) => Answered(r)'
    PROVE  Talk'
<1>1. ASSUME NEW q \in Runs \ {r}, Same(q) PROVE Answered(q)'
      BY <1>1 DEF Talk, Only, Answered, Asks, OfTurn
<1> QED  BY <1>1 DEF Talk, Same

LEMMA TalkKept == TypeOK /\ Idle /\ Talk /\ [Next]_vars => Talk'
<1> SUFFICES ASSUME TypeOK, Idle, Talk, [Next]_vars PROVE Talk'  OBVIOUS
<1> USE DEF TypeOK, RunTypes, WorkTypes, Go, Leave, llm, talk
<1>1. ASSUME NEW r \in Runs,
             UNCHANGED <<history, pairs, todo, cur, stop, client>>,
             onFallback' \subseteq WithFallback,
             \A q \in Runs \ {r} : at'[q] = at[q],
             \/ at'[r] = at[r] \/ at'[r] \in {"closing", "ended"}
             \/ at[r] = "new" /\ at'[r] = "calling"
             \/ at[r] \in Working \ {"tools"} /\ at'[r] \in Working \ {"tools"}
      PROVE  Talk'
  <2>1. Only(r)
        BY <1>1 DEF Only
  <2>2. Same(r) => Answered(r)'
        BY <1>1 DEF Talk, Answered, Asks, OfTurn, Working
  <2> QED  BY <1>1, <2>1, <2>2, TalkFrame
<1>2. ASSUME NEW r \in Runs, Spawn(r) \/ SpawnDenied(r) \/ SpawnCallbackRaises(r) \/ Finally(r)
                              \/ TokenDies(r)
      PROVE  Talk'
      BY <1>1, <1>2 DEF Spawn, SpawnDenied, SpawnCallbackRaises, Finally, TokenDies, Talk
<1>3. ASSUME NEW r \in Runs, LoopRaises(r) PROVE Talk'
      BY <1>1, <1>3 DEF LoopRaises, Talk
<1>4. ASSUME NEW r \in Runs, NEW status \in Statuses, LLMFails(r, status) PROVE Talk'
      BY <1>1, <1>4 DEF LLMFails, Talk
<1>5. ASSUME NEW r \in Runs, NEW finish, NEW calls, NEW n, LLMResponds(r, finish, calls, n)
      PROVE  Talk'
  <2>1. /\ at[r] = "calling" /\ at' = [at EXCEPT ![r] = "budget"]
        /\ UNCHANGED <<history, pairs, cur, client, onFallback>>
        /\ \A q \in Runs \ {r} : todo'[q] = todo[q] /\ stop'[q] = stop[q]
        BY <1>5 DEF LLMResponds
  <2>2. Only(r)
        BY <2>1 DEF Only
  <2>3. Same(r) => Answered(r)'
        BY <2>1 DEF Talk, Answered, Working
  <2> QED  BY <2>1, <2>2, <2>3, TalkFrame DEF Talk
<1>6. ASSUME NEW r \in Runs, CheckBudget(r) PROVE Talk'
  <2>1. CASE at'[r] = "closing" /\ UNCHANGED history
        BY <1>1, <1>6, <2>1 DEF CheckBudget, Talk
  <2>2. CASE /\ at' = [at EXCEPT ![r] = "tools"]
             /\ IF stop[r] = "tool_use"
                THEN Say(r, AssistantMessage(client[r].main, Asked(r), todo[r]))
                ELSE UNCHANGED history
    <3>1. at[r] = "budget" /\ UNCHANGED <<pairs, todo, cur, stop, client, onFallback>>
          BY <1>6 DEF CheckBudget
    <3>2. Only(r)
          BY <2>2, <3>1 DEF Only, Say
    <3>3. ASSUME Same(r) PROVE Answered(r)'
      <4>1. Accepts(client[r].main, history[r]) /\ pairs[r] = {}
            BY <3>1, <3>3 DEF Talk, Answered
      <4>2. CASE stop[r] = "tool_use"
        <5>1. AssistantMessage(client[r].main, Asked(r), todo[r]) = Assistant(client[r].main, todo[r])
              BY <3>3, AskedIsMain, OwnMessages
        <5>2. history'[r] = Append(history[r], Assistant(client[r].main, todo[r]))
              BY <2>2, <4>2, <5>1 DEF Say
        <5>3. OfTurn(r)' = todo[r]
              BY <2>2, <3>1, <4>1 DEF OfTurn
        <5> QED  BY <2>2, <3>1, <4>1, <4>2, <5>2, <5>3 DEF Answered, Asks, Working
      <4>3. CASE stop[r] # "tool_use"
            BY <2>2, <3>1, <4>1, <4>3 DEF Answered, Working
      <4> QED  BY <4>2, <4>3
    <3> QED  BY <3>1, <3>2, <3>3, TalkFrame DEF Talk
  <2> QED  BY <1>6, <2>1, <2>2 DEF CheckBudget
<1>7. ASSUME NEW r \in Runs, EndTurn(r) PROVE Talk'
  <2>1. /\ at[r] = "tools" /\ todo[r] = {} /\ pairs' = [pairs EXCEPT ![r] = {}]
        /\ onFallback' = onFallback \ {r} /\ UNCHANGED <<stop, client, todo, cur>>
        /\ \E place \in {"calling", "closing"} : at' = [at EXCEPT ![r] = place]
        /\ IF stop[r] = "tool_use" THEN Say(r, ResultMessages(client[r].main, pairs[r]))
                                   ELSE UNCHANGED history
        BY <1>7 DEF EndTurn
  <2>2. Only(r)
        BY <2>1 DEF Only, Say
  <2>3. ASSUME Same(r) PROVE Answered(r)'
    <3>1. Accepts(client[r].main, history'[r])
      <4>1. CASE stop[r] = "tool_use"
        <5>1. OfTurn(r) = pairs[r]
              BY <2>1 DEF OfTurn
        <5>2. PICK h \in Seq(Messages) :
                 /\ Accepts(client[r].main, h)
                 /\ history[r] = Append(h, Assistant(client[r].main, pairs[r]))
              BY <2>1, <2>3, <4>1, <5>1 DEF Talk, Answered, Asks, Working
        <5>3. history'[r] = Append(history[r], Results(client[r].main, pairs[r]))
              BY <2>1, <2>3, <4>1, AskedIsMain, OwnMessages DEF Say
        <5> QED  BY <2>3, <5>2, <5>3, AskedIsMain, AnswersAreAccepted
      <4>2. CASE stop[r] # "tool_use"
            BY <2>1, <2>3, <4>2 DEF Talk, Answered, Working
      <4> QED  BY <4>1, <4>2
    <3>2. at'[r] \in {"calling", "closing"} /\ pairs'[r] = {}
          BY <2>1
    <3> QED  BY <2>1, <3>1, <3>2 DEF Answered, Working
  <2> QED  BY <2>1, <2>2, <2>3, TalkFrame DEF Talk
<1>8. ASSUME NEW r \in Runs, Only(r), UNCHANGED <<history, stop, client, onFallback>>,
             at[r] \in Working, at'[r] \in Working, OfTurn(r)' = OfTurn(r)
      PROVE  Talk'
  <2>1. Same(r) => Answered(r)'
        BY <1>8 DEF Talk, Answered, Asks, Working
  <2> QED  BY <1>8, <2>1, TalkFrame DEF Talk
<1>9. ASSUME NEW r \in Runs, NEW k \in Calls, PutToGate(r, k) PROVE Talk'
  <2>1. /\ at[r] = "tools" /\ k \in todo[r] /\ todo' = [todo EXCEPT ![r] = @ \ {k}]
        /\ cur' = [cur EXCEPT ![r] = k] /\ UNCHANGED <<history, pairs, stop, client, onFallback>>
        /\ \E place \in {"asking", "refusing"} : at' = [at EXCEPT ![r] = place]
        BY <1>9 DEF PutToGate
  <2>2. OfTurn(r)' = OfTurn(r) /\ Only(r)
        BY <2>1 DEF OfTurn, Only
  <2> QED  BY <1>8, <2>1, <2>2 DEF Working
<1>10. ASSUME NEW r \in Runs, at[r] \in Working \ {"tools"},
              at' = [at EXCEPT ![r] = "tools"], cur' = [cur EXCEPT ![r] = NoCall],
              pairs' = [pairs EXCEPT ![r] = @ \cup {cur[r]}],
              UNCHANGED <<history, stop, client, onFallback, todo>>
       PROVE  Talk'
  <2>1. OfTurn(r)' = OfTurn(r) /\ Only(r)
        BY <1>10 DEF OfTurn, Only
  <2> QED  BY <1>8, <1>10, <2>1 DEF Working
<1>11. ASSUME NEW r \in Runs, NEW d, Dispatch(r, d) PROVE Talk'
  <2>1. /\ at[r] \in {"asking", "refusing"} /\ UNCHANGED <<history, stop, client, onFallback, todo>>
        /\ \/ NextCall(r)
           \/ \E place \in {"running", "queued"} : at' = [at EXCEPT ![r] = place] /\ UNCHANGED <<cur, pairs>>
        BY <1>11 DEF Dispatch
  <2>2. CASE NextCall(r)
        BY <1>10, <2>1, <2>2 DEF NextCall, Working
  <2>3. CASE \E place \in {"running", "queued"} : at' = [at EXCEPT ![r] = place] /\ UNCHANGED <<cur, pairs>>
        BY <1>1, <2>1, <2>3 DEF Working, Talk
  <2> QED  BY <2>1, <2>2, <2>3
<1>12. ASSUME NEW r \in Runs, HitlAudit(r) PROVE Talk'
       BY <1>1, <1>12 DEF HitlAudit, Working, Talk
<1>13. ASSUME NEW r \in Runs, WaitReturns(r) PROVE Talk'
  <2>1. CASE NextCall(r)
        BY <1>10, <1>13, <2>1 DEF WaitReturns, NextCall, Working
  <2>2. CASE at' = [at EXCEPT ![r] = "running"] /\ UNCHANGED <<cur, pairs>>
        BY <1>1, <1>13, <2>2 DEF WaitReturns, Working, Talk
  <2> QED  BY <1>13, <2>1, <2>2 DEF WaitReturns
<1>14. ASSUME NEW r \in Runs, ToolReturns(r) PROVE Talk'
       BY <1>10, <1>14 DEF ToolReturns, NextCall, Working
<1>15. ASSUME NEW r \in Runs, HitlTimeout(r) PROVE Talk'
       BY <1>1, <1>15 DEF HitlTimeout, Talk
<1>16. CASE UNCHANGED <<at, history, pairs, todo, cur, stop, client, onFallback>>
       BY <1>16 DEF Talk, Same, Answered, Asks, OfTurn
<1>17. ASSUME NEW k \in Calls, NEW v \in Queue!Verdicts, HumanDecides(k, v) PROVE Talk'
       BY <1>16, <1>17 DEF HumanDecides
<1>18. CASE UNCHANGED vars
       BY <1>16, <1>18 DEF vars
<1>19. ASSUME NEW rows \in SUBSET Calls, Sweep(rows) PROVE Talk'
       BY <1>16, <1>19 DEF Sweep
<1> HIDE DEF TypeOK, RunTypes, WorkTypes
<1> QED
    BY <1>2, <1>3, <1>4, <1>5, <1>6, <1>7, <1>9, <1>11, <1>12, <1>13, <1>14, <1>15, <1>17, <1>18,
       <1>19
       DEF Next, RunStep

\* The result of a run tells what happened, and its conversation is one that
\* the provider takes, however calls end and whatever fails in between.
THEOREM ReportTrue == Spec => []ReportIsTrue
<1>1. Inv => TypeOK /\ Idle
      BY DEF Inv, Base
<1>2. Inv /\ Talk => ReportIsTrue
  <2> SUFFICES ASSUME Inv, Talk PROVE ReportIsTrue  OBVIOUS
  <2>1. ASSUME NEW r \in Runs, at[r] = "calling", Same(r) PROVE Accepts(Asked(r), history[r])
        BY <1>1, <2>1, AskedIsMain DEF Talk, Answered
  <2> QED  BY <2>1 DEF Inv, ListsAreTrue, ReportIsTrue, Same
<1> QED  BY InvInit, InvKept, TalkInit, TalkKept, <1>1, <1>2, PTL DEF Spec
=============================================================================
