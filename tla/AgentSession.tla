----------------------------- MODULE AgentSession -----------------------------
(***************************************************************************)
(* AgentSession.run_async (src/kitelogik/agents/session.py): the governed  *)
(* loop of an agent, composed with the gate's credential check             *)
(* (tether/gate.py), the tokens of the credential broker, the approval     *)
(* queue and the audit log.                                                *)
(*                                                                         *)
(* A run is one AgentSession object.  Several runs share the event loop,   *)
(* the broker and the queue, and may share a session id: a delegated agent *)
(* started under its parent's id, or a second session object made for the  *)
(* same conversation.  Code between two awaits is one step.                *)
(*                                                                         *)
(* The queue is the abstract DecisionRegister with an expiry task, which   *)
(* HITLQueue implements.                                                   *)
(* The policy engine may give any of Answers, differently each time; one   *)
(* that cannot be reached denies.  A token is live, or dead (revoked or    *)
(* expired).  A tool call is an id; a fresh one is used for every call the *)
(* model asks for, as it is for the approval request made for it.          *)
(***************************************************************************)
EXTENDS LLMClients, FiniteSets

CONSTANTS Runs,            \* AgentSession objects
          SessionIds,      \* context.session_id values
          Calls,           \* tool calls the model may ask for
          NoCall,          \* no tool call
          MaxTurns,        \* max_iterations
          MaxRetries,      \* retry_config.max_retries
          WithFallback,    \* the runs with a fallback_llm_client
          WithQueue,       \* the runs with a hitl_queue
          WithBudget,      \* the runs whose context has budget_total_tokens
          Budget,          \* its value
          MaxTokens,       \* bound on the tokens one response may use
          AuditMayFail,    \* the calls for which writing an audit record may raise
          Answers,         \* the decisions the policy engine may answer
          Clients,         \* what self._llm and the fallback may be: pairs of providers
          CallbackMayRaise \* on_event may raise when told of the token

\* PolicyDecision, as far as it steers the dispatch.
Decisions == [allow : BOOLEAN, deny : BOOLEAN, requires_hitl : BOOLEAN]
NoDecision == [allow |-> FALSE, deny |-> FALSE, requires_hitl |-> FALSE]
Denied == [allow |-> FALSE, deny |-> TRUE, requires_hitl |-> FALSE]

ASSUME ConstantsAssumption ==
    /\ NoCall \notin Calls
    /\ MaxTurns \in Nat \ {0}
    /\ {MaxRetries, Budget, MaxTokens} \subseteq Nat
    /\ WithFallback \subseteq Runs /\ WithQueue \subseteq Runs /\ WithBudget \subseteq Runs
    /\ AuditMayFail \subseteq Calls
    /\ CallbackMayRaise \in BOOLEAN
    /\ Answers \subseteq Decisions
    /\ Clients \subseteq [main : Providers, fallback : Providers]

VARIABLES at,          \* where each run is
          sid,         \* context.session_id of each run
          token,       \* the token named by context.token_id: "none", "live", "dead"
          turns,       \* responses received by each run
          tries,       \* create_message calls of this turn
          onFallback,  \* the runs whose turn is at the fallback client
          used,        \* context.budget_used_tokens
          stop,        \* stop_reason of the last response
          client,      \* the providers of self._llm and of the fallback
          history,     \* the messages, after the prompt
          pairs,       \* the calls of this turn whose results are there
          todo,        \* its tool calls that were not dispatched yet
          cur,         \* the call being dispatched
          ending,      \* how the run ends: "result", "error", "refused", or "unentered"
          says,        \* the decision of the gate on each call
          late,        \* history: the calls put to the gate with a dead token
          invoked,     \* history: the calls whose tool was invoked
          listed,      \* the list of the SessionResult each call is in
          audit,       \* the outcomes recorded for each call
          decision, about, answer,  \* the approval queue
          verdict      \* history: what a human decided of each call

queue == <<decision, about, answer, verdict>>
talk == <<client, history, pairs>>
llm == <<turns, tries, onFallback, used, stop, client, history>>
books == <<says, late, invoked, listed, audit>>
vars == <<at, sid, token, llm, pairs, todo, cur, ending, books, queue>>

Queue == INSTANCE DecisionRegister
           WITH Actions <- Calls, Callers <- Runs, NoAction <- NoCall

\* The points between "token issued" and "finally" (the body of the try).
InLoop == {"calling", "budget", "tools", "asking", "refusing", "queued", "waiting",
           "running"}

Init == /\ at = [r \in Runs |-> "new"]
        /\ sid \in [Runs -> SessionIds]
        /\ token \in [Runs -> {"none", "live", "dead"}]
        /\ turns = [r \in Runs |-> 0]
        /\ tries = [r \in Runs |-> 0]
        /\ onFallback = {}
        /\ used = [r \in Runs |-> 0]
        /\ stop = [r \in Runs |-> "none"]
        /\ client \in [Runs -> Clients]
        /\ history = [r \in Runs |-> << >>]
        /\ pairs = [r \in Runs |-> {}]
        /\ todo = [r \in Runs |-> {}]
        /\ cur = [r \in Runs |-> NoCall]
        /\ ending = [r \in Runs |-> "none"]
        /\ says = [k \in {} |-> NoDecision]
        /\ late = {}
        /\ invoked = {}
        /\ listed = [k \in Calls |-> "none"]
        /\ audit = [k \in Calls |-> {}]
        /\ Queue!Init
        /\ verdict = [k \in Calls |-> "none"]

Go(r, place) == at' = [at EXCEPT ![r] = place]

-----------------------------------------------------------------------------
(* The gate.                                                               *)

\* As a bug: the gate was given no broker to ask.
BugTokenValid(r) == TRUE

\* Step 1 of PolicyGate: a token id that is set must be valid, and otherwise
\* everything is denied before the engine is asked.
TokenValid(r) == token[r] # "dead"

-----------------------------------------------------------------------------
(* Start and end of a run.                                                 *)

\* The gate does not allow the spawn event: GovernanceError, before the try.
SpawnDenied(r) ==
    /\ at[r] = "new"
    /\ Go(r, "ended")
    /\ ending' = [ending EXCEPT ![r] = "refused"]
    /\ UNCHANGED <<sid, token, llm, pairs, todo, cur, books, queue>>

\* Spawn is allowed: a token is issued unless the context names one, and the
\* loop is entered.
Spawn(r) ==
    /\ at[r] = "new"
    /\ TokenValid(r)
    /\ token' = [token EXCEPT ![r] = "live"]
    /\ Go(r, "calling")
    /\ UNCHANGED <<sid, llm, pairs, todo, cur, ending, books, queue>>

\* on_event raises on "credential_issued", after issue() and before the try.
SpawnCallbackRaises(r) ==
    /\ CallbackMayRaise
    /\ at[r] = "new"
    /\ token[r] = "none"
    /\ token' = [token EXCEPT ![r] = "live"]
    /\ Go(r, "ended")
    /\ ending' = [ending EXCEPT ![r] = "unentered"]
    /\ UNCHANGED <<sid, llm, pairs, todo, cur, books, queue>>

\* The run loop is left, with a result or an exception.
Leave(r, how) == /\ Go(r, "closing")
                 /\ ending' = [ending EXCEPT ![r] = how]

\* As a bug: only the token this run issued or was given is revoked.
BugFinally(r) ==
    /\ at[r] = "closing"
    /\ token' = [token EXCEPT ![r] = "dead"]
    /\ Go(r, "ended")
    /\ UNCHANGED <<sid, llm, pairs, todo, cur, ending, books, queue>>

\* The `finally': every token of this session id is revoked.
Finally(r) ==
    /\ at[r] = "closing"
    /\ token' = [q \in Runs |-> IF sid[q] = sid[r] /\ token[q] = "live"
                                THEN "dead" ELSE token[q]]
    /\ Go(r, "ended")
    /\ UNCHANGED <<sid, llm, pairs, todo, cur, ending, books, queue>>

\* Anything in the loop raises: a tool handler, a callback, the engine with an
\* error other than a lost connection, the queue's database, a cancellation.
LoopRaises(r) ==
    /\ at[r] \in InLoop
    /\ Leave(r, "error")
    /\ IF at[r] \in {"queued", "waiting"} THEN Queue!Forget({r})
                                          ELSE UNCHANGED <<decision, about, answer>>
    /\ UNCHANGED <<sid, token, llm, pairs, todo, cur, books, verdict>>

-----------------------------------------------------------------------------
(* One turn: the model is called, then the budget is checked.              *)

\* tries[r] is the attempt about to fail: attempt 0 is the first call.
RetriesLeft(r) == tries[r] < MaxRetries

\* HTTP statuses of a provider's error; 0 stands for none.
Statuses == {0, 400, 429, 500}

\* create_message raises; only retryable errors are tried again, then the
\* fallback client is called once.
LLMFails(r, status) ==
    /\ at[r] = "calling"
    /\ UNCHANGED <<sid, token, turns, used, stop, talk, todo, cur, books, queue>>
    /\ \/ /\ r \notin onFallback /\ Retryable(status) /\ RetriesLeft(r)
          /\ tries' = [tries EXCEPT ![r] = @ + 1]
          /\ UNCHANGED <<at, onFallback, ending>>
       \/ /\ r \notin onFallback /\ ~(Retryable(status) /\ RetriesLeft(r)) /\ r \in WithFallback
          /\ tries' = [tries EXCEPT ![r] = @ + 1]
          /\ onFallback' = onFallback \cup {r}
          /\ UNCHANGED <<at, ending>>
       \/ /\ r \in onFallback \/ (~(Retryable(status) /\ RetriesLeft(r)) /\ r \notin WithFallback)
          /\ Leave(r, "error")
          /\ UNCHANGED <<tries, onFallback>>

\* No run has asked the gate about k, or is going to.
Fresh(k) == k \notin DOMAIN says /\ \A q \in Runs : k # cur[q] /\ k \notin todo[q]

\* Who is asked: the fallback client once the first has given up.
Asked(r) == IF r \in onFallback THEN client[r].fallback ELSE client[r].main

\* A response arrives: its tokens are added up, and its tool calls, if it is
\* said to want tools, are the turn's work.  The API ends a response with calls
\* as a tool use, or cuts it off.
LLMResponds(r, finish, calls, n) ==
    /\ at[r] = "calling"
    /\ finish = "tool_use" => calls # {}
    /\ finish = "end_turn" => calls = {}
    /\ \A k \in calls : Fresh(k)
    /\ turns' = [turns EXCEPT ![r] = @ + 1]
    /\ tries' = [tries EXCEPT ![r] = 0]
    /\ used' = [used EXCEPT ![r] = IF r \in WithBudget THEN @ + n ELSE @]
    /\ LET reason == StopReason(Asked(r), finish, calls) IN
       /\ stop' = [stop EXCEPT ![r] = reason]
       /\ todo' = [todo EXCEPT ![r] = IF reason = "tool_use" THEN calls ELSE {}]
    /\ Go(r, "budget")
    /\ UNCHANGED <<sid, token, onFallback, talk, cur, ending, books, queue>>

\* As a bug: the budget is exhausted only once it is exceeded.
BugExhausted(r) == r \in WithBudget /\ used[r] > Budget

\* A message joins the conversation.
Say(r, message) == history' = [history EXCEPT ![r] = Append(@, message)]

\* agent_budget.rego, _token_budget_exhausted.
Exhausted(r) == r \in WithBudget /\ used[r] >= Budget

\* The agent.budget event, if there is a budget: the policy denies when it is
\* exhausted, and the gate for a dead token or an unreachable engine.  A denial
\* ends the run with the tool calls of this response undone; so does end_turn.
CheckBudget(r) ==
    /\ at[r] = "budget"
    /\ \E denied \in BOOLEAN :
          /\ denied => r \in WithBudget
          /\ Exhausted(r) \/ (r \in WithBudget /\ ~TokenValid(r)) => denied
          /\ IF denied \/ stop[r] = "end_turn"
             THEN Leave(r, "result") /\ UNCHANGED history
             ELSE /\ Go(r, "tools")
                  /\ IF stop[r] = "tool_use"
                     THEN Say(r, AssistantMessage(client[r].main, Asked(r), todo[r]))
                     ELSE UNCHANGED history
                  /\ UNCHANGED ending
    /\ UNCHANGED <<sid, token, turns, tries, onFallback, used, stop, client, pairs, todo,
                   cur, books, queue>>

\* As a bug: a turn without tool calls does not count.
BugTurnsLeft(r) == turns[r] < MaxTurns \/ stop[r] = "max_tokens"

TurnsLeft(r) == turns[r] < MaxTurns

\* All calls of the response are dispatched and their results join the
\* conversation; the next iteration, or the end.
EndTurn(r) ==
    /\ at[r] = "tools"
    /\ todo[r] = {}
    /\ IF TurnsLeft(r) THEN Go(r, "calling") /\ UNCHANGED ending
                       ELSE Leave(r, "result")
    /\ IF stop[r] = "tool_use" THEN Say(r, ResultMessages(client[r].main, pairs[r]))
                               ELSE UNCHANGED history
    /\ pairs' = [pairs EXCEPT ![r] = {}]
    /\ onFallback' = onFallback \ {r}
    /\ UNCHANGED <<sid, token, turns, tries, used, stop, client, todo, cur, books, queue>>

-----------------------------------------------------------------------------
(* Dispatch of one tool call.                                              *)

\* AuditStore.record: one row is inserted; rows are never changed nor deleted.
Insert(k, outcome) == audit' = [audit EXCEPT ![k] = @ \cup {outcome}]

\* _audit: an exception of the store is swallowed, the record is then missing.
Record(k, outcome) == \/ Insert(k, outcome)
                      \/ k \in AuditMayFail /\ UNCHANGED audit

\* The call in hand is done with, and what is said of it is its result.
NextCall(r) == /\ Go(r, "tools")
               /\ cur' = [cur EXCEPT ![r] = NoCall]
               /\ pairs' = [pairs EXCEPT ![r] = @ \cup {cur[r]}]

List(k, name) == listed' = [listed EXCEPT ![k] = name]

\* As a bug: allow is looked at before requires_hitl.
BugRouteAllowFirst(d) == IF d.deny THEN "block"
                         ELSE IF d.allow THEN "execute"
                         ELSE IF d.requires_hitl THEN "hitl" ELSE "soft_deny"

\* The order in which _dispatch_direct looks at a decision.
Route(d) == IF d.deny THEN "block"
            ELSE IF d.requires_hitl THEN "hitl"
            ELSE IF ~d.allow THEN "soft_deny" ELSE "execute"

\* The next call is put to the gate, which looks at the token; then it awaits
\* the engine, unless the token was refused.
PutToGate(r, k) ==
    /\ at[r] = "tools"
    /\ k \in todo[r]
    /\ todo' = [todo EXCEPT ![r] = @ \ {k}]
    /\ cur' = [cur EXCEPT ![r] = k]
    /\ late' = IF token[r] = "dead" THEN late \cup {k} ELSE late
    /\ Go(r, IF TokenValid(r) THEN "asking" ELSE "refusing")
    /\ UNCHANGED <<sid, token, llm, pairs, ending, says, invoked, listed, audit, queue>>

\* The gate's answer is acted upon.
Dispatch(r, d) ==
    LET k == cur[r] IN
    /\ at[r] \in {"asking", "refusing"}
    /\ at[r] = "refusing" => d = Denied
    /\ says' = [j \in DOMAIN says \cup {k} |-> IF j = k THEN d ELSE says[j]]
    /\ UNCHANGED <<sid, token, llm, todo, ending, late>>
    /\ \/ /\ Route(d) = "block"
          /\ List(k, "blocked_calls") /\ Record(k, "blocked") /\ NextCall(r)
          /\ UNCHANGED <<invoked, queue>>
       \/ /\ Route(d) = "soft_deny"
          /\ List(k, "blocked_calls") /\ Record(k, "soft_denied") /\ NextCall(r)
          /\ UNCHANGED <<invoked, queue>>
       \/ /\ Route(d) = "execute"
          /\ Go(r, "running") /\ invoked' = invoked \cup {k}
          /\ UNCHANGED <<cur, pairs, listed, audit, queue>>
       \/ /\ Route(d) = "hitl" /\ r \in WithQueue
          /\ Queue!Request(r, k) /\ Go(r, "queued")
          /\ UNCHANGED <<cur, pairs, invoked, listed, audit, verdict>>
       \/ /\ Route(d) = "hitl" /\ r \notin WithQueue
          /\ List(k, "hitl_required") /\ Record(k, "hitl_queued") /\ NextCall(r)
          /\ UNCHANGED <<invoked, queue>>

\* The row is inserted; hitl_queued is recorded and the wait begins.
HitlAudit(r) ==
    /\ at[r] = "queued"
    /\ Record(cur[r], "hitl_queued")
    /\ Go(r, "waiting")
    /\ UNCHANGED <<sid, token, llm, pairs, todo, cur, ending, says, late, invoked, listed,
                   queue>>

\* As a bug: whatever is not a denial goes ahead.
BugApproves(v) == v # "DENIED"

Approves(v) == v = "APPROVED"

\* wait_for_decision() returns and its answer is acted upon; nothing asks the
\* gate again, neither for the policy nor for the token.
WaitReturns(r) ==
    /\ at[r] = "waiting"
    /\ Queue!Answer(r)
    /\ LET k == cur[r]  v == decision[k] IN
       IF Approves(v)
       THEN /\ Go(r, "running") /\ invoked' = invoked \cup {k}
            /\ List(k, "tool_calls")
            /\ UNCHANGED <<audit, cur, pairs>>
       ELSE /\ NextCall(r) /\ UNCHANGED invoked
            /\ IF v = "TIMED_OUT"
               THEN List(k, "hitl_required") /\ Record(k, "hitl_timeout")
               ELSE List(k, "blocked_calls") /\ Record(k, "hitl_denied")
    /\ UNCHANGED <<sid, token, llm, todo, ending, says, late, verdict>>

\* The outcome that is recorded for a tool that ran.
Ran(k) == IF says[k].requires_hitl THEN "hitl_approved" ELSE "allowed"

\* As a bug: a call that waited for approval keeps being reported as waiting.
BugToolReturns(r) ==
    /\ at[r] = "running"
    /\ List(cur[r], IF says[cur[r]].requires_hitl THEN "hitl_required" ELSE "tool_calls")
    /\ Record(cur[r], Ran(cur[r]))
    /\ NextCall(r)
    /\ UNCHANGED <<sid, token, llm, todo, ending, says, late, invoked, queue>>

\* The tool returns; its result is listed, recorded and sent back.
ToolReturns(r) ==
    /\ at[r] = "running"
    /\ List(cur[r], "tool_calls")
    /\ Record(cur[r], Ran(cur[r]))
    /\ NextCall(r)
    /\ UNCHANGED <<sid, token, llm, todo, ending, says, late, invoked, queue>>

-----------------------------------------------------------------------------
(* The rest of the world.                                                  *)

\* Somebody revokes the token, or it expires, at any moment.
TokenDies(r) ==
    /\ token[r] = "live"
    /\ token' = [token EXCEPT ![r] = "dead"]
    /\ UNCHANGED <<at, sid, llm, pairs, todo, cur, ending, books, queue>>

\* A human decides a pending action, whether or not a run still waits for it.
HumanDecides(k, v) ==
    /\ v # "TIMED_OUT"
    /\ Queue!Decide(k, v)
    /\ verdict' = [verdict EXCEPT ![k] = v]
    /\ UNCHANGED <<at, sid, token, llm, pairs, todo, cur, ending, books>>

\* As a bug: the wait for a human has no timeout.
BugHitlTimeout(r) == FALSE /\ UNCHANGED vars

\* The timeout of wait_for_decision().
HitlTimeout(r) ==
    /\ at[r] = "waiting"
    /\ Queue!Decide(cur[r], "TIMED_OUT")
    /\ UNCHANGED <<at, sid, token, llm, pairs, todo, cur, ending, books, verdict>>

\* An expiry task sweeps the queue: what is late is TIMED_OUT from now on, also
\* what a human decided since the sweep began.
Sweep(rows) ==
    /\ Queue!Expire(rows)
    /\ UNCHANGED <<at, sid, token, llm, pairs, todo, cur, ending, books, verdict>>

\* What a run does when nothing goes wrong around it.
RunStep(r) ==
    \/ Spawn(r) \/ SpawnDenied(r)
    \/ \E finish \in {"tool_use", "end_turn", "max_tokens"}, calls \in SUBSET Calls,
          n \in 0..MaxTokens : LLMResponds(r, finish, calls, n)
    \/ \E status \in Statuses : LLMFails(r, status)
    \/ CheckBudget(r)
    \/ EndTurn(r)
    \/ \E k \in Calls : PutToGate(r, k)
    \/ \E d \in Answers \cup {Denied} : Dispatch(r, d)
    \/ HitlAudit(r)
    \/ WaitReturns(r)
    \/ HitlTimeout(r)
    \/ ToolReturns(r)
    \/ Finally(r)

Next == \/ \E r \in Runs : RunStep(r) \/ SpawnCallbackRaises(r) \/ LoopRaises(r) \/ TokenDies(r)
        \/ \E k \in Calls, v \in Queue!Verdicts : HumanDecides(k, v)
        \/ \E rows \in SUBSET Calls : Sweep(rows)

Spec == Init /\ [][Next]_vars

\* The event loop runs what can run; providers answer or fail, tools return or
\* raise, and the timeout of the approval wait fires.
FairSpec == Spec /\ \A r \in Runs : WF_vars(RunStep(r))

-----------------------------------------------------------------------------
(* Properties.                                                             *)

Places == InLoop \cup {"new", "closing", "ended"}
Outcomes == {"blocked", "soft_denied", "allowed", "hitl_queued", "hitl_approved",
             "hitl_denied", "hitl_timeout"}

Messages == [role : {"assistant", "tool"}, shape : Providers, calls : SUBSET Calls]

RunTypes ==
    /\ at \in [Runs -> Places]
    /\ sid \in [Runs -> SessionIds]
    /\ token \in [Runs -> {"none", "live", "dead"}]
    /\ turns \in [Runs -> 0..MaxTurns]
    /\ tries \in [Runs -> Nat]
    /\ onFallback \subseteq Runs
    /\ used \in [Runs -> Nat]
    /\ stop \in [Runs -> {"none", "tool_use", "end_turn", "max_tokens"}]
    /\ client \in [Runs -> Clients]
    /\ ending \in [Runs -> {"none", "result", "error", "refused", "unentered"}]

WorkTypes ==
    /\ history \in [Runs -> Seq(Messages)]
    /\ pairs \in [Runs -> SUBSET Calls]
    /\ todo \in [Runs -> SUBSET Calls]
    /\ cur \in [Runs -> Calls \cup {NoCall}]

\* The gate has decided about the call in hand, or is about to.
HandTypes ==
    \A r \in Runs :
        /\ at[r] \in {"asking", "refusing"} => cur[r] \in Calls \ DOMAIN says
        /\ at[r] \in {"queued", "waiting", "running"} => cur[r] \in DOMAIN says

BookTypes ==
    /\ DOMAIN says \subseteq Calls
    /\ says \in [DOMAIN says -> Decisions]
    /\ late \subseteq Calls
    /\ invoked \subseteq DOMAIN says
    /\ listed \in [Calls -> {"none", "tool_calls", "blocked_calls", "hitl_required"}]
    /\ audit \in [Calls -> SUBSET Outcomes]

QueueTypes ==
    /\ decision \in [Calls -> {"ABSENT", "PENDING"} \cup Queue!Verdicts]
    /\ about \in [Runs -> Calls \cup {NoCall}]
    /\ answer \in [Runs -> {"NONE"} \cup Queue!Verdicts]
    /\ verdict \in [Calls -> {"none", "APPROVED", "DENIED"}]

\* The type of every variable, and which call a run is busy with.
TypeOK == RunTypes /\ WorkTypes /\ HandTypes /\ BookTypes /\ QueueTypes

\* No tool runs on its own: every invoked call was put to the gate, not
\* denied by it, and either allowed without review or approved by a human (also
\* if an expiry task has turned the decision into a timeout since).
\* And a dead token stops a run: a call that reaches the gate after the token
\* was revoked or expired never runs and never asks a human.  (One the gate had
\* let through, or had passed on to the engine, before may still run.)
OnlyGovernedCallsRun ==
    /\ \A k \in invoked :
          /\ ~says[k].deny
          /\ IF says[k].requires_hitl THEN verdict[k] = "APPROVED" ELSE says[k].allow
    /\ \A k \in late : k \notin invoked /\ decision[k] = "ABSENT"

\* When a run ends whose loop was entered, with a result or by any exception,
\* neither its own token nor one delegated under its session id to a run that
\* did not start is usable any more.  (A run that was refused was issued none;
\* when on_event raises on the news of the token, before the loop is entered,
\* the token stays live.)
NoTokenOutlivesRun ==
    \A r, q \in Runs :
        (/\ at[r] = "ended" /\ ending[r] \notin {"refused", "unentered"}
         /\ q = r \/ (sid[q] = sid[r] /\ at[q] = "new"))
        => token[q] # "live"

\* Once the budget is used up the model is not called and no tool runs.
ExhaustedBudgetStops ==
    \A r \in Runs : (r \in WithBudget /\ turns[r] > 0 /\ used[r] >= Budget)
        => at[r] \in {"budget", "closing", "ended"}

\* The calls some run has in hand, or had when it was aborted.
InHand == {cur[r] : r \in Runs}

\* What is told is what happened.  Every call the gate decided is in one of the
\* lists of the result, and in tool_calls exactly those whose tool was invoked.
\* The model is never asked to go on with a call of its last turn unanswered, and
\* its provider takes the history (if the fallback is a client of the same
\* provider, and not Gemini's, which looks for names).
ReportIsTrue ==
    /\ \A k \in DOMAIN says \ InHand :
          /\ listed[k] # "none"
          /\ listed[k] = "tool_calls" <=> k \in invoked
    /\ \A r \in Runs :
          (/\ at[r] = "calling"
           /\ client[r].main # "google"
           /\ r \in WithFallback => client[r].fallback = client[r].main)
          => Accepts(Asked(r), history[r])

Refusals == {"blocked", "soft_denied", "hitl_denied", "hitl_timeout"}

AuditIsTrueOf(k) ==
    /\ audit[k] \cap {"allowed", "hitl_approved"} # {} => k \in invoked
    /\ audit[k] \cap Refusals # {} => k \notin invoked
    /\ "allowed" \in audit[k] => ~says[k].requires_hitl
    /\ "hitl_approved" \in audit[k] => verdict[k] = "APPROVED"
    /\ "hitl_denied" \in audit[k] => verdict[k] = "DENIED"
    /\ "hitl_timeout" \in audit[k] => decision[k] = "TIMED_OUT"
    /\ k \in DOMAIN says \ (InHand \cup AuditMayFail) =>
           IF ~says[k].deny /\ says[k].requires_hitl /\ decision[k] = "ABSENT"
           THEN audit[k] = {"hitl_queued"}
           ELSE audit[k] \cap (Refusals \cup {"allowed", "hitl_approved"}) # {}

\* The audit log never says that a tool ran that did not, or was refused when
\* it ran; it names the way a call took and the decision of the human; and
\* no call that was dealt with, and whose records could be written, is missing.
AuditIsTrue == \A k \in Calls : AuditIsTrueOf(k)

\* What became of the question whether a call may run.
Permission(k) ==
    IF k \notin DOMAIN says THEN IF k \in late THEN "barred" ELSE "new"
    ELSE IF Route(says[k]) = "execute" THEN "cleared"
    ELSE IF k \in invoked \/ decision[k] = "APPROVED" THEN "approved"
    ELSE IF decision[k] = "PENDING" THEN "review" ELSE "refused"

Governance == INSTANCE GovernedCalls WITH permission <- [k \in Calls |-> Permission(k)],
                                          ran <- invoked

\* Every step of a run, of a human, of the clock and of an expiry task is one
\* that governance allows: no call is decided twice, what was refused stays so,
\* and a tool is started once, while its call is cleared or approved.
ImplementsGovernance == Governance!Spec

\* Every run that was started ends, whatever the model, the tools and the
\* humans do.
EveryRunEnds == \A r \in Runs : at[r] # "new" ~> at[r] = "ended"


\* A run takes the token in its context for one of the broker's that nobody
\* fails to revoke.
Broker == INSTANCE TokenRegister WITH
              Tokens <- Runs,
              status <- [r \in Runs |-> IF token[r] = "live" THEN "good" ELSE token[r]],
              usable <- {r \in Runs : token[r] = "live"}

\* Whatever a run, or another run of its session id, does with a token is what
\* the broker's register lets become of it: no run revives a dead token.
ImplementsTokenRegister == Broker!Spec
=============================================================================
