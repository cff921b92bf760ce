# A TLA+ verification of Kite Logik

Kite Logik governs what AI agents may do. Every tool call an agent asks for is put to a policy
engine before it runs; some calls wait for a human; every session holds a token that can be
revoked; and what happened is recorded. This directory holds TLA+ modules of that machinery, TLC
configurations that model-check them on small instances, and proofs, checked by TLAPS, that hold
for every instance. Paths below are relative to the repository.

    tlc -config HITLQueue_register.cfg MCHITLQueue.tla     # one run; PROJECT.json lists them all
    tlapm HITLQueueProofs.tla                              # one proof module

## 1. The system

### Components

| Component | State | Operations | Model |
|---|---|---|---|
| `HITLQueue` (anchor/queue.py) | SQLite table `pending_actions`; map of `asyncio.Event`s | enqueue, approve, deny, wait_for_decision, expire_old, expiry task | `HITLQueue`, `DecisionRegister` |
| `CredentialBroker`, `PersistentCredentialBroker` (anchor/credentials.py) | token cache; SQLite table `session_tokens` | issue, delegate, revoke, revoke_session, validate, reload | `CredentialBroker`, `TokenRegister` |
| `AgentSession` (agents/session.py) | the run's context, messages and result | run_async and what it calls; submit_plan | `AgentSession`, `GovernedCalls`, `ToolExecution` (not submit_plan) |
| `PolicyGate` (tether/gate.py) | none | token check, policy call, fail closed, sanitise | `GovernedToolbox`, and inside `AgentSession` |
| `StdioTransport` (mcp/stdio_transport.py) | the process, the reader task, the map of pending futures | start, stop, send_request, reader loop | `StdioTransport` |
| `HierarchicalEvaluator` (tether/hierarchy.py) | none | evaluates two tiers and merges their decisions | `PolicyTiers`, `GovernedToolbox` |
| Rego bundle (policies/*.rego) | none | combines the decisions of eight policies | `MainPolicy` |
| policy schema and compiler (policies/) | none | turns YAML rules into the rules of a user policy | `PolicyCompiler` |
| `@governed`, `GovernedToolbox` (governed.py) | none | act upon a decision outside a session | `GovernedToolbox` |
| framework adapters (adapters/), sync bridge (governed.py) | none | take calls from eleven frameworks to the toolbox, and back | `Adapters`, `GovernedCalls` |
| `MCPClient`, `ServerRegistry` (mcp/) | set of blocked servers | verify_manifests, call_tool | `MCPClient`, `ToolExecution` |
| `MemoryStore` (memory/store.py) | SQLite table of values with trust tiers | write, read, list | `MemoryStore`, `ToolExecution` |
| `AuditStore`, `PolicyReplayer` (audit/) | append-only SQLite table | record, query, export, replay | `AgentSession` (record), `PolicyReplay` |
| `OPAClient` (tether/opa_client.py) | the HTTP client and its event loop, a lock | evaluate, evaluate_event, health check, aclose | `OPAClient` |
| `RegorusClient` (tether/regorus_client.py) | an engine that holds its input, a lock | evaluate, evaluate_event | `RegorusClient` |
| LLM clients (agents/llm.py, openai_client.py, google_client.py) | none | call a provider, translate responses and histories | `LLMClients` |
| sanitizer (tether/sanitizer.py) | none | redacts what its patterns match | `Sanitizer`, as classes of texts |
| tracing, edition switch, CLI, policy tester | none that matters here | text in, text out | not modelled |

### How they interact

A session (`run_async`) asks the gate whether it may spawn, has the broker issue a token, and loops:
call the model (retrying, then falling back), check the budget, and for each tool call ask the
gate. The gate validates the token in the broker, awaits the engine, and answers a decision with
three flags: `deny`, `requires_hitl`, `allow`. The session blocks the call, runs the tool, or
enqueues an approval request and waits for a decision. A human decides through `approve()` or
`deny()`, in the same process or another one that opened the same database; the wait times out, and
an optional task expires old requests. Whatever happens, the `finally` revokes the tokens of the
session id. Tools may live in an MCP server reached through `StdioTransport`.

Without a session, `@governed`, the toolbox and the adapters ask the same gate. Their frameworks call them
from coroutines, from threads and from synchronous code inside a running loop, for which a bridge
starts a thread with a loop of its own; so the evaluator, one object, serves several event
loops at once, and may be closed while it does.

### What is hard

Everything is asyncio: between two awaits nothing else runs, at an await anything may. SQLite
statements run in worker threads, and several processes may share a database. So: decisions race
with timeouts and with the expiry task; the row and its event are written at different moments; the
token is checked before an await and not afterwards; a cache is changed before its table; a future
is cancelled while its answer is on the way; runs that share a session id revoke each other's
tokens. Unit tests of the repository take these operations one at a time. `PROJECT.json`
("hazards") lists where each of these bites and which property would notice, or why none does.

## 2. The modules

One module per component; `MC*.tla` extend them with what TLC needs; `*Proofs.tla` hold theorems.
Each module names the code of an action in a comment, and "map" in `PROJECT.json` its lines.
Operators whose comment begins "As a bug" are not part of a specification: each is an
operation with a plausible mistake in it, and replacing the operation by it violates a property.

### DecisionRegister

What the approval queue promises, without database, events or timers: `Request` submits an action
that was never submitted, `Decide` decides it once, `Answer` tells the one who asked the final
decision, `Forget` is a caller that went away. `Spec` is a register without an expiry task, in which decisions and
answers stand for ever. `SweptSpec` adds `Expire`: time decides, and may take back what was decided since the sweep began.

### HITLQueue

`status` and `decidedBy` are the table and survive `Restart`; `events` and `isSet` are the event
map. An operation is split at its awaits: `EnqueueInsert` (thread) and `EnqueueRegister` (loop);
`BeginWait`, `Wake` or `TimerFires`, `TimeoutDecide` (thread), `Close` (`finally`), `ReadRow`;
`DecideCommit` (thread) and `DecideSignal` (loop); `SweepSelect`, `SweepUpdate` (two statements of
one thread, no transaction open between them), `SweepSignal`. `CancelWait` is a cancelled task,
`SweepFail` a database error in the sweep. A `Remote` approver is in another process and signals
nobody. `wins` remembers the calls of approve() and deny() that returned True.

A task cancelled at another await than the wait itself is not a step of its own: the thread still
commits, and the caller then never returns, which a caller that does not go on shows as well.

### CredentialBroker

`grant` is what a token was made with, `memory` the cache, `disk` the table. The methods are
synchronous, so each is a step; the write after the change of the cache may fail (`ok = FALSE`),
which also stands for a crash between the two, followed by `Restart` (reload of unexpired rows).
`held`, `named` and `revoked` remember which tokens reached a caller, which a revocation was tried
for, and which one returned for. `Status` says what the holder of a token may rely on; by it the broker is the
register below.

### TokenRegister

What the broker promises to those who hold tokens, without cache, table, clock or restarts. A token that was given out is
`good`, and usable, until it is `dead`, and what is dead stays dead. In between it may be `doubtful`: a revocation was tried and its
write failed, so the token is refused, until a restart reloads the row and it is accepted again. `Fits` relates the status of a token to whether
the gate accepts it. The broker and the sessions each implement this module: a session's `token` is the
register with no token in doubt, since a session revokes in the cache it asks.

### GovernedCalls

What governance promises of every tool call, whichever way it takes. `permission` is what became of the question whether it may
run, `ran` are the calls whose tool was started. Permission is given once, by the policies (`Clear`) or by a human
(`Ask`, `Approve`), or is refused once; a tool is started only while it stands, and once (`Run`). Only time takes an approval back, and only
before the call ran (`Withdraw`). `Bar` is a call put to the gate with a dead token: from then on it can only be refused.
Sessions and adapters are two implementations: `Permission` in each module is the refinement mapping.

### AgentSession, LLMClients

One record of variables per run. `at` is the await the run is at; `LLMResponds`, `CheckBudget`,
`PutToGate`, `Dispatch`, `HitlAudit`, `WaitReturns`, `ToolReturns`, `EndTurn` and `Finally` follow
the loop. The token check and the engine's answer are two steps, since the engine is awaited. The
engine may give any of `Answers`, differently each time. The queue is `DecisionRegister` with an expiry task
(instance `Queue`; `Sweep` is its `Expire`), which `HITLQueue` is proved to implement. `verdict` remembers what a human decided,
which the row may no longer say: an approval that a sweep overwrites after the run was told of it has been acted upon. `LoopRaises` is any exception in the body of the `try`. `says`, `invoked`,
`late`, `listed` and `audit` tell what the gate said, what ran, what was asked with a dead token,
and what the result and the log say.

`client` is the pair of providers behind the run's own client and its fallback, `history` the
conversation. `LLMClients` says what each client takes for the end of a response, what it makes of
another provider's response, how it sends results back, and what a provider asks of a history
(`Accepts`, external): that each message with tool calls is followed by the results of these very calls.

Abstracted: order of the calls of one response (any order), the texts of messages, what a tool returns,
budgets of API calls (they count like tokens) and cost (the code never advances it).

### StdioTransport

Requests, owners (who call start() and stop()) and one reader per process share `process`,
`readerTask` and `pending`. `TimerFires` cancels the future and `TimedOut` is the coroutine that
runs later and takes it out of the map; between them the reader may meet it. A reader takes
`self._process` anew for each line (`NextLine`), so after a restart it may come to the new
process's output. The server is external: it answers, closes its output, exits, or does nothing. Lines and
answers that raise in the loop end it: `ReadBadLine` before a request was looked up, `ReadBadAnswer` after its
future was taken out of the map and before it is set (an `error` that is no object). `dropped` remembers these requests,
`broken` that a reader was ended so. `EncodeFails` is a request whose parameters cannot be encoded, registered and not written.

### MainPolicy

The Rego bundle as operators on one record of inputs, `Documents`: `Deny`, `Allow`, `RiskTier`,
`RequiresHitl` combine, as `main.rego` does, what the security, delegation, financial, lifecycle,
plan, budget and data policies say. The second argument is what a user policy adds to them (see `PolicyCompiler`).
`Decide` is the decision the gate gets. Rego's type order is kept where a rule depends on it: an amount
is a number, or of a type that sorts below or above all numbers (`null < 500` holds in Rego).
Abstracted: a path is sensitive or plain, instead of four regular expressions; the budgets are one;
a plan is its number of steps and whether one names a blocked tool. An input of
`evaluate_tool_call` has neither an event type nor a data classification; those of events have both, and
the classification is always null, because nothing in the repository sets one.

### PolicyCompiler

A user policy as the set of its YAML rules, from all files, since they compile into one
package. `Applies` is the body of a compiled rule, `Says` what the package says of an input: any of allow, deny and hitl.
Arguments are one, the amount; `contains` and `not_contains` differ from `in` and `not_in` only in
which texts they match. A rule without a condition is not in `PolicyRules`, because its body is empty and no engine loads it.

### PolicyTiers

Decisions, and what `hierarchy.py` does with two of them: `SkipProject` after a global denial,
`Merge` otherwise, with the higher risk of the two.

### GovernedToolbox

Calls outside a session, each at one of its awaits: `Call` (token check), `GlobalAnswers`, `ProjectAnswers`,
`EngineUnreachable` (the gate denies), `EngineRaises` (any other error passes through), and
`Recompile`, a user policy replaced between two answers. Both tiers run the shipped package, since
the package path of `OPAClient` is fixed; their user policies, sets of rules, differ. `said` and `asked` remember
what each tier answered. `Outcome` is `_check_decision`. A call that is
both allowed and flagged for review runs: that is what the code does, outside a session. `VerdictOf` is what both tiers together
decide of an input at one moment; `DepthOnlyNarrows` and `RulesPullTheirWay` compare such decisions.

### PolicyReplay

Extends `GovernedToolbox` by the audit trail of a decision: `Recorded`, the outcomes a session may write for it,
and `OutcomeChanged`, what `PolicyReplayer` says of such a record under the present user policies. It has
no action of its own: a replay is compared with every verdict after every change of the policies.

### OPAClient, RegorusClient, Adapters

`OPAClient` is the lazily made `httpx` client with the loop it belongs to, the lock of `_get_client`, and `aclose`,
which does not take it. Two coroutines of one loop interleave at awaits only; requests of other threads
anywhere, so the statements of `_get_client` are steps of their own: `Acquire`, `Make`, `Bind`, `Take`.
An `httpx` client is external: closed at once when `aclose` begins, usable on its own loop only.
`RegorusClient` is one engine that holds its input between `SetInput` and `Eval`, in threads that a cancelled call does not stop.

`Adapters` composes either client with calls on several loops. An adapter is a record of how it
treats a call (what it looks at first, the name of the tool or also the text of its arguments, what a refusal and an exception become, what becomes of a result that cannot be
encoded, whether it uses the sync bridge); the sixteen operators from `OpenAI` to `Dify` are the shipped ones. A
wiring says which calls come by which adapter, from which loop, and which are one `execute_all()`.
`Blocked` is the bridge: a loop whose thread waits for a bridged call runs nothing else.
`ran` and `dead` remember which tools were started and which calls came with a dead token. An exception that
leaves an adapter is told apart by where it comes from (`Failed`): the tool, gate or engine, the reading of the call
(`Unreadable`), the encoding of the result.

### Sanitizer, MCPClient, MemoryStore, ToolExecution

`MCPClient` is the client with its registry. `Bom` is the file, `ServerFor` the index of tools, in
which a later server takes over a tool of an earlier one. A verification asks one server after the
other: `StartVerify`, then `Compare` or `FetchFails`, each up to the next await; `FetchRaises` is
an exception the code does not catch, which ends it half way. A call checks the block list when it
begins (`CallTool`) and ends when it likes (`CallEnds`). `mismatched` remembers what was seen.

`MemoryStore` is the table of the memory, with one pending write per session: `Write` on the event
loop, which sanitises, and `Upsert` in a thread. Timestamps are left out: they only order `list_keys`.

`ToolExecution` composes them as `_execute_tool` does: several sessions whose tool handler passes calls
to one shared client (the wiring a user of the library writes) and whose memory tools use one store. `shown` is
what a model was shown last and the tier it came with.

`Sanitizer` tells texts apart by what a pass of the sanitiser finds in them: nothing (`plain`), something, in a text that no pass
has gone over (`instructions`), or something in what a pass has left (`remains`). `Sanitized` is the set of what one pass may
leave. A pass applies each pattern once, in order, so it may leave a text in which an earlier pattern matches; no number of
passes is assumed to be enough.

## 3. What is checked

Deadlock checking is off everywhere: ids, tokens, calls and processes are used once and are finite, so
every run of a model may come to rest.

| Run | Checks | Instance, and why it is enough |
|---|---|---|
| `queue_register` | types, one win per action, nothing approved late, refinement of `DecisionRegister` (`SweptSpec`) | 2 actions, 2 waiting sessions, a local and a remote approver, a sweeper, 1 fault: two of everything that races; the theorems have no bound |
| `queue_sweeper` | approvals are backed, every wait ends, nothing pends for ever | 1 action, its session, an observer, 2 approvers, a sweeper, 2 faults: the liveness of an action does not depend on other actions |
| `broker_persistence` | revocation is durable, held tokens stay usable, no orphans, delegation narrows, refinement of `TokenRegister` | 3 tokens (a chain of two delegations), 2 sessions, 2 scopes, clock 0..2, tokens that expire at 1 or 2 (at once, when issued at 1), 2 failed writes or restarts (a failed write, then a restart) |
| `session_one_run` | types, budget, result and conversation are true, the run ends | 1 run, 2 calls, 2 turns, 1 retry, fallback (same or other provider), budget 2: a budget used up by the first or the second response, all callbacks may fail |
| `session_two_runs` | only governed calls run, a dead token stops calls, no token outlives its run, the log is true and complete (one call's records may be lost), refinement of `GovernedCalls` | 2 runs, one with a queue that is swept and one without, 2 session ids (interchangeable), 2 calls, 1 turn, callbacks that may raise: runs that share an id and runs that do not |
| `stdio_two_owners` | types, no lost process, the map of requests is true, a running transport is read, requests and stop() end | 2 owners, 2 processes (a restart), 1 request, lines and answers the reader cannot take, parameters that cannot be encoded |
| `policy_decisions` | deny wins, gaps reach a human, risk and decision agree, high amounts are flagged, delegation only narrows, rules pull their own way, a replay misses nothing | 1 call (calls share nothing but the user policies), every input on either side of a boundary of a rule: amounts -1, 0, 50, 51, 100, 101, 1000, 1001 and not numbers, depths 0..3, plans of 0, 1, the maximum and one more step; 6 user policies per tier, of a rule that allows, one that denies, one that asks, and two pairs of them, which change at any moment |
| `tools_shared` | nothing is sent after a mismatch, the published status is true, text that no sanitiser went over is vouched for, trust is earned | 2 sessions (one that trusts its writes, one that does not), 2 overlapping verifications, 3 servers with a tool in common, of which two have a hash, 1 key that both write |
| `adapters` | only permitted calls ran, messages are true, clients fit their loops, refinement of `GovernedCalls`, every call ends | 3 calls (2 on one loop, one bridged from it or in a thread), 1 aclose, either evaluator, 7 wirings in which each adapter occurs and a batch; the theorems have no bound |

In both runs of sessions the engine answers one of four decisions (`SomeAnswers`): nothing, allow, allow and review, and all three
flags. The others differ from these in flags that `Route` does not look at any more; the theorems are for any `Answers`.
The type invariants of the broker, the toolbox, the tool execution and the adapters, and that sessions implement
`TokenRegister`, are proved and have no run.

### Fairness

* `HITLQueue`: weak fairness of the steps of a coroutine that can go on, of timers, of the expiry
  task and of time (`BecomeOverdue`). Nobody has to enqueue or to decide. The event loop, worker threads and `asyncio.wait_for`
  give this; an expiry task survives database errors because its loop catches them.
* `AgentSession`: weak fairness of a run as a whole: a model answers or fails, a tool returns or raises,
  and the approval wait has a timeout. No fairness for humans. A tool handler that never
  returns blocks a run for ever: the code sets it no timeout.
* `StdioTransport`: timers and coroutines, and the exit of a killed process. None for the server, and
  none for `drain()`, which the code awaits outside the timeout: a server that does not read its
  input can block a request there for ever. `EverybodyReturns` therefore begins after it.
* `Adapters`: while some coroutine or thread can go on, one does (`GoOn`). This is weak: it names no call. It
  is enough because each call takes finitely many steps; that no set of calls blocks itself, through the lock and the
  bridge, is what `EveryCallEnds` shows. Nobody has to call, cancel or close.

## 4. Where code and documentation differ

Each of these is a run whose property is violated, with the trace TLC prints.

* `queue_expiry_overwrites`: `_sync_expire` repeats no `status = 'PENDING'` in its UPDATE, so a decision
  committed after its SELECT is overwritten with TIMED_OUT, and `decided_by` still names the
  human. `DecisionStands`, `AnswerStands` and the refinement of `DecisionRegister!Spec` therefore hold without a sweeper
  only; with one the queue implements `SweptSpec`, and sessions are checked over that.
* `stdio_reader_dies`: an answer for a request that was cancelled, or whose timeout is just being
  delivered, raises in the reader loop and ends it for all requests.
* `policy_tool_budget`: `main.rego` has budget rules for `event_type == "tool_call"`, but the input of a
  tool call (`PolicyInput`) has no `event_type`: they never fire, and a call with no budget left is
  allowed. A session checks token budgets itself, by an event (`CheckBudget`), between calls of the model.

Smaller ones have no run of their own: a wait without a registered event returns a row that may be
PENDING (`BeginWait`, `ReadRow`; a session would take it for a denial, but one that enqueued the
action itself finds the event or a decided row, which is part of what `ImplementsSweptRegister` says); an approval
between INSERT and registration signals nobody, and the caller waits for its timeout
(`EveryWaitEnds` says it does return); a tool that raises leaves no audit record (`AuditIsTrue`
speaks of calls that were dealt with); two overlapping `start()` calls lose a process
(`NoServerOutlivesStop` asks for owners that take turns); `stop()` says that it cancels "any pending
requests" (stdio_transport.py:108), but not one whose own answer ended the reader, which is taken out of the map at :204 before
`error.get` raises at :209, and waits for its timeout (`PendingIsTrue` makes the exception); parameters that cannot be encoded
leave their future in the map until the next `stop()` (:154-157); an event callback that raises on
`credential_issued` (session.py, before the `try`) leaves the token valid (`NoTokenOutlivesRun`
makes the exception); `hierarchy.py` says that an allow requires both tiers and merges with `or`
(`DenyWins` asks for one); ending a session revokes the tokens with its id, not those
delegated from them to other ids, which the change log (CHANGELOG.md:262) says are revoked; the error message of
an MCP server is not sanitised by the client, whose doc says its output is (`RawTextIsVouched` holds because the
session sanitises again); the sanitiser redacts "embedded prompt injection payloads" in one pass over its patterns
(sanitizer.py:283-286), whose result may contain what an earlier pattern matches, so what a model is shown after one pass is not
always a text the sanitiser would leave alone (`RawTextIsVouched` promises that it went over it, not that nothing is left); a server that cannot be reached for verification is reported as not matching
and may still be called, and one that was blocked stays so after a verification that matches; `updated_at` is
not the time of the most recent write if two overlap; `main.rego` says that deny and requires_hitl are never both
true, which a user policy can make them; `governed.py` says that it raises when a call requires
a human, which holds only when the call is not allowed too (governed.py:382; `RiskMatchesDecision` speaks of decisions, and no
property forbids to act on this one); the gate is asked once, before a human is waited for, so a token that is
revoked during the wait does not stop the call that was approved (no property forbids it); and a tool call sent as an event is
allowed where the same call sent by `evaluate_tool_call` is not, since its data
classification is null and not absent.

Of the audit trail: a replay under unchanged policies reports every record of a blocked call, or of one a human looked
at, as changed, since recorded and replayed outcomes are different words (replay.py:10-14 counts these as changes;
`ReplayMissesNothing` asks only that none is missed); a replaying gate that has a broker denies every record, because its
token is dead by then; the export of a session "Includes every tool call" but stops at 10,000 (store.py:317, :287);
and the policy version of a record is computed once, so it is not that of policies changed since.

Of compiled policies: schema.py:52-54 says that `hitl` routes an action to a human, but outside a session a call that
another rule allows runs nevertheless; `not_in` and `not_contains` hold when the argument is absent; a rule without
a condition compiles to one that does not load; `risk_tier` of a rule is read by nobody.

Of clients and adapters: the fallback of another provider gets the history in the main provider's shape
(`ReportIsTrue` asks for one provider); results for Gemini are named by generated ids, not by tools; an `aclose()` that
fails leaves the closed client in the cache (`ClientsFit` makes the exception); `OpenAIAdapter.execute` catches only
`JSONDecodeError` when it reads a call (openai.py:162-168) and encodes the result outside its `try` (:198), so a call that cannot be
read, or a result that cannot be encoded, ends `execute_all()` with an exception; structured results
of a tool are not sanitised; `_bind_args` puts `**kwargs` into an argument of that name, where no policy looks for them.

## 5. What is proved

For every value of the constants that satisfies the module's `ConstantsAssumption`:

* `HITLQueueProofs`
  * `TypeCorrect`: `TypeOK`, one case per action.
  * `OneWinPerAction`, `ApprovalsAreBacked`: from `BackedInv`. `AtMostOneWin` alone is not inductive: a
    second win is impossible because the first left the row decided (`WinsAreDecided`), and a
    caller's APPROVED is backed because the row it reads is (`RowsAreBacked`). The sweeper keeps
    both, since it writes only TIMED_OUT.
  * `LateApprovalImpossible`: an action property; a step that writes a row finds it PENDING, or
    writes TIMED_OUT.
  * `DecisionsStand`, `AnswersStand`: under `Sweepers = {}`.
  * `QueueImplementsSweptRegister`: under `Observers = {}`, with any number of expiry tasks, every step is a step of the
    register or a stutter; an UPDATE of a sweep is `Expire`. The strengthening `RegisterInv` says that an action in the
    hands of a caller is that caller's alone, that a caller at `reading` reads a decided row, and that swept rows were
    inserted. `Observers = {}` says that whoever waits enqueued the action itself, which sessions do.
  * `QueueImplementsRegister`: without sweepers it is the register in which decisions stand.
* `CredentialBrokerProofs`: `TypeCorrect`, `RevocationDurable`, `HeldUsable`, `OrphansImpossible`, from
  `BrokerInv`: a revoked token is live neither in the cache nor in the table, a held one that
  nobody tried to revoke is live in both while it has not expired, and a child's parent is
  held and lives as long as the child. `DelegationAlwaysNarrows` is about chains of any length. Ancestors
  are defined without recursion, as the tokens no parent-closed set can miss; the tokens wider than `t` are such a
  set, because each token is narrower than its parent (`Narrowing`). So no induction is needed. `BrokerImplementsRegister`: the picture
  of the abstract register fits by `BrokerInv` (`RegisterFits`); a step only kills tokens, leaves good ones in doubt, or gives one
  out (`StepKills`, `StepDoubts`, `MakeIsRegistered`).

* `GovernedToolboxProofs`, where `Inputs` is any set of `Documents` and the user policies any sets of rules:
  * `TypeCorrect`, `DenyOverrides`, `GapsFailSafe`, `RiskAgrees`, from `IInv`.
    The conclusions are about a verdict that was put together from two answers at two moments,
    between which user policies change; so the invariant carries what the first answer was
    (`Begun`) and that each verdict is sound (`Ended`). `Sound` is the law that one decision
    obeys: what is neither allowed nor denied asks for review, what is critical is denied, what
    is high is denied or asks for review. `DecideSound` shows it of the shipped package for every input,
    `MergeSound` that the merge keeps it.
  * `DepthNarrows`: `Wider(a, b)` compares two inputs that differ in depth and scopes; `DenyWidens`
    and `AllowWidens` show each policy monotone in it, and the merge keeps that.
  * `RulesPull`: another rule adds at most its own word to what a user policy says (`RuleAdds`); the word allow
    leaves every denial, another word allows nothing new (`WordsPull`), and the merge keeps that.

* `ToolExecutionProofs`, for any servers, verifications, sessions and write policies:
  * `RawTextVouched`, `TrustEarned`: from `DataInv`, which says of each pending write and of each row
    what the properties say of what is shown: its tier is its session's to give, and text that no pass of the sanitiser
    went over has a trusted one. What a pass leaves is left open.
  * `NothingSentAfterMismatch`: from `BlockInv`, what was seen to differ is blocked at once.
  * `StatusTrue`: from `ClientInv`. The results a verification collects are complete up to the server it waits
    for and name no mismatch that is not blocked (`Collecting`); the step to the next server skips none that has a hash, which
    needs that a set of numbers has a least one (`MinIsLeast`, from the library's well-foundedness theorems).
  * `TypeCorrect`.

* `PolicyReplayProofs`: `ReplayMisses`, from `IInv` and `Past`: what a tier did not deny, `security.rego` does not deny, whatever
  its user policy was then. So the path a replay lacks makes no difference to the calls that were allowed
  (`ReplayedAlike`), which are the only ones a replay can report as unchanged.

* `AdaptersProofs`, for any number of calls, loops, closers and any wirings of adapters:
  * `ClientsFitAlways`: from `ClientInv`. The cached client and the cached loop are written by two statements and
    disagree in between; the invariant says that they agree unless the holder of the lock has yet to write the second or an `aclose()` has cleared it, and
    that whoever is at `taking` will get a client of its own loop, or None.
  * `PermittedOnly`: from `EngineInv` (whoever evaluates holds the lock, and the engine holds its input) and `CallInv`
    (what the place of a call says of `ran` and `dead`).
  * `MessagesTrue`: from `CallInv` and `BatchIsOpenAI`. A batch's calls are `OpenAI`'s, which traps what a tool or an engine
    raises, so none of them is left by such an exception, and a batch that raised has a call that is `unreadable` or
    `unencodable`. `TypeCorrect`.
  * `CallsAreGoverned`: the adapters implement `GovernedCalls`. A step moves one call, or cancels several (`AllMove`), and a call that
    ran was permitted (`RanIsCleared`), so a late answer finds a call that was given up refused.

* `AgentSessionProofs`, for any number of runs, calls, turns and retries, any budget and any clients:
  * `TypeCorrect`: from `Base`. That a call is dispatched once needs `Apart`: it belongs to one run, and no run has
    it in hand and still to do. That `turns` is bounded needs `Counted`.
  * `OnlyGoverned`, `AuditTrue`: from `Inv`, which adds that what a human is asked about was decided for review and did
    not run yet (`Review`), that a call put to the gate with a dead token is refused before anything else (`LateIsLost`), and
    which records a call has while it is on its way (`OnItsWay`). `Submitted` is needed because other runs and
    humans write the shared queue.
  * `ReportTrue`: from `Inv` with `Talk`, which says how far the conversation of a turn has got: before the
    results join, it is accepted but for the last message, and what is in `pairs`, in hand and still to do are the calls of that message.
  * `TokensDieWithRuns`: whatever raises, for every run whose loop was entered. Inductive with the types alone; `Moves` sorts the
    steps by what they do to tokens. `TokensAreRegistered`: these are steps of `TokenRegister`.
  * `RunsAreGoverned`: sessions implement `GovernedCalls`. `Inv` says of each call which permission it has at its place; a step turns that
    of at most one call (`OneTurn`, `NoTurn`), but for a sweep, which withdraws several (`SweepIsGoverned`). That what
    ran keeps its permission when its row is overwritten is why `Permission` looks at `invoked` before `decision`.
  * `BudgetStops`: a step that reaches a model or a tool passes `CheckBudget`, which denies.

* `StdioTransportProofs`, for any number of owners, processes and requests. The steps are sorted by who takes them (`StepKinds`),
  so that each invariant meets only those that touch it:
  * `ProcessesAreKnown`: from `Turns` (without overlap one call of start() or stop() is under way) and `Alive` (what a stop()
    waits for is `self._process`, and a start() found none running). It holds at every moment, not only between the calls.
  * `MapIsTrue`: from `Mapped`: what a call still waits for with an open future is in the map, unless its own answer ended a
    reader (`dropped`), and the map is empty whenever there is no process. It needs no turns.
  * `TransportIsRead`: from `Read`: either a reader is at the output, or a stop() is under way, which does not return
    before the process is gone. It needs no turns either.
  * `TypeCorrect`.

Only model-checked: all liveness (fairness and ENABLED are out of TLAPS's reach). Refuted on an
instance: the properties of section 4.

## 6. Plan

Done: what the table in section 1 names a module for, and the proofs of section 5. Left:

1. A transport below `MCPClient`, whose calls now end when they like.
2. An abstract channel that `StdioTransport` implements: what a request that was written may be answered.
3. Sessions and the broker meet at `TokenRegister`, which both implement; they are not one specification.

### Not modelled, and why

The patterns of the sanitizer are regular expressions on text: `Sanitizer` has what they do to classes of
texts. `submit_plan` caches an approved plan that nothing reads. The wire formats of the clients, schemas of tools
and the texts of reasons are left out. Tracing, the edition switch, the CLI, templates, examples and
benchmarks neither keep state that matters nor decide anything at run time; the policy tester loads the policies it tests into
the engine it is given, and leaves them there, which is a matter of how it is run.
