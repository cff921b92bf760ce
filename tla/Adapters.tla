------------------------------- MODULE Adapters -------------------------------
(***************************************************************************)
(* Tool calls through the framework adapters (kitelogik/adapters) and the   *)
(* sync bridge of governed.py, down to the policy engine: one gate whose    *)
(* evaluator is an OPAClient or a RegorusClient, shared by calls on several *)
(* event loops; calls that one execute_all() awaits together; and shutdown  *)
(* by aclose() at any moment.  The policies do not change meanwhile.        *)
(***************************************************************************)
EXTENDS FiniteSets

CONSTANTS Calls,      \* tool calls, by whatever adapter
          Closers,    \* calls of aclose()
          LoopOf,     \* the loop a call (or aclose) runs on
          NoCall, NoLoop,
          Permitted,  \* the calls whose input the policies let pass
          Wirings     \* by which adapters and from which loops they may come, and
                      \* which of them are one batch

VARIABLES cached, cachedLoop, holder, closed, step, got, closer,
          engineLock, engineInput, thread, reply,
          inProcess,  \* the evaluator is a RegorusClient
          wiring,     \* one of Wirings
          at,         \* where each call is
          message,    \* what the model is told of it
          ran,        \* history: the calls whose tool was started
          dead,       \* history: the calls made with a dead token
          batch       \* where execute_all() is

OPA == INSTANCE OPAClient WITH Requests <- Calls, NoClient <- NoCall
Engine == INSTANCE RegorusClient WITH Requests <- Calls, NoInput <- NoCall

opaVars == <<cached, cachedLoop, holder, closed, step, got, closer>>
engineVars == <<engineLock, engineInput, thread, reply>>
setup == <<inProcess, wiring>>
callVars == <<at, message, ran, dead>>
vars == <<opaVars, engineVars, setup, callVars, batch>>

-----------------------------------------------------------------------------
(* The adapters differ in: whether they take calls from a coroutine or from *)
(* synchronous code; what they look at before the gate, the tool's name or  *)
(* also the text of its arguments; whether a refusal is a message or an     *)
(* exception; whether exceptions become messages; what a result that is not *)
(* text becomes, which may fail; and whether they work in a thread whose    *)
(* loop is running.                                                         *)

Adapter(entry, checks, refusal, traps, form) ==
    [entry |-> entry, checks |-> checks, refusal |-> refusal, traps |-> traps, form |-> form,
     nested |-> TRUE]

OpenAI == Adapter({"async", "sync"}, "arguments", "message", TRUE, "json")
Base == Adapter({"async"}, "name", "message", TRUE, "any")
OpenAIAgents == Adapter({"async"}, "arguments", "message", FALSE, "json")
AgentAsTool == Adapter({"async"}, "nothing", "message", FALSE, "any")
Handoff == Adapter({"async"}, "nothing", "exception", FALSE, "any")
LangChain == Adapter({"async", "sync"}, "nothing", "message", FALSE, "any")
LangChainToolkit == Adapter({"async", "sync"}, "nothing", "message", FALSE, "any")
LangGraph == Adapter({"async"}, "nothing", "message", FALSE, "any")
CrewAI == Adapter({"sync"}, "nothing", "message", FALSE, "any")
GoogleADK == Adapter({"async"}, "nothing", "message", FALSE, "json")
Haystack == Adapter({"sync"}, "nothing", "message", FALSE, "json")
LlamaIndex == Adapter({"async", "sync"}, "nothing", "message", FALSE, "json")
PydanticAI == Adapter({"async"}, "nothing", "message", FALSE, "json")
SemanticKernel == Adapter({"async"}, "nothing", "message", FALSE, "json")
Governed == Adapter({"async", "sync"}, "nothing", "exception", FALSE, "any")

\* Dify's tools are synchronous and use asyncio.run(), not the bridge.
Dify == [Adapter({"sync"}, "nothing", "message", FALSE, "json") EXCEPT !.nested = FALSE]

AdapterSet == [entry : SUBSET {"async", "sync"}, checks : {"nothing", "name", "arguments"},
               refusal : {"message", "exception"}, traps : BOOLEAN, form : {"json", "any"},
               nested : BOOLEAN]

Loops == {LoopOf[x] : x \in Calls \cup Closers}

\* _run_coroutine_sync and asyncio.run(): a loop of its own, for which the
\* calling thread waits, with the loop that runs in it, if any.
Bridged(w, c) == LoopOf[c] # w.from[c]

\* A loop that a bridged call runs on is nobody else's.
Consistent(w) ==
    \A c \in Calls :
        /\ (IF Bridged(w, c) THEN "sync" ELSE "async") \in w.adapter[c].entry
        /\ c \in w.batch => w.adapter[c] = OpenAI /\ ~Bridged(w, c)
        /\ Bridged(w, c) => \A x \in (Calls \cup Closers) \ {c} :
               LoopOf[c] # LoopOf[x] /\ (x \in Calls => LoopOf[c] # w.from[x])

ASSUME ConstantsAssumption ==
    /\ NoCall \notin Calls
    /\ NoLoop \notin Loops
    /\ Permitted \subseteq Calls
    /\ \A w \in Wirings :
          /\ w \in [adapter : [Calls -> AdapterSet], from : [Calls -> Loops \cup {NoLoop}],
                    batch : SUBSET Calls]
          /\ Consistent(w)

A(c) == wiring.adapter[c]
FromLoop(c) == wiring.from[c]
Batch == wiring.batch

Init == /\ OPA!Init
        /\ Engine!Init
        /\ inProcess \in BOOLEAN
        /\ wiring \in Wirings
        /\ at = [c \in Calls |-> "idle"]
        /\ message = [c \in Calls |-> "none"]
        /\ ran = {}
        /\ dead = {}
        /\ batch = "open"

-----------------------------------------------------------------------------
(* The loops.                                                              *)

\* An exception leaves the adapter: of the tool, the gate or the engine
\* ("raised"), of reading the arguments, or of encoding the result.
Failed == {"raised", "unreadable", "unencodable"}

Over == Failed \cup {"told", "cancelled"}

\* A loop is blocked by a bridged call that was made from it, and runs one
\* coroutine at a time.
Blocked(l) == \E c \in Calls : /\ Bridged(wiring, c) /\ FromLoop(c) = l
                               /\ at[c] \notin Over \cup {"idle"}
Free(l, x) == /\ ~Blocked(l)
              /\ \A c \in Calls \ {x} : LoopOf[c] = l => step[c] \notin OPA!Synchronous
              /\ \A q \in Closers \ {x} : LoopOf[q] = l => closer[q] # "unbinding"

MayBegin(c) == /\ at[c] = "idle"
               /\ c \in Batch => batch # "cancelled"
               /\ FromLoop(c) # NoLoop => Free(FromLoop(c), c)
MayResume(c) == Free(LoopOf[c], c)

Go(c, place) == at' = [at EXCEPT ![c] = place]

Tell(c, m) == Go(c, "told") /\ message' = [message EXCEPT ![c] = m]

\* GovernanceError.
Refuse(c) == IF A(c).refusal = "message" THEN Tell(c, "blocked")
                                         ELSE Go(c, "raised") /\ UNCHANGED message

\* Any other exception.
Fail(c) == IF A(c).traps THEN Tell(c, "error") ELSE Go(c, "raised") /\ UNCHANGED message

-----------------------------------------------------------------------------
(* One call.                                                               *)

\* Malformed arguments, or a tool that is not registered.
Unfit(c) == /\ A(c).checks # "nothing"
            /\ MayBegin(c)
            /\ Tell(c, "error")
            /\ UNCHANGED <<opaVars, engineVars, setup, ran, dead, batch>>

\* `except JSONDecodeError' is not all that reading a tool call may raise: it
\* may be nested too deeply, or be a call of another kind.
Unreadable(c) == /\ A(c).checks = "arguments"
                 /\ MayBegin(c)
                 /\ Go(c, "unreadable")
                 /\ UNCHANGED <<opaVars, engineVars, setup, message, ran, dead, batch>>

\* asyncio.run() in a thread whose loop is running.
RunRaises(c) == /\ ~A(c).nested /\ FromLoop(c) # NoLoop
                /\ MayBegin(c)
                /\ Go(c, "raised")
                /\ UNCHANGED <<opaVars, engineVars, setup, message, ran, dead, batch>>

CanRun(c) == A(c).nested \/ FromLoop(c) = NoLoop

\* The gate finds the token invalid, and asks no engine.
TokenDead(c) == /\ CanRun(c)
                /\ MayBegin(c)
                /\ dead' = dead \cup {c}
                /\ Refuse(c)
                /\ UNCHANGED <<opaVars, engineVars, setup, ran, batch>>

AskEngine(c) ==
    /\ CanRun(c)
    /\ MayBegin(c)
    /\ Go(c, "deciding")
    /\ IF inProcess THEN Engine!Ask(c) /\ UNCHANGED opaVars
                    ELSE OPA!Ask(c) /\ UNCHANGED engineVars
    /\ UNCHANGED <<setup, message, ran, dead, batch>>

\* The evaluator at work, in its threads also for a call that was cancelled.
EngineWorks(c) == /\ \/ OPA!Work(c) /\ UNCHANGED engineVars
                     \/ Engine!Work(c) /\ UNCHANGED opaVars
                  /\ UNCHANGED <<setup, callVars, batch>>

\* As a bug: a lost engine lets pass.
BugAllows(how, about) == how = "unreachable" \/ (how = "answered" /\ about \in Permitted)

\* _check_decision on the gate's answer; a lost engine denies.
Allows(how, about) == how = "answered" /\ about \in Permitted

\* The answer arrives and is acted upon, up to the tool's first await.
Decided(c, how) ==
    /\ at[c] = "deciding"
    /\ MayResume(c)
    /\ IF inProcess THEN Engine!Answer(c, how) /\ UNCHANGED opaVars
                    ELSE OPA!Answer(c, how) /\ UNCHANGED engineVars
    /\ LET about == IF inProcess THEN reply[c] ELSE c IN
       IF Allows(how, about)
       THEN Go(c, "running") /\ ran' = ran \cup {c} /\ UNCHANGED message
       ELSE /\ IF how = "raised" THEN Fail(c) ELSE Refuse(c)
            /\ UNCHANGED ran
    /\ UNCHANGED <<setup, dead, batch>>

\* The tool returns text, or a value that can be encoded, or another.  It is
\* encoded outside the reach of `except'.
ToolReturns(c, encodable) ==
    /\ at[c] = "running"
    /\ MayResume(c)
    /\ IF A(c).form = "json" /\ ~encodable
       THEN Go(c, "unencodable") /\ UNCHANGED message
       ELSE Tell(c, "result")
    /\ UNCHANGED <<opaVars, engineVars, setup, ran, dead, batch>>

\* As a bug: the adapters trap what the gate raises, and not what a tool does.
BugToolRaises(c) == /\ at[c] = "running"
                    /\ MayResume(c)
                    /\ Go(c, "raised")
                    /\ UNCHANGED <<opaVars, engineVars, setup, message, ran, dead, batch>>

ToolRaises(c) == /\ at[c] = "running"
                 /\ MayResume(c)
                 /\ Fail(c)
                 /\ UNCHANGED <<opaVars, engineVars, setup, ran, dead, batch>>

-----------------------------------------------------------------------------
(* execute_all(), cancellation, shutdown.                                  *)

BatchReturns == /\ batch = "open"
                /\ Batch # {}
                /\ \A c \in Batch : at[c] = "told"
                /\ batch' = "returned"
                /\ UNCHANGED <<opaVars, engineVars, setup, callVars>>

\* The first exception is raised to the caller; the other calls go on.
BatchRaises == /\ batch = "open"
               /\ \E c \in Batch : at[c] \in Failed
               /\ batch' = "raised"
               /\ UNCHANGED <<opaVars, engineVars, setup, callVars>>

\* A call is cancelled at an await, with its HTTP request, but not the thread
\* of an evaluation or a tool.  `except Exception' does not catch this.
Cancelled(c) ==
    /\ at[c] \in {"deciding", "running"}
    /\ MayResume(c)
    /\ c \in Batch => batch = "cancelled"
    /\ Go(c, "cancelled")
    /\ IF at[c] = "deciding" /\ ~inProcess THEN OPA!Abandon(c) ELSE UNCHANGED opaVars
    /\ UNCHANGED <<engineVars, setup, message, ran, dead, batch>>

CancelBatch == /\ batch = "open"
               /\ \E c \in Batch : at[c] \notin Over
               /\ batch' = "cancelled"
               /\ UNCHANGED <<opaVars, engineVars, setup, callVars>>

CloseStep(q) ==
    /\ \/ OPA!Close(q) \/ OPA!Closed(q) \/ OPA!CloseFails(q)
       \/ OPA!Unbind(q)
    /\ Free(LoopOf[q], q)
    /\ ~inProcess
    /\ UNCHANGED <<engineVars, setup, callVars, batch>>

CallStep(c) == \/ EngineWorks(c)
               \/ \E how \in {"answered", "unreachable", "raised"} : Decided(c, how)
               \/ \E encodable \in BOOLEAN : ToolReturns(c, encodable)
               \/ ToolRaises(c)

Next == \/ \E c \in Calls : \/ Unfit(c) \/ Unreadable(c) \/ RunRaises(c) \/ TokenDead(c) \/ AskEngine(c)
                            \/ CallStep(c) \/ Cancelled(c)
        \/ \E q \in Closers : CloseStep(q)
        \/ BatchReturns \/ BatchRaises \/ CancelBatch

Spec == Init /\ [][Next]_vars

\* While a coroutine or a thread can go on, one does: tools return or raise,
\* and the HTTP client has a timeout.  Nobody has to call, cancel or shut down.
\* No call can go on forever, so this brings all of them on.
GoOn == \/ \E c \in Calls : CallStep(c)
        \/ \E q \in Closers : closer[q] = "unbinding" /\ CloseStep(q)

FairSpec == Spec /\ WF_vars(GoOn)

-----------------------------------------------------------------------------
(* Properties.                                                             *)

\* The type of every variable, of all three modules.
TypeOK == /\ OPA!TypeOK
          /\ Engine!TypeOK
          /\ inProcess \in BOOLEAN
          /\ wiring \in Wirings
          /\ at \in [Calls -> Over \cup {"idle", "deciding", "running"}]
          /\ message \in [Calls -> {"none", "blocked", "error", "result"}]
          /\ ran \subseteq Calls
          /\ dead \subseteq Calls
          /\ batch \in {"open", "returned", "raised", "cancelled"}

\* A tool runs only for a call whose own input the policies let pass, however
\* evaluations share the engine or the client, and never after a refusal for
\* its token, a lost engine or an exception of the client.
OnlyPermittedRan == ran \subseteq Permitted \ dead

\* What the model is told is true: a call reported as blocked did not run, one
\* reported with a result did; and a batch that returns has told of all its
\* calls.  No exception of a tool or of an engine leaves a call of a batch, so
\* that it does not cost the others their messages: what ends a batch is a call
\* that cannot be read or whose result cannot be encoded.
MessagesAreTrue ==
    /\ \A c \in Calls : /\ message[c] = "blocked" => c \notin ran
                        /\ message[c] = "result" => c \in ran
    /\ batch = "returned" => \A c \in Batch : message[c] # "none"
    /\ \A c \in Batch : at[c] # "raised"
    /\ batch = "raised" => \E c \in Batch : at[c] \in {"unreadable", "unencodable"}

\* What OPAClient promises, with calls for requests.
ClientsFit == OPA!ClientsFit

\* What became of the question whether a call may run.
Permission(c) == IF at[c] \in {"idle", "deciding"} THEN "new"
                 ELSE IF c \in ran /\ c \in Permitted \ dead THEN "cleared" ELSE "refused"

Governance == INSTANCE GovernedCalls WITH permission <- [c \in Calls |-> Permission(c)]

\* Every step of a call, an evaluation, a batch, a cancellation or a shutdown is
\* one that governance allows: what was refused or given up is never started by
\* an answer that comes late, and no tool is started twice.
ImplementsGovernance == Governance!Spec

\* Whatever blocks whatever, every call comes to an end: again and again (each
\* is made once) none is under way.
EveryCallEnds == []<>(\A c \in Calls : at[c] \in Over \cup {"idle"})
=============================================================================
