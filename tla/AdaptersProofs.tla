---------------------------- MODULE AdaptersProofs ----------------------------
(***************************************************************************)
(* Proofs about the adapters, for every set of calls, every assignment of   *)
(* calls to loops and every wiring of adapters.                            *)
(***************************************************************************)
EXTENDS Adapters, TLAPS

-----------------------------------------------------------------------------
(* OPAClient.                                                              *)

\* Between Make and the end of a request its client exists.
Made == {"binding", "taking", "sending", "posting", "done"}

LockHeld == \A r \in Calls : step[r] \in {"making", "binding", "taking"} <=> holder = r

\* The cached client is of the loop noted with it, but for the moment in which
\* the holder has yet to note it, and for what an aclose() has unbound.
CacheBound ==
    cached # NoCall => \/ cachedLoop \in {LoopOf[cached], NoLoop}
                       \/ \E r \in Calls : step[r] = "binding"

HolderFits == \A r \in Calls :
    /\ step[r] = "binding" => cached \in {r, NoCall}
    /\ step[r] = "taking" => cached = NoCall \/ LoopOf[cached] = LoopOf[r]
    /\ step[r] \in {"sending", "posting"} => got[r] = NoCall \/ LoopOf[got[r]] = LoopOf[r]
    /\ step[r] = "posting" => got[r] # NoCall

CachedIsMade == /\ cached # NoCall => step[cached] \in Made
                /\ \A r \in closed : step[r] \in Made

ClosedIsKnown == cached \in closed => \E q \in Closers : closer[q] \in {"closing", "failed"}

ClientInv == OPA!TypeOK /\ LockHeld /\ CacheBound /\ HolderFits /\ CachedIsMade /\ ClosedIsKnown

RequestStep(r) == \/ OPA!Ask(r) \/ OPA!Work(r) \/ OPA!Abandon(r)
                  \/ \E how \in {"answered", "unreachable", "raised"} : OPA!Answer(r, how)

LEMMA LoopsAreLoops == ASSUME NEW r \in Calls PROVE LoopOf[r] # NoLoop
BY ConstantsAssumption DEF Loops

LEMMA RequestKeeps ==
    ASSUME ClientInv, NEW r \in Calls, RequestStep(r)
    PROVE  ClientInv'
<1> USE DEF OPA!Step
<1>1. NoCall \notin Calls /\ LoopOf[r] # NoLoop
      BY ConstantsAssumption, LoopsAreLoops
<1> USE <1>1
<1>2. CASE OPA!Ask(r) \/ OPA!Abandon(r) \/ OPA!Post(r)
           \/ \E how \in {"answered", "unreachable", "raised"} : OPA!Answer(r, how)
  <2> DEFINE new == step'[r]
  <2>1. /\ UNCHANGED <<cached, cachedLoop, holder, closed, got, closer>>
        /\ step' = [step EXCEPT ![r] = new]
        /\ \/ step[r] = "idle" /\ new = "locking"
           \/ step[r] = "sending" /\ new = "posting" /\ got[r] # NoCall
           \/ step[r] \in {"posting", "sending", "failed"} /\ new = "done"
        BY <1>2 DEF OPA!Ask, OPA!Abandon, OPA!Post, OPA!Answer, OPA!Usable, ClientInv, OPA!TypeOK
  <2> HIDE DEF new
  <2>2. OPA!TypeOK'
        BY <2>1 DEF ClientInv, OPA!TypeOK, OPA!Synchronous
  <2>3. LockHeld' /\ CacheBound' /\ HolderFits'
        BY <2>1 DEF ClientInv, OPA!TypeOK, LockHeld, CacheBound, HolderFits
  <2>4. CachedIsMade' /\ ClosedIsKnown'
        BY <2>1 DEF ClientInv, OPA!TypeOK, CachedIsMade, ClosedIsKnown, Made
  <2> QED
      BY <2>2, <2>3, <2>4 DEF ClientInv
<1>3. CASE OPA!Acquire(r)
  <2>1. /\ UNCHANGED <<cached, cachedLoop, closed, got, closer>>
        /\ holder = NoCall /\ holder' = r
        /\ step[r] = "locking"
        /\ step' = [step EXCEPT ![r] = IF OPA!MustMake(r) THEN "making" ELSE "taking"]
        BY <1>3 DEF OPA!Acquire
  <2>2. OPA!TypeOK' /\ LockHeld' /\ CachedIsMade' /\ ClosedIsKnown'
        BY <2>1 DEF ClientInv, OPA!TypeOK, OPA!Synchronous, LockHeld, CachedIsMade, Made,
                    ClosedIsKnown
  <2>3. \A x \in Calls : step[x] # "binding"
        BY <2>1 DEF ClientInv, LockHeld
  <2>4. ~OPA!MustMake(r) => LoopOf[cached] = LoopOf[r]
        BY <2>3 DEF OPA!MustMake, ClientInv, CacheBound
  <2>5. CacheBound' /\ HolderFits'
        BY <2>1, <2>3, <2>4 DEF ClientInv, OPA!TypeOK, CacheBound, HolderFits
  <2> QED
      BY <2>2, <2>5 DEF ClientInv
<1>4. CASE OPA!Make(r)
  <2>1. /\ UNCHANGED <<cachedLoop, holder, closed, got, closer>>
        /\ cached' = r /\ step[r] = "making"
        /\ step' = [step EXCEPT ![r] = "binding"]
        BY <1>4 DEF OPA!Make
  <2>2. \A x \in Calls \ {r} : step[x] \notin {"making", "binding", "taking"}
        BY <2>1 DEF ClientInv, LockHeld
  <2>3. r \notin closed
        BY <2>1 DEF ClientInv, CachedIsMade, Made
  <2>4. OPA!TypeOK' /\ LockHeld'
        BY <2>1 DEF ClientInv, OPA!TypeOK, OPA!Synchronous, LockHeld
  <2>5. CacheBound' /\ HolderFits'
        BY <2>1, <2>2 DEF ClientInv, OPA!TypeOK, CacheBound, HolderFits
  <2>6. CachedIsMade' /\ ClosedIsKnown'
        BY <2>1, <2>3 DEF ClientInv, OPA!TypeOK, CachedIsMade, Made, ClosedIsKnown
  <2> QED
      BY <2>4, <2>5, <2>6 DEF ClientInv
<1>5. CASE OPA!MakeFails(r)
  <2>1. /\ UNCHANGED <<cached, cachedLoop, closed, got, closer>>
        /\ holder' = NoCall /\ step[r] = "making"
        /\ step' = [step EXCEPT ![r] = "failed"]
        BY <1>5 DEF OPA!MakeFails
  <2>2. \A x \in Calls \ {r} : step[x] \notin {"making", "binding", "taking"}
        BY <2>1 DEF ClientInv, LockHeld
  <2>3. OPA!TypeOK' /\ LockHeld'
        BY <2>1, <2>2 DEF ClientInv, OPA!TypeOK, OPA!Synchronous, LockHeld
  <2>4. CacheBound' /\ HolderFits'
        BY <2>1, <2>2 DEF ClientInv, OPA!TypeOK, CacheBound, HolderFits
  <2>5. CachedIsMade' /\ ClosedIsKnown'
        BY <2>1 DEF ClientInv, OPA!TypeOK, CachedIsMade, Made, ClosedIsKnown
  <2> QED
      BY <2>3, <2>4, <2>5 DEF ClientInv
<1>6. CASE OPA!Bind(r)
  <2>1. /\ UNCHANGED <<cached, holder, closed, got, closer>>
        /\ cachedLoop' = LoopOf[r] /\ step[r] = "binding"
        /\ step' = [step EXCEPT ![r] = "taking"]
        BY <1>6 DEF OPA!Bind
  <2>2. cached \in {r, NoCall}
        BY <2>1 DEF ClientInv, HolderFits
  <2>3. OPA!TypeOK' /\ LockHeld'
        BY <2>1 DEF ClientInv, OPA!TypeOK, OPA!Synchronous, LockHeld
  <2>4. CacheBound' /\ HolderFits'
        BY <2>1, <2>2 DEF ClientInv, OPA!TypeOK, CacheBound, HolderFits
  <2>5. CachedIsMade' /\ ClosedIsKnown'
        BY <2>1 DEF ClientInv, OPA!TypeOK, CachedIsMade, Made, ClosedIsKnown
  <2> QED
      BY <2>3, <2>4, <2>5 DEF ClientInv
<1>7. CASE OPA!Take(r)
  <2>1. /\ UNCHANGED <<cached, cachedLoop, closed, closer>>
        /\ got' = [got EXCEPT ![r] = cached]
        /\ holder' = NoCall /\ step[r] = "taking"
        /\ step' = [step EXCEPT ![r] = "sending"]
        BY <1>7 DEF OPA!Take
  <2>2. \A x \in Calls \ {r} : step[x] \notin {"making", "binding", "taking"}
        BY <2>1 DEF ClientInv, LockHeld
  <2>3. cached = NoCall \/ LoopOf[cached] = LoopOf[r]
        BY <2>1 DEF ClientInv, HolderFits
  <2>4. OPA!TypeOK' /\ LockHeld'
        BY <2>1, <2>2 DEF ClientInv, OPA!TypeOK, OPA!Synchronous, LockHeld
  <2>5. CacheBound' /\ HolderFits'
        BY <2>1, <2>2, <2>3 DEF ClientInv, OPA!TypeOK, CacheBound, HolderFits
  <2>6. CachedIsMade' /\ ClosedIsKnown'
        BY <2>1 DEF ClientInv, OPA!TypeOK, CachedIsMade, Made, ClosedIsKnown
  <2> QED
      BY <2>4, <2>5, <2>6 DEF ClientInv
<1> QED
    BY <1>2, <1>3, <1>4, <1>5, <1>6, <1>7 DEF RequestStep, OPA!Work

LEMMA CloseKeeps ==
    ASSUME ClientInv, NEW q \in Closers,
           OPA!Close(q) \/ OPA!Closed(q) \/ OPA!CloseFails(q) \/ OPA!Unbind(q)
    PROVE  ClientInv'
<1>1. NoCall \notin Calls /\ UNCHANGED <<holder, step, got>>
      BY ConstantsAssumption DEF OPA!Close, OPA!Closed, OPA!CloseFails, OPA!Unbind
<1>2. LockHeld'
      BY <1>1 DEF ClientInv, LockHeld
<1>3. CASE OPA!Close(q)
  <2>1. UNCHANGED <<cached, cachedLoop>>
        BY <1>3 DEF OPA!Close
  <2>2. CacheBound' /\ HolderFits'
        BY <1>1, <2>1 DEF ClientInv, CacheBound, HolderFits
  <2>3. OPA!TypeOK' /\ CachedIsMade' /\ ClosedIsKnown'
        BY <1>1, <1>3, <2>1 DEF OPA!Close, ClientInv, OPA!TypeOK, CachedIsMade, ClosedIsKnown
  <2> QED
      BY <1>2, <2>2, <2>3 DEF ClientInv
<1>4. CASE OPA!Closed(q)
  <2>1. cached' = NoCall /\ UNCHANGED <<cachedLoop, closed>>
        BY <1>4 DEF OPA!Closed
  <2>2. CacheBound' /\ HolderFits'
        BY <1>1, <2>1 DEF ClientInv, CacheBound, HolderFits
  <2>3. OPA!TypeOK' /\ CachedIsMade' /\ ClosedIsKnown'
        BY <1>1, <1>4, <2>1 DEF OPA!Closed, ClientInv, OPA!TypeOK, CachedIsMade, ClosedIsKnown
  <2> QED
      BY <1>2, <2>2, <2>3 DEF ClientInv
<1>5. CASE OPA!CloseFails(q)
  <2>1. UNCHANGED <<cached, cachedLoop, closed>>
        BY <1>5 DEF OPA!CloseFails
  <2>2. CacheBound' /\ HolderFits'
        BY <1>1, <2>1 DEF ClientInv, CacheBound, HolderFits
  <2>3. OPA!TypeOK' /\ CachedIsMade' /\ ClosedIsKnown'
        BY <1>1, <1>5, <2>1 DEF OPA!CloseFails, ClientInv, OPA!TypeOK, CachedIsMade, ClosedIsKnown
  <2> QED
      BY <1>2, <2>2, <2>3 DEF ClientInv
<1>6. CASE OPA!Unbind(q)
  <2>1. cachedLoop' = NoLoop /\ UNCHANGED <<cached, closed>>
        BY <1>6 DEF OPA!Unbind
  <2>2. CacheBound' /\ HolderFits'
        BY <1>1, <2>1 DEF ClientInv, CacheBound, HolderFits
  <2>3. OPA!TypeOK' /\ CachedIsMade' /\ ClosedIsKnown'
        BY <1>1, <1>6, <2>1 DEF OPA!Unbind, ClientInv, OPA!TypeOK, CachedIsMade, ClosedIsKnown
  <2> QED
      BY <1>2, <2>2, <2>3 DEF ClientInv
<1> QED
    BY <1>3, <1>4, <1>5, <1>6

LEMMA ClientUnchanged == ASSUME ClientInv, UNCHANGED opaVars PROVE ClientInv'
BY DEF ClientInv, opaVars, OPA!TypeOK, LockHeld, CacheBound, HolderFits, CachedIsMade, ClosedIsKnown

-----------------------------------------------------------------------------
(* RegorusClient.                                                          *)

\* An evaluation holds the lock, over its own input, so its answer is its own.
EvaluationsAreOwn == \A r \in Calls :
    /\ thread[r] = "evaluating" <=> engineLock = r
    /\ thread[r] = "evaluating" => engineInput = r
    /\ thread[r] = "answered" => reply[r] = r

EngineInv == Engine!TypeOK /\ EvaluationsAreOwn

LEMMA EngineKeeps ==
    ASSUME EngineInv, NEW r \in Calls, Engine!Ask(r) \/ Engine!Work(r)
    PROVE  EngineInv'
<1> USE DEF Engine!Step, EngineInv, Engine!TypeOK, EvaluationsAreOwn
<1>1. NoCall \notin Calls
      BY ConstantsAssumption
<1>2. CASE Engine!Ask(r) \/ Engine!InputRaises(r)
      BY <1>1, <1>2 DEF Engine!Ask, Engine!InputRaises
<1>3. CASE Engine!SetInput(r)
      BY <1>1, <1>3 DEF Engine!SetInput
<1>4. ASSUME NEW ok \in BOOLEAN, Engine!Eval(r, ok) PROVE EngineInv'
      BY <1>1, <1>4 DEF Engine!Eval
<1> QED
    BY <1>2, <1>3, <1>4 DEF Engine!Work

LEMMA EngineUnchanged == ASSUME EngineInv, UNCHANGED engineVars PROVE EngineInv'
BY DEF EngineInv, engineVars, Engine!TypeOK, EvaluationsAreOwn

-----------------------------------------------------------------------------
(* The calls.                                                              *)

CallTypes == /\ inProcess \in BOOLEAN
             /\ wiring \in Wirings
             /\ at \in [Calls -> Over \cup {"idle", "deciding", "running"}]
             /\ message \in [Calls -> {"none", "blocked", "error", "result"}]
             /\ ran \subseteq Calls
             /\ dead \subseteq Calls
             /\ batch \in {"open", "returned", "raised", "cancelled"}

\* Where a call is, and what has happened to it and is told of it.
PlacesAreTrue == \A c \in Calls :
    /\ at[c] = "told" <=> message[c] # "none"
    /\ at[c] = "running" => c \in ran
    /\ c \in ran => c \in Permitted /\ c \notin dead /\ at[c] \notin {"idle", "deciding"}
    /\ c \in dead => at[c] \in Over
    /\ message[c] = "blocked" => c \notin ran
    /\ message[c] = "result" => c \in ran
    /\ c \in Batch => at[c] # "raised"

ReturnsAreWhole == batch = "returned" => \A c \in Batch : at[c] = "told"

\* What ended a batch is there to be seen.
RaisesHaveACause == batch = "raised" => \E c \in Batch : at[c] \in {"unreadable", "unencodable"}

CallInv == CallTypes /\ PlacesAreTrue /\ ReturnsAreWhole /\ RaisesHaveACause

Inv == ClientInv /\ EngineInv /\ CallInv

\* A batch is of OpenAIAdapter, which turns a refusal and an exception of the tool
\* or the engine into a message.
LEMMA BatchIsOpenAI ==
    ASSUME CallTypes, NEW c \in Batch
    PROVE  c \in Calls /\ A(c).refusal = "message" /\ A(c).traps /\ A(c).nested
<1>1. wiring.batch \in SUBSET Calls /\ Consistent(wiring)
      BY ConstantsAssumption DEF CallTypes
<1>2. c \in Calls /\ A(c) = OpenAI
      BY <1>1 DEF Consistent, Batch, A
<1> QED
    BY <1>2 DEF OpenAI, Adapter

\* A call moves on, and what it is told, and what is known of it, with it.
LEMMA MoveKeeps ==
    ASSUME CallInv, NEW c \in Calls, at[c] \in {"idle", "deciding", "running"},
           NEW p \in Over \cup {"deciding", "running"},
           NEW m \in {"none", "blocked", "error", "result"},
           UNCHANGED <<setup, batch>>,
           at' = [at EXCEPT ![c] = p],
           message' = [message EXCEPT ![c] = m],
           p = "told" <=> m # "none",
           ran' \in {ran, ran \cup {c}},
           dead' \in {dead, dead \cup {c}},
           p = "running" \/ m = "result" => c \in ran',
           c \in ran' => c \in Permitted /\ c \notin dead' /\ p # "deciding" /\ m # "blocked",
           c \in dead' => p \in Over,
           c \in Batch => p # "raised"
    PROVE  CallInv'
<1>1. CallTypes'
      BY DEF CallInv, CallTypes, setup, Over, Failed
<1>2. at'[c] = p /\ message'[c] = m /\ \A x \in Calls \ {c} :
          at'[x] = at[x] /\ message'[x] = message[x] /\ (x \in ran' <=> x \in ran)
          /\ (x \in dead' <=> x \in dead)
      BY DEF CallInv, CallTypes
<1>3. Batch' = Batch
      BY DEF Batch, setup
<1>4. ASSUME NEW x \in Calls \ {c}
      PROVE  /\ at'[x] = "told" <=> message'[x] # "none"
             /\ at'[x] = "running" => x \in ran'
             /\ x \in ran' => x \in Permitted /\ x \notin dead' /\ at'[x] \notin {"idle", "deciding"}
             /\ x \in dead' => at'[x] \in Over
             /\ message'[x] = "blocked" => x \notin ran'
             /\ message'[x] = "result" => x \in ran'
             /\ x \in Batch' => at'[x] # "raised"
      BY <1>2, <1>3, <1>4 DEF CallInv, PlacesAreTrue
<1>5. /\ at'[c] = "told" <=> message'[c] # "none"
      /\ at'[c] = "running" => c \in ran'
      /\ c \in ran' => c \in Permitted /\ c \notin dead' /\ at'[c] \notin {"idle", "deciding"}
      /\ c \in dead' => at'[c] \in Over
      /\ message'[c] = "blocked" => c \notin ran'
      /\ message'[c] = "result" => c \in ran'
      /\ c \in Batch' => at'[c] # "raised"
      BY <1>2, <1>3 DEF Over, Failed
<1>6. PlacesAreTrue'
      BY <1>4, <1>5 DEF PlacesAreTrue
<1>7. ReturnsAreWhole'
      BY <1>2, <1>3 DEF CallInv, ReturnsAreWhole
<1>8. RaisesHaveACause'
      BY <1>2, <1>3 DEF CallInv, RaisesHaveACause
<1> QED
    BY <1>1, <1>6, <1>7, <1>8 DEF CallInv

\* Of a call under way no message is there yet, and if it has not reached its
\* tool nothing else is known of it.
LEMMA UnderWay ==
    ASSUME CallInv, NEW c \in Calls, at[c] \in {"idle", "deciding", "running"}
    PROVE  /\ message[c] = "none" /\ c \notin dead
           /\ message = [message EXCEPT ![c] = "none"]
           /\ at[c] # "running" => c \notin ran
           /\ at[c] = "running" => c \in ran /\ c \in Permitted
BY DEF CallInv, CallTypes, PlacesAreTrue, Over, Failed

LEMMA RefuseKeeps ==
    ASSUME CallInv, NEW c \in Calls, at[c] \in {"idle", "deciding"}, Refuse(c),
           UNCHANGED <<setup, batch, ran>>, dead' \in {dead, dead \cup {c}}
    PROVE  CallInv'
<1>1. CASE A(c).refusal = "message"
  <2>1. at' = [at EXCEPT ![c] = "told"] /\ message' = [message EXCEPT ![c] = "blocked"]
        BY <1>1 DEF Refuse, Tell, Go
  <2> QED
      BY <2>1, MoveKeeps, UnderWay DEF Over, Failed
<1>2. CASE A(c).refusal # "message"
  <2>1. at' = [at EXCEPT ![c] = "raised"] /\ message' = [message EXCEPT ![c] = "none"]
        BY <1>2, UnderWay DEF Refuse, Go
  <2>2. c \notin Batch
        BY <1>2, BatchIsOpenAI DEF CallInv
  <2> QED
      BY <2>1, <2>2, MoveKeeps, UnderWay DEF Over, Failed
<1> QED
    BY <1>1, <1>2

LEMMA FailKeeps ==
    ASSUME CallInv, NEW c \in Calls, at[c] \in {"deciding", "running"}, Fail(c),
           UNCHANGED <<setup, batch, ran, dead>>
    PROVE  CallInv'
<1>1. CASE A(c).traps
  <2>1. at' = [at EXCEPT ![c] = "told"] /\ message' = [message EXCEPT ![c] = "error"]
        BY <1>1 DEF Fail, Tell, Go
  <2> QED
      BY <2>1, MoveKeeps, UnderWay DEF Over, Failed
<1>2. CASE ~A(c).traps
  <2>1. at' = [at EXCEPT ![c] = "raised"] /\ message' = [message EXCEPT ![c] = "none"]
        BY <1>2, UnderWay DEF Fail, Go
  <2>2. c \notin Batch
        BY <1>2, BatchIsOpenAI DEF CallInv
  <2> QED
      BY <2>1, <2>2, MoveKeeps, UnderWay DEF Over, Failed
<1> QED
    BY <1>1, <1>2

LEMMA CallUnchanged == ASSUME CallInv, UNCHANGED <<setup, callVars, batch>> PROVE CallInv'
BY DEF CallInv, CallTypes, PlacesAreTrue, ReturnsAreWhole, RaisesHaveACause, setup, callVars, Batch

\* No new answer of the evaluator is needed where its variables stay.
LEMMA EngineAnswers ==
    ASSUME NEW c \in Calls, NEW how \in {"answered", "unreachable", "raised"},
           IF inProcess THEN Engine!Answer(c, how) /\ UNCHANGED opaVars
                        ELSE OPA!Answer(c, how) /\ UNCHANGED engineVars
    PROVE  /\ RequestStep(c) \/ UNCHANGED opaVars
           /\ UNCHANGED engineVars
           /\ inProcess => thread[c] = how
<1>1. CASE inProcess
      BY <1>1 DEF Engine!Answer, engineVars, Engine!engineVars
<1>2. CASE ~inProcess
      BY <1>2 DEF RequestStep
<1> QED
    BY <1>1, <1>2

LEMMA StartKeeps ==
    ASSUME Inv, NEW c \in Calls, Unfit(c) \/ Unreadable(c) \/ RunRaises(c) \/ TokenDead(c) \/ AskEngine(c)
    PROVE  Inv'
<1> USE DEF Inv
<1>1. CASE Unfit(c)
  <2>1. /\ at[c] = "idle" /\ at' = [at EXCEPT ![c] = "told"]
        /\ message' = [message EXCEPT ![c] = "error"]
        /\ UNCHANGED <<opaVars, engineVars, setup, ran, dead, batch>>
        BY <1>1 DEF Unfit, MayBegin, Tell, Go
  <2>2. CallInv'
        BY <2>1, MoveKeeps, UnderWay DEF Over, Failed
  <2> QED
      BY <2>1, <2>2, ClientUnchanged, EngineUnchanged
<1>2. CASE RunRaises(c)
  <2>1. /\ at[c] = "idle" /\ at' = [at EXCEPT ![c] = "raised"]
        /\ message' = [message EXCEPT ![c] = "none"]
        /\ UNCHANGED <<opaVars, engineVars, setup, ran, dead, batch>>
        BY <1>2, UnderWay DEF RunRaises, MayBegin, Go
  <2>2. c \notin Batch
        BY <1>2, BatchIsOpenAI DEF RunRaises, CallInv
  <2>3. CallInv'
        BY <2>1, <2>2, MoveKeeps, UnderWay DEF Over, Failed
  <2> QED
      BY <2>1, <2>3, ClientUnchanged, EngineUnchanged
<1>3. CASE TokenDead(c)
  <2>1. /\ at[c] = "idle" /\ Refuse(c) /\ dead' = dead \cup {c}
        /\ UNCHANGED <<opaVars, engineVars, setup, ran, batch>>
        BY <1>3 DEF TokenDead, MayBegin
  <2>2. CallInv'
        BY <2>1, RefuseKeeps
  <2> QED
      BY <2>1, <2>2, ClientUnchanged, EngineUnchanged
<1>4. CASE AskEngine(c)
  <2>1. /\ at[c] = "idle" /\ at' = [at EXCEPT ![c] = "deciding"]
        /\ message' = [message EXCEPT ![c] = "none"]
        /\ UNCHANGED <<setup, ran, dead, batch>>
        BY <1>4, UnderWay DEF AskEngine, MayBegin, Go
  <2>2. CallInv'
        BY <2>1, MoveKeeps, UnderWay DEF Over, Failed
  <2>3. ClientInv' /\ EngineInv'
    <3>1. CASE inProcess
          BY <1>4, <3>1, EngineKeeps, ClientUnchanged DEF AskEngine
    <3>2. CASE ~inProcess
          BY <1>4, <3>2, RequestKeeps, EngineUnchanged DEF AskEngine, RequestStep
    <3> QED
        BY <3>1, <3>2
  <2> QED
      BY <2>2, <2>3
<1>5. CASE Unreadable(c)
  <2>1. /\ at[c] = "idle" /\ at' = [at EXCEPT ![c] = "unreadable"]
        /\ message' = [message EXCEPT ![c] = "none"]
        /\ UNCHANGED <<opaVars, engineVars, setup, ran, dead, batch>>
        BY <1>5, UnderWay DEF Unreadable, MayBegin, Go
  <2>2. CallInv'
        BY <2>1, MoveKeeps, UnderWay DEF Over, Failed
  <2> QED
      BY <2>1, <2>2, ClientUnchanged, EngineUnchanged
<1> QED
    BY <1>1, <1>2, <1>3, <1>4, <1>5

LEMMA DecidedKeeps ==
    ASSUME Inv, NEW c \in Calls, NEW how \in {"answered", "unreachable", "raised"},
           Decided(c, how)
    PROVE  Inv'
<1> USE DEF Inv
<1> DEFINE about == IF inProcess THEN reply[c] ELSE c
<1>1. /\ at[c] = "deciding" /\ UNCHANGED <<setup, dead, batch>>
      /\ IF inProcess THEN Engine!Answer(c, how) /\ UNCHANGED opaVars
                      ELSE OPA!Answer(c, how) /\ UNCHANGED engineVars
      /\ IF Allows(how, about)
         THEN Go(c, "running") /\ ran' = ran \cup {c} /\ UNCHANGED message
         ELSE (IF how = "raised" THEN Fail(c) ELSE Refuse(c)) /\ UNCHANGED ran
      BY DEF Decided
<1>2. ClientInv' /\ EngineInv' /\ (inProcess => thread[c] = how)
      BY <1>1, EngineAnswers, RequestKeeps, ClientUnchanged, EngineUnchanged
<1>3. CASE Allows(how, about)
  <2>1. about = c
        BY <1>2, <1>3 DEF Allows, EngineInv, EvaluationsAreOwn
  <2>2. c \in Permitted
        BY <1>3, <2>1 DEF Allows
  <2>3. /\ at' = [at EXCEPT ![c] = "running"] /\ ran' = ran \cup {c}
        /\ message' = [message EXCEPT ![c] = "none"]
        BY <1>1, <1>3, UnderWay DEF Go
  <2>4. CallInv'
        BY <1>1, <2>2, <2>3, MoveKeeps, UnderWay DEF Over, Failed
  <2> QED
      BY <1>2, <2>4
<1>4. CASE ~Allows(how, about)
  <2>1. CASE how = "raised"
        BY <1>1, <1>2, <1>4, <2>1, FailKeeps
  <2>2. CASE how # "raised"
        BY <1>1, <1>2, <1>4, <2>2, RefuseKeeps
  <2> QED
      BY <2>1, <2>2
<1> QED
    BY <1>3, <1>4

LEMMA RunKeeps ==
    ASSUME Inv, NEW c \in Calls,
           ToolRaises(c) \/ Cancelled(c) \/ \E encodable \in BOOLEAN : ToolReturns(c, encodable)
    PROVE  Inv'
<1> USE DEF Inv
<1>1. ASSUME NEW encodable \in BOOLEAN, ToolReturns(c, encodable) PROVE Inv'
  <2>1. at[c] = "running" /\ UNCHANGED <<opaVars, engineVars, setup, ran, dead, batch>>
        BY <1>1 DEF ToolReturns
  <2>2. \/ /\ at' = [at EXCEPT ![c] = "unencodable"]
           /\ message' = [message EXCEPT ![c] = "none"]
        \/ /\ at' = [at EXCEPT ![c] = "told"]
           /\ message' = [message EXCEPT ![c] = "result"]
        BY <1>1, UnderWay DEF ToolReturns, Tell, Go
  <2>3. CallInv'
        BY <2>1, <2>2, MoveKeeps, UnderWay DEF Over, Failed
  <2> QED
      BY <2>1, <2>3, ClientUnchanged, EngineUnchanged
<1>2. CASE ToolRaises(c)
  <2>1. /\ at[c] = "running" /\ Fail(c)
        /\ UNCHANGED <<opaVars, engineVars, setup, ran, dead, batch>>
        BY <1>2 DEF ToolRaises
  <2>2. CallInv'
        BY <2>1, FailKeeps
  <2> QED
      BY <2>1, <2>2, ClientUnchanged, EngineUnchanged
<1>3. CASE Cancelled(c)
  <2>1. /\ at[c] \in {"deciding", "running"} /\ at' = [at EXCEPT ![c] = "cancelled"]
        /\ message' = [message EXCEPT ![c] = "none"]
        /\ UNCHANGED <<engineVars, setup, ran, dead, batch>>
        /\ OPA!Abandon(c) \/ UNCHANGED opaVars
        BY <1>3, UnderWay DEF Cancelled, Go
  <2>2. CallInv'
        BY <2>1, MoveKeeps, UnderWay DEF Over, Failed
  <2>3. ClientInv'
        BY <2>1, RequestKeeps, ClientUnchanged DEF RequestStep
  <2> QED
      BY <2>1, <2>2, <2>3, EngineUnchanged
<1> QED
    BY <1>1, <1>2, <1>3

LEMMA BatchKeeps == ASSUME Inv, BatchReturns \/ BatchRaises \/ CancelBatch PROVE Inv'
<1>1. UNCHANGED <<opaVars, engineVars, setup, callVars>>
      BY DEF BatchReturns, BatchRaises, CancelBatch
<1>2. /\ batch = "open" /\ batch' \in {"returned", "raised", "cancelled"}
      /\ batch' = "returned" => \A c \in Batch : at[c] = "told"
      /\ batch' = "raised" => \E c \in Batch : at[c] \in Failed
      BY DEF BatchReturns, BatchRaises, CancelBatch
<1>3. CallTypes' /\ PlacesAreTrue'
      BY <1>1, <1>2 DEF Inv, CallInv, CallTypes, PlacesAreTrue, setup, callVars, Batch
<1>4. ReturnsAreWhole'
      BY <1>1, <1>2 DEF ReturnsAreWhole, setup, callVars, Batch
<1>5. RaisesHaveACause'
  <2>1. \A c \in Batch : at[c] # "raised"
        BY BatchIsOpenAI DEF Inv, CallInv, PlacesAreTrue
  <2> QED
      BY <1>1, <1>2, <2>1 DEF RaisesHaveACause, Failed, setup, callVars, Batch
<1> QED
    BY <1>1, <1>3, <1>4, <1>5, ClientUnchanged, EngineUnchanged DEF Inv, CallInv

LEMMA InvInit == Init => Inv
<1> SUFFICES ASSUME Init PROVE Inv
    OBVIOUS
<1>1. NoCall \notin Calls
      BY ConstantsAssumption
<1>2. ClientInv
      BY <1>1 DEF Init, OPA!Init, ClientInv, OPA!TypeOK, OPA!Synchronous, LockHeld, CacheBound,
                  HolderFits, CachedIsMade, ClosedIsKnown
<1>3. EngineInv
      BY <1>1 DEF Init, Engine!Init, EngineInv, Engine!TypeOK, EvaluationsAreOwn
<1>4. CallInv
      BY DEF Init, CallInv, CallTypes, PlacesAreTrue, ReturnsAreWhole, RaisesHaveACause
<1> QED
    BY <1>2, <1>3, <1>4 DEF Inv

LEMMA InvNext == Inv /\ [Next]_vars => Inv'
<1> SUFFICES ASSUME Inv, [Next]_vars PROVE Inv'
    OBVIOUS
<1>1. ASSUME NEW c \in Calls, Unfit(c) \/ Unreadable(c) \/ RunRaises(c) \/ TokenDead(c) \/ AskEngine(c)
      PROVE  Inv'
      BY <1>1, StartKeeps
<1>2. ASSUME NEW c \in Calls, EngineWorks(c) PROVE Inv'
  <2>1. /\ RequestStep(c) \/ UNCHANGED opaVars
        /\ Engine!Work(c) \/ UNCHANGED engineVars
        /\ UNCHANGED <<setup, callVars, batch>>
        BY <1>2 DEF EngineWorks, RequestStep
  <2> QED
      BY <2>1, RequestKeeps, ClientUnchanged, EngineKeeps, EngineUnchanged, CallUnchanged DEF Inv
<1>3. ASSUME NEW c \in Calls, NEW how \in {"answered", "unreachable", "raised"}, Decided(c, how)
      PROVE  Inv'
      BY <1>3, DecidedKeeps
<1>4. ASSUME NEW c \in Calls,
             ToolRaises(c) \/ Cancelled(c) \/ \E encodable \in BOOLEAN : ToolReturns(c, encodable)
      PROVE  Inv'
      BY <1>4, RunKeeps
<1>5. ASSUME NEW q \in Closers, CloseStep(q) PROVE Inv'
  <2>1. ClientInv' /\ UNCHANGED <<engineVars, setup, callVars, batch>>
        BY <1>5, CloseKeeps DEF CloseStep, Inv
  <2> QED
      BY <2>1, EngineUnchanged, CallUnchanged DEF Inv
<1>6. CASE BatchReturns \/ BatchRaises \/ CancelBatch
      BY <1>6, BatchKeeps
<1>7. CASE UNCHANGED vars
      BY <1>7, ClientUnchanged, EngineUnchanged, CallUnchanged DEF Inv, vars
<1> QED
    BY <1>1, <1>2, <1>3, <1>4, <1>5, <1>6, <1>7 DEF Next, CallStep

LEMMA Invariance == Spec => []Inv
BY InvInit, InvNext, PTL DEF Spec

-----------------------------------------------------------------------------
(* Calls through adapters are governed.                                    *)

\* One call moves on, or none.
Moves(c) == /\ at[c] \in {"idle", "deciding", "running"}
            /\ \E p \in Over \cup {"deciding", "running"} : at' = [at EXCEPT ![c] = p]
            /\ at'[c] = "deciding" => at[c] = "idle"
            /\ ran' = ran \/ (at[c] = "deciding" /\ ran' = ran \cup {c})
            /\ dead' \in {dead, dead \cup {c}}

LEMMA AllMove ==
    ASSUME Inv, [Next]_vars
    PROVE  UNCHANGED <<at, ran, dead>> \/ \E c \in Calls : Moves(c)
<1> USE DEF Inv, CallInv, CallTypes
<1>1. ASSUME NEW c \in Calls,
              Unfit(c) \/ Unreadable(c) \/ RunRaises(c) \/ AskEngine(c)
      PROVE  Moves(c)
      BY <1>1 DEF Unfit, Unreadable, RunRaises, AskEngine, MayBegin, Tell, Go, Moves, Over, Failed
<1>2. ASSUME NEW c \in Calls, TokenDead(c) PROVE Moves(c)
      BY <1>2 DEF TokenDead, MayBegin, Refuse, Tell, Go, Moves, Over, Failed
<1>3. ASSUME NEW c \in Calls, NEW how \in {"answered", "unreachable", "raised"}, Decided(c, how)
      PROVE  Moves(c)
  <2>1. /\ at[c] = "deciding" /\ UNCHANGED dead
        /\ \/ at' = [at EXCEPT ![c] = "running"] /\ ran' = ran \cup {c}
           \/ (Fail(c) \/ Refuse(c)) /\ UNCHANGED ran
        BY <1>3 DEF Decided, Go
  <2> QED  BY <2>1 DEF Fail, Refuse, Tell, Go, Moves, Over, Failed
<1>4. ASSUME NEW c \in Calls, NEW encodable \in BOOLEAN, ToolReturns(c, encodable) PROVE Moves(c)
      BY <1>4 DEF ToolReturns, Tell, Go, Moves, Over, Failed
<1>5. ASSUME NEW c \in Calls, ToolRaises(c) \/ Cancelled(c) PROVE Moves(c)
      BY <1>5 DEF ToolRaises, Cancelled, Fail, Tell, Go, Moves, Over, Failed
<1>6. ASSUME NEW c \in Calls, EngineWorks(c) PROVE UNCHANGED <<at, ran, dead>>
      BY <1>6 DEF EngineWorks, callVars
<1>7. ASSUME NEW q \in Closers, CloseStep(q) PROVE UNCHANGED <<at, ran, dead>>
      BY <1>7 DEF CloseStep, callVars
<1>8. CASE BatchReturns \/ BatchRaises \/ CancelBatch
      BY <1>8 DEF BatchReturns, BatchRaises, CancelBatch, callVars
<1>9. CASE UNCHANGED vars
      BY <1>9 DEF vars, callVars
<1> HIDE DEF Inv, CallInv, CallTypes
<1> QED
    BY <1>1, <1>2, <1>3, <1>4, <1>5, <1>6, <1>7, <1>8, <1>9 DEF Next, CallStep

\* What is started is permitted, and its token was valid.
LEMMA RanIsCleared ==
    ASSUME CallInv, NEW c \in Calls
    PROVE  Permission(c) = IF c \in ran THEN "cleared"
                           ELSE IF at[c] \in {"idle", "deciding"} THEN "new" ELSE "refused"
BY DEF CallInv, CallTypes, PlacesAreTrue, Permission

LEMMA MoveIsGoverned ==
    ASSUME Inv, Inv', NEW c \in Calls, Moves(c)
    PROVE  [Governance!Next]_(Governance!vars)
<1> USE DEF Inv
<1>1. /\ \A x \in Calls \ {c} : /\ at'[x] = at[x] /\ (x \in ran' <=> x \in ran)
                                /\ x \in dead' <=> x \in dead
      /\ at'[c] # "idle"
      BY DEF Moves, CallInv, CallTypes, Over, Failed
<1>2. ASSUME NEW x \in Calls \ {c} PROVE Permission(x)' = Permission(x)
  <2>1. x \in (Permitted \ dead)' <=> x \in Permitted \ dead
        BY <1>1
  <2>2. at'[x] = at[x] /\ (x \in ran' <=> x \in ran)
        BY <1>1
  <2> QED  BY <2>1, <2>2 DEF Permission
<1>3. /\ c \in ran' => c \in Permitted /\ c \notin dead' /\ at'[c] \notin {"idle", "deciding"}
      /\ at[c] = "running" => c \in ran
      BY DEF CallInv, PlacesAreTrue
<1>4. CASE c \in ran' /\ c \notin ran
  <2>1. at[c] = "deciding" /\ ran' = ran \cup {c}
        BY <1>4 DEF Moves
  <2>2. Permission(c) = "new" /\ Permission(c)' = "cleared"
        BY <1>3, <1>4, <2>1 DEF Permission
  <2>3. [x \in Calls |-> Permission(x)]' = [[x \in Calls |-> Permission(x)] EXCEPT ![c] = "cleared"]
        BY <1>2, <2>2
  <2>4. Governance!Clear(c)
        BY <2>1, <2>2, <2>3 DEF Governance!Clear, Governance!Turn
  <2> QED  BY <2>4 DEF Governance!Next
<1>5. CASE c \notin ran' /\ at'[c] # "deciding"
  <2>1. ran' = ran /\ at[c] \in {"idle", "deciding"}
        BY <1>3, <1>5 DEF Moves
  <2>2. Permission(c) = "new" /\ Permission(c)' = "refused"
        BY <1>1, <1>5, <2>1 DEF Permission
  <2>3. [x \in Calls |-> Permission(x)]' = [[x \in Calls |-> Permission(x)] EXCEPT ![c] = "refused"]
        BY <1>2, <2>2
  <2>4. Governance!Refuse(c)
        BY <2>1, <2>2, <2>3 DEF Governance!Refuse, Governance!Turn
  <2> QED  BY <2>4 DEF Governance!Next
<1>6. CASE c \in ran \/ at'[c] = "deciding"
  <2>1. ran' = ran
        BY <1>3, <1>6 DEF Moves, CallInv, PlacesAreTrue
  <2>2. Permission(c)' = Permission(c)
    <3>1. CASE at'[c] = "deciding"
          BY <3>1 DEF Moves, Permission
    <3>2. CASE c \in ran /\ at'[c] # "deciding"
          BY <1>1, <1>3, <2>1, <3>2, RanIsCleared DEF Permission
    <3> QED  BY <1>6, <3>1, <3>2
  <2> QED  BY <1>2, <2>1, <2>2 DEF Governance!vars
<1> QED  BY <1>4, <1>5, <1>6 DEF Moves

-----------------------------------------------------------------------------
(* The theorems.                                                           *)

\* Every variable of the adapters, the OPA client and the engine keeps its type.
THEOREM TypeCorrect == Spec => []TypeOK
<1>1. Inv => TypeOK
      BY DEF Inv, ClientInv, EngineInv, CallInv, CallTypes, TypeOK
<1> QED
    BY <1>1, Invariance, PTL

\* A tool runs only for a call that the policies let pass, and whose token is
\* valid: RegorusClient never answers for another evaluation's input, and a
\* client that raises, or an engine that is lost, starts nothing.
THEOREM PermittedOnly == Spec => []OnlyPermittedRan
<1>1. Inv => OnlyPermittedRan
      BY DEF Inv, CallInv, CallTypes, PlacesAreTrue, OnlyPermittedRan
<1> QED
    BY <1>1, Invariance, PTL

\* What the model is told of a call, and what execute_all() returns, is true, and
\* no exception of a tool or of an engine ends an execute_all().
THEOREM MessagesTrue == Spec => []MessagesAreTrue
<1>1. Inv => MessagesAreTrue
  <2> SUFFICES ASSUME Inv PROVE MessagesAreTrue
      OBVIOUS
  <2>1. \A c \in Batch : c \in Calls
        BY BatchIsOpenAI DEF Inv, CallInv
  <2> QED
      BY <2>1 DEF Inv, CallInv, PlacesAreTrue, ReturnsAreWhole, RaisesHaveACause,
                      MessagesAreTrue
<1> QED
    BY <1>1, Invariance, PTL

\* OPAClient sends a request by a client of the request's own loop only, and
\* keeps a closed client only while, or because, an aclose() did not end.
THEOREM ClientsFitAlways == Spec => []ClientsFit
<1>1. Inv => ClientsFit
      BY DEF Inv, ClientInv, HolderFits, ClosedIsKnown, OPA!ClientsFit, ClientsFit
<1> QED
    BY <1>1, Invariance, PTL

\* Whatever adapters calls come by, from whichever loops, and whatever is
\* cancelled or closed under them: their calls are governed.
THEOREM CallsAreGoverned == Spec => ImplementsGovernance
<1>1. Init => Governance!Init
      BY DEF Init, Governance!Init, Permission
<1>2. Inv /\ Inv' /\ [Next]_vars => [Governance!Next]_(Governance!vars)
  <2> SUFFICES ASSUME Inv, Inv', [Next]_vars PROVE [Governance!Next]_(Governance!vars)
      OBVIOUS
  <2>1. CASE UNCHANGED <<at, ran, dead>>
    <3>1. \A c \in Calls : Permission(c)' = Permission(c)
          BY <2>1 DEF Permission
    <3> QED  BY <2>1, <3>1 DEF Governance!vars
  <2> QED  BY <2>1, AllMove, MoveIsGoverned
<1> QED
    BY <1>1, <1>2, InvInit, InvNext, PTL DEF Spec, Governance!Spec, ImplementsGovernance
===============================================================================
