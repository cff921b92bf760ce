----------------------------- MODULE RegorusClient -----------------------------
(***************************************************************************)
(* RegorusClient (tether/regorus_client.py): one in-process engine that     *)
(* holds the input it works on, and a thread per evaluation.  A cancelled   *)
(* evaluation is not stopped.  The input of a request is named by it.      *)
(***************************************************************************)
CONSTANTS Requests, NoInput

VARIABLES engineLock,   \* who holds self._lock
          engineInput,  \* what set_input_json was last given
          thread,       \* where the thread of each request is
          reply         \* the input its answer is about

engineVars == <<engineLock, engineInput, thread, reply>>

Init == /\ engineLock = NoInput
        /\ engineInput = NoInput
        /\ thread = [r \in Requests |-> "idle"]
        /\ reply = [r \in Requests |-> NoInput]

Step(r, from, to) == thread[r] = from /\ thread' = [thread EXCEPT ![r] = to]

Ask(r) == Step(r, "idle", "waiting") /\ UNCHANGED <<engineLock, engineInput, reply>>

\* As a bug: nothing orders the threads.
BugSetInput(r) == /\ Step(r, "waiting", "evaluating")
                  /\ engineInput' = r
                  /\ UNCHANGED <<engineLock, reply>>

SetInput(r) == /\ engineLock = NoInput
               /\ engineLock' = r
               /\ engineInput' = r
               /\ Step(r, "waiting", "evaluating")
               /\ UNCHANGED reply

\* The input cannot be written as JSON.
InputRaises(r) == Step(r, "waiting", "raised") /\ UNCHANGED <<engineLock, engineInput, reply>>

\* The query may raise; the `with' lets go of the lock in either case.
Eval(r, ok) == /\ Step(r, "evaluating", IF ok THEN "answered" ELSE "raised")
               /\ reply' = [reply EXCEPT ![r] = engineInput]
               /\ engineLock' = NoInput
               /\ UNCHANGED engineInput

Work(r) == SetInput(r) \/ InputRaises(r) \/ \E ok \in BOOLEAN : Eval(r, ok)

\* The coroutine takes the answer, or the exception.
Answer(r, how) == thread[r] = how /\ UNCHANGED engineVars

TypeOK == /\ engineLock \in Requests \cup {NoInput}
          /\ engineInput \in Requests \cup {NoInput}
          /\ thread \in [Requests -> {"idle", "waiting", "evaluating", "answered", "raised"}]
          /\ reply \in [Requests -> Requests \cup {NoInput}]
=============================================================================
