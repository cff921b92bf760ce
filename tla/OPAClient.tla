------------------------------ MODULE OPAClient ------------------------------
(***************************************************************************)
(* OPAClient (tether/opa_client.py): one object for the event loops of      *)
(* several threads.  An httpx client belongs to the loop it was made on, so *)
(* _get_client makes a new one whenever it is called on another loop than   *)
(* the last; a lock orders its callers, but not aclose().  Between two      *)
(* awaits only other threads interleave; whoever uses this module lets a    *)
(* loop run one coroutine at a time.  A client is named by the request for  *)
(* which it was made.  A health check gets its client as a request does.    *)
(***************************************************************************)
CONSTANTS Requests,  \* calls of evaluate() and evaluate_event()
          Closers,   \* calls of aclose()
          LoopOf,    \* the loop each of them runs on
          NoClient,  \* _client is None
          NoLoop     \* _client_loop is None

VARIABLES cached,      \* self._client
          cachedLoop,  \* self._client_loop
          holder,      \* who holds self._lock
          closed,      \* the clients whose aclose() has begun
          step,        \* where each request is
          got,         \* the client _get_client returned to it
          closer       \* where each call of aclose() is

clientVars == <<cached, cachedLoop, holder, closed, step, got, closer>>

Init == /\ cached = NoClient
        /\ cachedLoop = NoLoop
        /\ holder = NoClient
        /\ closed = {}
        /\ step = [r \in Requests |-> "idle"]
        /\ got = [r \in Requests |-> NoClient]
        /\ closer = [q \in Closers |-> "idle"]

Step(r, from, to) == step[r] = from /\ step' = [step EXCEPT ![r] = to]

\* In these places a request runs, or waits for the lock, and its loop with it.
Synchronous == {"locking", "making", "binding", "taking", "sending", "failed"}

-----------------------------------------------------------------------------
(* _get_client() and _post_to_opa().                                       *)

Ask(r) == /\ Step(r, "idle", "locking")
          /\ UNCHANGED <<cached, cachedLoop, holder, closed, got, closer>>

\* As a bug: the client is made once.
BugMustMake(r) == cached = NoClient

MustMake(r) == cached = NoClient \/ cachedLoop # LoopOf[r]

Acquire(r) == /\ holder = NoClient
              /\ holder' = r
              /\ Step(r, "locking", IF MustMake(r) THEN "making" ELSE "taking")
              /\ UNCHANGED <<cached, cachedLoop, closed, got, closer>>

Make(r) == /\ Step(r, "making", "binding")
           /\ cached' = r
           /\ UNCHANGED <<cachedLoop, holder, closed, got, closer>>

\* The constructor raises; the `with' lets go of the lock.
MakeFails(r) == /\ Step(r, "making", "failed")
                /\ holder' = NoClient
                /\ UNCHANGED <<cached, cachedLoop, closed, got, closer>>

Bind(r) == /\ Step(r, "binding", "taking")
           /\ cachedLoop' = LoopOf[r]
           /\ UNCHANGED <<cached, holder, closed, got, closer>>

\* As a bug: a client that was there is returned without letting go of the lock.
BugTake(r) == /\ Step(r, "taking", "sending")
              /\ got' = [got EXCEPT ![r] = cached]
              /\ holder' = IF cached = r THEN NoClient ELSE r
              /\ UNCHANGED <<cached, cachedLoop, closed, closer>>

\* What is returned is what is there now, None after an aclose() in between.
Take(r) == /\ Step(r, "taking", "sending")
           /\ got' = [got EXCEPT ![r] = cached]
           /\ holder' = NoClient
           /\ UNCHANGED <<cached, cachedLoop, closed, closer>>

Usable(r) == got[r] # NoClient /\ got[r] \notin closed

Post(r) == /\ Usable(r)
           /\ Step(r, "sending", "posting")
           /\ UNCHANGED <<cached, cachedLoop, holder, closed, got, closer>>

\* OPA answers; or it is not reached, takes too long, or answers with an error
\* status (OPAConnectionError); or anything else is raised: a connection that
\* breaks later, an input or an answer that is not JSON, an unusable client.
Answer(r, how) ==
    /\ \/ Step(r, "posting", "done") /\ how \in {"answered", "unreachable", "raised"}
       \/ Step(r, "sending", "done") /\ how = "raised"
       \/ Step(r, "failed", "done") /\ how = "raised"
    /\ UNCHANGED <<cached, cachedLoop, holder, closed, got, closer>>

\* A request is cancelled while it awaits the answer.
Abandon(r) == /\ Step(r, "posting", "done")
              /\ UNCHANGED <<cached, cachedLoop, holder, closed, got, closer>>

\* What a request does between two awaits, to the next one.
Work(r) == Acquire(r) \/ Make(r) \/ MakeFails(r) \/ Bind(r) \/ Take(r) \/ Post(r)

-----------------------------------------------------------------------------
(* aclose().                                                               *)

\* The client is closed at once for those who would use it; then its
\* connections are, which is awaited.
Close(q) ==
    /\ closer[q] = "idle"
    /\ IF cached = NoClient \/ cached \in closed
       THEN closer' = [closer EXCEPT ![q] = "done"] /\ UNCHANGED closed
       ELSE closer' = [closer EXCEPT ![q] = "closing"] /\ closed' = closed \cup {cached}
    /\ UNCHANGED <<cached, cachedLoop, holder, step, got>>

\* Whatever client is cached by now is dropped.
Closed(q) == /\ closer[q] = "closing"
             /\ cached' = NoClient
             /\ closer' = [closer EXCEPT ![q] = "unbinding"]
             /\ UNCHANGED <<cachedLoop, holder, closed, step, got>>

Unbind(q) == /\ closer[q] = "unbinding"
             /\ cachedLoop' = NoLoop
             /\ closer' = [closer EXCEPT ![q] = "done"]
             /\ UNCHANGED <<cached, holder, closed, step, got>>

\* It raises, or is cancelled: the closed client stays.
CloseFails(q) == /\ closer[q] = "closing"
                 /\ closer' = [closer EXCEPT ![q] = "failed"]
                 /\ UNCHANGED <<cached, cachedLoop, holder, closed, step, got>>

-----------------------------------------------------------------------------
(* Properties.                                                             *)

TypeOK == /\ cached \in Requests \cup {NoClient}
          /\ cachedLoop \in {LoopOf[r] : r \in Requests} \cup {NoLoop}
          /\ holder \in Requests \cup {NoClient}
          /\ closed \subseteq Requests
          /\ step \in [Requests -> Synchronous \cup {"idle", "posting", "done"}]
          /\ got \in [Requests -> Requests \cup {NoClient}]
          /\ closer \in [Closers -> {"idle", "closing", "unbinding", "done", "failed"}]

\* A request is sent by a client of its own loop only, whichever threads make
\* clients, replace them and close them in between; and unless a close is under
\* way, or failed, the client that is kept for the next request is open.
ClientsFit ==
    /\ \A r \in Requests : step[r] = "posting" => LoopOf[got[r]] = LoopOf[r]
    /\ cached \in closed => \E q \in Closers : closer[q] \in {"closing", "failed"}
=============================================================================
