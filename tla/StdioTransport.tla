---------------------------- MODULE StdioTransport ----------------------------
(***************************************************************************)
(* JSON-RPC to an MCP server over the pipes of a subprocess                *)
(* (src/kitelogik/mcp/stdio_transport.py).                                 *)
(*                                                                         *)
(* Coroutines of one event loop share the transport: requests, a reader    *)
(* task per process that was started, and owners that call start() and     *)
(* stop().  Code between two awaits is one step.  The process is external: *)
(* it may answer what it was sent, in any order or never, close its        *)
(* output, or exit.  Lines are told apart as answers, noise the loop skips *)
(* (not JSON, notifications, unknown ids), lines it cannot take (longer     *)
(* than the stream's limit, or JSON that is not an object), and answers it  *)
(* cannot take (their "error" is null, or otherwise not an object).         *)
(*                                                                         *)
(* A reader is named by the process it was created for; it takes           *)
(* self._process anew for every line, so that it may come to read another  *)
(* one.  Each request id is used once.                                     *)
(***************************************************************************)
EXTENDS Naturals, FiniteSets

CONSTANTS Requests,     \* request ids
          Owners,       \* coroutines that call start() and stop()
          Servers,      \* processes; start() takes a fresh one
          NoServer,     \* None
          BadLines      \* a server may write lines the reader cannot take

ASSUME ConstantsAssumption == NoServer \notin Servers /\ BadLines \in BOOLEAN

VARIABLES process,      \* self._process
          readerTask,   \* self._reader_task, by the name of the reader
          pending,      \* the keys of self._pending
          server,       \* "fresh", "running", "killed" (not gone yet), "exited"
          eof,          \* the servers whose output is closed
          outbox,       \* the answers in each server's output, not read yet
          sentTo,       \* the server each request was written to
          reader,       \* "none", "created", "reading", "done"
          source,       \* the server whose output a reader reads
          future,       \* "none", "open", "answered", "stopped", "cancelled"
          call,         \* where each send_request() is, or how it ended
          at,           \* where each owner is
          of,           \* the server an owner waits for
          broken,       \* history: a reader was ended by a line, not by an end
          dropped,      \* history: the requests whose answer ended a reader
          overlap       \* history: a start() or stop() began while another was under way

procs == <<server, eof>>
endings == <<broken, dropped>>
readers == <<reader, source, endings>>
owners == <<at, of, overlap>>
vars == <<process, readerTask, pending, procs, outbox, sentTo, readers, future, call, owners>>

Init == /\ process = NoServer
        /\ readerTask = NoServer
        /\ pending = {}
        /\ server = [p \in Servers |-> "fresh"]
        /\ eof = {}
        /\ outbox = [p \in Servers |-> {}]
        /\ sentTo = [k \in Requests |-> NoServer]
        /\ reader = [p \in Servers |-> "none"]
        /\ source = [p \in Servers |-> NoServer]
        /\ future = [k \in Requests |-> "none"]
        /\ call = [k \in Requests |-> "idle"]
        /\ at = [o \in Owners |-> "idle"]
        /\ of = [o \in Owners |-> NoServer]
        /\ broken = FALSE
        /\ dropped = {}
        /\ overlap = FALSE

\* is_running: there is a process and its return code is not known.
IsRunning == process # NoServer /\ server[process] # "exited"

-----------------------------------------------------------------------------
(* start() and stop().                                                     *)

Enter(o) == overlap' = (overlap \/ \E q \in Owners \ {o} : at[q] # "idle")

\* A transport that runs is left alone (no step); otherwise the process is
\* created, which is awaited.
Start(o) ==
    /\ at[o] = "idle"
    /\ ~IsRunning
    /\ at' = [at EXCEPT ![o] = "spawning"]
    /\ Enter(o)
    /\ UNCHANGED <<process, readerTask, pending, procs, outbox, sentTo, readers,
                   future, call, of>>

\* Processes are created one after the other: which id a new one gets is all one.
NewServer == CHOOSE p \in Servers : server[p] = "fresh"

\* As a bug: no reader is created while there is one already.
BugSpawned(o, p) ==
    /\ at[o] = "spawning"
    /\ server[p] = "fresh" /\ p = NewServer
    /\ server' = [server EXCEPT ![p] = "running"]
    /\ process' = p
    /\ IF readerTask = NoServer
       THEN reader' = [reader EXCEPT ![p] = "created"] /\ readerTask' = p
       ELSE UNCHANGED <<reader, readerTask>>
    /\ at' = [at EXCEPT ![o] = "idle"]
    /\ UNCHANGED <<pending, eof, outbox, sentTo, source, endings, future, call, of, overlap>>

\* The process is there: it replaces the last one, and gets a reader.
Spawned(o, p) ==
    /\ at[o] = "spawning"
    /\ server[p] = "fresh" /\ p = NewServer
    /\ server' = [server EXCEPT ![p] = "running"]
    /\ process' = p
    /\ reader' = [reader EXCEPT ![p] = "created"]
    /\ readerTask' = p
    /\ at' = [at EXCEPT ![o] = "idle"]
    /\ UNCHANGED <<pending, eof, outbox, sentTo, source, endings, future, call, of, overlap>>

\* The command cannot be executed: the exception leaves everything as it was.
SpawnFails(o) ==
    /\ at[o] = "spawning"
    /\ at' = [at EXCEPT ![o] = "idle"]
    /\ UNCHANGED <<process, readerTask, pending, procs, outbox, sentTo, readers,
                   future, call, of, overlap>>

\* As a bug: the futures are dropped without being told.
BugSettle == /\ pending' = {}
             /\ UNCHANGED future

\* The end of stop(): every pending future is failed and forgotten.
Settle == /\ future' = [k \in Requests |-> IF k \in pending /\ future[k] = "open"
                                           THEN "stopped" ELSE future[k]]
          /\ pending' = {}

\* stop() after the reader: close the process's input and wait for its end.
CloseOrSettle(o) ==
    IF process # NoServer
    THEN /\ at' = [at EXCEPT ![o] = "closing"]
         /\ of' = [of EXCEPT ![o] = process]
         /\ UNCHANGED <<pending, future>>
    ELSE /\ at' = [at EXCEPT ![o] = "idle"]
         /\ Settle
         /\ UNCHANGED of

\* stop(): a task that was cancelled runs no further line of the loop.
Stop(o) ==
    /\ at[o] = "idle"
    /\ process # NoServer \/ readerTask # NoServer \/ pending # {}
    /\ IF readerTask # NoServer
       THEN /\ reader' = [reader EXCEPT ![readerTask] = "done"]
            /\ at' = [at EXCEPT ![o] = "joining"]
            /\ UNCHANGED <<pending, future, of>>
       ELSE CloseOrSettle(o) /\ UNCHANGED reader
    /\ Enter(o)
    /\ UNCHANGED <<process, readerTask, procs, outbox, sentTo, source, endings, call>>

\* The cancelled reader was awaited.
Joined(o) ==
    /\ at[o] = "joining"
    /\ readerTask' = NoServer
    /\ CloseOrSettle(o)
    /\ UNCHANGED <<process, procs, outbox, sentTo, readers, call, overlap>>

\* The process was waited for.  When another stop() has set self._process to
\* None meanwhile, its pid is asked for in vain and AttributeError is raised.
Stopped(o) ==
    /\ at[o] \in {"closing", "killing"}
    /\ server[of[o]] = "exited"
    /\ at' = [at EXCEPT ![o] = "idle"]
    /\ of' = [of EXCEPT ![o] = NoServer]
    /\ process' = NoServer
    /\ IF process # NoServer THEN Settle ELSE UNCHANGED <<pending, future>>
    /\ UNCHANGED <<readerTask, procs, outbox, sentTo, readers, call, overlap>>

\* As a bug: after the five seconds the process is left to itself.
BugKill(o) ==
    /\ at[o] = "closing"
    /\ at' = [at EXCEPT ![o] = "idle"]
    /\ of' = [of EXCEPT ![o] = NoServer]
    /\ process' = NoServer
    /\ Settle
    /\ UNCHANGED <<readerTask, procs, outbox, sentTo, readers, call, overlap>>

\* As a bug: the end of the process is awaited without a timeout.
BugWaitForever(o) == FALSE /\ UNCHANGED vars

\* It did not end within five seconds: self._process is killed and awaited.
Kill(o) ==
    /\ at[o] = "closing"
    /\ UNCHANGED <<process, readerTask, pending, eof, outbox, sentTo, readers, future, call,
                   overlap>>
    /\ IF process # NoServer
       THEN /\ server' = [server EXCEPT ![process] = IF @ = "exited" THEN @ ELSE "killed"]
            /\ at' = [at EXCEPT ![o] = "killing"]
            /\ of' = [of EXCEPT ![o] = process]
       ELSE /\ at' = [at EXCEPT ![o] = "idle"]
            /\ of' = [of EXCEPT ![o] = NoServer]
            /\ UNCHANGED server

-----------------------------------------------------------------------------
(* send_request().                                                         *)

\* The future is registered and the line written; then drain() is awaited.
Send(k) ==
    /\ call[k] = "idle"
    /\ IsRunning
    /\ pending' = pending \cup {k}
    /\ future' = [future EXCEPT ![k] = "open"]
    /\ sentTo' = [sentTo EXCEPT ![k] = process]
    /\ call' = [call EXCEPT ![k] = "draining"]
    /\ UNCHANGED <<process, readerTask, procs, outbox, readers, owners>>

\* The parameters cannot be encoded: json.dumps() raises, and the future stays
\* registered.
EncodeFails(k) ==
    /\ call[k] = "idle"
    /\ IsRunning
    /\ pending' = pending \cup {k}
    /\ future' = [future EXCEPT ![k] = "open"]
    /\ call' = [call EXCEPT ![k] = "unsent"]
    /\ UNCHANGED <<process, readerTask, procs, outbox, sentTo, readers, owners>>

\* The process reads its input: drain() returns.
Drained(k) ==
    /\ call[k] = "draining"
    /\ call' = [call EXCEPT ![k] = "waiting"]
    /\ UNCHANGED <<process, readerTask, pending, procs, outbox, sentTo, readers,
                   future, owners>>

\* The pipe is closed: drain() raises, and the future stays registered.
DrainFails(k) ==
    /\ call[k] = "draining"
    /\ \/ server[sentTo[k]] \in {"killed", "exited"}
       \/ \E o \in Owners : at[o] = "closing" /\ of[o] = sentTo[k]
    /\ call' = [call EXCEPT ![k] = "unsent"]
    /\ UNCHANGED <<process, readerTask, pending, procs, outbox, sentTo, readers,
                   future, owners>>

\* The task is cancelled: a future it waits for is cancelled with it, and
\* stays registered.
Cancelled(k) ==
    /\ call[k] \in {"draining", "waiting"}
    /\ call' = [call EXCEPT ![k] = "aborted"]
    /\ future' = [future EXCEPT ![k] = IF call[k] = "waiting" /\ @ = "open"
                                       THEN "cancelled" ELSE @]
    /\ UNCHANGED <<process, readerTask, pending, procs, outbox, sentTo, readers, owners>>

\* The timer of wait_for() cancels the future; it may do so in the very loop
\* iteration in which the answer was set.  The coroutine runs later.
TimerFires(k) ==
    /\ call[k] = "waiting"
    /\ call' = [call EXCEPT ![k] = "timingout"]
    /\ future' = [future EXCEPT ![k] = IF @ = "open" THEN "cancelled" ELSE @]
    /\ UNCHANGED <<process, readerTask, pending, procs, outbox, sentTo, readers, owners>>

\* `except TimeoutError'.
TimedOut(k) ==
    /\ call[k] = "timingout"
    /\ call' = [call EXCEPT ![k] = "timedout"]
    /\ pending' = pending \ {k}
    /\ UNCHANGED <<process, readerTask, procs, outbox, sentTo, readers, future, owners>>

\* The future is done: its result is returned, or its exception raised.
Resume(k) ==
    /\ call[k] = "waiting"
    /\ future[k] \in {"answered", "stopped"}
    /\ call' = [call EXCEPT ![k] = future[k]]
    /\ UNCHANGED <<process, readerTask, pending, procs, outbox, sentTo, readers,
                   future, owners>>

-----------------------------------------------------------------------------
(* The reader loop.                                                        *)

EndReader(p) == /\ reader' = [reader EXCEPT ![p] = "done"]
                /\ UNCHANGED source

\* As a bug: the loop does not ask whether the process runs.
BugNextLine(p) ==
    /\ reader' = [reader EXCEPT ![p] = "reading"]
    /\ source' = [source EXCEPT ![p] = process]

\* The top of the loop: the next line is read from self._process, whichever
\* it is now.  A stream has one reader: a second one gets a RuntimeError.
NextLine(p) ==
    IF IsRunning /\ \A q \in Servers \ {p} : ~(reader[q] = "reading" /\ source[q] = process)
    THEN /\ reader' = [reader EXCEPT ![p] = "reading"]
         /\ source' = [source EXCEPT ![p] = process]
    ELSE EndReader(p)

ReaderStarts(p) ==
    /\ reader[p] = "created"
    /\ NextLine(p)
    /\ UNCHANGED <<process, readerTask, pending, procs, outbox, sentTo, endings,
                   future, call, owners>>

\* An answer: its future is taken out of the map and set.  A future that was
\* cancelled meanwhile cannot be set: InvalidStateError ends the loop.
ReadAnswer(p, k) ==
    /\ reader[p] = "reading"
    /\ k \in outbox[source[p]]
    /\ outbox' = [outbox EXCEPT ![source[p]] = @ \ {k}]
    /\ pending' = pending \ {k}
    /\ IF k \in pending /\ future[k] = "cancelled"
       THEN EndReader(p) /\ broken' = TRUE
       ELSE NextLine(p) /\ UNCHANGED broken
    /\ future' = [future EXCEPT ![k] = IF k \in pending /\ @ = "open" THEN "answered" ELSE @]
    /\ UNCHANGED <<process, readerTask, procs, sentTo, dropped, call, owners>>

\* An answer whose "error" is no object: its future is taken out of the map,
\* and error.get() raises before the future is set.
ReadBadAnswer(p, k) ==
    /\ BadLines
    /\ reader[p] = "reading"
    /\ k \in outbox[source[p]]
    /\ outbox' = [outbox EXCEPT ![source[p]] = @ \ {k}]
    /\ pending' = pending \ {k}
    /\ IF k \in pending
       THEN EndReader(p) /\ broken' = TRUE /\ dropped' = dropped \cup {k}
       ELSE NextLine(p) /\ UNCHANGED endings
    /\ UNCHANGED <<process, readerTask, procs, sentTo, future, call, owners>>

\* A line that is skipped.
ReadNoise(p) ==
    /\ reader[p] = "reading"
    /\ source[p] \notin eof
    /\ NextLine(p)
    /\ UNCHANGED <<process, readerTask, pending, procs, outbox, sentTo, endings,
                   future, call, owners>>

\* A line that raises before a request is looked up.
ReadBadLine(p) ==
    /\ BadLines
    /\ reader[p] = "reading"
    /\ source[p] \notin eof
    /\ EndReader(p)
    /\ broken' = TRUE
    /\ UNCHANGED <<process, readerTask, pending, procs, outbox, sentTo, dropped, future, call,
                   owners>>

\* The end of the output: the loop is left, the pending futures stay.
ReadEnd(p) ==
    /\ reader[p] = "reading"
    /\ source[p] \in eof
    /\ outbox[source[p]] = {}
    /\ EndReader(p)
    /\ UNCHANGED <<process, readerTask, pending, procs, outbox, sentTo, endings,
                   future, call, owners>>

-----------------------------------------------------------------------------
(* The server.                                                             *)

Answer(p, k) ==
    /\ server[p] = "running"
    /\ p \notin eof
    /\ sentTo[k] = p
    /\ k \notin outbox[p]
    /\ outbox' = [outbox EXCEPT ![p] = @ \cup {k}]
    /\ UNCHANGED <<process, readerTask, pending, procs, sentTo, readers, future, call, owners>>

\* The output is closed and the process runs on, or its end is not known yet.
CloseOutput(p) ==
    /\ server[p] = "running"
    /\ p \notin eof
    /\ eof' = eof \cup {p}
    /\ UNCHANGED <<process, readerTask, pending, server, outbox, sentTo, readers,
                   future, call, owners>>

Exit(p) ==
    /\ server[p] \in {"running", "killed"}
    /\ server' = [server EXCEPT ![p] = "exited"]
    /\ eof' = eof \cup {p}
    /\ UNCHANGED <<process, readerTask, pending, outbox, sentTo, readers, future, call, owners>>

OwnerStep(o) == Joined(o) \/ Stopped(o) \/ Kill(o)

CallStep(k) == TimerFires(k) \/ TimedOut(k) \/ Resume(k)

Next == \/ \E o \in Owners : \/ Start(o) \/ SpawnFails(o) \/ Stop(o) \/ OwnerStep(o)
                             \/ \E p \in Servers : Spawned(o, p)
        \/ \E k \in Requests : \/ Send(k) \/ EncodeFails(k) \/ Drained(k) \/ DrainFails(k)
                               \/ Cancelled(k)
                               \/ CallStep(k)
        \/ \E p \in Servers : \/ ReaderStarts(p) \/ ReadNoise(p) \/ ReadBadLine(p) \/ ReadEnd(p)
                              \/ CloseOutput(p) \/ Exit(p)
                              \/ \E k \in Requests : \/ ReadAnswer(p, k) \/ ReadBadAnswer(p, k)
                                                      \/ Answer(p, k)

Spec == Init /\ [][Next]_vars

\* Timers fire, coroutines that can run do run, and a killed process ends.
\* A server need not read its input, answer, or exit; nobody has to call.
FairSpec == /\ Spec
            /\ \A o \in Owners : WF_vars(OwnerStep(o))
            /\ \A k \in Requests : WF_vars(CallStep(k))
            /\ \A p \in Servers : WF_vars(server[p] = "killed" /\ Exit(p))

-----------------------------------------------------------------------------
(* Properties.                                                             *)

InFlight == {"draining", "waiting", "timingout"}

\* The type of every variable.
TypeOK ==
    /\ process \in Servers \cup {NoServer}
    /\ readerTask \in Servers \cup {NoServer}
    /\ pending \subseteq Requests
    /\ server \in [Servers -> {"fresh", "running", "killed", "exited"}]
    /\ eof \subseteq Servers
    /\ outbox \in [Servers -> SUBSET Requests]
    /\ sentTo \in [Requests -> Servers \cup {NoServer}]
    /\ reader \in [Servers -> {"none", "created", "reading", "done"}]
    /\ source \in [Servers -> Servers \cup {NoServer}]
    /\ \A p \in Servers : reader[p] = "reading" => source[p] # NoServer
    /\ future \in [Requests -> {"none", "open", "answered", "stopped", "cancelled"}]
    /\ call \in [Requests -> InFlight \cup {"idle", "answered", "stopped", "timedout",
                                            "aborted", "unsent"}]
    /\ at \in [Owners -> {"idle", "spawning", "joining", "closing", "killing"}]
    /\ of \in [Owners -> Servers \cup {NoServer}]
    /\ {broken, overlap} \subseteq BOOLEAN
    /\ dropped \subseteq Requests

\* No process is lost: when no start() or stop() is under way, the only
\* process that may be alive is self._process, and after a stop() none is.
\* This needs their callers to take turns: overlapping calls of start() each
\* create a process, and only the last one is remembered.
NoServerOutlivesStop ==
    (~overlap /\ \A o \in Owners : at[o] = "idle") =>
        \A p \in Servers : server[p] \in {"running", "killed"} => p = process

\* The map of pending requests is true: what stays in it after its call ended
\* was cancelled or could not be written, so that a timeout leaves nothing
\* behind; after stop() it is empty; and a call in flight whose future is open
\* is in it, so that stop() fails it instead of leaving it to its timeout.  The
\* exception is a request whose own answer ended a reader: it was taken out of
\* the map and not settled, and waits for its timeout also after a stop().
PendingIsTrue ==
    /\ \A k \in pending : call[k] \in InFlight \cup {"aborted", "unsent"}
    /\ (process = NoServer /\ \A o \in Owners : at[o] = "idle") => pending = {}
    /\ \A k \in Requests : call[k] \in InFlight /\ future[k] = "open" =>
                              k \in pending \cup dropped

\* While the server runs and nobody stops it, some reader is at its output
\* (unless a line ended the loop), also when start() replaced a process that
\* had exited and its reader had not noticed.
SomebodyReads ==
    (IsRunning /\ process \notin eof /\ ~broken /\ \A o \in Owners : at[o] = "idle") =>
        \E p \in Servers : \/ reader[p] = "created"
                           \/ reader[p] = "reading" /\ source[p] = process

\* Everybody gets back: once a request was written its call ends, answered,
\* failed or timed out, and stop() ends, also with a process that ignores the
\* end of its input.
EverybodyReturns ==
    /\ \A k \in Requests : call[k] = "waiting" ~> call[k] \notin InFlight
    /\ \A o \in Owners : at[o] \in {"joining", "closing", "killing"} ~> at[o] = "idle"

-----------------------------------------------------------------------------
(* What the documentation says and the code does not do.                   *)

\* "Default timeout for individual requests": a timeout, or a cancellation,
\* ends one request; the reader goes on for the others.
TimeoutsAreIndividual == BadLines \/ ~broken
=============================================================================
