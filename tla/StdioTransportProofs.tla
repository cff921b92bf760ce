------------------------- MODULE StdioTransportProofs -------------------------
(***************************************************************************)
(* Proofs about the stdio transport, for every set of owners, processes and *)
(* requests, and every way their steps interleave.                         *)
(***************************************************************************)
EXTENDS StdioTransport, TLAPS

-----------------------------------------------------------------------------
(* Steps by what they change.                                              *)

\* The steps of start() and stop().
Owning(o) == \/ Start(o) \/ SpawnFails(o) \/ Stop(o) \/ OwnerStep(o)
             \/ \E p \in Servers : Spawned(o, p)

\* The steps of send_request(): the process, its reader and the owners stay.
Asking(k) == \/ Send(k) \/ EncodeFails(k) \/ Drained(k) \/ DrainFails(k) \/ Cancelled(k)
             \/ CallStep(k)

\* The steps of a reader.
Reading(p) == \/ ReaderStarts(p) \/ ReadNoise(p) \/ ReadBadLine(p) \/ ReadEnd(p)
              \/ \E k \in Requests : ReadAnswer(p, k) \/ ReadBadAnswer(p, k)

\* The steps of a process.
Serving(p) == \/ CloseOutput(p) \/ Exit(p) \/ \E k \in Requests : Answer(p, k)

LEMMA StepKinds ==
    ASSUME [Next]_vars
    PROVE  \/ \E o \in Owners : Owning(o)
           \/ \E k \in Requests : Asking(k)
           \/ \E p \in Servers : Reading(p) \/ Serving(p)
           \/ UNCHANGED vars
BY DEF Next, Owning, Asking, Reading, Serving

LEMMA AskingLeaves ==
    ASSUME NEW k \in Requests, Asking(k)
    PROVE  UNCHANGED <<process, readerTask, procs, outbox, readers, owners>>
BY DEF Asking, CallStep, Send, EncodeFails, Drained, DrainFails, Cancelled, TimerFires, TimedOut,
       Resume

LEMMA ReadingLeaves ==
    ASSUME NEW p \in Servers, Reading(p)
    PROVE  UNCHANGED <<process, readerTask, procs, sentTo, call, owners>>
BY DEF Reading, ReaderStarts, ReadNoise, ReadBadLine, ReadEnd, ReadAnswer, ReadBadAnswer

LEMMA ServingLeaves ==
    ASSUME NEW p \in Servers, Serving(p)
    PROVE  UNCHANGED <<process, readerTask, pending, sentTo, readers, future, call, owners>>
BY DEF Serving, CloseOutput, Exit, Answer, procs

-----------------------------------------------------------------------------
(* Types.                                                                  *)

LEMMA NoServerIsNone == NoServer \notin Servers
BY ConstantsAssumption

LEMMA TypeInit == Init => TypeOK
<1> SUFFICES ASSUME Init PROVE TypeOK
    OBVIOUS
<1>1. process = NoServer /\ readerTask = NoServer /\ pending = {} /\ eof = {}
      BY DEF Init
<1>2. /\ server \in [Servers -> {"fresh", "running", "killed", "exited"}]
      /\ outbox \in [Servers -> SUBSET Requests]
      /\ reader \in [Servers -> {"none", "created", "reading", "done"}]
      /\ \A p \in Servers : reader[p] = "none"
      /\ source \in [Servers -> Servers \cup {NoServer}]
      BY DEF Init
<1>3. /\ sentTo \in [Requests -> Servers \cup {NoServer}]
      /\ future \in [Requests -> {"none", "open", "answered", "stopped", "cancelled"}]
      /\ call \in [Requests -> InFlight \cup {"idle", "answered", "stopped", "timedout",
                                              "aborted", "unsent"}]
      BY DEF Init
<1>4. /\ at \in [Owners -> {"idle", "spawning", "joining", "closing", "killing"}]
      /\ of \in [Owners -> Servers \cup {NoServer}]
      /\ broken = FALSE /\ overlap = FALSE /\ dropped = {}
      BY DEF Init
<1> QED  BY <1>1, <1>2, <1>3, <1>4 DEF TypeOK

LEMMA SettleTypes ==
    ASSUME TypeOK, Settle
    PROVE  /\ pending' \subseteq Requests
           /\ future' \in [Requests -> {"none", "open", "answered", "stopped", "cancelled"}]
BY DEF TypeOK, Settle

LEMMA TypeKept == TypeOK /\ [Next]_vars => TypeOK'
<1> SUFFICES ASSUME TypeOK, [Next]_vars PROVE TypeOK'
    OBVIOUS
<1> USE NoServerIsNone
<1>1. ASSUME NEW o \in Owners, Owning(o) PROVE TypeOK'
  <2>1. CASE Start(o)
        BY <2>1 DEF Start, Enter, TypeOK, procs, readers, endings
  <2>2. CASE SpawnFails(o)
        BY <2>2 DEF SpawnFails, TypeOK, procs, readers, endings
  <2>3. ASSUME NEW p \in Servers, Spawned(o, p) PROVE TypeOK'
        BY <2>3 DEF Spawned, TypeOK, endings
  <2>4. ASSUME CloseOrSettle(o)
        PROVE  /\ at' \in [Owners -> {"idle", "spawning", "joining", "closing", "killing"}]
               /\ of' \in [Owners -> Servers \cup {NoServer}]
               /\ pending' \subseteq Requests
               /\ future' \in [Requests -> {"none", "open", "answered", "stopped", "cancelled"}]
        BY <2>4, SettleTypes DEF CloseOrSettle, TypeOK
  <2>5. CASE Stop(o)
    <3>1. reader' \in [Servers -> {"none", "created", "reading", "done"}]
          BY <2>5 DEF Stop, TypeOK
    <3>2. \A p \in Servers : reader'[p] = "reading" => reader[p] = "reading"
          BY <2>5 DEF Stop, TypeOK
    <3>3. /\ at' \in [Owners -> {"idle", "spawning", "joining", "closing", "killing"}]
          /\ of' \in [Owners -> Servers \cup {NoServer}]
          /\ pending' \subseteq Requests
          /\ future' \in [Requests -> {"none", "open", "answered", "stopped", "cancelled"}]
          BY <2>5, <2>4 DEF Stop, TypeOK
    <3> QED  BY <2>5, <3>1, <3>2, <3>3 DEF Stop, Enter, TypeOK, procs, endings
  <2>6. CASE Joined(o)
        BY <2>6, <2>4 DEF Joined, TypeOK, procs, readers, endings
  <2>7. CASE Stopped(o)
    <3>1. /\ pending' \subseteq Requests
          /\ future' \in [Requests -> {"none", "open", "answered", "stopped", "cancelled"}]
          BY <2>7, SettleTypes DEF Stopped, TypeOK
    <3> QED  BY <2>7, <3>1 DEF Stopped, TypeOK, procs, readers, endings
  <2>8. CASE Kill(o)
        BY <2>8 DEF Kill, TypeOK, readers, endings
  <2> QED  BY <1>1, <2>1, <2>2, <2>3, <2>5, <2>6, <2>7, <2>8 DEF Owning, OwnerStep
<1>2. ASSUME NEW k \in Requests, Asking(k) PROVE TypeOK'
  <2>1. /\ pending' \subseteq Requests
        /\ sentTo' \in [Requests -> Servers \cup {NoServer}]
        /\ future' \in [Requests -> {"none", "open", "answered", "stopped", "cancelled"}]
        /\ call' \in [Requests -> InFlight \cup {"idle", "answered", "stopped", "timedout",
                                                 "aborted", "unsent"}]
        BY <1>2 DEF Asking, CallStep, Send, EncodeFails, Drained, DrainFails, Cancelled,
                    TimerFires, TimedOut, Resume, TypeOK, InFlight
  <2> QED  BY <1>2, <2>1, AskingLeaves DEF TypeOK, procs, readers, endings, owners
<1>3. ASSUME NEW p \in Servers, Reading(p) PROVE TypeOK'
  <2>1. ASSUME NextLine(p) \/ EndReader(p)
        PROVE  /\ reader' \in [Servers -> {"none", "created", "reading", "done"}]
               /\ source' \in [Servers -> Servers \cup {NoServer}]
               /\ \A q \in Servers : reader'[q] = "reading" => source'[q] # NoServer
        BY <2>1 DEF NextLine, EndReader, IsRunning, TypeOK
  <2>2. /\ NextLine(p) \/ EndReader(p)
        /\ broken' \in BOOLEAN /\ dropped' \subseteq Requests
        /\ pending' \subseteq pending
        /\ outbox' \in [Servers -> SUBSET Requests]
        /\ future' \in [Requests -> {"none", "open", "answered", "stopped", "cancelled"}]
    <3>1. ASSUME NEW k \in Requests, ReadAnswer(p, k) \/ ReadBadAnswer(p, k)
          PROVE  /\ NextLine(p) \/ EndReader(p)
                 /\ broken' \in BOOLEAN /\ dropped' \subseteq Requests
                 /\ pending' \subseteq pending
                 /\ outbox' \in [Servers -> SUBSET Requests]
                 /\ future' \in [Requests -> {"none", "open", "answered", "stopped", "cancelled"}]
      <4>1. pending' \subseteq pending
            BY <3>1 DEF ReadAnswer, ReadBadAnswer
      <4>2. source[p] \in Servers
            BY <3>1 DEF ReadAnswer, ReadBadAnswer, TypeOK
      <4>3. outbox' \in [Servers -> SUBSET Requests]
            BY <3>1, <4>2 DEF ReadAnswer, ReadBadAnswer, TypeOK
      <4>4. future' \in [Requests -> {"none", "open", "answered", "stopped", "cancelled"}]
            BY <3>1 DEF ReadAnswer, ReadBadAnswer, TypeOK
      <4>5. broken' \in BOOLEAN /\ dropped' \subseteq Requests
        <5>1. CASE ReadAnswer(p, k)
              BY <5>1 DEF ReadAnswer, TypeOK
        <5>2. CASE ReadBadAnswer(p, k)
          <6>1. \/ broken' = TRUE /\ dropped' = dropped \cup {k}
                \/ broken' = broken /\ dropped' = dropped
                BY <5>2 DEF ReadBadAnswer, endings
          <6> QED  BY <6>1 DEF TypeOK
        <5> QED  BY <3>1, <5>1, <5>2
      <4>6. NextLine(p) \/ EndReader(p)
            BY <3>1 DEF ReadAnswer, ReadBadAnswer
      <4> QED  BY <4>1, <4>3, <4>4, <4>5, <4>6
    <3>2. CASE ReaderStarts(p) \/ ReadNoise(p)
          BY <3>2 DEF ReaderStarts, ReadNoise, endings, TypeOK
    <3>3. CASE ReadBadLine(p) \/ ReadEnd(p)
          BY <3>3 DEF ReadBadLine, ReadEnd, endings, TypeOK
    <3> QED  BY <1>3, <3>1, <3>2, <3>3 DEF Reading
  <2> QED  BY <1>3, <2>1, <2>2, ReadingLeaves DEF TypeOK, procs, owners
<1>4. ASSUME NEW p \in Servers, Serving(p) PROVE TypeOK'
  <2>1. /\ server' \in [Servers -> {"fresh", "running", "killed", "exited"}]
        /\ eof' \subseteq Servers
        /\ outbox' \in [Servers -> SUBSET Requests]
        BY <1>4 DEF Serving, CloseOutput, Exit, Answer, TypeOK, procs
  <2> QED  BY <1>4, <2>1, ServingLeaves DEF TypeOK, readers, endings, owners
<1>5. CASE UNCHANGED vars
      BY <1>5 DEF vars, procs, readers, endings, owners, TypeOK
<1> QED  BY <1>1, <1>2, <1>3, <1>4, <1>5, StepKinds

\* Every variable of the transport keeps its type, and a reader that reads has
\* a process to read from.
THEOREM TypeCorrect == Spec => []TypeOK
BY TypeInit, TypeKept, PTL DEF Spec

-----------------------------------------------------------------------------
(* Processes.                                                              *)

\* Unless calls of start() and stop() overlapped, one is under way at most; a
\* stop() waits for self._process, and a start() found no process that runs.
Turns == ~overlap => \A o, q \in Owners : at[o] # "idle" /\ at[q] # "idle" => o = q

Alive == /\ process # NoServer => server[process] # "fresh"
         /\ ~overlap =>
              /\ \A p \in Servers : server[p] \in {"running", "killed"} => p = process
              /\ \A o \in Owners : /\ at[o] \in {"closing", "killing"} =>
                                          process # NoServer /\ of[o] = process
                                   /\ at[o] = "spawning" => ~IsRunning

Kept == Turns /\ Alive

LEMMA EnterTurns ==
    ASSUME TypeOK, Turns, NEW o \in Owners, Enter(o), ~overlap',
           \A q \in Owners \ {o} : at'[q] = at[q]
    PROVE  ~overlap /\ (\A q \in Owners \ {o} : at[q] = "idle") /\ Turns'
<1>1. overlap' = (overlap \/ \E q \in Owners \ {o} : at[q] # "idle")
      BY DEF Enter
<1> QED  BY <1>1 DEF Turns

\* Once it is back, or goes on, the one under way is still the only one.
LEMMA StepTurns ==
    ASSUME TypeOK, Turns, NEW o \in Owners, at[o] # "idle", overlap' = overlap, ~overlap,
           \A q \in Owners \ {o} : at'[q] = at[q]
    PROVE  (\A q \in Owners \ {o} : at[q] = "idle") /\ Turns'
BY DEF Turns

LEMMA OwningKeepsProcesses ==
    ASSUME TypeOK, Kept, NEW o \in Owners, Owning(o)
    PROVE  Kept'
<1> USE NoServerIsNone
<1>1. CASE Start(o)
  <2>1. /\ at[o] = "idle" /\ Enter(o) /\ ~IsRunning
        /\ at' = [at EXCEPT ![o] = "spawning"]
        /\ process' = process /\ server' = server /\ of' = of
        BY <1>1 DEF Start, procs
  <2>2. ~overlap' => Turns' /\ ~overlap
        BY <2>1, EnterTurns DEF Kept, TypeOK
  <2> QED  BY <2>1, <2>2 DEF Kept, Turns, Alive, IsRunning, TypeOK
<1>2. CASE SpawnFails(o)
  <2>1. /\ at' = [at EXCEPT ![o] = "idle"]
        /\ process' = process /\ server' = server /\ of' = of /\ overlap' = overlap
        BY <1>2 DEF SpawnFails, procs
  <2> QED  BY <2>1 DEF Kept, Turns, Alive, IsRunning, TypeOK
<1>3. ASSUME NEW p \in Servers, Spawned(o, p) PROVE Kept'
  <2>1. /\ at[o] = "spawning" /\ server[p] = "fresh"
        /\ server' = [server EXCEPT ![p] = "running"]
        /\ process' = p /\ of' = of /\ overlap' = overlap
        /\ at' = [at EXCEPT ![o] = "idle"]
        BY <1>3 DEF Spawned
  <2>2. ~overlap => (\A q \in Owners \ {o} : at[q] = "idle") /\ Turns'
        BY <2>1, StepTurns DEF Kept, TypeOK
  <2>3. ~overlap => \A q \in Servers : server[q] \notin {"running", "killed"}
        BY <2>1 DEF Kept, Alive, IsRunning, TypeOK
  <2>4. ~overlap => \A q \in Owners : at'[q] = "idle"
        BY <2>1, <2>2 DEF TypeOK
  <2>5. server'[p] = "running"
        BY <2>1 DEF TypeOK
  <2>6. ~overlap => \A q \in Servers : server'[q] \in {"running", "killed"} => q = p
        BY <2>1, <2>3 DEF TypeOK
  <2> QED  BY <2>1, <2>2, <2>4, <2>5, <2>6 DEF Kept, Turns, Alive
<1>4. CASE Stop(o)
  <2>1. /\ at[o] = "idle" /\ Enter(o)
        /\ process' = process /\ server' = server
        BY <1>4 DEF Stop, procs
  <2>2. \/ at' = [at EXCEPT ![o] = "joining"] /\ of' = of
        \/ /\ process # NoServer /\ at' = [at EXCEPT ![o] = "closing"]
           /\ of' = [of EXCEPT ![o] = process]
        \/ at' = [at EXCEPT ![o] = "idle"] /\ of' = of
        BY <1>4 DEF Stop, CloseOrSettle
  <2>3. ~overlap' => Turns' /\ ~overlap /\ \A q \in Owners \ {o} : at[q] = "idle"
        BY <2>1, <2>2, EnterTurns DEF Kept, TypeOK
  <2> QED  BY <2>1, <2>2, <2>3 DEF Kept, Turns, Alive, IsRunning, TypeOK
<1>5. CASE Joined(o)
  <2>1. /\ at[o] = "joining"
        /\ process' = process /\ server' = server /\ overlap' = overlap
        BY <1>5 DEF Joined, procs
  <2>2. \/ /\ process # NoServer /\ at' = [at EXCEPT ![o] = "closing"]
           /\ of' = [of EXCEPT ![o] = process]
        \/ at' = [at EXCEPT ![o] = "idle"] /\ of' = of
        BY <1>5 DEF Joined, CloseOrSettle
  <2>3. ~overlap => Turns' /\ \A q \in Owners \ {o} : at[q] = "idle"
        BY <2>1, <2>2, StepTurns DEF Kept, TypeOK
  <2> QED  BY <2>1, <2>2, <2>3 DEF Kept, Turns, Alive, IsRunning, TypeOK
<1>6. CASE Stopped(o)
  <2>1. /\ at[o] \in {"closing", "killing"} /\ server[of[o]] = "exited"
        /\ at' = [at EXCEPT ![o] = "idle"]
        /\ process' = NoServer /\ server' = server /\ overlap' = overlap
        BY <1>6 DEF Stopped, procs
  <2>2. ~overlap => Turns' /\ \A q \in Owners \ {o} : at[q] = "idle"
        BY <2>1, StepTurns DEF Kept, TypeOK
  <2>3. ~overlap => \A p \in Servers : server[p] \notin {"running", "killed"}
        BY <2>1 DEF Kept, Alive
  <2>4. ~overlap => \A q \in Owners : at'[q] = "idle"
        BY <2>1, <2>2 DEF TypeOK
  <2> QED  BY <2>1, <2>2, <2>3, <2>4 DEF Kept, Turns, Alive
<1>7. CASE Kill(o)
  <2>1. /\ at[o] = "closing"
        /\ process' = process /\ overlap' = overlap
        BY <1>7 DEF Kill
  <2>2. CASE process = NoServer
    <3>1. /\ at' = [at EXCEPT ![o] = "idle"] /\ server' = server
          /\ of' = [of EXCEPT ![o] = NoServer]
          BY <1>7, <2>2 DEF Kill
    <3> QED  BY <3>1, <2>1, <2>2 DEF Kept, Turns, Alive, IsRunning, TypeOK
  <2>3. CASE process # NoServer
    <3>1. /\ server' = [server EXCEPT ![process] = IF @ = "exited" THEN @ ELSE "killed"]
          /\ at' = [at EXCEPT ![o] = "killing"]
          /\ of' = [of EXCEPT ![o] = process]
          BY <1>7, <2>3 DEF Kill
    <3>2. ~overlap => Turns' /\ \A q \in Owners \ {o} : at[q] = "idle"
          BY <3>1, <2>1, StepTurns DEF Kept, TypeOK
    <3>3. process \in Servers
          BY <2>3 DEF TypeOK
    <3>4. server'[process] # "fresh"
          BY <3>1, <3>3, <2>3 DEF Kept, Alive, TypeOK
    <3>5. \A p \in Servers \ {process} : server'[p] = server[p]
          BY <3>1 DEF TypeOK
    <3>6. ~overlap => \A q \in Owners : /\ at'[q] # "spawning"
                                        /\ at'[q] \in {"closing", "killing"} => of'[q] = process
          BY <3>1, <3>2 DEF TypeOK
    <3> QED  BY <2>1, <2>3, <3>2, <3>4, <3>5, <3>6 DEF Kept, Turns, Alive
  <2> QED  BY <2>2, <2>3
<1> QED  BY <1>1, <1>2, <1>3, <1>4, <1>5, <1>6, <1>7 DEF Owning, OwnerStep

LEMMA ProcessesKept == TypeOK /\ Kept /\ [Next]_vars => Kept'
<1> SUFFICES ASSUME TypeOK, Kept, [Next]_vars PROVE Kept'
    OBVIOUS
<1>1. ASSUME UNCHANGED <<process, server, owners>> PROVE Kept'
      BY <1>1 DEF Kept, Turns, Alive, IsRunning, owners
<1>2. ASSUME NEW k \in Requests, Asking(k) PROVE Kept'
      BY <1>1, <1>2, AskingLeaves DEF procs
<1>3. ASSUME NEW p \in Servers, Reading(p) PROVE Kept'
      BY <1>1, <1>3, ReadingLeaves DEF procs
<1>4. ASSUME NEW p \in Servers, Serving(p) PROVE Kept'
  <2>1. server' = server \/ server' = [server EXCEPT ![p] = "exited"]
        BY <1>4 DEF Serving, CloseOutput, Exit, Answer, procs
  <2>2. \A q \in Servers : server'[q] = server[q] \/ server'[q] = "exited"
        BY <2>1 DEF TypeOK
  <2>3. UNCHANGED <<process, at, of, overlap>>
        BY <1>4, ServingLeaves DEF owners
  <2> QED  BY <2>2, <2>3, NoServerIsNone DEF Kept, Turns, Alive, IsRunning, TypeOK
<1>5. CASE UNCHANGED vars
      BY <1>1, <1>5 DEF vars, procs
<1> QED  BY <1>2, <1>3, <1>4, <1>5, OwningKeepsProcesses, StepKinds

\* No process is lost, if the callers of start() and stop() take turns; not
\* even while one of them is under way.
THEOREM ProcessesAreKnown == Spec => []NoServerOutlivesStop
<1>1. Init => Kept
      BY NoServerIsNone DEF Init, Kept, Turns, Alive, IsRunning
<1>2. Kept => NoServerOutlivesStop
      BY DEF Kept, Alive, NoServerOutlivesStop
<1> QED  BY <1>1, <1>2, ProcessesKept, TypeCorrect, PTL DEF Spec

-----------------------------------------------------------------------------
(* The map of pending requests.                                            *)

\* A future in the map is open or cancelled, and one that somebody still waits
\* for, and that is open, is in it, unless its own answer ended a reader.
Registered(k) ==
    /\ call[k] = "idle" => k \notin pending
    /\ k \in pending => call[k] \in InFlight \cup {"aborted", "unsent"}
    /\ future[k] \in {"answered", "stopped"} => k \notin pending
    /\ call[k] \in InFlight /\ future[k] = "open" => k \in pending \cup dropped

Mapped == /\ \A k \in Requests : Registered(k)
          /\ process = NoServer => pending = {}

LEMMA SettledMap ==
    ASSUME TypeOK, Mapped, Settle, UNCHANGED <<call, dropped>>
    PROVE  Mapped'
<1>1. /\ pending' = {}
      /\ \A k \in Requests : future'[k] = IF k \in pending /\ future[k] = "open"
                                          THEN "stopped" ELSE future[k]
      BY DEF Settle
<1> QED  BY <1>1 DEF Mapped, Registered

LEMMA MapKept == TypeOK /\ Mapped /\ [Next]_vars => Mapped'
<1> SUFFICES ASSUME TypeOK, Mapped, [Next]_vars PROVE Mapped'
    OBVIOUS
<1> USE NoServerIsNone
<1>1. ASSUME UNCHANGED <<call, pending, future, dropped>>, process' = NoServer => process = NoServer
      PROVE  Mapped'
      BY <1>1 DEF Mapped, Registered
<1>2. ASSUME NEW o \in Owners, Owning(o) PROVE Mapped'
  <2>1. CASE Start(o) \/ SpawnFails(o) \/ Kill(o)
        BY <1>1, <2>1 DEF Start, SpawnFails, Kill, readers, endings
  <2>2. ASSUME NEW p \in Servers, Spawned(o, p) PROVE Mapped'
        BY <1>1, <2>2 DEF Spawned, endings
  <2>3. ASSUME CloseOrSettle(o), UNCHANGED <<process, call, dropped>> PROVE Mapped'
        BY <2>3, <1>1, SettledMap DEF CloseOrSettle
  <2>4. CASE Stop(o)
        BY <2>4, <2>3, <1>1 DEF Stop, endings
  <2>5. CASE Joined(o)
        BY <2>5, <2>3 DEF Joined, readers, endings
  <2>6. CASE Stopped(o)
    <3>1. CASE process # NoServer
          BY <3>1, <2>6, SettledMap DEF Stopped, readers, endings
    <3>2. CASE process = NoServer
          BY <3>2, <2>6, <1>1 DEF Stopped, readers, endings
    <3> QED  BY <3>1, <3>2
  <2> QED  BY <1>2, <2>1, <2>2, <2>4, <2>5, <2>6 DEF Owning, OwnerStep
<1>3. ASSUME NEW k \in Requests, Asking(k) PROVE Mapped'
  <2>1. /\ process' = process /\ dropped' = dropped
        /\ process = NoServer => pending' = pending \/ pending' = pending \ {k}
        /\ \A j \in Requests \ {k} : /\ call'[j] = call[j] /\ future'[j] = future[j]
                                     /\ j \in pending' <=> j \in pending
        BY <1>3, AskingLeaves
           DEF Asking, CallStep, Send, EncodeFails, Drained, DrainFails, Cancelled, TimerFires,
               TimedOut, Resume, IsRunning, TypeOK, readers, endings
  <2>2. Registered(k)'
    <3> USE <2>1 DEF Mapped, Registered, InFlight, TypeOK
    <3>1. CASE Send(k) \/ EncodeFails(k)
          BY <3>1 DEF Send, EncodeFails
    <3>2. CASE Drained(k) \/ DrainFails(k)
          BY <3>2 DEF Drained, DrainFails
    <3>3. CASE Cancelled(k) \/ TimerFires(k)
          BY <3>3 DEF Cancelled, TimerFires
    <3>4. CASE TimedOut(k)
          BY <3>4 DEF TimedOut
    <3>5. CASE Resume(k)
          BY <3>5 DEF Resume
    <3> QED  BY <1>3, <3>1, <3>2, <3>3, <3>4, <3>5 DEF Asking, CallStep
  <2> QED  BY <2>1, <2>2 DEF Mapped, Registered
<1>4. ASSUME NEW p \in Servers, Reading(p) PROVE Mapped'
  <2>1. ASSUME NEW k \in Requests, ReadAnswer(p, k) PROVE Mapped'
    <3>1. /\ pending' = pending \ {k}
          /\ future' = [future EXCEPT ![k] = IF k \in pending /\ @ = "open" THEN "answered" ELSE @]
          /\ UNCHANGED <<process, call, dropped>>
          BY <2>1 DEF ReadAnswer
    <3> QED  BY <3>1 DEF Mapped, Registered, TypeOK
  <2>2. ASSUME NEW k \in Requests, ReadBadAnswer(p, k) PROVE Mapped'
    <3>1. /\ pending' = pending \ {k}
          /\ dropped' = IF k \in pending THEN dropped \cup {k} ELSE dropped
          /\ UNCHANGED <<process, call, future>>
          BY <2>2 DEF ReadBadAnswer, endings
    <3> QED  BY <3>1 DEF Mapped, Registered, TypeOK
  <2>3. CASE ReaderStarts(p) \/ ReadNoise(p) \/ ReadBadLine(p) \/ ReadEnd(p)
        BY <1>1, <2>3 DEF ReaderStarts, ReadNoise, ReadBadLine, ReadEnd, endings
  <2> QED  BY <1>4, <2>1, <2>2, <2>3 DEF Reading
<1>5. ASSUME NEW p \in Servers, Serving(p) PROVE Mapped'
      BY <1>1, <1>5, ServingLeaves DEF readers, endings
<1>6. CASE UNCHANGED vars
      BY <1>1, <1>6 DEF vars, readers, endings
<1> QED  BY <1>2, <1>3, <1>4, <1>5, <1>6, StepKinds

\* What stays in the map was cancelled or could not be written; a transport that
\* was stopped has an empty one; and whoever waits for a future that is open is
\* in the map, so that stop() fails it, or its own answer ended a reader.  Also
\* when calls of start() and stop() overlap.
THEOREM MapIsTrue == Spec => []PendingIsTrue
<1>1. Init => Mapped
      BY DEF Init, Mapped, Registered, InFlight
<1>2. TypeOK /\ Mapped => PendingIsTrue
  <2> SUFFICES ASSUME TypeOK, Mapped PROVE PendingIsTrue
      OBVIOUS
  <2>1. \A k \in Requests : Registered(k)
        BY DEF Mapped
  <2> QED  BY <2>1 DEF Mapped, Registered, PendingIsTrue, TypeOK
<1> QED  BY <1>1, <1>2, MapKept, TypeCorrect, PTL DEF Spec

-----------------------------------------------------------------------------
(* Readers.                                                                *)

\* A reader is at the output of the process, or will be.
Reads(p) == reader[p] = "created" \/ (reader[p] = "reading" /\ source[p] = process)

\* A stop() that has cancelled a reader does not return before there is no
\* process any more.
Stopping(o) == at[o] \in {"joining", "closing", "killing"}

Read == (IsRunning /\ process \notin eof /\ ~broken) =>
            \/ \E p \in Servers : Reads(p)
            \/ \E o \in Owners : Stopping(o)

LEMMA NextLineReads ==
    ASSUME TypeOK, NEW p \in Servers, NextLine(p), IsRunning, process' = process
    PROVE  \E q \in Servers : Reads(q)'
<1> USE NoServerIsNone
<1>1. CASE \A q \in Servers \ {p} : ~(reader[q] = "reading" /\ source[q] = process)
  <2>1. reader'[p] = "reading" /\ source'[p] = process
        BY <1>1 DEF NextLine, TypeOK
  <2> QED  BY <2>1 DEF Reads
<1>2. ASSUME NEW q \in Servers \ {p}, reader[q] = "reading" /\ source[q] = process
      PROVE  Reads(q)'
      BY <1>2 DEF NextLine, EndReader, Reads, TypeOK
<1> QED  BY <1>1, <1>2

LEMMA OwningKeepsReaders ==
    ASSUME TypeOK, Read, NEW o \in Owners, Owning(o)
    PROVE  Read'
<1> USE NoServerIsNone
<1>1. CASE Start(o) \/ SpawnFails(o)
  <2>1. /\ \A q \in Owners : Stopping(q) => Stopping(q)'
        /\ UNCHANGED <<process, server, eof, reader, source, broken>>
        BY <1>1 DEF Start, SpawnFails, Stopping, TypeOK, procs, readers, endings
  <2> QED  BY <2>1 DEF Read, Reads, IsRunning
<1>2. ASSUME NEW p \in Servers, Spawned(o, p) PROVE Read'
  <2>1. reader'[p] = "created"
        BY <1>2 DEF Spawned, TypeOK
  <2> QED  BY <2>1 DEF Read, Reads
<1>3. CASE Stop(o)
  <2>1. \/ at'[o] \in {"joining", "closing"}
        \/ process' = NoServer
        BY <1>3 DEF Stop, CloseOrSettle, TypeOK
  <2> QED  BY <2>1 DEF Read, Stopping, IsRunning
<1>4. CASE Joined(o)
  <2>1. at'[o] = "closing" \/ process' = NoServer
        BY <1>4 DEF Joined, CloseOrSettle, TypeOK
  <2> QED  BY <2>1 DEF Read, Stopping, IsRunning
<1>5. CASE Stopped(o)
      BY <1>5 DEF Stopped, Read, IsRunning
<1>6. CASE Kill(o)
  <2>1. at'[o] = "killing" \/ process' = NoServer
        BY <1>6 DEF Kill, TypeOK
  <2> QED  BY <2>1 DEF Read, Stopping, IsRunning
<1> QED  BY <1>1, <1>2, <1>3, <1>4, <1>5, <1>6 DEF Owning, OwnerStep

LEMMA ReadingKeepsReaders ==
    ASSUME TypeOK, Read, NEW p \in Servers, Reading(p)
    PROVE  Read'
<1>1. UNCHANGED <<process, server, eof, at>>
      BY ReadingLeaves DEF procs, owners
<1>2. CASE NextLine(p)
      BY <1>1, <1>2, NextLineReads DEF Read, IsRunning
<1>3. CASE broken'
      BY <1>3 DEF Read
<1>4. CASE ReadEnd(p)
  <2>1. /\ reader[p] = "reading" /\ source[p] \in eof
        /\ reader' = [reader EXCEPT ![p] = "done"]
        /\ source' = source /\ broken' = broken
        BY <1>4 DEF ReadEnd, EndReader, endings
  <2>2. ASSUME NEW q \in Servers, Reads(q), process \notin eof PROVE Reads(q)'
        BY <2>1, <2>2, <1>1 DEF Reads, TypeOK
  <2> QED  BY <1>1, <2>1, <2>2 DEF Read, Stopping, IsRunning
<1> QED  BY <1>2, <1>3, <1>4 
       DEF Reading, ReaderStarts, ReadNoise, ReadBadLine, ReadAnswer, ReadBadAnswer

LEMMA ReadersKept == TypeOK /\ Read /\ [Next]_vars => Read'
<1> SUFFICES ASSUME TypeOK, Read, [Next]_vars PROVE Read'
    OBVIOUS
<1>1. ASSUME UNCHANGED <<process, server, eof, readers, at>> PROVE Read'
      BY <1>1 DEF Read, Reads, Stopping, IsRunning, readers, endings
<1>2. ASSUME NEW k \in Requests, Asking(k) PROVE Read'
      BY <1>1, <1>2, AskingLeaves DEF procs, owners
<1>3. ASSUME NEW p \in Servers, Serving(p) PROVE Read'
  <2>1. /\ eof \subseteq eof'
        /\ process \in Servers /\ server[process] = "exited" => server'[process] = "exited"
        BY <1>3 DEF Serving, CloseOutput, Exit, Answer, procs, TypeOK
  <2>2. UNCHANGED <<process, reader, source, broken, at>>
        BY <1>3, ServingLeaves DEF readers, endings, owners
  <2> QED  BY <2>1, <2>2 DEF Read, Reads, Stopping, IsRunning, TypeOK
<1>4. CASE UNCHANGED vars
      BY <1>1, <1>4 DEF vars, procs, owners
<1> QED  BY <1>2, <1>3, <1>4, OwningKeepsReaders, ReadingKeepsReaders, StepKinds

\* A transport that runs and that nobody stops is read, also when calls of
\* start() and stop() overlap.
THEOREM TransportIsRead == Spec => []SomebodyReads
<1>1. Init => Read
      BY DEF Init, Read, IsRunning
<1>2. Read => SomebodyReads
      BY DEF Read, Reads, Stopping, SomebodyReads
<1> QED  BY <1>1, <1>2, ReadersKept, TypeCorrect, PTL DEF Spec
=============================================================================
