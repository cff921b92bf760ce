-------------------------- MODULE ToolExecutionProofs --------------------------
(***************************************************************************)
(* Proofs about the tools of sessions that share an MCP client and a       *)
(* memory, for every bill of materials and every write policy.             *)
(***************************************************************************)
EXTENDS ToolExecution, TLAPS, WellFoundedInduction

\* A text that no pass of the sanitiser has gone over, and that one would redact,
\* comes with a trusted tier.
Vouched(e) == e.text = "instructions" => e.tier \in Trusted

\* What a session has asked to be written, and what stands in the table, is
\* vouched for, and has a tier that its session's policy assigns.
JobsAreEarned ==
    \A s \in Sessions : job[s] # Store!NoJob =>
        job[s].tier \in Policy[s] /\ Vouched(job[s])

RowsAreEarned ==
    \A k \in Keys : rows[k] # Store!NoEntry =>
        rows[k].tier \in Policy[rows[k].session] /\ Vouched(rows[k])

DataInv == /\ Store!TypeOK
           /\ JobsAreEarned
           /\ RowsAreEarned
           /\ Vouched(shown)

\* write() vouches for what it takes.
LEMMA WriteVouches ==
    ASSUME DataInv, NEW s \in Sessions, NEW k \in Keys, NEW x \in Store!Arriving,
           NEW t \in Policy[s], Store!Write(s, k, x, t)
    PROVE  Store!TypeOK' /\ JobsAreEarned' /\ UNCHANGED rows
<1>0. PICK y \in IF t \in Store!SanitizeTiers THEN Store!Sanitized(x) ELSE {x} :
             job' = [job EXCEPT ![s] = [key |-> k, text |-> y, tier |-> t]]
      BY DEF Store!Write
<1> DEFINE new == [key |-> k, text |-> y, tier |-> t]
<1>1. t \in Store!Tiers
      BY ConstantsAssumption
<1>2. new \in [key : Keys, text : Store!Text, tier : Store!Tiers] /\ Vouched(new)
  <2>1. y \in Store!Text
        BY DEF Store!Text, Store!Arriving, Store!Sanitized
  <2>2. y = "instructions" => t \in Trusted
        BY <1>1 DEF Store!Sanitized, Trusted, Store!Tiers, Store!SanitizeTiers
  <2> QED
      BY <1>1, <2>1, <2>2 DEF Vouched
<1>3. new.tier = t
      OBVIOUS
<1> HIDE DEF new
<1>4. job' = [job EXCEPT ![s] = new] /\ UNCHANGED rows
      BY <1>0 DEF Store!Write, new
<1>5. Store!TypeOK'
      BY <1>2, <1>4 DEF DataInv, Store!TypeOK
<1>6. JobsAreEarned'
      BY <1>2, <1>3, <1>4 DEF DataInv, JobsAreEarned, Store!TypeOK
<1> QED
    BY <1>4, <1>5, <1>6

\* The table takes over a job as it is.
LEMMA UpsertKeeps ==
    ASSUME DataInv, NEW s \in Sessions, Store!Upsert(s)
    PROVE  Store!TypeOK' /\ JobsAreEarned' /\ RowsAreEarned'
<1> DEFINE j == job[s]
           row == [text |-> j.text, tier |-> j.tier, session |-> s]
<1>1. j \in [key : Keys, text : Store!Text, tier : Store!Tiers]
      BY DEF DataInv, Store!TypeOK, Store!Upsert
<1>2. j.tier \in Policy[s] /\ Vouched(j)
      BY DEF DataInv, JobsAreEarned, Store!Upsert
<1> HIDE DEF j
<1>3. row \in Store!Entries /\ row.session = s /\ row.tier \in Policy[s] /\ Vouched(row)
      BY <1>1, <1>2 DEF Store!Entries, Vouched
<1>4. j.key \in Keys
      BY <1>1
<1> HIDE DEF row
<1>5. /\ rows' = [rows EXCEPT ![j.key] = row]
      /\ job' = [job EXCEPT ![s] = Store!NoJob]
      BY DEF Store!Upsert, j, row
<1>6. Store!TypeOK'
      BY <1>3, <1>4, <1>5 DEF DataInv, Store!TypeOK
<1>7. JobsAreEarned'
      BY <1>5 DEF DataInv, JobsAreEarned, Store!TypeOK
<1>8. RowsAreEarned'
      BY <1>3, <1>4, <1>5 DEF DataInv, RowsAreEarned, Store!TypeOK
<1> QED
    BY <1>6, <1>7, <1>8

LEMMA DataInit == Init => DataInv
<1> SUFFICES ASSUME Init PROVE DataInv
    OBVIOUS
<1>1. Store!TypeOK
      BY DEF Init, Store!Init, Store!TypeOK
<1>2. JobsAreEarned /\ RowsAreEarned
      BY DEF Init, Store!Init, JobsAreEarned, RowsAreEarned
<1>3. Vouched(shown)
      BY DEF Init, Vouched
<1> QED
    BY <1>1, <1>2, <1>3 DEF DataInv

LEMMA DataNext == DataInv /\ [Next]_vars => DataInv'
<1> SUFFICES ASSUME DataInv, [Next]_vars PROVE DataInv'
    OBVIOUS
<1>1. ASSUME UNCHANGED storeVars, UNCHANGED shown PROVE DataInv'
      BY <1>1 DEF DataInv, storeVars, Store!TypeOK, JobsAreEarned, RowsAreEarned
<1>2. CASE Verify
      BY <1>1, <1>2 DEF Verify
<1>3. ASSUME NEW s \in Sessions, NEW tool, HandlerRefuses(s, tool) \/ HandlerCalls(s, tool)
      PROVE  DataInv'
      BY <1>1, <1>3 DEF HandlerRefuses, HandlerCalls
<1>4. ASSUME NEW s \in Sessions, NEW isError \in BOOLEAN, NEW x \in Client!Arriving,
             HandlerReturns(s, isError, x)
      PROVE  DataInv'
  <2>1. UNCHANGED storeVars
        BY <1>4 DEF HandlerReturns
  <2>2. \A d : "instructions" \notin Client!Sanitized(d)
        BY DEF Client!Sanitized
  <2>3. Vouched(shown')
        BY <1>4, <2>2 DEF HandlerReturns, Show, Vouched
  <2> QED
      BY <2>1, <2>3 DEF DataInv, storeVars, Store!TypeOK, JobsAreEarned, RowsAreEarned
<1>5. ASSUME NEW s \in Sessions, HandlerRaises(s) PROVE DataInv'
      BY <1>1, <1>5 DEF HandlerRaises
<1>6. ASSUME NEW s \in Sessions, Written(s) PROVE DataInv'
  <2>1. Store!Upsert(s) /\ UNCHANGED shown
        BY <1>6 DEF Written
  <2> QED
      BY <2>1, UpsertKeeps DEF DataInv
<1>7. ASSUME NEW s \in Sessions, WriteRaises(s) PROVE DataInv'
  <2>1. job' = [job EXCEPT ![s] = Store!NoJob] /\ UNCHANGED <<rows, shown>>
        BY <1>7 DEF WriteRaises, Store!WriteFails
  <2> QED
      BY <2>1 DEF DataInv, Store!TypeOK, JobsAreEarned, RowsAreEarned
<1>8. ASSUME NEW s \in Sessions, NEW k \in Keys, NEW x \in Store!Arriving, NEW t \in Policy[s],
             WriteMemory(s, k, x, t)
      PROVE  DataInv'
  <2>1. Store!Write(s, k, x, t) /\ UNCHANGED shown
        BY <1>8 DEF WriteMemory
  <2> QED
      BY <2>1, WriteVouches DEF DataInv, RowsAreEarned
<1>9. ASSUME NEW s \in Sessions, NEW k \in Keys, QueryMemory(s, k) PROVE DataInv'
  <2>1. Vouched(rows[k]) /\ UNCHANGED storeVars
        BY <1>9 DEF QueryMemory, DataInv, RowsAreEarned
  <2>2. Vouched(shown')
        BY <1>9, <2>1 DEF QueryMemory, Show, Vouched
  <2> QED
      BY <2>1, <2>2 DEF DataInv, storeVars, Store!TypeOK, JobsAreEarned, RowsAreEarned
<1>10. CASE UNCHANGED vars
       BY <1>1, <1>10 DEF vars
<1> QED
    BY <1>2, <1>3, <1>4, <1>5, <1>6, <1>7, <1>8, <1>9, <1>10 DEF Next

\* A model is shown a text that the sanitiser would redact, and that no pass of
\* it has gone over, only from memory, as an entry of a trusted tier.
THEOREM RawTextVouched == Spec => []RawTextIsVouched
<1>1. DataInv => RawTextIsVouched
      BY DEF DataInv, Vouched, RawTextIsVouched
<1> QED
    BY <1>1, DataInit, DataNext, PTL DEF Spec

\* An entry's tier is one that the policy of the session it names assigns.
THEOREM TrustEarned == Spec => []TrustIsEarned
<1>1. DataInv => TrustIsEarned
      BY DEF DataInv, RowsAreEarned, TrustIsEarned
<1> QED
    BY <1>1, DataInit, DataNext, PTL DEF Spec

-----------------------------------------------------------------------------
(* The client: what was seen with another tool list is blocked.            *)

BlockInv == mismatched \subseteq blocked

LEMMA BlockNext == BlockInv /\ [Next]_vars => BlockInv'
<1> SUFFICES ASSUME BlockInv, [Next]_vars PROVE BlockInv'
    OBVIOUS
<1>1. ASSUME UNCHANGED <<blocked, mismatched>> PROVE BlockInv'
      BY <1>1 DEF BlockInv
<1>2. CASE Verify
  <2>1. ASSUME NEW v \in Verifiers,
               Client!StartVerify(v) \/ Client!FetchFails(v) \/ Client!FetchRaises(v)
        PROVE  BlockInv'
        BY <1>1, <2>1 DEF Client!StartVerify, Client!FetchFails, Client!FetchRaises
  <2>2. ASSUME NEW v \in Verifiers, NEW match \in BOOLEAN, Client!Compare(v, match)
        PROVE  BlockInv'
        BY <2>2 DEF Client!Compare, BlockInv
  <2> QED
      BY <1>2, <2>1, <2>2 DEF Verify, Client!Verify
<1>3. ASSUME NEW s \in Sessions, NEW tool, HandlerRefuses(s, tool) \/ HandlerCalls(s, tool)
      PROVE  BlockInv'
      BY <1>1, <1>3 DEF HandlerRefuses, HandlerCalls, clientVars, Client!CallTool
<1>4. ASSUME NEW s \in Sessions, Client!CallEnds(s) PROVE BlockInv'
      BY <1>1, <1>4 DEF Client!CallEnds
<1>5. ASSUME UNCHANGED clientVars PROVE BlockInv'
      BY <1>1, <1>5 DEF clientVars
<1>6. CASE UNCHANGED vars
      BY <1>5, <1>6 DEF vars
<1> QED
    BY <1>2, <1>3, <1>4, <1>5, <1>6
    DEF Next, HandlerReturns, HandlerRaises, WriteMemory, Written, WriteRaises, QueryMemory

\* From the moment a verification saw another tool list than the registered
\* one, nothing is sent to that server.
THEOREM NothingSentAfterMismatch == Spec => NoCallAfterMismatch
<1>1. Init => BlockInv
      BY DEF Init, Client!Init, BlockInv
<1> DEFINE Allowed == \A c \in Sessions : sent[c] = 0 /\ sent'[c] # 0 =>
                          Bom[sent'[c]].name \notin mismatched
<1>2. BlockInv /\ [Next]_vars => [Allowed]_clientVars
  <2> SUFFICES ASSUME BlockInv, [Next]_vars, ~UNCHANGED clientVars PROVE Allowed
      OBVIOUS
  <2>1. ASSUME UNCHANGED sent PROVE Allowed
        BY <2>1
  <2>2. CASE Verify
        BY <2>1, <2>2 DEF Verify, Client!Verify, Client!StartVerify, Client!Compare,
                          Client!FetchFails, Client!FetchRaises
  <2>3. ASSUME NEW s \in Sessions, NEW tool, HandlerCalls(s, tool) PROVE Allowed
    <3>1. sent' = [sent EXCEPT ![s] = Client!ServerFor(tool)] /\ ~Client!Refused(tool)
          BY <2>3 DEF HandlerCalls, Client!CallTool
    <3>2. Bom[Client!ServerFor(tool)].name \notin blocked
          BY <3>1 DEF Client!Refused
    <3> QED
        BY <3>1, <3>2 DEF BlockInv
  <2>4. ASSUME NEW s \in Sessions, Client!CallEnds(s) PROVE Allowed
        BY <2>4 DEF Client!CallEnds
  <2> QED
      BY <2>2, <2>3, <2>4
      DEF Next, vars, HandlerRefuses, HandlerReturns, HandlerRaises, WriteMemory, Written,
          WriteRaises, QueryMemory
<1> QED
    BY <1>1, <1>2, BlockNext, PTL DEF Spec, NoCallAfterMismatch, Client!NoCallAfterMismatch,
       Client!vars, clientVars
-----------------------------------------------------------------------------
(* The client's verifications: the results that one collects are complete   *)
(* up to the server it waits for, and tell of no mismatch that is not       *)
(* blocked.                                                                *)

Final == {"match", "mismatch", "error"}

\* Who is reported with a mismatch has a name among these.
Told(results, names) ==
    \A j \in Client!Servers : results[j] = "mismatch" => Bom[j].name \in names

\* The results are complete for the servers before i.
DoneBefore(results, i) ==
    \A j \in Client!Servers :
        IF Bom[j].pinned THEN j < i => results[j] \in Final ELSE results[j] = "skipped"

Results == [Client!Servers -> Client!Outcomes]

Collecting(v) ==
    checking[v] # 0 => /\ Bom[checking[v]].pinned
                       /\ DoneBefore(found[v], checking[v])
                       /\ Told(found[v], blocked)

ClientInv == /\ Client!TypeOK
             /\ Client!StatusIsTrue
             /\ \A v \in Verifiers : Collecting(v)

LEMMA BomFacts ==
    /\ Client!Servers \subseteq Nat
    /\ 0 \notin Client!Servers
    /\ \A i \in Client!Servers : Bom[i].pinned \in BOOLEAN
<1> DEFINE Entry == [name : STRING, tools : SUBSET STRING, pinned : BOOLEAN]
<1>1. Bom \in Seq(Entry)
      BY ConstantsAssumption
<1> HIDE DEF Entry
<1>2. /\ Len(Bom) \in Nat /\ DOMAIN Bom = 1..Len(Bom)
      /\ \A i \in 1..Len(Bom) : Bom[i] \in Entry
      BY <1>1
<1>3. \A i \in 1..Len(Bom) : Bom[i].pinned \in BOOLEAN
      BY <1>2 DEF Entry
<1> QED
    BY <1>2, <1>3 DEF Client!Servers

LEMMA MinIsLeast ==
    ASSUME NEW S, S \subseteq Nat, S # {}
    PROVE  /\ Client!Min(S) \in S
           /\ \A y \in S : Client!Min(S) <= y
<1>1. PICK x \in S : \A y \in S : ~(<<y, x>> \in OpToRel(<, Nat))
      BY WFMin, NatLessThanWellFounded, Zenon
<1>2. \A y \in S : ~(y < x)
      BY <1>1, Zenon DEF OpToRel
<1>3. \A y \in S : x <= y
      BY <1>2
<1> QED
    BY <1>3 DEF Client!Min

\* Another answer makes the results complete for one more server.
LEMMA OneMoreDone ==
    ASSUME NEW i \in Client!Servers, Bom[i].pinned, NEW before \in Results, NEW o \in Final,
           DoneBefore(before, i)
    PROVE  DoneBefore([before EXCEPT ![i] = o], i + 1)
<1> DEFINE after == [before EXCEPT ![i] = o]
<1>1. after[i] = o /\ \A j \in Client!Servers : j # i => after[j] = before[j]
      BY DEF Results
<1> HIDE DEF after
<1> SUFFICES ASSUME NEW j \in Client!Servers
             PROVE  IF Bom[j].pinned THEN j < i + 1 => after[j] \in Final
                                     ELSE after[j] = "skipped"
    BY DEF DoneBefore, after
<1>2. i \in Nat /\ j \in Nat
      BY BomFacts
<1>3. CASE j = i
      BY <1>1, <1>3
<1>4. CASE j # i /\ ~Bom[j].pinned
      BY <1>1, <1>4 DEF DoneBefore
<1>5. CASE j # i /\ Bom[j].pinned
  <2>1. j < i + 1 => j < i
        BY <1>2, <1>5
  <2> QED
      BY <1>1, <1>5, <2>1 DEF DoneBefore
<1> QED
    BY <1>3, <1>4, <1>5

\* Going on from server i with results that are complete up to i.
LEMMA GoOnKeeps ==
    ASSUME ClientInv, NEW v \in Verifiers, NEW i \in Nat, NEW results \in Results,
           DoneBefore(results, i + 1), Told(results, blocked'), blocked \subseteq blocked',
           blocked' \subseteq {Bom[k].name : k \in Client!Servers},
           mismatched' \subseteq {Bom[k].name : k \in Client!Servers},
           UNCHANGED sent, Client!GoOn(v, i, results)
    PROVE  ClientInv'
<1> DEFINE rest == {j \in Client!Servers : j > i /\ Bom[j].pinned}
<1>1. CASE rest = {}
  <2>1. /\ status' = results
        /\ checking' = [checking EXCEPT ![v] = 0]
        /\ found' = [found EXCEPT ![v] = Client!Unasked]
        BY <1>1 DEF Client!GoOn
  <2>2. Client!Unasked \in Results
        BY DEF Client!Unasked, Results, Client!Outcomes
  <2>3. Client!TypeOK'
        BY <2>1, <2>2 DEF ClientInv, Client!TypeOK, Results
  <2>4. \A j \in Client!Servers :
            results[j] \in (IF Bom[j].pinned THEN Final ELSE {"skipped"})
    <3> SUFFICES ASSUME NEW j \in Client!Servers
                 PROVE  results[j] \in (IF Bom[j].pinned THEN Final ELSE {"skipped"})
        OBVIOUS
    <3>1. j \in Nat /\ (Bom[j].pinned => j < i + 1)
          BY <1>1, BomFacts
    <3> QED
        BY <3>1 DEF DoneBefore
  <2>5. Client!StatusIsTrue'
        BY <2>1, <2>4 DEF Client!StatusIsTrue, Told, Final
  <2>6. \A w \in Verifiers : Collecting(w)'
        BY <2>1 DEF ClientInv, Client!TypeOK, Collecting, DoneBefore, Told
  <2> QED
      BY <2>3, <2>5, <2>6 DEF ClientInv
<1>2. CASE rest # {}
  <2> DEFINE m == Client!Min(rest)
  <2>1. m \in rest /\ \A y \in rest : m <= y
        BY <1>2, BomFacts, MinIsLeast
  <2>2. /\ checking' = [checking EXCEPT ![v] = m]
        /\ found' = [found EXCEPT ![v] = results]
        /\ UNCHANGED status
        BY <1>2 DEF Client!GoOn
  <2> HIDE DEF m
  <2>3. Client!TypeOK'
        BY <2>1, <2>2 DEF ClientInv, Client!TypeOK, Results
  <2>4. Client!StatusIsTrue'
        BY <2>2 DEF ClientInv, Client!StatusIsTrue
  <2>5. DoneBefore(results, m)
    <3>1. \A j \in Client!Servers : j < m /\ Bom[j].pinned => j < i + 1
          BY <2>1, BomFacts
    <3> QED
        BY <3>1 DEF DoneBefore
  <2>6. \A w \in Verifiers : Collecting(w)'
        BY <2>1, <2>2, <2>5 DEF ClientInv, Client!TypeOK, Collecting, DoneBefore, Told
  <2> QED
      BY <2>3, <2>4, <2>6 DEF ClientInv
<1> QED
    BY <1>1, <1>2

LEMMA ClientInit == Client!Init => ClientInv
BY DEF Client!Init, ClientInv, Client!TypeOK, Client!StatusIsTrue, Collecting, Client!Outcomes,
       Client!Unasked

LEMMA VerifyKeeps ==
    ASSUME ClientInv, Client!Verify
    PROVE  ClientInv'
<1>1. ASSUME NEW v \in Verifiers, Client!StartVerify(v) PROVE ClientInv'
  <2>1. /\ Client!Unasked \in Results
        /\ DoneBefore(Client!Unasked, 0 + 1)
        /\ Told(Client!Unasked, blocked')
        BY BomFacts DEF Client!Unasked, Results, Client!Outcomes, DoneBefore, Told
  <2> QED
      BY <1>1, <2>1, GoOnKeeps DEF Client!StartVerify, ClientInv, Client!TypeOK
<1>2. ASSUME NEW v \in Verifiers, NEW match \in BOOLEAN, Client!Compare(v, match)
      PROVE  ClientInv'
  <2> DEFINE i == checking[v]
             o == IF match THEN "match" ELSE "mismatch"
             results == [found[v] EXCEPT ![i] = o]
  <2>1. /\ i \in Client!Servers /\ i \in Nat
        /\ Bom[i].pinned /\ DoneBefore(found[v], i) /\ Told(found[v], blocked)
        /\ found[v] \in Results
        BY <1>2, BomFacts DEF ClientInv, Client!TypeOK, Collecting, Client!Compare, Results
  <2>2. /\ blocked' = blocked \cup (IF match THEN {} ELSE {Bom[i].name})
        /\ mismatched' = mismatched \cup (IF match THEN {} ELSE {Bom[i].name})
        /\ Client!GoOn(v, i, results)
        /\ UNCHANGED sent
        BY <1>2 DEF Client!Compare
  <2> HIDE DEF i
  <2>3. results \in Results
        BY <2>1 DEF Results, Client!Outcomes
  <2>4. DoneBefore(results, i + 1)
    <3>1. o \in Final
          BY DEF Final
    <3> QED
        BY <2>1, <3>1, OneMoreDone
  <2>5. Told(results, blocked')
        BY <2>1, <2>2 DEF Told, Results
  <2> HIDE DEF results
  <2> QED
      BY <2>1, <2>2, <2>3, <2>4, <2>5, GoOnKeeps DEF ClientInv, Client!TypeOK
<1>3. ASSUME NEW v \in Verifiers, Client!FetchFails(v) PROVE ClientInv'
  <2> DEFINE i == checking[v]
             results == [found[v] EXCEPT ![i] = "error"]
  <2>1. /\ i \in Client!Servers /\ i \in Nat
        /\ Bom[i].pinned /\ DoneBefore(found[v], i) /\ Told(found[v], blocked)
        /\ found[v] \in Results
        BY <1>3, BomFacts DEF ClientInv, Client!TypeOK, Collecting, Client!FetchFails, Results
  <2>2. /\ UNCHANGED <<blocked, sent, mismatched>>
        /\ Client!GoOn(v, i, results)
        BY <1>3 DEF Client!FetchFails
  <2> HIDE DEF i
  <2>3. results \in Results
        BY <2>1 DEF Results, Client!Outcomes
  <2>4. DoneBefore(results, i + 1)
    <3>1. "error" \in Final
          BY DEF Final
    <3> QED
        BY <2>1, <3>1, OneMoreDone
  <2>5. Told(results, blocked')
        BY <2>1, <2>2 DEF Told, Results
  <2> HIDE DEF results
  <2> QED
      BY <2>1, <2>2, <2>3, <2>4, <2>5, GoOnKeeps DEF ClientInv, Client!TypeOK
<1>4. ASSUME NEW v \in Verifiers, Client!FetchRaises(v) PROVE ClientInv'
  <2>1. /\ checking' = [checking EXCEPT ![v] = 0]
        /\ found' = [found EXCEPT ![v] = Client!Unasked]
        /\ UNCHANGED <<blocked, status, sent, mismatched>>
        BY <1>4 DEF Client!FetchRaises
  <2>2. Client!Unasked \in Results
        BY DEF Client!Unasked, Results, Client!Outcomes
  <2>3. Client!TypeOK' /\ Client!StatusIsTrue'
        BY <2>1, <2>2 DEF ClientInv, Client!TypeOK, Results, Client!StatusIsTrue
  <2>4. \A w \in Verifiers : Collecting(w)'
        BY <2>1 DEF ClientInv, Client!TypeOK, Collecting, DoneBefore, Told
  <2> QED
      BY <2>3, <2>4 DEF ClientInv
<1> QED
    BY <1>1, <1>2, <1>3, <1>4 DEF Client!Verify

LEMMA ClientNext == ClientInv /\ [Next]_vars => ClientInv'
<1> SUFFICES ASSUME ClientInv, [Next]_vars PROVE ClientInv'
    OBVIOUS
<1>1. ASSUME UNCHANGED <<blocked, mismatched, status, checking, found>>,
             sent' \in [Sessions -> Client!Servers \cup {0}]
      PROVE  ClientInv'
      BY <1>1 DEF ClientInv, Client!TypeOK, Client!StatusIsTrue, Collecting, DoneBefore, Told
<1>2. CASE Verify
      BY <1>2, VerifyKeeps DEF Verify
<1>3. ASSUME UNCHANGED clientVars PROVE ClientInv'
      BY <1>1, <1>3 DEF clientVars, ClientInv, Client!TypeOK
<1>4. ASSUME NEW s \in Sessions, NEW tool, HandlerCalls(s, tool) PROVE ClientInv'
  <2>1. /\ sent' = [sent EXCEPT ![s] = Client!ServerFor(tool)]
        /\ Client!ServerFor(tool) \in Client!Servers
        /\ UNCHANGED <<blocked, mismatched, status, checking, found>>
        BY <1>4 DEF HandlerCalls, Client!CallTool, Client!Refused, Client!verification
  <2> QED
      BY <1>1, <2>1 DEF ClientInv, Client!TypeOK
<1>5. ASSUME NEW s \in Sessions, Client!CallEnds(s) PROVE ClientInv'
  <2>1. /\ sent' = [sent EXCEPT ![s] = 0]
        /\ UNCHANGED <<blocked, mismatched, status, checking, found>>
        BY <1>5 DEF Client!CallEnds, Client!verification
  <2> QED
      BY <1>1, <2>1 DEF ClientInv, Client!TypeOK
<1>6. CASE UNCHANGED vars
      BY <1>3, <1>6 DEF vars
<1> QED
    BY <1>2, <1>3, <1>4, <1>5, <1>6
    DEF Next, HandlerRefuses, HandlerReturns, HandlerRaises, WriteMemory, Written, WriteRaises,
        QueryMemory

\* The published status is the work of one whole verification, and a server
\* that it reports with a mismatch is blocked.
THEOREM StatusTrue == Spec => []StatusIsTrue
<1>1. Init => ClientInv
      BY ClientInit DEF Init
<1>2. ClientInv => StatusIsTrue
      BY DEF ClientInv, StatusIsTrue
<1> QED
    BY <1>1, <1>2, ClientNext, PTL DEF Spec

-----------------------------------------------------------------------------
(* Types.                                                                  *)

Waits == {"idle", "calling", "writing", "ended"}

Shown == [text : Store!Text, tier : Store!Tiers \cup {"tool"}]

OwnTypes == at \in [Sessions -> Waits] /\ shown \in Shown

LEMMA OwnTypesNext == DataInv /\ OwnTypes /\ [Next]_vars => OwnTypes'
<1> SUFFICES ASSUME DataInv, OwnTypes, [Next]_vars PROVE OwnTypes'
    OBVIOUS
<1>1. ASSUME NEW s \in Sessions, NEW p \in Waits, NEW q \in Waits, Move(s, p, q)
      PROVE  at' \in [Sessions -> Waits]
      BY <1>1 DEF Move, OwnTypes
<1>2. {"idle", "calling", "writing", "ended"} \subseteq Waits
      BY DEF Waits
<1>3. CASE Verify
      BY <1>3 DEF Verify, OwnTypes
<1>4. ASSUME NEW s \in Sessions, NEW tool, HandlerRefuses(s, tool) \/ HandlerCalls(s, tool)
      PROVE  OwnTypes'
      BY <1>1, <1>2, <1>4 DEF HandlerRefuses, HandlerCalls, OwnTypes
<1>5. ASSUME NEW s \in Sessions, NEW isError \in BOOLEAN, NEW x \in Client!Arriving,
             HandlerReturns(s, isError, x)
      PROVE  OwnTypes'
  <2>1. \A d : Client!Sanitized(d) \subseteq Store!Text
        BY DEF Client!Sanitized, Store!Text
  <2>2. shown' \in Shown
        BY <1>5, <2>1 DEF HandlerReturns, Show, Shown
  <2> QED
      BY <1>1, <1>2, <1>5, <2>2 DEF HandlerReturns, OwnTypes
<1>6. ASSUME NEW s \in Sessions, HandlerRaises(s) \/ Written(s) \/ WriteRaises(s)
      PROVE  OwnTypes'
      BY <1>1, <1>2, <1>6 DEF HandlerRaises, Written, WriteRaises, OwnTypes
<1>7. ASSUME NEW s \in Sessions, NEW k \in Keys, NEW x, NEW t, WriteMemory(s, k, x, t)
      PROVE  OwnTypes'
      BY <1>1, <1>2, <1>7 DEF WriteMemory, OwnTypes
<1>8. ASSUME NEW s \in Sessions, NEW k \in Keys, QueryMemory(s, k) PROVE OwnTypes'
  <2>1. rows[k] \in Store!Entries
        BY <1>8 DEF QueryMemory, DataInv, Store!TypeOK
  <2>2. shown' \in Shown
        BY <1>8, <2>1 DEF QueryMemory, Show, Shown, Store!Entries
  <2> QED
      BY <1>8, <2>2 DEF QueryMemory, OwnTypes
<1>9. CASE UNCHANGED vars
      BY <1>9 DEF vars, OwnTypes
<1> QED
    BY <1>3, <1>4, <1>5, <1>6, <1>7, <1>8, <1>9 DEF Next

\* The type invariant of the client, the memory and the sessions.
THEOREM TypeCorrect == Spec => []TypeOK
<1>1. Init => ClientInv
      BY ClientInit DEF Init
<1>2. Init => OwnTypes
      BY DEF Init, OwnTypes, Waits, Shown, Store!Text
<1>3. ClientInv /\ DataInv /\ OwnTypes => TypeOK
      BY DEF ClientInv, DataInv, OwnTypes, TypeOK, Waits, Shown
<1> QED
    BY <1>1, <1>2, <1>3, DataInit, DataNext, ClientNext, OwnTypesNext, PTL DEF Spec

=============================================================================
