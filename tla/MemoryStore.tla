----------------------------- MODULE MemoryStore -----------------------------
(***************************************************************************)
(* memory/store.py: values that agents keep, each with the trust tier of    *)
(* the one who wrote it.  write() sanitises on the event loop and leaves the *)
(* database to a thread.  Timestamps are left out.                         *)
(***************************************************************************)
EXTENDS Sanitizer

CONSTANTS Keys, Sessions

Tiers == {"TRUSTED", "INTERNAL", "DELEGATED", "EXTERNAL", "UNTRUSTED"}
SanitizeTiers == {"DELEGATED", "EXTERNAL", "UNTRUSTED"}

VARIABLES rows,   \* memory_entries
          job     \* the write that a session's thread has to do

Entries == [text : Text, tier : Tiers, session : Sessions]
NoEntry == [text |-> "plain", tier |-> "none", session |-> "none"]
NoJob == [key |-> "none", text |-> "plain", tier |-> "none"]

Init == /\ rows = [k \in Keys |-> NoEntry]
        /\ job = [s \in Sessions |-> NoJob]

\* write: what an agent, a tool or somebody unknown wrote is sanitised.
Write(s, k, x, t) ==
    /\ job[s] = NoJob
    /\ \E y \in IF t \in SanitizeTiers THEN Sanitized(x) ELSE {x} :
          job' = [job EXCEPT ![s] = [key |-> k, text |-> y, tier |-> t]]
    /\ UNCHANGED rows

\* As a bug: the UPDATE leaves trust_tier as it is.
BugUpsertTier(s) ==
    /\ job[s] # NoJob
    /\ LET k == job[s].key IN
       rows' = [rows EXCEPT ![k] =
           [text |-> job[s].text, session |-> s,
            tier |-> IF rows[k] = NoEntry THEN job[s].tier ELSE rows[k].tier]]
    /\ job' = [job EXCEPT ![s] = NoJob]

\* _sync_write: INSERT, or UPDATE of everything but created_at.
Upsert(s) ==
    /\ job[s] # NoJob
    /\ rows' = [rows EXCEPT ![job[s].key] =
                  [text |-> job[s].text, tier |-> job[s].tier, session |-> s]]
    /\ job' = [job EXCEPT ![s] = NoJob]

\* The database is locked, or the thread's task is cancelled before it ran.
WriteFails(s) == /\ job[s] # NoJob
                 /\ job' = [job EXCEPT ![s] = NoJob]
                 /\ UNCHANGED rows

-----------------------------------------------------------------------------

\* The type of every variable.
TypeOK == /\ rows \in [Keys -> Entries \cup {NoEntry}]
          /\ job \in [Sessions -> [key : Keys, text : Text, tier : Tiers] \cup {NoJob}]
=============================================================================
