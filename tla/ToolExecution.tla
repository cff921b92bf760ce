---------------------------- MODULE ToolExecution ----------------------------
(***************************************************************************)
(* _execute_tool of agents/session.py: what the tools of several sessions   *)
(* bring into their models' contexts.  The sessions share one MCPClient, to *)
(* which their tool handler passes calls, and one MemoryStore.  The policy  *)
(* checks in front of it are AgentSession's.                               *)
(***************************************************************************)
EXTENDS Naturals, Sequences

CONSTANTS Bom, Verifiers, Keys,
          Sessions,   \* sessions, each with one tool call at a time
          Policy      \* the trust tiers a session's memory_write_policy assigns

VARIABLES blocked, status, checking, found, sent, mismatched,
          rows, job,
          at,      \* what a session waits for
          shown    \* what a model was shown last, with the tier it came with

Client == INSTANCE MCPClient WITH Callers <- Sessions
Store == INSTANCE MemoryStore

clientVars == <<blocked, status, checking, found, sent, mismatched>>
storeVars == <<rows, job>>
vars == <<clientVars, storeVars, at, shown>>

ASSUME ConstantsAssumption ==
    /\ Bom \in Seq([name : STRING, tools : SUBSET STRING, pinned : BOOLEAN])
    /\ Policy \in [Sessions -> SUBSET Store!Tiers]

Tools == UNION {Bom[i].tools : i \in DOMAIN Bom}

Init == /\ Client!Init
        /\ Store!Init
        /\ at = [s \in Sessions |-> "idle"]
        /\ shown = [text |-> "plain", tier |-> "tool"]

Show(x, t) == shown' = [text |-> x, tier |-> t]

Move(s, from, to) == at[s] = from /\ at' = [at EXCEPT ![s] = to]

\* A tool handler that raises ends the run (ToolHandlerError), and so does a
\* database error.
HandlerRefuses(s, tool) == /\ Client!Refused(tool)
                           /\ Move(s, "idle", "ended")
                           /\ UNCHANGED <<clientVars, storeVars, shown>>

HandlerCalls(s, tool) == /\ Move(s, "idle", "calling")
                         /\ Client!CallTool(s, tool)
                         /\ UNCHANGED <<storeVars, shown>>

\* As a bug: the session leaves sanitising to the client.
BugHandlerReturns(s, isError, x) ==
    /\ Move(s, "calling", "idle")
    /\ Client!CallEnds(s)
    /\ \E d \in Client!Delivered(isError, x) : Show(d, "tool")
    /\ UNCHANGED storeVars

\* The server's answer passes the client and the gate's sanitiser.
HandlerReturns(s, isError, x) ==
    /\ Move(s, "calling", "idle")
    /\ Client!CallEnds(s)
    /\ \E d \in Client!Delivered(isError, x) : \E y \in Client!Sanitized(d) : Show(y, "tool")
    /\ UNCHANGED storeVars

HandlerRaises(s) == /\ Move(s, "calling", "ended")
                    /\ Client!CallEnds(s)
                    /\ UNCHANGED <<storeVars, shown>>

\* _handle_memory_tool.  A model may write anything, and what it reads is not
\* sanitised again.
WriteMemory(s, k, x, t) == /\ Move(s, "idle", "writing")
                           /\ Store!Write(s, k, x, t)
                           /\ UNCHANGED <<clientVars, shown>>

Written(s) == /\ Move(s, "writing", "idle")
              /\ Store!Upsert(s)
              /\ UNCHANGED <<clientVars, shown>>

WriteRaises(s) == /\ Move(s, "writing", "ended")
                  /\ Store!WriteFails(s)
                  /\ UNCHANGED <<clientVars, shown>>

QueryMemory(s, k) == /\ at[s] = "idle"
                     /\ rows[k] # Store!NoEntry
                     /\ Show(rows[k].text, rows[k].tier)
                     /\ UNCHANGED <<clientVars, storeVars, at>>

Verify == Client!Verify /\ UNCHANGED <<storeVars, at, shown>>

Next == \/ Verify
        \/ \E s \in Sessions, tool \in Tools \cup {"unregistered"} :
              HandlerRefuses(s, tool) \/ HandlerCalls(s, tool)
        \/ \E s \in Sessions, isError \in BOOLEAN, x \in Client!Arriving :
              HandlerReturns(s, isError, x)
        \/ \E s \in Sessions : HandlerRaises(s) \/ Written(s) \/ WriteRaises(s)
        \/ \E s \in Sessions, k \in Keys :
              \/ \E x \in Store!Arriving, t \in Policy[s] : WriteMemory(s, k, x, t)
              \/ QueryMemory(s, k)

Spec == Init /\ [][Next]_vars

-----------------------------------------------------------------------------
(* Properties.                                                             *)

Trusted == {"TRUSTED", "INTERNAL"}

\* The type of every variable, of all three modules.
TypeOK == /\ Client!TypeOK
          /\ Store!TypeOK
          /\ at \in [Sessions -> {"idle", "calling", "writing", "ended"}]
          /\ shown \in [text : Store!Text, tier : Store!Tiers \cup {"tool"}]

\* Nothing reaches a model past the sanitiser: a text that it would redact and
\* has not gone over is shown only from memory, as an entry of a trusted tier;
\* never from a server, whatever way its answer takes, and never with the tier
\* of an agent or a tool.  One pass is all that is promised: what it leaves may
\* be a text that another one would redact.
RawTextIsVouched == shown.text = "instructions" => shown.tier \in Trusted

\* An entry's tier is one that the policy of the session it names assigns,
\* also when sessions write the same key at once: trust is not inherited from
\* an earlier writer.
TrustIsEarned ==
    \A k \in Keys : rows[k] # Store!NoEntry => rows[k].tier \in Policy[rows[k].session]

\* What MCPClient promises, with sessions for callers.
NoCallAfterMismatch == Client!NoCallAfterMismatch
StatusIsTrue == Client!StatusIsTrue
=============================================================================
