------------------------------ MODULE MCPClient ------------------------------
(***************************************************************************)
(* mcp/client.py and mcp/registry.py: the servers of the bill of materials, *)
(* the verification of their tool lists, and the calls that are sent to    *)
(* them.  Verifications and calls are coroutines of one event loop; each   *)
(* is at an await when another one moves.  Servers are external: each time  *)
(* they answer with the registered tool list or with another one.          *)
(***************************************************************************)
EXTENDS Naturals, Sequences, FiniteSetsExt, Sanitizer

CONSTANTS Bom,        \* the servers of registry.json, in the order of the file: each with its
                      \* name, its tools, and whether their hash is pinned
          Callers,    \* who calls tools, one at a time
          Verifiers   \* who calls verify_manifests

Servers == DOMAIN Bom

\* The index of tools: a server further down the file takes over a tool that
\* an earlier one lists, too.  0 stands for an unregistered tool.
ServerFor(tool) ==
    LET listing == {i \in Servers : tool \in Bom[i].tools}
    IN  IF listing = {} THEN 0 ELSE Max(listing)

VARIABLES blocked,    \* _blocked_servers: names
          status,     \* _verification_results: one outcome per server
          checking,   \* the server that a verification waits for, or 0
          found,      \* the results of a verification so far
          sent,       \* the server that a caller waits for, or 0
          mismatched  \* history: names of servers seen with another tool list

vars == <<blocked, status, checking, found, sent, mismatched>>

verification == <<checking, found, status>>

\* A server whose hash is missing from the file is skipped, as if it matched.
Unasked == [i \in Servers |-> IF Bom[i].pinned THEN "unasked" ELSE "skipped"]

Init == /\ blocked = {}
        /\ status = [i \in Servers |-> "none"]
        /\ checking = [v \in Verifiers |-> 0]
        /\ found = [v \in Verifiers |-> Unasked]
        /\ sent = [c \in Callers |-> 0]
        /\ mismatched = {}

-----------------------------------------------------------------------------
(* verify_manifests: one server after the other.                           *)

\* The loop goes on after server i with these results: to the next server
\* that has to be asked, or out of the loop.
GoOn(v, i, results) ==
    LET rest == {j \in Servers : j > i /\ Bom[j].pinned} IN
    IF rest = {} THEN /\ status' = results
                      /\ checking' = [checking EXCEPT ![v] = 0]
                      /\ found' = [found EXCEPT ![v] = Unasked]
                 ELSE /\ checking' = [checking EXCEPT ![v] = Min(rest)]
                      /\ found' = [found EXCEPT ![v] = results]
                      /\ UNCHANGED status

\* As a bug: a verification forgets what earlier ones blocked.
BugStartVerify(v) == /\ checking[v] = 0
                     /\ GoOn(v, 0, Unasked)
                     /\ blocked' = {}
                     /\ UNCHANGED <<sent, mismatched>>

StartVerify(v) == /\ checking[v] = 0
                  /\ GoOn(v, 0, Unasked)
                  /\ UNCHANGED <<blocked, sent, mismatched>>

\* As a bug: servers are blocked when all of them have answered.
BugCompare(v, match) ==
    LET i == checking[v]
        results == [found[v] EXCEPT ![i] = IF match THEN "match" ELSE "mismatch"]
    IN  /\ i # 0
        /\ blocked' = IF \E j \in Servers : j > i /\ Bom[j].pinned THEN blocked
                      ELSE blocked \cup {Bom[j].name : j \in {k \in Servers : results[k] = "mismatch"}}
        /\ mismatched' = IF match THEN mismatched ELSE mismatched \cup {Bom[i].name}
        /\ GoOn(v, i, results)
        /\ UNCHANGED sent

\* The server answers with some tool list; its hash is compared, and a server
\* with another one is blocked.
Compare(v, match) ==
    LET i == checking[v]
        other == IF match THEN {} ELSE {Bom[i].name}
    IN  /\ i # 0
        /\ blocked' = blocked \cup other
        /\ mismatched' = mismatched \cup other
        /\ GoOn(v, i, [found[v] EXCEPT ![i] = IF match THEN "match" ELSE "mismatch"])
        /\ UNCHANGED sent

\* Unreachable, too slow, an HTTP status, or a body that is no tool list:
\* noted, and the server stays as usable as it was.
FetchFails(v) ==
    /\ checking[v] # 0
    /\ GoOn(v, checking[v], [found[v] EXCEPT ![checking[v]] = "error"])
    /\ UNCHANGED <<blocked, sent, mismatched>>

\* Any other exception ends verify_manifests; its results are lost.
FetchRaises(v) ==
    /\ checking[v] # 0
    /\ checking' = [checking EXCEPT ![v] = 0]
    /\ found' = [found EXCEPT ![v] = Unasked]
    /\ UNCHANGED <<blocked, status, sent, mismatched>>

-----------------------------------------------------------------------------
(* call_tool.                                                              *)

\* An unregistered tool (MCPCallError), or a blocked server
\* (MCPSupplyChainError): the call raises, and nothing is sent.
Refused(tool) == ServerFor(tool) \notin {i \in Servers : Bom[i].name \notin blocked}

CallTool(c, tool) ==
    /\ sent[c] = 0
    /\ ~Refused(tool)
    /\ sent' = [sent EXCEPT ![c] = ServerFor(tool)]
    /\ UNCHANGED <<blocked, mismatched, verification>>

\* _dispatch returns or raises.
CallEnds(c) == /\ sent[c] # 0
               /\ sent' = [sent EXCEPT ![c] = 0]
               /\ UNCHANGED <<blocked, mismatched, verification>>

\* What the text of the MCPToolResult may be: that of a result is sanitised
\* here, the message of an error is not.
Delivered(isError, text) == IF isError THEN {text} ELSE Sanitized(text)

\* Everything but the calls.
Verify == \/ \E v \in Verifiers : StartVerify(v) \/ FetchFails(v) \/ FetchRaises(v)
          \/ \E v \in Verifiers, match \in BOOLEAN : Compare(v, match)

-----------------------------------------------------------------------------
(* Properties.                                                             *)

Outcomes == {"none", "skipped", "unasked", "match", "mismatch", "error"}

\* The type of every variable.
TypeOK == /\ blocked \subseteq {Bom[i].name : i \in Servers}
          /\ status \in [Servers -> Outcomes]
          /\ checking \in [Verifiers -> Servers \cup {0}]
          /\ found \in [Verifiers -> [Servers -> Outcomes]]
          /\ sent \in [Callers -> Servers \cup {0}]
          /\ mismatched \subseteq {Bom[i].name : i \in Servers}

\* From the moment one verification saw another tool list than the registered
\* one, nothing is sent to that server: not while the verification goes on,
\* not when it is ended by an exception, not when a later one sees a match.
NoCallAfterMismatch ==
    [][\A c \in Callers : sent[c] = 0 /\ sent'[c] # 0 => Bom[sent'[c]].name \notin mismatched]_vars

\* What get_verification_status returns is the work of one whole
\* verification, and a server it reports with a mismatch is blocked, however
\* verifications overlap.
StatusIsTrue ==
    \/ \A i \in Servers : status[i] = "none"
    \/ \A i \in Servers :
          /\ status[i] \in (IF Bom[i].pinned THEN {"match", "mismatch", "error"} ELSE {"skipped"})
          /\ status[i] = "mismatch" => Bom[i].name \in blocked
=============================================================================
