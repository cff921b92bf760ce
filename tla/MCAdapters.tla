------------------------------ MODULE MCAdapters ------------------------------
(***************************************************************************)
(* Adapters with two calls on one loop, that are a batch of OpenAIAdapter   *)
(* or come by other adapters, and one that synchronous code makes, in a     *)
(* thread of its own or in the thread of that loop.                        *)
(***************************************************************************)
EXTENDS Adapters, TLC

CONSTANTS c1, c2, c3, q1, main, own

MCLoopOf == c1 :> main @@ c2 :> main @@ c3 :> own @@ q1 :> main

Wiring(a1, a2, a3, l, b) == [adapter |-> c1 :> a1 @@ c2 :> a2 @@ c3 :> a3,
                             from |-> c1 :> main @@ c2 :> main @@ c3 :> l, batch |-> b]

MCWirings ==
    {Wiring(OpenAI, OpenAI, Dify, NoLoop, {c1, c2}),
     Wiring(Base, Handoff, CrewAI, main, {}),
     Wiring(OpenAIAgents, LangChain, OpenAI, main, {}),
     Wiring(PydanticAI, AgentAsTool, LlamaIndex, main, {}),
     Wiring(SemanticKernel, LangChainToolkit, Governed, main, {}),
     Wiring(Governed, LangGraph, Haystack, main, {}),
     Wiring(GoogleADK, LangGraph, Dify, main, {})}
=============================================================================
