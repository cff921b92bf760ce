------------------------------ MODULE LLMClients ------------------------------
(***************************************************************************)
(* What the three shipped LLM clients (agents/llm.py, openai_client.py,    *)
(* google_client.py) make of a provider's response and of a conversation.  *)
(* A message of the history is the shape it has, its role, and the tool    *)
(* calls it asks for or answers.                                           *)
(***************************************************************************)
EXTENDS Naturals, Sequences

Providers == {"anthropic", "openai", "google"}

\* is_retryable_error: rate limits, server errors, and errors without a status
\* (0 counts as none).
Retryable(status) == status = 0 \/ status = 429 \/ status >= 500

\* create_message: how a response ended, as the session is told.  Anthropic's
\* word is passed on; the two others are said to want tools if and only if
\* there are tool calls, also when the response was cut off.
AnthropicStop(finish, calls) == finish
OpenAIStop(finish, calls) == IF calls # {} THEN "tool_use" ELSE "end_turn"
GoogleStop(finish, calls) == IF calls # {} THEN "tool_use" ELSE "end_turn"

StopReason(p, finish, calls) == CASE p = "anthropic" -> AnthropicStop(finish, calls)
                                  [] p = "openai" -> OpenAIStop(finish, calls)
                                  [] p = "google" -> GoogleStop(finish, calls)

Assistant(shape, calls) == [role |-> "assistant", shape |-> shape, calls |-> calls]
Results(shape, calls) == [role |-> "tool", shape |-> shape, calls |-> calls]

\* format_assistant_message of a response that came from a client for `by'.
\* Anthropic's content is kept as it came; the two others look for their own
\* attributes, and find no tool calls in another provider's response.
AnthropicAssistant(by, calls) == Assistant(by, calls)
OpenAIAssistant(by, calls) == Assistant("openai", IF by = "openai" THEN calls ELSE {})
GoogleAssistant(by, calls) == Assistant("google", IF by = "google" THEN calls ELSE {})

AssistantMessage(p, by, calls) == CASE p = "anthropic" -> AnthropicAssistant(by, calls)
                                    [] p = "openai" -> OpenAIAssistant(by, calls)
                                    [] p = "google" -> GoogleAssistant(by, calls)

\* build_tool_result_messages: each result carries the id of its call, also for
\* Gemini, which looks for the name of the tool there.
AnthropicResults(pairs) == Results("anthropic", pairs)
OpenAIResults(pairs) == Results("openai", pairs)
GoogleResults(pairs) == Results("google", pairs)

ResultMessages(p, pairs) == CASE p = "anthropic" -> AnthropicResults(pairs)
                              [] p = "openai" -> OpenAIResults(pairs)
                              [] p = "google" -> GoogleResults(pairs)

\* What a provider asks of a history: its own shape, and after a message with
\* tool calls the results of these very calls, before anything else.
Accepts(p, history) ==
    \A i \in DOMAIN history :
        /\ history[i].shape = p
        /\ history[i].role = "assistant" =>
               /\ i + 1 \in DOMAIN history
               /\ history[i + 1].role = "tool"
               /\ history[i + 1].calls = history[i].calls
=============================================================================
