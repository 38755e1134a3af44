----------------------------- MODULE WireFormat -----------------------------
(***************************************************************************)
(* The two wires of nh-core: the body a conversation becomes, what a       *)
(* body asks of a model that thinks, and what an answer is taken for.      *)
(* Messages are those of Conversation.                                     *)
(***************************************************************************)
EXTENDS Naturals, Sequences, SequencesExt

----------------------------------------------------------------------------
(* anthropic.rs: build_body.                                               *)

CallId(message, k) == << message.run, message.turn, message.calls[k] >>
ResultBlock(message) == [kind |-> "result", id |-> << message.run, message.turn, message.call >>]
TextBlock == [kind |-> "text", id |-> << >>]

AssistantBlocks(message) ==
  (IF message.text THEN << TextBlock >> ELSE << >>)
    \o [k \in 1 .. Len(message.calls) |-> [kind |-> "use", id |-> CallId(message, k)]]

MUT_PushUserBlock(body, block) == Append(body.messages, [role |-> "user", blocks |-> << block >>])
\* push_user_block: next to a user message in the last one
PushUserBlock(body, block) ==
  IF body.messages # << >> /\ body.previousWasUser
  THEN Append(Front(body.messages),
              [Last(body.messages) EXCEPT !.blocks = Append(@, block)])
  ELSE Append(body.messages, [role |-> "user", blocks |-> << block >>])

EmptyBody == [ok |-> TRUE, system |-> << >>, messages |-> << >>,
              previousWasUser |-> FALSE, systemAfterAssistant |-> FALSE]

AddToBody(body, message) ==
  CASE message.role \in {"system", "marker"} ->
         [body EXCEPT !.system = Append(@, message),
                      !.systemAfterAssistant =
                         @ \/ (body.messages # << >> /\ Last(body.messages).role = "assistant")]
    [] message.role = "assistant" ->
         [body EXCEPT !.ok = @ /\ ~body.systemAfterAssistant,
                      !.messages = Append(@, [role |-> "assistant",
                                              blocks |-> AssistantBlocks(message)]),
                      !.previousWasUser = FALSE]
    [] message.role \in {"user", "tool"} ->
         [body EXCEPT !.messages =
                         PushUserBlock(body, IF message.role = "tool" THEN ResultBlock(message)
                                             ELSE TextBlock),
                      !.previousWasUser = TRUE, !.systemAfterAssistant = FALSE]

AnthropicBody(messages) ==
  LET body == FoldLeft(AddToBody, EmptyBody, messages)
  IN  [body EXCEPT !.ok = @ /\ ~body.systemAfterAssistant /\ body.messages # << >>]

----------------------------------------------------------------------------
(* wire.rs: resolve_effort.                                                *)

Efforts == {"none", "low", "high", "max"}
Dialects == {"deepseek-nhm", "kimi-toggle", "always", "always-effort", "glm-always-effort",
             "glm-hm", "none"}

AtLeast(floor, effort) == IF effort \in {"high", "max"} THEN effort ELSE floor

MUT_Explicitly(effort, dialect) ==
  CASE dialect \in {"deepseek-nhm", "kimi-toggle", "glm-hm"} -> effort
    [] dialect \in {"always-effort", "glm-always-effort"}    -> AtLeast("low", effort)
    [] dialect = "always"                                    -> "high"
    [] dialect = "none"                                      -> "none"
Explicitly(effort, dialect) ==
  CASE dialect \in {"deepseek-nhm", "kimi-toggle"}        -> effort
    [] dialect \in {"always-effort", "glm-always-effort"} -> AtLeast("low", effort)
    [] dialect = "glm-hm" -> IF effort = "none" THEN "none" ELSE AtLeast("high", effort)
    [] dialect = "always" -> "high"
    [] dialect = "none"   -> "none"

ByPosture(posture, dialect) ==
  CASE dialect = "none" -> "none"
    [] posture = "floor" /\ dialect # "none" ->
         (CASE dialect = "always" -> "high"
            [] dialect \in {"always-effort", "glm-always-effort"} -> "low"
            [] OTHER -> "none")
    [] posture = "default" /\ dialect # "none" ->
         (CASE dialect \in {"always", "always-effort", "glm-hm"} -> "high"
            [] dialect = "glm-always-effort" -> "max"
            [] OTHER -> "none")
    [] posture = "ceiling" /\ dialect # "none" ->
         IF dialect \in {"always-effort", "glm-always-effort"} THEN "max" ELSE "high"

\* explicit is an effort or "unset"
ResolveEffort(explicit, posture, dialect, wire) ==
  CASE wire = "anthropic" -> "none"
    [] wire = "openai" /\ explicit # "unset" -> Explicitly(explicit, dialect)
    [] OTHER -> ByPosture(posture, dialect)

----------------------------------------------------------------------------
(* openai.rs: what the body says about thinking, with "unset" for a field  *)
(* it does not have.                                                       *)

ThinkingIsActive(dialect, effort) ==
  CASE dialect \in {"deepseek-nhm", "glm-hm", "kimi-toggle"} -> effort # "none"
    [] dialect \in {"always", "always-effort", "glm-always-effort"} -> TRUE
    [] dialect = "none" -> FALSE

ApplyThinking(dialect, keep, effort) ==
  LET says(thinking, asks) == [thinking |-> thinking, effort |-> asks, keep |-> FALSE]
  IN CASE dialect = "deepseek-nhm" ->
            IF effort = "none" THEN says("disabled", "unset") ELSE says("enabled", effort)
       [] dialect = "kimi-toggle" ->
            IF effort = "none" THEN says("disabled", "unset")
            ELSE [says("enabled", "unset") EXCEPT !.keep = keep]
       [] dialect = "always-effort"     -> says("unset", AtLeast("low", effort))
       [] dialect = "glm-always-effort" -> says("enabled", AtLeast("low", effort))
       [] dialect = "glm-hm" ->
            IF effort = "none" THEN says("disabled", "unset")
            ELSE says("unset", AtLeast("high", effort))
       [] dialect \in {"always", "none"} -> says("unset", "unset")

\* reasoning_to_send, for a message [role, content, calls, reasoning]; "unset" is no field
ReasoningToSend(message, policy, active) ==
  LET kept == policy.preserve \/ (policy.preserveWhenThinking /\ active)
      toolOnly == message.calls /\ message.content \in {"unset", ""}
  IN  IF message.role # "assistant" THEN "unset"
      ELSE IF kept /\ message.reasoning # "unset" THEN message.reasoning
      ELSE IF policy.emptyOnToolReplay /\ toolOnly THEN "" ELSE "unset"

----------------------------------------------------------------------------
(* Answers.  A finish reason, a counter or a name the provider did not     *)
(* send is "unset".                                                        *)

Rejected == [ok |-> FALSE]

\* validate_provider_tool_calls
PairableCalls(calls) ==
  /\ \A i \in DOMAIN calls : calls[i].id # "" /\ calls[i].name # ""
  /\ \A i, j \in DOMAIN calls : i # j => calls[i].id # calls[j].id

Evidence(usage) ==
  IF usage.prompt # "unset" /\ usage.completion # "unset" THEN "measured"
  ELSE IF {usage.prompt, usage.completion, usage.cached} = {"unset"} THEN "unknown" ELSE "partial"

MUT_AnthropicFinish(raw) ==
  CASE raw = "unset" -> "missing"
    [] raw = "end_turn" -> "stop"
    [] raw = "tool_use" -> "tool use"
    [] OTHER -> "unknown"
\* FinishReason::from_wire
AnthropicFinish(raw) ==
  CASE raw = "unset" -> "missing"
    [] raw \in {"end_turn", "stop_sequence"} -> "stop"
    [] raw = "tool_use" -> "tool use"
    [] raw = "max_tokens" -> "truncated"
    [] OTHER -> "unknown"

OpenAiFinish(raw) ==
  CASE raw = "unset" -> "missing"
    [] raw = "stop" -> "stop"
    [] raw = "tool_calls" -> "tool use"
    [] raw \in {"length", "model_length"} -> "truncated"
    [] raw = "model_context_window_exceeded" -> "context window"
    [] raw \in {"content_filter", "sensitive"} -> "filtered"
    [] raw \in {"network_error", "insufficient_system_resource"} -> "interrupted"
    [] OTHER -> "unknown"

\* The first choice, whatever the others say
ParseOpenAi(body) ==
  IF body.choices = << >> THEN Rejected
  ELSE LET choice == Head(body.choices) IN
       IF choice.role \notin {"unset", "assistant"} \/ ~PairableCalls(choice.calls) THEN Rejected
       ELSE [ok |-> TRUE, text |-> choice.content, calls |-> choice.calls,
             finish |-> OpenAiFinish(choice.finish), evidence |-> Evidence(body.usage)]

\* Text blocks are joined, blocks of another kind passed over
ParseAnthropic(body) ==
  LET of(kind) == SelectSeq(body.content, LAMBDA block : block.kind = kind)
      calls    == [i \in DOMAIN of("use") |-> [id |-> of("use")[i].id, name |-> of("use")[i].name]]
      texts    == of("text")
  IN  IF ~PairableCalls(calls) THEN Rejected
      ELSE [ok |-> TRUE, calls |-> calls,
            text |-> IF texts = << >> THEN "unset"
                     ELSE IF \E i \in DOMAIN texts : texts[i].text # "" THEN "text" ELSE "",
            finish |-> AnthropicFinish(body.stop), evidence |-> Evidence(body.usage)]

----------------------------------------------------------------------------
(* RouteCheckedClient: images counts those of each message.                *)
MaxImages == 4
ImagesAllowed(images, modality, wire) ==
  /\ \A i \in DOMAIN images : images[i] <= MaxImages
  /\ (\E i \in DOMAIN images : images[i] > 0) => "image" \in modality /\ wire = "openai"
=============================================================================
