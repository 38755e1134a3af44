---------------------------- MODULE Conversation ----------------------------
(***************************************************************************)
(* The message sequence a model sees (nh-core wire.rs, agent.rs) and the   *)
(* compaction of it (agent/context.rs).                                    *)
(*                                                                         *)
(* A message keeps its role and, of its content, what tells messages       *)
(* apart: the run a user message opens, the calls an assistant makes, the  *)
(* call a tool message answers and how.  A compaction notice is a system   *)
(* message in the code that a strict parser recognises; here it has a role *)
(* of its own.                                                             *)
(***************************************************************************)
EXTENDS Naturals, Sequences, FiniteSets, SequencesExt

CONSTANTS
  ToolWeight,   \* tokens of a tool message beyond those of any other message
  SpecTokens    \* tokens of the serialized tool specifications

ASSUME ConversationAssumption == ToolWeight \in Nat /\ SpecTokens \in Nat

System(says) == [role |-> "system", says |-> says]
Marker(count) == [role |-> "marker", elided |-> count]
User(run) == [role |-> "user", run |-> run]
Assistant(run, turn, calls, text) ==
  [role |-> "assistant", run |-> run, turn |-> turn, calls |-> calls, text |-> text]
ToolResult(run, turn, call, how) ==
  [role |-> "tool", run |-> run, turn |-> turn, call |-> call, how |-> how]

InRole(roles, messages) == SelectSeq(messages, LAMBDA m : m.role \in roles)

(* The system messages: the k-th is the one that has k of them up to it.   *)
SystemUpTo(messages, i) == {j \in 1 .. i : messages[j].role = "system"}
Corrections(messages) ==
  [k \in 1 .. Cardinality(SystemUpTo(messages, Len(messages))) |->
     messages[CHOOSE i \in DOMAIN messages :
                /\ messages[i].role = "system"
                /\ Cardinality(SystemUpTo(messages, i)) = k]]

(* The places of what is neither a system message nor a notice.            *)
Dialogue(messages) == {i \in 1 .. Len(messages) : messages[i].role \in {"user", "assistant", "tool"}}

(* estimate_tokens *)
Size(messages) == Len(messages) + ToolWeight * Len(InRole({"tool"}, messages))

(* Messages the notices among these stand for. *)
Elided(messages) ==
  LET upTo[n \in 0 .. Len(messages)] ==
        IF n = 0 THEN 0
                 ELSE upTo[n - 1] + IF messages[n].role = "marker" THEN messages[n].elided ELSE 0
  IN  upTo[Len(messages)]

----------------------------------------------------------------------------
(* Compaction: the first message, one notice, the corrections that were    *)
(* dropped with the prefix, and the history from a user message on.        *)

UserAt(h) == {i \in 2 .. Len(h) : h[i].role = "user"}

KeepRecent == 2

(* The user message that opens the last KeepRecent user turns. *)
RequiredStart(h) ==
  CHOOSE i \in UserAt(h) : Cardinality({j \in UserAt(h) : j >= i}) = KeepRecent

(* What would be left from user message i on: more than what is kept,      *)
(* because the notice is not counted.                                      *)
FitsFrom(h, i, limit) ==
  Size(SubSeq(h, 1, 1)) + Size(Corrections(SubSeq(h, 2, i - 1)))
    + Size(SubSeq(h, i, Len(h))) <= limit \div 2

CompactStart(h, limit) ==
  LET required == RequiredStart(h)
      fitting  == {i \in UserAt(h) : i > 2 /\ i <= required /\ FitsFrom(h, i, limit)}
  IN  IF fitting = {} THEN required ELSE CHOOSE i \in fitting : \A j \in fitting : i <= j

(* compact_history finds something to drop. *)
CanCompact(h, limit) ==
  /\ Cardinality(UserAt(h)) > KeepRecent
  /\ CompactStart(h, limit) > 2
  /\ Dialogue(SubSeq(h, 2, CompactStart(h, limit) - 1)) # {}

MUT_CompactedForgetting(h, limit) ==
  LET start   == CompactStart(h, limit)
      dropped == SubSeq(h, 2, start - 1)
  IN  << h[1], Marker(Cardinality(Dialogue(dropped))) >>
        \o Corrections(dropped) \o SubSeq(h, start, Len(h))
Compacted(h, limit) ==
  LET start   == CompactStart(h, limit)
      dropped == SubSeq(h, 2, start - 1)
  IN  << h[1], Marker(Elided(dropped) + Cardinality(Dialogue(dropped))) >>
        \o Corrections(dropped) \o SubSeq(h, start, Len(h))

(* The trigger: the larger of the last measured prompt and the estimate    *)
(* reaches 70 per cent of the window.                                      *)
Crowded(h, measured, limit) ==
  \/ 10 * measured >= 7 * limit
  \/ 10 * (Size(h) + SpecTokens) >= 7 * limit
=============================================================================
