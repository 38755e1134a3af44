----------------------------- MODULE AgentTurn -----------------------------
(***************************************************************************)
(* The turn loop of nh-core's AgentLoop over a session transcript          *)
(* (run_with_persistent_history_and_cache): requests, tool calls,          *)
(* cancellation, compaction of the working copy, the receipt and the       *)
(* suffix handed back to the caller.                                       *)
(*                                                                         *)
(* The loop reads the cancel flag that another thread sets, so each read   *)
(* is an action of its own and what it guards is the next one.             *)
(***************************************************************************)
EXTENDS Conversation

CONSTANTS
  MaxTurns,         \* AgentLoop::max_turns
  ContextLimit,     \* effective_context of AgentLoop::context_limit, 0 for None
  Replies,          \* what the provider may answer
  Restored,         \* transcripts a session may start from
  MaxRuns,          \* bound: tasks submitted
  MaxCancels,       \* bound: times the user cancels
  MaxReceiptFaults, \* bound: failed receipt appends
  MaxCorrections    \* bound: system messages the caller adds between runs

FinishKind == {"Normal", "ToolUse", "Truncated", "Context",
               "Filtered", "Interrupted", "Missing", "Unknown"}

(* finish_reason, tool_calls ("bad" has arguments or a name that cannot be *)
(* used), whether there is text, whether the usage is measured for exactly *)
(* this request, and the prompt tokens it measured.                        *)
Reply == [finish : FinishKind, calls : Seq({"good", "bad"}), text : BOOLEAN,
          exact : BOOLEAN, prompt : Nat]

Outcome == {"Pass", "Partial", "Fail", "Timeout"}
FailureClass == {"Verification", "Constraint", "Context", "Filtered", "Unreceipted", "None"}
Result == [outcome : Outcome, class : FailureClass]

ASSUME AgentTurnAssumption ==
  /\ MaxTurns \in Nat \ {0}
  /\ ContextLimit \in Nat
  /\ Replies \subseteq Reply
  /\ << >> \in Restored
  /\ \A bound \in {MaxRuns, MaxCancels, MaxReceiptFaults, MaxCorrections} : bound \in Nat

VARIABLES
  history,      \* the caller's transcript
  working,      \* the copy the loop runs on
  appended,     \* messages of this run, compacted or not
  pc,           \* what the loop does next
  turns,        \* requests of this run
  calls,        \* tool calls of the last reply not answered yet
  measured,     \* latest_prompt_tokens, 0 for None
  compacted,    \* the receipt's compaction statistics are not empty
  failed,       \* the run returns Err
  result,       \* outcome and class of the run
  cached,       \* the request preceding_cached_tokens was measured on, << >> for None
  cancel,       \* ToolCtx::cancel
  receipts,     \* receipts.jsonl
  stop,         \* auxiliary: whether the user cancelled this run, and how many
                \* requests were sent and tools run since
  spent         \* uses of each bound

talk    == << history, working, appended >>
tally   == << turns, calls, measured, compacted, failed >>
outside == << cancel, receipts >>
bounds  == << stop, spent >>
vars    == << talk, pc, tally, result, cached, outside, bounds >>

Steps == {"idle", "top", "request", "send", "wait", "next", "tool", "execute",
          "receipt", "return"}

NoResult == [outcome |-> "Partial", class |-> "None"]

NotAsked == [asked |-> FALSE, late |-> 0]

Run == spent.runs       \* number of the current run

Init ==
  /\ history \in Restored
  /\ working = << >>
  /\ appended = << >>
  /\ pc = "idle"
  /\ turns = 0
  /\ calls = << >>
  /\ measured = 0
  /\ compacted = FALSE
  /\ failed = FALSE
  /\ result = NoResult
  /\ cached = << >>
  /\ cancel = FALSE
  /\ receipts = << >>
  /\ stop = NotAsked
  /\ spent = [runs |-> 0, cancels |-> 0, faults |-> 0, corrections |-> 0]

----------------------------------------------------------------------------
(* Helpers *)

(* push_message, for every message of the sequence *)
Push(messages) ==
  /\ working' = working \o messages
  /\ appended' = appended \o messages

MUT_SkippedButOne(left) ==
  [i \in 1 .. Len(left) - 1 |-> ToolResult(Run, turns, left[i].id, "skipped")]
Skipped(left) ==
  [i \in 1 .. Len(left) |-> ToolResult(Run, turns, left[i].id, "skipped")]

(* The calls of a reply with their identifiers. *)
Numbered(kinds) == [i \in 1 .. Len(kinds) |-> [id |-> i, kind |-> kinds[i]]]

EndRun(outcome, class) ==
  /\ pc' = "receipt"
  /\ result' = [outcome |-> outcome, class |-> class]

(* What a reply that is not followed by tool calls makes of the run; the   *)
(* same after a cancellation as without one.                               *)
Verdict(reply) ==
  CASE reply.finish = "Normal" /\ reply.calls = << >> /\ reply.text ->
         [outcome |-> "Pass", class |-> "None"]
    [] reply.finish = "Context"  -> [outcome |-> "Partial", class |-> "Context"]
    [] reply.finish = "Filtered" -> [outcome |-> "Fail", class |-> "Filtered"]
    [] OTHER                     -> [outcome |-> "Partial", class |-> "Constraint"]

----------------------------------------------------------------------------
(* The caller and the user *)

(* run_with_persistent_history on transcript h: it is copied, and the run  *)
(* opens with the task behind it.                                          *)
Open(h, constitution) ==
  /\ LET opening == (IF h = << >> THEN << System(constitution) >> ELSE << >>)
                      \o << User(spent.runs + 1) >>
     IN  /\ working' = h \o opening
         /\ appended' = opening
  /\ history' = h
  /\ pc' = "top"
  /\ turns' = 0
  /\ calls' = << >>
  /\ measured' = 0
  /\ compacted' = FALSE
  /\ failed' = FALSE
  /\ result' = NoResult
  /\ spent' = [spent EXCEPT !.runs = @ + 1]

(* A task is accepted: the caller clears the cancel flag and calls the     *)
(* loop.                                                                   *)
Begin ==
  /\ pc = "idle"
  /\ spent.runs < MaxRuns
  /\ Open(history, "constitution")
  /\ cancel' = FALSE
  /\ stop' = NotAsked
  /\ UNCHANGED << cached, receipts >>

(* The user cancels the turn. *)
Cancel ==
  /\ pc # "idle"
  /\ spent.cancels < MaxCancels
  /\ cancel' = TRUE
  /\ stop' = [stop EXCEPT !.asked = TRUE]
  /\ spent' = [spent EXCEPT !.cancels = @ + 1]
  /\ UNCHANGED << talk, pc, tally, result, cached, receipts >>

(* Between runs the caller adds a correction: a route or mode notice. *)
Correct ==
  /\ pc = "idle"
  /\ history # << >>
  /\ spent.corrections < MaxCorrections
  /\ history' = Append(history, System("correction"))
  /\ spent' = [spent EXCEPT !.corrections = @ + 1]
  /\ UNCHANGED << working, appended, pc, tally, result, cached, outside, stop >>

----------------------------------------------------------------------------
(* The top of the loop *)

MUT_OutOfTurnsAfter ==
  /\ pc = "top"
  /\ turns > MaxTurns
  /\ EndRun("Timeout", "Constraint")
  /\ UNCHANGED << talk, tally, cached, outside, bounds >>
OutOfTurns ==
  /\ pc = "top"
  /\ turns = MaxTurns
  /\ EndRun("Timeout", "Constraint")
  /\ UNCHANGED << talk, tally, cached, outside, bounds >>

StopAtTop ==
  /\ pc = "top"
  /\ turns < MaxTurns
  /\ cancel
  /\ EndRun("Partial", "Constraint")
  /\ UNCHANGED << talk, tally, cached, outside, bounds >>

Prepare(w) ==
  IF ContextLimit > 0 /\ Crowded(w, measured, ContextLimit) /\ CanCompact(w, ContextLimit)
    THEN Compacted(w, ContextLimit)
    ELSE w

PrepareRequest ==
  /\ pc = "top"
  /\ turns < MaxTurns
  /\ ~cancel
  /\ working' = Prepare(working)
  /\ compacted' = (compacted \/ Prepare(working) # working)
  /\ turns' = turns + 1
  /\ pc' = "request"
  /\ UNCHANGED << history, appended, calls, measured, failed, result, cached,
                  outside, bounds >>

----------------------------------------------------------------------------
(* The provider *)

(* complete returns Err: the client stopped itself, or the provider did    *)
(* and every retry failed.                                                 *)
RequestFails ==
  /\ cached' = << >>
  /\ failed' = TRUE
  /\ EndRun("Fail", "Verification")
  /\ UNCHANGED << talk, turns, calls, measured, compacted, outside, bounds >>

ClientRefuses == pc = "request" /\ cancel /\ RequestFails

ClientAccepts ==
  /\ pc = "request"
  /\ ~cancel
  /\ pc' = "send"
  /\ UNCHANGED << talk, tally, result, cached, outside, bounds >>

(* Work started after the cancellation is counted. *)
StartWork == stop' = [stop EXCEPT !.late = @ + (IF stop.asked THEN 1 ELSE 0)]

Send ==
  /\ pc = "send"
  /\ pc' = "wait"
  /\ StartWork
  /\ UNCHANGED << talk, tally, result, cached, outside, spent >>

ProviderFails == pc = "wait" /\ RequestFails

Spoken(reply) ==
  Assistant(Run, turns, [i \in 1 .. Len(reply.calls) |-> i], reply.text)

(* What every answer leaves behind, whatever follows. *)
Measure(reply) ==
  /\ measured' = IF reply.exact THEN reply.prompt ELSE 0
  /\ cached' = IF reply.exact THEN working ELSE << >>

(* The reply ends the run: the turn was cancelled while it was awaited, or *)
(* it does not ask for tools.  Its calls are answered without being run.   *)
FinalReply(reply) ==
  /\ pc = "wait"
  /\ cancel \/ reply.calls = << >> \/ reply.finish # "ToolUse"
  /\ Measure(reply)
  /\ Push(<< Spoken(reply) >> \o Skipped(Numbered(reply.calls)))
  /\ EndRun(Verdict(reply).outcome, Verdict(reply).class)
  /\ UNCHANGED << history, turns, calls, compacted, failed, outside, bounds >>

ToolReply(reply) ==
  /\ pc = "wait"
  /\ ~cancel
  /\ reply.calls # << >>
  /\ reply.finish = "ToolUse"
  /\ Measure(reply)
  /\ Push(<< Spoken(reply) >>)
  /\ calls' = Numbered(reply.calls)
  /\ pc' = "next"
  /\ UNCHANGED << history, turns, compacted, failed, result, outside, bounds >>

----------------------------------------------------------------------------
(* Tool calls, one after the other *)

CallsDone ==
  /\ pc = "next"
  /\ calls = << >>
  /\ pc' = "top"
  /\ UNCHANGED << talk, tally, result, cached, outside, bounds >>

StopBeforeCall ==
  /\ pc = "next"
  /\ calls # << >>
  /\ cancel
  /\ Push(Skipped(calls))
  /\ calls' = << >>
  /\ EndRun("Partial", "Constraint")
  /\ UNCHANGED << history, turns, measured, compacted, failed, cached, outside,
                  bounds >>

TakeCall ==
  /\ pc = "next"
  /\ calls # << >>
  /\ ~cancel
  /\ pc' = "tool"
  /\ UNCHANGED << talk, tally, result, cached, outside, bounds >>

(* run_tool answers the call and the loop goes on to the next one. *)
Answer(how) ==
  /\ Push(<< ToolResult(Run, turns, Head(calls).id, how) >>)
  /\ calls' = Tail(calls)
  /\ pc' = "next"
  /\ UNCHANGED << history, turns, measured, compacted, failed, result, cached,
                  outside, spent >>

(* The arguments do not parse, or no tool has that name. *)
RefuseCall ==
  pc = "tool" /\ Head(calls).kind = "bad" /\ Answer("refused") /\ UNCHANGED stop

MUT_SkipCallConsuming ==
  /\ pc = "tool"
  /\ Head(calls).kind = "good"
  /\ cancel
  /\ Push(<< ToolResult(Run, turns, Head(calls).id, "skipped") >>)
  /\ calls' = Tail(calls)
  /\ pc' = "next"
  /\ cancel' = FALSE
  /\ UNCHANGED << history, turns, measured, compacted, failed, result, cached, receipts, bounds >>
SkipCall ==
  pc = "tool" /\ Head(calls).kind = "good" /\ cancel /\ Answer("skipped") /\ UNCHANGED stop

AllowCall ==
  /\ pc = "tool"
  /\ Head(calls).kind = "good"
  /\ ~cancel
  /\ pc' = "execute"
  /\ UNCHANGED << talk, tally, result, cached, outside, bounds >>

Execute == pc = "execute" /\ Answer("ran") /\ StartWork

----------------------------------------------------------------------------
(* The end of a run *)

Receipt(verdict) ==
  [run |-> Run, kind |-> IF cancel THEN "CancelledTurn" ELSE "Task",
   outcome |-> verdict.outcome, class |-> verdict.class]

WriteReceipt ==
  /\ pc = "receipt"
  /\ receipts' = Append(receipts, Receipt(result))
  /\ pc' = "return"
  /\ UNCHANGED << talk, tally, result, cached, cancel, bounds >>

MUT_ReceiptFailsQuietly ==
  /\ pc = "receipt"
  /\ spent.faults < MaxReceiptFaults
  /\ result' = [result EXCEPT !.class = "Unreceipted"]
  /\ pc' = "return"
  /\ spent' = [spent EXCEPT !.faults = @ + 1]
  /\ UNCHANGED << talk, tally, cached, outside, stop >>
ReceiptFails ==
  /\ pc = "receipt"
  /\ spent.faults < MaxReceiptFaults
  /\ result' = [outcome |-> IF result.outcome = "Pass" THEN "Fail" ELSE result.outcome,
                class |-> "Unreceipted"]
  /\ pc' = "return"
  /\ spent' = [spent EXCEPT !.faults = @ + 1]
  /\ UNCHANGED << talk, tally, cached, outside, stop >>

MUT_ReturnKeepsEvidence ==
  /\ pc = "return"
  /\ history' = history \o appended
  /\ cached' = IF failed THEN << >> ELSE cached
  /\ working' = << >>
  /\ appended' = << >>
  /\ turns' = 0
  /\ measured' = 0
  /\ compacted' = FALSE
  /\ pc' = "idle"
  /\ UNCHANGED << calls, failed, result, outside, bounds >>
(* The suffix joins the transcript; evidence about a compacted prefix is   *)
(* dropped, and so is that of a failed run by the caller.                  *)
Return ==
  /\ pc = "return"
  /\ history' = history \o appended
  /\ cached' = IF compacted \/ failed THEN << >> ELSE cached
  /\ working' = << >>
  /\ appended' = << >>
  /\ turns' = 0
  /\ measured' = 0
  /\ compacted' = FALSE
  /\ pc' = "idle"
  /\ UNCHANGED << calls, failed, result, outside, bounds >>

----------------------------------------------------------------------------

LoopStep ==
  \/ OutOfTurns \/ StopAtTop \/ PrepareRequest
  \/ ClientRefuses \/ ClientAccepts \/ Send
  \/ CallsDone \/ StopBeforeCall \/ TakeCall
  \/ RefuseCall \/ SkipCall \/ AllowCall
  \/ WriteReceipt \/ ReceiptFails \/ Return

ProviderStep ==
  \/ ProviderFails
  \/ \E reply \in Replies : FinalReply(reply) \/ ToolReply(reply)

Next == Begin \/ Cancel \/ Correct \/ LoopStep \/ Execute \/ ProviderStep

Spec == Init /\ [][Next]_vars

(* The loop's thread runs until the run is over, and the wire client's     *)
(* timeouts bound every request.  A tool may wait for a person's approval  *)
(* for ever, so nothing is assumed of Execute.                             *)
FairSpec == Spec /\ WF_vars(LoopStep) /\ WF_vars(ProviderStep)
=============================================================================
