------------------------ MODULE AgentTurnProperties ------------------------
(* What the turn loop owes its caller, the provider and the user. *)
EXTENDS AgentTurn, Integers, WireFormat

(* The whole conversation, run in progress included. *)
Transcript == history \o appended

Answered(h) ==
  /\ \A i \in 1 .. Len(h) : h[i].role = "assistant" =>
       \A k \in 1 .. Len(h[i].calls) :
         /\ i + k <= Len(h)
         /\ h[i + k].role = "tool"
         /\ h[i + k].run = h[i].run
         /\ h[i + k].turn = h[i].turn
         /\ h[i + k].call = h[i].calls[k]
  /\ \A i \in 1 .. Len(h) : h[i].role = "tool" =>
       \E j \in 1 .. i - 1 : h[j].role = "assistant" /\ i - j <= Len(h[j].calls)

(* A session is restored from turns that ended, and opens with its         *)
(* constitution.  Notices of compaction are only in the copy that requests *)
(* are made from.                                                          *)
ASSUME RestoredAssumption ==
  \A h \in Restored :
    /\ h \in Seq(Range(h))
    /\ \A i \in 1 .. Len(h) : h[i].role = "assistant" => h[i].calls \in Seq(Nat)
    /\ Answered(h)
    /\ h # << >> => h[1] = System("constitution")
    /\ \A i \in 1 .. Len(h) : h[i].role # "marker"

(* Providers reject a request in which a tool call has no result or a      *)
(* result no call.  Whatever was cancelled, cut short by a finish reason   *)
(* or compacted away, every request and every transcript handed back has   *)
(* each call answered once, in order, right behind the message that made   *)
(* it, and opens with the constitution.                                    *)
EveryCallIsAnswered ==
  /\ pc \in {"send", "wait"} => Answered(working) /\ working[1] = System("constitution")
  /\ pc = "idle" => Answered(history)

Blocks(message, kind) == {b \in Range(message.blocks) : b.kind = kind}

(* What build_body makes of every request has its messages in the order    *)
(* the Messages API asks for: user and assistant alternate from a user     *)
(* message to a user message, a message that uses tools is followed by one *)
(* that opens with exactly the results, and no system message is lost,     *)
(* however runs were cut short, corrected between and compacted.  Nothing  *)
(* is said of what the messages hold: a reply without text and calls       *)
(* stays in the history and is sent as a message without content.          *)
RequestsKeepAnthropicOrder ==
  pc \in {"send", "wait"} =>
    LET body == AnthropicBody(working)
        said == body.messages
    IN /\ body.ok
       /\ Len(said) % 2 = 1
       /\ \A i \in DOMAIN said :
            /\ said[i].role = IF i % 2 = 1 THEN "user" ELSE "assistant"
            /\ LET results == Blocks(said[i], "result")
                   uses    == IF i = 1 THEN {} ELSE Blocks(said[i - 1], "use")
               IN /\ {b.id : b \in results} = {b.id : b \in uses}
                  /\ \A k \in DOMAIN said[i].blocks :
                       said[i].blocks[k].kind = "result" <=> k <= Cardinality(results)
       /\ body.system = InRole({"system", "marker"}, working)

LastTurns(h) == SubSeq(h, RequiredStart(h), Len(h))

(* A request whose history was compacted says so and is exact about it:    *)
(* its notice counts the dialogue missing from it over all compactions of  *)
(* the run, no correction is missing, and the last two user turns are      *)
(* whole.  A request that was not compacted is the transcript.             *)
CompactionIsHonest ==
  pc \in {"send", "wait"} =>
    /\ Elided(working) = Cardinality(Dialogue(Transcript)) - Cardinality(Dialogue(working))
    /\ Corrections(working) = Corrections(Transcript)
    /\ Cardinality(UserAt(Transcript)) >= KeepRecent => IsSuffix(LastTurns(Transcript), working)
    /\ ~compacted => working = Transcript

(* "only while it still describes the caller's prefix" (agent.rs): cache   *)
(* evidence that survives a run was measured on a request the caller's     *)
(* transcript still begins with.                                           *)
CachedDescribesPrefix == pc = "idle" => IsPrefix(cached, history)

Concluded(h, run) ==
  \E i \in 1 .. Len(h) :
    /\ h[i].role = "assistant"
    /\ h[i].run = run
    /\ h[i].calls = << >>
    /\ h[i].text

(* A run reported as passed has a receipt on disk that says the same of    *)
(* that run, and every such receipt belongs to a run whose transcript ends *)
(* in an answer.                                                           *)
PassIsReceipted ==
  /\ pc = "return" /\ result.outcome = "Pass" =>
       \E i \in 1 .. Len(receipts) : receipts[i].run = Run /\ receipts[i].outcome = "Pass"
  /\ \A i \in 1 .. Len(receipts) :
       receipts[i].outcome = "Pass" => Concluded(Transcript, receipts[i].run)

(* "New actions stop after observed cancellation" (docs/SECURITY_MODEL.md): *)
(* once the user cancels, at most the request or tool call that had already *)
(* passed its check starts.                                                *)
CancelStopsWork == stop.late <= 1

(* Unless a tool never returns, every run that begins ends. *)
RunsEnd == <>[](pc = "execute") \/ (pc # "idle" ~> pc = "idle")
=============================================================================
