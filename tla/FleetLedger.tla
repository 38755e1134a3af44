---------------------------- MODULE FleetLedger ----------------------------
(***************************************************************************)
(* The events of a fleet run's ledger.jsonl and the pure folds over them:  *)
(* what `resume`, `fleet_status` and the coordinator read out of the file. *)
(* A ledger is the sequence of its newline-terminated lines.  Route, brief *)
(* and reason texts are left out; a route is named by its ladder tier.     *)
(***************************************************************************)
EXTENDS Naturals, Sequences, FiniteSets, FiniteSetsExt

CONSTANTS
  TaskCount,          \* number of tasks in tasks.json
  Tiers,              \* tiers of the escalation ladder, 0 when the run has none
  MaxTokens,          \* bound on the tokens one receipt reports
  EscalateOnPartial   \* FleetConfig::escalate_on_partial

ASSUME LedgerAssumption ==
  /\ TaskCount \in Nat \ {0}
  /\ Tiers \in Nat
  /\ MaxTokens \in Nat
  /\ EscalateOnPartial \in BOOLEAN

Task == 1 .. TaskCount      \* a task is its position in tasks.json
NoTask == 0
Ladder == Tiers > 0

Outcome == {"pass", "partial", "skip", "fail", "timeout"}

TaskKinds == {"task_queued", "task_started", "task_receipt", "task_escalated",
              "task_done", "task_gate", "task_failed", "task_heartbeat"}
TerminalKinds == {"task_done", "task_gate", "task_failed"}
RunKinds == {"run_started", "run_finished", "run_failed", "corrupt"}

(***************************************************************************)
(* `corrupt` is a newline-terminated line that is not JSON: what two       *)
(* records written on one line leave behind.                               *)
(***************************************************************************)
Counts == [done : Nat, failed : Nat, gated : Nat]
NoCounts == [done |-> 0, failed |-> 0, gated |-> 0]

TaskEvent == [event : TaskKinds, task : Task, tier : Nat, attempt : Nat,
              outcome : Outcome \cup {"none"}, tokens : Nat]
RunEvent == [event : RunKinds, task : {NoTask}, counts : Counts]
LedgerEvent == TaskEvent \cup RunEvent

OnTask(kind, t) == [event |-> kind, task |-> t, tier |-> 0, attempt |-> 0,
                    outcome |-> "none", tokens |-> 0]
OnRun(kind) == [event |-> kind, task |-> NoTask, counts |-> NoCounts]

TaskStarted(t, tier, attempt) ==
  [OnTask("task_started", t) EXCEPT !.tier = tier, !.attempt = attempt]
TaskReceipt(t, attempt, outcome, tokens) ==
  [OnTask("task_receipt", t) EXCEPT !.attempt = attempt, !.outcome = outcome,
                                    !.tokens = tokens]
TaskEscalated(t, toTier) == [OnTask("task_escalated", t) EXCEPT !.tier = toTier]
TaskDone(t, outcome) == [OnTask("task_done", t) EXCEPT !.outcome = outcome]
RunFinished(counts) == [OnRun("run_finished") EXCEPT !.counts = counts]

----------------------------------------------------------------------------
(* Folds over a ledger l.                                                  *)

At(l, kind, t) == {i \in DOMAIN l : l[i].event = kind /\ l[i].task = t}
Has(l, kind) == \E i \in DOMAIN l : l[i].event = kind

Mentioned(l) == {t \in Task : \E i \in DOMAIN l : l[i].task = t}
Queued(l) == {t \in Task : At(l, "task_queued", t) # {}}
MUT_SettledWithoutGate(l) ==
  {t \in Task : \E k \in {"task_done", "task_failed"} : At(l, k, t) # {}}
Settled(l) == {t \in Task : \E k \in TerminalKinds : At(l, k, t) # {}}

\* plan_from_ledger: the runnable tasks, and the order they first appeared in
Todo(l) == Mentioned(l) \ Settled(l)
InQueueOrder(S) ==
  {q \in [1 .. Cardinality(S) -> S] :
     /\ \A t \in S : \E i \in DOMAIN q : q[i] = t
     /\ \A i, j \in DOMAIN q : i < j => q[i] < q[j]}

SingleTerminal(l) ==
  \A i, j \in DOMAIN l :
    /\ l[i].event \in TerminalKinds
    /\ l[j].event \in TerminalKinds
    /\ l[i].task = l[j].task
    => i = j

CountOf(l, kind) == Cardinality({i \in DOMAIN l : l[i].event = kind})
TerminalCounts(l) == [done   |-> CountOf(l, "task_done"),
                      failed |-> CountOf(l, "task_failed"),
                      gated  |-> CountOf(l, "task_gate")]

ReceiptTokens(l) ==
  LET upTo[n \in 0 .. Len(l)] ==
        IF n = 0 THEN 0
        ELSE upTo[n - 1] + (IF l[n].event = "task_receipt" THEN l[n].tokens ELSE 0)
  IN  upTo[Len(l)]

\* The largest attempt started after line `from`, 0 when there is none.
LastAttempt(l, t, from) ==
  Max({0} \cup {l[i].attempt : i \in {j \in At(l, "task_started", t) : j > from}})

\* ladder_position
LadderTier(l, t) == Cardinality(At(l, "task_escalated", t))
LadderAttempt(l, t) ==
  LastAttempt(l, t, Max({0} \cup At(l, "task_escalated", t))) + 1

\* The tier and attempt `resume` gives an unsettled task.
MUT_ResumeTierZero(l, t) == 0
ResumeTier(l, t) == IF Ladder THEN LadderTier(l, t) ELSE 0
ResumeAttempt(l, t) ==
  IF Ladder THEN LadderAttempt(l, t) ELSE LastAttempt(l, t, 0) + 1

\* Why `resume` refuses a ledger before it runs anything.
Readable(l) == ~Has(l, "corrupt")
Resumable(l) ==
  /\ Readable(l)
  /\ Has(l, "run_started")
  /\ SingleTerminal(l)
  /\ Todo(l) \subseteq Queued(l)
  /\ \A t \in Task : \A i, j \in At(l, "task_queued", t) : i = j
  /\ Ladder => \A t \in Todo(l) : LadderTier(l, t) < Tiers

----------------------------------------------------------------------------
(* The policy applied to a receipt.                                        *)

\* escalation_outcome
Failing(outcome) ==
  \/ outcome \in {"fail", "timeout"}
  \/ EscalateOnPartial /\ outcome = "partial"

\* next_step, and the ladderless choice handle_receipt makes in its place
NextStep(tier, attempt, outcome) ==
  IF ~Failing(outcome)      THEN "done"
  ELSE IF ~Ladder           THEN "fail"
  ELSE IF attempt < 2       THEN "retry"
  ELSE IF tier + 1 < Tiers  THEN "escalate"
  ELSE "gate"
============================================================================
