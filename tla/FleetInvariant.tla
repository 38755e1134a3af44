--------------------------- MODULE FleetInvariant ---------------------------
(***************************************************************************)
(* The inductive invariant behind the theorems of FleetProofs.  A task in  *)
(* hand is in one of five places of the process; each place is a set here. *)
(***************************************************************************)
EXTENDS FleetRefinement

Distinct(s) == \A i, j \in DOMAIN s : s[i] = s[j] => i = j

Answers(q) == {i \in DOMAIN q : q[i].kind = "finished"}
Tasks(q) == {q[i].task : i \in Answers(q)}
OneAnswer(q) == \A i, j \in Answers(q) : q[i].task = q[j].task => i = j

SoleHolders == \A v, w \in Worker : wtask[v] = wtask[w] /\ wtask[v] # NoTask => v = w

Waiting  == Range(remaining)
Sent     == Range(jobs)
Taken    == Range(wtask) \ {NoTask}
Answered == Tasks(events)
Judged   == {deciding.task} \ {NoTask}
InHand   == Waiting \cup Sent \cup Taken \cup Answered \cup Judged

(* Before the workers are started and after they have been joined.         *)
Single == {"new", "launch", "queue", "announce", "finish", "index", "fail", "off"}
Alone == pc \in Single => AllGone

(* A thread holds a job from its offer to its answer, and the offer of one *)
(* that waits for its acknowledgement is in the event channel once.        *)
Threads ==
  /\ \A w \in Worker : wpc[w] \in {"idle", "gone"} <=> wtask[w] = NoTask
  /\ \A i \in DOMAIN events :
       events[i].kind = "started" =>
         /\ wpc[events[i].worker] = "offered"
         /\ \A j \in DOMAIN events :
              events[j].kind = "started" /\ events[j].worker = events[i].worker => i = j

(* What the program counter says of the coordinator's locals.              *)
Locals ==
  /\ pc = "queue" => scan \in Task
  /\ pc = "decide" <=> deciding.task # NoTask
  /\ pc \in {"new", "launch", "queue", "announce", "abort", "fail", "off"} =>
       jobs = << >> /\ events = << >>
  /\ pc \in {"new", "launch", "queue", "announce"} => Settled(ledger) = {}

(* No place holds a task twice.                                            *)
Once ==
  /\ Distinct(remaining)
  /\ Distinct(jobs)
  /\ SoleHolders
  /\ OneAnswer(events)

(* No two places hold the same task.                                       *)
Apart ==
  /\ Waiting \cap (Sent \cup Taken \cup Answered \cup Judged) = {}
  /\ Sent \cap (Taken \cup Answered \cup Judged) = {}
  /\ Taken \cap (Answered \cup Judged) = {}
  /\ Answered \cap Judged = {}

(* A task in hand has no terminal event.                                   *)
Unsettled == InHand \cap Settled(ledger) = {}

Inv ==
  /\ TypeOK
  /\ Alone
  /\ Threads
  /\ Locals
  /\ Once
  /\ Apart
  /\ Unsettled
  /\ OneTerminalPerTask
----------------------------------------------------------------------------
(* What the promises about the ledger, the slots and the budget need beside *)
(* Inv, each a part of one of the inductive invariants below.               *)

(* An offer is about the job its thread holds.                             *)
Offers ==
  \A i \in DOMAIN events :
    events[i].kind = "started" => events[i].task = wtask[events[i].worker]

(* A heartbeat is about a task that is not settled and that the            *)
(* coordinator has not taken back; when its answer is out already, the     *)
(* answer stands behind it.                                                *)
Pulses(q) == {i \in DOMAIN q : q[i].kind = "heartbeat"}
Beating(q) == {q[i].task : i \in Pulses(q)}
BeatsFirst(q) == \A i \in Pulses(q), j \in Answers(q) : q[i].task = q[j].task => i < j
Beats ==
  /\ BeatsFirst(events)
  /\ Beating(events) \cap (Settled(ledger) \cup Waiting \cup Sent \cup Judged) = {}

(* Only the failure of a run is written behind torn bytes.                 *)
Whole == torn => pc \in {"abort", "fail", "off"}

(* The coordinator's tier of a task is the one a resume would fold, and a  *)
(* run without a ladder never escalates.                                   *)
Escalated(l) == {t \in Task : At(l, "task_escalated", t) # {}}
OnTier ==
  /\ Serving => \A t \in Task : tier[t] = LadderTier(ledger, t)
  /\ ~Ladder \/ pc \in {"new", "launch", "queue", "announce"} => Escalated(ledger) = {}

(* Every task the ledger mentions and has not settled is in hand.          *)
Covered ==
  /\ InHand \cup Beating(events) \subseteq Mentioned(ledger)
  /\ pc \in {"new", "launch"} => Mentioned(ledger) = {}
  /\ pc = "queue" => Mentioned(ledger) = {t \in Task : t < scan}
  /\ pc = "announce" => Mentioned(ledger) = Task
  /\ Serving /\ Lost = {} => InHand = Todo(ledger)

(* The threads of a process are the first `workers` ones, and they bound   *)
(* the slots.                                                              *)
Staffed ==
  /\ workers <= MaxWorkers
  /\ \A w \in Worker : wpc[w] # "gone" => w <= workers
  /\ Serving => active <= workers

(* The coordinator sends jobs exactly while the budget is not spent.       *)
Metered ==
  /\ used \in Nat
  /\ MeterIsDurable
  /\ pc \in {"new", "launch", "queue", "announce"} => ReceiptTokens(ledger) = 0
  /\ pc = "dispatch" => ~halted
  /\ pc = "halt" => halted
  /\ Serving /\ halted => Over(used)
  /\ pc \in {"dispatch", "halt", "loop"} /\ Over(used) => halted

(* After the receipt that reached the budget, the receipts and the jobs    *)
(* still out are together fewer than the workers.                          *)
Spent(l) == {i \in DOMAIN l : /\ l[i].event = "task_receipt"
                              /\ Over(ReceiptTokens(SubSeq(l, 1, i)))}
ReceiptsAfter(l, i) == {j \in DOMAIN l : j > i /\ l[j].event = "task_receipt"}
InFlight ==
  \A i \in Spent(ledger) :
    Cardinality(ReceiptsAfter(ledger, i)) + (IF Serving THEN active ELSE 0) < MaxWorkers

RecordInv == Offers /\ Beats /\ Whole /\ NothingAfterTerminal /\ OnTier /\ StartsAreRecorded
AccountInv == Covered /\ Staffed /\ ActiveIsOut /\ Metered /\ InFlight
----------------------------------------------------------------------------
(* What the life of the tasks needs beside: where the process is with a    *)
(* task, read out of the ledger.                                           *)

(* Where the tasks with a worker are: waiting for the acknowledgement of   *)
(* their start, or running; and the receipts on their way back.            *)
Held(at) == {wtask[w] : w \in {v \in Worker : wpc[v] = at}}
Verdict(q) == {i \in Answers(q) : q[i].outcome # "error"}
Reported(q) == {q[i].task : i \in Verdict(q)}
ToStart == Waiting \cup Sent \cup Held("offered")
Started == Held("running") \cup Reported(events)

(* The next start of a task has the attempt that follows those on its tier *)
(* in the ledger.  One that was started has no receipt behind its start.   *)
Numbered ==
  /\ pc \in {"new", "launch", "queue", "announce"} =>
       \A t \in Task : LadderAttempt(ledger, t) = 1
  /\ Serving =>
       /\ \A t \in ToStart : attempt[t] = LadderAttempt(ledger, t)
       /\ \A t \in Started :
            attempt[t] + 1 = LadderAttempt(ledger, t) /\ Stage(ledger, t) = "running"

(* The coordinator decides on the receipt the ledger ends with.            *)
DecidesOnReceipt ==
  pc = "decide" =>
    /\ attempt[deciding.task] + 1 = LadderAttempt(ledger, deciding.task)
    /\ Stage(ledger, deciding.task) = IF Failing(deciding.outcome) THEN "failing" ELSE "passed"

(* No task climbs off the ladder.                                          *)
OnLadder == Ladder => \A t \in Task : LadderTier(ledger, t) < Tiers

(* A task enters the ledger with its queueing, never with a heartbeat.     *)
Introduced == \A t \in Mentioned(ledger) : News(ledger, t) # {}

(* The counters are those of the terminal events, no task is open when the *)
(* loop has been left, and a run that was finished is never served again.  *)
Totalled ==
  /\ Serving \/ pc \in {"join", "finish"} => counts = TerminalCounts(ledger)
  /\ pc \in {"join", "finish"} => Todo(ledger) = {}
  /\ Has(ledger, "run_finished") =>
       Todo(ledger) = {} /\ pc \in {"index", "abort", "fail", "off"}

LifeInv == Numbered /\ DecidesOnReceipt /\ OnLadder /\ Introduced /\ Totalled
============================================================================
