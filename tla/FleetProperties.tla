-------------------------- MODULE FleetProperties --------------------------
(***************************************************************************)
(* What a fleet run promises, stated over its ledger and, where a promise  *)
(* is about the threads, over the ledger and the threads together.         *)
(***************************************************************************)
EXTENDS Fleet

Pc == {"new", "launch", "queue", "announce", "dispatch", "halt", "loop", "decide",
       "join", "finish", "index", "abort", "fail", "off"}

(* Every variable stays in its range.                                      *)
TypeOK ==
  /\ ledger \in Seq(LedgerEvent)
  /\ torn \in BOOLEAN
  /\ index \in {"none", "running", "finished"}
  /\ pc \in Pc
  /\ remaining \in Seq(Task)
  /\ active \in Nat
  /\ halted \in BOOLEAN
  /\ counts \in Counts
  /\ scan \in Nat
  /\ deciding \in [task : Task \cup {NoTask}, outcome : Outcome \cup {"none"}]
  /\ tier \in [Task -> Nat]
  /\ attempt \in [Task -> Nat]
  /\ jobs \in Seq(Task)
  /\ events \in Seq(Message)
  /\ workers \in Nat
  /\ wpc \in [Worker -> {"idle", "offered", "running", "gone"}]
  /\ wtask \in [Worker -> Task \cup {NoTask}]
  /\ strays \in Nat

(* No task gets a second terminal event, in whatever process its events    *)
(* were appended: ensure_single_terminal never refuses a ledger.           *)
OneTerminalPerTask == SingleTerminal(ledger)

(* Nothing is appended about a task after its terminal event: no start, no *)
(* receipt, no escalation and no late heartbeat.                           *)
NothingAfterTerminal ==
  \A i, j \in DOMAIN ledger :
    i < j /\ ledger[i].event \in TerminalKinds => ledger[j].task # ledger[i].task

(* A task that a worker runs has its start in the ledger, with the attempt *)
(* that is running, and no receipt for it yet.                             *)
RunsAreRecorded ==
  \A w \in Worker :
    wpc[w] = "running" /\ pc # "abort" =>
      LET t == wtask[w]
          starts == At(ledger, "task_started", t)
      IN  /\ starts # {}
          /\ ledger[Max(starts)].attempt = attempt[t]
          /\ ledger[Max(starts)].tier = tier[t]
          /\ \A i \in At(ledger, "task_receipt", t) : i < Max(starts)

(* A start is always on the tier the escalations before it lead to, so the *)
(* position a resume folds out of the ledger is the one that was running.  *)
StartsOnLedgerTier ==
  \A i \in DOMAIN ledger :
    ledger[i].event = "task_started" =>
      ledger[i].tier = LadderTier(SubSeq(ledger, 1, i), ledger[i].task)

(* The ledger is the record of what ran: no run that was not announced, on *)
(* another tier, or as another attempt.                                    *)
StartsAreRecorded == RunsAreRecorded /\ StartsOnLedgerTier

(* `active` counts the jobs that are out: waiting in the channel, with a   *)
(* worker, finished and not yet handled, or lost to a worker that panicked. *)
Serving == pc \in {"dispatch", "loop", "decide", "halt"}
Lost == {w \in 1 .. workers : wpc[w] = "gone"}
ActiveIsOut ==
  Serving =>
    active = Len(jobs)
           + Cardinality({w \in Worker : wpc[w] \in {"offered", "running"}})
           + Cardinality({i \in DOMAIN events : events[i].kind = "finished"})
           + Cardinality(Lost)

(* Every queued and unsettled task is held in exactly one place while the  *)
(* coordinator serves, so none is lost and none is run twice at a time.    *)
Holders(t) ==
  Cardinality({i \in DOMAIN remaining : remaining[i] = t})
  + Cardinality({i \in DOMAIN jobs : jobs[i] = t})
  + Cardinality({w \in Worker : wtask[w] = t})
  + Cardinality({i \in DOMAIN events : events[i].kind = "finished" /\ events[i].task = t})
  + (IF deciding.task = t THEN 1 ELSE 0)
HeldOnce ==
  Serving /\ Lost = {} =>
    \A t \in Task : Holders(t) = IF t \in Todo(ledger) THEN 1 ELSE 0

(* No slot and no task is lost, and none is counted or run twice.          *)
NoTaskIsLost == ActiveIsOut /\ HeldOnce

(* The tokens the budget is held against are those of the receipts in the  *)
(* ledger, so a resumed run is stopped where the interrupted one would be. *)
MeterIsDurable == Serving => used = ReceiptTokens(ledger)

(* Once the receipts in the ledger reach the budget no job is sent to the  *)
(* workers any more, in this process or after a resume.                    *)
BudgetStopsDispatch ==
  [][Over(ReceiptTokens(ledger)) => Len(jobs') <= Len(jobs)]_vars

(* The receipts that arrive after the one that reached the budget are      *)
(* those of the runs that were already out: fewer than there are workers.  *)
OvershootIsInFlight ==
  \A i \in DOMAIN ledger :
    ledger[i].event = "task_receipt" /\ Over(ReceiptTokens(SubSeq(ledger, 1, i))) =>
      CountOf(SubSeq(ledger, i + 1, Len(ledger)), "task_receipt") < MaxWorkers

(* The budget is that of the receipts, and overrun by running tasks only.  *)
BudgetIsKept == MeterIsDurable /\ OvershootIsInFlight

(* When the run is over and its lock about to be released, no thread is    *)
(* left of the pool it ran its tasks on, whichever way the pool was left.  *)
(* It says nothing of the strays of a pool that never came about: those    *)
(* may outlive the lock, and never had a job.                              *)
LockCoversWorkers == pc \in {"fail", "off", "finish", "index"} => AllGone

(* Every process that takes the run ends: it finishes the run or reports a *)
(* failure, whatever the workers, the budget and the clock do.             *)
EveryProcessEnds == (pc \notin {"new", "off"}) ~> (pc = "off")

(* A run that was recorded is finished, by the process that started it or  *)
(* by those that resume it, unless a failed append has made its ledger     *)
(* unreadable (LedgerStaysReadable below) or it is interrupted more often  *)
(* than anybody resumes it.                                                *)
EveryRunFinishes ==
  Has(ledger, "run_started")
    ~> (Has(ledger, "run_finished") \/ ~Readable(ledger) \/ crashes + faults > MaxResumes)

----------------------------------------------------------------------------
(* Statements of the repository that the code does not keep.               *)

(* Every task of a finished run has a terminal event.                      *)
OneTerminalForEveryTask == Has(ledger, "run_finished") => Settled(ledger) = Task

(* Recovery leaves a ledger that can be read.                              *)
LedgerStaysReadable == Readable(ledger)

(* A worker that panics surfaces as the end of the process.                *)
PanicSurfaces == (panics > 0) ~> (pc = "off")
============================================================================
