------------------------------- MODULE Fleet -------------------------------
(***************************************************************************)
(* One fleet run of nh-fleet: the coordinator thread, its worker pool, the *)
(* channels between them and the ledger every transition is appended to,   *)
(* through process crashes, failed appends and `resume`.                   *)
(*                                                                         *)
(* The coordinator is modelled one ledger append at a time, so that a      *)
(* crash or an I/O error can fall between any two of them.  A PreparedTask *)
(* is moved, never copied: the queues hold task numbers, and the tier and  *)
(* attempt that travel with the task are functions of it.                  *)
(***************************************************************************)
EXTENDS FleetLedger

CONSTANTS
  MaxWorkers,   \* FleetConfig::max_workers
  EventCap,     \* capacity of the bounded event channel
  Budget,       \* FleetConfig::budget_tokens, or Unlimited
  Unlimited,    \* no budget
  Deferred,     \* tasks with defer_offpeak whose route has peak pricing
  Verdicts,     \* outcomes the runs of each task may end with, "error" for Err
  MaxCrashes,   \* bound: process deaths
  MaxFaults,    \* bound: failed appends, failed preflights, unresolved routes
  MaxPanics,    \* bound: worker threads that panic
  MaxBeats,     \* bound: heartbeats sent
  MaxResumes,   \* bound: `resume` calls
  MaxTurns      \* bound: times pricing turns between peak and off-peak

ASSUME FleetAssumption ==
  /\ MaxWorkers \in Nat \ {0}
  /\ EventCap \in Nat \ {0}
  /\ Budget \in Nat \cup {Unlimited}
  /\ Unlimited \notin Nat
  /\ Deferred \subseteq Task
  /\ Verdicts \in [Task -> SUBSET (Outcome \cup {"error"})]
  /\ \A bound \in {MaxCrashes, MaxFaults, MaxPanics, MaxBeats, MaxResumes, MaxTurns} :
       bound \in Nat

Worker == 1 .. MaxWorkers
NoWorker == 0

VARIABLES
  (* durable *)
  ledger,     \* the newline-terminated lines of ledger.jsonl
  torn,       \* the file ends in bytes without a newline
  index,      \* last status of the run in index.jsonl
  (* coordinator memory *)
  pc,         \* what the coordinator does next
  remaining,  \* Scheduler::remaining
  active,     \* Scheduler::active
  halted,     \* Scheduler::budget_halted
  used,       \* Scheduler::used_tokens
  counts,     \* Scheduler::counts
  scan,       \* position of the loop over tasks.json, or candidates left to dispatch
  deciding,   \* the task whose receipt was just logged, and its outcome
  tier,       \* PreparedTask::tier_idx
  attempt,    \* PreparedTask::attempt
  (* worker pool *)
  jobs,       \* job channel
  events,     \* event channel
  workers,    \* number of threads spawned
  wpc,        \* where each worker thread is
  wtask,      \* the job each worker holds
  (* environment *)
  strays,     \* threads spawned before one could not be, that nobody joins
  crashes, faults, panics, beats, resumes, turns

durable == <<ledger, torn, index>>
sched   == <<remaining, active, halted, used, counts, scan, deciding, tier, attempt>>
pool    == <<jobs, events, workers, wpc, wtask>>
env     == <<strays, crashes, faults, panics, beats, resumes, turns>>
vars    == <<durable, pc, sched, pool, env>>

Message == [kind : {"started", "heartbeat", "finished"}, worker : Worker,
            task : Task, outcome : Outcome \cup {"error", "none"}, tokens : Nat]
Tell(kind, w, t) ==
  [kind |-> kind, worker |-> w, task |-> t, outcome |-> "none", tokens |-> 0]

NoDecision == [task |-> NoTask, outcome |-> "none"]

Room == Len(events) < EventCap
Peak == turns % 2 = 1
Parked(t) == t \in Deferred /\ Peak
Over(tokens) == Budget # Unlimited /\ tokens >= Budget
AllGone == \A w \in Worker : wpc[w] = "gone"
Complete == active = 0 /\ remaining = << >>

Init ==
  /\ ledger = << >> /\ torn = FALSE /\ index = "none"
  /\ pc = "new"
  /\ remaining = << >> /\ active = 0 /\ halted = FALSE /\ used = 0
  /\ counts = NoCounts /\ scan = 0 /\ deciding = NoDecision
  /\ tier = [t \in Task |-> 0] /\ attempt = [t \in Task |-> 0]
  /\ jobs = << >> /\ events = << >> /\ workers = 0
  /\ wpc = [w \in Worker |-> "gone"] /\ wtask = [w \in Worker |-> NoTask]
  /\ strays = 0 /\ crashes = 0 /\ faults = 0 /\ panics = 0 /\ beats = 0 /\ resumes = 0
  /\ turns \in 0 .. MaxTurns

----------------------------------------------------------------------------
(* Appending.                                                              *)

\* DurableWriter::append.  Nothing repairs the tail first, so a line written
\* behind torn bytes becomes one unreadable line with them.
Commit(e) ==
  /\ ledger' = Append(ledger, IF torn THEN OnRun("corrupt") ELSE e)
  /\ torn' = FALSE

\* Dropping the scheduler, the event receiver and the job sender.
Forget ==
  /\ remaining' = << >> /\ active' = 0 /\ halted' = FALSE /\ used' = 0
  /\ counts' = NoCounts /\ scan' = 0 /\ deciding' = NoDecision
  /\ tier' = [t \in Task |-> 0] /\ attempt' = [t \in Task |-> 0]
  /\ jobs' = << >> /\ events' = << >>

\* `?` or `bail!` out of execute_tasks.
Abandon ==
  /\ pc' = "abort"
  /\ Forget
  /\ UNCHANGED <<workers, wpc, wtask>>

----------------------------------------------------------------------------
(* A new run: run_with_id and run_with_id_inner.                           *)

Launch ==
  /\ pc = "new"
  /\ pc' = "launch"
  /\ UNCHANGED <<durable, sched, pool, env>>

StartRun ==
  /\ pc = "launch"
  /\ Commit(OnRun("run_started"))
  /\ pc' = "queue" /\ scan' = 1
  /\ UNCHANGED <<index, remaining, active, halted, used, counts, deciding, tier, attempt,
                 pool, env>>

QueueTask ==
  /\ pc = "queue"
  /\ Commit(OnTask("task_queued", scan))
  /\ IF scan < TaskCount
     THEN pc' = "queue" /\ scan' = scan + 1
     ELSE pc' = "announce" /\ scan' = 0
  /\ UNCHANGED <<index, remaining, active, halted, used, counts, deciding, tier, attempt,
                 pool, env>>

\* spawn_workers, one thread per task up to max_workers, when all of them start
WorkerCount(n) == Min({MaxWorkers, Max({1, n})})
Staff(queue) ==
  /\ workers' = WorkerCount(Len(queue))
  /\ wpc' = [w \in Worker |-> IF w <= workers' THEN "idle" ELSE "gone"]
  /\ UNCHANGED <<jobs, events, wtask>>

\* execute_tasks up to the scheduler's first dispatch, with the tasks in `queue`
MUT_BeginIgnoringBudget(queue, tokens) ==
  /\ remaining' = queue /\ active' = 0 /\ deciding' = NoDecision
  /\ used' = tokens /\ halted' = FALSE
  /\ pc' = "dispatch" /\ scan' = Len(queue)
  /\ Staff(queue)
MUT_BeginForgetsTokens(queue, tokens) ==
  /\ remaining' = queue /\ active' = 0 /\ deciding' = NoDecision
  /\ used' = 0 /\ halted' = FALSE
  /\ pc' = "dispatch" /\ scan' = Len(queue)
  /\ Staff(queue)
Begin(queue, tokens) ==
  /\ remaining' = queue /\ active' = 0 /\ deciding' = NoDecision
  /\ used' = tokens /\ halted' = Over(tokens)
  /\ IF Over(tokens)
     THEN pc' = "halt" /\ scan' = 0
     ELSE pc' = "dispatch" /\ scan' = Len(queue)
  /\ Staff(queue)

Announce ==
  /\ pc = "announce"
  /\ index' = "running"
  /\ Begin([i \in 1 .. TaskCount |-> i], 0)
  /\ counts' = NoCounts
  /\ tier' = [t \in Task |-> 0]
  /\ attempt' = [t \in Task |-> 1]
  /\ UNCHANGED <<ledger, torn, env>>

----------------------------------------------------------------------------
(* The scheduler: run_until_complete, handle_event, dispatch.              *)

\* What follows an event that did not end a task run.
Wake ==
  IF halted THEN pc' = "loop" /\ UNCHANGED scan
            ELSE pc' = "dispatch" /\ scan' = Len(remaining')

\* enforce_budget at the end of handle_finished
MUT_NeverEnforce == pc' = "dispatch" /\ scan' = Len(remaining') /\ UNCHANGED halted
EnforceBudget ==
  IF Over(used')
  THEN pc' = "halt" /\ scan' = 0 /\ halted' = TRUE
  ELSE pc' = "dispatch" /\ scan' = Len(remaining') /\ UNCHANGED halted

DispatchSend ==
  /\ pc = "dispatch" /\ scan > 0 /\ active < workers /\ remaining # << >>
  /\ ~Parked(Head(remaining))
  /\ jobs' = Append(jobs, Head(remaining))
  /\ remaining' = Tail(remaining)
  /\ active' = active + 1
  /\ scan' = scan - 1
  /\ UNCHANGED <<durable, pc, halted, used, counts, deciding, tier, attempt,
                 events, workers, wpc, wtask, env>>

MUT_ParkForgets ==
  /\ pc = "dispatch" /\ scan > 0 /\ active < workers /\ remaining # << >>
  /\ Parked(Head(remaining))
  /\ remaining' = Tail(remaining)
  /\ scan' = scan - 1
  /\ UNCHANGED <<durable, pc, active, halted, used, counts, deciding, tier, attempt,
                 pool, env>>
MUT_ParkUnbounded ==
  /\ pc = "dispatch" /\ active < workers /\ remaining # << >>
  /\ Parked(Head(remaining))
  /\ remaining' = Append(Tail(remaining), Head(remaining))
  /\ scan' = scan - 1
  /\ UNCHANGED <<durable, pc, active, halted, used, counts, deciding, tier, attempt,
                 pool, env>>
DispatchPark ==
  /\ pc = "dispatch" /\ scan > 0 /\ active < workers /\ remaining # << >>
  /\ Parked(Head(remaining))
  /\ remaining' = Append(Tail(remaining), Head(remaining))
  /\ scan' = scan - 1
  /\ UNCHANGED <<durable, pc, active, halted, used, counts, deciding, tier, attempt,
                 pool, env>>

DispatchDone ==
  /\ pc = "dispatch"
  /\ scan = 0 \/ active >= workers
  /\ pc' = "loop" /\ scan' = 0
  /\ UNCHANGED <<durable, remaining, active, halted, used, counts, deciding, tier, attempt,
                 pool, env>>

\* recv_timeout elapses: look at the parked tasks again.  A wake-up that could
\* send nothing changes nothing and is left out.
MUT_WakeOnlyWhileActive ==
  /\ pc = "loop" /\ events = << >> /\ ~halted /\ ~AllGone
  /\ remaining # << >> /\ active < workers /\ active > 0
  /\ pc' = "dispatch" /\ scan' = Len(remaining)
  /\ UNCHANGED <<durable, remaining, active, halted, used, counts, deciding, tier, attempt,
                 pool, env>>
WakeUp ==
  /\ pc = "loop" /\ events = << >> /\ ~halted /\ ~AllGone
  /\ remaining # << >> /\ active < workers
  /\ pc' = "dispatch" /\ scan' = Len(remaining)
  /\ UNCHANGED <<durable, remaining, active, halted, used, counts, deciding, tier, attempt,
                 pool, env>>

\* Every sender is gone: "fleet worker pool stopped unexpectedly"
PoolLost ==
  /\ pc = "loop" /\ ~Complete /\ events = << >> /\ AllGone
  /\ Abandon
  /\ UNCHANGED <<durable, env>>

Receive(kind) ==
  /\ pc = "loop" /\ ~Complete
  /\ events # << >> /\ Head(events).kind = kind
  /\ events' = Tail(events)

\* The append and the rendezvous acknowledgement that lets the worker go on
MUT_AckWithoutAppend ==
  /\ Receive("started")
  /\ UNCHANGED <<ledger, torn>>
  /\ wpc' = [wpc EXCEPT ![Head(events).worker] = "running"]
  /\ UNCHANGED remaining
  /\ Wake
  /\ UNCHANGED <<index, active, halted, used, counts, deciding, tier, attempt,
                 jobs, workers, wtask, env>>
HandleStarted ==
  /\ Receive("started")
  /\ LET m == Head(events)
     IN  /\ Commit(TaskStarted(m.task, tier[m.task], attempt[m.task]))
         /\ wpc' = [wpc EXCEPT ![m.worker] = "running"]
  /\ UNCHANGED remaining
  /\ Wake
  /\ UNCHANGED <<index, active, halted, used, counts, deciding, tier, attempt,
                 jobs, workers, wtask, env>>

HandleHeartbeat ==
  /\ Receive("heartbeat")
  /\ Commit(OnTask("task_heartbeat", Head(events).task))
  /\ UNCHANGED remaining
  /\ Wake
  /\ UNCHANGED <<index, active, halted, used, counts, deciding, tier, attempt,
                 jobs, workers, wpc, wtask, env>>

\* A finished run frees its slot
Released == IF active = 0 THEN 0 ELSE active - 1

\* handle_finished with Err: the run of the task itself failed
MUT_ErrorKeepsSlot ==
  /\ Receive("finished") /\ Head(events).outcome = "error"
  /\ Commit(OnTask("task_failed", Head(events).task))
  /\ counts' = [counts EXCEPT !.failed = @ + 1]
  /\ UNCHANGED <<active, remaining, used>>
  /\ EnforceBudget
  /\ UNCHANGED <<index, deciding, tier, attempt, jobs, workers, wpc, wtask, env>>
HandleError ==
  /\ Receive("finished") /\ Head(events).outcome = "error"
  /\ Commit(OnTask("task_failed", Head(events).task))
  /\ active' = Released
  /\ counts' = [counts EXCEPT !.failed = @ + 1]
  /\ UNCHANGED <<remaining, used>>
  /\ EnforceBudget
  /\ UNCHANGED <<index, deciding, tier, attempt, jobs, workers, wpc, wtask, env>>

\* handle_receipt up to its append
HandleReceipt ==
  /\ Receive("finished") /\ Head(events).outcome # "error"
  /\ LET m == Head(events)
     IN  /\ Commit(TaskReceipt(m.task, attempt[m.task], m.outcome, m.tokens))
         /\ used' = used + m.tokens
         /\ deciding' = [task |-> m.task, outcome |-> m.outcome]
  /\ active' = Released
  /\ pc' = "decide"
  /\ UNCHANGED <<index, remaining, halted, counts, scan, tier, attempt,
                 jobs, workers, wpc, wtask, env>>

Decided ==
  NextStep(tier[deciding.task], attempt[deciding.task], deciding.outcome)

\* apply_step, then enforce_budget
ApplyDone ==
  /\ pc = "decide" /\ Decided = "done"
  /\ Commit(TaskDone(deciding.task, deciding.outcome))
  /\ counts' = [counts EXCEPT !.done = @ + 1]
  /\ deciding' = NoDecision
  /\ UNCHANGED <<remaining, used>>
  /\ EnforceBudget
  /\ UNCHANGED <<index, active, tier, attempt, pool, env>>

ApplyRetry ==
  /\ pc = "decide" /\ Decided = "retry"
  /\ attempt' = [attempt EXCEPT ![deciding.task] = @ + 1]
  /\ remaining' = Append(remaining, deciding.task)
  /\ deciding' = NoDecision
  /\ UNCHANGED used
  /\ EnforceBudget
  /\ UNCHANGED <<durable, active, counts, tier, pool, env>>

MUT_EscalateKeepsAttempt ==
  /\ pc = "decide" /\ Decided = "escalate"
  /\ Commit(TaskEscalated(deciding.task, tier[deciding.task] + 1))
  /\ tier' = [tier EXCEPT ![deciding.task] = @ + 1]
  /\ UNCHANGED attempt
  /\ remaining' = Append(remaining, deciding.task)
  /\ deciding' = NoDecision
  /\ UNCHANGED used
  /\ EnforceBudget
  /\ UNCHANGED <<index, active, counts, pool, env>>
ApplyEscalate ==
  /\ pc = "decide" /\ Decided = "escalate"
  /\ Commit(TaskEscalated(deciding.task, tier[deciding.task] + 1))
  /\ tier' = [tier EXCEPT ![deciding.task] = @ + 1]
  /\ attempt' = [attempt EXCEPT ![deciding.task] = 1]
  /\ remaining' = Append(remaining, deciding.task)
  /\ deciding' = NoDecision
  /\ UNCHANGED used
  /\ EnforceBudget
  /\ UNCHANGED <<index, active, counts, pool, env>>

ApplyGate ==
  /\ pc = "decide" /\ Decided = "gate"
  /\ Commit(OnTask("task_gate", deciding.task))
  /\ counts' = [counts EXCEPT !.gated = @ + 1]
  /\ deciding' = NoDecision
  /\ UNCHANGED <<remaining, used>>
  /\ EnforceBudget
  /\ UNCHANGED <<index, active, tier, attempt, pool, env>>

ApplyFail ==
  /\ pc = "decide" /\ Decided = "fail"
  /\ Commit(OnTask("task_failed", deciding.task))
  /\ counts' = [counts EXCEPT !.failed = @ + 1]
  /\ deciding' = NoDecision
  /\ UNCHANGED <<remaining, used>>
  /\ EnforceBudget
  /\ UNCHANGED <<index, active, tier, attempt, pool, env>>

\* halt_remaining, one task at a time
HaltOne ==
  /\ pc = "halt" /\ remaining # << >>
  /\ Commit(OnTask("task_failed", Head(remaining)))
  /\ remaining' = Tail(remaining)
  /\ counts' = [counts EXCEPT !.failed = @ + 1]
  /\ UNCHANGED <<index, pc, active, halted, used, scan, deciding, tier, attempt, pool, env>>

HaltDone ==
  /\ pc = "halt" /\ remaining = << >>
  /\ pc' = "loop"
  /\ UNCHANGED <<durable, sched, pool, env>>

\* The loop ends and pool.finish closes the job channel.  A worker that
\* panicked took its job with it, so Complete implies that none has.
LeaveLoop ==
  /\ pc = "loop" /\ Complete
  /\ pc' = "join"
  /\ UNCHANGED <<durable, sched, pool, env>>

JoinPool ==
  /\ pc = "join" /\ AllGone
  /\ pc' = "finish"
  /\ UNCHANGED <<durable, sched, pool, env>>

Finish ==
  /\ pc = "finish"
  /\ Commit(RunFinished(counts))
  /\ pc' = "index"
  /\ UNCHANGED <<index, sched, pool, env>>

FinishIndex ==
  /\ pc = "index"
  /\ index' = "finished"
  /\ pc' = "off"
  /\ Forget
  /\ UNCHANGED <<ledger, torn, workers, wpc, wtask, env>>

----------------------------------------------------------------------------
(* Worker threads: worker_loop.                                            *)

\* Take a job, resolve its route and announce it to the coordinator
Offer(w) ==
  /\ pc # "abort" /\ wpc[w] = "idle" /\ jobs # << >> /\ Room
  /\ jobs' = Tail(jobs)
  /\ wtask' = [wtask EXCEPT ![w] = Head(jobs)]
  /\ events' = Append(events, Tell("started", w, Head(jobs)))
  /\ wpc' = [wpc EXCEPT ![w] = "offered"]
  /\ UNCHANGED <<durable, pc, sched, workers, env>>

\* The route no longer resolves
OfferFails(w) ==
  /\ pc # "abort" /\ wpc[w] = "idle" /\ jobs # << >> /\ Room
  /\ faults < MaxFaults /\ faults' = faults + 1
  /\ jobs' = Tail(jobs)
  /\ events' = Append(events, [Tell("finished", w, Head(jobs)) EXCEPT !.outcome = "error"])
  /\ UNCHANGED <<durable, pc, sched, workers, wpc, wtask,
                 strays, crashes, panics, beats, resumes, turns>>

\* The heartbeat thread; try_send drops the beat when the channel is full
Heartbeat(w) ==
  /\ pc # "abort" /\ wpc[w] = "running" /\ Room
  /\ beats < MaxBeats /\ beats' = beats + 1
  /\ events' = Append(events, Tell("heartbeat", w, wtask[w]))
  /\ UNCHANGED <<durable, pc, sched, jobs, workers, wpc, wtask,
                 strays, crashes, faults, panics, resumes, turns>>

\* run_one_task returns; the heartbeat thread is joined before the send
MUT_KeepJob(w) ==
  /\ pc # "abort" /\ wpc[w] = "running" /\ Room
  /\ \E outcome \in Verdicts[wtask[w]] :
     \E tokens \in IF outcome = "error" THEN {0} ELSE 0 .. MaxTokens :
       events' = Append(events, [Tell("finished", w, wtask[w]) EXCEPT
                                   !.outcome = outcome, !.tokens = tokens])
  /\ wpc' = [wpc EXCEPT ![w] = "running"]
  /\ UNCHANGED wtask
  /\ UNCHANGED <<durable, pc, sched, jobs, workers, env>>
Perform(w) ==
  /\ pc # "abort" /\ wpc[w] = "running" /\ Room
  /\ \E outcome \in Verdicts[wtask[w]] :
     \E tokens \in IF outcome = "error" THEN {0} ELSE 0 .. MaxTokens :
       events' = Append(events, [Tell("finished", w, wtask[w]) EXCEPT
                                   !.outcome = outcome, !.tokens = tokens])
  /\ wpc' = [wpc EXCEPT ![w] = "idle"]
  /\ wtask' = [wtask EXCEPT ![w] = NoTask]
  /\ UNCHANGED <<durable, pc, sched, jobs, workers, env>>

\* The thread unwinds with its job
Panic(w) ==
  /\ wpc[w] = "running"
  /\ panics < MaxPanics /\ panics' = panics + 1
  /\ wpc' = [wpc EXCEPT ![w] = "gone"]
  /\ wtask' = [wtask EXCEPT ![w] = NoTask]
  /\ UNCHANGED <<durable, pc, sched, jobs, events, workers,
                 strays, crashes, faults, beats, resumes, turns>>

\* recv on the closed, empty job channel
Leave(w) ==
  /\ pc = "join" /\ wpc[w] = "idle"
  /\ wpc' = [wpc EXCEPT ![w] = "gone"]
  /\ UNCHANGED <<durable, pc, sched, jobs, events, workers, wtask, env>>

\* After an early return every channel the worker could wait on is closed;
\* a task that runs ends first, and its result has nowhere to go.
Unwind(w) ==
  /\ pc = "abort" /\ wpc[w] # "gone"
  /\ wpc' = [wpc EXCEPT ![w] = "gone"]
  /\ wtask' = [wtask EXCEPT ![w] = NoTask]
  /\ UNCHANGED <<durable, pc, sched, jobs, events, workers, env>>

----------------------------------------------------------------------------
(* Failure and recovery.                                                   *)

\* The event the coordinator is about to append, if any
Pending ==
  LET m == Head(events) IN
  CASE pc = "launch" -> {OnRun("run_started")}
    [] pc = "queue"  -> {OnTask("task_queued", scan)}
    [] pc = "halt" /\ remaining # << >> -> {OnTask("task_failed", Head(remaining))}
    [] pc = "loop" /\ ~Complete /\ events # << >> ->
         {IF m.kind = "started" THEN TaskStarted(m.task, tier[m.task], attempt[m.task])
          ELSE IF m.kind = "heartbeat" THEN OnTask("task_heartbeat", m.task)
          ELSE IF m.outcome = "error" THEN OnTask("task_failed", m.task)
          ELSE TaskReceipt(m.task, attempt[m.task], m.outcome, m.tokens)}
    [] pc = "decide" /\ Decided # "retry" ->
         {IF Decided = "done" THEN TaskDone(deciding.task, deciding.outcome)
          ELSE IF Decided = "escalate"
               THEN TaskEscalated(deciding.task, tier[deciding.task] + 1)
          ELSE IF Decided = "gate" THEN OnTask("task_gate", deciding.task)
          ELSE OnTask("task_failed", deciding.task)}
    [] pc = "finish" -> {RunFinished(counts)}
    [] pc = "fail"   -> {OnRun("run_failed")}
    [] OTHER -> {}

\* What a failed write, flush or fsync of e leaves in the file
Botched(e) ==
  \/ UNCHANGED <<ledger, torn>>
  \/ torn' = TRUE /\ UNCHANGED ledger
  \/ Commit(e)

Fault == faults < MaxFaults /\ faults' = faults + 1

AppendError ==
  /\ pc # "fail" /\ Fault
  /\ \E e \in Pending : Botched(e)
  /\ Abandon
  /\ UNCHANGED <<index, strays, crashes, panics, beats, resumes, turns>>

\* append_index fails, before the workers exist or after they are gone
IndexError ==
  /\ pc \in {"announce", "index"} /\ Fault
  /\ Abandon
  /\ UNCHANGED <<durable, strays, crashes, panics, beats, resumes, turns>>

\* A missing key, an unapproved origin or a bad route stops the run early
PreflightError ==
  /\ pc \in {"new", "off"} /\ Fault
  /\ pc = "off" => resumes < MaxResumes
  /\ resumes' = IF pc = "off" THEN resumes + 1 ELSE resumes
  /\ torn' = FALSE
  /\ pc' = "fail"
  /\ UNCHANGED <<ledger, index, sched, pool, strays, crashes, panics, beats, turns>>

\* WorkerPool::drop has joined the workers; the run lock is still held
MUT_AbortWithoutJoin ==
  /\ pc = "abort"
  /\ pc' = "fail"
  /\ UNCHANGED <<durable, sched, pool, env>>
AbortJoined ==
  /\ pc = "abort" /\ AllGone
  /\ pc' = "fail"
  /\ UNCHANGED <<durable, sched, pool, env>>

\* append_run_failed, then the lock is released
RecordFailure ==
  /\ pc = "fail"
  /\ Commit(OnRun("run_failed"))
  /\ pc' = "off"
  /\ UNCHANGED <<index, sched, pool, env>>

RecordFailureError ==
  /\ pc = "fail" /\ Fault
  /\ \E e \in Pending : Botched(e)
  /\ pc' = "off"
  /\ UNCHANGED <<index, sched, pool, strays, crashes, panics, beats, resumes, turns>>

\* The process dies, leaving part of the line it was writing
Crash ==
  /\ pc \notin {"new", "off"}
  /\ crashes < MaxCrashes /\ crashes' = crashes + 1
  /\ torn' \in {torn, torn \/ Pending # {}}
  /\ pc' = "off"
  /\ Forget
  /\ wpc' = [w \in Worker |-> "gone"]
  /\ wtask' = [w \in Worker |-> NoTask]
  /\ strays' = 0
  /\ UNCHANGED <<ledger, index, workers, faults, panics, beats, resumes, turns>>

\* `resume` takes the lock, repairs the tail and reads the ledger back
Reopen ==
  /\ pc = "off"
  /\ resumes < MaxResumes /\ resumes' = resumes + 1
  /\ torn' = FALSE
  /\ UNCHANGED <<ledger, index, strays, crashes, faults, panics, beats, turns>>

ResumeRefused ==
  /\ Reopen
  /\ ~Resumable(ledger)
  /\ pc' = "fail"
  /\ UNCHANGED <<sched, pool>>

MUT_ResumeUnfinished ==
  /\ Reopen
  /\ Resumable(ledger) /\ Todo(ledger) = {}
  /\ pc' = "index"
  /\ UNCHANGED <<sched, pool>>
ResumeFinished ==
  /\ Reopen
  /\ Resumable(ledger) /\ Todo(ledger) = {} /\ Has(ledger, "run_finished")
  /\ pc' = "index"
  /\ UNCHANGED <<sched, pool>>

ResumeRun ==
  /\ Reopen
  /\ Resumable(ledger)
  /\ Todo(ledger) # {} \/ ~Has(ledger, "run_finished")
  /\ \E queue \in InQueueOrder(Todo(ledger)) : Begin(queue, ReceiptTokens(ledger))
  /\ counts' = TerminalCounts(ledger)
  /\ tier' = [t \in Task |-> ResumeTier(ledger, t)]
  /\ attempt' = [t \in Task |-> ResumeAttempt(ledger, t)]

\* spawn_workers cannot start a thread: `?` drops the handles of those it did
\* start, which see their job channel close and leave in their own time, while
\* the failure is recorded and the lock released.
Spawn(n) == strays' \in strays .. strays + WorkerCount(n) - 1
SpawnFails ==
  /\ Fault
  /\ \/ /\ pc = "announce"
        /\ index' = "running" /\ Spawn(TaskCount)
        /\ UNCHANGED <<torn, resumes>>
     \/ /\ pc = "off" /\ resumes < MaxResumes /\ resumes' = resumes + 1
        /\ Resumable(ledger)
        /\ Todo(ledger) # {} \/ ~Has(ledger, "run_finished")
        /\ torn' = FALSE /\ Spawn(Cardinality(Todo(ledger)))
        /\ UNCHANGED index
  /\ pc' = "fail"
  /\ UNCHANGED <<ledger, sched, pool, crashes, panics, beats, turns>>

\* recv of a stray thread on its closed job channel
StrayLeaves ==
  /\ strays > 0
  /\ strays' = strays - 1
  /\ UNCHANGED <<durable, pc, sched, pool, crashes, faults, panics, beats, resumes, turns>>

\* The clock crosses the edge of a peak-pricing window
ClockTurns ==
  /\ turns > 0
  /\ turns' = turns - 1
  /\ UNCHANGED <<durable, pc, sched, pool, strays, crashes, faults, panics, beats, resumes>>

\* Nobody calls `resume` again
Stopped ==
  /\ pc = "off" /\ resumes = MaxResumes
  /\ UNCHANGED vars

----------------------------------------------------------------------------
Recording == Launch \/ StartRun \/ QueueTask \/ Announce
Dispatching == DispatchSend \/ DispatchPark \/ DispatchDone \/ WakeUp \/ PoolLost
Handling == HandleStarted \/ HandleHeartbeat \/ HandleError \/ HandleReceipt
Applying == ApplyDone \/ ApplyRetry \/ ApplyEscalate \/ ApplyGate \/ ApplyFail
Ending == HaltOne \/ HaltDone \/ LeaveLoop \/ JoinPool \/ Finish \/ FinishIndex
Closing == AbortJoined \/ RecordFailure
Coordinator == Recording \/ Dispatching \/ Handling \/ Applying \/ Ending \/ Closing
Working(w) == Offer(w) \/ Perform(w) \/ Leave(w) \/ Unwind(w)
Resume == ResumeRefused \/ ResumeFinished \/ ResumeRun

Next ==
  \/ Launch \/ StartRun \/ QueueTask \/ Announce
  \/ DispatchSend \/ DispatchPark \/ DispatchDone \/ WakeUp \/ PoolLost
  \/ HandleStarted \/ HandleHeartbeat \/ HandleError \/ HandleReceipt
  \/ ApplyDone \/ ApplyRetry \/ ApplyEscalate \/ ApplyGate \/ ApplyFail
  \/ HaltOne \/ HaltDone \/ LeaveLoop \/ JoinPool \/ Finish \/ FinishIndex
  \/ \E w \in Worker : \/ Offer(w) \/ OfferFails(w) \/ Heartbeat(w) \/ Perform(w)
                       \/ Panic(w) \/ Leave(w) \/ Unwind(w)
  \/ AppendError \/ IndexError \/ PreflightError \/ SpawnFails \/ StrayLeaves
  \/ AbortJoined \/ RecordFailure \/ RecordFailureError \/ Crash
  \/ ResumeRefused \/ ResumeFinished \/ ResumeRun
  \/ ClockTurns \/ Stopped

Spec == Init /\ [][Next]_vars

\* Each thread keeps running, a task run ends (the agent loop and the provider
\* client are bounded), a peak window ends, and an interrupted run is resumed.
Fairness ==
  /\ WF_vars(Coordinator)
  /\ \A w \in Worker : WF_vars(Working(w))
  /\ WF_vars(ClockTurns)
  /\ WF_vars(Resume)

FairSpec == Spec /\ Fairness
============================================================================
