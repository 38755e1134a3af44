# nosis-harness in TLA+

Specifications of the nosis-harness workspace (nine Rust crates under `src/crates/`), their TLC
instances and machine-checked proofs. Paths below are relative to `src/crates/` unless they start
with `src/`. Three parts are modelled together with the threads and files they share: one **fleet
run** (the coordinator of `nh-fleet`, its worker threads, the append-only ledger and `resume`), one
**agent conversation** (the turn loop of `nh-core`, its cancellation, compaction and receipts) and one
**TUI session** (the UI and worker threads of `nh-tui` around it, and the session ledger through
crashes and resumes). Thirteen further components, which share no state with these or with each
other, have a module each: the **services** of section 6.

## 1. The system and its parts

| Part | State it keeps | Operations | Talks to |
|---|---|---|---|
| `nh-fleet` ledger (`ledger.rs`, `model.rs`) | `ledger.jsonl` of a run, `index.jsonl` | append with flush and fsync, tail repair, folds for plan, ladder position, counters, tokens | written by the coordinator, read by `resume` and status |
| `nh-fleet` coordinator (`lib.rs`, `scheduler.rs`, `engine.rs`) | queue of tasks, active count, budget meter, counters; job channel, bounded event channel, worker threads; run lock | `run_with_id`, `resume`, event loop, dispatch and parking, retry / escalate / gate, budget halt, pool join | workers by channels, ledger by appends, `nh-routes` for prices |
| `nh-fleet` preparation (`prepare.rs`) | none | validates tasks, routes and keys before a run | `nh-routes`, `nh-vault` |
| `nh-mcp` server | counter of active runs, server loop | accept, check, `fleet_run`, `fleet_status`, route tools | spawns fleet runs on threads, reads ledgers without their lock |
| `nh-core` agent loop, compaction | history of a conversation, prefix seal, cancel flag | one run: provider calls, tool calls, receipt | wire clients, tools, receipt log |
| `nh-core` context experiment, observations | the archive in use, retained files of the session | plan a request, archive old exchanges, read back, clean up | a client around the provider client |
| `nh-core` efficiency recorder | sequence numbers, streaks, dropped records | records of one measured task after the other | a log that other processes append to |
| `nh-core` session ledger, JSONL | `.nosis/sessions/*.jsonl` | append under a file lock, read, fold, list | chat and TUI |
| `nh-core` retries and wire clients | attempts, elapsed time, salvaged usage | retry loop around a provider call; two wires | provider |
| `nh-tools` publication, edits, exec | stage files, child processes | create-only link, compare-and-rename, kill and reap | file system, other writers |
| `nh-tools` MCP client, OAuth, reviews | cached tools, access and refresh tokens | refresh under a lock, rotate; gates of a remote call | vault, MCP server |
| `nh-tui` worker and view | command and event channels, approvals, cancel and shutdown flags | run a task, switch route, cancel, bounded shutdown | agent loop on its own thread |
| `nh-law`, `nh-routes`, `nh-vault` | loaded once | policy layering and matching, route resolution and prices, credentials and redaction | everyone |
| `nh-cli` chat and resume | transcript, totals, keys to redact | tasks, route switches, resume, list | session ledger, agent loop |
| `nh-cli` private state, MCP setup, catalog | `~/.nosis/model`, `mcp.toml`, reviews, `catalog.toml` | set and clear, connect, review and disable, migrate | each other through the files, without a lock |
| `nh-cli` other commands | none | printing and prompts | all of the above |

**What is hard.** The fleet is the one place where several threads, a bounded channel, durable
state, process death, failed I/O, a clock and a budget meet: its crash points are between any two
appends and its schedules are those of the worker threads. Then come the cancel flag and the
append-only history of the agent loop, the session appends that never repair a torn tail, the
publications of files that race other writers and can die between two steps, commands that wait for a
person while the files they have read change, the OAuth refresh shared by several callers, a child
process that may or may not let itself be killed, and the TUI worker with its approvals and its
bounded shutdown. `PROJECT.json` lists every hazard at its line.

**What makes each part correct.**

- *Fleet*: a task is in one place at a time, runs only after its start is durable, ends exactly once
  and is silent afterwards; tier and attempt survive a restart; the budget stops dispatch; the run
  lock outlives the workers; every process and every recorded run ends.
- *Agent loop*: one result per tool call and one receipt per run wherever a cancel falls; the
  caller's history grows by exactly what was said; compaction keeps the system message, the last two
  user turns and the corrections.
- *Session ledger, chat*: what was appended before a crash can be read and continued after it; a
  resumed session has the route, tokens and cost of the live one.
- *Retry*: no attempt outside the time budget or before the provider allows it; usage exact or unknown.
- *Wires*: the same answer means the same on both, and every transcript makes an acceptable request.
- *Publication, private state, catalog*: another writer's file is never lost silently, no stage file is
  left unreported, a value saved last can be found again unless two updates overlap.
- *Exec*: what is reported is what became of the command, and the call returns.
- *OAuth*: one refresh per expiry, the newest refresh token is the one that is used, no call sent twice.
- *MCP tools and setup*: only what the operator was shown can be enabled, offered or called.
- *MCP server*: the cap on runs holds, and a run that was announced can be followed to its end.
- *Law, profiles, credentials*: a repository only tightens; a rule means what it says; a credential goes
  only where its user approved.
- *Routes and cost*: the choice is justified, and what is said about money is never too little.
- *Context archive, recorder*: of what is taken out of a request a scrubbed copy can be read back; a log
  with gaps still adds up.
- *TUI worker*: shutdown ends in bounded time, an approval is answered once, a cancel reaches the
  turn it was meant for.

## 2. Plan

| Order | Modules | What they are about | State |
|---|---|---|---|
| 1 | `FleetLedger`, `Fleet`, `FleetProperties`, `FleetRefinement` over `TaskLife`, `MCFleet` | a fleet run, and what it promises about its tasks | written, checked |
| 2 | `FleetInvariant`, `FleetProofs`, `FleetAccountProofs`, `FleetLifeProofs` | the inductive invariants and the theorems about 1, up to the refinement of `TaskLife` | written, proved |
| 3 | `Conversation`, `AgentTurn`, `AgentTurnProperties`, `MCAgentTurn` | the turn loop over a session transcript: cancellation, tool calls, compaction, receipts | written, checked, proved in `TurnProofs` |
| 4 | `SessionLedger`, `TuiSession` composed of it and `AgentTurn`, `TuiSessionProperties`, `MCTuiSession` | the ledger of a session across crashes and resumes; UI and worker threads | written, checked, proved in `TuiProofs` |
| 5 | `FileTools`, `PrivateState`, `CatalogMigration` | publications against another writer and a death | written, checked |
| 6 | `McpOAuth`, `ExecShell`, `ProviderCall` over `Usage` | token refresh, child termination, attempts against a deadline | written, checked |
| 7 | `McpServer` over `McpProtocol` | the cap on active runs, and the reply before the lock | written, checked |
| 8 | `McpTools`, `McpSetup` | a remote tool from the operator's files to the call | written, checked |
| 9 | `Chat`, `ContextArchive`, `Recorder` | a chat and its ledger, the context experiment, the efficiency log | written, checked |
| 10 | `Glob`, `Law`, `Routes`, `WireFormat`, `Vault`, `ToolRepair`, `EditMatch`, asked questions by `Policies` | the decisions without state, against reference definitions | written, checked |
| 11 | `LocalProofs`, `RemoteProofs`, `ChatProofs` | theorems about 5 to 9 | written, proved |

The plan is carried out. What is only model-checked rests on fairness, or on what a computation over text or
messages returns; sections 3 to 6 say which properties these are and why.

## 3. The fleet modules

### How state corresponds to the code

- **`FleetLedger`** holds the events of `LedgerEvent` (`nh-fleet/src/model.rs`) and the pure folds:
  `Todo` and `InQueueOrder` are `plan_from_ledger`, `LadderTier`/`LadderAttempt` are
  `ladder_position`, `LastAttempt` is `attempts_by_task`, `TerminalCounts`, `ReceiptTokens` and
  `SingleTerminal` the functions of those names, `NextStep` is `next_step` with the choice
  `handle_receipt` makes when the run has no ladder. A task is its number in `tasks.json`; a route
  is the tier of the ladder; texts are left out. `corrupt` is a line that ends in a newline and is
  not JSON. Tiers = 0 stands for a run without `--escalate`.
- **`Fleet`** holds one run through all the processes that take it. `ledger`, `torn` and `index` are
  the disk; `remaining`, `active`, `halted`, `used`, `counts` are the fields of `Scheduler` of the
  same names; `tier` and `attempt` travel with a `PreparedTask` in the code and are functions of the
  task here, because a prepared task is moved and never copied; `jobs` and `events` are the two
  channels, `wpc` and `wtask` the worker threads.
- `pc` splits the coordinator at its appends, so that a crash, an I/O error and every step of the
  workers can fall between any two of them: `launch` before `run_started`, `queue` in the loop over
  the tasks, `announce` before the index record, `dispatch` in the dispatch loop, `loop` at
  `recv_timeout`, `decide` between a receipt and its consequence, `halt` in `halt_remaining`, `join`
  in `pool.finish`, `finish` and `index` before the last two appends, `abort` while an early return
  drops the pool, `fail` before `run_failed`, `off` when the process is gone.
- **`FleetProperties`** states what the run promises, **`FleetRefinement`** reads the ledger as the
  state of **`TaskLife`**, the abstract specification of the life of a task.

### Modelling decisions

- `Commit(e)` is `DurableWriter::append`: it writes behind whatever the file ends in, so after torn
  bytes the line is `corrupt`. `AppendError` leaves nothing, a torn line or the complete line
  (write, flush and fsync can each fail). `Crash` leaves the line it was writing torn or absent. A
  complete line whose writer dies at once is the crash after the append.
- `Reopen` is the start of `resume`: it takes the lock and repairs the tail; a ledger it cannot use
  ends in `run_failed` (`ResumeRefused`). `PreflightError` stands for every check of `prepare.rs`
  that can end a run before it does anything.
- `Offer` merges the receive from the job channel with the send of `started`: only the worker's own
  state changes in between. The acknowledgement on the rendezvous channel is the step of
  `HandleStarted` from `offered` to `running`.
- `WakeUp` is the timeout of `recv_timeout`; one that could send nothing changes nothing and is left
  out. `turns` is the price clock: its parity says whether the deferred routes are at peak price.
- `LeaveLoop` cannot meet a panicked worker: a panic keeps `active` above zero. The branch of
  `pool.finish` for it is unreachable, which is what the run `fleet_panic` shows.
- `escalate_on_partial` is FALSE in the runs because both callers of the crate pass FALSE
  (`nh-cli/src/cmd_fleet.rs:98`, `nh-mcp/src/fleet_tools.rs:96`); the proofs hold for both values.
- `Spawn` is `spawn_workers`. When one thread cannot be started (`SpawnFails`), the handles of those
  before it are dropped and nobody joins them: they are `strays`, which find their job channel closed and
  leave (`StrayLeaves`). They never have a task, but they may outlive the process's hold on the lock.
  `LockCoversWorkers` is about the pool that runs tasks, and section 7 has the strays.
- `Stopped` is the end of a behaviour, when nobody resumes any more. It keeps TLC's deadlock check
  on in all runs but `fleet_panic`, where the coordinator sits in wake-ups the model leaves out.
- The run lock is the rule that a run has one process at a time; two that race for it are in
  `McpServer`.

### Runs

| Run | Instance | Question |
|---|---|---|
| `fleet_ladder` | 2 tasks, 2 tiers, 1 worker, one crash, panic and heartbeat each, 1 resume | Is the ledger a truthful record: one terminal event, silence after it, a start before every run, on the tier the ledger leads to? Does it implement `TaskLife`? |
| `fleet_run` | 3 tasks, no further tier, 2 workers, a deferred task, a budget of one token, a crash and a fault, 1 resume, fair threads | Is every open task in exactly one place, does the budget stop the run where the ledger says, does every process end with its workers gone, and every recorded run finish? |
| `fleet_torn_tail` | 1 task, 1 worker, one failed append | Finding: `run_failed` is appended behind a torn line. |
| `fleet_lost_task` | 2 tasks, 1 worker, one crash | Finding: a crash between `run_started` and the last `task_queued` loses tasks. |
| `fleet_panic` | 2 tasks, 2 workers, one panic, fair threads | Finding: the coordinator waits for ever. |

**Bounds.** Three tasks and two workers let one task wait while two are out, and give every interleaving
of two answers; with one worker, two tasks do. Two tiers give every kind of step of the ladder (retry,
escalate, gate), and no further tier gives the plain failure of a run without a ladder. `EventCap` is 2
instead of at least 16, so that the channel fills up. One crash and a resume reach a crash in a run, in
a resumed run, and a resume of a finished, failed or refused ledger. `MaxTokens` of 1 with a budget of 1
makes each receipt either free or the last one the budget allows, with another one in flight. The run
with two workers has no panics: with them it would not end, which is the finding.

**Fairness.** Weak fairness of the coordinator and of each worker thread: the operating system runs
every thread that can run. It makes a task run end, which the code bounds by the agent's turn limit
and the client's time budget, but it never makes a fault, a panic or a heartbeat happen. Weak fairness
of `ClockTurns`: a peak-price window ends. Weak fairness of `Resume`: `EveryRunFinishes` speaks about
a run its operator resumes as long as it is interrupted; a behaviour with more crashes and faults than
resumes (`MaxResumes` of 1) is left out of it.

### Proofs

`FleetInvariant` defines four invariants; `FleetProofs` opens with the facts about queues, events and
folds that all four need. The theorems hold for every number of tasks, tiers and workers, every capacity, budget and
verdict, and every number of crashes, faults, panics, heartbeats and resumes, from the named
assumptions `LedgerAssumption` and `FleetAssumption` (the ranges of the constants).

`OneTerminalPerTask` is not inductive: a terminal event is written for a task because it is at the
head of the queue, in a message or in the decision, and nothing in the ledger says that it was not
ended already. The strengthening says where an open task can be. `Waiting`, `Sent`, `Taken`,
`Answered` and `Judged` are the tasks in the scheduler's queue, in the job channel, with a worker, in
a finished message and under decision. `Once` says none of these places holds a task twice, `Apart`
that no two of them share one, and `Unsettled` that none of them holds a task with a terminal event.
Then whichever place a task leaves when its terminal event is written, it is nowhere else, so no
second one can follow in this process. At a resume the queue is filled with `Todo`, which excludes the
settled tasks, so none can follow in the next one. `Threads` ties the messages to the workers that
sent them (an acknowledged start is the worker's own), `Locals` ties `pc` to the coordinator's locals,
and `Alone` says that no worker exists before the pool is filled and after it is joined, which makes
`Taken` empty when a resume fills the queue. `Alone` implies `LockCoversWorkers`.

`RecordInv` (also in `FleetProofs`) holds beside `Inv` and ties the record to the process. `Offers` says
that an offered start is about the job its worker holds, so that the line `HandleStarted` writes is about
the task that will run. `Beats` says that a heartbeat in the channel stands before the answer of its
task, and is about no task that is settled, waiting, sent or judged: a late heartbeat can only be
written for a task whose end is not in the file. `Whole` says that a torn tail is met only by the
failure path, so that no line of a task is lost in a corrupt one. `OnTier` says that the coordinator's tier
of a task is the one a resume would fold out of the ledger; without it a start could not be shown to be
on the tier the ledger leads to.

`AccountInv` (`FleetAccountProofs`) is about numbers. `Covered` says that the tasks in hand are those the
ledger mentions and has not settled, `Staffed` bounds the slots by the threads, `ActiveIsOut` says
that a slot is in use for each task that is out, `Metered` says that the meter is the sum of the receipts and that `halted`
follows it, and `InFlight` that the receipts behind the one that spent the budget, with the jobs still
out, are fewer than the workers. `NoTaskIsLost` follows by counting: every place holds different
tasks, so the slots given out are as many as the tasks that are out.

`LifeInv` (`FleetLifeProofs`) is what the refinement of `TaskLife` needs beside. `TaskLife` knows no threads
and no decisions in memory: it reads where a task is (`Stage`), its tier (`LadderTier`) and its tries
(`LadderAttempt - 1`) out of the ledger. So the invariant ties the memory of the process to these
readings. `Numbered` says that a task that waits for its start, in the queue, in the channel or with a
worker that was not acknowledged, carries the attempt that follows the starts on its tier, and that one
that runs, or whose receipt is on its way back, was started last and has no receipt behind its start.
`DecidesOnReceipt` says that the receipt under decision is what the ledger says last of its task.
`OnLadder` bounds the tier, without which a gate could fall above the last one. `Introduced` says that a
task is queued before anything else is said of it. `Totalled` says that the counters are those of the terminal
events (also after a resume, which folds them out of the file), that no task is open once the loop has
been left, and that a run with a report is not served again.

The refinement then goes line by line, because every step appends at most one line (`OneLine`). The
lines of the run, of damage, and heartbeats change no reading (`LineStutters`). A line about a task moves that
task alone (`LineMoves`), and its kind names the step: `task_queued` is `Admit`, `task_started` `Try`,
`task_receipt` `Judge`, `task_escalated` `Climb`, `task_done` `Accept`, `task_gate` `Gate`,
`task_failed` `GiveUp`; `LineLives` shows that the guard of the step holds. `run_finished` is `Close`
(`LineCloses`): by `NothingAfterTerminal` the terminal event of a task is the last that is said of it, so the
tasks in each end are as many as its events (`EndsCounted`), which is what the counters hold. A crash, a
failed append and a resume change the memory and no reading, so they stutter, or append one of these lines.

| Theorem | Module | States |
|---|---|---|
| `Invariance` | `FleetProofs` | `Inv` in every reachable state |
| `TypeCorrect` | | `TypeOK`, checked by `fleet_run` |
| `SingleEnd` | | `OneTerminalPerTask`, checked by `fleet_ladder` |
| `LockHeldToTheEnd` | | `LockCoversWorkers`, checked by `fleet_run` |
| `RecordIsTrue` | | `RecordInv` in every reachable state |
| `SilentAfterTheEnd` | | `NothingAfterTerminal`, checked by `fleet_ladder` |
| `StartsRecorded` | | `StartsAreRecorded`, checked by `fleet_ladder` |
| `AccountIsKept` | `FleetAccountProofs` | `AccountInv` in every reachable state |
| `NoTaskLost` | | `NoTaskIsLost`, checked by `fleet_run` |
| `BudgetKept` | | `BudgetIsKept`, checked by `fleet_run` |
| `SpentBudgetStopsDispatch` | | the action property `BudgetStopsDispatch`, checked by `fleet_run` |
| `LifeIsKept` | `FleetLifeProofs` | `LifeInv` in every reachable state |
| `LifeIsLived` | | the refinement `TasksLiveAsPromised`, checked by `fleet_ladder` |

`ReceiptTokens` is a sum over the ledger. What it is for every ledger cannot be proved, but how it
changes when a line is appended can: `Sums` describes any function that unfolds the sum, two such
functions agree (the least place where they differ would have to agree), and the sum of the
longer ledger is the sum of the shorter one and what the new line adds. The session ledger's fold is
treated the same way.

**Only model-checked.** Liveness (`EveryProcessEnds`, `EveryRunFinishes`) and the counterexamples:
fairness and ENABLED are out of reach of the prover. `TaskLife` promises nothing about progress, so the
refinement is proved in full.

## 4. The agent modules

### How state corresponds to the code

- **`Conversation`** is the message sequence and `agent/context.rs`, written as pure operators: `Size`
  is `estimate_tokens`, `Crowded` the trigger, `CompactStart`, `CanCompact` and `Compacted` the steps of
  `compact_history`. A message keeps its role and what tells it apart from the others: the run a user
  message opens, the calls of an assistant message, the call a tool message answers and how. Sizes
  are counted in units per message (`ToolWeight` more for tool output) instead of bytes. A compaction
  notice is a system message that `compaction_marker_stats` recognises; it has a role of its own here,
  and every other system message is a correction, as in the code.
- **`AgentTurn`** is `AgentLoop::run_with_persistent_history_and_cache`. `history` is the caller's
  transcript, `working` and `appended` are the two vectors of a run, `turns` and `measured` the locals
  `turns` and `latest_prompt_tokens`, `compacted` says that the receipt's compaction statistics are not
  empty, `cached` is the request that `preceding_cached_tokens` was measured on, `cancel` the flag of
  `ToolCtx`, `receipts` the receipt log.
- `pc` splits the loop at every read of the cancel flag and at every wait: `top` is the head of the
  loop, `request` the check in the client, `send` between that check and the provider, `wait` inside
  the request, `next` before each call, `tool` before a tool is allowed to run, `execute` inside it,
  `receipt` in `append_receipt`, `return` before the suffix is appended. The user's `Cancel` can fall
  between any two of them.

### Modelling decisions

- `FinalReply` merges the check after the answer with everything up to the receipt, and `Verdict`
  stands for both the match in the loop and `cancelled_response_outcome`, which decide alike.
- `append_receipt` reads the flag once more for the kind of the receipt; the append and its failure
  are the two outcomes of one step, because nothing else happens between them.
- `WorkerAwareClient` (`nh-tui/src/worker.rs`) wraps the provider in the TUI; it looks at the flag
  again before a request is sent. In chat and in the fleet nothing sets the flag, so the TUI's client
  is the one modelled. A request that fails after its retries is `ProviderFails`; the retries
  themselves are in `ProviderCall`.
- `Correct` stands for what a front end adds between runs (route and mode notices).
- Left out: totals of usage, retry and repair statistics, event lines, the prefix seal (an assertion
  about the first message, which `EveryCallIsAnswered` checks on every request), and the early errors
  of a task that is empty, too large or carries too many images, which no front end submits.
- `stop` is auxiliary: whether the current run was cancelled, and how many requests and tools have
  started since.

### Run and bounds

`agent_turn` asks whether requests stay well formed and honest, also as the body the Messages API gets
(`RequestsKeepAnthropicOrder` builds it with `WireFormat`), cancellation stops the work, evidence
and receipts tell the truth, and runs end. Two runs of two requests each start on an empty transcript
or on a resumed one of 13 messages with tool calls and a correction; with a window of 20 units and a
trigger at 14 the resumed transcript is compacted in the first request and, as it grows, again, also
within one run. The replies cover each kind of verdict, calls that can and cannot be executed in both
orders, normal and truncated replies that still carry calls, and measured usage above the trigger. One
cancellation and one failed receipt may fall anywhere. The sessions may stay idle, so deadlock is not
checked.

The other behaviours of the run are about one command such a run executes (`ExecShell`, section 6). The
loop sees nothing of it but its result, so `MCAgentTurn` keeps the two apart by a variable `subject`. A
command writes up to 2 chunks, of which 1 is kept, leaves one descendant, and one of its pipes may be
closed or redirected.

**Fairness.** The loop's thread keeps running, and the client's timeouts bound every request, so
`LoopStep` and `ProviderStep` are weakly fair. Nothing is assumed of `Execute`: a tool may wait for a
person's approval for ever. `RunsEnd` says so: every run ends unless a tool never returns.
Of a command, the calling thread and the clock go on (`Call`, `Tick`). Nothing is assumed of the command, its
descendants, the readers, the person who approves, or of a kill: `ApprovedCallReturns` holds because each
wait of the call has a deadline. One has none, and is assumed to end: the program the code starts to kill
the tree (`taskkill` or `kill`) is waited for with `status()` (`exec.rs:226`).

### Proofs

`TurnProofs` proves five of the properties `agent_turn` checks, for every reply, window, transcript,
number of runs, cancellations and failed receipts. Besides the ranges of the constants they rest on
`RestoredAssumption`: a restored transcript has its calls answered, opens with the constitution and holds no
notice of a compaction, as one does that was saved turn by turn (a turn is written whole, behind the last one,
and notices are only put into the copy that requests are made from). The inductive invariant is `TurnInv`:

- `TurnShape` gives the types and says where in a run there are calls left over and messages of the run.
- `Answering` is the strengthening `EveryCallIsAnswered` needs. Between a reply and its last tool result
  neither the transcript nor the request is answered. What holds throughout is that they would be if the
  answers still owed were appended (`Owed`, what `Skipped` would append after a cancellation): both are then
  `Clear`. A message of the transcript is clear if the results of its calls stand right behind it
  (`Settles`) and if, being a result, it has its call before it (`Belongs`). A compaction cuts the request in front of a
  user message, and what follows a user message in a clear sequence is clear again; so is what is left
  of the system messages.
- `CacheHolds` says that the request is the transcript until something is compacted, and that the evidence is
  about a prefix of it, which a compaction or a failure may not leave behind.
- `Stopping` ties the flag to what was asked for, and says that work begun late has passed its check
  before. `Passing` says that a verdict of "Pass" rests on an answer already in the transcript.

| Theorem (`TurnProofs`) | States, checked by `agent_turn` |
|---|---|
| `CallsAreAnswered` | `EveryCallIsAnswered` |
| `CacheEvidenceHolds` | `CachedDescribesPrefix` |
| `PassesAreReceipted` | `PassIsReceipted` |
| `CancellationStopsWork` | `CancelStopsWork` |
| `CompactionKeepsAccount` | `CompactionIsHonest` |

A message has no type the proofs could name, since what a notice says is open; `Talk(h)` says that
`h` is a sequence of something, and lemmas give appending, cutting and joining for it. `Corrections`
selects the system messages by counting them, which the prover can follow; a `SelectSeq` it cannot.

`CompactionKeepsAccount` needs one more invariant, `HonestInv`, which is inductive beside `TurnInv`. Neither the
transcript nor the messages of the run hold a notice, and throughout a run the request is `Honest` about the
transcript: what its notices count and its own dialogue add up to the transcript's, both have the same
corrections, and from the second-last user message on they are alike. The property itself is not inductive: it
speaks only of requests about to be sent, and says a difference, from which the next compaction could not go
on counting unless the numbers in all notices are natural (`Counted`). The step that matters is the compaction
of a request that was compacted before (`HonestCompacted`): `CompactionParts` cuts the request into its first
message, what is dropped and what is kept, and each part of `Honest` is shown to add up over the cut
(`ElidedJoined`, `DialogueJoined`, `CorrectionsJoined`, `LastTurnsAlike`). What a sum over the notices is
follows from the recursive function of `Elided` by minimal counterexamples, in place of the induction
theorems.

**Only model-checked.** `RequestsKeepAnthropicOrder` speaks of the body of the Messages API, which folds over
a whole transcript merge and split. It is about the order of the messages and the pairing of calls and results;
it does not say that a message has content, because one may not (section 7). `RunsEnd` is liveness.

## 5. The session modules

### How state corresponds to the code

- **`SessionLedger`** is `session_ledger.rs` over `jsonl.rs`, as pure operators: `Appended` is
  `append_locked_line`, `Leftover` what an append can leave that did not return success, `Readable` and
  `Resumable` are `read_session`; of its fold, `SavedHistory` is the history after the last line, and
  `SavedRoute` looks at the `Newest` line that names a route. A file is its lines and whether the last one
  ends in a newline.
- **`TuiSession`** extends `AgentTurn` and `SessionLedger`. `ui` is the part of `App` that decides what a
  key or an event does, `commands` and `events` are the two channels, `question` the reply channel of the
  approval the worker waits for, `mode` the `SharedMode`, `shutdown` the flag of `Worker`. On the worker
  thread `phase` says where `run` and `run_task` are, `agent` holds what `refresh_mode`,
  `replace_connection` and `SwitchRoute` change, `before` is `history_before`, `ledgerFailed` the field of
  that name; `history`, `cancel` and the rest of the turn are those of `AgentTurn`, whose actions run
  unchanged while `phase = "turn"`.
- The user acts in `UserStep`, the event half of `ui_loop` is `UiStep`, the worker thread `WorkerStep`. A
  key that interrupts is two actions, because `CancelTurn` sets the flag only after the approval has been
  answered, and the worker may read it in between.

### Modelling decisions

- `Begin`, `Cancel` and `Correct` of `AgentTurn` stand for its front end, so they are not steps here:
  `StartTurn`, `CancelTurn` and `WithContext` take their place and use the same `Open`.
- A notice says the route and the mode, or leaves one unsaid, as `mode_identity_constitution` does for
  Change mode; `LastSaid` is what the backward search of `last_mode` finds: the last message
  that says something of it.
- The two or three events that report the end of a turn are one, whose `saved` field says that no
  "persistence off" notice came before it.
- A session rule answers an approval of an identical command; whether a command is identical is a
  choice of `HandleApproval` once some rule exists.
- A slash command queued as a draft is what the user does after the turn, with the draft dropped.
- `Quit` stands for both ways out of `ui_loop`. The main thread waits 250 ms for the worker, so `Exit` may
  come at any point of the worker's way, also inside an append.
- An append that fails, and one that a crash or exit interrupts, leaves a member of `Leftovers`.
- Left out: usage and budget, effort and profiles, overlays and the composer's text, a worker thread
  that panics, and two processes on one session.

### Runs and bounds

| Run | Question | Bounds |
|---|---|---|
| `tui_session` | one turn at a time, one mode in a turn, every task comes back | 2 tasks, one switch, one interrupt, one failed receipt, replies with no call, a good one, a bad and a good one; one request a turn |
| `tui_resume` | what a resume restores, what the user was shown, and the route the model is told | 2 tasks, 2 switches, a crash, a failed append, any leftover, 2 processes |
| `tui_torn_tail` | can a session always be read back? No | 2 processes, a crash, any leftover |
| `tui_lost_cancel` | does an interrupt stop the turn? No | one interrupt |

Two tasks are needed for a draft queued behind a turn and for a second turn on a restored transcript;
two switches for a route that is left and returned to before the next task. Turns of several requests
are checked in `agent_turn`. In `tui_resume` a failed or interrupted append leaves nothing, its line, a part of it, or
all of it without the newline; saved transcripts are compared message by message. `TranscriptSurvives` is
about ledgers that can be read, because `tui_torn_tail` shows what a torn tail does to the others. The
two routes are interchangeable, so `tui_resume` uses their symmetry. The user may leave at any time, so deadlock
is not checked.

**Fairness.** The UI loop drains the events and the worker thread keeps running, and timeouts bound
connections, requests and tools, so `UiStep`, `WorkerStep` and `ProviderAnswers` are weakly fair. Nothing
is assumed of the user: `TurnsSettle` allows a question that is left open for ever.

### Proofs

`TuiProofs` proves every safety property the two passing runs check, for any number of tasks, switches,
interrupts, failed appends, crashes and processes, any catalog of routes and any window of the model. The
assumptions are those of `AgentTurn` and `TuiSessionAssumption`. The inductive invariant is `TuiInv`:

- `SessionShape` gives the types, which phase goes with which step of the loop, and what is left of a session
  without a process.
- `Flight` is why one turn runs at a time: a task that was sent is the last command, one that ended is the last
  event, and only one of the two, or a running turn, exists while the composer is closed. The counts of
  `OneTurnInFlight` alone would not say what a `Tail` of the channel takes away.
- `Heading` says that the route on the screen is the one the worker will have once it has taken the switches
  still in the channel. When a turn runs the channel is empty (`Flight`), so the two agree.
- `Told` follows what the transcript says of mode and route: during a turn both the request and the
  transcript say what the session has, between turns a change is owed (`routeChanged`). That compaction takes no
  notice back is the lemma `SaidCompacted`: corrections survive it.
- `OnRoutes` keeps every route in the catalog, in the ledger too, so that no record is mistaken for "none".
- `FileShape` says that what a resume would read out of the ledger makes sense, and would still do so
  if the record in a torn tail were lost: `Firm` are the lines that no later append can take back.
- `Saving` says that the ledger restores the worker's transcript as long as the worker appends, and `Showing` that
  a run is in the firm lines before its end is told. A complete record without its newline is destroyed by the next append, so
  `ShownIsSaved` is not inductive; with `Firm` it is.

| Theorem (`TuiProofs`) | States |
|---|---|
| `OneTurnAtATime` | `OneTurnInFlight`, checked by `tui_session` |
| `RequestsKeepMode` | `RequestsAgreeOnMode`, checked by `tui_session` |
| `RequestsKeepRoute` | `RequestsAgreeOnRoute`, checked by `tui_resume` |
| `NothingShownIsLost` | `TranscriptSurvives`, checked by `tui_resume` |
| `OnlyTornLinesSpoil` | `SessionStaysReadable`, which `tui_torn_tail` refutes, holds if no append leaves a torn line |

The steps of a turn are not proved again: the lemmas of `TurnProofs` say what each adds to the transcript, and
`TurnConverses` sums them up for the session.

**Only model-checked.** `TurnsSettle` (liveness), and the two counterexamples.

## 6. The services

### One instance for twelve components

`MCServices` extends the modules below and adds a variable `service`: a behaviour is about one of them,
the others stay as they start, so the state space of the run `services` is the sum of theirs and not the
product. The thirteenth, `ExecShell`, is checked in the same way beside the turn loop, by `agent_turn`: one
of its properties is temporal, and a temporal property costs time in every state of its run. The variables have
prefixes (`sv`, `ex`, `fi`, ...) and nothing else in common. Every property
is an invariant over one component or two that belong together, and TLC evaluates it in all of them.

| Module | The code | State and actions | Property |
|---|---|---|---|
| `McpServer` | `nh-mcp/src/lib.rs`, `fleet_tools.rs`, the lock and the failure paths of `nh-fleet/src/lib.rs` | the accept loop (`svPhase`), `active_runs`, the thread, directory, lock and ledger of each run, a resume by another process, ends that are recorded nowhere, runs that hang | `RunsAreAccounted`, `StartedRunsSettle` |
| `ExecShell` | `nh-tools/src/exec.rs` | where the call is, the shell and a descendant, who holds which pipe, kills that fail or come late, two reader threads, cancel and deadline | `CommandReportsTruth`, `ApprovedCallReturns` |
| `FileTools` | `file_publication.rs`, the two tools of `nh-tools/src/lib.rs` and `edit.rs` | one path, the stage, each system call of a publication, another program | `AnswersMatchFiles` |
| `PrivateState` | `private_state.rs`, `model_preference.rs` | the file, the stages, several processes, each dying anywhere | `SavedValueSurvives` |
| `CatalogMigration` | `cmd_catalog.rs`, `cmd_run/config.rs` | `catalog.toml`, its backup and stages, several migrations, an editor | `SavedValueSurvives` |
| `ProviderCall`, `Usage` | `wire/retry.rs`, the failures of the wire clients | the clock, attempts, delay, salvaged usage | `RetryObeysPolicy`, `UsageIsHonest` |
| `McpOAuth` | `mcp/client/oauth.rs`, `client.rs` | two callers of one client, the tokens in memory and vault, the refresh lock | `NothingIsSpentTwice` |
| `McpTools` | `mcp/adapter.rs`, `client.rs` | one remote tool: what the session collected, the approval, the revalidation, the call | `OnlyReviewedToolsAreCalled` |
| `McpSetup` | `cmd_mcp.rs`, `cmd_mcp/integration.rs`, `mcp/review.rs`, `mcp/config.rs` | the table, the saved review, the server's list, `connect`, `review` and `disable` as processes, edits by hand | `OnlyReviewedToolsAreCalled` |
| `ContextArchive` | `context_experiment.rs`, `observation.rs` | the history of a run and its compaction, the archive in use, the scrubbed copies that are retained and their quota, the clean-up and its failure | `ArchiveHoldsTheRest` |
| `Recorder` | `efficiency.rs`, the counters of `agent.rs` | the counters and streaks of a task, the turns and calls of its receipt, the log and who has it | `MeasurementsAccount` |
| `Chat`, `SessionLedger` | `cmd_chat.rs`, `cmd_chat/startup.rs`, `cmd_resume.rs` | the live session, its keys and scrubbers, its ledger; switches that fail, crash, quit, resume, listing | `ChatResumesFaithfully` |
| `Policies` over `Glob`, `Law`, `Vault`, `Routes`, `WireFormat`, `McpProtocol`, `ToolRepair`, `EditMatch` | `nh-law`, `nh-vault`, `nh-routes`, `cost.rs`, the wires, `request.rs`, `tool_repair.rs`, `edit.rs` | one question (`question`), answered by operators translated from the code | `RulesMeanWhatTheySay`, `RepositoriesOnlyTighten`, `ProtocolsAreFaithful`, `MoneyIsHonest` |

### Modelling decisions

- *Files beside other writers.* A step is one system call (stat, read, link, rename, unlink); the other
  program, the operator's editor and the other commands act between any two. A process that dies stays
  as it is, with its stages. A text is a number, so that "the very text that was read" can be told.
- *`fiRaced`.* `edit_file` cannot exclude a writer between its last look and the rename, as the comment
  in `file_publication.rs` concedes. The ghost remembers that this happened; everywhere else an edit
  replaces what it read. What it reads is the file it has open (`fiHeld`), which the other program may
  write in place, replace or remove.
- *Overlapping updates of a preference.* `psSaved` is the value linked last, and `psStale` remembers that
  an update removed a text it had not compared. As long as that has not happened, the value saved last is in
  the file or in a restore stage; when it has, only that a file or a stage is there (section 7).
- *Commands that wait for a person.* In `McpSetup` a command reads, shows, waits for the answer and
  publishes in separate steps. `suShown` remembers which definition was shown for which connection, and a
  fingerprint is what it fingerprints. The rules around a server (the repository's table, the law, the
  audience, the key, the names the tools are exposed under) differ from the permissive ones in at most one
  place per behaviour (`RulesApart`).
- *Time.* `ProviderCall` counts seconds; an attempt, and a delay that oversleeps, take a time from
  `AttemptTimes`. `u64::MAX` is `MaxCount`, so that usage overflows. In `ExecShell` a deadline is one step
  that may come at any time while something waits.
- *Children.* Looking at the shell (`try_wait`, which may fail) and acting on what was seen are separate
  steps: the shell may end by itself before the kill. A kill reaches the processes that are in the group at
  that moment; a descendant may have left it before. A process holds a pipe until it ends, closes it or
  redirects its output, so that a descendant can live on behind a complete output, or keep a pipe open after the
  shell has ended, which is why the drain of a pipe is bounded.
- *A run of the server* is its lock and what it writes last: `fleet_run` answers before its thread has
  the lock, and `Resumer` is `nh fleet resume` of the same id. Either may fail before it has the lock, fail to
  write `run_failed`, panic, or wait for a worker that did (`svLost`): then nothing settles the run, it is "starting" or
  "running" for ever, and one that hangs keeps its slot. `StartedRunsSettle` names exactly these runs as
  the exception.
- *The archive.* What is stored is the scrubbed copy: an argument is `plain`, holds a secret, or is `broken`
  (not JSON, replaced as a whole), and the text of an answer, scrubbed in the same way, is left out. `nh run`
  gives the client a history with one user message, which only grows, since `compact_history` needs three
  (`agent.rs:547`, `556`). `Openings` adds the history of a caller with earlier tasks, which is compacted
  while an archive made of it is in use.
- *The efficiency log.* The summary of a task takes its turns and calls from the receipt, which also counts
  the calls that never reach a tool (arguments that are not JSON, an unknown name, a cancelled run). No
  record has their number; the ghost `rcMissed` does, and with it the log adds up.
- *Decisions without state.* Globs are matched against the declarative `GlobMeans`; the law of three
  layers is compared with the law without the repository's; the two wires are given the same answer; a
  route is justified against all others; a cost against every split of the cache; a credential against
  its destination spelled in several ways. `Glob`, `Law`, `Vault`,
  `EditMatch` and `Policies` use recursive operators where the code loops over text, so they are for TLC only.
- *Arguments and edits* are texts, because what is asked of them is what becomes of the text. The arguments
  of a call are written as JSON and then with every combination of the faults the repair knows; the JSON
  parser is the set of texts that say what was meant. Two things came out of it worth knowing: a
  string nobody closed is not mended in a list in an object, since `closing_container_suffix_start` compares
  the closers from the wrong end (the call is then refused); and an edit counts occurrences that do not
  overlap, so that `a`, `a`, `a` on three lines has one place for the two lines `a`, `a` and the first is
  taken, although the tool asks for a text that identifies exactly one. `EditsHitTheirTarget` leaves out
  exactly this: a place that shares characters with the one replaced, of a text that overlaps itself (section 7).
- *Launchers in front of a command* are looked through up to a depth. `BlockedCommandsAreSeen` asks about
  commands on both sides of it: behind one launcher more, a command blocked by its name is not seen, as
  `command_token` gives up there and the rule does not match. A `*` in a rule about commands stands for
  anything but a slash.
- *Credentials.* The key store of the system is one of three answers (a value, none, an error). A URL is
  its scheme, host and port, each of which may be left out or written in another case; a secret in a text
  is a sequence of letters and the marker one letter. Key shapes are left out.
- *The chat* takes a turn as its outcome; its inside is `AgentTurn`. A route is priced or not, a turn is
  charged at the hour it ran. `WaysOut` are the places that redact: the console, the ledger and the tools.

### Runs and bounds

`services` asks all the questions of the table but those about a command, which `agent_turn` asks; `preference_clear` asks the one that the code fails.

| Component | Bounds |
|---|---|
| server | 2 runs, a cap of 1, one failed creation, lost record, panic or hang |
| file | 2 writes of the other program |
| private, migration | 3 commands, 2 at once, 1 death; 2 migrations, 2 edits, 1 death |
| provider | attempts that take 2 or 12 s, counters up to 5, three kinds of usage reports |
| oauth | 2 callers, 2 mishaps (expiry, rejection, failed refresh, failed vault) |
| tools, setup | 2 calls, 2 changed lists; 2 commands at once, 1 edit by hand, 1 changed list |
| archive | 4 turns, 2 archives, 1 large result, 1 mishap; a new history and one with two earlier tasks |
| recorder | 2 tasks, 2 calls each (with and without a tool), 7 lines of log, one other process |
| chat | 2 routes, 2 tasks, 2 switches, 2 launches, 1 fault |
| policy | words up to 4 letters; three routes; strings of up to 2 characters in a call; files of up to 3 lines; all layers, efforts, wires and destinations listed in `Policies` |

One actor more than the code's rule speaks about, and one failure, are enough for each race to occur: two
callers for one refresh, a second run for a cap of one, a third command after one that died. Two archives
are needed to replace one that no longer fits. Most components come to an end, so deadlock is not checked.

**Fairness.** `ServerFairness`: the handler, the thread of a run and a resume that has taken the lock keep
running, which the operating system provides; nobody has to call or to resume.

### Proofs

`LocalProofs` is about files and processes of this machine, `RemoteProofs` about whoever answers from
outside, `ChatProofs` about a chat and its ledger. Each component has an inductive invariant of its own,
because nothing is shared between them. The theorems are about the component's own specification, not about
`MCServices`; they hold for any bound on actors, mishaps and time, from `ExecAssumption`,
`CallerAssumption`, `ServerAssumption`, `ProviderAssumption`, `ChatAssumption` and `ArchiveAssumption` (the
ranges of the constants).

| Theorem | Module | States, checked by `services` (commands: `agent_turn`) | Invariant, and what it adds |
|---|---|---|---|
| `FilesAreAnswered` | `LocalProofs` | `AnswersMatchFiles` | `FileInv`: nothing is published before the last step, and what the last look found is there until the other program comes |
| `CommandsAreReported` | | `CommandReportsTruth` | `ExecInv`: what a kill has reached, what the wait has seen, and what a drained pipe can still receive |
| `SavedValuesSurvive` | | `SavedValueSurvives` | `PrivateInv`: a process that took the preference away has staged the very text it read, which is the one saved last unless somebody removed what it had not compared; `MigrationInv`: one migration goes ahead, behind its backup |
| `MeasurementsAddUp` | | `MeasurementsAccount` | `RecorderInv`: a record is in the log or counted as dropped for the start, each request, each plan and each call of a tool so far, and the receipt's calls are those and the missed ones; the repetition state is that of all calls of tools, recorded or not |
| `RequestsLackOnlyArchived` | | `ArchiveHoldsTheRest` | `ArchiveInv`: calls and results of the history are in order, also behind a compaction; the entry of the archive in use is the scrubbed copy of what was removed of a history with no call left to answer, which the history a request is made of continues; there are at most as many files as entries, plus one that ends all capturing |
| `NoTokenSpentTwice` | `RemoteProofs` | `NothingIsSpentTwice` | `OAuthInv`: the lock is held from the second look to the answer, the newest token is the one presented, requests are counted |
| `RunsAccounted` | | `RunsAreAccounted` | `ServerInv`: a call past the counter has a slot, which a run that hangs keeps, the run in hand has its directory and no thread before the spawn |
| `OnlyReviewedCalled` | | `OnlyReviewedToolsAreCalled` | `ToolsInv` and `SetupInv`: what any command has in hand to publish was shown to the operator |
| `RetriesObeyPolicy` | | `RetryObeysPolicy` | `RetryInv`: while it waits, another attempt is left |
| `UsageAddsUp` | | `UsageIsHonest` | `UsageInv`: what is salvaged so far is what the attempts so far were billed |
| `ChatsResume` | `ChatProofs` | `ChatResumesFaithfully` | `ChatInv`: what the lines of any readable ledger add up to, who saves, and what the model was told last |

For the archive, an exchange stays one while the history grows behind it (`GroupStays`), so what was put away
earlier is still made of whole exchanges that are not recent (`CandidateHolds`). What is left of a history is
defined by counting places, so that a request without its notice can be compared with the history it was made
of (`NoticeIsGiven`). That a handle is left (`HandleIsNew`) needs the number of files. Prices and sizes only
decide when something is put away; nothing proved depends on them.

`ChatResumesFaithfully` is not inductive, because a process that dies takes everything with it but the file. What
has to survive is a fact about the lines alone, `ChatFile`: the last context in the history they restore is that of
the last turn's route (`Tells`), and the summary of the listing, which never looks at what was said, has the route
and the number of turns that the full fold would find (`SumsUp`). Both hold only as long as the file is readable, and
a torn tail never joins the lines. `AllIsSaved` then says that a process whose appends succeed is what its file
restores, `QuitIsListed` that without a failed append the summary knows who quit. The history, the totals and the
summary are three folds over the lines. As in section 3, what each is for every file is not proved, but how
it changes by one line is: any two functions that unfold it agree on the common lines (`TotalsAgree`,
`SummariesAgree`), so a record behind the others adds its own part (`RecordIsFolded`). The lemmas about the
ledger that chat and TUI share are those of `TuiProofs`.

**Only model-checked.** The questions of `Policies` are about recursive operators over text, and have
no steps. `StartedRunsSettle` and `ApprovedCallReturns` are liveness.

## 7. What the checks found

1. *A torn line takes run_failed with it.* When an append fails half-way, the failure is reported by
   an append to the same file without `repair_uncommitted_tail`. The two records share a line, and
   every later read of the ledger, also by `resume`, refuses it.
2. *A crash while the tasks are being queued shrinks the run.* `resume` plans from the `task_queued`
   lines alone, so it finishes the run without the tasks that had not been queued, and reports it as
   finished.
3. *A panic in one of several workers hangs the run.* The job of a panicked worker stays in the active
   count, and the other workers keep the event channel open.
4. *A torn line takes the session with it.* A resume drops the torn last record when it reads, and then
   appends `resumed` behind it without a newline in between: the session cannot be read any more. The
   same happens to a complete record whose newline is missing.
5. *An early interrupt is lost.* `run_task` clears the cancel flag, so an interrupt between Enter and the
   moment the worker takes the task has no effect, and the screen, already "finishing", ignores further
   ones.
6. *Clearing a preference can switch the commands off.* A `nh model set` that dies or fails after its
   first stage leaves the stage beside the old preference, which stays good. `nh model clear` removes only
   the preference; then the stage makes every command without `--model` report an interrupted update.

**Seen while modelling, without a run of their own.** The modules contain each of these, and the properties
say in their comments what they leave out because of it.

- *Threads that outlive the lock.* When `spawn_workers` fails half-way (`nh-fleet/src/engine.rs:309`), the
  threads spawned before are detached and the lock is released while they still live. The tests at
  `nh-fleet/src/tests.rs:158` and `202` expect the lock to outlive the workers. The steps are `Launch`,
  `StartRun`, two `QueueTask`, `SpawnFails`, `RecordFailure`. The strays have no task and find their
  channel closed.
- *An update can take back another's.* Two `nh model set` both compare the same old text; one saves, and the
  other removes the saved value, which it never compared. If it then fails, its rollback restores the
  older value (`nh-cli/src/private_state.rs:101`). The test at `nh-cli/src/model_preference.rs:340` is named
  `concurrent_preference_is_not_overwritten_and_restore_stage_is_retained` and has the other writer come
  behind the removal. Choosing a model, too, looks at the file and lists the stages in two steps.
- *An edit of a text that overlaps itself.* `edit.rs:1` says "ambiguity instead of guessing" and the tool
  "must identify exactly one region in the file" (`nh-tools/src/lib.rs:1008`), but `match_indices`
  (`edit.rs:102`) counts occurrences that do not overlap: the lines `a`, `a` in the lines `a`, `a`, `a` are
  replaced at the first of two places.
- *A run nobody settles.* If `append_run_failed` fails as well, or the run fails before it has its lock
  (`nh-fleet/src/lib.rs:76`, `106`, `274`), nothing in the ledger says that an announced run ended.
- *A message without content.* A reply with neither text nor calls stays in the history, and `build_body`
  (`nh-core/src/wire/anthropic.rs:187`) sends it as an assistant message with `content: []`.
- *Summary and log.* A task's summary counts calls that no record of the log stands for
  (`nh-core/src/agent.rs:846`, `940`), so the two need not add up although nothing was dropped.
- *Tools that status calls ready and a session does not get.* `collect_adapters` leaves out tools whose
  exposed name is too long or taken (`nh-tools/src/mcp/adapter.rs:141`, `185`); `status` and `check` say
  nothing of it. The other way round, a vault entry with an odd name is invalid for `status`
  (`nh-cli/src/cmd_mcp/integration.rs:394`), while a session uses it.

A crash between a passing receipt and its `task_done` makes `resume` run the task again. The
promises above allow that (`TaskLife!Try` from a judged task), and the documentation's "idempotent
resume" is read as being about terminal events.

## 8. What is not modelled

- *Text*: JSON, TOML and SSE bytes, catalogs' and rules' wording, terminal escapes, key shapes,
  rendering and key handling of the TUI, prompts and printing. They keep no state that outlives a call.
- *Searches in text*: the nearest candidate that `edit.rs` suggests, the search tool and ranged reads look at
  one text and change nothing.
- *Reports*: the efficiency report and `nh why` fold stored records and print them.
- *Single calls into the system*: key store, path checks (`runtime_path.rs`), terminal probe, the browser
  login of OAuth.
- *Two processes on one session*: `nh resume` takes no lock, so a session that is open elsewhere gets both
  processes' turns. The code promises nothing about it; the models give a session one process at a time.
- *Cost of a run and effort or profile switches in the TUI*: prices and profiles are in `Routes`, but the
  TUI's budget display and its two commands for them are left out of `TuiSession`.
