------------------------------ MODULE Recorder ------------------------------
(***************************************************************************)
(* The local efficiency log (nh-core efficiency.rs): the records of one    *)
(* measured task after the other, in a log of bounded growth that other    *)
(* processes append to as well and that is never waited for.               *)
(*                                                                         *)
(* A record keeps what places it and what it counts; sizes, prices and     *)
(* times are left out, and so are writes that fail half-way, which are     *)
(* those of SessionLedger.                                                 *)
(***************************************************************************)
EXTENDS Integers, Sequences, FiniteSets, SequencesExt

CONSTANTS
  MaxLogLines,      \* max_bytes, in lines
  MaxMeasured,      \* bound: measured tasks
  MaxTaskCalls,     \* bound: requests, and tool calls, of a task
  MaxOthers         \* bound: times another process has the log

VARIABLES
  rcAt,         \* off, or what the task does: asking, sent or working
  rcTask,       \* task_id
  rcContexts,   \* the task plans its requests (ContextArchive), which is recorded
  rcState,      \* request_seq, tool_seq, dropped_records, first_error and the
                \* repetition state
  rcSlot,       \* the task in the ActiveEfficiencyRecorder
  rcLog,        \* the records of the last task in the file
  rcLines,      \* the length of the file
  rcOther,      \* another process has the log locked
  rcOthers,     \* how often one had
  rcReceipt,    \* the turns and the tool calls the agent counts for the receipt
  rcCalls,      \* ghost: the calls of the task that reached a tool
  rcMissed      \* ghost: how many reached none

recorderVars == << rcAt, rcTask, rcContexts, rcState, rcSlot, rcLog, rcLines, rcOther, rcOthers, rcReceipt, rcCalls, rcMissed >>

NoCall == "no call"
Calls == {"c1", "c2"}
NewState == [requests |-> 0, tools |-> 0, dropped |-> 0, warned |-> FALSE,
             previous |-> NoCall, same |-> 0, errors |-> 0]
NewReceipt == [turns |-> 0, calls |-> 0]

RecorderInit ==
  /\ rcAt = "off" /\ rcTask = 0 /\ rcContexts \in BOOLEAN
  /\ rcState = NewState /\ rcSlot = 0
  /\ rcLog = << >> /\ rcLines = 0
  /\ rcOther = FALSE /\ rcOthers = 0
  /\ rcReceipt = NewReceipt /\ rcCalls = << >> /\ rcMissed = 0

----------------------------------------------------------------------------
(* Records.                                                                *)

(* record, with append_locked_line_bounded *)
Records(log, state, record) ==
  IF rcOther \/ rcLines >= MaxLogLines
  THEN /\ rcState' = [state EXCEPT !.dropped = @ + 1, !.warned = TRUE]
       /\ rcLog' = log /\ UNCHANGED rcLines
  ELSE /\ rcLog' = Append(log, record) /\ rcLines' = rcLines + 1
       /\ rcState' = state

MUT_ErrorRun(run, error) == IF error THEN run + 1 ELSE run
ErrorRun(run, error) == IF error THEN run + 1 ELSE 0

(* repetition_measurement *)
Repeated(state, call, error) ==
  [state EXCEPT !.errors = ErrorRun(@, error),
                !.previous = call,
                !.same = IF state.previous = call THEN @ + 1 ELSE 1]

(* start_efficiency_measurement and activate: the slot is empty between tasks *)
StartTask ==
  /\ rcAt = "off" /\ rcTask < MaxMeasured
  /\ rcTask' = rcTask + 1
  /\ rcReceipt' = NewReceipt /\ rcCalls' = << >> /\ rcMissed' = 0
  /\ Records(<< >>, NewState, [task |-> rcTask + 1, kind |-> "start"])
  /\ \/ rcAt' = "asking" /\ rcSlot' = rcTask + 1
     \/ rcAt' = "off" /\ UNCHANGED rcSlot   \* no key: the task ends here
  /\ UNCHANGED << rcContexts, rcOther, rcOthers >>

(* MeasuredClient::complete, behind the planning of the request *)
SendRequest ==
  /\ rcAt = "asking" /\ rcState.requests < MaxTaskCalls
  /\ IF rcContexts
     THEN Records(rcLog, rcState, [task |-> rcSlot, kind |-> "context", seq |-> rcState.requests + 1])
     ELSE UNCHANGED << rcState, rcLog, rcLines >>
  /\ rcAt' = "sent" /\ rcReceipt' = [rcReceipt EXCEPT !.turns = @ + 1]
  /\ UNCHANGED << rcTask, rcContexts, rcSlot, rcOther, rcOthers, rcCalls, rcMissed >>

RequestDone ==
  /\ rcAt = "sent"
  /\ LET n == rcState.requests + 1 IN
       Records(rcLog, [rcState EXCEPT !.requests = n], [task |-> rcSlot, kind |-> "request", seq |-> n])
  /\ rcAt' = "working"
  /\ UNCHANGED << rcTask, rcContexts, rcSlot, rcOther, rcOthers, rcReceipt, rcCalls, rcMissed >>

(* MeasuredTool::execute_with_audit *)
MeasuredTool ==
  /\ rcAt = "working" /\ rcReceipt.calls < MaxTaskCalls
  /\ \E call \in Calls, error \in BOOLEAN :
       LET after == [Repeated(rcState, call, error) EXCEPT !.tools = @ + 1] IN
         /\ Records(rcLog, after, [task |-> rcSlot, kind |-> "tool", seq |-> after.tools,
                            same |-> after.same, errors |-> after.errors])
         /\ rcCalls' = Append(rcCalls, [call |-> call, error |-> error])
  /\ rcReceipt' = [rcReceipt EXCEPT !.calls = @ + 1]
  /\ rcAt' \in {"asking", "working"}
  /\ UNCHANGED << rcTask, rcContexts, rcSlot, rcOther, rcOthers, rcMissed >>

MUT_UnmeasuredCall ==
  /\ rcAt = "working" /\ rcMissed < MaxTaskCalls
  /\ rcMissed' = rcMissed + 1
  /\ rcAt' \in {"asking", "working"}
  /\ UNCHANGED << rcTask, rcContexts, rcState, rcSlot, rcLog, rcLines, rcOther, rcOthers, rcReceipt, rcCalls >>
(* A call that is counted and reaches no tool: its arguments are not JSON, *)
(* nobody has its name, or the run was cancelled (agent.rs, run_tool).     *)
UnmeasuredCall ==
  /\ rcAt = "working" /\ rcReceipt.calls < MaxTaskCalls
  /\ rcReceipt' = [rcReceipt EXCEPT !.calls = @ + 1] /\ rcMissed' = rcMissed + 1
  /\ rcAt' \in {"asking", "working"}
  /\ UNCHANGED << rcTask, rcContexts, rcState, rcSlot, rcLog, rcLines, rcOther, rcOthers, rcCalls >>

(* record_task, unless there is no receipt, and the end of the guard: the  *)
(* turns and calls are those of the receipt.                               *)
EndTask ==
  /\ rcAt \in {"asking", "working"}
  /\ \/ Records(rcLog, rcState, [task |-> rcSlot, kind |-> "task", turns |-> rcReceipt.turns,
                          tools |-> rcReceipt.calls, dropped |-> rcState.dropped])
     \/ UNCHANGED << rcState, rcLog, rcLines >>
  /\ rcAt' = "off" /\ rcSlot' = 0
  /\ UNCHANGED << rcTask, rcContexts, rcOther, rcOthers, rcReceipt, rcCalls, rcMissed >>

OtherLocks ==
  /\ ~rcOther /\ rcOthers < MaxOthers
  /\ rcOther' = TRUE /\ rcOthers' = rcOthers + 1
  /\ UNCHANGED << rcAt, rcTask, rcContexts, rcState, rcSlot, rcLog, rcLines, rcReceipt, rcCalls, rcMissed >>

OtherUnlocks ==
  /\ rcOther /\ rcOther' = FALSE
  /\ rcLines' \in {rcLines, rcLines + 1}
  /\ UNCHANGED << rcAt, rcTask, rcContexts, rcState, rcSlot, rcLog, rcOthers, rcReceipt, rcCalls, rcMissed >>

RecorderNext ==
  \/ StartTask \/ SendRequest \/ RequestDone \/ MeasuredTool \/ UnmeasuredCall \/ EndTask
  \/ OtherLocks \/ OtherUnlocks

RecorderSpec == RecorderInit /\ [][RecorderNext]_recorderVars

----------------------------------------------------------------------------
Before(position, kinds) == {i \in 1 .. position - 1 : rcLog[i].kind \in kinds}

\* How many of the first n calls in a row, up to the last, are like it
RunUpTo(n, alike(_)) ==
  n + 1 - CHOOSE first \in 1 .. n + 1 :
            /\ \A i \in first .. n : alike(rcCalls[i])
            /\ first > 1 => ~alike(rcCalls[first - 1])

(* "records_dropped_before_summary" (efficiency.rs): the turns and tool    *)
(* calls a task's summary takes from the receipt, less the calls that      *)
(* reached no tool, are the records the log has of the task and those it   *)
(* counts as dropped, however often another process was in the way or the  *)
(* log was full.  (No record tells how many calls reached no tool, so      *)
(* summary and log need not add up although nothing was dropped.)  Records *)
(* are in the order of what they measure; the repetitions and error        *)
(* streaks a tool record says are those of the calls that reached a tool,  *)
(* even if the records between were dropped; and a loss leaves a warning.  *)
MeasurementsAccount ==
  /\ \A p \in DOMAIN rcLog :
       LET record == rcLog[p] IN
         CASE record.kind = "task" ->
                (1 + record.turns * (IF rcContexts THEN 2 ELSE 1) + record.tools) - rcMissed
                  = Cardinality(Before(p, {"start", "context", "request", "tool"}))
                      + record.dropped
           [] record.kind \in {"request", "tool", "context"} ->
                \A i \in Before(p, {record.kind}) : rcLog[i].seq < record.seq
           [] OTHER -> p = 1
  /\ \A p \in DOMAIN rcLog : rcLog[p].task = rcTask
  /\ \A p \in DOMAIN rcLog :
       rcLog[p].kind = "tool" =>
         LET n == rcLog[p].seq IN
           /\ rcLog[p].same = RunUpTo(n, LAMBDA c : c.call = rcCalls[n].call)
           /\ rcLog[p].errors = RunUpTo(n, LAMBDA c : c.error)
  /\ rcState.warned <=> rcState.dropped > 0
=============================================================================
