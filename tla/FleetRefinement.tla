-------------------------- MODULE FleetRefinement --------------------------
(* A fleet run implements TaskLife: its ledger is read as the life of tasks. *)
EXTENDS FleetProperties

\* The lines that say where t is; a heartbeat says nothing new
News(l, t) == {i \in DOMAIN l : l[i].task = t /\ l[i].event # "task_heartbeat"}

StageAfter(e) ==
  CASE e.event = "task_queued"    -> "waiting"
    [] e.event = "task_started"   -> "running"
    [] e.event = "task_receipt"   -> IF Failing(e.outcome) THEN "failing" ELSE "passed"
    [] e.event = "task_escalated" -> "waiting"
    [] e.event = "task_done"      -> "done"
    [] e.event = "task_failed"    -> "failed"
    [] e.event = "task_gate"      -> "gated"

Stage(l, t) == IF News(l, t) = {} THEN "absent" ELSE StageAfter(l[Max(News(l, t))])

Finishes(l) == {i \in DOMAIN l : l[i].event = "run_finished"}
Report(l) ==
  IF Finishes(l) = {} THEN << >>
  ELSE LET c == l[Max(Finishes(l))].counts IN <<c.done, c.failed, c.gated>>

StageOf == [t \in Task |-> Stage(ledger, t)]
RungOf == [t \in Task |-> LadderTier(ledger, t)]
TriesOf == [t \in Task |-> LadderAttempt(ledger, t) - 1]
ReportOf == Report(ledger)

Life == INSTANCE TaskLife
          WITH stage <- StageOf, rung <- RungOf, tries <- TriesOf, report <- ReportOf

(* Whatever the threads, failures and resumes do, what the ledger says of  *)
(* the tasks is a life TaskLife allows: starts count up by one, a receipt  *)
(* answers the start before it, a tier is left after a failing second try, *)
(* a task ends once and is silent afterwards, and the report adds up.      *)
TasksLiveAsPromised == Life!Spec
============================================================================
