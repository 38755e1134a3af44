------------------------------ MODULE TaskLife ------------------------------
(***************************************************************************)
(* What a fleet run promises about its tasks, without threads, crashes or  *)
(* a file: every task is tried, at most twice in a row per tier unless an  *)
(* interruption repeats a try, climbs the ladder one tier at a time, ends  *)
(* exactly once, and the run reports the ends when no task is left open.   *)
(***************************************************************************)
EXTENDS Naturals, FiniteSets

CONSTANTS Task, Tiers

VARIABLES
  stage,    \* where each task is
  rung,     \* the ladder tier it is on
  tries,    \* attempts started on that tier
  report    \* <<done, failed, gated>> once the run has finished

vars == <<stage, rung, tries, report>>

Open == {"waiting", "running", "passed", "failing"}
Ended == {"done", "failed", "gated"}
NoReport == << >>

Init ==
  /\ stage = [t \in Task |-> "absent"]
  /\ rung = [t \in Task |-> 0]
  /\ tries = [t \in Task |-> 0]
  /\ report = NoReport

Move(t, to) == report = NoReport /\ stage' = [stage EXCEPT ![t] = to]

Admit(t) ==
  /\ stage[t] = "absent"
  /\ Move(t, "waiting")
  /\ UNCHANGED <<rung, tries, report>>

Try(t) ==
  /\ stage[t] \in Open
  /\ Move(t, "running")
  /\ tries' = [tries EXCEPT ![t] = @ + 1]
  /\ UNCHANGED <<rung, report>>

Judge(t) ==
  /\ stage[t] = "running"
  /\ \E verdict \in {"passed", "failing"} : Move(t, verdict)
  /\ UNCHANGED <<rung, tries, report>>

Climb(t) ==
  /\ stage[t] = "failing" /\ tries[t] >= 2 /\ rung[t] + 1 < Tiers
  /\ Move(t, "waiting")
  /\ rung' = [rung EXCEPT ![t] = @ + 1]
  /\ tries' = [tries EXCEPT ![t] = 0]
  /\ UNCHANGED report

Accept(t) ==
  /\ stage[t] = "passed"
  /\ Move(t, "done")
  /\ UNCHANGED <<rung, tries, report>>

Gate(t) ==
  /\ stage[t] = "failing" /\ tries[t] >= 2 /\ rung[t] + 1 = Tiers
  /\ Move(t, "gated")
  /\ UNCHANGED <<rung, tries, report>>

\* An error, the budget, or a failing receipt of a run without a ladder
GiveUp(t) ==
  /\ stage[t] \in Open
  /\ Move(t, "failed")
  /\ UNCHANGED <<rung, tries, report>>

In(end) == Cardinality({t \in Task : stage[t] = end})

Close ==
  /\ report = NoReport
  /\ \A t \in Task : stage[t] \notin Open
  /\ report' = <<In("done"), In("failed"), In("gated")>>
  /\ UNCHANGED <<stage, rung, tries>>

Next ==
  \/ \E t \in Task : \/ Admit(t) \/ Try(t) \/ Judge(t) \/ Climb(t)
                     \/ Accept(t) \/ Gate(t) \/ GiveUp(t)
  \/ Close

Spec == Init /\ [][Next]_vars
============================================================================
