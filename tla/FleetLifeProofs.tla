-------------------------- MODULE FleetLifeProofs --------------------------
(***************************************************************************)
(* The theorem that a fleet run implements TaskLife.  Every line a process *)
(* appends moves the task it is about as TaskLife allows, which takes an   *)
(* invariant of its own, LifeInv, on top of the three of FleetProofs and   *)
(* FleetAccountProofs.                                                     *)
(***************************************************************************)
EXTENDS FleetAccountProofs

----------------------------------------------------------------------------
(* What one line changes in the life of a task.                            *)

\* A number that is not below the members of a set is the greatest with them.
LEMMA NewGreatest ==
  ASSUME NEW S \in SUBSET Nat, NEW a \in Nat, \A n \in S : n <= a
  PROVE  Max(S \cup {a}) = a
<1> DEFINE T == S \cup {a}
<1>1. T \in SUBSET Nat /\ T # {} /\ \A n \in T : n <= a
  OBVIOUS
<1>2. a \in T
  OBVIOUS
<1>3. \A n \in T : n \in Nat
  BY <1>1
<1> HIDE DEF T
<1>4. Max(T) \in T /\ \A n \in T : n <= Max(T)
  BY <1>1, GreatestNatural
<1>5. Max(T) \in Nat /\ Max(T) <= a /\ a <= Max(T)
  BY <1>1, <1>2, <1>3, <1>4
<1>6. Max(T) = a
  BY <1>5
<1> QED BY <1>6 DEF T

\* The first line a fold of attempts looks behind: the last escalation.
LastClimb(l, t) == Max({0} \cup At(l, "task_escalated", t))

LEMMA ClimbAppend ==
  ASSUME NEW l \in Seq(LedgerEvent), NEW e \in LedgerEvent, NEW t
  PROVE  /\ LastClimb(l, t) \in 0 .. Len(l)
         /\ LastClimb(Append(l, e), t) =
              IF e.event = "task_escalated" /\ e.task = t THEN Len(l) + 1 ELSE LastClimb(l, t)
<1> DEFINE S == {0} \cup At(l, "task_escalated", t)
<1>1. Len(l) \in Nat /\ At(l, "task_escalated", t) \subseteq 1 .. Len(l)
  BY AtAppend, LenProperties
<1>2. S \in SUBSET Nat /\ S # {} /\ (\A n \in S : n <= Len(l)) /\ S \subseteq 0 .. Len(l)
  BY <1>1
<1>3. {0} \cup At(Append(l, e), "task_escalated", t) =
        IF e.event = "task_escalated" /\ e.task = t THEN S \cup {Len(l) + 1} ELSE S
  BY AtAppend
<1> HIDE DEF S
<1>4. Max(S) \in S
  BY <1>1, <1>2, GreatestNatural
<1>5. Max(S \cup {Len(l) + 1}) = Len(l) + 1
  <2>1. Len(l) + 1 \in Nat /\ \A n \in S : n <= Len(l) + 1
    BY <1>1, <1>2
  <2> QED BY <1>2, <2>1, NewGreatest
<1>6. LastClimb(l, t) = Max(S)
  BY DEF LastClimb, S
<1> QED BY <1>2, <1>3, <1>4, <1>5, <1>6 DEF LastClimb

\* A start with the next attempt moves the count on by one, an escalation
\* takes it back to the first, and no other line touches it.
LEMMA AttemptAppend ==
  ASSUME NEW l \in Seq(LedgerEvent), NEW e \in LedgerEvent, NEW t
  PROVE  /\ LadderAttempt(l, t) \in Nat \ {0}
         /\ e.task # t \/ e.event \notin {"task_started", "task_escalated"} =>
              LadderAttempt(Append(l, e), t) = LadderAttempt(l, t)
         /\ e.event = "task_escalated" /\ e.task = t => LadderAttempt(Append(l, e), t) = 1
         /\ e.event = "task_started" /\ e.task = t /\ e.attempt = LadderAttempt(l, t) =>
              LadderAttempt(Append(l, e), t) = LadderAttempt(l, t) + 1
<1> DEFINE n == Len(l)
           h == Append(l, e)
           from == LastClimb(l, t)
           behind(q, f) == {i \in At(q, "task_started", t) : i > f}
<1>1. /\ h \in Seq(LedgerEvent) /\ n \in Nat
      /\ \A i \in 1 .. n : h[i] = l[i]
      /\ h[n + 1] = e
  BY AppendedLine
<1>2. /\ At(l, "task_started", t) \subseteq 1 .. n
      /\ At(h, "task_started", t) =
           IF e.event = "task_started" /\ e.task = t
           THEN At(l, "task_started", t) \cup {n + 1} ELSE At(l, "task_started", t)
  BY AtAppend
<1>3. from \in 0 .. n /\ from \in Nat /\ n + 1 > from
  BY <1>1, ClimbAppend
<1>4. /\ LastClimb(h, t) = IF e.event = "task_escalated" /\ e.task = t THEN n + 1 ELSE from
  BY ClimbAppend
<1>5. /\ LadderAttempt(l, t) = LastAttempt(l, t, from) + 1
      /\ LadderAttempt(h, t) = LastAttempt(h, t, LastClimb(h, t)) + 1
  BY DEF LadderAttempt, LastClimb
<1>6. /\ \A f : LastAttempt(l, t, f) = Max(Attempts(l, t, f))
      /\ \A f : LastAttempt(h, t, f) = Max(Attempts(h, t, f))
  BY DEF LastAttempt, Attempts
<1>7. /\ Attempts(l, t, from) = {0} \cup {l[i].attempt : i \in behind(l, from)}
      /\ Attempts(h, t, from) = {0} \cup {h[i].attempt : i \in behind(h, from)}
      /\ Attempts(h, t, n + 1) = {0} \cup {h[i].attempt : i \in behind(h, n + 1)}
  BY DEF Attempts
<1>8. LastAttempt(l, t, from) \in Nat /\ \A a \in Attempts(l, t, from) : a \in Nat /\ a <= LastAttempt(l, t, from)
  BY <1>3, LargestAttempt
<1>9. {h[i].attempt : i \in behind(l, from)} = {l[i].attempt : i \in behind(l, from)}
  BY <1>1, <1>2
<1>10. ASSUME e.event # "task_started" \/ e.task # t
       PROVE  Attempts(h, t, from) = Attempts(l, t, from)
  BY <1>2, <1>7, <1>9, <1>10
<1>11. ASSUME e.event = "task_started", e.task = t
       PROVE  Attempts(h, t, from) = Attempts(l, t, from) \cup {e.attempt}
  <2>1. behind(h, from) = behind(l, from) \cup {n + 1}
    BY <1>2, <1>3, <1>11
  <2>2. {h[i].attempt : i \in behind(h, from)} = {h[i].attempt : i \in behind(l, from)} \cup {e.attempt}
    BY <1>1, <2>1
  <2> QED BY <1>7, <1>9, <2>2
<1>12. ASSUME e.event = "task_escalated"
       PROVE  Attempts(h, t, n + 1) = {0}
  BY <1>1, <1>2, <1>7, <1>12
<1> HIDE DEF n, h, from, behind
<1>13. LadderAttempt(l, t) \in Nat \ {0}
  BY <1>5, <1>8
<1>14. ASSUME e.task # t \/ e.event \notin {"task_started", "task_escalated"}
       PROVE  LadderAttempt(h, t) = LadderAttempt(l, t)
  BY <1>4, <1>5, <1>6, <1>10, <1>14
<1>15. ASSUME e.event = "task_escalated", e.task = t
       PROVE  LadderAttempt(h, t) = 1
  <2>1. Max({} \cup {0}) = 0
    BY NewGreatest
  <2>2. Max({0}) = 0
    BY <2>1
  <2>3. LastAttempt(h, t, n + 1) = Max({0})
    BY <1>6, <1>12, <1>15
  <2>4. LastClimb(h, t) = n + 1
    BY <1>4, <1>15
  <2> QED BY <1>5, <2>2, <2>3, <2>4
<1>16. ASSUME e.event = "task_started", e.task = t, e.attempt = LadderAttempt(l, t)
       PROVE  LadderAttempt(h, t) = LadderAttempt(l, t) + 1
  <2>1. e.attempt \in Nat /\ Attempts(l, t, from) \in SUBSET Nat
    BY <1>8, <1>13, <1>16
  <2>2. \A a \in Attempts(l, t, from) : a <= e.attempt
    BY <1>5, <1>8, <1>16
  <2>3. Max(Attempts(h, t, from)) = e.attempt
    BY <1>11, <1>16, <2>1, <2>2, NewGreatest
  <2>4. LastClimb(h, t) = from
    BY <1>4, <1>16
  <2> QED BY <1>5, <1>6, <1>16, <2>3, <2>4
<1> QED BY <1>13, <1>14, <1>15, <1>16 DEF h

\* The last line that says where a task is says it; a heartbeat and the lines
\* of other tasks and of the run leave it where it was.
LEMMA StageAppend ==
  ASSUME NEW l \in Seq(LedgerEvent), NEW e \in LedgerEvent, NEW t
  PROVE  /\ e.task # t \/ e.event = "task_heartbeat" =>
              /\ Stage(Append(l, e), t) = Stage(l, t)
              /\ News(Append(l, e), t) = News(l, t)
         /\ e.task = t /\ e.event # "task_heartbeat" =>
              /\ Stage(Append(l, e), t) = StageAfter(e)
              /\ News(Append(l, e), t) # {}
<1> DEFINE n == Len(l)
           h == Append(l, e)
           S == News(l, t)
<1>1. /\ DOMAIN l = 1 .. n /\ DOMAIN h = 1 .. n + 1 /\ n \in Nat
      /\ \A i \in 1 .. n : h[i] = l[i]
      /\ h[n + 1] = e
  BY AppendedLine
<1>2. S \subseteq 1 .. n
  BY <1>1 DEF News
<1>3. News(h, t) = IF e.task = t /\ e.event # "task_heartbeat" THEN S \cup {n + 1} ELSE S
  BY <1>1 DEF News
<1> HIDE DEF n, h, S
<1>4. ASSUME S # {}
      PROVE  Max(S) \in 1 .. n
  <2>1. S \in SUBSET Nat /\ \A i \in S : i <= n
    BY <1>1, <1>2
  <2> QED BY <1>1, <1>2, <1>4, <2>1, GreatestNatural
<1>5. Max(S \cup {n + 1}) = n + 1
  <2>1. S \in SUBSET Nat /\ n + 1 \in Nat /\ \A i \in S : i <= n + 1
    BY <1>1, <1>2
  <2> QED BY <2>1, NewGreatest
<1>6. /\ Stage(l, t) = IF S = {} THEN "absent" ELSE StageAfter(l[Max(S)])
      /\ Stage(h, t) = IF News(h, t) = {} THEN "absent" ELSE StageAfter(h[Max(News(h, t))])
  BY DEF Stage, S
<1>7. ASSUME e.task # t \/ e.event = "task_heartbeat"
      PROVE  Stage(h, t) = Stage(l, t) /\ News(h, t) = S
  <2>1. News(h, t) = S
    BY <1>3, <1>7
  <2>2. S # {} => h[Max(S)] = l[Max(S)]
    BY <1>1, <1>4
  <2> QED BY <1>6, <2>1, <2>2
<1>8. ASSUME e.task = t, e.event # "task_heartbeat"
      PROVE  Stage(h, t) = StageAfter(e) /\ News(h, t) # {}
  <2>1. News(h, t) = S \cup {n + 1}
    BY <1>3, <1>8
  <2> QED BY <1>1, <1>5, <1>6, <2>1
<1> QED BY <1>7, <1>8 DEF h, S

\* What the line a stage is read from is.
LEMMA LastNews ==
  ASSUME NEW l \in Seq(LedgerEvent), NEW t \in Task, News(l, t) # {}
  PROVE  /\ Max(News(l, t)) \in DOMAIN l
         /\ \A i \in News(l, t) : i <= Max(News(l, t))
         /\ l[Max(News(l, t))] \in TaskEvent
         /\ l[Max(News(l, t))].task = t
         /\ l[Max(News(l, t))].event \in TaskKinds \ {"task_heartbeat"}
         /\ Stage(l, t) = StageAfter(l[Max(News(l, t))])
<1> DEFINE S == News(l, t)
           i == Max(S)
<1>1. Len(l) \in Nat /\ DOMAIN l = 1 .. Len(l) /\ S \subseteq 1 .. Len(l)
  BY LenProperties DEF News
<1>2. S \in SUBSET Nat /\ \A n \in S : n <= Len(l)
  BY <1>1
<1>3. Stage(l, t) = StageAfter(l[i])
  BY DEF Stage
<1> HIDE DEF S
<1>4. i \in S /\ \A n \in S : n <= i
  BY <1>1, <1>2, GreatestNatural DEF S
<1> HIDE DEF i
<1>5. l[i].task = t /\ l[i].event # "task_heartbeat" /\ l[i] \in LedgerEvent
  BY <1>1, <1>4 DEF S, News
<1>6. l[i] \in TaskEvent
  <2>1. \A d \in RunEvent : d.task = NoTask
    BY DEF RunEvent
  <2>2. t # NoTask
    BY LedgerAssumption DEF Task, NoTask
  <2> QED BY <1>5, <2>1, <2>2 DEF LedgerEvent
<1>7. l[i].event \in TaskKinds
  BY <1>6 DEF TaskEvent
<1> QED BY <1>1, <1>3, <1>4, <1>5, <1>6, <1>7 DEF i, S

\* A task that was queued and is not settled is open.
LEMMA OpenStage ==
  ASSUME NEW l \in Seq(LedgerEvent), NEW t \in Task \ Settled(l), News(l, t) # {}
  PROVE  Stage(l, t) \in {"waiting", "running", "passed", "failing"}
<1> DEFINE d == l[Max(News(l, t))]
<1>1. /\ Max(News(l, t)) \in DOMAIN l /\ d.task = t /\ Stage(l, t) = StageAfter(d)
      /\ d.event \in TaskKinds \ {"task_heartbeat"}
  BY LastNews
<1>2. d.event \notin TerminalKinds
  BY <1>1 DEF Settled, At
<1> HIDE DEF d
<1>3. d.event \in {"task_queued", "task_started", "task_receipt", "task_escalated"}
  BY <1>1, <1>2 DEF TaskKinds, TerminalKinds
<1> QED BY <1>1, <1>3 DEF StageAfter

\* Nothing follows the end of a task.
Silent(l) ==
  \A i, j \in DOMAIN l : i < j /\ l[i].event \in TerminalKinds => l[j].task # l[i].task

\* A settled task is where its terminal event put it.
LEMMA ClosedStage ==
  ASSUME NEW l \in Seq(LedgerEvent), Silent(l),
         NEW i \in DOMAIN l, l[i].event \in TerminalKinds
  PROVE  l[i].task \in Task /\ Stage(l, l[i].task) = StageAfter(l[i])
<1> DEFINE t == l[i].task
           j == Max(News(l, t))
<1>1. Len(l) \in Nat /\ DOMAIN l = 1 .. Len(l) /\ l[i] \in LedgerEvent
  BY LenProperties
<1>2. t \in Task
  <2>1. \A d \in RunEvent : d.event \notin TerminalKinds
    BY DEF RunEvent, RunKinds, TerminalKinds
  <2>2. \A d \in TaskEvent : d.task \in Task
    BY DEF TaskEvent
  <2> QED BY <1>1, <2>1, <2>2 DEF LedgerEvent
<1>3. i \in News(l, t)
  BY DEF News, TerminalKinds
<1>4. j \in DOMAIN l /\ i <= j /\ l[j].task = t /\ Stage(l, t) = StageAfter(l[j])
  BY <1>2, <1>3, LastNews
<1>5. j = i
  <2>1. ~ (i < j)
    BY <1>4 DEF Silent
  <2> QED BY <1>1, <1>4, <2>1
<1> QED BY <1>2, <1>4, <1>5

\* The tasks that ended one way are as many as the lines that say so.
LEMMA EndsCounted ==
  ASSUME NEW l \in Seq(LedgerEvent), Silent(l), SingleTerminal(l),
         NEW kind \in TerminalKinds, NEW end,
         \A d \in TaskEvent : d.event # "task_heartbeat" => (StageAfter(d) = end <=> d.event = kind),
         end # "absent"
  PROVE  Cardinality({t \in Task : Stage(l, t) = end}) = CountOf(l, kind)
<1> DEFINE S == {i \in DOMAIN l : l[i].event = kind}
           T == {t \in Task : Stage(l, t) = end}
           f == [i \in S |-> l[i].task]
<1>1. Len(l) \in Nat /\ DOMAIN l = 1 .. Len(l)
  BY LenProperties
<1>2. ASSUME NEW i \in S
      PROVE  l[i].task \in T /\ l[i].event \in TerminalKinds
  <2>1. i \in DOMAIN l /\ l[i].event \in TerminalKinds /\ l[i].event = kind
    OBVIOUS
  <2>2. l[i].task \in Task /\ Stage(l, l[i].task) = StageAfter(l[i])
    BY <2>1, ClosedStage
  <2>3. l[i] \in TaskEvent /\ l[i].event # "task_heartbeat"
    <3>1. l[i] \in LedgerEvent
      BY <1>1, <2>1
    <3>2. \A d \in RunEvent : d.event \notin TerminalKinds
      BY DEF RunEvent, RunKinds, TerminalKinds
    <3> QED BY <2>1, <3>1, <3>2 DEF LedgerEvent, TerminalKinds
  <2> QED BY <2>1, <2>2, <2>3
<1>3. ASSUME NEW t \in T
      PROVE  \E i \in S : l[i].task = t
  <2> DEFINE i == Max(News(l, t))
  <2>1. t \in Task /\ Stage(l, t) = end
    OBVIOUS
  <2>2. News(l, t) # {}
    BY <2>1 DEF Stage
  <2>3. /\ i \in DOMAIN l /\ l[i] \in TaskEvent /\ l[i].task = t
        /\ l[i].event # "task_heartbeat" /\ Stage(l, t) = StageAfter(l[i])
    BY <2>1, <2>2, LastNews
  <2>4. l[i].event = kind
    BY <2>1, <2>3
  <2> QED BY <2>3, <2>4
<1>4. \A i, j \in S : l[i].task = l[j].task => i = j
  BY <1>2 DEF SingleTerminal
<1>5. f \in [S -> T]
  BY <1>2
<1>6. \A i, j \in S : f[i] = f[j] => i = j
  BY <1>4
<1>7. \A t \in T : \E i \in S : f[i] = t
  BY <1>3
<1>8. IsFiniteSet(S)
  <2>1. IsFiniteSet(1 .. Len(l)) /\ S \subseteq 1 .. Len(l)
    BY <1>1, FS_Interval
  <2> QED BY <2>1, FS_Subset
<1> HIDE DEF f, S, T
<1>9. f \in Bijection(S, T)
  BY <1>5, <1>6, <1>7, Fun_IsBij
<1>10. ExistsBijection(S, T)
  BY <1>9 DEF ExistsBijection
<1>11. Cardinality(S) = Cardinality(T)
  BY <1>8, <1>10, FS_Bijection
<1> QED BY <1>11 DEF S, T, CountOf

\* Only the line that finishes a run makes its report.
LEMMA ReportAppend ==
  ASSUME NEW l \in Seq(LedgerEvent), NEW e \in LedgerEvent
  PROVE  /\ e.event # "run_finished" =>
              Report(Append(l, e)) = Report(l) /\ Finishes(Append(l, e)) = Finishes(l)
         /\ e.event = "run_finished" /\ Finishes(l) = {} =>
              Report(Append(l, e)) = <<e.counts.done, e.counts.failed, e.counts.gated>>
<1> DEFINE n == Len(l)
           h == Append(l, e)
           S == Finishes(l)
<1>1. /\ DOMAIN l = 1 .. n /\ DOMAIN h = 1 .. n + 1 /\ n \in Nat
      /\ \A i \in 1 .. n : h[i] = l[i]
      /\ h[n + 1] = e
  BY AppendedLine
<1>2. S \subseteq 1 .. n
  BY <1>1 DEF Finishes
<1>3. Finishes(h) = IF e.event = "run_finished" THEN S \cup {n + 1} ELSE S
  BY <1>1 DEF Finishes
<1> HIDE DEF n, h, S
<1>4. ASSUME e.event # "run_finished"
      PROVE  Report(h) = Report(l) /\ Finishes(h) = S
  <2>1. Finishes(h) = S
    BY <1>3, <1>4
  <2>2. ASSUME S # {}
        PROVE  h[Max(S)] = l[Max(S)]
    <3>1. S \in SUBSET Nat /\ \A i \in S : i <= n
      BY <1>1, <1>2
    <3>2. Max(S) \in 1 .. n
      BY <1>1, <1>2, <2>2, <3>1, GreatestNatural
    <3> QED BY <1>1, <3>2
  <2> QED BY <2>1, <2>2 DEF Report, S
<1>5. ASSUME e.event = "run_finished", S = {}
      PROVE  Report(h) = <<e.counts.done, e.counts.failed, e.counts.gated>>
  <2>1. Finishes(h) = {n + 1}
    BY <1>3, <1>5
  <2>2. Max({} \cup {n + 1}) = n + 1
    <3>1. n + 1 \in Nat
      BY <1>1
    <3> QED BY <3>1, NewGreatest
  <2>3. Max(Finishes(h)) = n + 1
    BY <2>1, <2>2
  <2> QED BY <1>1, <2>1, <2>3 DEF Report
<1> QED BY <1>4, <1>5 DEF h, S

----------------------------------------------------------------------------
(* The line a step writes.                                                 *)

\* A step writes nothing, the line the coordinator was about to append, or the
\* unreadable line that torn bytes make of it.
LEMMA OneLine ==
  ASSUME Inv, Next
  PROVE  \/ ledger' = ledger
         \/ \E d \in LedgerEvent :
              /\ ledger' = Append(ledger, d)
              /\ d \in Pending \/ (torn /\ d.event = "corrupt" /\ d.task = NoTask)
<1>1. CASE ledger' = ledger
  BY <1>1
<1>2. CASE \E e \in Pending : Written(e)
  <2>1. PICK e \in Pending : Written(e)
    BY <1>2
  <2> QED BY <2>1, WrittenLine
<1> QED BY <1>1, <1>2, LedgerGrows

\* Which step of the coordinator a line belongs to.
LEMMA PendingKinds ==
  ASSUME Inv, NEW e \in Pending
  PROVE  /\ e.event = "task_queued" => pc = "queue" /\ e.task = scan
         /\ e.event = "task_heartbeat" =>
              /\ pc = "loop" /\ events # << >> /\ e.task = Head(events).task
              /\ Head(events).kind = "heartbeat"
         /\ e.event = "task_done" =>
              pc = "decide" /\ Decided = "done" /\ e.task = deciding.task
         /\ e.event = "task_gate" =>
              pc = "decide" /\ Decided = "gate" /\ e.task = deciding.task
         /\ e.event = "run_started" => pc = "launch"
         /\ e.event = "run_failed" => pc = "fail"
         /\ e.event = "run_finished" => pc = "finish" /\ e = RunFinished(counts)
         /\ pc = "fail" => e.event = "run_failed" /\ e.task = NoTask
         /\ e.event \in RunKinds => e.task = NoTask
         /\ e.event # "corrupt"
<1> DEFINE m == Head(events)
<1>1. \A kind, t : OnTask(kind, t).event = kind /\ OnTask(kind, t).task = t
  BY DEF OnTask
<1>2. \A kind : OnRun(kind).event = kind /\ OnRun(kind).task = NoTask
  BY DEF OnRun
<1>3. \A t, n, k, o, j :
        /\ TaskStarted(t, n, k).event = "task_started"
        /\ TaskReceipt(t, n, o, j).event = "task_receipt"
        /\ TaskEscalated(t, n).event = "task_escalated"
        /\ TaskDone(t, o).event = "task_done" /\ TaskDone(t, o).task = t
  BY DEF TaskStarted, TaskReceipt, TaskEscalated, TaskDone, OnTask
<1>4. RunFinished(counts).event = "run_finished" /\ RunFinished(counts).task = NoTask
  BY DEF RunFinished, OnRun
<1>5. \/ pc = "launch" /\ e = OnRun("run_started")
      \/ pc = "queue" /\ e = OnTask("task_queued", scan)
      \/ pc = "halt" /\ e = OnTask("task_failed", Head(remaining))
      \/ /\ pc = "loop" /\ events # << >>
         /\ \/ m.kind = "started" /\ e = TaskStarted(m.task, tier[m.task], attempt[m.task])
            \/ m.kind = "heartbeat" /\ e = OnTask("task_heartbeat", m.task)
            \/ e = OnTask("task_failed", m.task)
            \/ e = TaskReceipt(m.task, attempt[m.task], m.outcome, m.tokens)
      \/ /\ pc = "decide"
         /\ \/ Decided = "done" /\ e = TaskDone(deciding.task, deciding.outcome)
            \/ e = TaskEscalated(deciding.task, tier[deciding.task] + 1)
            \/ Decided = "gate" /\ e = OnTask("task_gate", deciding.task)
            \/ e = OnTask("task_failed", deciding.task)
      \/ pc = "finish" /\ e = RunFinished(counts)
      \/ pc = "fail" /\ e = OnRun("run_failed")
  BY DEF Pending
<1> HIDE DEF m
<1> QED BY <1>1, <1>2, <1>3, <1>4, <1>5 DEF m, RunKinds

\* The tiers of a serving coordinator are below the top when it escalates.
LEMMA OnLadderStep ==
  ASSUME Inv, Offers, OnTier, OnLadder, Next
  PROVE  OnLadder'
<1> SUFFICES ASSUME Ladder, NEW t \in Task
             PROVE  LadderTier(ledger', t) < Tiers
  BY DEF OnLadder, Ladder
<1>1. LadderTier(ledger, t) < Tiers
  BY DEF OnLadder
<1>2. CASE ledger' = ledger
  BY <1>1, <1>2
<1>3. CASE \E d \in LedgerEvent :
             /\ ledger' = Append(ledger, d)
             /\ d \in Pending \/ (torn /\ d.event = "corrupt" /\ d.task = NoTask)
  <2>1. PICK d \in LedgerEvent :
               /\ ledger' = Append(ledger, d)
               /\ d \in Pending \/ (torn /\ d.event = "corrupt" /\ d.task = NoTask)
    BY <1>3
  <2>2. /\ LadderTier(ledger, t) \in Nat
        /\ LadderTier(ledger', t) = IF d.event = "task_escalated" /\ d.task = t
                                    THEN LadderTier(ledger, t) + 1 ELSE LadderTier(ledger, t)
    BY <2>1, Ranges, TierAppend
  <2>3. CASE d.event = "task_escalated" /\ d.task = t
    <3>1. pc = "decide" /\ Decided = "escalate" /\ t = deciding.task
      BY <2>1, <2>3, PendingAbout
    <3>2. tier[t] + 1 < Tiers
      BY <3>1 DEF Decided, NextStep
    <3>3. tier[t] = LadderTier(ledger, t)
      BY <3>1 DEF OnTier, Serving
    <3> QED BY <2>2, <2>3, <3>2, <3>3
  <2> QED BY <1>1, <2>2, <2>3
<1> QED BY <1>2, <1>3, OneLine

\* A heartbeat is about a task the ledger has mentioned.
LEMMA IntroducedStep ==
  ASSUME Inv, Covered, Introduced, Next
  PROVE  Introduced'
<1>1. CASE ledger' = ledger
  BY <1>1 DEF Introduced
<1>2. CASE \E d \in LedgerEvent :
             /\ ledger' = Append(ledger, d)
             /\ d \in Pending \/ (torn /\ d.event = "corrupt" /\ d.task = NoTask)
  <2>1. PICK d \in LedgerEvent :
               /\ ledger' = Append(ledger, d)
               /\ d \in Pending \/ (torn /\ d.event = "corrupt" /\ d.task = NoTask)
    BY <1>2
  <2>2. Mentioned(ledger') = Mentioned(ledger) \cup ({d.task} \cap Task)
    BY <2>1, Ranges, MentionAppend
  <2>3. d.event = "task_heartbeat" => d.task \in Mentioned(ledger)
    <3>1. ASSUME d.event = "task_heartbeat"
          PROVE  d.task \in Beating(events)
      <4>1. events # << >> /\ d.task = Head(events).task /\ Head(events).kind = "heartbeat"
        BY <2>1, <3>1, PendingKinds
      <4> QED BY <4>1, Ranges, TailOfBeats
    <3> QED BY <3>1 DEF Covered
  <2>4. \A t \in Mentioned(ledger) : News(ledger, t) # {}
    BY DEF Introduced
  <2>5. ASSUME NEW t \in Mentioned(ledger')
        PROVE  News(ledger', t) # {}
    <3>1. /\ d.task # t \/ d.event = "task_heartbeat" => News(ledger', t) = News(ledger, t)
          /\ d.task = t /\ d.event # "task_heartbeat" => News(ledger', t) # {}
      BY <2>1, Ranges, StageAppend
    <3>2. d.task # t => t \in Mentioned(ledger)
      BY <2>2, <2>5
    <3> QED BY <2>3, <2>4, <3>1, <3>2
  <2> QED BY <2>5 DEF Introduced
<1> QED BY <1>1, <1>2, OneLine

----------------------------------------------------------------------------
(* The counters, and the end of the loop.                                  *)

\* A terminal line counts one more, any other line counts nothing.
LEMMA CountAppend ==
  ASSUME NEW l \in Seq(LedgerEvent), NEW e \in LedgerEvent, NEW kind
  PROVE  /\ CountOf(l, kind) \in Nat
         /\ CountOf(Append(l, e), kind) =
              IF e.event = kind THEN CountOf(l, kind) + 1 ELSE CountOf(l, kind)
         /\ (\A i \in DOMAIN l : l[i].event # kind) => CountOf(l, kind) = 0
<1> DEFINE S == {i \in DOMAIN l : l[i].event = kind}
           h == Append(l, e)
<1>1. /\ DOMAIN l = 1 .. Len(l) /\ DOMAIN h = 1 .. Len(l) + 1 /\ Len(l) \in Nat
      /\ \A i \in 1 .. Len(l) : h[i] = l[i]
      /\ h[Len(l) + 1] = e
  BY AppendedLine
<1>2. {i \in DOMAIN h : h[i].event = kind} = IF e.event = kind THEN S \cup {Len(l) + 1} ELSE S
  BY <1>1
<1>3. S \subseteq 1 .. Len(l) /\ Len(l) + 1 \notin S
  BY <1>1
<1>4. (\A i \in DOMAIN l : l[i].event # kind) => S = {}
  OBVIOUS
<1> HIDE DEF S, h
<1>5. IsFiniteSet(S)
  <2>1. IsFiniteSet(1 .. Len(l))
    BY <1>1, FS_Interval
  <2> QED BY <1>3, <2>1, FS_Subset
<1>6. /\ Cardinality(S) \in Nat /\ Cardinality(S \cup {Len(l) + 1}) = Cardinality(S) + 1
      /\ S = {} => Cardinality(S) = 0
  BY <1>3, <1>5, FS_CardinalityType, FS_AddElement, FS_EmptySet
<1>7. CountOf(l, kind) = Cardinality(S)
  BY DEF CountOf, S
<1>8. CountOf(h, kind) = Cardinality({i \in DOMAIN h : h[i].event = kind})
  BY DEF CountOf
<1> QED BY <1>2, <1>4, <1>6, <1>7, <1>8 DEF h

\* The counters with one more end.
Plus(c, e) == [done   |-> c.done + (IF e.event = "task_done" THEN 1 ELSE 0),
               failed |-> c.failed + (IF e.event = "task_failed" THEN 1 ELSE 0),
               gated  |-> c.gated + (IF e.event = "task_gate" THEN 1 ELSE 0)]

LEMMA TotalsAppend ==
  ASSUME NEW l \in Seq(LedgerEvent), NEW e \in LedgerEvent
  PROVE  /\ TerminalCounts(Append(l, e)) = Plus(TerminalCounts(l), e)
         /\ e.event \notin TerminalKinds => TerminalCounts(Append(l, e)) = TerminalCounts(l)
         /\ Settled(l) = {} => TerminalCounts(l) = NoCounts
<1>1. \A kind \in TerminalKinds :
        /\ CountOf(l, kind) \in Nat
        /\ CountOf(Append(l, e), kind) =
             IF e.event = kind THEN CountOf(l, kind) + 1 ELSE CountOf(l, kind)
  BY CountAppend
<1>2. "task_done" \in TerminalKinds /\ "task_failed" \in TerminalKinds /\ "task_gate" \in TerminalKinds
  BY DEF TerminalKinds
<1>3. ASSUME Settled(l) = {}, NEW kind \in TerminalKinds
      PROVE  CountOf(l, kind) = 0
  <2>1. ASSUME NEW i \in DOMAIN l, l[i].event = kind
        PROVE  FALSE
    <3>1. l[i] \in LedgerEvent
      BY LenProperties
    <3>2. \A d \in RunEvent : d.event \notin TerminalKinds
      BY DEF RunEvent, RunKinds, TerminalKinds
    <3>3. \A d \in TaskEvent : d.task \in Task
      BY DEF TaskEvent
    <3>4. l[i].task \in Task
      BY <2>1, <3>1, <3>2, <3>3 DEF LedgerEvent
    <3>5. l[i].task \in Settled(l)
      BY <2>1, <3>4 DEF Settled, At
    <3> QED BY <1>3, <3>5
  <2> QED BY <2>1, CountAppend
<1>4. TerminalCounts(Append(l, e)) = Plus(TerminalCounts(l), e)
  BY <1>1, <1>2 DEF TerminalCounts, Plus
<1>5. e.event \notin TerminalKinds => TerminalCounts(Append(l, e)) = TerminalCounts(l)
  BY <1>1, <1>2 DEF TerminalCounts
<1>6. Settled(l) = {} => TerminalCounts(l) = NoCounts
  BY <1>2, <1>3 DEF TerminalCounts, NoCounts
<1> QED BY <1>4, <1>5, <1>6

\* While it serves and until it finishes, a process counts the ends it writes.
Counting == Serving \/ pc \in {"join", "finish"}
LEMMA CountingSteps ==
  ASSUME Inv, Whole, Next, Counting', ~Announce, ~ResumeRun
  PROVE  /\ Counting
         /\ \/ counts' = counts /\ ledger' = ledger
            \/ \E d \in LedgerEvent :
                 /\ ledger' = Append(ledger, d)
                 /\ counts' = IF d.event \in TerminalKinds THEN Plus(counts, d) ELSE counts
<1> USE DEF durable, sched, pool, env, Counting, Serving
<1>1. pc # "fail" /\ pc # "off" /\ pc # "abort" => torn = FALSE
  BY Ranges DEF Whole, TypeOK
<1>2. counts \in Counts
  BY Ranges DEF TypeOK
<1> DEFINE Ends(d) == /\ d \in LedgerEvent /\ ledger' = Append(ledger, d)
                      /\ counts' = IF d.event \in TerminalKinds THEN Plus(counts, d) ELSE counts
<1> DEFINE m == Head(events)
<1>3. events # << >> => m.task \in Task /\ m.outcome \in Outcome \cup {"error", "none"} /\ m.tokens \in Nat
  BY Ranges, TailOfEvents DEF Message
<1>4. tier \in [Task -> Nat] /\ attempt \in [Task -> Nat]
  BY Ranges DEF TypeOK
<1>5. \A kind \in TaskKinds, t \in Task :
        OnTask(kind, t) \in LedgerEvent /\ OnTask(kind, t).event = kind
  BY EventTypes DEF LedgerEvent
<1>6. TerminalKinds = {"task_done", "task_gate", "task_failed"} /\ TerminalKinds \subseteq TaskKinds
      /\ "task_heartbeat" \in TaskKinds
  BY DEF TerminalKinds, TaskKinds
<1>7. ASSUME NEW d \in LedgerEvent, d.event = "task_failed", counts' = [counts EXCEPT !.failed = @ + 1]
      PROVE  counts' = Plus(counts, d)
  BY <1>2, <1>7 DEF Plus, Counts
<1>8. ASSUME NEW d \in LedgerEvent, d.event = "task_done", counts' = [counts EXCEPT !.done = @ + 1]
      PROVE  counts' = Plus(counts, d)
  BY <1>2, <1>8 DEF Plus, Counts
<1>9. ASSUME NEW d \in LedgerEvent, d.event = "task_gate", counts' = [counts EXCEPT !.gated = @ + 1]
      PROVE  counts' = Plus(counts, d)
  BY <1>2, <1>9 DEF Plus, Counts
<1>a. ASSUME NEW t \in Task, ledger' = Append(ledger, OnTask("task_failed", t)),
             counts' = [counts EXCEPT !.failed = @ + 1]
      PROVE  \E d : Ends(d)
  <2> DEFINE e == OnTask("task_failed", t)
  <2>1. e \in LedgerEvent /\ e.event = "task_failed"
    BY <1>5, <1>6
  <2>2. counts' = Plus(counts, e)
    BY <1>7, <1>a, <2>1
  <2>3. Ends(e)
    BY <1>6, <1>a, <2>1, <2>2
  <2> QED BY <2>3
<1>b. ASSUME NEW t \in Task, ledger' = Append(ledger, OnTask("task_gate", t)),
             counts' = [counts EXCEPT !.gated = @ + 1]
      PROVE  \E d : Ends(d)
  <2> DEFINE e == OnTask("task_gate", t)
  <2>1. e \in LedgerEvent /\ e.event = "task_gate"
    BY <1>5, <1>6
  <2>2. counts' = Plus(counts, e)
    BY <1>9, <1>b, <2>1
  <2>3. Ends(e)
    BY <1>6, <1>b, <2>1, <2>2
  <2> QED BY <2>3
<1>c. ASSUME NEW t \in Task, ledger' = Append(ledger, OnTask("task_heartbeat", t)),
             counts' = counts
      PROVE  \E d : Ends(d)
  <2> DEFINE e == OnTask("task_heartbeat", t)
  <2>1. e \in LedgerEvent /\ e.event = "task_heartbeat"
    BY <1>5, <1>6
  <2>2. Ends(e)
    BY <1>6, <1>c, <2>1
  <2> QED BY <2>2
<1>d. pc = "decide" => Counting /\ deciding.task \in Task
  BY Ranges, DecisionTypes
<1>10. ASSUME HandleStarted
       PROVE  Counting /\ \E d : Ends(d)
  <2>1. pc = "loop" /\ events # << >> /\ counts' = counts
        /\ ledger' = Append(ledger, TaskStarted(m.task, tier[m.task], attempt[m.task]))
    BY <1>1, <1>10 DEF HandleStarted, Receive, Commit
  <2>2. TaskStarted(m.task, tier[m.task], attempt[m.task]) \in LedgerEvent
        /\ TaskStarted(m.task, tier[m.task], attempt[m.task]).event = "task_started"
    BY <1>3, <1>4, <2>1, WrittenEvents DEF LedgerEvent
  <2> QED BY <1>6, <2>1, <2>2
<1>11. ASSUME HandleHeartbeat
       PROVE  Counting /\ \E d : Ends(d)
  <2>1. pc = "loop" /\ events # << >> /\ counts' = counts
        /\ ledger' = Append(ledger, OnTask("task_heartbeat", m.task))
    BY <1>1, <1>11 DEF HandleHeartbeat, Receive, Commit
  <2>2. m.task \in Task /\ Counting
    BY <1>3, <2>1
  <2> HIDE DEF m, Ends
  <2> QED BY <1>c, <2>1, <2>2
<1>12. ASSUME HandleError
       PROVE  Counting /\ \E d : Ends(d)
  <2>1. pc = "loop" /\ events # << >> /\ counts' = [counts EXCEPT !.failed = @ + 1]
        /\ ledger' = Append(ledger, OnTask("task_failed", m.task))
    BY <1>1, <1>12 DEF HandleError, Receive, Commit
  <2>2. m.task \in Task /\ Counting
    BY <1>3, <2>1
  <2> HIDE DEF m, Ends
  <2> QED BY <1>a, <2>1, <2>2
<1>13. ASSUME HandleReceipt
       PROVE  Counting /\ \E d : Ends(d)
  <2> DEFINE d == TaskReceipt(m.task, attempt[m.task], m.outcome, m.tokens)
  <2>1. pc = "loop" /\ events # << >> /\ counts' = counts /\ m.outcome # "error"
        /\ ledger' = Append(ledger, d)
    BY <1>1, <1>13 DEF HandleReceipt, Receive, Commit
  <2>2. d \in LedgerEvent /\ d.event = "task_receipt"
    BY <1>3, <1>4, <2>1, WrittenEvents DEF LedgerEvent
  <2> QED BY <1>6, <2>1, <2>2
<1>14. ASSUME ApplyDone
       PROVE  Counting /\ \E d : Ends(d)
  <2> DEFINE d == TaskDone(deciding.task, deciding.outcome)
  <2>1. pc = "decide" /\ counts' = [counts EXCEPT !.done = @ + 1] /\ ledger' = Append(ledger, d)
    BY <1>1, <1>14 DEF ApplyDone, Commit
  <2>2. d \in LedgerEvent /\ d.event = "task_done"
    BY <2>1, Ranges, DecisionTypes DEF TaskDone, OnTask
  <2> QED BY <1>6, <1>8, <2>1, <2>2
<1>15. ASSUME ApplyEscalate
       PROVE  Counting /\ \E d : Ends(d)
  <2> DEFINE d == TaskEscalated(deciding.task, tier[deciding.task] + 1)
  <2>1. pc = "decide" /\ counts' = counts /\ ledger' = Append(ledger, d)
    BY <1>1, <1>15 DEF ApplyEscalate, Commit
  <2>2. d \in LedgerEvent /\ d.event = "task_escalated"
    BY <2>1, Ranges, DecisionTypes DEF TaskEscalated, OnTask
  <2> QED BY <1>6, <2>1, <2>2
<1>16. ASSUME ApplyGate
       PROVE  Counting /\ \E d : Ends(d)
  <2>1. pc = "decide" /\ counts' = [counts EXCEPT !.gated = @ + 1]
        /\ ledger' = Append(ledger, OnTask("task_gate", deciding.task))
    BY <1>1, <1>16 DEF ApplyGate, Commit
  <2> HIDE DEF Ends
  <2> QED BY <1>b, <1>d, <2>1
<1>17. ASSUME ApplyFail
       PROVE  Counting /\ \E d : Ends(d)
  <2>1. pc = "decide" /\ counts' = [counts EXCEPT !.failed = @ + 1]
        /\ ledger' = Append(ledger, OnTask("task_failed", deciding.task))
    BY <1>1, <1>17 DEF ApplyFail, Commit
  <2> HIDE DEF Ends
  <2> QED BY <1>a, <1>d, <2>1
<1>18. ASSUME HaltOne
       PROVE  Counting /\ \E d : Ends(d)
  <2>1. pc = "halt" /\ remaining # << >> /\ counts' = [counts EXCEPT !.failed = @ + 1]
        /\ ledger' = Append(ledger, OnTask("task_failed", Head(remaining)))
    BY <1>1, <1>18 DEF HaltOne, Commit
  <2>2. Head(remaining) \in Task
    BY <2>1, Ranges
  <2> HIDE DEF Ends
  <2> QED BY <1>a, <2>1, <2>2
<1>19. CASE DispatchSend \/ DispatchPark \/ DispatchDone \/ WakeUp \/ ApplyRetry \/ HaltDone
            \/ LeaveLoop \/ JoinPool
  BY <1>19 DEF DispatchSend, DispatchPark, DispatchDone, WakeUp, ApplyRetry, HaltDone, LeaveLoop,
               JoinPool
<1>20. CASE Launch \/ StartRun \/ QueueTask \/ PoolLost \/ Finish \/ FinishIndex
            \/ AppendError \/ IndexError \/ PreflightError \/ SpawnFails \/ AbortJoined
            \/ RecordFailure
            \/ RecordFailureError \/ Crash \/ ResumeRefused \/ ResumeFinished
  BY <1>20 DEF Launch, StartRun, QueueTask, PoolLost, Finish, FinishIndex, AppendError,
      IndexError, PreflightError, SpawnFails, AbortJoined, RecordFailure, RecordFailureError,
      Crash, Abandon, ResumeRefused, ResumeFinished
<1>21. CASE ClockTurns \/ StrayLeaves \/ Stopped
  BY <1>21 DEF ClockTurns, StrayLeaves, Stopped, vars
<1>22. ASSUME NEW w \in Worker
       PROVE  Offer(w) \/ OfferFails(w) \/ Heartbeat(w) \/ Perform(w) \/ Panic(w) \/ Leave(w)
                \/ Unwind(w) => UNCHANGED <<pc, ledger, counts>>
  BY DEF Offer, OfferFails, Heartbeat, Perform, Panic, Leave, Unwind
<1>23. CASE \E w \in Worker : \/ Offer(w) \/ OfferFails(w) \/ Heartbeat(w) \/ Perform(w)
                              \/ Panic(w) \/ Leave(w) \/ Unwind(w)
  BY <1>22, <1>23
<1> HIDE DEF Ends
<1>24. ASSUME Counting, \E d : Ends(d)
       PROVE  /\ Counting
              /\ \E d \in LedgerEvent :
                 /\ ledger' = Append(ledger, d)
                 /\ counts' = IF d.event \in TerminalKinds THEN Plus(counts, d) ELSE counts
  BY <1>24 DEF Ends
<1> QED
  BY <1>10, <1>11, <1>12, <1>13, <1>14, <1>15, <1>16, <1>17, <1>18, <1>19, <1>20, <1>21,
     <1>23, <1>24 DEF Next

\* When the loop is left, no slot is in use, so no task is open.
LEMMA LoopLeft ==
  ASSUME Inv, Covered, Staffed, ActiveIsOut, pc = "loop", Complete
  PROVE  Todo(ledger) = {}
<1>1. Serving /\ active = 0 /\ remaining = << >>
  BY DEF Serving, Complete
<1>2. Places = 0
  BY <1>1, ActiveMeans
<1>3. /\ Len(jobs) = 0 /\ Cardinality(Out) = 0 /\ Cardinality(Answers(events)) = 0
      /\ Cardinality(Lost) = 0
  BY <1>2, Counted DEF Places
<1>4. jobs = << >>
  BY <1>3, Ranges, EmptySeq
<1>5. Out = {} /\ Answers(events) = {} /\ Lost = {}
  BY <1>3, Counted, FS_EmptySet
<1>6. Waiting = {} /\ Sent = {}
  BY <1>1, <1>4, SamePlaces DEF Waiting, Sent, Range
<1>7. Answered = {} /\ Judged = {}
  BY <1>5, Ranges DEF Answered, Tasks
<1>8. Taken = {}
  <2>1. \A w \in Worker : wpc[w] \in {"idle", "gone"}
    BY <1>5, Ranges DEF Out, TypeOK
  <2>2. \A w \in Worker : wtask[w] = NoTask
    BY <2>1, Ranges DEF Threads
  <2>3. DOMAIN wtask = Worker
    BY Ranges DEF TypeOK
  <2> QED BY <2>2, <2>3 DEF Taken, Range
<1>9. InHand = {}
  BY <1>6, <1>7, <1>8 DEF InHand
<1> QED BY <1>1, <1>5, <1>9 DEF Covered

\* Leaving the loop and closing the pool write nothing.
LEMMA LeavingSteps ==
  ASSUME Next, pc' \in {"join", "finish"}
  PROVE  /\ ledger' = ledger
         /\ (pc = "loop" /\ Complete) \/ pc \in {"join", "finish"}
<1> USE DEF durable, sched, pool, env
<1>1. CASE Launch \/ StartRun \/ QueueTask \/ Announce \/ DispatchSend \/ DispatchPark
           \/ DispatchDone \/ WakeUp \/ PoolLost
  BY <1>1 DEF Launch, StartRun, QueueTask, Announce, Begin, DispatchSend, DispatchPark,
              DispatchDone, WakeUp, PoolLost, Abandon
<1>2. CASE HandleStarted \/ HandleHeartbeat \/ HandleError \/ HandleReceipt
  BY <1>2 DEF HandleStarted, HandleHeartbeat, HandleError, HandleReceipt, Receive, Wake,
              EnforceBudget
<1>3. CASE ApplyDone \/ ApplyRetry \/ ApplyEscalate \/ ApplyGate \/ ApplyFail
  BY <1>3 DEF ApplyDone, ApplyRetry, ApplyEscalate, ApplyGate, ApplyFail, EnforceBudget
<1>4. CASE HaltOne \/ HaltDone \/ LeaveLoop \/ JoinPool \/ Finish \/ FinishIndex
  BY <1>4 DEF HaltOne, HaltDone, LeaveLoop, JoinPool, Finish, FinishIndex
<1>5. ASSUME NEW w \in Worker
      PROVE  Offer(w) \/ OfferFails(w) \/ Heartbeat(w) \/ Perform(w) \/ Panic(w) \/ Leave(w)
               \/ Unwind(w) => UNCHANGED <<pc, ledger>>
  BY DEF Offer, OfferFails, Heartbeat, Perform, Panic, Leave, Unwind
<1>6. CASE AppendError \/ IndexError \/ PreflightError \/ SpawnFails \/ AbortJoined
                       \/ RecordFailure
           \/ RecordFailureError \/ Crash
  BY <1>6 DEF AppendError, IndexError, PreflightError, SpawnFails, AbortJoined, RecordFailure,
      RecordFailureError, Crash, Abandon
<1>7. CASE ResumeRefused \/ ResumeFinished \/ ResumeRun \/ ClockTurns \/ StrayLeaves \/ Stopped
  BY <1>7 DEF ResumeRefused, ResumeFinished, ResumeRun, Begin, ClockTurns, StrayLeaves, Stopped,
      vars
<1> QED BY <1>1, <1>2, <1>3, <1>4, <1>5, <1>6, <1>7 DEF Next

\* What follows the end of a run is its index, a failure, or another resume.
LEMMA EndedSteps ==
  ASSUME Next, pc \in {"index", "abort", "fail", "off"}
  PROVE  \/ pc' \in {"index", "abort", "fail", "off"}
         \/ pc = "off" /\ ResumeRun
<1> USE DEF durable, sched, pool, env
<1>1. CASE FinishIndex \/ AppendError \/ IndexError \/ PreflightError \/ SpawnFails
                       \/ AbortJoined
           \/ RecordFailure \/ RecordFailureError \/ Crash
  BY <1>1 DEF FinishIndex, AppendError, IndexError, PreflightError, SpawnFails, AbortJoined,
      RecordFailure, RecordFailureError, Crash, Abandon
<1>2. CASE ResumeRefused \/ ResumeFinished \/ ResumeRun \/ ClockTurns \/ StrayLeaves \/ Stopped
  BY <1>2 DEF ResumeRefused, ResumeFinished, ResumeRun, Reopen, ClockTurns, StrayLeaves, Stopped,
      vars
<1>3. ASSUME NEW w \in Worker
      PROVE  Offer(w) \/ OfferFails(w) \/ Heartbeat(w) \/ Perform(w) \/ Panic(w) \/ Leave(w)
               \/ Unwind(w) => pc' = pc
  BY DEF Offer, OfferFails, Heartbeat, Perform, Panic, Leave, Unwind
<1>4. ~ (Launch \/ StartRun \/ QueueTask \/ Announce \/ DispatchSend \/ DispatchPark
         \/ DispatchDone \/ WakeUp \/ PoolLost)
  BY DEF Launch, StartRun, QueueTask, Announce, DispatchSend, DispatchPark, DispatchDone, WakeUp,
         PoolLost
<1>5. ~ (HandleStarted \/ HandleHeartbeat \/ HandleError \/ HandleReceipt
         \/ ApplyDone \/ ApplyRetry \/ ApplyEscalate \/ ApplyGate \/ ApplyFail
         \/ HaltOne \/ HaltDone \/ LeaveLoop \/ JoinPool \/ Finish)
  BY DEF HandleStarted, HandleHeartbeat, HandleError, HandleReceipt, Receive, ApplyDone,
         ApplyRetry, ApplyEscalate, ApplyGate, ApplyFail, HaltOne, HaltDone, LeaveLoop, JoinPool,
         Finish
<1> QED BY <1>1, <1>2, <1>3, <1>4, <1>5 DEF Next

\* A step that writes while the run is to be finished ends the loop's work.
LEMMA FinishSteps ==
  ASSUME Next, pc = "finish", ledger' # ledger
  PROVE  pc' \in {"index", "abort"}
<1> USE DEF durable, sched, pool, env
<1>1. CASE Finish \/ AppendError
  BY <1>1 DEF Finish, AppendError, Abandon
<1>2. ~ (\/ Launch \/ StartRun \/ QueueTask \/ Announce \/ DispatchSend \/ DispatchPark
         \/ DispatchDone \/ WakeUp \/ PoolLost \/ HandleStarted \/ HandleHeartbeat
         \/ HandleError \/ HandleReceipt \/ FinishIndex \/ IndexError \/ PreflightError
         \/ SpawnFails
         \/ AbortJoined)
  BY DEF Launch, StartRun, QueueTask, Announce, DispatchSend, DispatchPark, DispatchDone, WakeUp,
      PoolLost, HandleStarted, HandleHeartbeat, HandleError, HandleReceipt, Receive, FinishIndex,
      IndexError, PreflightError, SpawnFails, AbortJoined
<1>3. ~ (\/ ApplyDone \/ ApplyRetry \/ ApplyEscalate \/ ApplyGate \/ ApplyFail
         \/ HaltOne \/ HaltDone \/ LeaveLoop \/ JoinPool \/ RecordFailure
         \/ RecordFailureError \/ Crash \/ ResumeRefused \/ ResumeFinished \/ ResumeRun
         \/ ClockTurns \/ StrayLeaves \/ Stopped)
  BY DEF ApplyDone, ApplyRetry, ApplyEscalate, ApplyGate, ApplyFail, HaltOne, HaltDone,
      LeaveLoop, JoinPool, RecordFailure, RecordFailureError, Crash, ResumeRefused,
      ResumeFinished, ResumeRun, Reopen, ClockTurns, StrayLeaves, Stopped
<1>4. ASSUME NEW w \in Worker
      PROVE  ~ (Offer(w) \/ OfferFails(w) \/ Heartbeat(w) \/ Perform(w) \/ Panic(w) \/ Leave(w)
                \/ Unwind(w))
  BY DEF Offer, OfferFails, Heartbeat, Perform, Panic, Leave, Unwind
<1> QED BY <1>1, <1>2, <1>3, <1>4 DEF Next

\* The totals are kept, and no step serves a run that was finished.
LEMMA TotalledStep ==
  ASSUME Inv, Whole, Covered, Staffed, ActiveIsOut, Totalled, Next
  PROVE  Totalled'
<1>1. ledger \in Seq(LedgerEvent) /\ (Counting => counts = TerminalCounts(ledger))
  BY Ranges DEF Totalled, Counting
<1>2. ASSUME Counting'
      PROVE  counts' = TerminalCounts(ledger')
  <2>1. CASE Announce
    <3>1. counts' = NoCounts /\ ledger' = ledger /\ pc = "announce"
      BY <2>1 DEF Announce
    <3>2. Settled(ledger) = {}
      BY <3>1, Ranges DEF Locals
    <3>3. OnRun("corrupt") \in LedgerEvent
      BY EventTypes DEF RunKinds, LedgerEvent
    <3> QED BY <1>1, <3>1, <3>2, <3>3, TotalsAppend
  <2>2. CASE ResumeRun
    BY <2>2 DEF ResumeRun, Reopen
  <2>3. CASE ~Announce /\ ~ResumeRun
    <3>1. /\ Counting
          /\ \/ counts' = counts /\ ledger' = ledger
             \/ \E d \in LedgerEvent :
                  /\ ledger' = Append(ledger, d)
                  /\ counts' = IF d.event \in TerminalKinds THEN Plus(counts, d) ELSE counts
      BY <1>2, <2>3, CountingSteps
    <3>2. CASE counts' = counts /\ ledger' = ledger
      BY <1>1, <3>1, <3>2
    <3>3. CASE \E d \in LedgerEvent :
                 /\ ledger' = Append(ledger, d)
                 /\ counts' = IF d.event \in TerminalKinds THEN Plus(counts, d) ELSE counts
      <4>1. PICK d \in LedgerEvent :
                 /\ ledger' = Append(ledger, d)
                 /\ counts' = IF d.event \in TerminalKinds THEN Plus(counts, d) ELSE counts
        BY <3>3
      <4>2. /\ TerminalCounts(ledger') = Plus(counts, d)
            /\ d.event \notin TerminalKinds => TerminalCounts(ledger') = counts
        BY <1>1, <3>1, <4>1, TotalsAppend
      <4> QED BY <4>1, <4>2
    <3> QED BY <3>1, <3>2, <3>3
  <2> QED BY <2>1, <2>2, <2>3
<1>3. ASSUME pc' \in {"join", "finish"}
      PROVE  Todo(ledger') = {}
  <2>1. ledger' = ledger /\ ((pc = "loop" /\ Complete) \/ pc \in {"join", "finish"})
    BY <1>3, LeavingSteps
  <2>2. Todo(ledger) = {}
    BY <2>1, LoopLeft DEF Totalled
  <2> QED BY <2>1, <2>2
<1>4. ASSUME NEW d \in LedgerEvent, ledger' = Append(ledger, d), d.task = NoTask, Todo(ledger) = {}
      PROVE  Todo(ledger') = {}
  <2>1. {d.task} \cap Task = {}
    BY <1>4, Ranges
  <2>2. Mentioned(ledger') = Mentioned(ledger) /\ Settled(ledger') = Settled(ledger)
    <3>1. /\ Mentioned(Append(ledger, d)) = Mentioned(ledger) \cup ({d.task} \cap Task)
          /\ Settled(Append(ledger, d)) = IF d.event \in TerminalKinds
               THEN Settled(ledger) \cup ({d.task} \cap Task) ELSE Settled(ledger)
      BY <1>1, MentionAppend
    <3> QED BY <1>4, <2>1, <3>1
  <2> QED BY <1>4, <2>2 DEF Todo
<1>5. ASSUME Has(ledger', "run_finished")
      PROVE  Todo(ledger') = {} /\ pc' \in {"index", "abort", "fail", "off"}
  <2>1. CASE Has(ledger, "run_finished")
    <3>1. Todo(ledger) = {} /\ pc \in {"index", "abort", "fail", "off"}
      BY <2>1 DEF Totalled
    <3>2. ~ResumeRun
      BY <2>1, <3>1 DEF ResumeRun
    <3>3. pc' \in {"index", "abort", "fail", "off"}
      BY <3>1, <3>2, EndedSteps
    <3>4. CASE ledger' = ledger
      BY <3>1, <3>3, <3>4
    <3>5. CASE \E d \in LedgerEvent :
                 /\ ledger' = Append(ledger, d)
                 /\ d \in Pending \/ (torn /\ d.event = "corrupt" /\ d.task = NoTask)
      <4>1. PICK d \in LedgerEvent :
                 /\ ledger' = Append(ledger, d)
                 /\ d \in Pending \/ (torn /\ d.event = "corrupt" /\ d.task = NoTask)
        BY <3>5
      <4>2. d \in Pending => pc = "fail"
        BY <3>1 DEF Pending
      <4>3. d.task = NoTask
        BY <4>1, <4>2, PendingKinds
      <4> QED BY <1>4, <3>1, <3>3, <4>1, <4>3
    <3> QED BY <3>4, <3>5, OneLine
  <2>2. CASE ~Has(ledger, "run_finished")
    <3>1. ledger' # ledger
      BY <1>5, <2>2
    <3>2. PICK d \in LedgerEvent :
                 /\ ledger' = Append(ledger, d)
                 /\ d \in Pending \/ (torn /\ d.event = "corrupt" /\ d.task = NoTask)
      BY <3>1, OneLine
    <3>3. d.event = "run_finished"
      <4>1. /\ DOMAIN ledger = 1 .. Len(ledger) /\ DOMAIN ledger' = 1 .. Len(ledger) + 1
            /\ Len(ledger) \in Nat
            /\ \A i \in 1 .. Len(ledger) : ledger'[i] = ledger[i]
            /\ ledger'[Len(ledger) + 1] = d
        BY <1>1, <3>2, AppendedLine
      <4> QED BY <1>5, <2>2, <4>1 DEF Has
    <3>4. pc = "finish" /\ d = RunFinished(counts)
      BY <3>2, <3>3, PendingKinds
    <3>5. d.task = NoTask
      BY <3>4 DEF RunFinished, OnRun
    <3>6. Todo(ledger) = {}
      BY <3>4 DEF Totalled
    <3>7. pc' \in {"index", "abort"}
      BY <3>1, <3>4, FinishSteps
    <3> QED BY <1>4, <3>2, <3>5, <3>6, <3>7
  <2> QED BY <2>1, <2>2
<1> QED BY <1>2, <1>3, <1>5 DEF Totalled, Counting

----------------------------------------------------------------------------
(* Attempts and stages of the tasks in hand.                               *)

\* One thread that moves changes what the threads hold in one task.
LEMMA HeldBut ==
  ASSUME NEW w \in Worker, NEW at,
         \A v \in Worker \ {w} : wpc'[v] = wpc[v] /\ wtask'[v] = wtask[v]
  PROVE  /\ Held(at)' \subseteq Held(at) \cup {wtask'[w]}
         /\ wpc'[w] # at => Held(at)' \subseteq Held(at)
BY DEF Held

\* Threads that stay as they are hold what they held.
LEMMA HeldSame ==
  ASSUME wpc' = wpc, wtask' = wtask, NEW at
  PROVE  Held(at)' = Held(at)
BY DEF Held

\* Receiving an event takes its receipt out of the channel.
LEMMA TailReported ==
  ASSUME NEW q \in Seq(Message), q # << >>
  PROVE  /\ Reported(Tail(q)) \subseteq Reported(q) \cap Tasks(Tail(q))
         /\ Head(q).kind = "finished" /\ Head(q).outcome # "error" => Head(q).task \in Reported(q)
<1>1. /\ Head(q) = q[1]
      /\ Len(q) \in Nat \ {0}
      /\ DOMAIN q = 1 .. Len(q)
      /\ DOMAIN Tail(q) = 1 .. Len(q) - 1
      /\ \A i \in 1 .. Len(q) - 1 : Tail(q)[i] = q[i + 1]
  BY HeadTailProperties, EmptySeq, LenProperties
<1>2. \A i \in Verdict(Tail(q)) : i \in Answers(Tail(q)) /\ i + 1 \in Verdict(q) /\ Tail(q)[i] = q[i + 1]
  BY <1>1 DEF Verdict, Answers
<1>3. Head(q).kind = "finished" /\ Head(q).outcome # "error" => 1 \in Verdict(q)
  BY <1>1 DEF Verdict, Answers
<1> QED BY <1>1, <1>2, <1>3 DEF Reported, Tasks

\* Sending an event adds at most its task, and only with a receipt.
LEMMA AppendReported ==
  ASSUME NEW q \in Seq(Message), NEW m \in Message
  PROVE  /\ Reported(Append(q, m)) \subseteq Reported(q) \cup {m.task}
         /\ m.kind # "finished" \/ m.outcome = "error" =>
              Reported(Append(q, m)) \subseteq Reported(q)
<1>1. /\ DOMAIN q = 1 .. Len(q)
      /\ DOMAIN Append(q, m) = 1 .. Len(q) + 1
      /\ Len(q) \in Nat
      /\ \A i \in 1 .. Len(q) : Append(q, m)[i] = q[i]
      /\ Append(q, m)[Len(q) + 1] = m
  OBVIOUS
<1>2. \A i \in Verdict(Append(q, m)) :
        \/ i \in Verdict(q) /\ Append(q, m)[i] = q[i]
        \/ i = Len(q) + 1 /\ m.kind = "finished" /\ m.outcome # "error"
  BY <1>1 DEF Verdict, Answers
<1> QED BY <1>1, <1>2 DEF Reported

\* The tasks in hand before their start or after it, and where they are.
LEMMA StartPlaces ==
  ASSUME Inv
  PROVE  /\ Held("offered") \subseteq Taken /\ Held("running") \subseteq Taken
         /\ Reported(events) \subseteq Answered
         /\ Held("offered") \cap Held("running") = {}
         /\ ToStart \subseteq Task /\ Started \subseteq Task
         /\ ToStart \subseteq Waiting \cup Sent \cup Taken
         /\ Started \subseteq Taken \cup Answered
<1>1. \A at \in {"offered", "running"} : Held(at) \subseteq Taken /\ Held(at) \subseteq Task
  BY Ranges DEF Held
<1>2. Reported(events) \subseteq Answered
  BY DEF Reported, Verdict, Answered, Tasks
<1>3. Answered \subseteq Task
  <2>1. \A i \in DOMAIN events : events[i] \in Message
    BY Ranges
  <2>2. \A m \in Message : m.task \in Task
    BY DEF Message
  <2> QED BY <2>1, <2>2 DEF Answered, Tasks, Answers
<1>4. Waiting \subseteq Task /\ Sent \subseteq Task
  BY Ranges DEF Waiting, Sent, Range
<1>5. ASSUME NEW t \in Held("offered"), t \in Held("running")
      PROVE  FALSE
  <2>1. PICK v \in Worker : wpc[v] = "offered" /\ wtask[v] = t
    BY DEF Held
  <2>2. PICK w \in Worker : wpc[w] = "running" /\ wtask[w] = t
    BY <1>5 DEF Held
  <2>3. t # NoTask
    BY <1>1, Ranges
  <2>4. v = w
    BY <2>1, <2>2, <2>3, Ranges DEF SoleHolders
  <2> QED BY <2>1, <2>2, <2>4
<1> QED BY <1>1, <1>2, <1>3, <1>4, <1>5 DEF ToStart, Started

\* Where a serving process is with the attempts.
InStep ==
  /\ \A t \in ToStart : attempt[t] = LadderAttempt(ledger, t)
  /\ \A t \in Started :
       attempt[t] + 1 = LadderAttempt(ledger, t) /\ Stage(ledger, t) = "running"

\* A step that touches one task keeps the others in step.
LEMMA InStepBut ==
  ASSUME Inv, InStep, NEW x,
         ToStart' \subseteq ToStart \cup {x}, Started' \subseteq Started \cup {x},
         \A t \in Task \ {x} : attempt'[t] = attempt[t],
         \/ ledger' = ledger
         \/ \E d \in LedgerEvent :
              ledger' = Append(ledger, d) /\ (d.task = x \/ d.event = "task_heartbeat"),
         x \in ToStart' => attempt'[x] = LadderAttempt(ledger', x),
         x \in Started' =>
           attempt'[x] + 1 = LadderAttempt(ledger', x) /\ Stage(ledger', x) = "running"
  PROVE  InStep'
<1>1. ASSUME NEW t, t # x
      PROVE  /\ LadderAttempt(ledger', t) = LadderAttempt(ledger, t)
             /\ Stage(ledger', t) = Stage(ledger, t)
  <2>1. CASE ledger' = ledger
    BY <2>1
  <2>2. CASE \E d \in LedgerEvent :
               ledger' = Append(ledger, d) /\ (d.task = x \/ d.event = "task_heartbeat")
    <3>1. PICK d \in LedgerEvent :
               ledger' = Append(ledger, d) /\ (d.task = x \/ d.event = "task_heartbeat")
      BY <2>2
    <3>2. d.task # t \/ d.event = "task_heartbeat"
      BY <1>1, <3>1
    <3>3. LadderAttempt(ledger', t) = LadderAttempt(ledger, t)
      BY <3>1, <3>2, Ranges, AttemptAppend
    <3>4. Stage(ledger', t) = Stage(ledger, t)
      BY <3>1, <3>2, Ranges, StageAppend
    <3> QED BY <3>3, <3>4
  <2> QED BY <2>1, <2>2
<1>2. ToStart \subseteq Task /\ Started \subseteq Task
  BY StartPlaces
<1>3. ASSUME NEW t \in ToStart'
      PROVE  attempt'[t] = LadderAttempt(ledger', t)
  BY <1>1, <1>2, <1>3 DEF InStep
<1>4. ASSUME NEW t \in Started'
      PROVE  attempt'[t] + 1 = LadderAttempt(ledger', t) /\ Stage(ledger', t) = "running"
  BY <1>1, <1>2, <1>4 DEF InStep
<1> QED BY <1>3, <1>4 DEF InStep

\* Dispatching and waiting move tasks from one queue to the next.
LEMMA QueueInStep ==
  ASSUME Inv, InStep, DispatchSend \/ DispatchPark \/ DispatchDone \/ WakeUp \/ HaltDone
                        \/ ClockTurns \/ StrayLeaves
  PROVE  InStep'
<1> USE DEF durable, sched, pool, env
<1>1. /\ ledger' = ledger /\ attempt' = attempt /\ wpc' = wpc /\ wtask' = wtask
      /\ events' = events
  BY DEF DispatchSend, DispatchPark, DispatchDone, WakeUp, HaltDone, ClockTurns, StrayLeaves
<1>2. Waiting' \cup Sent' = Waiting \cup Sent
  <2>1. CASE DispatchSend
    BY <2>1, SendMoves
  <2>2. CASE DispatchPark
    BY <2>2, ParkMoves
  <2>3. CASE DispatchDone \/ WakeUp \/ HaltDone \/ ClockTurns \/ StrayLeaves
    <3>1. UNCHANGED <<remaining, jobs>>
      BY <2>3 DEF DispatchDone, WakeUp, HaltDone, ClockTurns, StrayLeaves
    <3> QED BY <3>1, SamePlaces
  <2> QED BY <2>1, <2>2, <2>3
<1>3. Held("offered")' = Held("offered") /\ Held("running")' = Held("running")
  BY <1>1, HeldSame
<1>4. ToStart' = ToStart /\ Started' = Started
  BY <1>1, <1>2, <1>3 DEF ToStart, Started
<1>5. NoTask \notin ToStart /\ NoTask \notin Started
  BY StartPlaces, Ranges
<1> QED BY <1>1, <1>4, <1>5, InStepBut

\* While it serves, the process writes whole lines.
LEMMA WholeLine ==
  ASSUME Inv, Whole, Serving, NEW e, Commit(e)
  PROVE  ledger' = Append(ledger, e)
BY Ranges DEF Whole, Serving, Commit, TypeOK

\* Handling an event brings a task that starts from the offers to the runs,
\* and takes the task of an answer out of both.
LEMMA HandleInStep ==
  ASSUME Inv, Offers, Whole, InStep,
         HandleStarted \/ HandleHeartbeat \/ HandleError \/ HandleReceipt
  PROVE  InStep'
<1> DEFINE m == Head(events)
<1>1. /\ pc = "loop" /\ Serving /\ events # << >> /\ events' = Tail(events)
      /\ attempt' = attempt /\ wtask' = wtask /\ UNCHANGED <<remaining, jobs>>
  BY DEF HandleStarted, HandleHeartbeat, HandleError, HandleReceipt, Receive, Serving
<1>2. m \in Message /\ m.task \in Task /\ m.worker \in Worker
  BY <1>1, ReceiveMoves
<1>3. attempt \in [Task -> Nat] /\ tier \in [Task -> Nat]
  BY Ranges DEF TypeOK
<1>4. Waiting' = Waiting /\ Sent' = Sent
  BY <1>1, SamePlaces
<1>5. Reported(events') \subseteq Reported(events) /\ Reported(events') \subseteq Tasks(Tail(events))
  BY <1>1, Ranges, TailReported
<1>6. CASE HandleStarted
  <2> DEFINE d == TaskStarted(m.task, tier[m.task], attempt[m.task])
  <2>1. /\ m.kind = "started" /\ wpc' = [wpc EXCEPT ![m.worker] = "running"]
        /\ ledger' = Append(ledger, d)
    BY <1>1, <1>6, WholeLine DEF HandleStarted, Receive
  <2>2. /\ d \in LedgerEvent /\ d.event = "task_started" /\ d.task = m.task
        /\ d.attempt = attempt[m.task]
    <3>1. d \in TaskEvent /\ d.event = "task_started"
      BY <1>2, <1>3, WrittenEvents
    <3>2. d.task = m.task /\ d.attempt = attempt[m.task]
      BY DEF TaskStarted, OnTask
    <3> QED BY <3>1, <3>2 DEF LedgerEvent
  <2>3. wpc[m.worker] = "offered" /\ wtask[m.worker] = m.task
    <3>1. 1 \in DOMAIN events /\ m = events[1]
      BY <1>1, Ranges
    <3> QED BY <2>1, <3>1, Ranges DEF Offers, Threads
  <2>4. m.task \in Held("offered") /\ m.task \in Taken
    BY <1>2, <2>3, Ranges DEF Held
  <2>5. wpc'[m.worker] = "running" /\ \A v \in Worker \ {m.worker} : wpc'[v] = wpc[v]
    BY <1>2, <2>1, Ranges DEF TypeOK
  <2>6. \A v \in Worker \ {m.worker} : wpc'[v] = wpc[v] /\ wtask'[v] = wtask[v]
    BY <1>1, <2>5
  <2>7. Held("offered")' \subseteq Held("offered")
    BY <1>2, <2>5, <2>6, HeldBut
  <2>8. Held("running")' \subseteq Held("running") \cup {wtask'[m.worker]}
    BY <1>2, <2>6, HeldBut
  <2>9. wtask'[m.worker] = m.task
    BY <1>1, <2>3
  <2>10. m.task \notin Held("offered")'
    <3> SUFFICES ASSUME NEW v \in Worker, wpc'[v] = "offered", wtask'[v] = m.task
                 PROVE  FALSE
      BY DEF Held
    <3>1. v # m.worker
      BY <2>5
    <3>2. wtask[v] = wtask[m.worker] /\ wtask[v] # NoTask
      BY <1>1, <1>2, <2>3, Ranges
    <3> QED BY <1>2, <3>1, <3>2, Ranges DEF SoleHolders
  <2>11. m.task \notin Waiting /\ m.task \notin Sent
    BY <2>4 DEF Inv, Apart
  <2>12. m.task \in ToStart
    BY <2>4 DEF ToStart
  <2>13. ToStart' \subseteq ToStart /\ m.task \notin ToStart'
    BY <1>4, <2>7, <2>10, <2>11 DEF ToStart
  <2>14. Started' \subseteq Started \cup {m.task}
    BY <1>5, <2>8, <2>9 DEF Started
  <2>15. attempt[m.task] = LadderAttempt(ledger, m.task)
    BY <2>12 DEF InStep
  <2>16. LadderAttempt(ledger', m.task) = attempt[m.task] + 1
    BY <2>1, <2>2, <2>15, Ranges, AttemptAppend
  <2>17. Stage(ledger', m.task) = "running"
    <3>1. Stage(ledger', m.task) = StageAfter(d)
      BY <2>1, <2>2, Ranges, StageAppend
    <3> QED BY <2>2, <3>1 DEF StageAfter
  <2> HIDE DEF d, m
  <2>18. \E c \in LedgerEvent :
           ledger' = Append(ledger, c) /\ (c.task = m.task \/ c.event = "task_heartbeat")
    BY <2>1, <2>2
  <2>19. attempt'[m.task] + 1 = LadderAttempt(ledger', m.task)
    BY <1>1, <2>16
  <2> QED BY <1>1, <2>13, <2>14, <2>17, <2>18, <2>19, InStepBut
<1>7. CASE HandleHeartbeat
  <2>1. wpc' = wpc /\ ledger' = Append(ledger, OnTask("task_heartbeat", m.task))
    BY <1>1, <1>7, WholeLine DEF HandleHeartbeat
  <2>2. Held("offered")' = Held("offered") /\ Held("running")' = Held("running")
    BY <1>1, <2>1, HeldSame
  <2>3. ToStart' \subseteq ToStart /\ Started' \subseteq Started
    BY <1>4, <1>5, <2>2 DEF ToStart, Started
  <2>4. \E d \in LedgerEvent : ledger' = Append(ledger, d) /\ d.event = "task_heartbeat"
    <3>1. "task_heartbeat" \in TaskKinds
      BY DEF TaskKinds
    <3> QED BY <1>2, <2>1, <3>1, EventTypes DEF LedgerEvent
  <2>5. NoTask \notin ToStart /\ NoTask \notin Started
    BY StartPlaces, Ranges
  <2> QED BY <1>1, <2>3, <2>4, <2>5, InStepBut
<1>8. CASE HandleError \/ HandleReceipt
  <2>1. wpc' = wpc /\ m.kind = "finished"
    BY <1>8 DEF HandleError, HandleReceipt, Receive
  <2>2. Held("offered")' = Held("offered") /\ Held("running")' = Held("running")
    BY <1>1, <2>1, HeldSame
  <2>3. ToStart' \subseteq ToStart /\ Started' \subseteq Started
    BY <1>4, <1>5, <2>2 DEF ToStart, Started
  <2>4. m.task \in Answered /\ m.task \notin Tasks(Tail(events))
    <3>1. Tasks(Tail(events)) = Tasks(events) \ {m.task}
      BY <1>1, <2>1, Ranges, AnswerTaken
    <3> QED BY <1>1, <2>1, <3>1, Ranges, TailOfEvents DEF Answered
  <2>5. m.task \notin Waiting \cup Sent \cup Taken
    BY <2>4 DEF Inv, Apart
  <2>6. m.task \notin ToStart' /\ m.task \notin Started'
    <3>1. m.task \notin ToStart
      BY <2>5, StartPlaces
    <3>2. m.task \notin Held("running")' /\ m.task \notin Reported(events')
      BY <1>5, <2>2, <2>4, <2>5, StartPlaces
    <3> QED BY <2>3, <3>1, <3>2 DEF Started
  <2>7. \E d \in LedgerEvent : ledger' = Append(ledger, d) /\ d.task = m.task
    <3>1. CASE HandleError
      <4>1. ledger' = Append(ledger, OnTask("task_failed", m.task))
        BY <1>1, <3>1, WholeLine DEF HandleError
      <4>2. "task_failed" \in TaskKinds
        BY DEF TaskKinds
      <4> QED BY <1>2, <4>1, <4>2, EventTypes DEF LedgerEvent
    <3>2. CASE HandleReceipt
      <4> DEFINE d == TaskReceipt(m.task, attempt[m.task], m.outcome, m.tokens)
      <4>1. ledger' = Append(ledger, d) /\ m.outcome # "error"
        BY <1>1, <3>2, WholeLine DEF HandleReceipt
      <4>2. m.outcome \in Outcome \cup {"none"} /\ m.tokens \in Nat
        BY <1>2, <4>1 DEF Message
      <4>3. d \in TaskEvent
        BY <1>2, <1>3, <4>2, WrittenEvents
      <4>4. d.task = m.task
        BY DEF TaskReceipt, OnTask
      <4> HIDE DEF d
      <4> QED BY <4>1, <4>3, <4>4 DEF LedgerEvent
    <3> QED BY <1>8, <3>1, <3>2
  <2> HIDE DEF m
  <2> QED BY <1>1, <2>3, <2>6, <2>7, InStepBut
<1> QED BY <1>6, <1>7, <1>8

\* A decision is about a task that nobody else has; it ends, or starts over
\* with the attempt that follows on its tier.
LEMMA ApplyInStep ==
  ASSUME Inv, Whole, InStep, DecidesOnReceipt,
         ApplyDone \/ ApplyRetry \/ ApplyEscalate \/ ApplyGate \/ ApplyFail
  PROVE  InStep'
<1> DEFINE t == deciding.task
<1>1. /\ pc = "decide" /\ Serving /\ events' = events /\ wpc' = wpc /\ wtask' = wtask
      /\ jobs' = jobs
  BY DEF ApplyDone, ApplyRetry, ApplyEscalate, ApplyGate, ApplyFail, Serving, pool
<1>2. t \in Task /\ Judged = {t}
  BY <1>1, Ranges
<1>3. t \notin Waiting \cup Sent \cup Taken \cup Answered
  BY <1>2 DEF Inv, Apart
<1>4. t \notin ToStart /\ t \notin Started
  BY <1>3, StartPlaces
<1>5. Held("offered")' = Held("offered") /\ Held("running")' = Held("running")
  BY <1>1, HeldSame
<1>6. Sent' = Sent /\ Started' = Started
  BY <1>1, <1>5, SamePlaces DEF Started
<1>7. attempt[t] + 1 = LadderAttempt(ledger, t)
  BY <1>1 DEF DecidesOnReceipt
<1>8. attempt \in [Task -> Nat] /\ tier \in [Task -> Nat]
  BY Ranges DEF TypeOK
<1>9. CASE ApplyDone \/ ApplyGate \/ ApplyFail
  <2>1. attempt' = attempt
    BY <1>9 DEF ApplyDone, ApplyGate, ApplyFail
  <2>2. Waiting' = Waiting
    BY <1>9, EndMoves
  <2>3. ToStart' = ToStart
    BY <1>5, <1>6, <2>2 DEF ToStart
  <2>4. \E d \in LedgerEvent : ledger' = Append(ledger, d) /\ d.task = t
    <3>1. CASE ApplyDone
      <4> DEFINE d == TaskDone(t, deciding.outcome)
      <4>1. ledger' = Append(ledger, d)
        BY <1>1, <3>1, WholeLine DEF ApplyDone
      <4>2. d \in LedgerEvent
        BY <1>1, Ranges, DecisionTypes
      <4>3. d.task = t
        BY DEF TaskDone, OnTask
      <4> HIDE DEF d
      <4> QED BY <4>1, <4>2, <4>3
    <3>2. CASE ApplyGate
      <4>1. ledger' = Append(ledger, OnTask("task_gate", t))
        BY <1>1, <3>2, WholeLine DEF ApplyGate
      <4>2. "task_gate" \in TaskKinds
        BY DEF TaskKinds
      <4> QED BY <1>2, <4>1, <4>2, EventTypes DEF LedgerEvent
    <3>3. CASE ApplyFail
      <4>1. ledger' = Append(ledger, OnTask("task_failed", t))
        BY <1>1, <3>3, WholeLine DEF ApplyFail
      <4>2. "task_failed" \in TaskKinds
        BY DEF TaskKinds
      <4> QED BY <1>2, <4>1, <4>2, EventTypes DEF LedgerEvent
    <3> QED BY <1>9, <3>1, <3>2, <3>3
  <2> HIDE DEF t
  <2> QED BY <1>4, <1>6, <2>1, <2>3, <2>4, InStepBut
<1>10. CASE ApplyRetry
  <2>1. attempt' = [attempt EXCEPT ![t] = @ + 1] /\ ledger' = ledger
    BY <1>10 DEF ApplyRetry, durable
  <2>2. Waiting' = Waiting \cup {t}
    BY <1>10, AgainMoves
  <2>3. ToStart' \subseteq ToStart \cup {t}
    BY <1>5, <1>6, <2>2 DEF ToStart
  <2>4. attempt'[t] = attempt[t] + 1 /\ \A u \in Task \ {t} : attempt'[u] = attempt[u]
    BY <1>2, <1>8, <2>1
  <2> HIDE DEF t
  <2> QED BY <1>4, <1>6, <1>7, <2>1, <2>3, <2>4, InStepBut
<1>11. CASE ApplyEscalate
  <2> DEFINE d == TaskEscalated(t, tier[t] + 1)
  <2>1. attempt' = [attempt EXCEPT ![t] = 1] /\ ledger' = Append(ledger, d)
    BY <1>1, <1>11, WholeLine DEF ApplyEscalate
  <2>2. Waiting' = Waiting \cup {t}
    BY <1>11, AgainMoves
  <2>3. ToStart' \subseteq ToStart \cup {t}
    BY <1>5, <1>6, <2>2 DEF ToStart
  <2>4. attempt'[t] = 1 /\ \A u \in Task \ {t} : attempt'[u] = attempt[u]
    BY <1>2, <1>8, <2>1
  <2>5. d \in LedgerEvent /\ d.task = t /\ d.event = "task_escalated"
    <3>1. d \in LedgerEvent
      BY <1>1, Ranges, DecisionTypes
    <3> QED BY <3>1 DEF TaskEscalated, OnTask
  <2> HIDE DEF d, t
  <2>6. LadderAttempt(ledger', t) = 1
    BY <2>1, <2>5, Ranges, AttemptAppend
  <2>7. \E c \in LedgerEvent :
          ledger' = Append(ledger, c) /\ (c.task = t \/ c.event = "task_heartbeat")
    BY <2>1, <2>5
  <2> QED BY <1>4, <1>6, <2>3, <2>4, <2>6, <2>7, InStepBut
<1> QED BY <1>9, <1>10, <1>11

\* A task that the budget stops has not been started by this process.
LEMMA HaltInStep ==
  ASSUME Inv, Whole, InStep, HaltOne
  PROVE  InStep'
<1> DEFINE t == Head(remaining)
<1>1. /\ Serving /\ events' = events /\ wpc' = wpc /\ wtask' = wtask /\ attempt' = attempt
      /\ ledger' = Append(ledger, OnTask("task_failed", t))
  BY WholeLine DEF HaltOne, Serving, pool
<1>2. t \in Task /\ t \in Waiting /\ Waiting' = Waiting \ {t} /\ Sent' = Sent
  BY HaltMoves
<1>3. Held("offered")' = Held("offered") /\ Held("running")' = Held("running")
  BY <1>1, HeldSame
<1>4. t \notin Sent \cup Taken \cup Answered
  BY <1>2 DEF Inv, Apart
<1>5. t \notin Started /\ t \notin Held("offered")
  BY <1>4, StartPlaces
<1>6. ToStart' \subseteq ToStart /\ t \notin ToStart' /\ Started' = Started
  BY <1>1, <1>2, <1>3, <1>4, <1>5 DEF ToStart, Started
<1>7. \E d \in LedgerEvent : ledger' = Append(ledger, d) /\ d.task = t
  <2>1. "task_failed" \in TaskKinds
    BY DEF TaskKinds
  <2> QED BY <1>1, <1>2, <2>1, EventTypes DEF LedgerEvent
<1> HIDE DEF t
<1> QED BY <1>1, <1>5, <1>6, <1>7, InStepBut

\* A worker takes a job to its offer and a run to its answer.
LEMMA WorkInStep ==
  ASSUME Inv, InStep, NEW w \in Worker,
         Offer(w) \/ OfferFails(w) \/ Heartbeat(w) \/ Perform(w) \/ Panic(w) \/ Leave(w) \/ Unwind(w)
  PROVE  InStep'
<1> USE DEF durable, sched, pool, env
<1>1. ledger' = ledger /\ attempt' = attempt /\ remaining' = remaining
  BY DEF Offer, OfferFails, Heartbeat, Perform, Panic, Leave, Unwind
<1>2. Waiting' = Waiting
  BY <1>1, SamePlaces
<1>3. wpc \in [Worker -> {"idle", "offered", "running", "gone"}]
      /\ wtask \in [Worker -> Task \cup {NoTask}] /\ events \in Seq(Message)
  BY Ranges DEF TypeOK
<1>4. NoTask \notin ToStart /\ NoTask \notin Started
  BY StartPlaces, Ranges
<1>5. ASSUME ToStart' \subseteq ToStart, Started' \subseteq Started
      PROVE  InStep'
  BY <1>1, <1>4, <1>5, InStepBut
<1>6. CASE Offer(w)
  <2>1. /\ wtask' = [wtask EXCEPT ![w] = Head(jobs)] /\ wpc' = [wpc EXCEPT ![w] = "offered"]
        /\ events' = Append(events, Tell("started", w, Head(jobs)))
    BY <1>6 DEF Offer
  <2>2. Head(jobs) \in Sent /\ Sent' = Sent \ {Head(jobs)} /\ Head(jobs) \in Task
    BY <1>6, OfferMoves
  <2>3. /\ wpc'[w] = "offered" /\ wtask'[w] = Head(jobs)
        /\ \A v \in Worker \ {w} : wpc'[v] = wpc[v] /\ wtask'[v] = wtask[v]
    BY <1>3, <2>1
  <2>4. /\ Held("offered")' \subseteq Held("offered") \cup {Head(jobs)}
        /\ Held("running")' \subseteq Held("running")
    BY <2>3, HeldBut
  <2>5. Tell("started", w, Head(jobs)) \in Message /\ Tell("started", w, Head(jobs)).kind = "started"
    BY <2>2 DEF Tell, Message
  <2>6. Reported(events') \subseteq Reported(events)
    BY <1>3, <2>1, <2>5, AppendReported
  <2> QED BY <1>2, <1>5, <2>2, <2>4, <2>6 DEF ToStart, Started
<1>7. CASE OfferFails(w)
  <2> DEFINE m == [Tell("finished", w, Head(jobs)) EXCEPT !.outcome = "error"]
  <2>1. wtask' = wtask /\ wpc' = wpc /\ events' = Append(events, m)
    BY <1>7 DEF OfferFails
  <2>2. Sent' = Sent \ {Head(jobs)} /\ Head(jobs) \in Sent
    BY <1>7, FailedOfferMoves
  <2>3. m \in Message /\ m.outcome = "error"
    <3>1. Head(jobs) \in Task
      BY <2>2, Ranges DEF Sent, Range
    <3> QED BY <3>1 DEF Tell, Message
  <2> HIDE DEF m
  <2>4. Reported(events') \subseteq Reported(events)
    BY <1>3, <2>1, <2>3, AppendReported
  <2>5. Held("offered")' = Held("offered") /\ Held("running")' = Held("running")
    BY <2>1, HeldSame
  <2> QED BY <1>2, <1>5, <2>2, <2>4, <2>5 DEF ToStart, Started
<1>8. CASE Heartbeat(w)
  <2>1. /\ wtask' = wtask /\ wpc' = wpc /\ jobs' = jobs
        /\ events' = Append(events, Tell("heartbeat", w, wtask[w]))
    BY <1>8 DEF Heartbeat
  <2>2. wtask[w] \in Task
    BY <1>8, HeartbeatMoves
  <2>3. Tell("heartbeat", w, wtask[w]) \in Message
        /\ Tell("heartbeat", w, wtask[w]).kind = "heartbeat"
    BY <2>2 DEF Tell, Message
  <2>4. Reported(events') \subseteq Reported(events)
    BY <1>3, <2>1, <2>3, AppendReported
  <2>5. Held("offered")' = Held("offered") /\ Held("running")' = Held("running") /\ Sent' = Sent
    BY <2>1, HeldSame, SamePlaces
  <2> QED BY <1>2, <1>5, <2>4, <2>5 DEF ToStart, Started
<1>9. CASE Perform(w)
  <2>1. /\ wpc[w] = "running" /\ wpc' = [wpc EXCEPT ![w] = "idle"]
        /\ wtask' = [wtask EXCEPT ![w] = NoTask] /\ jobs' = jobs
    BY <1>9 DEF Perform
  <2>2. PICK m \in Message : events' = Append(events, m) /\ m.task = wtask[w]
    BY <1>9, Ranges, PerformAnswers
  <2>3. Reported(events') \subseteq Reported(events) \cup {wtask[w]}
    BY <1>3, <2>2, AppendReported
  <2>4. wtask[w] \in Held("running")
    BY <2>1 DEF Held
  <2>5. wpc'[w] = "idle" /\ \A v \in Worker \ {w} : wpc'[v] = wpc[v] /\ wtask'[v] = wtask[v]
    BY <1>3, <2>1
  <2>6. Held("offered")' \subseteq Held("offered") /\ Held("running")' \subseteq Held("running")
    BY <2>5, HeldBut
  <2>7. Sent' = Sent
    BY <2>1, SamePlaces
  <2> QED BY <1>2, <1>5, <2>3, <2>4, <2>6, <2>7 DEF ToStart, Started
<1>10. CASE Panic(w) \/ Leave(w) \/ Unwind(w)
  <2>1. /\ wpc' = [wpc EXCEPT ![w] = "gone"] /\ jobs' = jobs /\ events' = events
        /\ wtask' = wtask \/ wtask' = [wtask EXCEPT ![w] = NoTask]
    BY <1>10 DEF Panic, Leave, Unwind
  <2>2. wpc'[w] = "gone" /\ \A v \in Worker \ {w} : wpc'[v] = wpc[v] /\ wtask'[v] = wtask[v]
    BY <1>3, <2>1
  <2>3. Held("offered")' \subseteq Held("offered") /\ Held("running")' \subseteq Held("running")
    BY <2>2, HeldBut
  <2>4. Sent' = Sent
    BY <2>1, SamePlaces
  <2> QED BY <1>2, <1>5, <2>1, <2>3, <2>4 DEF ToStart, Started
<1> QED BY <1>6, <1>7, <1>8, <1>9, <1>10

\* A process that takes the tasks up gives each the attempt the ledger leads to.
LEMMA TakenUpInStep ==
  ASSUME Inv, OnTier, Numbered, Announce \/ ResumeRun
  PROVE  InStep'
<1>1. ledger' = ledger /\ AllGone /\ events = << >>
  BY TakesUp
<1>2. \E queue \in Seq(Task) : \E tokens : Begin(queue, tokens)
  BY TakesUp
<1>3. /\ \A w \in Worker : wpc'[w] \in {"idle", "gone"}
      /\ events' = << >>
  BY <1>1, <1>2, StaffBegins
<1>4. Started' = {}
  BY <1>3 DEF Started, Held, Reported, Verdict, Answers
<1>5. ToStart' \subseteq Task
  <2>1. remaining' \in Seq(Task) /\ jobs' \in Seq(Task)
    BY <1>2, Ranges, BeginType
  <2>2. Held("offered")' = {}
    BY <1>3 DEF Held
  <2>3. Waiting' \subseteq Task /\ Sent' \subseteq Task
    BY <2>1 DEF Waiting, Sent, Range
  <2> QED BY <2>2, <2>3 DEF ToStart
<1>6. ASSUME NEW t \in Task
      PROVE  attempt'[t] = LadderAttempt(ledger, t)
  <2>1. CASE Announce
    <3>1. pc = "announce" /\ attempt' = [u \in Task |-> 1]
      BY <2>1 DEF Announce
    <3> QED BY <3>1 DEF Numbered
  <2>2. CASE ResumeRun
    <3>1. attempt'[t] = ResumeAttempt(ledger, t)
      BY <2>2 DEF ResumeRun
    <3>2. CASE Ladder
      BY <3>1, <3>2 DEF ResumeAttempt
    <3>3. CASE ~Ladder
      <4>1. At(ledger, "task_escalated", t) = {}
        BY <3>3 DEF OnTier, Escalated
      <4>2. Max({} \cup {0}) = 0
        BY NewGreatest
      <4>3. Max({0} \cup At(ledger, "task_escalated", t)) = 0
        <5>1. {0} \cup At(ledger, "task_escalated", t) = {} \cup {0}
          BY <4>1
        <5> QED BY <4>2, <5>1
      <4> QED BY <3>1, <3>3, <4>3 DEF ResumeAttempt, LadderAttempt
    <3> QED BY <3>2, <3>3
  <2> QED BY <2>1, <2>2
<1> QED BY <1>1, <1>4, <1>5, <1>6 DEF InStep

\* Attempts are counted from one before the tasks are taken up, and in step
\* with the ledger while they are served.
LEMMA NumberedStep ==
  ASSUME Inv, Offers, Whole, OnTier, Numbered, DecidesOnReceipt, Next
  PROVE  Numbered'
<1> USE DEF durable, sched, pool, env
<1>1. ASSUME pc' \in {"new", "launch", "queue", "announce"}, NEW t \in Task
      PROVE  LadderAttempt(ledger', t) = 1
  <2>1. pc \in {"new", "launch", "queue", "announce"}
    BY <1>1, EarlySteps
  <2>2. LadderAttempt(ledger, t) = 1
    BY <2>1 DEF Numbered
  <2>3. CASE \E d \in LedgerEvent :
               /\ ledger' = Append(ledger, d)
               /\ d \in Pending \/ (torn /\ d.event = "corrupt" /\ d.task = NoTask)
    <3>1. PICK d \in LedgerEvent :
               /\ ledger' = Append(ledger, d)
               /\ d \in Pending \/ (torn /\ d.event = "corrupt" /\ d.task = NoTask)
      BY <2>3
    <3>2. d.event \notin {"task_started", "task_escalated"}
      BY <2>1, <3>1, PendingAbout
    <3> QED BY <2>2, <3>1, <3>2, Ranges, AttemptAppend
  <2> QED BY <2>2, <2>3, OneLine
<1>2. Serving => InStep
  BY DEF Numbered, InStep
<1>3. ASSUME Serving'
      PROVE  InStep'
  <2>1. CASE Announce \/ ResumeRun
    BY <2>1, TakenUpInStep
  <2>2. CASE DispatchSend \/ DispatchPark \/ DispatchDone \/ WakeUp \/ HaltDone \/ ClockTurns
                          \/ StrayLeaves
    <3>1. Serving
      BY <1>3, <2>2 DEF DispatchSend, DispatchPark, DispatchDone, WakeUp, HaltDone, ClockTurns,
          StrayLeaves, Serving
    <3> QED BY <1>2, <2>2, <3>1, QueueInStep
  <2>3. CASE HandleStarted \/ HandleHeartbeat \/ HandleError \/ HandleReceipt
    <3>1. Serving
      BY <2>3 DEF HandleStarted, HandleHeartbeat, HandleError, HandleReceipt, Receive, Serving
    <3> QED BY <1>2, <2>3, <3>1, HandleInStep
  <2>4. CASE ApplyDone \/ ApplyRetry \/ ApplyEscalate \/ ApplyGate \/ ApplyFail
    <3>1. Serving
      BY <2>4 DEF ApplyDone, ApplyRetry, ApplyEscalate, ApplyGate, ApplyFail, Serving
    <3> QED BY <1>2, <2>4, <3>1, ApplyInStep
  <2>5. CASE HaltOne
    <3>1. Serving
      BY <2>5 DEF HaltOne, Serving
    <3> QED BY <1>2, <2>5, <3>1, HaltInStep
  <2>6. ASSUME NEW w \in Worker, Offer(w) \/ OfferFails(w) \/ Heartbeat(w) \/ Perform(w) \/ Panic(w)
                                 \/ Leave(w) \/ Unwind(w)
        PROVE  InStep'
    <3>1. pc' = pc
      BY <2>6 DEF Offer, OfferFails, Heartbeat, Perform, Panic, Leave, Unwind
    <3>2. Serving
      BY <1>3, <3>1 DEF Serving
    <3> QED BY <1>2, <2>6, <3>2, WorkInStep
  <2>7. ~ (\/ Launch \/ StartRun \/ QueueTask \/ PoolLost \/ LeaveLoop \/ JoinPool \/ Finish
           \/ FinishIndex \/ AppendError \/ IndexError \/ PreflightError \/ SpawnFails
           \/ AbortJoined)
    BY <1>3 DEF Launch, StartRun, QueueTask, PoolLost, Abandon, LeaveLoop, JoinPool, Finish,
        FinishIndex, AppendError, IndexError, PreflightError, SpawnFails, AbortJoined, Serving
  <2>8. ~ (\/ RecordFailure \/ RecordFailureError \/ Crash \/ ResumeRefused \/ ResumeFinished
           \/ Stopped)
    BY <1>3 DEF RecordFailure, RecordFailureError, Crash, ResumeRefused, ResumeFinished, Stopped,
                vars, Serving
  <2> QED BY <2>1, <2>2, <2>3, <2>4, <2>5, <2>6, <2>7, <2>8 DEF Next
<1> QED BY <1>1, <1>3 DEF Numbered, InStep

\* A decision comes with the receipt of a task that was started, and stays
\* until the coordinator has applied it.
LEMMA DecidesStep ==
  ASSUME Inv, Whole, Numbered, DecidesOnReceipt, Next
  PROVE  DecidesOnReceipt'
<1> USE DEF durable, sched, pool, env
<1>1. CASE HandleReceipt
  <2> DEFINE m == Head(events)
             d == TaskReceipt(m.task, attempt[m.task], m.outcome, m.tokens)
  <2>1. /\ pc = "loop" /\ Serving /\ events # << >> /\ events' = Tail(events)
        /\ attempt' = attempt /\ m.kind = "finished" /\ m.outcome # "error"
        /\ deciding' = [task |-> m.task, outcome |-> m.outcome]
    BY <1>1 DEF HandleReceipt, Receive, Serving
  <2>2. m \in Message /\ m.task \in Task
    BY <2>1, ReceiveMoves
  <2>3. ledger' = Append(ledger, d)
    BY <1>1, <2>1, WholeLine DEF HandleReceipt
  <2>4. m.task \in Started
    BY <2>1, Ranges, TailReported DEF Started
  <2>5. attempt[m.task] + 1 = LadderAttempt(ledger, m.task)
    BY <2>1, <2>4 DEF Numbered
  <2>6. d \in LedgerEvent /\ d.event = "task_receipt"
    <3>1. attempt[m.task] \in Nat
      BY <2>2, Ranges DEF TypeOK
    <3>2. m.outcome \in Outcome \cup {"none"} /\ m.tokens \in Nat
      BY <2>1, <2>2 DEF Message
    <3> QED BY <2>2, <3>1, <3>2, WrittenEvents DEF LedgerEvent
  <2>7. d.task = m.task /\ d.outcome = m.outcome
    BY DEF TaskReceipt, OnTask
  <2>8. deciding'.task = m.task /\ deciding'.outcome = m.outcome
    BY <2>1
  <2>9. StageAfter(d) = IF Failing(m.outcome) THEN "failing" ELSE "passed"
    BY <2>6, <2>7 DEF StageAfter
  <2> HIDE DEF d, m
  <2>10. LadderAttempt(ledger', m.task) = LadderAttempt(ledger, m.task)
    BY <2>3, <2>6, Ranges, AttemptAppend
  <2>11. Stage(ledger', m.task) = StageAfter(d)
    BY <2>3, <2>6, <2>7, Ranges, StageAppend
  <2> QED BY <2>1, <2>5, <2>8, <2>9, <2>10, <2>11 DEF DecidesOnReceipt
<1>2. CASE pc = "decide" /\ ledger' = ledger /\ attempt' = attempt /\ deciding' = deciding
  BY <1>2 DEF DecidesOnReceipt
<1>3. ASSUME pc' = "decide", ~HandleReceipt
      PROVE  pc = "decide" /\ ledger' = ledger /\ attempt' = attempt /\ deciding' = deciding
  <2>1. ASSUME Announce \/ ResumeRun PROVE FALSE
    <3>1. \E queue \in Seq(Task) : \E tokens : Begin(queue, tokens)
      BY <2>1, TakesUp
    <3> QED BY <1>3, <3>1, BeginType, Ranges
  <2>2. ~ (\/ Launch \/ StartRun \/ QueueTask \/ DispatchSend \/ DispatchPark
           \/ DispatchDone \/ WakeUp \/ PoolLost \/ LeaveLoop \/ JoinPool \/ Finish
           \/ FinishIndex)
    BY <1>3 DEF Launch, StartRun, QueueTask, DispatchSend, DispatchPark, DispatchDone,
                WakeUp, PoolLost, Abandon, LeaveLoop, JoinPool, Finish, FinishIndex
  <2>3. ~ (\/ HandleStarted \/ HandleHeartbeat \/ HandleError \/ ApplyDone \/ ApplyRetry
           \/ ApplyEscalate \/ ApplyGate \/ ApplyFail \/ HaltOne \/ HaltDone)
    BY <1>3 DEF HandleStarted, HandleHeartbeat, HandleError, Wake, EnforceBudget, ApplyDone,
                ApplyRetry, ApplyEscalate, ApplyGate, ApplyFail, HaltOne, HaltDone, Receive
  <2>4. ~ (\/ AppendError \/ IndexError \/ PreflightError \/ SpawnFails \/ AbortJoined
           \/ RecordFailure
           \/ RecordFailureError \/ Crash \/ ResumeRefused \/ ResumeFinished)
    BY <1>3 DEF AppendError, IndexError, PreflightError, SpawnFails, Abandon, AbortJoined,
        RecordFailure, RecordFailureError, Crash, ResumeRefused, ResumeFinished
  <2>5. CASE ClockTurns \/ StrayLeaves \/ Stopped
    BY <1>3, <2>5 DEF ClockTurns, StrayLeaves, Stopped, vars
  <2>6. ASSUME NEW w \in Worker, Offer(w) \/ OfferFails(w) \/ Heartbeat(w) \/ Perform(w) \/ Panic(w)
                                 \/ Leave(w) \/ Unwind(w)
        PROVE  pc' = pc /\ ledger' = ledger /\ attempt' = attempt /\ deciding' = deciding
    BY <2>6 DEF Offer, OfferFails, Heartbeat, Perform, Panic, Leave, Unwind
  <2> QED BY <1>3, <2>1, <2>2, <2>3, <2>4, <2>5, <2>6 DEF Next
<1>4. pc' # "decide" => DecidesOnReceipt'
  BY DEF DecidesOnReceipt
<1> QED BY <1>1, <1>2, <1>3, <1>4

\* Before anything is written no task has a life.
LEMMA InitLife == Init => LifeInv
<1> SUFFICES ASSUME Init PROVE LifeInv
  OBVIOUS
<1>1. ledger = << >> /\ pc = "new"
  BY DEF Init
<1>2. \A t : LastAttempt(ledger, t, LastClimb(ledger, t)) = 0 /\ LadderTier(ledger, t) = 0
  <2> SUFFICES ASSUME NEW t
               PROVE  LastAttempt(ledger, t, LastClimb(ledger, t)) = 0 /\ LadderTier(ledger, t) = 0
    OBVIOUS
  <2>1. At(ledger, "task_started", t) = {} /\ At(ledger, "task_escalated", t) = {}
    BY <1>1 DEF At
  <2>2. Max({} \cup {0}) = 0
    BY NewGreatest
  <2>3. {0} \cup {ledger[i].attempt : i \in {j \in At(ledger, "task_started", t) :
                                                j > LastClimb(ledger, t)}} = {} \cup {0}
    BY <2>1
  <2>4. Cardinality({}) = 0
    BY FS_EmptySet
  <2> QED BY <2>1, <2>2, <2>3, <2>4 DEF LastAttempt, LadderTier
<1>3. Numbered
  BY <1>1, <1>2 DEF Numbered, LadderAttempt, LastClimb, Serving
<1>4. DecidesOnReceipt
  BY <1>1 DEF DecidesOnReceipt
<1>5. OnLadder
  BY <1>2 DEF OnLadder, Ladder
<1>6. Introduced
  BY <1>1 DEF Introduced, Mentioned
<1>7. Totalled
  BY <1>1 DEF Totalled, Serving, Has
<1> QED BY <1>3, <1>4, <1>5, <1>6, <1>7 DEF LifeInv

LEMMA StepLife == Inv /\ RecordInv /\ AccountInv /\ LifeInv /\ [Next]_vars => LifeInv'
<1> SUFFICES ASSUME Inv, RecordInv, AccountInv, LifeInv, [Next]_vars
             PROVE  LifeInv'
  OBVIOUS
<1>1. CASE Next
  <2>1. Offers /\ Whole /\ OnTier /\ Covered /\ Staffed /\ ActiveIsOut
    BY DEF RecordInv, AccountInv
  <2>2. Numbered'
    BY <1>1, <2>1, NumberedStep DEF LifeInv
  <2>3. DecidesOnReceipt'
    BY <1>1, <2>1, DecidesStep DEF LifeInv
  <2>4. OnLadder'
    BY <1>1, <2>1, OnLadderStep DEF LifeInv
  <2>5. Introduced'
    BY <1>1, <2>1, IntroducedStep DEF LifeInv
  <2>6. Totalled'
    BY <1>1, <2>1, TotalledStep DEF LifeInv
  <2> QED BY <2>2, <2>3, <2>4, <2>5, <2>6 DEF LifeInv
<1>2. CASE UNCHANGED vars
  <2>1. /\ ledger' = ledger /\ pc' = pc /\ attempt' = attempt /\ wpc' = wpc /\ wtask' = wtask
        /\ remaining' = remaining /\ jobs' = jobs /\ events' = events /\ deciding' = deciding
        /\ counts' = counts
    BY <1>2 DEF vars, durable, sched, pool
  <2>2. ToStart' = ToStart /\ Started' = Started
    BY <2>1, HeldSame, SamePlaces DEF ToStart, Started
  <2>3. Numbered'
    BY <2>1, <2>2 DEF LifeInv, Numbered, Serving
  <2>4. DecidesOnReceipt' /\ OnLadder' /\ Introduced' /\ Totalled'
    BY <2>1 DEF LifeInv, DecidesOnReceipt, OnLadder, Introduced, Totalled, Serving
  <2> QED BY <2>3, <2>4 DEF LifeInv
<1> QED BY <1>1, <1>2

\* The attempts a process counts are those the ledger leads to, a decision is
\* about the receipt it ends with, and the counters are those of its ends: what
\* makes every line the next step of the life of its task (handle_started,
\* handle_receipt, apply_step, finish_run, and plan_from_ledger after a crash).
THEOREM LifeIsKept == Spec => []LifeInv
<1>1. Init => LifeInv
  BY InitLife
<1>2. Inv /\ RecordInv /\ AccountInv /\ LifeInv /\ [Next]_vars => LifeInv'
  BY StepLife
<1>3. Spec => []Inv
  BY Invariance
<1>4. Spec => []RecordInv
  BY RecordIsTrue
<1>5. Spec => []AccountInv
  BY AccountIsKept
<1> QED BY <1>1, <1>2, <1>3, <1>4, <1>5, PTL DEF Spec

----------------------------------------------------------------------------
(* Every step is a step of TaskLife, or none.                              *)

\* A line about a task moves that task alone, before the run has a report.
LEMMA LineMoves ==
  ASSUME Inv, Totalled, NEW d \in Pending, ledger' = Append(ledger, d),
         d.event \in TaskKinds \ {"task_heartbeat"}
  PROVE  /\ d \in LedgerEvent /\ d.task \in Task
         /\ ReportOf = << >> /\ ReportOf' = ReportOf
         /\ StageOf' = [StageOf EXCEPT ![d.task] = StageAfter(d)]
         /\ StageOf[d.task] = Stage(ledger, d.task)
         /\ d.event # "task_escalated" => RungOf' = RungOf
         /\ d.event \notin {"task_started", "task_escalated"} => TriesOf' = TriesOf
         /\ d.event = "task_started" /\ d.attempt = LadderAttempt(ledger, d.task) =>
              TriesOf' = [TriesOf EXCEPT ![d.task] = @ + 1]
         /\ d.event = "task_escalated" =>
              /\ RungOf' = [RungOf EXCEPT ![d.task] = @ + 1]
              /\ TriesOf' = [TriesOf EXCEPT ![d.task] = 0]
<1> DEFINE u == d.task
<1>1. ledger \in Seq(LedgerEvent) /\ d \in LedgerEvent
  BY Ranges, PendingTypes
<1>2. u \in Task
  BY <1>1 DEF LedgerEvent, TaskEvent, RunEvent, TaskKinds, RunKinds
<1>3. \A t \in Task : t # u =>
        /\ Stage(ledger', t) = Stage(ledger, t)
        /\ LadderTier(ledger', t) = LadderTier(ledger, t)
        /\ LadderAttempt(ledger', t) = LadderAttempt(ledger, t)
  <2> SUFFICES ASSUME NEW t \in Task, t # u
               PROVE  /\ Stage(ledger', t) = Stage(ledger, t)
                      /\ LadderTier(ledger', t) = LadderTier(ledger, t)
                      /\ LadderAttempt(ledger', t) = LadderAttempt(ledger, t)
    OBVIOUS
  <2>1. Stage(ledger', t) = Stage(ledger, t)
    BY <1>1, StageAppend
  <2>2. LadderTier(ledger', t) = LadderTier(ledger, t)
    BY <1>1, TierAppend
  <2>3. LadderAttempt(ledger', t) = LadderAttempt(ledger, t)
    BY <1>1, AttemptAppend
  <2> QED BY <2>1, <2>2, <2>3
<1>4. Stage(ledger', u) = StageAfter(d)
  BY <1>1, StageAppend
<1>5. /\ LadderTier(ledger, u) \in Nat
      /\ LadderTier(ledger', u) =
           IF d.event = "task_escalated" THEN LadderTier(ledger, u) + 1 ELSE LadderTier(ledger, u)
  BY <1>1, TierAppend
<1>6. /\ LadderAttempt(ledger, u) \in Nat \ {0}
      /\ d.event \notin {"task_started", "task_escalated"} =>
           LadderAttempt(ledger', u) = LadderAttempt(ledger, u)
      /\ d.event = "task_escalated" => LadderAttempt(ledger', u) = 1
      /\ d.event = "task_started" /\ d.attempt = LadderAttempt(ledger, u) =>
           LadderAttempt(ledger', u) = LadderAttempt(ledger, u) + 1
  BY <1>1, AttemptAppend
<1>7. ReportOf = << >> /\ ReportOf' = ReportOf
  <2>1. pc \notin {"index", "abort", "off"}
    BY DEF Pending
  <2>2. pc # "fail"
    BY PendingKinds DEF TaskKinds
  <2>3. Finishes(ledger) = {}
    BY <2>1, <2>2 DEF Totalled, Has, Finishes
  <2>4. d.event # "run_finished"
    BY DEF TaskKinds
  <2>5. Report(Append(ledger, d)) = Report(ledger)
    BY <1>1, <2>4, ReportAppend
  <2> QED BY <2>3, <2>5 DEF ReportOf, Report
<1>8. /\ StageOf' = [t \in Task |-> Stage(ledger', t)]
      /\ RungOf' = [t \in Task |-> LadderTier(ledger', t)]
      /\ TriesOf' = [t \in Task |-> LadderAttempt(ledger', t) - 1]
      /\ StageOf = [t \in Task |-> Stage(ledger, t)]
      /\ RungOf = [t \in Task |-> LadderTier(ledger, t)]
      /\ TriesOf = [t \in Task |-> LadderAttempt(ledger, t) - 1]
  BY DEF StageOf, RungOf, TriesOf
<1> HIDE DEF u
<1>9. StageOf' = [StageOf EXCEPT ![u] = StageAfter(d)] /\ StageOf[u] = Stage(ledger, u)
  BY <1>2, <1>3, <1>4, <1>8
<1>10. d.event # "task_escalated" => RungOf' = RungOf
  BY <1>2, <1>3, <1>5, <1>8
<1>11. d.event \notin {"task_started", "task_escalated"} => TriesOf' = TriesOf
  BY <1>2, <1>3, <1>6, <1>8
<1>12. d.event = "task_started" /\ d.attempt = LadderAttempt(ledger, u) =>
         TriesOf' = [TriesOf EXCEPT ![u] = @ + 1]
  BY <1>2, <1>3, <1>6, <1>8
<1>13. d.event = "task_escalated" => RungOf' = [RungOf EXCEPT ![u] = @ + 1]
  BY <1>2, <1>3, <1>5, <1>8
<1>14. d.event = "task_escalated" => TriesOf' = [TriesOf EXCEPT ![u] = 0]
  BY <1>2, <1>3, <1>6, <1>8
<1> QED BY <1>1, <1>2, <1>7, <1>9, <1>10, <1>11, <1>12, <1>13, <1>14 DEF u

\* A task in hand is open in its life.
LEMMA HandIsOpen ==
  ASSUME Inv, Covered, Introduced, NEW t \in InHand
  PROVE  t \in Task /\ Stage(ledger, t) \in {"waiting", "running", "passed", "failing"}
<1>1. t \in Mentioned(ledger) /\ t \notin Settled(ledger)
  BY DEF Covered, Inv, Unsettled
<1>2. t \in Task /\ News(ledger, t) # {}
  BY <1>1 DEF Introduced, Mentioned
<1> QED BY <1>1, <1>2, Ranges, OpenStage

\* Lines that say nothing of a life: of the run, of damage, and heartbeats.
LEMMA LineStutters ==
  ASSUME Inv, NEW d \in LedgerEvent, ledger' = Append(ledger, d), d.event # "run_finished",
         d.task = NoTask \/ d.event = "task_heartbeat"
  PROVE  UNCHANGED <<StageOf, RungOf, TriesOf, ReportOf>>
<1>1. ledger \in Seq(LedgerEvent) /\ NoTask \notin Task
  BY Ranges
<1>2. ASSUME NEW t \in Task
      PROVE  /\ Stage(ledger', t) = Stage(ledger, t)
             /\ LadderTier(ledger', t) = LadderTier(ledger, t)
             /\ LadderAttempt(ledger', t) = LadderAttempt(ledger, t)
  <2>1. t # NoTask
    BY <1>1
  <2>2. d.task # t \/ d.event = "task_heartbeat"
    BY <2>1
  <2>3. Stage(ledger', t) = Stage(ledger, t)
    BY <1>1, <2>2, StageAppend
  <2>4. LadderTier(ledger', t) = LadderTier(ledger, t)
    BY <1>1, <2>2, TierAppend
  <2>5. LadderAttempt(ledger', t) = LadderAttempt(ledger, t)
    BY <1>1, <2>2, AttemptAppend
  <2> QED BY <2>3, <2>4, <2>5
<1>3. Report(ledger') = Report(ledger)
  BY <1>1, ReportAppend
<1>4. StageOf' = StageOf
  BY <1>2 DEF StageOf
<1>5. RungOf' = RungOf
  BY <1>2 DEF RungOf
<1>6. TriesOf' = TriesOf
  BY <1>2 DEF TriesOf
<1>7. ReportOf' = ReportOf
  BY <1>3 DEF ReportOf
<1> QED BY <1>4, <1>5, <1>6, <1>7

\* A line about a task is the step of its life that the line is named for.
LEMMA LineLives ==
  ASSUME Inv, Offers, Beats, OnTier, Covered, LifeInv,
         NEW d \in Pending, ledger' = Append(ledger, d),
         d.event \in TaskKinds \ {"task_heartbeat"}
  PROVE  Life!Next
<1> DEFINE u == d.task
<1>1. /\ d \in LedgerEvent /\ u \in Task
      /\ ReportOf = << >> /\ ReportOf' = ReportOf
      /\ StageOf' = [StageOf EXCEPT ![u] = StageAfter(d)]
      /\ StageOf[u] = Stage(ledger, u)
  BY LineMoves DEF LifeInv
<1>2. /\ d.event # "task_escalated" => RungOf' = RungOf
      /\ d.event \notin {"task_started", "task_escalated"} => TriesOf' = TriesOf
  BY LineMoves DEF LifeInv
<1>3. Life!Move(u, StageAfter(d))
  BY <1>1 DEF Life!Move, Life!NoReport
<1>4. attempt \in [Task -> Nat] /\ tier \in [Task -> Nat] /\ Tiers \in Nat
  BY Ranges, LedgerAssumption DEF TypeOK
<1>5. /\ TriesOf[u] = LadderAttempt(ledger, u) - 1 /\ RungOf[u] = LadderTier(ledger, u)
      /\ LadderTier(ledger, u) \in Nat
  BY <1>1, Ranges, TierAppend DEF TriesOf, RungOf
<1>6. CASE d.event = "task_queued"
  <2>1. pc = "queue" /\ u = scan
    BY <1>6, PendingKinds
  <2>2. u \notin Mentioned(ledger)
    BY <1>1, <2>1 DEF Covered, Task
  <2>3. News(ledger, u) = {}
    BY <1>1, <2>2 DEF Mentioned, News
  <2>4. StageOf[u] = "absent"
    BY <1>1, <2>3 DEF Stage
  <2>5. StageAfter(d) = "waiting"
    BY <1>6 DEF StageAfter
  <2>6. Life!Admit(u)
    BY <1>1, <1>2, <1>3, <1>6, <2>4, <2>5 DEF Life!Admit
  <2> HIDE DEF u
  <2> QED BY <1>1, <2>6 DEF Life!Next
<1>7. CASE d.event = "task_started"
  <2> DEFINE m == Head(events)
  <2>1. /\ d = TaskStarted(m.task, tier[m.task], attempt[m.task])
        /\ pc = "loop" /\ m.worker \in Worker /\ wpc[m.worker] = "offered"
        /\ wtask[m.worker] = m.task
    BY <1>7, PendingAbout
  <2>2. d.task = m.task /\ d.attempt = attempt[m.task]
    BY <2>1 DEF TaskStarted, OnTask
  <2>3. u \in Held("offered") /\ Serving
    BY <2>1, <2>2 DEF Held, Serving
  <2>4. u \in InHand
    BY <2>3, StartPlaces DEF InHand
  <2>5. attempt[u] = LadderAttempt(ledger, u)
    BY <2>3 DEF LifeInv, Numbered, ToStart
  <2>6. d.attempt = LadderAttempt(ledger, d.task)
    BY <2>2, <2>5
  <2>7. TriesOf' = [TriesOf EXCEPT ![u] = @ + 1]
    BY <1>7, <2>6, LineMoves DEF LifeInv
  <2>8. StageOf[u] \in Life!Open
    BY <1>1, <2>4, HandIsOpen DEF LifeInv, Life!Open
  <2>9. StageAfter(d) = "running"
    BY <1>7 DEF StageAfter
  <2>10. Life!Try(u)
    BY <1>1, <1>2, <1>3, <1>7, <2>7, <2>8, <2>9 DEF Life!Try
  <2> HIDE DEF u
  <2> QED BY <1>1, <2>10 DEF Life!Next
<1>8. CASE d.event = "task_receipt"
  <2> DEFINE m == Head(events)
  <2>1. /\ pc = "loop" /\ events # << >> /\ m.kind = "finished" /\ m.outcome # "error"
        /\ d = TaskReceipt(m.task, attempt[m.task], m.outcome, m.tokens)
    BY <1>8, PendingReceipt
  <2>2. d.task = m.task
    BY <2>1 DEF TaskReceipt, OnTask
  <2>3. u \in Started /\ Serving
    BY <2>1, <2>2, Ranges, TailReported DEF Started, Serving
  <2>4. StageOf[u] = "running"
    BY <1>1, <2>3 DEF LifeInv, Numbered
  <2>5. StageAfter(d) \in {"passed", "failing"}
    BY <1>8 DEF StageAfter
  <2>6. Life!Judge(u)
    BY <1>1, <1>2, <1>3, <1>8, <2>4, <2>5 DEF Life!Judge
  <2> HIDE DEF u
  <2> QED BY <1>1, <2>6 DEF Life!Next
<1>9. ASSUME pc = "decide", u = deciding.task
      PROVE  /\ TriesOf[u] = attempt[u] /\ RungOf[u] = tier[u]
             /\ StageOf[u] = IF Failing(deciding.outcome) THEN "failing" ELSE "passed"
             /\ Decided = NextStep(tier[u], attempt[u], deciding.outcome)
             /\ attempt[u] \in Nat /\ tier[u] \in Nat
  <2>1. Serving
    BY <1>9 DEF Serving
  <2>2. attempt[u] \in Nat /\ tier[u] \in Nat
    BY <1>1, <1>4
  <2>3. attempt[u] + 1 = LadderAttempt(ledger, u)
    BY <1>9 DEF LifeInv, DecidesOnReceipt
  <2>4. tier[u] = LadderTier(ledger, u)
    BY <1>1, <2>1 DEF OnTier
  <2>5. StageOf[u] = IF Failing(deciding.outcome) THEN "failing" ELSE "passed"
    BY <1>1, <1>9 DEF LifeInv, DecidesOnReceipt
  <2>6. Decided = NextStep(tier[u], attempt[u], deciding.outcome)
    BY <1>9 DEF Decided
  <2> QED BY <1>5, <2>2, <2>3, <2>4, <2>5, <2>6
<1>10. CASE d.event = "task_escalated"
  <2>1. pc = "decide" /\ Decided = "escalate" /\ u = deciding.task /\ Ladder
    BY <1>10, PendingAbout
  <2>2. Failing(deciding.outcome) /\ ~(attempt[u] < 2) /\ tier[u] + 1 < Tiers
    BY <1>9, <2>1 DEF NextStep
  <2>3. StageOf[u] = "failing" /\ TriesOf[u] >= 2 /\ RungOf[u] + 1 < Tiers
    BY <1>9, <2>1, <2>2
  <2>4. /\ RungOf' = [RungOf EXCEPT ![u] = @ + 1]
        /\ TriesOf' = [TriesOf EXCEPT ![u] = 0]
    BY <1>10, LineMoves DEF LifeInv
  <2>5. StageAfter(d) = "waiting"
    BY <1>10 DEF StageAfter
  <2>6. Life!Climb(u)
    BY <1>1, <1>3, <2>3, <2>4, <2>5 DEF Life!Climb
  <2> HIDE DEF u
  <2> QED BY <1>1, <2>6 DEF Life!Next
<1>11. CASE d.event = "task_done"
  <2>1. pc = "decide" /\ Decided = "done" /\ u = deciding.task
    BY <1>11, PendingKinds
  <2>2. StageOf[u] = "passed"
    BY <1>9, <2>1 DEF NextStep
  <2>3. StageAfter(d) = "done"
    BY <1>11 DEF StageAfter
  <2>4. Life!Accept(u)
    BY <1>1, <1>2, <1>3, <1>11, <2>2, <2>3 DEF Life!Accept
  <2> HIDE DEF u
  <2> QED BY <1>1, <2>4 DEF Life!Next
<1>12. CASE d.event = "task_gate"
  <2>1. pc = "decide" /\ Decided = "gate" /\ u = deciding.task
    BY <1>12, PendingKinds
  <2>2. /\ Failing(deciding.outcome) /\ ~(attempt[u] < 2) /\ ~(tier[u] + 1 < Tiers) /\ Ladder
    BY <1>9, <2>1 DEF NextStep
  <2>3. LadderTier(ledger, u) < Tiers
    BY <1>1, <2>2 DEF LifeInv, OnLadder
  <2>4. StageOf[u] = "failing" /\ TriesOf[u] >= 2 /\ RungOf[u] + 1 = Tiers
    BY <1>4, <1>5, <1>9, <2>1, <2>2, <2>3
  <2>5. StageAfter(d) = "gated"
    BY <1>12 DEF StageAfter
  <2>6. Life!Gate(u)
    BY <1>1, <1>2, <1>3, <1>12, <2>4, <2>5 DEF Life!Gate
  <2> HIDE DEF u
  <2> QED BY <1>1, <2>6 DEF Life!Next
<1>13. CASE d.event = "task_failed"
  <2>1. \/ pc = "halt" /\ remaining # << >> /\ u = Head(remaining)
        \/ pc = "decide" /\ u = deciding.task
        \/ pc = "loop" /\ events # << >> /\ u = Head(events).task /\ Head(events).kind = "finished"
    BY <1>13, PendingUnsettled DEF TerminalKinds
  <2>2. u \in InHand
    <3>1. CASE pc = "halt" /\ remaining # << >> /\ u = Head(remaining)
      BY <3>1, Ranges, TailOfQueue DEF InHand, Waiting
    <3>2. CASE pc = "decide" /\ u = deciding.task
      BY <3>2, Ranges DEF InHand
    <3>3. CASE /\ pc = "loop" /\ events # << >> /\ u = Head(events).task
               /\ Head(events).kind = "finished"
      BY <3>3, Ranges, TailOfEvents DEF InHand, Answered
    <3> QED BY <2>1, <3>1, <3>2, <3>3
  <2>3. StageOf[u] \in Life!Open
    BY <1>1, <2>2, HandIsOpen DEF LifeInv, Life!Open
  <2>4. StageAfter(d) = "failed"
    BY <1>13 DEF StageAfter
  <2>5. Life!GiveUp(u)
    BY <1>1, <1>2, <1>3, <1>13, <2>3, <2>4 DEF Life!GiveUp
  <2> HIDE DEF u
  <2> QED BY <1>1, <2>5 DEF Life!Next
<1> QED BY <1>6, <1>7, <1>8, <1>10, <1>11, <1>12, <1>13 DEF TaskKinds

\* The line that ends the run closes the lives and counts their ends.
LEMMA LineCloses ==
  ASSUME Inv, NothingAfterTerminal, LifeInv,
         NEW d \in Pending, ledger' = Append(ledger, d), d.event = "run_finished"
  PROVE  Life!Close
<1>1. ledger \in Seq(LedgerEvent) /\ d \in LedgerEvent
  BY Ranges, PendingTypes
<1>2. pc = "finish" /\ d = RunFinished(counts)
  BY PendingKinds
<1>3. Silent(ledger) /\ SingleTerminal(ledger)
  BY DEF Silent, NothingAfterTerminal, Inv, OneTerminalPerTask
<1>4. Todo(ledger) = {} /\ Finishes(ledger) = {} /\ counts = TerminalCounts(ledger)
  BY <1>2 DEF LifeInv, Totalled, Has, Finishes
<1>5. UNCHANGED <<StageOf, RungOf, TriesOf>>
  <2>1. ASSUME NEW t \in Task
        PROVE  /\ Stage(ledger', t) = Stage(ledger, t)
               /\ LadderTier(ledger', t) = LadderTier(ledger, t)
               /\ LadderAttempt(ledger', t) = LadderAttempt(ledger, t)
    <3>1. d.task # t
      BY <1>2, Ranges DEF RunFinished, OnRun
    <3>2. Stage(ledger', t) = Stage(ledger, t)
      BY <1>1, <3>1, StageAppend
    <3>3. LadderTier(ledger', t) = LadderTier(ledger, t)
      BY <1>1, <3>1, TierAppend
    <3>4. LadderAttempt(ledger', t) = LadderAttempt(ledger, t)
      BY <1>1, <3>1, AttemptAppend
    <3> QED BY <3>2, <3>3, <3>4
  <2>2. StageOf' = StageOf
    BY <2>1 DEF StageOf
  <2>3. RungOf' = RungOf
    BY <2>1 DEF RungOf
  <2>4. TriesOf' = TriesOf
    BY <2>1 DEF TriesOf
  <2> QED BY <2>2, <2>3, <2>4
<1>6. ReportOf = << >>
  BY <1>4 DEF ReportOf, Report
<1>7. ASSUME NEW t \in Task
      PROVE  StageOf[t] \notin Life!Open
  <2>1. StageOf[t] = Stage(ledger, t)
    BY <1>7 DEF StageOf
  <2>2. CASE t \in Settled(ledger)
    <3>1. PICK i \in DOMAIN ledger : ledger[i].event \in TerminalKinds /\ ledger[i].task = t
      BY <2>2 DEF Settled, At
    <3>2. Stage(ledger, t) = StageAfter(ledger[i])
      BY <1>1, <1>3, <3>1, ClosedStage
    <3>3. StageAfter(ledger[i]) \in {"done", "failed", "gated"}
      BY <3>1 DEF StageAfter, TerminalKinds
    <3> QED BY <2>1, <3>2, <3>3 DEF Life!Open
  <2>3. CASE t \notin Settled(ledger)
    <3>1. t \notin Mentioned(ledger)
      BY <1>4, <2>3 DEF Todo
    <3>2. News(ledger, t) = {}
      BY <1>7, <3>1 DEF Mentioned, News
    <3>3. Stage(ledger, t) = "absent"
      BY <3>2 DEF Stage
    <3> QED BY <2>1, <3>3 DEF Life!Open
  <2> QED BY <2>2, <2>3
<1>8. ReportOf' = <<counts.done, counts.failed, counts.gated>>
  <2>1. Report(ledger') = <<d.counts.done, d.counts.failed, d.counts.gated>>
    BY <1>1, <1>4, ReportAppend
  <2>2. d.counts = counts
    BY <1>2 DEF RunFinished, OnRun
  <2> QED BY <2>1, <2>2 DEF ReportOf
<1>9. /\ Life!In("done") = CountOf(ledger, "task_done")
      /\ Life!In("failed") = CountOf(ledger, "task_failed")
      /\ Life!In("gated") = CountOf(ledger, "task_gate")
  <2>1. \A end : {t \in Task : StageOf[t] = end} = {t \in Task : Stage(ledger, t) = end}
    BY DEF StageOf
  <2>2. ASSUME NEW end
        PROVE  Life!In(end) = Cardinality({t \in Task : Stage(ledger, t) = end})
    <3>1. {t \in Task : StageOf[t] = end} = {t \in Task : Stage(ledger, t) = end}
      BY <2>1
    <3>2. Life!In(end) = Cardinality({t \in Task : StageOf[t] = end})
      BY DEF Life!In, Life!Cardinality, Cardinality
    <3> QED BY <3>1, <3>2
  <2>3. \A e \in TaskEvent : e.event # "task_heartbeat" =>
          /\ StageAfter(e) = "done" <=> e.event = "task_done"
          /\ StageAfter(e) = "failed" <=> e.event = "task_failed"
          /\ StageAfter(e) = "gated" <=> e.event = "task_gate"
    BY DEF TaskEvent, TaskKinds, StageAfter
  <2>4. Cardinality({t \in Task : Stage(ledger, t) = "done"}) = CountOf(ledger, "task_done")
    BY <1>1, <1>3, <2>3, EndsCounted DEF TerminalKinds
  <2>5. Cardinality({t \in Task : Stage(ledger, t) = "failed"}) = CountOf(ledger, "task_failed")
    BY <1>1, <1>3, <2>3, EndsCounted DEF TerminalKinds
  <2>6. Cardinality({t \in Task : Stage(ledger, t) = "gated"}) = CountOf(ledger, "task_gate")
    BY <1>1, <1>3, <2>3, EndsCounted DEF TerminalKinds
  <2> QED BY <2>2, <2>4, <2>5, <2>6
<1>10. ReportOf' = <<Life!In("done"), Life!In("failed"), Life!In("gated")>>
  BY <1>4, <1>8, <1>9 DEF TerminalCounts
<1> QED BY <1>5, <1>6, <1>7, <1>10 DEF Life!Close, Life!NoReport

\* Whatever the process does, the tasks live as TaskLife allows or not at all.
LEMMA LifeStep ==
  ASSUME Inv, RecordInv, AccountInv, LifeInv, [Next]_vars
  PROVE  [Life!Next]_(Life!vars)
<1>1. Offers /\ Beats /\ OnTier /\ Covered /\ NothingAfterTerminal
  BY DEF RecordInv, AccountInv
<1>2. CASE ledger' = ledger
  <2>1. StageOf' = StageOf /\ RungOf' = RungOf /\ TriesOf' = TriesOf /\ ReportOf' = ReportOf
    BY <1>2 DEF StageOf, RungOf, TriesOf, ReportOf
  <2> QED BY <2>1 DEF Life!vars
<1>3. CASE Next /\ ledger' # ledger
  <2>1. PICK d \in LedgerEvent :
             /\ ledger' = Append(ledger, d)
             /\ d \in Pending \/ (torn /\ d.event = "corrupt" /\ d.task = NoTask)
    BY <1>3, OneLine
  <2>2. CASE d \in Pending /\ d.event \in TaskKinds \ {"task_heartbeat"}
    BY <1>1, <2>1, <2>2, LineLives
  <2>3. CASE d \in Pending /\ d.event = "run_finished"
    <3>1. Life!Close
      BY <1>1, <2>1, <2>3, LineCloses
    <3> QED BY <3>1 DEF Life!Next
  <2>4. CASE d.event # "run_finished" /\ (d.task = NoTask \/ d.event = "task_heartbeat")
    <3>1. UNCHANGED <<StageOf, RungOf, TriesOf, ReportOf>>
      BY <2>1, <2>4, LineStutters
    <3> QED BY <3>1 DEF Life!vars
  <2>5. d.event \in RunKinds => d.task = NoTask
    BY <2>1 DEF LedgerEvent, TaskEvent, RunEvent, TaskKinds, RunKinds
  <2>6. d.event \in TaskKinds \cup RunKinds
    BY <2>1 DEF LedgerEvent, TaskEvent, RunEvent
  <2>7. d.event = "run_finished" => d \in Pending
    BY <2>1
  <2> QED BY <2>1, <2>2, <2>3, <2>4, <2>5, <2>6, <2>7
<1>4. CASE UNCHANGED vars
  BY <1>2, <1>4 DEF vars, durable
<1> QED BY <1>2, <1>3, <1>4

\* The lives begin before the first line.
LEMMA LifeBegins == Init => Life!Init
<1> SUFFICES ASSUME Init PROVE Life!Init
  OBVIOUS
<1>1. ledger = << >>
  BY DEF Init
<1>2. ASSUME NEW t \in Task
      PROVE  Stage(ledger, t) = "absent" /\ LadderTier(ledger, t) = 0 /\ LadderAttempt(ledger, t) = 1
  <2>1. News(ledger, t) = {} /\ At(ledger, "task_escalated", t) = {}
    BY <1>1 DEF News, At
  <2>2. LadderTier(ledger, t) = 0
    BY <2>1, FS_EmptySet DEF LadderTier
  <2>3. LadderAttempt(ledger, t) = 1
    BY InitLife, <1>1 DEF LifeInv, Numbered, Init
  <2> QED BY <2>1, <2>2, <2>3 DEF Stage
<1>3. Finishes(ledger) = {}
  BY <1>1 DEF Finishes
<1>4. StageOf = [t \in Task |-> "absent"]
  BY <1>2 DEF StageOf
<1>5. RungOf = [t \in Task |-> 0]
  BY <1>2 DEF RungOf
<1>6. TriesOf = [t \in Task |-> 0]
  BY <1>2 DEF TriesOf
<1>7. ReportOf = << >>
  BY <1>3 DEF ReportOf, Report
<1> QED BY <1>4, <1>5, <1>6, <1>7 DEF Life!Init, Life!NoReport

\* A fleet run implements TaskLife: through dispatch, threads, panics, failed
\* appends, crashes and resumes, the ledger tells of each task a life in which
\* starts count up by one, a receipt answers the start before it, a tier is left
\* after a failing second try, the end comes once, and the report adds up
\* (scheduler.rs and plan_from_ledger).
THEOREM LifeIsLived == Spec => TasksLiveAsPromised
<1>1. Init => Life!Init
  BY LifeBegins
<1>2. Inv /\ RecordInv /\ AccountInv /\ LifeInv /\ [Next]_vars => [Life!Next]_(Life!vars)
  BY LifeStep
<1>3. Spec => []Inv
  BY Invariance
<1>4. Spec => []RecordInv
  BY RecordIsTrue
<1>5. Spec => []AccountInv
  BY AccountIsKept
<1>6. Spec => []LifeInv
  BY LifeIsKept
<1> QED BY <1>1, <1>2, <1>3, <1>4, <1>5, <1>6, PTL DEF Spec, TasksLiveAsPromised, Life!Spec
==============================================================================
