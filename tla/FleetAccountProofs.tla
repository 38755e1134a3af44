-------------------------- MODULE FleetAccountProofs --------------------------
(***************************************************************************)
(* Theorems about what a run keeps count of: the tokens its receipts have  *)
(* reported, the slots its jobs take, and the tasks that are not settled.  *)
(* The invariant is AccountInv, beside Inv and RecordInv.                  *)
(***************************************************************************)
EXTENDS FleetProofs, FunctionTheorems

----------------------------------------------------------------------------
(* The tokens of a ledger.                                                 *)

\* What a line adds to the meter, and the meter after each of the first n lines.
Tokens(e) == IF e.event = "task_receipt" THEN e.tokens ELSE 0
Sums(l, n, f) ==
  /\ f \in [0 .. n -> Nat]
  /\ f[0] = 0
  /\ \A k \in 1 .. n : f[k] = f[k - 1] + Tokens(l[k])

\* Every ledger has a meter reading at each of its lines.
LEMMA SumsExist ==
  ASSUME NEW l \in Seq(LedgerEvent), NEW n \in 0 .. Len(l)
  PROVE  \E f : Sums(l, n, f)
<1>1. Len(l) \in Nat /\ \A k \in 1 .. Len(l) : Tokens(l[k]) \in Nat
  <2>1. ASSUME NEW k \in 1 .. Len(l)
        PROVE  Tokens(l[k]) \in Nat
    <3>1. l[k] \in LedgerEvent
      OBVIOUS
    <3> QED BY <3>1 DEF Tokens, LedgerEvent, TaskEvent, RunEvent, RunKinds
  <2> QED BY <2>1, LenProperties
<1> DEFINE bad == {k \in 0 .. Len(l) : ~ \E f : Sums(l, k, f)}
<1>2. ASSUME bad # {}
      PROVE  FALSE
  <2>1. bad \in SUBSET Nat
    BY <1>1
  <2>2. PICK m \in bad : \A k \in bad : m <= k
    BY <1>2, <2>1, LeastNatural
  <2>3. CASE m = 0
    <3>1. Sums(l, 0, [k \in 0 .. 0 |-> 0])
      BY DEF Sums
    <3> QED BY <2>2, <2>3, <3>1
  <2>4. CASE m # 0
    <3>1. m - 1 \in 0 .. Len(l) /\ ~(m <= m - 1) /\ m \in 1 .. Len(l)
      BY <1>1, <2>2, <2>4
    <3>2. PICK f : Sums(l, m - 1, f)
      BY <2>2, <3>1
    <3> DEFINE g == [k \in 0 .. m |-> IF k = m THEN f[m - 1] + Tokens(l[m]) ELSE f[k]]
    <3>3. /\ f \in [0 .. m - 1 -> Nat] /\ f[0] = 0
          /\ \A k \in 1 .. m - 1 : f[k] = f[k - 1] + Tokens(l[k])
      BY <3>2 DEF Sums
    <3>4. Tokens(l[m]) \in Nat /\ f[m - 1] \in Nat
      BY <1>1, <3>1, <3>3
    <3>5. g \in [0 .. m -> Nat] /\ g[0] = 0
      BY <3>1, <3>3, <3>4
    <3>6. \A k \in 1 .. m : g[k] = g[k - 1] + Tokens(l[k])
      BY <3>1, <3>3, <3>4
    <3>7. Sums(l, m, g)
      BY <3>5, <3>6 DEF Sums
    <3> QED BY <2>2, <3>7
  <2> QED BY <2>3, <2>4
<1> QED BY <1>2

\* Two ledgers agree on the meter as long as they agree on their lines.
LEMMA SumsAgree ==
  ASSUME NEW n \in Nat, NEW m \in Nat, n <= m, NEW l, NEW h, NEW f, NEW g,
         Sums(l, n, f), Sums(h, m, g), \A k \in 1 .. n : l[k] = h[k]
  PROVE  f[n] = g[n]
<1> DEFINE bad == {k \in 0 .. n : f[k] # g[k]}
<1>1. ASSUME bad # {}
      PROVE  FALSE
  <2>1. bad \in SUBSET Nat
    OBVIOUS
  <2>2. PICK j \in bad : \A k \in bad : j <= k
    BY <1>1, <2>1, LeastNatural
  <2>3. j # 0
    BY <2>2 DEF Sums
  <2>4. j \in 1 .. n /\ j \in 1 .. m /\ j - 1 \in 0 .. n /\ ~(j <= j - 1)
    BY <2>2, <2>3
  <2>5. f[j - 1] = g[j - 1]
    BY <2>2, <2>4
  <2>6. f[j] = f[j - 1] + Tokens(l[j]) /\ g[j] = g[j - 1] + Tokens(h[j])
    BY <2>4 DEF Sums
  <2> QED BY <2>2, <2>4, <2>5, <2>6
<1> QED BY <1>1

\* The meter of a ledger is its last reading.
LEMMA ReadMeter ==
  ASSUME NEW l \in Seq(LedgerEvent), NEW f, Sums(l, Len(l), f)
  PROVE  ReceiptTokens(l) = f[Len(l)] /\ f[Len(l)] \in Nat
<1>1. Len(l) \in Nat
  BY LenProperties
<1> DEFINE step(g) == [n \in 0 .. Len(l) |->
                        IF n = 0 THEN 0
                        ELSE g[n - 1]
                             + (IF l[n].event = "task_receipt" THEN l[n].tokens ELSE 0)]
           upTo == CHOOSE g : g = step(g)
<1>2. ReceiptTokens(l) = upTo[Len(l)]
  BY DEF ReceiptTokens
<1>3. f = step(f)
  BY <1>1 DEF Sums, Tokens
<1>4. upTo = step(upTo)
  BY <1>3
<1> HIDE DEF upTo
<1> DEFINE bad == {k \in 0 .. Len(l) : f[k] # upTo[k]}
<1>5. ASSUME bad # {}
      PROVE  FALSE
  <2>1. bad \in SUBSET Nat
    BY <1>1
  <2>2. PICK j \in bad : \A k \in bad : j <= k
    BY <1>5, <2>1, LeastNatural
  <2>3. j \in 0 .. Len(l) /\ f[j] # upTo[j]
    BY <2>2
  <2>4. j # 0
    BY <1>3, <1>4, <2>3
  <2>5. j - 1 \in 0 .. Len(l) /\ ~(j <= j - 1)
    BY <1>1, <2>3, <2>4
  <2>6. f[j - 1] = upTo[j - 1]
    BY <2>2, <2>5
  <2> QED BY <1>3, <1>4, <2>3, <2>4, <2>6
<1>6. f[Len(l)] = upTo[Len(l)]
  BY <1>1, <1>5
<1> QED BY <1>1, <1>2, <1>6 DEF Sums

\* What the meter of a ledger is, and what a line adds to it.
LEMMA MeterAppend ==
  ASSUME NEW l \in Seq(LedgerEvent), NEW e \in LedgerEvent
  PROVE  /\ ReceiptTokens(l) \in Nat
         /\ ReceiptTokens(Append(l, e)) = ReceiptTokens(l) + Tokens(e)
         /\ Tokens(e) \in Nat
<1> DEFINE h == Append(l, e)
<1>1. /\ Len(l) \in Nat /\ h \in Seq(LedgerEvent) /\ Len(h) = Len(l) + 1
      /\ \A k \in 1 .. Len(l) : l[k] = h[k]
      /\ h[Len(h)] = e
      /\ Len(h) \in 0 .. Len(h) /\ Len(l) \in 0 .. Len(l)
  OBVIOUS
<1> HIDE DEF h
<1>2. Tokens(e) \in Nat
  BY DEF Tokens, LedgerEvent, TaskEvent, RunEvent, RunKinds
<1>3. PICK f : Sums(l, Len(l), f)
  BY <1>1, SumsExist
<1>4. PICK g : Sums(h, Len(h), g)
  BY <1>1, SumsExist
<1>5. ReceiptTokens(l) = f[Len(l)] /\ ReceiptTokens(l) \in Nat
  BY <1>3, ReadMeter
<1>6. ReceiptTokens(h) = g[Len(h)]
  BY <1>1, <1>4, ReadMeter
<1>7. f[Len(l)] = g[Len(l)]
  BY <1>1, <1>3, <1>4, SumsAgree
<1>8. g[Len(h)] = g[Len(l)] + Tokens(e)
  BY <1>1, <1>4 DEF Sums
<1> QED BY <1>2, <1>5, <1>6, <1>7, <1>8 DEF h

\* The meter never runs backwards.
LEMMA MeterGrows ==
  ASSUME NEW l \in Seq(LedgerEvent), NEW i \in 1 .. Len(l)
  PROVE  ReceiptTokens(SubSeq(l, 1, i)) <= ReceiptTokens(l)
<1> DEFINE h == SubSeq(l, 1, i)
<1>1. /\ Len(l) \in Nat /\ i \in Nat /\ i <= Len(l)
      /\ h \in Seq(LedgerEvent) /\ Len(h) = i
      /\ \A k \in 1 .. i : h[k] = l[k]
      /\ i \in 0 .. Len(h) /\ Len(l) \in 0 .. Len(l)
  OBVIOUS
<1> HIDE DEF h
<1>2. PICK f : Sums(h, i, f)
  BY <1>1, SumsExist
<1>3. PICK g : Sums(l, Len(l), g)
  BY <1>1, SumsExist
<1>4. ReceiptTokens(h) = g[i] /\ ReceiptTokens(l) = g[Len(l)]
  BY <1>1, <1>2, <1>3, ReadMeter, SumsAgree
<1>5. /\ g \in [0 .. Len(l) -> Nat]
      /\ \A k \in 1 .. Len(l) : g[k] = g[k - 1] + Tokens(l[k]) /\ Tokens(l[k]) \in Nat
  <2>1. ASSUME NEW k \in 1 .. Len(l)
        PROVE  Tokens(l[k]) \in Nat
    <3>1. l[k] \in LedgerEvent
      OBVIOUS
    <3> QED BY <3>1 DEF Tokens, LedgerEvent, TaskEvent, RunEvent, RunKinds
  <2> QED BY <1>3, <2>1 DEF Sums
<1> DEFINE bad == {k \in i .. Len(l) : g[k] < g[i]}
<1>6. ASSUME bad # {}
      PROVE  FALSE
  <2>1. bad \in SUBSET Nat
    BY <1>1
  <2>2. PICK j \in bad : \A k \in bad : j <= k
    BY <1>6, <2>1, LeastNatural
  <2>3. j \in i .. Len(l) /\ g[j] < g[i] /\ g[i] \in Nat /\ j \in Nat /\ g[j] \in Nat
    <3>1. j \in i .. Len(l) /\ g[j] < g[i]
      BY <2>2
    <3>2. j \in 0 .. Len(l) /\ i \in 0 .. Len(l) /\ j \in Nat
      BY <1>1, <3>1
    <3> HIDE DEF bad
    <3> QED BY <1>5, <3>1, <3>2
  <2>4. j # i
    BY <2>3
  <2>5. j - 1 \in i .. Len(l) /\ j - 1 \in 0 .. Len(l) /\ j \in 1 .. Len(l) /\ ~(j <= j - 1)
    BY <1>1, <2>3, <2>4
  <2>6. ~(g[j - 1] < g[i])
    BY <2>2, <2>5
  <2>7. g[j] = g[j - 1] + Tokens(l[j]) /\ g[j - 1] \in Nat /\ Tokens(l[j]) \in Nat
    BY <1>5, <2>5
  <2> QED BY <2>3, <2>6, <2>7
<1>7. ~(g[Len(l)] < g[i]) /\ g[Len(l)] \in Nat /\ g[i] \in Nat
  BY <1>1, <1>5, <1>6
<1> QED BY <1>4, <1>7 DEF h

\* An empty ledger has reported nothing.
LEMMA MeterStarts == ReceiptTokens(<< >>) = 0
<1>1. << >> \in Seq(LedgerEvent) /\ Len(<< >>) = 0 /\ 0 \in 0 .. Len(<< >>)
  OBVIOUS
<1>2. PICK f : Sums(<< >>, 0, f)
  BY <1>1, SumsExist
<1> QED BY <1>1, <1>2, ReadMeter DEF Sums

----------------------------------------------------------------------------
(* The meter of a run and the budget it is held against.                   *)

\* The receipt the coordinator is about to write is that of the answer in front.
LEMMA PendingReceipt ==
  ASSUME Inv, NEW e \in Pending, e.event = "task_receipt"
  PROVE  /\ pc = "loop" /\ ~Complete /\ events # << >>
         /\ Head(events).kind = "finished" /\ Head(events).outcome # "error"
         /\ e = TaskReceipt(Head(events).task, attempt[Head(events).task],
                            Head(events).outcome, Head(events).tokens)
<1> DEFINE m == Head(events)
<1>1. CASE pc = "loop"
  <2>1. /\ events # << >> /\ ~Complete
        /\ e = IF m.kind = "started" THEN TaskStarted(m.task, tier[m.task], attempt[m.task])
               ELSE IF m.kind = "heartbeat" THEN OnTask("task_heartbeat", m.task)
               ELSE IF m.outcome = "error" THEN OnTask("task_failed", m.task)
               ELSE TaskReceipt(m.task, attempt[m.task], m.outcome, m.tokens)
    BY <1>1 DEF Pending
  <2>2. m.kind \in {"started", "heartbeat", "finished"}
    BY <2>1, Ranges, TailOfEvents DEF Message
  <2> QED BY <1>1, <2>1, <2>2 DEF TaskStarted, OnTask
<1>2. CASE pc = "decide"
  BY <1>2 DEF Pending, TaskDone, TaskEscalated, OnTask
<1>3. CASE pc \notin {"loop", "decide"}
  BY <1>3 DEF Pending, OnTask, OnRun, RunFinished
<1> QED BY <1>1, <1>2, <1>3

\* Only the answer of a task run moves the meter of the ledger.
LEMMA MeterSteps ==
  ASSUME Inv, Next, ~HandleReceipt, ~AppendError
  PROVE  /\ ReceiptTokens(ledger') = ReceiptTokens(ledger)
         /\ ledger' = ledger \/ \E d \in LedgerEvent :
                                  ledger' = Append(ledger, d) /\ d.event # "task_receipt"
<1> USE DEF durable, sched, pool, env
<1>1. CASE ledger' = ledger
  BY <1>1
<1>2. ASSUME NEW e \in Pending, Written(e), e.event # "task_receipt"
      PROVE  /\ ReceiptTokens(ledger') = ReceiptTokens(ledger)
             /\ \E d \in LedgerEvent : ledger' = Append(ledger, d) /\ d.event # "task_receipt"
  <2>1. PICK d \in LedgerEvent : ledger' = Append(ledger, d) /\ (d = e \/ d.event = "corrupt")
    BY <1>2, WrittenLine
  <2>2. Tokens(d) = 0
    BY <1>2, <2>1 DEF Tokens
  <2>3. ReceiptTokens(ledger) \in Nat /\ ReceiptTokens(ledger') = ReceiptTokens(ledger) + 0
    BY <2>1, <2>2, MeterAppend, Ranges
  <2> QED BY <1>2, <2>1, <2>3
<1>3. ASSUME NEW e \in Pending, e.event = "task_receipt"
      PROVE  ledger' = ledger
  <2>1. /\ pc = "loop" /\ events # << >> /\ Head(events).kind = "finished"
        /\ Head(events).outcome # "error"
    BY <1>3, PendingReceipt
  <2>2. ASSUME NEW w \in Worker, \/ Offer(w) \/ OfferFails(w) \/ Heartbeat(w) \/ Perform(w)
                                 \/ Panic(w) \/ Leave(w) \/ Unwind(w)
        PROVE  ledger' = ledger
    BY <2>2 DEF Offer, OfferFails, Heartbeat, Perform, Panic, Leave, Unwind
  <2> QED BY <2>1, <2>2
          DEF Next, Launch, StartRun, QueueTask, Announce, DispatchSend, DispatchPark,
              DispatchDone, WakeUp, PoolLost, HandleStarted, HandleHeartbeat, HandleError,
              Receive, ApplyDone, ApplyRetry, ApplyEscalate, ApplyGate, ApplyFail, HaltOne,
              HaltDone, LeaveLoop, JoinPool, Finish, FinishIndex, IndexError, PreflightError,
              SpawnFails, AbortJoined, RecordFailure, RecordFailureError, Crash, ResumeRefused,
              ResumeFinished, ResumeRun, Reopen, ClockTurns, StrayLeaves, Stopped, vars
<1> QED BY <1>1, <1>2, <1>3, LedgerGrows

\* The budget is spent by no fewer tokens than another budget.
LEMMA OverGrows ==
  ASSUME NEW m \in Nat, NEW n \in Nat, m <= n, Over(m)
  PROVE  Over(n)
BY FleetAssumption DEF Over

\* A receipt is metered in the scheduler as in the ledger.
LEMMA ReceiptMetered ==
  ASSUME Inv, Whole, HandleReceipt
  PROVE  /\ Head(events).tokens \in Nat /\ Head(events).kind = "finished"
         /\ pc = "loop" /\ events # << >>
         /\ ReceiptTokens(ledger') = ReceiptTokens(ledger) + Head(events).tokens
         /\ \E d \in LedgerEvent : ledger' = Append(ledger, d) /\ d.event = "task_receipt"
<1> DEFINE m == Head(events)
           e == TaskReceipt(m.task, attempt[m.task], m.outcome, m.tokens)
<1>1. /\ pc = "loop" /\ ~Complete /\ events # << >> /\ m.kind = "finished" /\ m.outcome # "error"
      /\ ledger' = Append(ledger, e)
  BY DEF HandleReceipt, Receive, Commit, Whole
<1>2. e \in Pending
  BY <1>1 DEF Pending
<1>3. m.tokens \in Nat
  BY <1>1, Ranges, TailOfEvents DEF Message
<1>4. e.event = "task_receipt" /\ e.tokens = m.tokens
  BY DEF TaskReceipt, OnTask
<1>5. e \in LedgerEvent
  BY <1>2, PendingTypes, Ranges
<1> HIDE DEF m, e
<1>6. ReceiptTokens(ledger') = ReceiptTokens(ledger) + m.tokens
  BY <1>1, <1>4, <1>5, MeterAppend, Ranges DEF Tokens
<1> QED BY <1>1, <1>3, <1>4, <1>5, <1>6 DEF m

\* The scheduler's meter stays that of the ledger, and it halts when it is spent.
LEMMA MeteredStep ==
  ASSUME Inv, Whole, Metered, Next
  PROVE  Metered'
<1> USE DEF durable, sched, pool, env
<1> DEFINE Early == {"new", "launch", "queue", "announce"}
<1>1. /\ used \in Nat /\ halted \in BOOLEAN /\ ledger \in Seq(LedgerEvent)
      /\ ReceiptTokens(ledger) \in Nat
      /\ Serving => used = ReceiptTokens(ledger)
      /\ pc \in Early => ReceiptTokens(ledger) = 0
      /\ pc = "dispatch" => ~halted
      /\ pc = "halt" => halted
      /\ Serving /\ halted => Over(used)
      /\ pc \in {"dispatch", "halt", "loop"} /\ Over(used) => halted
  <2>1. PICK e : e \in LedgerEvent
    BY EventTypes DEF RunKinds, LedgerEvent
  <2> QED BY <2>1, Ranges, MeterAppend DEF Metered, MeterIsDurable, TypeOK
<1>2. ASSUME pc' \notin {"dispatch", "loop", "decide", "halt"} \cup Early, used' \in Nat
      PROVE  Metered'
  BY <1>2 DEF Metered, MeterIsDurable, Serving
<1>3. CASE Launch \/ StartRun \/ QueueTask
  <2>1. pc \in Early /\ pc' \in Early /\ used' = used
    BY <1>3 DEF Launch, StartRun, QueueTask
  <2>2. ~HandleReceipt /\ ~AppendError
    BY <2>1 DEF HandleReceipt, AppendError, Abandon, Receive
  <2>3. ReceiptTokens(ledger') = ReceiptTokens(ledger)
    BY <1>3, <2>2, MeterSteps
  <2> QED BY <1>1, <2>1, <2>3 DEF Metered, MeterIsDurable, Serving
<1>4. ASSUME NEW queue, NEW tokens \in Nat, Begin(queue, tokens), ledger' = ledger,
             tokens = ReceiptTokens(ledger)
      PROVE  Metered'
  <2>1. /\ used' = tokens /\ halted' = Over(tokens)
        /\ IF Over(tokens) THEN pc' = "halt" ELSE pc' = "dispatch"
    BY <1>4 DEF Begin
  <2>2. CASE Over(tokens)
    BY <1>1, <1>4, <2>1, <2>2 DEF Metered, MeterIsDurable
  <2>3. CASE ~Over(tokens)
    BY <1>1, <1>4, <2>1, <2>3 DEF Metered, MeterIsDurable
  <2> QED BY <2>2, <2>3
<1>5. CASE Announce
  <2>1. pc \in Early /\ ledger' = ledger /\ \E queue : Begin(queue, 0)
    BY <1>5 DEF Announce
  <2> QED BY <1>1, <1>4, <2>1
<1>6. CASE ResumeRun
  <2>1. ledger' = ledger /\ \E queue : Begin(queue, ReceiptTokens(ledger))
    BY <1>6 DEF ResumeRun, Reopen
  <2> QED BY <1>1, <1>4, <2>1
<1>7. CASE PoolLost \/ AppendError \/ IndexError \/ FinishIndex \/ Crash
  BY <1>2, <1>7 DEF PoolLost, AppendError, IndexError, FinishIndex, Crash, Abandon, Forget
<1>8. CASE \/ LeaveLoop \/ JoinPool \/ Finish \/ PreflightError \/ SpawnFails \/ AbortJoined
           \/ RecordFailure \/ RecordFailureError \/ ResumeRefused \/ ResumeFinished
  <2>1. used' = used /\ pc' \notin {"dispatch", "loop", "decide", "halt"} \cup Early
    BY <1>8
    DEF LeaveLoop, JoinPool, Finish, PreflightError, SpawnFails, AbortJoined, RecordFailure,
        RecordFailureError, ResumeRefused, ResumeFinished
  <2> QED BY <1>1, <1>2, <2>1
<1>9. CASE HandleReceipt
  <2> DEFINE n == Head(events).tokens
  <2>1. n \in Nat /\ pc = "loop" /\ ReceiptTokens(ledger') = ReceiptTokens(ledger) + n
    BY <1>9, ReceiptMetered
  <2>2. used' = used + n /\ halted' = halted /\ pc' = "decide"
    BY <1>9 DEF HandleReceipt
  <2> HIDE DEF n
  <2>3. halted => Over(used')
    BY <1>1, <2>1, <2>2, OverGrows DEF Serving
  <2> QED BY <1>1, <2>1, <2>2, <2>3 DEF Metered, MeterIsDurable, Serving
<1>10. ASSUME ReceiptTokens(ledger') = ReceiptTokens(ledger), used' = used, EnforceBudget, Serving
       PROVE  Metered'
  <2>1. CASE Over(used)
    BY <1>1, <1>10, <2>1 DEF EnforceBudget, Metered, MeterIsDurable, Serving
  <2>2. CASE ~Over(used)
    BY <1>1, <1>10, <2>2 DEF EnforceBudget, Metered, MeterIsDurable, Serving
  <2> QED BY <2>1, <2>2
<1>11. CASE HandleError \/ ApplyDone \/ ApplyRetry \/ ApplyEscalate \/ ApplyGate \/ ApplyFail
  <2>1. /\ used' = used /\ EnforceBudget /\ pc \in {"loop", "decide"}
        /\ ~HandleReceipt /\ (AppendError => pc' = "abort")
    BY <1>11 DEF HandleError, Receive, ApplyDone, ApplyRetry, ApplyEscalate, ApplyGate, ApplyFail,
                 HandleReceipt, AppendError, Abandon
  <2>2. ~AppendError
    BY <2>1 DEF EnforceBudget
  <2>3. ReceiptTokens(ledger') = ReceiptTokens(ledger)
    BY <1>11, <2>1, <2>2, MeterSteps
  <2> QED BY <1>10, <2>1, <2>3 DEF Serving
<1>12. CASE HandleStarted \/ HandleHeartbeat
  <2>1. /\ UNCHANGED <<used, halted>> /\ Wake /\ pc = "loop" /\ ~HandleReceipt
        /\ AppendError => pc' = "abort"
    BY <1>12 DEF HandleStarted, HandleHeartbeat, Receive, HandleReceipt, AppendError, Abandon
  <2>2. pc' = IF halted THEN "loop" ELSE "dispatch"
    BY <2>1 DEF Wake
  <2>3. ReceiptTokens(ledger') = ReceiptTokens(ledger)
    BY <1>12, <2>1, <2>2, MeterSteps
  <2> QED BY <1>1, <2>1, <2>2, <2>3 DEF Metered, MeterIsDurable, Serving
<1>13. CASE DispatchSend \/ DispatchPark \/ DispatchDone \/ WakeUp \/ HaltDone
  <2>1. /\ UNCHANGED <<ledger, used, halted>>
        /\ \/ pc = "dispatch" /\ pc' \in {"dispatch", "loop"}
           \/ pc = "loop" /\ pc' = "dispatch" /\ ~halted
           \/ pc = "halt" /\ pc' = "loop"
    BY <1>13 DEF DispatchSend, DispatchPark, DispatchDone, WakeUp, HaltDone
  <2> QED BY <1>1, <2>1 DEF Metered, MeterIsDurable, Serving
<1>14. CASE HaltOne
  <2>0. pc = "halt" /\ pc' = "halt"
    BY <1>14 DEF HaltOne
  <2>1. UNCHANGED <<pc, used, halted>> /\ ~HandleReceipt /\ ~AppendError
    BY <1>14, <2>0 DEF HaltOne, HandleReceipt, Receive, AppendError, Abandon
  <2>2. ReceiptTokens(ledger') = ReceiptTokens(ledger)
    BY <1>14, <2>1, MeterSteps
  <2> QED BY <1>1, <2>1, <2>2 DEF Metered, MeterIsDurable, Serving
<1>15. CASE UNCHANGED <<ledger, pc, used, halted>>
  BY <1>1, <1>15 DEF Metered, MeterIsDurable, Serving
<1>16. ASSUME NEW w \in Worker, \/ Offer(w) \/ OfferFails(w) \/ Heartbeat(w) \/ Perform(w)
                                \/ Panic(w) \/ Leave(w) \/ Unwind(w)
       PROVE  UNCHANGED <<ledger, pc, used, halted>>
  BY <1>16 DEF Offer, OfferFails, Heartbeat, Perform, Panic, Leave, Unwind
<1> QED
  BY <1>3, <1>5, <1>6, <1>7, <1>8, <1>9, <1>11, <1>12, <1>13, <1>14, <1>15, <1>16
  DEF Next, ClockTurns, StrayLeaves, Stopped, vars

----------------------------------------------------------------------------
(* The slots of the workers.                                               *)

\* Appending an event adds one answer when it is one, and receiving takes it.
LEMMA AnswersCounted ==
  ASSUME NEW q \in Seq(Message)
  PROVE  /\ IsFiniteSet(Answers(q)) /\ Cardinality(Answers(q)) \in Nat
         /\ \A m \in Message : Cardinality(Answers(Append(q, m))) =
              IF m.kind = "finished" THEN Cardinality(Answers(q)) + 1 ELSE Cardinality(Answers(q))
         /\ q # << >> => Cardinality(Answers(q)) =
              IF Head(q).kind = "finished" THEN Cardinality(Answers(Tail(q))) + 1
                                           ELSE Cardinality(Answers(Tail(q)))
<1>1. /\ Len(q) \in Nat /\ DOMAIN q = 1 .. Len(q)
      /\ Answers(q) \subseteq 1 .. Len(q)
  BY DEF Answers
<1>2. IsFiniteSet(Answers(q)) /\ Cardinality(Answers(q)) \in Nat
  <2>1. IsFiniteSet(1 .. Len(q))
    BY <1>1, FS_Interval
  <2> QED BY <1>1, <2>1, FS_Subset, FS_CardinalityType
<1>3. ASSUME NEW m \in Message
      PROVE  Cardinality(Answers(Append(q, m))) =
               IF m.kind = "finished" THEN Cardinality(Answers(q)) + 1 ELSE Cardinality(Answers(q))
  <2>1. Answers(Append(q, m)) =
          IF m.kind = "finished" THEN Answers(q) \cup {Len(q) + 1} ELSE Answers(q)
    <3>1. /\ DOMAIN Append(q, m) = 1 .. Len(q) + 1
          /\ \A i \in 1 .. Len(q) : Append(q, m)[i] = q[i]
          /\ Append(q, m)[Len(q) + 1] = m
      OBVIOUS
    <3> QED BY <1>1, <3>1 DEF Answers
  <2>2. Len(q) + 1 \notin Answers(q)
    BY <1>1
  <2> QED BY <1>2, <2>1, <2>2, FS_AddElement
<1>4. ASSUME q # << >>
      PROVE  Cardinality(Answers(q)) =
               IF Head(q).kind = "finished" THEN Cardinality(Answers(Tail(q))) + 1
                                            ELSE Cardinality(Answers(Tail(q)))
  <2>1. /\ Head(q) = q[1] /\ Tail(q) \in Seq(Message)
        /\ DOMAIN Tail(q) = 1 .. Len(q) - 1
        /\ \A i \in 1 .. Len(q) - 1 : Tail(q)[i] = q[i + 1]
    BY <1>1, <1>4, HeadTailProperties, EmptySeq, LenProperties
  <2> DEFINE S == Answers(Tail(q))
             T == Answers(q) \ {1}
             f == [i \in S |-> i + 1]
  <2>2. S \subseteq Nat /\ \A i \in S : i + 1 \in T
    BY <1>1, <2>1 DEF Answers
  <2>3. \A j \in T : j - 1 \in S /\ (j - 1) + 1 = j
    BY <1>1, <2>1 DEF Answers
  <2>4. IsFiniteSet(S)
    <3>1. S \subseteq 1 .. Len(q) - 1
      BY <2>1 DEF Answers
    <3>2. IsFiniteSet(1 .. Len(q) - 1)
      BY <1>1, FS_Interval
    <3> QED BY <3>1, <3>2, FS_Subset
  <2> HIDE DEF S, T
  <2>5. f \in Bijection(S, T)
    <3>1. f \in [S -> T]
      BY <2>2
    <3>2. \A i, j \in S : f[i] = f[j] => i = j
      BY <2>2
    <3>3. \A j \in T : \E i \in S : f[i] = j
      BY <2>3
    <3> QED BY <3>1, <3>2, <3>3, Fun_IsBij
  <2>6. Cardinality(T) = Cardinality(S)
    BY <2>4, <2>5, FS_Bijection DEF ExistsBijection
  <2>7. 1 \in Answers(q) <=> Head(q).kind = "finished"
    BY <1>1, <1>4, <2>1, EmptySeq DEF Answers
  <2>8. Cardinality(Answers(q) \ {1}) =
          IF 1 \in Answers(q) THEN Cardinality(Answers(q)) - 1 ELSE Cardinality(Answers(q))
    BY <1>2, FS_RemoveElement
  <2> QED BY <1>2, <2>6, <2>7, <2>8 DEF S, T
<1> QED BY <1>2, <1>3, <1>4

\* The threads of a process and those that have a task run.
Out == {w \in Worker : wpc[w] \in {"offered", "running"}}
Places == Len(jobs) + Cardinality(Out) + Cardinality(Answers(events)) + Cardinality(Lost)

\* The slots in use are what ActiveIsOut counts.
LEMMA ActiveMeans == ActiveIsOut <=> (Serving => active = Places)
BY DEF ActiveIsOut, Places, Out, Answers

\* The sets that are counted are finite.
LEMMA Counted ==
  ASSUME Inv, Staffed
  PROVE  /\ IsFiniteSet(Out) /\ IsFiniteSet(Lost) /\ IsFiniteSet(Answers(events))
         /\ Cardinality(Out) \in Nat /\ Cardinality(Lost) \in Nat
         /\ Cardinality(Answers(events)) \in Nat
         /\ Len(jobs) \in Nat /\ active \in Nat /\ workers \in Nat
<1>1. MaxWorkers \in Nat /\ workers \in Nat /\ active \in Nat
  BY FleetAssumption, Ranges DEF TypeOK
<1>2. IsFiniteSet(Worker) /\ IsFiniteSet(1 .. workers)
  BY <1>1, FS_Interval DEF Worker
<1>3. Out \subseteq Worker /\ Lost \subseteq 1 .. workers
  BY DEF Out, Lost
<1>4. IsFiniteSet(Out) /\ IsFiniteSet(Lost)
  BY <1>2, <1>3, FS_Subset
<1> QED BY <1>1, <1>4, FS_CardinalityType, AnswersCounted, Ranges, LenProperties

\* Filling the pool spawns between one thread and MaxWorkers, all of them idle.
LEMMA StaffBegins ==
  ASSUME NEW queue \in Seq(Task), NEW tokens, Begin(queue, tokens)
  PROVE  /\ workers' \in Nat /\ workers' <= MaxWorkers /\ active' = 0
         /\ \A w \in Worker : wpc'[w] = IF w <= workers' THEN "idle" ELSE "gone"
         /\ UNCHANGED <<jobs, events, wtask>>
<1>1. MaxWorkers \in Nat \ {0} /\ Len(queue) \in Nat
  BY FleetAssumption, LenProperties
<1>2. workers' = Min({MaxWorkers, Max({1, Len(queue)})})
  BY DEF Begin, Staff, WorkerCount
<1>3. Max({1, Len(queue)}) \in {1, Len(queue)}
  <2>1. {1, Len(queue)} \in SUBSET Nat /\ {1, Len(queue)} # {} /\ Len(queue) + 1 \in Nat
        /\ \A n \in {1, Len(queue)} : n <= Len(queue) + 1
    BY <1>1
  <2> QED BY <2>1, GreatestNatural
<1>4. workers' \in Nat /\ workers' <= MaxWorkers
  <2> DEFINE S == {MaxWorkers, Max({1, Len(queue)})}
  <2>1. S \in SUBSET Nat /\ S # {}
    BY <1>1, <1>3
  <2>2. PICK m \in S : \A n \in S : m <= n
    BY <2>1, LeastNatural
  <2>3. Min(S) \in S /\ \A n \in S : Min(S) <= n
    BY <2>2 DEF Min
  <2> QED BY <1>2, <2>1, <2>3
<1> QED BY <1>4 DEF Begin, Staff

\* While the coordinator serves, the number of its threads stands.
LEMMA StaffStays ==
  ASSUME Inv, Next, ~Announce, ~ResumeRun
  PROVE  /\ workers' = workers
         /\ \A w \in Worker : wpc[w] = "gone" => wpc'[w] = "gone"
<1> USE DEF durable, sched, pool, env
<1>1. CASE \/ Launch \/ StartRun \/ QueueTask \/ DispatchSend \/ DispatchPark \/ DispatchDone
           \/ WakeUp \/ PoolLost \/ HandleHeartbeat \/ HandleError \/ HandleReceipt
  BY <1>1
  DEF Launch, StartRun, QueueTask, DispatchSend, DispatchPark, DispatchDone, WakeUp, PoolLost,
      HandleHeartbeat, HandleError, HandleReceipt, Abandon
<1>2. CASE \/ ApplyDone \/ ApplyRetry \/ ApplyEscalate \/ ApplyGate \/ ApplyFail \/ HaltOne
           \/ HaltDone \/ LeaveLoop \/ JoinPool \/ Finish \/ FinishIndex
  BY <1>2
  DEF ApplyDone, ApplyRetry, ApplyEscalate, ApplyGate, ApplyFail, HaltOne, HaltDone, LeaveLoop,
      JoinPool, Finish, FinishIndex
<1>3. CASE \/ AppendError \/ IndexError \/ PreflightError \/ SpawnFails \/ AbortJoined
           \/ RecordFailure
           \/ RecordFailureError \/ ResumeRefused \/ ResumeFinished \/ ClockTurns
           \/ StrayLeaves \/ Stopped
  BY <1>3
  DEF AppendError, IndexError, PreflightError, SpawnFails, AbortJoined, RecordFailure,
      RecordFailureError, ResumeRefused, ResumeFinished, ClockTurns, StrayLeaves, Stopped,
      Abandon, vars
<1>6. CASE Crash
  BY <1>6 DEF Crash
<1>4. ASSUME NEW v \in Worker, \/ Offer(v) \/ OfferFails(v) \/ Heartbeat(v) \/ Perform(v)
                               \/ Panic(v) \/ Leave(v) \/ Unwind(v)
      PROVE  workers' = workers /\ \A w \in Worker : wpc[w] = "gone" => wpc'[w] = "gone"
  BY <1>4, Ranges DEF TypeOK, Offer, OfferFails, Heartbeat, Perform, Panic, Leave, Unwind
<1>5. CASE HandleStarted
  <2>1. events # << >> /\ Head(events).kind = "started"
    BY <1>5 DEF HandleStarted, Receive
  <2>2. wpc[Head(events).worker] = "offered" /\ Head(events).worker \in Worker
    <3>1. Head(events) \in Message
      BY <2>1, Ranges, TailOfEvents
    <3>2. 1 \in DOMAIN events /\ Head(events) = events[1]
      BY <2>1, Ranges
    <3> QED BY <2>1, <3>1, <3>2, Ranges DEF Threads, Message
  <2> QED BY <1>5, <2>2, Ranges DEF HandleStarted, TypeOK
<1> QED BY <1>1, <1>2, <1>3, <1>4, <1>5, <1>6 DEF Next

\* A process takes up each unsettled task once, with every place of it empty.
LEMMA TakesUp ==
  ASSUME Inv, Announce \/ ResumeRun
  PROVE  /\ ledger' = ledger /\ AllGone /\ jobs = << >> /\ events = << >>
         /\ \E queue \in Seq(Task) :
              /\ Begin(queue, IF Announce THEN 0 ELSE ReceiptTokens(ledger))
              /\ IF Announce THEN Range(queue) = Task ELSE Range(queue) = Todo(ledger)
<1> DEFINE all == [i \in 1 .. TaskCount |-> i]
<1>1. ledger' = ledger /\ pc \in {"announce", "off"}
  BY DEF Announce, ResumeRun, Reopen
<1>2. AllGone /\ jobs = << >> /\ events = << >>
  BY <1>1 DEF Inv, Alone, Single, Locals
<1>3. CASE Announce
  <2>1. TaskCount \in Nat
    BY LedgerAssumption
  <2>2. all \in Seq(Task) /\ Range(all) = Task
    BY <2>1 DEF Task, Range
  <2>3. Begin(all, 0)
    BY <1>3 DEF Announce
  <2> QED BY <1>1, <1>2, <1>3, <2>2, <2>3
<1>4. CASE ResumeRun /\ ~Announce
  <2>1. PICK queue \in InQueueOrder(Todo(ledger)) : Begin(queue, ReceiptTokens(ledger))
    BY <1>4 DEF ResumeRun
  <2>2. Todo(ledger) \in SUBSET Task
    BY DEF Todo, Mentioned
  <2>3. queue \in Seq(Task) /\ Range(queue) = Todo(ledger)
    BY <2>2, OrderedQueue
  <2> QED BY <1>1, <1>2, <1>4, <2>1, <2>3
<1> QED BY <1>3, <1>4

\* A step of a coordinator that serves fills a slot only by sending a job.
LEMMA ActiveSteps ==
  ASSUME Inv, Next, Serving', ~Announce, ~ResumeRun
  PROVE  /\ Serving
         /\ DispatchSend \/ active' = active \/ active' = Released
<1> USE DEF durable, sched, pool, env
<1>1. Serving
  BY ServingSteps DEF Serving
<1>2. CASE \/ Launch \/ StartRun \/ QueueTask \/ DispatchPark \/ DispatchDone \/ WakeUp
           \/ HandleStarted \/ HandleHeartbeat \/ HaltOne \/ HaltDone \/ LeaveLoop \/ JoinPool
  BY <1>1, <1>2
  DEF Launch, StartRun, QueueTask, DispatchPark, DispatchDone, WakeUp, HandleStarted,
      HandleHeartbeat, HaltOne, HaltDone, LeaveLoop, JoinPool
<1>3. CASE ApplyDone \/ ApplyRetry \/ ApplyEscalate \/ ApplyGate \/ ApplyFail
  BY <1>1, <1>3 DEF ApplyDone, ApplyRetry, ApplyEscalate, ApplyGate, ApplyFail
<1>4. CASE HandleError \/ HandleReceipt
  BY <1>1, <1>4 DEF HandleError, HandleReceipt
<1>5. CASE PoolLost \/ AppendError \/ IndexError \/ FinishIndex \/ Crash
  BY <1>1, <1>5 DEF PoolLost, AppendError, IndexError, FinishIndex, Crash, Abandon, Serving
<1>6. CASE \/ Finish \/ PreflightError \/ SpawnFails \/ AbortJoined \/ RecordFailure
           \/ RecordFailureError
           \/ ResumeRefused \/ ResumeFinished \/ ClockTurns \/ StrayLeaves \/ Stopped
  BY <1>1, <1>6
  DEF Finish, PreflightError, SpawnFails, AbortJoined, RecordFailure, RecordFailureError,
      ResumeRefused, ResumeFinished, ClockTurns, StrayLeaves, Stopped, vars
<1>7. ASSUME NEW v \in Worker, \/ Offer(v) \/ OfferFails(v) \/ Heartbeat(v) \/ Perform(v)
                               \/ Panic(v) \/ Leave(v) \/ Unwind(v)
      PROVE  active' = active
  BY <1>7 DEF Offer, OfferFails, Heartbeat, Perform, Panic, Leave, Unwind
<1> QED BY <1>1, <1>2, <1>3, <1>4, <1>5, <1>6, <1>7 DEF Next

\* The coordinator has no more jobs out than threads.
LEMMA StaffedStep ==
  ASSUME Inv, Staffed, Next
  PROVE  Staffed'
<1>1. active \in Nat /\ workers \in Nat /\ wpc \in [Worker -> {"idle", "offered", "running", "gone"}]
  BY Ranges DEF TypeOK
<1>2. CASE Announce \/ ResumeRun
  <2>1. PICK queue \in Seq(Task) :
           Begin(queue, IF Announce THEN 0 ELSE ReceiptTokens(ledger))
    BY <1>2, TakesUp
  <2>2. /\ workers' \in Nat /\ workers' <= MaxWorkers /\ active' = 0
        /\ \A w \in Worker : wpc'[w] = IF w <= workers' THEN "idle" ELSE "gone"
    BY <2>1, StaffBegins
  <2> QED BY <2>2 DEF Staffed
<1>3. CASE ~Announce /\ ~ResumeRun
  <2>1. /\ workers' = workers
        /\ \A w \in Worker : wpc'[w] # "gone" => wpc[w] # "gone"
    BY <1>3, StaffStays
  <2>2. ASSUME Serving'
        PROVE  active' <= workers'
    <3>1. CASE DispatchSend
      <4>1. active < workers /\ active' = active + 1
        BY <3>1 DEF DispatchSend
      <4> QED BY <1>1, <2>1, <4>1
    <3>2. CASE active' = active \/ active' = Released
      BY <1>1, <1>3, <2>1, <2>2, <3>2, ActiveSteps DEF Released, Staffed
    <3> QED BY <1>3, <2>2, <3>1, <3>2, ActiveSteps
  <2> QED BY <2>1, <2>2 DEF Staffed
<1> QED BY <1>2, <1>3

\* What a thread's move does to the slots.
LEMMA ThreadMoves ==
  ASSUME Inv, Staffed, NEW w \in Worker, workers' = workers
  PROVE  /\ wpc[w] = "idle" /\ wpc' = [wpc EXCEPT ![w] = "offered"] =>
              Cardinality(Out') = Cardinality(Out) + 1 /\ Lost' = Lost
         /\ wpc[w] = "offered" /\ wpc' = [wpc EXCEPT ![w] = "running"] =>
              Out' = Out /\ Lost' = Lost
         /\ wpc[w] = "running" /\ wpc' = [wpc EXCEPT ![w] = "idle"] =>
              Cardinality(Out) = Cardinality(Out') + 1 /\ Lost' = Lost
         /\ wpc[w] = "running" /\ wpc' = [wpc EXCEPT ![w] = "gone"] =>
              /\ Cardinality(Out) = Cardinality(Out') + 1
              /\ Cardinality(Lost') = Cardinality(Lost) + 1
              /\ w \in Lost'
<1>1. /\ wpc \in [Worker -> {"idle", "offered", "running", "gone"}]
      /\ MaxWorkers \in Nat /\ workers \in Nat /\ workers <= MaxWorkers
      /\ wpc[w] # "gone" => w \in 1 .. workers
  <2>1. MaxWorkers \in Nat
    BY FleetAssumption
  <2>2. wpc \in [Worker -> {"idle", "offered", "running", "gone"}] /\ workers \in Nat
    BY Ranges DEF TypeOK
  <2>3. workers <= MaxWorkers /\ (wpc[w] # "gone" => w <= workers)
    BY DEF Staffed
  <2>4. w \in 1 .. MaxWorkers
    BY DEF Worker
  <2>5. wpc[w] # "gone" => w \in 1 .. workers
    BY <2>1, <2>2, <2>3, <2>4
  <2> QED BY <2>1, <2>2, <2>3, <2>5
<1>2. Lost \subseteq Worker
  BY <1>1 DEF Lost, Worker
<1>3. /\ IsFiniteSet(Out) /\ IsFiniteSet(Lost)
      /\ Cardinality(Out) \in Nat /\ Cardinality(Lost) \in Nat
  BY Counted
<1>4. ASSUME wpc[w] = "idle", wpc' = [wpc EXCEPT ![w] = "offered"]
      PROVE  Cardinality(Out') = Cardinality(Out) + 1 /\ Lost' = Lost
  <2>1. Out' = Out \cup {w} /\ w \notin Out /\ Lost' = Lost
    BY <1>1, <1>4 DEF Out, Lost
  <2> QED BY <1>3, <1>4, <2>1, FS_AddElement
<1>5. ASSUME wpc[w] = "offered", wpc' = [wpc EXCEPT ![w] = "running"]
      PROVE  Out' = Out /\ Lost' = Lost
  BY <1>1, <1>5 DEF Out, Lost
<1>6. ASSUME wpc[w] = "running", wpc' = [wpc EXCEPT ![w] = "idle"]
      PROVE  Cardinality(Out) = Cardinality(Out') + 1 /\ Lost' = Lost
  <2>1. Out' = Out \ {w} /\ w \in Out /\ Lost' = Lost
    BY <1>1, <1>6 DEF Out, Lost
  <2>2. Cardinality(Out') = Cardinality(Out) - 1
    BY <1>3, <2>1, FS_RemoveElement
  <2>3. Cardinality(Out) = Cardinality(Out') + 1
    BY <1>3, <2>2
  <2> QED BY <1>6, <2>1, <2>3
<1>7. ASSUME wpc[w] = "running", wpc' = [wpc EXCEPT ![w] = "gone"]
      PROVE  /\ Cardinality(Out) = Cardinality(Out') + 1
             /\ Cardinality(Lost') = Cardinality(Lost) + 1
             /\ w \in Lost'
  <2>1. Out' = Out \ {w} /\ w \in Out
    BY <1>1, <1>7 DEF Out
  <2>2. Lost' = Lost \cup {w} /\ w \notin Lost
    BY <1>1, <1>7 DEF Lost
  <2>3. Cardinality(Out') = Cardinality(Out) - 1
    BY <1>3, <2>1, FS_RemoveElement
  <2>4. Cardinality(Lost') = Cardinality(Lost) + 1
    BY <1>3, <2>2, FS_AddElement
  <2>5. Cardinality(Out) = Cardinality(Out') + 1 /\ w \in Lost'
    BY <1>3, <2>2, <2>3
  <2> QED BY <1>7, <2>4, <2>5
<1> QED BY <1>4, <1>5, <1>6, <1>7

\* Every slot in use stays one job that is out, or one thread that is lost.
LEMMA ActiveStep ==
  ASSUME Inv, Staffed, ActiveIsOut, Next
  PROVE  ActiveIsOut'
<1> USE DEF durable, sched, pool, env
<1>1. (Serving => active = Places) /\ ((Serving' => active' = Places') => ActiveIsOut')
  BY ActiveMeans DEF ActiveIsOut, Places, Out, Answers
<1>2. /\ Cardinality(Out) \in Nat /\ Cardinality(Lost) \in Nat
      /\ Cardinality(Answers(events)) \in Nat /\ Len(jobs) \in Nat /\ active \in Nat
  BY Counted
<1>3. ASSUME UNCHANGED <<workers, wpc>>
      PROVE  Out' = Out /\ Lost' = Lost
  BY <1>3 DEF Out, Lost
<1>4. \A w \in Worker : wpc[w] \in {"idle", "offered", "running", "gone"}
  BY Ranges DEF TypeOK
<1>5. CASE Announce \/ ResumeRun
  <2>1. PICK queue \in Seq(Task) : Begin(queue, IF Announce THEN 0 ELSE ReceiptTokens(ledger))
    BY <1>5, TakesUp
  <2>2. /\ jobs' = << >> /\ events' = << >> /\ active' = 0
        /\ workers' \in Nat /\ workers' <= MaxWorkers
        /\ \A w \in Worker : wpc'[w] = IF w <= workers' THEN "idle" ELSE "gone"
    BY <1>5, <2>1, StaffBegins, TakesUp
  <2>3. Out' = {}
    BY <2>2 DEF Out
  <2>4. Lost' = {}
    BY <2>2, FleetAssumption DEF Lost, Worker
  <2>5. Answers(events') = {}
    BY <2>2 DEF Answers
  <2>6. /\ Len(jobs') = 0 /\ Cardinality(Out') = 0 /\ Cardinality(Lost') = 0
        /\ Cardinality(Answers(events')) = 0
    BY <2>2, <2>3, <2>4, <2>5, FS_EmptySet
  <2>7. Places' = 0
    BY <2>6 DEF Places
  <2> QED BY <1>1, <2>2, <2>7
<1>6. CASE ~Serving'
  BY <1>1, <1>6
<1>7. CASE Serving' /\ DispatchSend
  <2>1. /\ Len(jobs') = Len(jobs) + 1 /\ UNCHANGED <<events, workers, wpc>> /\ active' = active + 1
        /\ pc = "dispatch"
    BY <1>7, Ranges DEF DispatchSend
  <2>2. Places' = Places + 1
    BY <1>2, <1>3, <2>1 DEF Places
  <2> QED BY <1>1, <1>2, <2>1, <2>2 DEF Serving
<1>8. CASE Serving' /\ UNCHANGED <<active, jobs, events, workers, wpc>> /\ Serving
  <2>1. Places' = Places
    BY <1>3, <1>8 DEF Places
  <2> QED BY <1>1, <1>8, <2>1
<1>9. CASE HandleStarted \/ HandleHeartbeat
  <2> DEFINE m == Head(events)
  <2>1. /\ pc = "loop" /\ events # << >> /\ events' = Tail(events) /\ m.kind # "finished"
        /\ UNCHANGED <<active, jobs, workers>>
    BY <1>9 DEF HandleStarted, HandleHeartbeat, Receive
  <2>2. Cardinality(Answers(events')) = Cardinality(Answers(events))
    BY <2>1, AnswersCounted, Ranges
  <2>3. Out' = Out /\ Lost' = Lost
    <3>1. CASE HandleStarted
      <4>1. m \in Message /\ 1 \in DOMAIN events /\ m = events[1] /\ m.kind = "started"
        BY <2>1, <3>1, Ranges, TailOfEvents DEF HandleStarted, Receive
      <4>2. m.worker \in Worker /\ wpc[m.worker] = "offered"
        BY <4>1, Ranges DEF Threads, Message
      <4>3. wpc' = [wpc EXCEPT ![m.worker] = "running"] /\ workers' = workers
        BY <3>1 DEF HandleStarted
      <4> QED BY <4>2, <4>3, ThreadMoves
    <3>2. CASE HandleHeartbeat
      BY <1>3, <3>2 DEF HandleHeartbeat
    <3> QED BY <1>9, <3>1, <3>2
  <2>4. Places' = Places
    BY <2>1, <2>2, <2>3 DEF Places
  <2> QED BY <1>1, <2>1, <2>4 DEF Serving
<1>10. CASE HandleError \/ HandleReceipt
  <2>1. /\ pc = "loop" /\ events # << >> /\ events' = Tail(events)
        /\ Head(events).kind = "finished"
        /\ UNCHANGED <<jobs, workers, wpc>> /\ active' = Released
    BY <1>10 DEF HandleError, HandleReceipt, Receive
  <2>2. Cardinality(Answers(events)) = Cardinality(Answers(events')) + 1
    BY <2>1, AnswersCounted, Ranges
  <2>3. Cardinality(Answers(events')) \in Nat
    <3>1. events' \in Seq(Message)
      BY <2>1, Ranges, TailOfEvents
    <3> QED BY <3>1, AnswersCounted
  <2>4. Places = Places' + 1 /\ Places' \in Nat
    BY <1>2, <1>3, <2>1, <2>2, <2>3 DEF Places
  <2>5. PICK n \in Nat : Places = n + 1 /\ n = Places'
    BY <2>4
  <2>6. active = n + 1
    BY <1>1, <2>1, <2>5 DEF Serving
  <2>7. active' = n
    BY <2>1, <2>6 DEF Released
  <2> QED BY <1>1, <2>5, <2>7
<1>11. ASSUME Serving, NEW w \in Worker, Offer(w) \/ OfferFails(w)
       PROVE  ActiveIsOut'
  <2>1. /\ Len(jobs) = Len(jobs') + 1 /\ Len(jobs') \in Nat
        /\ UNCHANGED <<active, workers>> /\ jobs # << >> /\ wpc[w] = "idle"
        /\ jobs' = Tail(jobs)
    BY <1>11, Ranges DEF Offer, OfferFails
  <2>2. CASE Offer(w)
    <3> DEFINE m == Tell("started", w, Head(jobs))
    <3>1. events' = Append(events, m) /\ wpc' = [wpc EXCEPT ![w] = "offered"]
      BY <2>2 DEF Offer
    <3>2. m \in Message /\ m.kind # "finished"
      BY <2>1, JobMoves DEF Tell, Message
    <3> HIDE DEF m
    <3>3. Cardinality(Answers(events')) = Cardinality(Answers(events))
      BY <3>1, <3>2, AnswersCounted, Ranges
    <3>4. Cardinality(Out') = Cardinality(Out) + 1 /\ Lost' = Lost
      BY <2>1, <3>1, ThreadMoves
    <3>5. Places' = Places
      BY <1>2, <2>1, <3>3, <3>4 DEF Places
    <3> QED BY <1>1, <1>11, <2>1, <3>5
  <2>3. CASE OfferFails(w)
    <3> DEFINE m == [Tell("finished", w, Head(jobs)) EXCEPT !.outcome = "error"]
    <3>1. events' = Append(events, m) /\ wpc' = wpc
      BY <2>3 DEF OfferFails
    <3>2. m \in Message /\ m.kind = "finished"
      BY <2>1, JobMoves DEF Tell, Message
    <3> HIDE DEF m
    <3>3. Cardinality(Answers(events')) = Cardinality(Answers(events)) + 1
      BY <3>1, <3>2, AnswersCounted, Ranges
    <3>4. Places' = Places
      BY <1>2, <1>3, <2>1, <3>1, <3>3 DEF Places
    <3> QED BY <1>1, <1>11, <2>1, <3>4
  <2> QED BY <1>11, <2>2, <2>3
<1>12. ASSUME Serving, NEW w \in Worker, Heartbeat(w) \/ Perform(w)
       PROVE  ActiveIsOut'
  <2>1. UNCHANGED <<active, workers, jobs>> /\ wpc[w] = "running"
    BY <1>12 DEF Heartbeat, Perform
  <2>2. CASE Heartbeat(w)
    <3> DEFINE m == Tell("heartbeat", w, wtask[w])
    <3>1. events' = Append(events, m) /\ wpc' = wpc
      BY <2>2 DEF Heartbeat
    <3>2. m \in Message /\ m.kind # "finished"
      BY <2>2, HeartbeatMoves DEF Tell, Message
    <3> HIDE DEF m
    <3>3. Cardinality(Answers(events')) = Cardinality(Answers(events))
      BY <3>1, <3>2, AnswersCounted, Ranges
    <3>4. Places' = Places
      BY <1>3, <2>1, <3>1, <3>3 DEF Places
    <3> QED BY <1>1, <1>12, <2>1, <3>4
  <2>3. CASE Perform(w)
    <3>1. PICK m \in Message : events' = Append(events, m) /\ m.kind = "finished"
      BY <2>3, Ranges, PerformAnswers
    <3>2. Cardinality(Answers(events')) = Cardinality(Answers(events)) + 1
      BY <3>1, AnswersCounted, Ranges
    <3>3. wpc' = [wpc EXCEPT ![w] = "idle"]
      BY <2>3 DEF Perform
    <3>4. Cardinality(Out) = Cardinality(Out') + 1 /\ Lost' = Lost
      BY <2>1, <3>3, ThreadMoves
    <3>5. Cardinality(Out') \in Nat
      <4>1. Out' \subseteq Out
        BY <1>4, <2>1, <3>3 DEF Out
      <4> QED BY <4>1, Counted, FS_Subset, FS_CardinalityType
    <3>6. Places' = Places
      BY <1>2, <2>1, <3>2, <3>4, <3>5 DEF Places
    <3> QED BY <1>1, <1>12, <2>1, <3>6
  <2> QED BY <1>12, <2>2, <2>3
<1>13. ASSUME Serving, NEW w \in Worker, Panic(w)
       PROVE  ActiveIsOut'
  <2>1. /\ UNCHANGED <<active, workers, jobs, events>> /\ wpc[w] = "running"
        /\ wpc' = [wpc EXCEPT ![w] = "gone"]
    BY <1>13 DEF Panic
  <2>2. /\ Cardinality(Out) = Cardinality(Out') + 1
        /\ Cardinality(Lost') = Cardinality(Lost) + 1
    BY <2>1, ThreadMoves
  <2>3. Cardinality(Out') \in Nat
    <3>1. Out' \subseteq Out
      BY <1>4, <2>1 DEF Out
    <3> QED BY <3>1, Counted, FS_Subset, FS_CardinalityType
  <2>4. Places' = Places
    BY <1>2, <2>1, <2>2, <2>3 DEF Places
  <2> QED BY <1>1, <1>13, <2>1, <2>4
<1>14. ASSUME Serving', NEW w \in Worker, Leave(w) \/ Unwind(w)
       PROVE  FALSE
  BY <1>14 DEF Leave, Unwind, Serving
<1>15. ASSUME NEW w \in Worker, \/ Offer(w) \/ OfferFails(w) \/ Heartbeat(w) \/ Perform(w)
                                \/ Panic(w)
       PROVE  Serving' => Serving
  BY <1>15 DEF Offer, OfferFails, Heartbeat, Perform, Panic, Serving
<1>16. CASE \/ Launch \/ StartRun \/ QueueTask \/ PoolLost \/ LeaveLoop \/ JoinPool \/ Finish
            \/ FinishIndex \/ AppendError \/ IndexError \/ PreflightError \/ SpawnFails
            \/ AbortJoined
            \/ RecordFailure \/ RecordFailureError \/ Crash \/ ResumeRefused \/ ResumeFinished
  <2>1. ~Serving'
    BY <1>16
    DEF Launch, StartRun, QueueTask, PoolLost, LeaveLoop, JoinPool, Finish, FinishIndex,
        AppendError, IndexError, PreflightError, SpawnFails, AbortJoined, RecordFailure,
        RecordFailureError, Crash, ResumeRefused, ResumeFinished, Abandon, Serving
  <2> QED BY <1>6, <2>1
<1>17. CASE \/ DispatchPark \/ DispatchDone \/ WakeUp \/ HaltOne \/ HaltDone \/ ApplyDone
            \/ ApplyRetry \/ ApplyEscalate \/ ApplyGate \/ ApplyFail
  <2>1. Serving /\ UNCHANGED <<active, jobs, events, workers, wpc>>
    BY <1>17
    DEF DispatchPark, DispatchDone, WakeUp, HaltOne, HaltDone, ApplyDone, ApplyRetry,
        ApplyEscalate, ApplyGate, ApplyFail, Serving
  <2> QED BY <1>6, <1>8, <2>1
<1>18. CASE ClockTurns \/ StrayLeaves \/ Stopped
  <2>1. UNCHANGED <<pc, active, jobs, events, workers, wpc>>
    BY <1>18 DEF ClockTurns, StrayLeaves, Stopped, vars
  <2> QED BY <1>6, <1>8, <2>1 DEF Serving
<1>19. CASE DispatchSend
  BY <1>6, <1>7, <1>19
<1> QED
  BY <1>5, <1>6, <1>9, <1>10, <1>11, <1>12, <1>13, <1>14, <1>15, <1>16, <1>17, <1>18, <1>19
  DEF Next

----------------------------------------------------------------------------
(* The receipts behind the one that spent the budget.                      *)

\* The slots a serving coordinator has given out.
Load == IF Serving THEN active ELSE 0

\* What InFlight says, in these words.
LEMMA LoadMeans == InFlight <=> \A i \in Spent(ledger) :
                                  Cardinality(ReceiptsAfter(ledger, i)) + Load < MaxWorkers
BY DEF InFlight, Load

\* The receipts behind a line, and the lines by which the budget was spent, after an append.
LEMMA SpentAppend ==
  ASSUME NEW l \in Seq(LedgerEvent), NEW e \in LedgerEvent
  PROVE  /\ Spent(l) \subseteq 1 .. Len(l)
         /\ \A i \in Spent(Append(l, e)) :
              \/ i \in Spent(l)
              \/ i = Len(l) + 1 /\ e.event = "task_receipt"
         /\ \A i \in 1 .. Len(l) :
              Cardinality(ReceiptsAfter(l, i)) \in Nat
              /\ Cardinality(ReceiptsAfter(Append(l, e), i)) =
                   IF e.event = "task_receipt" THEN Cardinality(ReceiptsAfter(l, i)) + 1
                                               ELSE Cardinality(ReceiptsAfter(l, i))
         /\ Cardinality(ReceiptsAfter(Append(l, e), Len(l) + 1)) = 0
<1>1. /\ DOMAIN l = 1 .. Len(l) /\ DOMAIN Append(l, e) = 1 .. Len(l) + 1
      /\ Len(l) \in Nat
      /\ \A i \in 1 .. Len(l) : Append(l, e)[i] = l[i]
      /\ Append(l, e)[Len(l) + 1] = e
  BY AppendedLine
<1>2. Spent(l) \subseteq 1 .. Len(l)
  BY <1>1 DEF Spent
<1>3. ASSUME NEW i \in Spent(Append(l, e))
      PROVE  i \in Spent(l) \/ (i = Len(l) + 1 /\ e.event = "task_receipt")
  <2>1. /\ i \in 1 .. Len(l) + 1 /\ Append(l, e)[i].event = "task_receipt"
        /\ Over(ReceiptTokens(SubSeq(Append(l, e), 1, i)))
    BY <1>1, <1>3 DEF Spent
  <2>2. CASE i = Len(l) + 1
    BY <1>1, <2>1, <2>2
  <2>3. CASE i \in 1 .. Len(l)
    <3>1. SubSeq(Append(l, e), 1, i) = SubSeq(l, 1, i)
      BY <2>3, PrefixKept
    <3>2. l[i].event = "task_receipt" /\ Over(ReceiptTokens(SubSeq(l, 1, i)))
      BY <1>1, <2>1, <2>3, <3>1
    <3> QED BY <1>1, <2>3, <3>2 DEF Spent
  <2> QED BY <1>1, <2>1, <2>2, <2>3
<1>4. ASSUME NEW i \in 1 .. Len(l)
      PROVE  Cardinality(ReceiptsAfter(l, i)) \in Nat
             /\ Cardinality(ReceiptsAfter(Append(l, e), i)) =
                  IF e.event = "task_receipt" THEN Cardinality(ReceiptsAfter(l, i)) + 1
                                              ELSE Cardinality(ReceiptsAfter(l, i))
  <2> DEFINE S == ReceiptsAfter(l, i)
  <2>1. S \subseteq 1 .. Len(l)
    BY <1>1 DEF ReceiptsAfter
  <2>2. ReceiptsAfter(Append(l, e), i) =
          IF e.event = "task_receipt" THEN S \cup {Len(l) + 1} ELSE S
    BY <1>1 DEF ReceiptsAfter
  <2> HIDE DEF S
  <2>3. IsFiniteSet(S)
    <3>1. IsFiniteSet(1 .. Len(l))
      BY <1>1, FS_Interval
    <3> QED BY <2>1, <3>1, FS_Subset
  <2>4. Len(l) + 1 \notin S
    BY <1>1, <2>1
  <2>5. Cardinality(S) \in Nat /\ Cardinality(S \cup {Len(l) + 1}) = Cardinality(S) + 1
    BY <2>3, <2>4, FS_CardinalityType, FS_AddElement
  <2> QED BY <2>2, <2>5 DEF S
<1>5. ReceiptsAfter(Append(l, e), Len(l) + 1) = {}
  BY <1>1 DEF ReceiptsAfter
<1> QED BY <1>2, <1>3, <1>4, <1>5, FS_EmptySet

\* The budget is not spent by any line while the whole ledger has not spent it.
LEMMA SpentIsOver ==
  ASSUME NEW l \in Seq(LedgerEvent), Spent(l) # {}
  PROVE  Over(ReceiptTokens(l))
<1>1. PICK i \in 1 .. Len(l) : Over(ReceiptTokens(SubSeq(l, 1, i)))
  BY DEF Spent
<1>2. SubSeq(l, 1, i) \in Seq(LedgerEvent)
  OBVIOUS
<1>3. PICK e : e \in LedgerEvent
  BY EventTypes DEF RunKinds, LedgerEvent
<1>4. ReceiptTokens(l) \in Nat /\ ReceiptTokens(SubSeq(l, 1, i)) \in Nat
  BY <1>2, <1>3, MeterAppend
<1> QED BY <1>1, <1>4, MeterGrows, OverGrows

\* A finished run that has not been handled has its slot.
LEMMA AnswerHasSlot ==
  ASSUME Inv, Staffed, ActiveIsOut, pc = "loop", events # << >>, Head(events).kind = "finished"
  PROVE  active \in Nat \ {0}
<1>1. Cardinality(Answers(events)) = Cardinality(Answers(Tail(events))) + 1
  BY AnswersCounted, Ranges
<1>2. Tail(events) \in Seq(Message)
  BY Ranges, TailOfEvents
<1>3. Cardinality(Answers(Tail(events))) \in Nat
  BY <1>2, AnswersCounted
<1>4. active = Places
  BY ActiveMeans DEF Serving
<1> QED BY <1>1, <1>3, <1>4, Counted DEF Places

\* Receipts come from the slots that were out when the budget was spent.
LEMMA InFlightStep ==
  ASSUME Inv, Whole, Staffed, ActiveIsOut, Metered, InFlight, Next
  PROVE  InFlight'
<1> USE DEF durable, sched, pool, env
<1>1. /\ ledger \in Seq(LedgerEvent) /\ active \in Nat /\ active' \in Nat
      /\ MaxWorkers \in Nat \ {0} /\ Load \in Nat /\ Load' \in Nat
  <2>1. TypeOK'
    BY TypeStep DEF Inv
  <2> QED BY <2>1, Ranges, FleetAssumption DEF TypeOK, Load
<1>2. /\ \A i \in Spent(ledger) : Cardinality(ReceiptsAfter(ledger, i)) + Load < MaxWorkers
      /\ (\A i \in Spent(ledger') :
            Cardinality(ReceiptsAfter(ledger', i)) + Load' < MaxWorkers) => InFlight'
  BY LoadMeans DEF InFlight, Load
<1>3. ASSUME \/ ledger' = ledger
             \/ \E d \in LedgerEvent : ledger' = Append(ledger, d) /\ d.event # "task_receipt",
             Load' <= Load \/ Spent(ledger) = {}
      PROVE  InFlight'
  <2>1. ASSUME NEW i \in Spent(ledger')
        PROVE  /\ i \in Spent(ledger)
               /\ Cardinality(ReceiptsAfter(ledger', i)) = Cardinality(ReceiptsAfter(ledger, i))
    BY <1>1, <1>3, SpentAppend
  <2>2. ASSUME NEW i \in Spent(ledger)
        PROVE  Cardinality(ReceiptsAfter(ledger, i)) \in Nat
    <3>1. PICK e : e \in LedgerEvent
      BY EventTypes DEF RunKinds, LedgerEvent
    <3> QED BY <1>1, <3>1, SpentAppend
  <2> QED BY <1>1, <1>2, <1>3, <2>1, <2>2
<1>4. ASSUME NEW d \in LedgerEvent, ledger' = Append(ledger, d), d.event = "task_receipt",
             Load' < Load, Load' < MaxWorkers
      PROVE  InFlight'
  <2>1. ASSUME NEW i \in Spent(ledger'), i \in Spent(ledger)
        PROVE  Cardinality(ReceiptsAfter(ledger', i)) + Load' < MaxWorkers
    <3>1. /\ Cardinality(ReceiptsAfter(ledger, i)) \in Nat
          /\ Cardinality(ReceiptsAfter(ledger', i)) = Cardinality(ReceiptsAfter(ledger, i)) + 1
      BY <1>1, <1>4, <2>1, SpentAppend
    <3> QED BY <1>1, <1>2, <1>4, <2>1, <3>1
  <2>2. Cardinality(ReceiptsAfter(ledger', Len(ledger) + 1)) + Load' < MaxWorkers
    BY <1>1, <1>4, SpentAppend
  <2>3. \A i \in Spent(ledger') : i \in Spent(ledger) \/ i = Len(ledger) + 1
    BY <1>1, <1>4, SpentAppend
  <2> QED BY <1>2, <2>1, <2>2, <2>3
<1>5. CASE HandleReceipt
  <2>1. /\ pc = "loop" /\ events # << >> /\ Head(events).kind = "finished"
        /\ \E d \in LedgerEvent : ledger' = Append(ledger, d) /\ d.event = "task_receipt"
    BY <1>5, ReceiptMetered
  <2>2. active' = Released /\ pc' = "decide" /\ workers' = workers
    BY <1>5 DEF HandleReceipt
  <2>3. active \in Nat \ {0} /\ active <= workers /\ workers <= MaxWorkers /\ workers \in Nat
    BY <2>1, AnswerHasSlot, Ranges DEF Staffed, Serving, TypeOK
  <2>4. Load = active /\ Load' = active - 1
    BY <2>1, <2>2, <2>3 DEF Load, Serving, Released
  <2> QED BY <1>1, <1>4, <2>1, <2>3, <2>4
<1>6. CASE AppendError
  <2>1. pc' = "abort" /\ Load' = 0
    BY <1>6 DEF AppendError, Abandon, Load, Serving
  <2>2. PICK e \in Pending : ledger' = ledger \/ Written(e)
    BY <1>6 DEF AppendError, Botched, Commit, Written
  <2>3. CASE ledger' = ledger
    BY <1>1, <1>3, <2>1, <2>3
  <2>4. CASE Written(e)
    <3>1. PICK d \in LedgerEvent : ledger' = Append(ledger, d) /\ (d = e \/ d.event = "corrupt")
      BY <2>4, WrittenLine
    <3>2. CASE d.event # "task_receipt"
      BY <1>1, <1>3, <2>1, <3>1, <3>2
    <3>3. CASE d.event = "task_receipt"
      <4>1. pc = "loop" /\ events # << >> /\ Head(events).kind = "finished"
        BY <3>1, <3>3, PendingReceipt
      <4>2. Load = active /\ active \in Nat \ {0}
        BY <4>1, AnswerHasSlot DEF Load, Serving
      <4> QED BY <1>1, <1>4, <2>1, <3>1, <3>3, <4>2
    <3> QED BY <3>2, <3>3
  <2> QED BY <2>2, <2>3, <2>4
<1>7. CASE ~HandleReceipt /\ ~AppendError
  <2>1. CASE ~Serving'
    BY <1>1, <1>3, <1>7, <2>1, MeterSteps DEF Load
  <2>2. CASE Serving' /\ (Announce \/ ResumeRun)
    <3>1. PICK queue \in Seq(Task) : Begin(queue, IF Announce THEN 0 ELSE ReceiptTokens(ledger))
      BY <2>2, TakesUp
    <3>2. Load' = 0
      BY <3>1, StaffBegins DEF Load
    <3> QED BY <1>1, <1>3, <1>7, <3>2, MeterSteps
  <2>3. CASE Serving' /\ DispatchSend
    <3>1. Spent(ledger) = {}
      <4>1. pc = "dispatch"
        BY <2>3 DEF DispatchSend
      <4>2. ~Over(ReceiptTokens(ledger))
        BY <4>1 DEF Metered, MeterIsDurable, Serving
      <4> QED BY <1>1, <4>2, SpentIsOver
    <3> QED BY <1>1, <1>3, <1>7, <3>1, MeterSteps
  <2>4. CASE Serving' /\ Serving /\ (active' = active \/ active' = Released)
    <3>1. Load' <= Load
      BY <1>1, <2>4 DEF Load, Released
    <3> QED BY <1>3, <1>7, <3>1, MeterSteps
  <2> QED BY <2>1, <2>2, <2>3, <2>4, ActiveSteps
<1> QED BY <1>5, <1>6, <1>7

----------------------------------------------------------------------------
(* Every task of the ledger is settled or in hand.                         *)

\* What one line adds to the tasks a ledger mentions and to those it settles.
LEMMA MentionAppend ==
  ASSUME NEW l \in Seq(LedgerEvent), NEW e \in LedgerEvent
  PROVE  /\ Mentioned(Append(l, e)) = Mentioned(l) \cup ({e.task} \cap Task)
         /\ Settled(Append(l, e)) = IF e.event \in TerminalKinds
                                    THEN Settled(l) \cup ({e.task} \cap Task) ELSE Settled(l)
<1>1. /\ DOMAIN l = 1 .. Len(l) /\ DOMAIN Append(l, e) = 1 .. Len(l) + 1
      /\ Len(l) \in Nat
      /\ \A i \in 1 .. Len(l) : Append(l, e)[i] = l[i]
      /\ Append(l, e)[Len(l) + 1] = e
  BY AppendedLine
<1>2. ASSUME NEW t \in Task
      PROVE  t \in Mentioned(Append(l, e)) <=> t \in Mentioned(l) \/ t = e.task
  <2>1. t \in Mentioned(Append(l, e)) <=> \E i \in 1 .. Len(l) + 1 : Append(l, e)[i].task = t
    BY <1>1, <1>2 DEF Mentioned
  <2>2. t \in Mentioned(l) <=> \E i \in 1 .. Len(l) : l[i].task = t
    BY <1>1, <1>2 DEF Mentioned
  <2> QED BY <1>1, <2>1, <2>2
<1>3. ASSUME NEW t \in Task
      PROVE  t \in Settled(Append(l, e)) <=>
               t \in Settled(l) \/ (e.event \in TerminalKinds /\ t = e.task)
  <2>1. ASSUME NEW kind
        PROVE  At(Append(l, e), kind, t) # {} <=>
                 At(l, kind, t) # {} \/ (e.event = kind /\ e.task = t)
    <3>1. At(Append(l, e), kind, t) = IF e.event = kind /\ e.task = t
                                      THEN At(l, kind, t) \cup {Len(l) + 1} ELSE At(l, kind, t)
      BY AtAppend
    <3>2. CASE e.event = kind /\ e.task = t
      <4>1. Len(l) + 1 \in At(Append(l, e), kind, t)
        BY <3>1, <3>2
      <4> QED BY <3>2, <4>1
    <3>3. CASE ~(e.event = kind /\ e.task = t)
      BY <3>1, <3>3
    <3> QED BY <3>2, <3>3
  <2> QED BY <1>3, <2>1 DEF Settled
<1>4. Mentioned(l) \subseteq Task /\ Mentioned(Append(l, e)) \subseteq Task
      /\ Settled(l) \subseteq Task /\ Settled(Append(l, e)) \subseteq Task
  BY DEF Mentioned, Settled
<1> QED BY <1>2, <1>3, <1>4

\* A task that was mentioned stays mentioned.
LEMMA MentionsStay ==
  ASSUME Inv, Next
  PROVE  Mentioned(ledger) \subseteq Mentioned(ledger')
<1>1. CASE ledger' = ledger
  BY <1>1
<1>2. CASE \E e \in Pending : Written(e)
  <2>1. PICK d \in LedgerEvent : ledger' = Append(ledger, d)
    BY <1>2, WrittenLine
  <2> QED BY <2>1, MentionAppend, Ranges
<1> QED BY <1>1, <1>2, LedgerGrows

\* The steps before the workers are started.
LEMMA FirstSteps ==
  ASSUME Next, pc' \in {"new", "launch", "queue", "announce"}
  PROVE  \/ Launch \/ StartRun \/ QueueTask
         \/ pc' = pc /\ ledger' = ledger /\ scan' = scan
<1> USE DEF durable, sched, pool, env
<1>1. CASE \/ DispatchSend \/ DispatchPark \/ DispatchDone \/ WakeUp \/ PoolLost \/ Announce
  BY <1>1 DEF DispatchSend, DispatchPark, DispatchDone, WakeUp, PoolLost, Abandon, Announce, Begin
<1>2. CASE Handling
  BY <1>2 DEF Handling, HandleStarted, HandleHeartbeat, HandleError, HandleReceipt, Receive,
              Wake, EnforceBudget
<1>3. CASE Applying
  BY <1>3 DEF Applying, ApplyDone, ApplyRetry, ApplyEscalate, ApplyGate, ApplyFail,
              EnforceBudget
<1>4. CASE Ending
  BY <1>4 DEF Ending, HaltOne, HaltDone, LeaveLoop, JoinPool, Finish, FinishIndex
<1>5. ASSUME NEW w \in Worker, \/ Offer(w) \/ OfferFails(w) \/ Heartbeat(w) \/ Perform(w)
                               \/ Panic(w) \/ Leave(w) \/ Unwind(w)
      PROVE  pc' = pc /\ ledger' = ledger /\ scan' = scan
  BY <1>5 DEF Offer, OfferFails, Heartbeat, Perform, Panic, Leave, Unwind
<1>6. CASE \/ AppendError \/ IndexError \/ PreflightError \/ SpawnFails \/ AbortJoined
           \/ RecordFailure
           \/ RecordFailureError \/ Crash \/ ResumeRefused \/ ResumeFinished \/ ResumeRun
  BY <1>6 DEF AppendError, IndexError, PreflightError, SpawnFails, AbortJoined, RecordFailure,
      Abandon, RecordFailureError, Crash, ResumeRefused, ResumeFinished, ResumeRun, Begin
<1>7. CASE ClockTurns \/ StrayLeaves \/ Stopped
  BY <1>7 DEF ClockTurns, StrayLeaves, Stopped, vars
<1> QED
  BY <1>1, <1>2, <1>3, <1>4, <1>5, <1>6, <1>7 DEF Next, Handling, Applying, Ending

\* Until the workers are started the ledger mentions the tasks queued so far.
LEMMA QueuedSoFar ==
  ASSUME Inv, Whole, Covered, Next
  PROVE  /\ pc' \in {"new", "launch"} => Mentioned(ledger') = {}
         /\ pc' = "queue" => Mentioned(ledger') = {t \in Task : t < scan'}
         /\ pc' = "announce" => Mentioned(ledger') = Task
<1> USE DEF durable, sched, pool, env
<1>1. CASE Launch
  BY <1>1 DEF Launch, Covered
<1>2. CASE StartRun
  <2>1. /\ pc = "launch" /\ pc' = "queue" /\ scan' = 1
        /\ ledger' = Append(ledger, OnRun("run_started"))
    BY <1>2 DEF StartRun, Commit, Whole
  <2>2. OnRun("run_started") \in LedgerEvent /\ OnRun("run_started").task = NoTask
    BY EventTypes DEF RunKinds, LedgerEvent, OnRun
  <2>3. Mentioned(ledger') = {}
    BY <2>1, <2>2, MentionAppend, Ranges DEF Covered
  <2>4. {t \in Task : t < 1} = {}
    BY LedgerAssumption DEF Task
  <2> QED BY <2>1, <2>3, <2>4
<1>3. CASE QueueTask
  <2>1. /\ pc = "queue" /\ scan \in Task
        /\ ledger' = Append(ledger, OnTask("task_queued", scan))
        /\ IF scan < TaskCount THEN pc' = "queue" /\ scan' = scan + 1 ELSE pc' = "announce"
    BY <1>3, Ranges DEF QueueTask, Commit, Whole, Locals
  <2>2. OnTask("task_queued", scan) \in LedgerEvent /\ OnTask("task_queued", scan).task = scan
    BY <2>1, EventTypes DEF TaskKinds, LedgerEvent
  <2>3. Mentioned(ledger') = {t \in Task : t < scan} \cup {scan}
    BY <2>1, <2>2, MentionAppend, Ranges DEF Covered
  <2>4. {t \in Task : t < scan} \cup {scan} = {t \in Task : t < scan + 1}
    BY <2>1, LedgerAssumption DEF Task
  <2>5. ~(scan < TaskCount) => {t \in Task : t < scan} \cup {scan} = Task
    BY <2>1, LedgerAssumption DEF Task
  <2> QED BY <2>1, <2>3, <2>4, <2>5
<1>4. CASE pc' = pc /\ ledger' = ledger /\ scan' = scan
  BY <1>4 DEF Covered
<1> QED BY <1>1, <1>2, <1>3, <1>4, FirstSteps

\* What a step of a serving coordinator or of its threads does to the hand: it
\* keeps it, with no line or with a line about a task the ledger knows, or it
\* lets go of the one task it settles.
LEMMA ServedHand ==
  ASSUME Inv, Offers, Whole, Covered, Staffed, Next, Serving, Serving', Lost' = {},
         ~Announce, ~ResumeRun
  PROVE  \/ InHand' = InHand /\ ledger' = ledger
         \/ \E d \in LedgerEvent :
              /\ ledger' = Append(ledger, d)
              /\ \/ /\ InHand' = InHand /\ d.event \notin TerminalKinds
                    /\ d.task \in Mentioned(ledger)
                 \/ /\ d.event \in TerminalKinds /\ d.task \in InHand
                    /\ InHand' = InHand \ {d.task}
<1> USE DEF durable, sched, pool, env
<1> DEFINE Quiet == InHand' = InHand /\ ledger' = ledger
           Noted(d) == /\ ledger' = Append(ledger, d)
                       /\ \/ /\ InHand' = InHand /\ d.event \notin TerminalKinds
                             /\ d.task \in Mentioned(ledger)
                          \/ /\ d.event \in TerminalKinds /\ d.task \in InHand
                             /\ InHand' = InHand \ {d.task}
<1>1. SUFFICES Quiet \/ \E d \in LedgerEvent : Noted(d)
  OBVIOUS
<1>2. ~torn
  BY DEF Whole, Serving
<1>3. InHand \cup Beating(events) \subseteq Mentioned(ledger)
  BY DEF Covered
<1>4. InHand = Waiting \cup Sent \cup Taken \cup Answered \cup Judged
      /\ InHand' = Waiting' \cup Sent' \cup Taken' \cup Answered' \cup Judged'
  BY DEF InHand
<1>5. /\ Waiting \cap (Sent \cup Taken \cup Answered \cup Judged) = {}
      /\ Sent \cap (Taken \cup Answered \cup Judged) = {}
      /\ Taken \cap (Answered \cup Judged) = {}
      /\ Answered \cap Judged = {}
  BY DEF Inv, Apart
<1>6. CASE DispatchSend
  <2>1. ledger' = ledger
    BY <1>6 DEF DispatchSend
  <2> QED BY <1>4, <1>6, <2>1, SendMoves
<1>7. CASE DispatchPark
  <2>1. ledger' = ledger
    BY <1>7 DEF DispatchPark
  <2> QED BY <1>4, <1>7, <2>1, ParkMoves
<1>8. CASE \/ DispatchDone \/ WakeUp \/ HaltDone \/ ClockTurns \/ StrayLeaves \/ Stopped
  <2>1. UNCHANGED <<ledger, remaining, jobs, wtask, events, deciding>>
    BY <1>8 DEF DispatchDone, WakeUp, HaltDone, ClockTurns, StrayLeaves, Stopped, vars
  <2> QED BY <1>4, <2>1, StillPlaces
<1>9. CASE HandleStarted
  <2> DEFINE d == TaskStarted(Head(events).task, tier[Head(events).task],
                              attempt[Head(events).task])
  <2>1. /\ events # << >> /\ Head(events).kind = "started" /\ events' = Tail(events)
        /\ ledger' = Append(ledger, d)
    BY <1>2, <1>9 DEF HandleStarted, Receive, Commit
  <2>2. /\ Head(events) \in Message /\ Head(events).task \in Task
        /\ Head(events).worker \in Worker
    BY <2>1, ReceiveMoves
  <2>3. tier[Head(events).task] \in Nat /\ attempt[Head(events).task] \in Nat
    BY <2>2, Ranges DEF TypeOK
  <2>4. d \in LedgerEvent /\ d.event = "task_started"
    BY <2>2, <2>3, WrittenEvents DEF LedgerEvent
  <2>5. d.task = Head(events).task
    BY DEF TaskStarted, OnTask
  <2>6. Head(events).task \in Taken
    <3>1. 1 \in DOMAIN events /\ events[1] = Head(events)
      BY <2>1, Ranges
    <3>2. /\ wpc[Head(events).worker] = "offered"
          /\ Head(events).task = wtask[Head(events).worker]
      BY <2>1, <3>1, Ranges DEF Offers, Threads
    <3> QED BY <2>2, <3>2, Ranges
  <2>7. InHand' = InHand
    BY <1>4, <1>9, NoticeMoves
  <2>8. d.task \in Mentioned(ledger)
    BY <1>3, <1>4, <2>5, <2>6
  <2>9. d.event \notin TerminalKinds
    BY <2>4 DEF TerminalKinds
  <2> HIDE DEF d
  <2> QED BY <2>1, <2>4, <2>7, <2>8, <2>9
<1>10. CASE HandleHeartbeat
  <2> DEFINE d == OnTask("task_heartbeat", Head(events).task)
  <2>1. /\ events # << >> /\ Head(events).kind = "heartbeat" /\ events' = Tail(events)
        /\ ledger' = Append(ledger, d)
    BY <1>2, <1>10 DEF HandleHeartbeat, Receive, Commit
  <2>2. Head(events).task \in Task
    BY <2>1, ReceiveMoves
  <2>3. d \in LedgerEvent /\ d.event \notin TerminalKinds /\ d.task = Head(events).task
    BY <2>2, EventTypes DEF LedgerEvent, TaskKinds, TerminalKinds
  <2>4. Head(events).task \in Beating(events)
    BY <2>1, TailOfBeats, Ranges
  <2>5. InHand' = InHand
    BY <1>4, <1>10, NoticeMoves
  <2> HIDE DEF d
  <2> QED BY <1>3, <2>1, <2>3, <2>4, <2>5
<1>11. CASE HandleError
  <2> DEFINE d == OnTask("task_failed", Head(events).task)
  <2>1. /\ events # << >> /\ events' = Tail(events) /\ ledger' = Append(ledger, d)
    BY <1>2, <1>11 DEF HandleError, Receive, Commit
  <2>2. Head(events).task \in Task
    BY <2>1, ReceiveMoves
  <2>3. d \in LedgerEvent /\ d.event \in TerminalKinds /\ d.task = Head(events).task
    BY <2>2, EventTypes DEF LedgerEvent, TaskKinds, TerminalKinds
  <2> HIDE DEF d
  <2> QED BY <1>4, <1>5, <1>11, <2>1, <2>3, ErrorMoves
<1>12. CASE HandleReceipt
  <2> DEFINE d == TaskReceipt(Head(events).task, attempt[Head(events).task],
                              Head(events).outcome, Head(events).tokens)
  <2>1. /\ events # << >> /\ events' = Tail(events) /\ ledger' = Append(ledger, d)
        /\ Head(events).outcome # "error"
    BY <1>2, <1>12 DEF HandleReceipt, Receive, Commit
  <2>2. Head(events) \in Message /\ Head(events).task \in Task
    BY <2>1, ReceiveMoves
  <2>3. /\ attempt[Head(events).task] \in Nat
        /\ Head(events).outcome \in Outcome \cup {"none"} /\ Head(events).tokens \in Nat
    BY <2>1, <2>2, Ranges DEF TypeOK, Message
  <2>4. d \in LedgerEvent /\ d.event = "task_receipt"
    BY <2>2, <2>3, WrittenEvents DEF LedgerEvent
  <2>5. d.task = Head(events).task
    BY DEF TaskReceipt, OnTask
  <2>6. d.event \notin TerminalKinds
    BY <2>4 DEF TerminalKinds
  <2>7. InHand' = InHand /\ Head(events).task \in InHand
    BY <1>4, <1>12, ReceiptMoves
  <2> HIDE DEF d
  <2> QED BY <1>3, <2>1, <2>4, <2>5, <2>6, <2>7
<1>13. CASE ApplyRetry
  <2>1. ledger' = ledger
    BY <1>13 DEF ApplyRetry
  <2>2. InHand' = InHand
    BY <1>4, <1>13, AgainMoves
  <2> QED BY <2>1, <2>2
<1>14. CASE ApplyEscalate
  <2> DEFINE d == TaskEscalated(deciding.task, tier[deciding.task] + 1)
  <2>1. ledger' = Append(ledger, d) /\ pc = "decide"
    BY <1>2, <1>14 DEF ApplyEscalate, Commit
  <2>2. d \in LedgerEvent
    BY <2>1, DecisionTypes, Ranges
  <2>3. d.task = deciding.task /\ d.event \notin TerminalKinds
    BY DEF TaskEscalated, OnTask, TerminalKinds
  <2>4. InHand' = InHand /\ deciding.task \in InHand
    BY <1>4, <1>14, AgainMoves
  <2> HIDE DEF d
  <2> QED BY <1>3, <2>1, <2>2, <2>3, <2>4
<1>15. CASE ApplyDone \/ ApplyGate \/ ApplyFail
  <2>1. InHand' = InHand \ {deciding.task} /\ deciding.task \in InHand /\ deciding.task \in Task
    BY <1>4, <1>5, <1>15, EndMoves
  <2>2. pc = "decide"
    BY <1>15 DEF ApplyDone, ApplyGate, ApplyFail
  <2>3. PICK d : /\ ledger' = Append(ledger, d)
                 /\ d \in {TaskDone(deciding.task, deciding.outcome),
                           OnTask("task_gate", deciding.task),
                           OnTask("task_failed", deciding.task)}
    BY <1>2, <1>15 DEF ApplyDone, ApplyGate, ApplyFail, Commit
  <2>4. d \in LedgerEvent
    BY <2>2, <2>3, DecisionTypes, Ranges
  <2>5. d.event \in TerminalKinds /\ d.task = deciding.task
    BY <2>3 DEF TaskDone, OnTask, TerminalKinds
  <2> QED BY <2>1, <2>3, <2>4, <2>5
<1>16. CASE HaltOne
  <2> DEFINE d == OnTask("task_failed", Head(remaining))
  <2>1. ledger' = Append(ledger, d)
    BY <1>2, <1>16 DEF HaltOne, Commit
  <2>2. d \in LedgerEvent /\ d.event \in TerminalKinds /\ d.task = Head(remaining)
    BY <1>16, HaltMoves, EventTypes DEF LedgerEvent, TaskKinds, TerminalKinds
  <2>3. InHand' = InHand \ {Head(remaining)} /\ Head(remaining) \in InHand
    BY <1>4, <1>5, <1>16, HaltMoves
  <2> HIDE DEF d
  <2> QED BY <2>1, <2>2, <2>3
<1>17. ASSUME NEW w \in Worker, Offer(w)
       PROVE  Quiet
  <2>1. ledger' = ledger
    BY <1>17 DEF Offer
  <2> QED BY <1>4, <1>17, <2>1, OfferMoves
<1>18. ASSUME NEW w \in Worker, OfferFails(w)
       PROVE  Quiet
  <2>1. ledger' = ledger
    BY <1>18 DEF OfferFails
  <2> QED BY <1>4, <1>18, <2>1, FailedOfferMoves
<1>19. ASSUME NEW w \in Worker, Heartbeat(w)
       PROVE  Quiet
  <2>1. ledger' = ledger
    BY <1>19 DEF Heartbeat
  <2> QED BY <1>4, <1>19, <2>1, HeartbeatMoves
<1>20. ASSUME NEW w \in Worker, Perform(w)
       PROVE  Quiet
  <2>1. ledger' = ledger
    BY <1>20 DEF Perform
  <2> QED BY <1>4, <1>20, <2>1, PerformMoves
<1>21. ASSUME NEW w \in Worker, Panic(w)
       PROVE  FALSE
  <2>1. wpc[w] = "running" /\ wpc' = [wpc EXCEPT ![w] = "gone"] /\ workers' = workers
    BY <1>21 DEF Panic
  <2> QED BY <1>21, <2>1, ThreadMoves
<1>22. ASSUME NEW w \in Worker, Leave(w) \/ Unwind(w)
       PROVE  FALSE
  BY <1>22 DEF Leave, Unwind, Serving
<1>23. ~(\/ Launch \/ StartRun \/ QueueTask \/ PoolLost \/ LeaveLoop \/ JoinPool \/ Finish
         \/ FinishIndex \/ AppendError \/ IndexError \/ PreflightError \/ SpawnFails
         \/ AbortJoined
         \/ RecordFailure \/ RecordFailureError \/ Crash \/ ResumeRefused \/ ResumeFinished)
  BY DEF Launch, StartRun, QueueTask, PoolLost, LeaveLoop, JoinPool, Finish, FinishIndex,
      AppendError, IndexError, PreflightError, SpawnFails, AbortJoined, RecordFailure,
      RecordFailureError, Crash, ResumeRefused, ResumeFinished, Abandon, Serving
<1> HIDE DEF Quiet, Noted
<1> QED
  BY <1>6, <1>7, <1>8, <1>9, <1>10, <1>11, <1>12, <1>13, <1>14, <1>15, <1>16, <1>17, <1>18,
     <1>19, <1>20, <1>21, <1>22, <1>23
  DEF Next

\* Only taking the run up brings tasks into the hand.
LEMMA HandStays ==
  ASSUME Inv, Next, ~Announce, ~ResumeRun
  PROVE  InHand' \cup Beating(events') \subseteq InHand \cup Beating(events)
<1> USE DEF durable, sched, pool, env
<1>1. InHand = Waiting \cup Sent \cup Taken \cup Answered \cup Judged
      /\ InHand' = Waiting' \cup Sent' \cup Taken' \cup Answered' \cup Judged'
  BY DEF InHand
<1>2. ASSUME events' = Tail(events), events # << >>
      PROVE  Beating(events') \subseteq Beating(events)
  BY <1>2, TailOfBeats, Ranges
<1>3. CASE DispatchSend \/ DispatchPark
  <2>1. events' = events
    BY <1>3 DEF DispatchSend, DispatchPark
  <2> QED BY <1>1, <1>3, <2>1, SendMoves, ParkMoves
<1>4. CASE HandleStarted \/ HandleHeartbeat
  <2>1. events' = Tail(events) /\ events # << >>
    BY <1>4 DEF HandleStarted, HandleHeartbeat, Receive
  <2> QED BY <1>1, <1>2, <1>4, <2>1, NoticeMoves
<1>5. CASE HandleError \/ HandleReceipt
  <2>1. events' = Tail(events) /\ events # << >>
    BY <1>5 DEF HandleError, HandleReceipt, Receive
  <2> QED BY <1>1, <1>2, <1>5, <2>1, ErrorMoves, ReceiptMoves
<1>6. CASE ApplyRetry \/ ApplyEscalate
  <2>1. events' = events
    BY <1>6 DEF ApplyRetry, ApplyEscalate
  <2> QED BY <1>1, <1>6, <2>1, AgainMoves
<1>7. CASE ApplyDone \/ ApplyGate \/ ApplyFail
  <2>1. events' = events
    BY <1>7 DEF ApplyDone, ApplyGate, ApplyFail
  <2> QED BY <1>1, <1>7, <2>1, EndMoves
<1>8. CASE HaltOne
  <2>1. events' = events
    BY <1>8 DEF HaltOne
  <2> QED BY <1>1, <1>8, <2>1, HaltMoves
<1>9. ASSUME NEW w \in Worker, \/ Offer(w) \/ OfferFails(w) \/ Heartbeat(w) \/ Perform(w)
      PROVE  InHand' \cup Beating(events') \subseteq InHand \cup Beating(events)
  <2>1. OfferFails(w) => Beating(events') = Beating(events)
    BY FailedOfferMoves
  <2> QED BY <1>1, <1>9, <2>1, OfferMoves, FailedOfferMoves, HeartbeatMoves, PerformMoves
<1>10. ASSUME NEW w \in Worker, Panic(w) \/ Leave(w) \/ Unwind(w)
       PROVE  InHand' \cup Beating(events') \subseteq InHand \cup Beating(events)
  BY <1>1, <1>10, QuitMoves
<1>11. ASSUME remaining' = << >>, jobs' = << >>, events' = << >>, deciding' = NoDecision,
              Taken' \subseteq Taken
       PROVE  InHand' \cup Beating(events') \subseteq InHand \cup Beating(events)
  <2>1. Waiting' = {} /\ Sent' = {} /\ Answered' = {} /\ Judged' = {}
    BY <1>11, SamePlaces
  <2>2. Beating(events') = {}
    BY <1>11 DEF Beating, Pulses
  <2> QED BY <1>1, <1>11, <2>1, <2>2
<1>12. CASE PoolLost \/ AppendError \/ IndexError \/ FinishIndex
  <2>1. Forget /\ wtask' = wtask
    BY <1>12 DEF PoolLost, AppendError, IndexError, FinishIndex, Abandon
  <2> QED BY <1>11, <2>1, SamePlaces DEF Forget
<1>13. CASE Crash
  <2>1. Forget /\ wtask' = [w \in Worker |-> NoTask]
    BY <1>13 DEF Crash
  <2>2. Taken' = {}
    BY <2>1 DEF Taken, Range
  <2> QED BY <1>11, <2>1, <2>2 DEF Forget
<1>14. CASE \/ Launch \/ StartRun \/ QueueTask \/ DispatchDone \/ WakeUp \/ HaltDone
            \/ LeaveLoop \/ JoinPool \/ Finish \/ PreflightError \/ SpawnFails \/ AbortJoined
            \/ RecordFailure
            \/ RecordFailureError \/ ResumeRefused \/ ResumeFinished \/ ClockTurns
            \/ StrayLeaves \/ Stopped
  <2>1. UNCHANGED <<remaining, jobs, wtask, events, deciding>>
    BY <1>14
    DEF Launch, StartRun, QueueTask, DispatchDone, WakeUp, HaltDone, LeaveLoop, JoinPool, Finish,
        PreflightError, SpawnFails, AbortJoined, RecordFailure, RecordFailureError,
        ResumeRefused, ResumeFinished, ClockTurns, StrayLeaves, Stopped, vars
  <2> QED BY <1>1, <2>1, StillPlaces
<1> QED
  BY <1>3, <1>4, <1>5, <1>6, <1>7, <1>8, <1>9, <1>10, <1>12, <1>13, <1>14 DEF Next

\* The hand of a run that is taken up: all tasks, or those a resume finds unsettled.
LEMMA HandTakenUp ==
  ASSUME Inv, Covered, Announce \/ ResumeRun
  PROVE  /\ InHand' = Todo(ledger) /\ Beating(events') = {} /\ ledger' = ledger
         /\ pc' \in {"halt", "dispatch"}
<1>1. /\ ledger' = ledger /\ AllGone /\ jobs = << >> /\ events = << >>
      /\ IF Announce THEN pc = "announce" ELSE TRUE
  BY TakesUp DEF Announce
<1>2. PICK queue \in Seq(Task) :
        /\ Begin(queue, IF Announce THEN 0 ELSE ReceiptTokens(ledger))
        /\ IF Announce THEN Range(queue) = Task ELSE Range(queue) = Todo(ledger)
  BY TakesUp
<1>3. Announce => Todo(ledger) = Task
  BY <1>1 DEF Covered, Todo, Inv, Locals
<1>4. remaining' = queue /\ deciding' = NoDecision /\ pc' \in {"halt", "dispatch"}
  BY <1>2 DEF Begin
<1>5. jobs' = << >> /\ events' = << >> /\ wtask' = wtask
  BY <1>1, <1>2, StaffBegins
<1>6. Waiting' = Range(queue) /\ Sent' = {} /\ Answered' = {} /\ Judged' = {}
  BY <1>4, <1>5, SamePlaces DEF Waiting
<1>7. Taken' = {}
  <2>1. Taken' = Taken
    BY <1>5, SamePlaces
  <2> QED BY <1>1, <2>1, NobodyHolds, Ranges
<1>8. Beating(events') = {}
  BY <1>5 DEF Beating, Pulses
<1> QED BY <1>1, <1>2, <1>3, <1>4, <1>6, <1>7, <1>8 DEF InHand

\* No task of the ledger is lost.
LEMMA CoveredStep ==
  ASSUME Inv, Offers, Whole, Staffed, Covered, Next
  PROVE  Covered'
<1>1. InHand' \cup Beating(events') \subseteq Mentioned(ledger')
  <2>1. CASE Announce \/ ResumeRun
    BY <2>1, HandTakenUp DEF Todo
  <2>2. CASE ~Announce /\ ~ResumeRun
    BY <2>2, HandStays, MentionsStay DEF Covered
  <2> QED BY <2>1, <2>2
<1>2. /\ pc' \in {"new", "launch"} => Mentioned(ledger') = {}
      /\ pc' = "queue" => Mentioned(ledger') = {t \in Task : t < scan'}
      /\ pc' = "announce" => Mentioned(ledger') = Task
  BY QueuedSoFar
<1>3. ASSUME Serving', Lost' = {}
      PROVE  InHand' = Todo(ledger')
  <2>1. CASE Announce \/ ResumeRun
    BY <2>1, HandTakenUp
  <2>2. CASE ~Announce /\ ~ResumeRun
    <3>1. Serving
      BY <1>3, <2>2, ActiveSteps
    <3>2. Lost = {}
      <4>1. 1 .. workers \subseteq Worker
        <5>1. MaxWorkers \in Nat /\ workers \in Nat
          BY Ranges, FleetAssumption DEF TypeOK
        <5>2. workers <= MaxWorkers
          BY DEF Staffed
        <5> QED BY <5>1, <5>2 DEF Worker
      <4>2. workers' = workers /\ \A w \in Worker : wpc[w] = "gone" => wpc'[w] = "gone"
        BY <2>2, StaffStays
      <4>3. Lost' = {w \in 1 .. workers : wpc'[w] = "gone"}
        BY <4>2 DEF Lost
      <4>4. Lost \subseteq Lost'
        BY <4>1, <4>2, <4>3 DEF Lost
      <4> QED BY <1>3, <4>4
    <3>3. InHand = Todo(ledger) /\ InHand \subseteq Task
      BY <3>1, <3>2 DEF Covered, Todo, Mentioned
    <3>4. CASE InHand' = InHand /\ ledger' = ledger
      BY <3>3, <3>4
    <3>5. ASSUME NEW d \in LedgerEvent, ledger' = Append(ledger, d), InHand' = InHand,
                 d.event \notin TerminalKinds, d.task \in Mentioned(ledger)
          PROVE  InHand' = Todo(ledger')
      <4>1. Mentioned(ledger) \subseteq Task
        BY DEF Mentioned
      <4>2. Mentioned(ledger') = Mentioned(ledger) \cup ({d.task} \cap Task)
            /\ Settled(ledger') = Settled(ledger)
        BY <3>5, MentionAppend, Ranges
      <4> QED BY <3>3, <3>5, <4>1, <4>2 DEF Todo
    <3>6. ASSUME NEW d \in LedgerEvent, ledger' = Append(ledger, d),
                 d.event \in TerminalKinds, d.task \in InHand, InHand' = InHand \ {d.task}
          PROVE  InHand' = Todo(ledger')
      <4>1. Mentioned(ledger') = Mentioned(ledger) \cup {d.task}
            /\ Settled(ledger') = Settled(ledger) \cup {d.task}
        BY <3>3, <3>6, MentionAppend, Ranges
      <4>2. d.task \in Mentioned(ledger)
        BY <3>6 DEF Covered
      <4> QED BY <3>3, <3>6, <4>1, <4>2 DEF Todo
    <3> QED BY <1>3, <2>2, <3>1, <3>4, <3>5, <3>6, ServedHand
  <2> QED BY <2>1, <2>2
<1> QED BY <1>1, <1>2, <1>3 DEF Covered

----------------------------------------------------------------------------
(* What the two invariants of the account say to a reader of the code.     *)

\* Where a value occurs at most once, its occurrences are none or one.
LEMMA Occurrences ==
  ASSUME NEW S, \A i, j \in S : i = j
  PROVE  Cardinality(S) = IF S = {} THEN 0 ELSE 1
<1>1. CASE S = {}
  BY <1>1, FS_EmptySet
<1>2. CASE S # {}
  <2>1. PICK x : x \in S
    BY <1>2
  <2>2. S = {x}
    BY <2>1
  <2> QED BY <1>2, <2>2, FS_Singleton
<1> QED BY <1>1, <1>2

\* While no thread has panicked, a task to do is held in one place and a
\* settled one in none.
LEMMA HandHolds ==
  ASSUME Inv, Covered
  PROVE  HeldOnce
<1> SUFFICES ASSUME Serving, Lost = {}, NEW t \in Task
             PROVE  Holders(t) = IF t \in Todo(ledger) THEN 1 ELSE 0
  BY DEF HeldOnce
<1> DEFINE R == {i \in DOMAIN remaining : remaining[i] = t}
           J == {i \in DOMAIN jobs : jobs[i] = t}
           W == {w \in Worker : wtask[w] = t}
           A == {i \in DOMAIN events : events[i].kind = "finished" /\ events[i].task = t}
           D == IF deciding.task = t THEN 1 ELSE 0
<1>1. t # NoTask
  BY LedgerAssumption DEF Task, NoTask
<1>2. Cardinality(R) = IF t \in Waiting THEN 1 ELSE 0
  <2>1. \A i, j \in R : i = j
    BY Ranges DEF Distinct
  <2>2. R # {} <=> t \in Waiting
    BY DEF Waiting, Range
  <2> HIDE DEF R
  <2> QED BY <2>1, <2>2, Occurrences
<1>3. Cardinality(J) = IF t \in Sent THEN 1 ELSE 0
  <2>1. \A i, j \in J : i = j
    BY Ranges DEF Distinct
  <2>2. J # {} <=> t \in Sent
    BY DEF Sent, Range
  <2> HIDE DEF J
  <2> QED BY <2>1, <2>2, Occurrences
<1>4. Cardinality(W) = IF t \in Taken THEN 1 ELSE 0
  <2>1. \A v, w \in W : v = w
    BY <1>1, Ranges DEF SoleHolders
  <2>2. W # {} <=> t \in Taken
    BY <1>1, Ranges DEF Taken, Range, TypeOK
  <2> HIDE DEF W
  <2> QED BY <2>1, <2>2, Occurrences
<1>5. Cardinality(A) = IF t \in Answered THEN 1 ELSE 0
  <2>1. \A i, j \in A : i = j
    BY Ranges DEF OneAnswer, Answers
  <2>2. A # {} <=> t \in Answered
    BY DEF Answered, Tasks, Answers
  <2> HIDE DEF A
  <2> QED BY <2>1, <2>2, Occurrences
<1>6. D = IF t \in Judged THEN 1 ELSE 0
  BY <1>1 DEF Judged
<1>7. Holders(t) = Cardinality(R) + Cardinality(J) + Cardinality(W) + Cardinality(A) + D
  BY DEF Holders
<1>8. t \in Todo(ledger) <=> \/ t \in Waiting \/ t \in Sent \/ t \in Taken \/ t \in Answered
                             \/ t \in Judged
  BY DEF Covered, InHand
<1>9. /\ t \in Waiting => t \notin Sent /\ t \notin Taken /\ t \notin Answered /\ t \notin Judged
      /\ t \in Sent => t \notin Taken /\ t \notin Answered /\ t \notin Judged
      /\ t \in Taken => t \notin Answered /\ t \notin Judged
      /\ t \in Answered => t \notin Judged
  BY DEF Inv, Apart
<1> HIDE DEF R, J, W, A, D
<1> QED BY <1>2, <1>3, <1>4, <1>5, <1>6, <1>7, <1>8, <1>9

\* The receipts of the rest of a ledger are those behind the line.
LEMMA RestCounted ==
  ASSUME NEW l \in Seq(LedgerEvent), NEW i \in 1 .. Len(l)
  PROVE  CountOf(SubSeq(l, i + 1, Len(l)), "task_receipt") = Cardinality(ReceiptsAfter(l, i))
<1> DEFINE r == SubSeq(l, i + 1, Len(l))
           S == {k \in DOMAIN r : r[k].event = "task_receipt"}
           T == ReceiptsAfter(l, i)
           f == [k \in S |-> k + i]
<1>1. /\ Len(l) \in Nat /\ DOMAIN l = 1 .. Len(l)
      /\ DOMAIN r = 1 .. (Len(l) - i)
      /\ \A k \in 1 .. (Len(l) - i) : r[k] = l[k + i]
  OBVIOUS
<1> HIDE DEF r
<1>2. S \subseteq 1 .. (Len(l) - i) /\ \A k \in S : k + i \in T
  BY <1>1 DEF ReceiptsAfter
<1>3. \A j \in T : j - i \in S /\ (j - i) + i = j
  BY <1>1 DEF ReceiptsAfter
<1>4. IsFiniteSet(S)
  <2>1. IsFiniteSet(1 .. (Len(l) - i))
    BY <1>1, FS_Interval
  <2> QED BY <1>2, <2>1, FS_Subset
<1>5. CountOf(r, "task_receipt") = Cardinality(S)
  BY DEF CountOf
<1> HIDE DEF S, T
<1>6. f \in Bijection(S, T)
  <2>1. f \in [S -> T]
    BY <1>2
  <2>2. \A j, k \in S : f[j] = f[k] => j = k
    BY <1>1, <1>2
  <2>3. \A j \in T : \E k \in S : f[k] = j
    BY <1>3
  <2> QED BY <2>1, <2>2, <2>3, Fun_IsBij
<1>7. Cardinality(T) = Cardinality(S)
  BY <1>4, <1>6, FS_Bijection DEF ExistsBijection
<1> QED BY <1>5, <1>7 DEF r, T

\* The budget is overrun by the receipts of the runs that were out.
LEMMA FlightOvershoots ==
  ASSUME Inv, InFlight
  PROVE  OvershootIsInFlight
<1>1. ASSUME NEW i \in DOMAIN ledger, ledger[i].event = "task_receipt",
             Over(ReceiptTokens(SubSeq(ledger, 1, i)))
      PROVE  CountOf(SubSeq(ledger, i + 1, Len(ledger)), "task_receipt") < MaxWorkers
  <2>1. i \in Spent(ledger) /\ i \in 1 .. Len(ledger)
    BY <1>1, Ranges DEF Spent
  <2>2. Cardinality(ReceiptsAfter(ledger, i)) + Load < MaxWorkers
    BY <2>1, LoadMeans
  <2>3. Cardinality(ReceiptsAfter(ledger, i)) \in Nat /\ Load \in Nat
    <3>1. PICK e : e \in LedgerEvent
      BY EventTypes DEF RunKinds, LedgerEvent
    <3> QED BY <2>1, <3>1, SpentAppend, Ranges DEF Load, TypeOK
  <2>4. CountOf(SubSeq(ledger, i + 1, Len(ledger)), "task_receipt")
          = Cardinality(ReceiptsAfter(ledger, i))
    BY <2>1, RestCounted, Ranges
  <2>5. MaxWorkers \in Nat
    BY FleetAssumption
  <2> QED BY <2>2, <2>3, <2>4, <2>5
<1> QED BY <1>1 DEF OvershootIsInFlight

----------------------------------------------------------------------------
(* The account holds in every reachable state.                             *)

\* Before anything runs the account is empty.
LEMMA InitAccount == Init => AccountInv
<1> SUFFICES ASSUME Init PROVE AccountInv
  OBVIOUS
<1>1. /\ ledger = << >> /\ pc = "new" /\ remaining = << >> /\ jobs = << >> /\ events = << >>
      /\ deciding = NoDecision /\ workers = 0 /\ used = 0
      /\ wpc = [w \in Worker |-> "gone"] /\ wtask = [w \in Worker |-> NoTask]
  BY DEF Init
<1>2. ~Serving
  BY <1>1 DEF Serving
<1>3. Covered
  <2>1. Waiting = {} /\ Sent = {} /\ Taken = {}
    BY <1>1 DEF Waiting, Sent, Taken, Range
  <2>2. Answered = {} /\ Judged = {} /\ Beating(events) = {}
    BY <1>1 DEF Answered, Tasks, Answers, Judged, NoDecision, Beating, Pulses
  <2>3. Mentioned(ledger) = {}
    BY <1>1 DEF Mentioned
  <2> QED BY <1>1, <1>2, <2>1, <2>2, <2>3 DEF Covered, InHand
<1>4. Staffed /\ ActiveIsOut
  BY <1>1, <1>2, FleetAssumption DEF Staffed, ActiveIsOut, Worker
<1>5. Metered
  BY <1>1, <1>2, MeterStarts DEF Metered, MeterIsDurable
<1>6. InFlight
  BY <1>1 DEF InFlight, Spent
<1> QED BY <1>3, <1>4, <1>5, <1>6 DEF AccountInv

\* Beside the record, the account is inductive.
LEMMA StepAccount == Inv /\ RecordInv /\ AccountInv /\ [Next]_vars => AccountInv'
<1>1. ASSUME Inv, RecordInv, AccountInv, Next
      PROVE  AccountInv'
  <2>1. /\ Offers /\ Whole
        /\ Covered /\ Staffed /\ ActiveIsOut /\ Metered /\ InFlight
    BY <1>1 DEF RecordInv, AccountInv
  <2>2. Covered' /\ Staffed' /\ ActiveIsOut'
    BY <1>1, <2>1, CoveredStep, StaffedStep, ActiveStep
  <2>3. Metered' /\ InFlight'
    BY <1>1, <2>1, MeteredStep, InFlightStep
  <2> QED BY <2>2, <2>3 DEF AccountInv
<1>2. ASSUME AccountInv, UNCHANGED vars
      PROVE  AccountInv'
  <2>1. UNCHANGED <<ledger, pc, remaining, active, halted, used, scan, deciding, jobs, events,
                    workers, wpc, wtask>>
    BY <1>2 DEF vars, durable, sched, pool
  <2>2. Serving' = Serving /\ Lost' = Lost /\ InHand' = InHand
    <3>1. /\ Waiting' = Waiting /\ Sent' = Sent /\ Taken' = Taken
          /\ Answered' = Answered /\ Judged' = Judged
      BY <2>1, StillPlaces
    <3> QED BY <2>1, <3>1 DEF Serving, Lost, InHand
  <2>3. Covered'
    BY <1>2, <2>1, <2>2 DEF AccountInv, Covered
  <2>4. Staffed' /\ ActiveIsOut'
    BY <1>2, <2>1, <2>2 DEF AccountInv, Staffed, ActiveIsOut
  <2>5. Metered'
    BY <1>2, <2>1, <2>2 DEF AccountInv, Metered, MeterIsDurable
  <2>6. InFlight'
    BY <1>2, <2>1, <2>2 DEF AccountInv, InFlight
  <2> QED BY <2>3, <2>4, <2>5, <2>6 DEF AccountInv
<1> QED BY <1>1, <1>2

\* In every reachable state the tasks, the slots and the tokens add up.
THEOREM AccountIsKept == Spec => []AccountInv
<1>1. Spec => []Inv
  BY Invariance
<1>2. Spec => []RecordInv
  BY RecordIsTrue
<1> QED BY <1>1, <1>2, InitAccount, StepAccount, PTL DEF Spec

(* While the coordinator serves, `active` is the number of jobs that are   *)
(* out, and, as long as no worker thread has panicked, every task that was *)
(* queued and has no terminal event is in exactly one of the scheduler's   *)
(* queue, the job channel, a worker, an answer or the decision under way.  *)
THEOREM NoTaskLost == Spec => []NoTaskIsLost
<1>1. Inv /\ AccountInv => NoTaskIsLost
  BY HandHolds DEF AccountInv, NoTaskIsLost
<1> QED BY Invariance, AccountIsKept, <1>1, PTL

(* The meter is the sum of the receipts in the ledger, and the receipts    *)
(* behind the one that spent the budget are fewer than max_workers.        *)
THEOREM BudgetKept == Spec => []BudgetIsKept
<1>1. Inv /\ AccountInv => BudgetIsKept
  BY FlightOvershoots DEF AccountInv, Metered, BudgetIsKept
<1> QED BY Invariance, AccountIsKept, <1>1, PTL

\* A step that lengthens the job channel finds the budget unspent.
LEMMA StopsStep ==
  ASSUME Inv, Metered, Next, Over(ReceiptTokens(ledger))
  PROVE  Len(jobs') <= Len(jobs)
<1> USE DEF durable, sched, pool, env
<1>1. jobs \in Seq(Task) /\ Len(jobs) \in Nat
  BY Ranges
<1>2. ASSUME jobs' = jobs \/ jobs' = << >> \/ (jobs # << >> /\ jobs' = Tail(jobs))
      PROVE  Len(jobs') <= Len(jobs)
  <2>1. jobs # << >> => Len(Tail(jobs)) = Len(jobs) - 1
    BY <1>1
  <2> QED BY <1>1, <1>2, <2>1
<1>3. ~DispatchSend
  BY DEF DispatchSend, Metered, MeterIsDurable, Serving
<1>4. CASE \/ Launch \/ StartRun \/ QueueTask \/ DispatchPark \/ DispatchDone \/ WakeUp
           \/ HandleStarted \/ HandleHeartbeat \/ HandleError \/ HandleReceipt
  BY <1>2, <1>4
  DEF Launch, StartRun, QueueTask, DispatchPark, DispatchDone, WakeUp, HandleStarted,
      HandleHeartbeat, HandleError, HandleReceipt
<1>5. CASE Announce \/ ResumeRun
  <2>1. jobs' = jobs
    BY <1>5 DEF Announce, ResumeRun, Begin, Staff
  <2> QED BY <1>2, <2>1
<1>6. CASE \/ ApplyDone \/ ApplyRetry \/ ApplyEscalate \/ ApplyGate \/ ApplyFail
           \/ HaltOne \/ HaltDone \/ LeaveLoop \/ JoinPool \/ Finish
  BY <1>2, <1>6
  DEF ApplyDone, ApplyRetry, ApplyEscalate, ApplyGate, ApplyFail, HaltOne, HaltDone,
      LeaveLoop, JoinPool, Finish
<1>7. CASE PoolLost \/ FinishIndex \/ AppendError \/ IndexError \/ Crash
  <2>1. jobs' = << >>
    BY <1>7 DEF PoolLost, FinishIndex, AppendError, IndexError, Crash, Abandon, Forget
  <2> QED BY <1>2, <2>1
<1>8. ASSUME NEW w \in Worker, \/ Offer(w) \/ OfferFails(w) \/ Heartbeat(w) \/ Perform(w)
                               \/ Panic(w) \/ Leave(w) \/ Unwind(w)
      PROVE  Len(jobs') <= Len(jobs)
  BY <1>2, <1>8 DEF Offer, OfferFails, Heartbeat, Perform, Panic, Leave, Unwind
<1>9. CASE \/ PreflightError \/ SpawnFails \/ AbortJoined \/ RecordFailure \/ RecordFailureError
           \/ ResumeRefused \/ ResumeFinished \/ ClockTurns \/ StrayLeaves \/ Stopped
  BY <1>2, <1>9
  DEF PreflightError, SpawnFails, AbortJoined, RecordFailure, RecordFailureError, ResumeRefused,
      ResumeFinished, ClockTurns, StrayLeaves, Stopped, vars
<1> QED BY <1>3, <1>4, <1>5, <1>6, <1>7, <1>8, <1>9 DEF Next

(* Once the receipts in the ledger reach the budget no step, of this       *)
(* process or of one that resumes the run, sends a job to the workers.     *)
THEOREM SpentBudgetStopsDispatch == Spec => BudgetStopsDispatch
<1>1. Inv /\ AccountInv /\ [Next]_vars =>
        [Over(ReceiptTokens(ledger)) => Len(jobs') <= Len(jobs)]_vars
  BY StopsStep DEF AccountInv
<1> QED BY Invariance, AccountIsKept, <1>1, PTL DEF Spec, BudgetStopsDispatch
==============================================================================
