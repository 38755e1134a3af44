---------------------------- MODULE FleetProofs ----------------------------
(***************************************************************************)
(* Theorems about a fleet run for every number of tasks, tiers and         *)
(* workers, and every bound on crashes, faults, panics and resumes.  First *)
(* what the operators it is built from return and preserve: maxima,        *)
(* queues, the ledger's events and the folds over them.                    *)
(***************************************************************************)
EXTENDS FleetInvariant, FiniteSetTheorems, SequenceTheorems, TLAPS

----------------------------------------------------------------------------
(* Sets of naturals and their maximum.                                     *)

\* A set of naturals that is not empty has a least element.
LEMMA LeastNatural ==
  ASSUME NEW S \in SUBSET Nat, S # {}
  PROVE  \E m \in S : \A n \in S : m <= n
<1> DEFINE less == {p \in Nat \X Nat : p[1] < p[2]}
<1>1. IsWellFoundedOn(less, Nat)
  BY NatLessThanWellFounded DEF OpToRel
<1>2. \A m, n \in Nat : <<n, m>> \in less <=> n < m
  OBVIOUS
<1> HIDE DEF less
<1>3. PICK m \in S : \A n \in S : ~(<<n, m>> \in less)
  BY <1>1, WFMin
<1>4. \A n \in S : m \in Nat /\ n \in Nat /\ ~(n < m)
  BY <1>2, <1>3
<1>5. \A n \in S : m <= n
  BY <1>4
<1> QED BY <1>5

\* A bounded set of naturals has a greatest element, and Max is it.
LEMMA GreatestNatural ==
  ASSUME NEW S \in SUBSET Nat, S # {}, NEW b \in Nat, \A n \in S : n <= b
  PROVE  /\ Max(S) \in S
         /\ \A n \in S : n <= Max(S)
<1> DEFINE bounds == {c \in Nat : \A n \in S : n <= c}
<1>1. PICK c \in bounds : \A d \in bounds : c <= d
  BY LeastNatural, b \in bounds
<1>2. c \in S
  <2>1. CASE c = 0
    <3>1. PICK n \in S : n <= 0
      BY <1>1, <2>1
    <3> QED BY <2>1, <3>1
  <2>2. CASE c # 0
    <3>1. c - 1 \in Nat /\ c - 1 \notin bounds
      BY <1>1, <2>2
    <3>2. PICK n \in S : ~(n <= c - 1)
      BY <3>1
    <3> QED BY <1>1, <3>2
  <2> QED BY <2>1, <2>2
<1>3. \E x \in S : \A y \in S : x >= y
  BY <1>1, <1>2
<1> QED BY <1>3 DEF Max

\* The values of a finite sequence of naturals are bounded.
LEMMA BoundedValues ==
  ASSUME NEW n \in Nat, NEW f \in [1 .. n -> Nat]
  PROVE  \E b \in Nat : \A i \in 1 .. n : f[i] <= b
<1> DEFINE loose == {k \in 0 .. n : ~ \E b \in Nat : \A i \in 1 .. k : f[i] <= b}
<1> HIDE DEF loose
<1>1. CASE loose = {}
  <2>1. n \in 0 .. n /\ n \notin loose
    BY <1>1, n \in 0 .. n DEF loose
  <2> QED BY <2>1 DEF loose
<1>2. CASE loose # {}
  <2>1. PICK k \in loose : \A j \in loose : k <= j
    BY <1>2, LeastNatural, loose \in SUBSET Nat DEF loose
  <2>2. k \in 1 .. n
    BY <2>1 DEF loose
  <2>3. k - 1 \in 0 .. n /\ k - 1 \notin loose
    <3>1. k - 1 \in 0 .. n /\ ~(k <= k - 1)
      BY <2>2
    <3> QED BY <2>1, <3>1
  <2>4. PICK b \in Nat : \A i \in 1 .. k - 1 : f[i] <= b
    BY <2>3 DEF loose
  <2>5. f[k] \in Nat
    BY <2>2
  <2>6. CASE f[k] <= b
    <3>1. \A i \in 1 .. k : f[i] <= b
      BY <2>2, <2>4, <2>6
    <3> QED BY <2>1, <3>1 DEF loose
  <2>7. CASE ~(f[k] <= b)
    <3>1. \A i \in 1 .. k : f[i] <= f[k]
      BY <2>2, <2>4, <2>5, <2>7
    <3> QED BY <2>1, <2>5, <3>1 DEF loose
  <2> QED BY <2>6, <2>7
<1> QED BY <1>1, <1>2

----------------------------------------------------------------------------
(* Queues.                                                                 *)

\* What appending adds to a queue, and when the queue stays without repetition.
LEMMA AppendToQueue ==
  ASSUME NEW S, NEW q \in Seq(S), NEW x \in S
  PROVE  /\ Append(q, x) \in Seq(S)
         /\ Range(Append(q, x)) = Range(q) \cup {x}
         /\ Distinct(q) /\ x \notin Range(q) => Distinct(Append(q, x))
<1>1. /\ Append(q, x) \in Seq(S)
      /\ DOMAIN q = 1 .. Len(q)
      /\ DOMAIN Append(q, x) = 1 .. Len(q) + 1
      /\ Len(q) \in Nat
      /\ \A i \in 1 .. Len(q) : Append(q, x)[i] = q[i]
      /\ Append(q, x)[Len(q) + 1] = x
  OBVIOUS
<1>2. Range(Append(q, x)) = Range(q) \cup {x}
  BY <1>1 DEF Range
<1>3. ASSUME Distinct(q), x \notin Range(q)
      PROVE  Distinct(Append(q, x))
  BY <1>1, <1>3 DEF Distinct, Range
<1> QED BY <1>1, <1>2, <1>3

\* Taking the head of a queue without repetitions takes it out of the queue.
LEMMA TailOfQueue ==
  ASSUME NEW S, NEW q \in Seq(S), q # << >>
  PROVE  /\ Tail(q) \in Seq(S)
         /\ Head(q) \in Range(q)
         /\ Head(q) \in S
         /\ Range(Tail(q)) \subseteq Range(q)
         /\ Distinct(q) => /\ Distinct(Tail(q))
                           /\ Range(Tail(q)) = Range(q) \ {Head(q)}
<1>1. /\ Tail(q) \in Seq(S)
      /\ Head(q) = q[1]
      /\ Head(q) \in S
      /\ Len(q) \in Nat \ {0}
      /\ DOMAIN q = 1 .. Len(q)
      /\ DOMAIN Tail(q) = 1 .. Len(q) - 1
      /\ \A i \in 1 .. Len(q) - 1 : Tail(q)[i] = q[i + 1]
  BY HeadTailProperties, EmptySeq, LenProperties
<1>2. Head(q) \in Range(q)
  BY <1>1 DEF Range
<1>3. Range(Tail(q)) \subseteq Range(q)
  BY <1>1 DEF Range
<1>4. ASSUME Distinct(q)
      PROVE  Distinct(Tail(q)) /\ Range(Tail(q)) = Range(q) \ {Head(q)}
  <2>1. Distinct(Tail(q))
    BY <1>1, <1>4 DEF Distinct
  <2>2. Head(q) \notin Range(Tail(q))
    BY <1>1, <1>4 DEF Distinct, Range
  <2>3. ASSUME NEW x \in Range(q), x # Head(q)
        PROVE  x \in Range(Tail(q))
    <3>1. PICK i \in 1 .. Len(q) : x = q[i]
      BY <1>1 DEF Range
    <3>2. i - 1 \in 1 .. Len(q) - 1 /\ Tail(q)[i - 1] = q[i]
      BY <1>1, <2>3, <3>1
    <3> QED BY <1>1, <3>1, <3>2 DEF Range
  <2> QED BY <1>3, <2>1, <2>2, <2>3
<1> QED BY <1>1, <1>2, <1>3, <1>4

\* What DispatchPark does to the tasks it passes over.
LEMMA RotatedQueue ==
  ASSUME NEW S, NEW q \in Seq(S), q # << >>
  PROVE  LET r == Append(Tail(q), Head(q))
         IN  /\ r \in Seq(S)
             /\ Distinct(q) => Distinct(r) /\ Range(r) = Range(q)
<1>1. /\ Tail(q) \in Seq(S)
      /\ Head(q) \in Range(q)
      /\ Head(q) \in S
      /\ Distinct(q) => /\ Distinct(Tail(q))
                        /\ Range(Tail(q)) = Range(q) \ {Head(q)}
  BY TailOfQueue
<1>2. /\ Append(Tail(q), Head(q)) \in Seq(S)
      /\ Range(Append(Tail(q), Head(q))) = Range(Tail(q)) \cup {Head(q)}
      /\ Distinct(Tail(q)) /\ Head(q) \notin Range(Tail(q))
           => Distinct(Append(Tail(q), Head(q)))
  BY <1>1, AppendToQueue
<1> QED BY <1>1, <1>2

\* A queue that holds a set of tasks in order holds each of them once.
LEMMA OrderedQueue ==
  ASSUME NEW S \in SUBSET Task, NEW q \in InQueueOrder(S)
  PROVE  q \in Seq(Task) /\ Distinct(q) /\ Range(q) = S
<1>1. TaskCount \in Nat
  BY LedgerAssumption
<1>2. IsFiniteSet(Task)
  BY <1>1, FS_Interval DEF Task
<1>3. Cardinality(S) \in Nat
  BY <1>2, FS_Subset, FS_CardinalityType
<1>4. /\ q \in [1 .. Cardinality(S) -> S]
      /\ \A t \in S : \E i \in DOMAIN q : q[i] = t
      /\ \A i, j \in DOMAIN q : i < j => q[i] < q[j]
  BY DEF InQueueOrder
<1>5. q \in Seq(Task)
  <2>1. q \in [1 .. Cardinality(S) -> Task]
    BY <1>4
  <2> QED BY <1>3, <2>1, SeqDef
<1>6. Distinct(q)
  <2> SUFFICES ASSUME NEW i \in DOMAIN q, NEW j \in DOMAIN q, i # j
               PROVE  q[i] # q[j]
    BY DEF Distinct
  <2>1. i \in 1 .. Cardinality(S) /\ j \in 1 .. Cardinality(S)
    BY <1>4
  <2>2. q[i] \in Int /\ q[j] \in Int
    <3>1. q[i] \in Task /\ q[j] \in Task
      BY <1>4, <2>1
    <3> QED BY <1>1, <3>1 DEF Task
  <2>3. i < j \/ j < i
    BY <1>3, <2>1
  <2> QED BY <1>4, <2>2, <2>3
<1>7. Range(q) = S
  BY <1>4 DEF Range
<1> QED BY <1>5, <1>6, <1>7
----------------------------------------------------------------------------
(* The event channel.                                                      *)

\* What a message adds to the tasks the channel answers for.
LEMMA AppendToEvents ==
  ASSUME NEW q \in Seq(Message), NEW m \in Message
  PROVE  /\ Append(q, m) \in Seq(Message)
         /\ m.kind # "finished" =>
              /\ Tasks(Append(q, m)) = Tasks(q)
              /\ OneAnswer(q) => OneAnswer(Append(q, m))
         /\ m.kind = "finished" =>
              /\ Tasks(Append(q, m)) = Tasks(q) \cup {m.task}
              /\ OneAnswer(q) /\ m.task \notin Tasks(q) => OneAnswer(Append(q, m))
<1>1. /\ Append(q, m) \in Seq(Message)
      /\ DOMAIN q = 1 .. Len(q)
      /\ DOMAIN Append(q, m) = 1 .. Len(q) + 1
      /\ Len(q) \in Nat
      /\ \A i \in 1 .. Len(q) : Append(q, m)[i] = q[i]
      /\ Append(q, m)[Len(q) + 1] = m
  OBVIOUS
<1>2. ASSUME m.kind # "finished"
      PROVE  Answers(Append(q, m)) = Answers(q)
  BY <1>1, <1>2 DEF Answers
<1>3. ASSUME m.kind = "finished"
      PROVE  Answers(Append(q, m)) = Answers(q) \cup {Len(q) + 1}
  BY <1>1, <1>3 DEF Answers
<1>4. \A i \in Answers(q) : i \in 1 .. Len(q) /\ Append(q, m)[i] = q[i]
  BY <1>1 DEF Answers
<1>5. ASSUME m.kind # "finished"
      PROVE  /\ Tasks(Append(q, m)) = Tasks(q)
             /\ OneAnswer(q) => OneAnswer(Append(q, m))
  BY <1>2, <1>4, <1>5 DEF Tasks, OneAnswer
<1>6. ASSUME m.kind = "finished"
      PROVE  /\ Tasks(Append(q, m)) = Tasks(q) \cup {m.task}
             /\ OneAnswer(q) /\ m.task \notin Tasks(q) => OneAnswer(Append(q, m))
  BY <1>1, <1>3, <1>4, <1>6 DEF Tasks, OneAnswer
<1> QED BY <1>1, <1>5, <1>6

\* Receiving an event takes its answer, if it is one, out of the channel.
LEMMA TailOfEvents ==
  ASSUME NEW q \in Seq(Message), q # << >>
  PROVE  /\ Tail(q) \in Seq(Message)
         /\ Head(q) \in Message
         /\ Head(q).kind = "finished" => Head(q).task \in Tasks(q)
         /\ Tasks(Tail(q)) \subseteq Tasks(q)
         /\ OneAnswer(q) => /\ OneAnswer(Tail(q))
                            /\ Head(q).kind = "finished" => Head(q).task \notin Tasks(Tail(q))
<1>1. /\ Tail(q) \in Seq(Message)
      /\ Head(q) = q[1]
      /\ Head(q) \in Message
      /\ Len(q) \in Nat \ {0}
      /\ DOMAIN q = 1 .. Len(q)
      /\ DOMAIN Tail(q) = 1 .. Len(q) - 1
      /\ \A i \in 1 .. Len(q) - 1 : Tail(q)[i] = q[i + 1]
  BY HeadTailProperties, EmptySeq, LenProperties
<1>2. Head(q).kind = "finished" => 1 \in Answers(q)
  BY <1>1 DEF Answers
<1>3. \A i \in Answers(Tail(q)) : i \in Nat \ {0} /\ i + 1 \in Answers(q) /\ Tail(q)[i] = q[i + 1]
  BY <1>1 DEF Answers
<1>4. Tasks(Tail(q)) \subseteq Tasks(q)
  BY <1>3 DEF Tasks
<1>5. ASSUME OneAnswer(q)
      PROVE  /\ OneAnswer(Tail(q))
             /\ Head(q).kind = "finished" => Head(q).task \notin Tasks(Tail(q))
  <2>1. OneAnswer(Tail(q))
    <3> SUFFICES ASSUME NEW i \in Answers(Tail(q)), NEW j \in Answers(Tail(q)),
                        Tail(q)[i].task = Tail(q)[j].task
                 PROVE  i = j
      BY DEF OneAnswer
    <3>1. i \in Nat /\ j \in Nat
      BY <1>3
    <3>2. i + 1 \in Answers(q) /\ j + 1 \in Answers(q) /\ q[i + 1].task = q[j + 1].task
      BY <1>3
    <3>3. i + 1 = j + 1
      BY <1>5, <3>2 DEF OneAnswer
    <3> QED BY <3>1, <3>3
  <2>2. ASSUME Head(q).kind = "finished"
        PROVE  Head(q).task \notin Tasks(Tail(q))
    <3>1. \A i \in Answers(Tail(q)) : q[i + 1].task # q[1].task
      BY <1>2, <1>3, <1>5, <2>2 DEF OneAnswer
    <3>2. \A i \in Answers(Tail(q)) : Tail(q)[i].task # Head(q).task
      <4>1. Head(q) = q[1]
        BY <1>1
      <4> QED BY <1>3, <3>1, <4>1
    <3> QED BY <3>2 DEF Tasks
  <2> QED BY <2>1, <2>2
<1> QED BY <1>1, <1>2, <1>4, <1>5 DEF Tasks

----------------------------------------------------------------------------
(* The ledger.                                                             *)

\* Every line the coordinator builds is an event of the ledger.
LEMMA EventTypes ==
  /\ \A kind \in RunKinds : OnRun(kind) \in RunEvent /\ OnRun(kind).event = kind
  /\ \A kind \in TaskKinds, t \in Task :
       /\ OnTask(kind, t) \in TaskEvent
       /\ OnTask(kind, t).event = kind
       /\ OnTask(kind, t).task = t
<1>1. NoCounts \in Counts
  BY DEF NoCounts, Counts
<1> QED BY <1>1 DEF OnRun, OnTask, RunEvent, TaskEvent

\* The events the coordinator writes are ledger events of their kind.
LEMMA WrittenEvents ==
  /\ \A t \in Task, n, m \in Nat :
       TaskStarted(t, n, m) \in TaskEvent /\ TaskStarted(t, n, m).event = "task_started"
  /\ \A t \in Task, n, m \in Nat, o \in Outcome \cup {"none"} :
       TaskReceipt(t, n, o, m) \in TaskEvent /\ TaskReceipt(t, n, o, m).event = "task_receipt"
  /\ \A t \in Task, n \in Nat :
       TaskEscalated(t, n) \in TaskEvent /\ TaskEscalated(t, n).event = "task_escalated"
  /\ \A t \in Task, o \in Outcome \cup {"none"} :
       /\ TaskDone(t, o) \in TaskEvent
       /\ TaskDone(t, o).event = "task_done"
       /\ TaskDone(t, o).task = t
  /\ \A c \in Counts : RunFinished(c) \in RunEvent /\ RunFinished(c).event = "run_finished"
<1>1. \A t \in Task, n, m \in Nat :
        TaskStarted(t, n, m) \in TaskEvent /\ TaskStarted(t, n, m).event = "task_started"
  BY DEF TaskStarted, OnTask, TaskEvent, TaskKinds
<1>2. \A t \in Task, n, m \in Nat, o \in Outcome \cup {"none"} :
        TaskReceipt(t, n, o, m) \in TaskEvent /\ TaskReceipt(t, n, o, m).event = "task_receipt"
  BY DEF TaskReceipt, OnTask, TaskEvent, TaskKinds
<1>3. \A t \in Task, n \in Nat :
        TaskEscalated(t, n) \in TaskEvent /\ TaskEscalated(t, n).event = "task_escalated"
  BY DEF TaskEscalated, OnTask, TaskEvent, TaskKinds
<1>4. \A t \in Task, o \in Outcome \cup {"none"} :
        /\ TaskDone(t, o) \in TaskEvent
        /\ TaskDone(t, o).event = "task_done"
        /\ TaskDone(t, o).task = t
  BY DEF TaskDone, OnTask, TaskEvent, TaskKinds
<1>5. \A c \in Counts : RunFinished(c) \in RunEvent /\ RunFinished(c).event = "run_finished"
  BY DEF RunFinished, OnRun, RunEvent, RunKinds
<1> QED BY <1>1, <1>2, <1>3, <1>4, <1>5, Zenon

\* What an append adds to the settled tasks, and when it keeps terminals single.
LEMMA LedgerAppend ==
  ASSUME NEW l \in Seq(LedgerEvent), NEW e \in LedgerEvent
  PROVE  /\ Append(l, e) \in Seq(LedgerEvent)
         /\ e.event \notin TerminalKinds =>
              /\ Settled(Append(l, e)) = Settled(l)
              /\ SingleTerminal(l) => SingleTerminal(Append(l, e))
         /\ e.event \in TerminalKinds =>
              /\ Settled(Append(l, e)) \subseteq Settled(l) \cup {e.task}
              /\ SingleTerminal(l) /\ e.task \in Task \ Settled(l)
                   => SingleTerminal(Append(l, e))
<1>1. /\ Append(l, e) \in Seq(LedgerEvent)
      /\ DOMAIN l = 1 .. Len(l)
      /\ DOMAIN Append(l, e) = 1 .. Len(l) + 1
      /\ Len(l) \in Nat
      /\ \A i \in 1 .. Len(l) : Append(l, e)[i] = l[i]
      /\ Append(l, e)[Len(l) + 1] = e
  OBVIOUS
<1> DEFINE ends(q, t) == \E i \in DOMAIN q : q[i].event \in TerminalKinds /\ q[i].task = t
<1>2. \A q, t : t \in Settled(q) <=> t \in Task /\ ends(q, t)
  BY DEF Settled, At
<1>3. \A t : ends(l, t) => ends(Append(l, e), t)
  BY <1>1
<1>4. \A t : ends(Append(l, e), t) =>
               ends(l, t) \/ (e.event \in TerminalKinds /\ e.task = t)
  BY <1>1
<1>5. ASSUME e.event \notin TerminalKinds
      PROVE  /\ Settled(Append(l, e)) = Settled(l)
             /\ SingleTerminal(l) => SingleTerminal(Append(l, e))
  <2>1. Settled(Append(l, e)) = Settled(l)
    <3> HIDE DEF ends
    <3> QED BY <1>2, <1>3, <1>4, <1>5
  <2>2. SingleTerminal(l) => SingleTerminal(Append(l, e))
    BY <1>1, <1>5 DEF SingleTerminal
  <2> QED BY <2>1, <2>2
<1>6. ASSUME e.event \in TerminalKinds
      PROVE  /\ Settled(Append(l, e)) \subseteq Settled(l) \cup {e.task}
             /\ SingleTerminal(l) /\ e.task \in Task \ Settled(l)
                  => SingleTerminal(Append(l, e))
  <2>1. Settled(Append(l, e)) \subseteq Settled(l) \cup {e.task}
    <3> HIDE DEF ends
    <3> QED BY <1>2, <1>4
  <2>2. ASSUME SingleTerminal(l), e.task \in Task \ Settled(l)
        PROVE  SingleTerminal(Append(l, e))
    <3>1. ~ends(l, e.task)
      BY <1>2, <2>2
    <3>2. \A i \in 1 .. Len(l) : l[i].event \in TerminalKinds => l[i].task # e.task
      BY <1>1, <3>1
    <3> QED BY <1>1, <2>2, <3>2 DEF SingleTerminal
  <2> QED BY <2>1, <2>2
<1> QED BY <1>1, <1>5, <1>6
\* A ledger stays a ledger when an event is committed to it.
LEMMA CommitType ==
  ASSUME TypeOK, NEW e \in LedgerEvent, Commit(e)
  PROVE  ledger' \in Seq(LedgerEvent) /\ torn' \in BOOLEAN
<1>1. OnRun("corrupt") \in LedgerEvent
  BY EventTypes DEF RunKinds, LedgerEvent
<1>2. ledger \in Seq(LedgerEvent)
  BY DEF TypeOK
<1>3. \A d \in LedgerEvent : Append(ledger, d) \in Seq(LedgerEvent)
  BY <1>2, LedgerAppend
<1> QED BY <1>1, <1>3 DEF Commit

\* A line that ends no task leaves the settled tasks as they are.
LEMMA CommitQuietly ==
  ASSUME TypeOK, NEW e \in LedgerEvent, Commit(e), e.event \notin TerminalKinds
  PROVE  /\ Settled(ledger') = Settled(ledger)
         /\ OneTerminalPerTask => OneTerminalPerTask'
<1>1. OnRun("corrupt") \in LedgerEvent /\ OnRun("corrupt").event \notin TerminalKinds
  BY EventTypes DEF RunKinds, LedgerEvent, TerminalKinds
<1>2. ledger \in Seq(LedgerEvent)
  BY DEF TypeOK
<1>3. CASE torn
  BY <1>1, <1>2, <1>3, LedgerAppend DEF Commit, OneTerminalPerTask
<1>4. CASE ~torn
  BY <1>2, <1>4, LedgerAppend DEF Commit, OneTerminalPerTask
<1> QED BY <1>3, <1>4

\* A terminal line settles its own task and no other.
LEMMA CommitTerminal ==
  ASSUME TypeOK, NEW e \in LedgerEvent, Commit(e), e.event \in TerminalKinds,
         e.task \in Task \ Settled(ledger)
  PROVE  /\ Settled(ledger') \subseteq Settled(ledger) \cup {e.task}
         /\ OneTerminalPerTask => OneTerminalPerTask'
<1>1. OnRun("corrupt") \in LedgerEvent /\ OnRun("corrupt").event \notin TerminalKinds
  BY EventTypes DEF RunKinds, LedgerEvent, TerminalKinds
<1>2. ledger \in Seq(LedgerEvent)
  BY DEF TypeOK
<1>3. CASE torn
  BY <1>1, <1>2, <1>3, LedgerAppend DEF Commit, OneTerminalPerTask
<1>4. CASE ~torn
  BY <1>2, <1>4, LedgerAppend DEF Commit, OneTerminalPerTask
<1> QED BY <1>3, <1>4

\* The attempts a fold takes the largest of are bounded, and it finds it.
Attempts(l, t, from) ==
  {0} \cup {l[i].attempt : i \in {j \in At(l, "task_started", t) : j > from}}

LEMMA LargestAttempt ==
  ASSUME NEW l \in Seq(LedgerEvent), NEW t, NEW from \in Nat
  PROVE  /\ Attempts(l, t, from) \in SUBSET Nat
         /\ LastAttempt(l, t, from) \in Attempts(l, t, from)
         /\ \A n \in Attempts(l, t, from) : n <= LastAttempt(l, t, from)
<1> DEFINE starts == {i \in 1 .. Len(l) : l[i].event = "task_started"}
           try    == [i \in 1 .. Len(l) |-> IF i \in starts THEN l[i].attempt ELSE 0]
           tries  == Attempts(l, t, from)
<1>1. Len(l) \in Nat /\ DOMAIN l = 1 .. Len(l)
  BY LenProperties
<1>2. \A i \in starts : l[i].attempt \in Nat
  <2>1. \A i \in starts : l[i] \in LedgerEvent /\ l[i].event = "task_started"
    BY <1>1
  <2>2. \A e \in RunEvent : e.event # "task_started"
    BY DEF RunEvent, RunKinds
  <2>3. \A e \in TaskEvent : e.attempt \in Nat
    BY DEF TaskEvent
  <2> QED BY <2>1, <2>2, <2>3 DEF LedgerEvent
<1>3. try \in [1 .. Len(l) -> Nat]
  BY <1>2
<1>4. PICK b \in Nat : \A i \in 1 .. Len(l) : try[i] <= b
  <2> HIDE DEF try
  <2> QED BY <1>1, <1>3, BoundedValues
<1>5. \A i \in At(l, "task_started", t) : i \in starts
  BY <1>1 DEF At
<1>6. tries \in SUBSET Nat /\ 0 \in tries
  BY <1>2, <1>5 DEF Attempts
<1>7. \A n \in tries : n <= b
  <2>1. \A i \in starts : l[i].attempt <= b
    BY <1>4
  <2> QED BY <1>5, <2>1 DEF Attempts
<1>8. LastAttempt(l, t, from) = Max(tries)
  BY DEF LastAttempt, Attempts
<1> HIDE DEF starts, try, tries
<1>9. Max(tries) \in tries /\ \A n \in tries : n <= Max(tries)
  BY <1>6, <1>7, GreatestNatural
<1> QED BY <1>6, <1>8, <1>9 DEF tries

\* What resume folds out of a ledger are counters, tiers and attempts.
LEMMA FoldTypes ==
  ASSUME NEW l \in Seq(LedgerEvent)
  PROVE  /\ TerminalCounts(l) \in Counts
         /\ \A t \in Task : ResumeTier(l, t) \in Nat /\ ResumeAttempt(l, t) \in Nat
<1>1. Len(l) \in Nat /\ DOMAIN l = 1 .. Len(l) /\ IsFiniteSet(1 .. Len(l))
  BY LenProperties, FS_Interval
<1>2. \A S \in SUBSET (1 .. Len(l)) : Cardinality(S) \in Nat
  BY <1>1, FS_Subset, FS_CardinalityType
<1>3. TerminalCounts(l) \in Counts
  BY <1>1, <1>2 DEF TerminalCounts, CountOf, Counts
<1>4. ASSUME NEW t \in Task
      PROVE  ResumeTier(l, t) \in Nat
  BY <1>1, <1>2 DEF ResumeTier, LadderTier, At
<1>5. ASSUME NEW t \in Task, NEW from \in Nat
      PROVE  LastAttempt(l, t, from) \in Nat
  BY LargestAttempt
<1>6. ASSUME NEW t \in Task
      PROVE  Max({0} \cup At(l, "task_escalated", t)) \in Nat
  <2> DEFINE lines == {0} \cup At(l, "task_escalated", t)
  <2>1. lines \in SUBSET Nat /\ 0 \in lines /\ \A n \in lines : n <= Len(l)
    BY <1>1 DEF At
  <2> HIDE DEF lines
  <2>2. Max(lines) \in Nat
    BY <1>1, <2>1, GreatestNatural
  <2> QED BY <2>2 DEF lines
<1>7. ASSUME NEW t \in Task
      PROVE  ResumeAttempt(l, t) \in Nat
  <2>1. LadderAttempt(l, t) \in Nat
    BY <1>5, <1>6 DEF LadderAttempt
  <2>2. LastAttempt(l, t, 0) + 1 \in Nat
    BY <1>5
  <2> QED BY <2>1, <2>2 DEF ResumeAttempt
<1> QED BY <1>3, <1>4, <1>7
----------------------------------------------------------------------------
(* Type correctness.                                                       *)

\* A first process starts in the types.
LEMMA InitType == Init => TypeOK
<1> SUFFICES ASSUME Init PROVE TypeOK
  OBVIOUS
<1>1. torn \in BOOLEAN /\ halted \in BOOLEAN
  BY DEF Init
<1>2. counts \in Counts
  BY DEF Init, NoCounts, Counts
<1>3. deciding \in [task : Task \cup {NoTask}, outcome : Outcome \cup {"none"}]
  BY DEF Init, NoDecision
<1>4. ledger \in Seq(LedgerEvent) /\ remaining \in Seq(Task)
  BY DEF Init
<1>5. jobs \in Seq(Task) /\ events \in Seq(Message)
  BY DEF Init
<1>6. active \in Nat /\ scan \in Nat /\ workers \in Nat
  BY DEF Init
<1>7. tier \in [Task -> Nat] /\ attempt \in [Task -> Nat]
  BY DEF Init
<1>8. pc \in Pc /\ index \in {"none", "running", "finished"}
  BY DEF Init, Pc
<1>9. /\ wpc \in [Worker -> {"idle", "offered", "running", "gone"}]
      /\ wtask \in [Worker -> Task \cup {NoTask}]
      /\ strays \in Nat
  BY DEF Init
<1> QED BY <1>1, <1>2, <1>3, <1>4, <1>5, <1>6, <1>7, <1>8, <1>9 DEF TypeOK

\* Dropping the coordinator's memory leaves every variable in its range.
LEMMA ForgetType ==
  ASSUME Forget
  PROVE  /\ remaining' \in Seq(Task) /\ active' \in Nat /\ halted' \in BOOLEAN
         /\ counts' \in Counts /\ scan' \in Nat
         /\ deciding' \in [task : Task \cup {NoTask}, outcome : Outcome \cup {"none"}]
         /\ tier' \in [Task -> Nat] /\ attempt' \in [Task -> Nat]
         /\ jobs' \in Seq(Task) /\ events' \in Seq(Message)
<1>1. halted' \in BOOLEAN
  BY DEF Forget
<1>2. counts' \in Counts
  BY DEF Forget, NoCounts, Counts
<1>3. deciding' \in [task : Task \cup {NoTask}, outcome : Outcome \cup {"none"}]
  BY DEF Forget, NoDecision
<1>4. remaining' \in Seq(Task) /\ jobs' \in Seq(Task) /\ events' \in Seq(Message)
  BY DEF Forget
<1>5. active' \in Nat /\ scan' \in Nat /\ tier' \in [Task -> Nat] /\ attempt' \in [Task -> Nat]
  BY DEF Forget
<1> QED BY <1>1, <1>2, <1>3, <1>4, <1>5

\* Counting one more terminal event.
LEMMA CountType ==
  ASSUME TypeOK
  PROVE  /\ [counts EXCEPT !.done = @ + 1] \in Counts
         /\ [counts EXCEPT !.failed = @ + 1] \in Counts
         /\ [counts EXCEPT !.gated = @ + 1] \in Counts
<1>1. counts \in Counts
  BY DEF TypeOK
<1>2. counts.done + 1 \in Nat /\ counts.failed + 1 \in Nat /\ counts.gated + 1 \in Nat
  BY <1>1 DEF Counts
<1>3. [counts EXCEPT !.done = @ + 1] \in Counts
  BY <1>1, <1>2 DEF Counts
<1>4. [counts EXCEPT !.failed = @ + 1] \in Counts
  BY <1>1, <1>2 DEF Counts
<1>5. [counts EXCEPT !.gated = @ + 1] \in Counts
  BY <1>1, <1>2 DEF Counts
<1> QED BY <1>3, <1>4, <1>5

\* Filling the worker pool and the scheduler for the tasks of a queue.
LEMMA BeginType ==
  ASSUME TypeOK, NEW queue \in Seq(Task), NEW tokens, Begin(queue, tokens)
  PROVE  /\ pc' \in {"halt", "dispatch"}
         /\ remaining' \in Seq(Task) /\ active' \in Nat /\ halted' \in BOOLEAN
         /\ scan' \in Nat
         /\ deciding' \in [task : Task \cup {NoTask}, outcome : Outcome \cup {"none"}]
         /\ jobs' \in Seq(Task) /\ events' \in Seq(Message)
         /\ workers' \in Nat
         /\ wpc' \in [Worker -> {"idle", "offered", "running", "gone"}]
         /\ wtask' \in [Worker -> Task \cup {NoTask}]
<1>1. Len(queue) \in Nat
  BY LenProperties
<1>2. workers' \in Nat
  <2>1. Max({1, Len(queue)}) \in Nat
    <3> DEFINE S == {1, Len(queue)}
    <3>1. PICK b \in Nat : 1 <= b /\ Len(queue) <= b
      BY <1>1, Len(queue) + 1 \in Nat
    <3>2. S \in SUBSET Nat /\ S # {} /\ \A n \in S : n <= b
      BY <1>1, <3>1
    <3> HIDE DEF S
    <3>3. Max(S) \in S
      BY <3>2, GreatestNatural
    <3>4. Max(S) \in Nat
      BY <3>2, <3>3
    <3> QED BY <3>4 DEF S
  <2>2. MaxWorkers \in Nat
    BY FleetAssumption
  <2>3. PICK m \in {MaxWorkers, Max({1, Len(queue)})} :
          \A n \in {MaxWorkers, Max({1, Len(queue)})} : m <= n
    BY <2>1, <2>2, LeastNatural, {MaxWorkers, Max({1, Len(queue)})} \in SUBSET Nat
  <2>4. Min({MaxWorkers, Max({1, Len(queue)})}) \in {MaxWorkers, Max({1, Len(queue)})}
    BY <2>3 DEF Min
  <2> QED BY <2>1, <2>2, <2>4 DEF Begin, Staff, WorkerCount
<1>3. wpc' \in [Worker -> {"idle", "offered", "running", "gone"}]
  BY DEF Begin, Staff
<1>4. halted' \in BOOLEAN
  BY DEF Begin, Over
<1>5. deciding' \in [task : Task \cup {NoTask}, outcome : Outcome \cup {"none"}]
  BY DEF Begin, NoDecision
<1>6. pc' \in {"halt", "dispatch"} /\ scan' \in Nat
  BY <1>1 DEF Begin
<1>7. remaining' \in Seq(Task) /\ active' \in Nat
  BY DEF Begin
<1>8. /\ jobs' \in Seq(Task) /\ events' \in Seq(Message)
      /\ wtask' \in [Worker -> Task \cup {NoTask}]
  BY DEF Begin, Staff, TypeOK
<1> QED BY <1>2, <1>3, <1>4, <1>5, <1>6, <1>7, <1>8

\* What a worker sends when a task run returns.
LEMMA PerformAnswers ==
  ASSUME TypeOK, Threads, NEW w \in Worker, Perform(w)
  PROVE  /\ wtask[w] \in Task
         /\ \E m \in Message : /\ events' = Append(events, m)
                               /\ m.kind = "finished"
                               /\ m.task = wtask[w]
<1>1. wtask[w] \in Task
  BY DEF TypeOK, Threads, Perform
<1>2. PICK outcome \in Verdicts[wtask[w]] :
        \E tokens \in IF outcome = "error" THEN {0} ELSE 0 .. MaxTokens :
          events' = Append(events, [Tell("finished", w, wtask[w]) EXCEPT
                                      !.outcome = outcome, !.tokens = tokens])
  BY DEF Perform
<1>3. PICK tokens \in Nat :
        events' = Append(events, [Tell("finished", w, wtask[w]) EXCEPT
                                    !.outcome = outcome, !.tokens = tokens])
  <2>1. \A n \in 0 .. MaxTokens : n \in Nat
    BY LedgerAssumption
  <2> QED BY <1>2, <2>1
<1>4. outcome \in Outcome \cup {"error"}
  BY <1>1, <1>2, FleetAssumption
<1> DEFINE m == [Tell("finished", w, wtask[w]) EXCEPT !.outcome = outcome, !.tokens = tokens]
<1>5. m \in Message /\ m.kind = "finished" /\ m.task = wtask[w]
  BY <1>1, <1>3, <1>4 DEF Tell, Message
<1> QED BY <1>1, <1>3, <1>5

\* What follows from a receipt that waits for its decision is well typed.
LEMMA DecisionTypes ==
  ASSUME TypeOK, Locals, pc = "decide"
  PROVE  /\ deciding.task \in Task
         /\ OnTask("task_gate", deciding.task) \in LedgerEvent
         /\ OnTask("task_failed", deciding.task) \in LedgerEvent
         /\ TaskDone(deciding.task, deciding.outcome) \in LedgerEvent
         /\ TaskEscalated(deciding.task, tier[deciding.task] + 1) \in LedgerEvent
         /\ Append(remaining, deciding.task) \in Seq(Task)
         /\ NoDecision \in [task : Task \cup {NoTask}, outcome : Outcome \cup {"none"}]
<1>1. deciding.task \in Task /\ deciding.outcome \in Outcome \cup {"none"}
  BY DEF TypeOK, Locals
<1>2. tier[deciding.task] + 1 \in Nat
  BY <1>1 DEF TypeOK
<1> QED BY <1>1, <1>2, EventTypes, WrittenEvents, AppendToQueue
        DEF TypeOK, TaskKinds, LedgerEvent, NoDecision

\* The line the coordinator is about to write is an event of the ledger.
LEMMA PendingTypes ==
  ASSUME TypeOK, Locals
  PROVE  \A e \in Pending : e \in LedgerEvent
<1>1. CASE pc \in {"launch", "fail", "finish"}
  BY <1>1, EventTypes, WrittenEvents DEF Pending, TypeOK, RunKinds, LedgerEvent
<1>2. CASE pc = "queue"
  BY <1>2, EventTypes DEF Pending, Locals, TaskKinds, LedgerEvent
<1>3. CASE pc = "halt"
  <2>1. \A t \in Task : OnTask("task_failed", t) \in LedgerEvent
    BY EventTypes DEF TaskKinds, LedgerEvent
  <2>2. remaining # << >> => Head(remaining) \in Task
    BY TailOfQueue DEF TypeOK
  <2> QED BY <1>3, <2>1, <2>2 DEF Pending
<1>4. CASE pc = "loop"
  <2> SUFFICES ASSUME events # << >>
               PROVE  \A e \in Pending : e \in LedgerEvent
    BY <1>4 DEF Pending
  <2> DEFINE m == Head(events)
  <2>1. m \in Message
    BY TailOfEvents DEF TypeOK
  <2>2. m.task \in Task /\ m.tokens \in Nat
        /\ m.outcome \in Outcome \cup {"error", "none"}
    BY <2>1 DEF Message
  <2>3. tier[m.task] \in Nat /\ attempt[m.task] \in Nat
    BY <2>2 DEF TypeOK
  <2> HIDE DEF m
  <2>4. TaskStarted(m.task, tier[m.task], attempt[m.task]) \in LedgerEvent
    BY <2>2, <2>3, WrittenEvents DEF LedgerEvent
  <2>5. /\ OnTask("task_heartbeat", m.task) \in LedgerEvent
        /\ OnTask("task_failed", m.task) \in LedgerEvent
    BY <2>2, EventTypes DEF TaskKinds, LedgerEvent
  <2>6. m.outcome # "error" =>
          TaskReceipt(m.task, attempt[m.task], m.outcome, m.tokens) \in LedgerEvent
    BY <2>2, <2>3, WrittenEvents DEF LedgerEvent
  <2> QED BY <1>4, <2>4, <2>5, <2>6 DEF Pending, m
<1>5. CASE pc = "decide"
  BY DecisionTypes, <1>5 DEF Pending
<1>6. CASE pc \notin {"launch", "fail", "finish", "queue", "halt", "loop", "decide"}
  BY <1>6 DEF Pending
<1> QED BY <1>1, <1>2, <1>3, <1>4, <1>5, <1>6

\* Every step keeps the variables in their ranges.
LEMMA TypeStep ==
  ASSUME TypeOK, Threads, Locals, Next
  PROVE  TypeOK'
<1> USE DEF durable, sched, pool, env
<1>0. ASSUME EnforceBudget, remaining' \in Seq(Task)
      PROVE  pc' \in Pc /\ scan' \in Nat /\ halted' \in BOOLEAN
  <2>1. halted' \in BOOLEAN
    BY <1>0 DEF EnforceBudget, TypeOK
  <2>2. pc' \in Pc /\ scan' \in Nat
    BY <1>0, LenProperties DEF EnforceBudget, Pc
  <2> QED BY <2>1, <2>2
<1>1. CASE Launch
  BY <1>1 DEF TypeOK, Pc, Launch
<1>2. CASE StartRun
  <2>1. OnRun("run_started") \in LedgerEvent
    BY EventTypes DEF RunKinds, LedgerEvent
  <2>2. ledger' \in Seq(LedgerEvent) /\ torn' \in BOOLEAN
    BY <1>2, <2>1, CommitType DEF StartRun
  <2> QED BY <1>2, <2>2 DEF TypeOK, Pc, StartRun
<1>3. CASE QueueTask
  <2>1. scan \in Task
    BY <1>3 DEF Locals, QueueTask
  <2>2. OnTask("task_queued", scan) \in LedgerEvent
    BY <2>1, EventTypes DEF TaskKinds, LedgerEvent
  <2>3. ledger' \in Seq(LedgerEvent) /\ torn' \in BOOLEAN
    BY <1>3, <2>2, CommitType DEF QueueTask
  <2> QED BY <1>3, <2>3 DEF TypeOK, Pc, QueueTask
<1>4. CASE Announce
  <2>1. [i \in 1 .. TaskCount |-> i] \in Seq(Task)
    BY LedgerAssumption, SeqDef DEF Task
  <2>2. NoCounts \in Counts
    BY DEF NoCounts, Counts
  <2> QED BY <1>4, <2>1, <2>2, BeginType DEF TypeOK, Pc, Announce
<1>5. CASE DispatchSend
  <2>1. /\ Tail(remaining) \in Seq(Task)
        /\ Head(remaining) \in Task
    BY <1>5, TailOfQueue DEF TypeOK, DispatchSend
  <2> QED BY <1>5, <2>1, AppendToQueue DEF TypeOK, DispatchSend
<1>6. CASE DispatchPark
  <2>1. Append(Tail(remaining), Head(remaining)) \in Seq(Task)
    BY <1>6, RotatedQueue DEF TypeOK, DispatchPark
  <2> QED BY <1>6, <2>1 DEF TypeOK, DispatchPark
<1>7. CASE DispatchDone
  BY <1>7 DEF TypeOK, Pc, DispatchDone
<1>8. CASE WakeUp
  BY <1>8, LenProperties DEF TypeOK, Pc, WakeUp
<1>9. CASE PoolLost
  BY <1>9, ForgetType DEF TypeOK, Pc, PoolLost, Abandon
<1>10. CASE HandleStarted \/ HandleHeartbeat
  <2> DEFINE m == Head(events)
  <2>1. events # << >> /\ events' = Tail(events)
    BY <1>10 DEF HandleStarted, HandleHeartbeat, Receive
  <2>2. m \in Message /\ events' \in Seq(Message)
    BY <2>1, TailOfEvents DEF TypeOK
  <2>3. m.task \in Task /\ m.worker \in Worker
    BY <2>2 DEF Message
  <2>4. /\ TaskStarted(m.task, tier[m.task], attempt[m.task]) \in LedgerEvent
        /\ OnTask("task_heartbeat", m.task) \in LedgerEvent
    BY <2>3, EventTypes, WrittenEvents DEF TypeOK, TaskKinds, LedgerEvent
  <2>5. ledger' \in Seq(LedgerEvent) /\ torn' \in BOOLEAN
    BY <1>10, <2>4, CommitType DEF HandleStarted, HandleHeartbeat
  <2>6. scan' \in Nat /\ pc' \in Pc
    BY <1>10, LenProperties DEF TypeOK, HandleStarted, HandleHeartbeat, Wake, Pc
  <2>7. wpc' \in [Worker -> {"idle", "offered", "running", "gone"}]
    BY <1>10, <2>3 DEF TypeOK, HandleStarted, HandleHeartbeat
  <2> QED BY <1>10, <2>2, <2>5, <2>6, <2>7 DEF TypeOK, HandleStarted, HandleHeartbeat
<1>11. CASE HandleError
  <2> DEFINE m == Head(events)
  <2>1. events # << >> /\ events' = Tail(events)
    BY <1>11 DEF HandleError, Receive
  <2>2. m \in Message /\ events' \in Seq(Message)
    BY <2>1, TailOfEvents DEF TypeOK
  <2>3. m.task \in Task
    BY <2>2 DEF Message
  <2>4. OnTask("task_failed", m.task) \in LedgerEvent
    BY <2>3, EventTypes DEF TaskKinds, LedgerEvent
  <2>5. ledger' \in Seq(LedgerEvent) /\ torn' \in BOOLEAN
    BY <1>11, <2>4, CommitType DEF HandleError
  <2>6. scan' \in Nat /\ pc' \in Pc /\ halted' \in BOOLEAN
    BY <1>0, <1>11 DEF TypeOK, HandleError
  <2>7. active' \in Nat
    BY <1>11 DEF TypeOK, HandleError, Released
  <2>8. counts' \in Counts
    BY <1>11, CountType DEF HandleError
  <2> QED BY <1>11, <2>2, <2>5, <2>6, <2>7, <2>8 DEF TypeOK, HandleError
<1>12. CASE HandleReceipt
  <2> DEFINE m == Head(events)
  <2>1. events # << >> /\ events' = Tail(events)
    BY <1>12 DEF HandleReceipt, Receive
  <2>2. m \in Message /\ events' \in Seq(Message)
    BY <2>1, TailOfEvents DEF TypeOK
  <2>3. m.task \in Task /\ m.outcome \in Outcome \cup {"none"} /\ m.tokens \in Nat
    BY <1>12, <2>2 DEF Message, HandleReceipt
  <2>4. TaskReceipt(m.task, attempt[m.task], m.outcome, m.tokens) \in LedgerEvent
    BY <2>3, WrittenEvents DEF TypeOK, LedgerEvent
  <2>5. ledger' \in Seq(LedgerEvent) /\ torn' \in BOOLEAN
    BY <1>12, <2>4, CommitType DEF HandleReceipt
  <2>6. active' \in Nat
    BY <1>12 DEF TypeOK, HandleReceipt, Released
  <2>7. deciding' \in [task : Task \cup {NoTask}, outcome : Outcome \cup {"none"}]
    BY <1>12, <2>3 DEF HandleReceipt
  <2> QED BY <1>12, <2>2, <2>5, <2>6, <2>7 DEF TypeOK, HandleReceipt, Pc
<1>13. ASSUME pc = "decide"
       PROVE  /\ deciding.task \in Task
              /\ OnTask("task_gate", deciding.task) \in LedgerEvent
              /\ OnTask("task_failed", deciding.task) \in LedgerEvent
              /\ TaskDone(deciding.task, deciding.outcome) \in LedgerEvent
              /\ TaskEscalated(deciding.task, tier[deciding.task] + 1) \in LedgerEvent
              /\ Append(remaining, deciding.task) \in Seq(Task)
              /\ NoDecision \in [task : Task \cup {NoTask}, outcome : Outcome \cup {"none"}]
  BY <1>13, DecisionTypes
<1>15. CASE ApplyDone
  <2>1. ledger' \in Seq(LedgerEvent) /\ torn' \in BOOLEAN
    BY <1>13, <1>15, CommitType DEF ApplyDone
  <2>2. pc' \in Pc /\ scan' \in Nat /\ halted' \in BOOLEAN
    BY <1>0, <1>15 DEF ApplyDone, TypeOK
  <2>3. counts' \in Counts
    BY <1>15, CountType DEF ApplyDone
  <2> QED BY <1>13, <1>15, <2>1, <2>2, <2>3 DEF TypeOK, ApplyDone
<1>16. CASE ApplyRetry
  <2>1. remaining' \in Seq(Task)
    BY <1>13, <1>16 DEF ApplyRetry
  <2>2. pc' \in Pc /\ scan' \in Nat /\ halted' \in BOOLEAN
    BY <1>0, <1>16, <2>1 DEF ApplyRetry
  <2>3. attempt' \in [Task -> Nat]
    BY <1>13, <1>16 DEF ApplyRetry, TypeOK
  <2> QED BY <1>13, <1>16, <2>1, <2>2, <2>3 DEF TypeOK, ApplyRetry
<1>17. CASE ApplyEscalate
  <2>1. ledger' \in Seq(LedgerEvent) /\ torn' \in BOOLEAN
    BY <1>13, <1>17, CommitType DEF ApplyEscalate
  <2>2. remaining' \in Seq(Task)
    BY <1>13, <1>17 DEF ApplyEscalate
  <2>3. pc' \in Pc /\ scan' \in Nat /\ halted' \in BOOLEAN
    BY <1>0, <1>17, <2>2 DEF ApplyEscalate
  <2>4. tier' \in [Task -> Nat] /\ attempt' \in [Task -> Nat]
    BY <1>13, <1>17 DEF ApplyEscalate, TypeOK
  <2> QED BY <1>13, <1>17, <2>1, <2>2, <2>3, <2>4 DEF TypeOK, ApplyEscalate
<1>18. CASE ApplyGate
  <2>1. ledger' \in Seq(LedgerEvent) /\ torn' \in BOOLEAN
    BY <1>13, <1>18, CommitType DEF ApplyGate
  <2>2. pc' \in Pc /\ scan' \in Nat /\ halted' \in BOOLEAN
    BY <1>0, <1>18 DEF ApplyGate, TypeOK
  <2>3. counts' \in Counts
    BY <1>18, CountType DEF ApplyGate
  <2> QED BY <1>13, <1>18, <2>1, <2>2, <2>3 DEF TypeOK, ApplyGate
<1>19. CASE ApplyFail
  <2>1. ledger' \in Seq(LedgerEvent) /\ torn' \in BOOLEAN
    BY <1>13, <1>19, CommitType DEF ApplyFail
  <2>2. pc' \in Pc /\ scan' \in Nat /\ halted' \in BOOLEAN
    BY <1>0, <1>19 DEF ApplyFail, TypeOK
  <2>3. counts' \in Counts
    BY <1>19, CountType DEF ApplyFail
  <2> QED BY <1>13, <1>19, <2>1, <2>2, <2>3 DEF TypeOK, ApplyFail
<1>20. CASE HaltOne
  <2>1. Tail(remaining) \in Seq(Task) /\ Head(remaining) \in Task
    BY <1>20, TailOfQueue DEF TypeOK, HaltOne
  <2>2. OnTask("task_failed", Head(remaining)) \in LedgerEvent
    BY <2>1, EventTypes DEF TaskKinds, LedgerEvent
  <2>3. ledger' \in Seq(LedgerEvent) /\ torn' \in BOOLEAN
    BY <1>20, <2>2, CommitType DEF HaltOne
  <2>4. counts' \in Counts
    BY <1>20, CountType DEF HaltOne
  <2> QED BY <1>20, <2>1, <2>3, <2>4 DEF TypeOK, HaltOne
<1>21. CASE HaltDone \/ LeaveLoop \/ JoinPool
  BY <1>21 DEF TypeOK, Pc, HaltDone, LeaveLoop, JoinPool
<1>22. CASE Finish
  <2>1. RunFinished(counts) \in LedgerEvent
    BY WrittenEvents DEF TypeOK, LedgerEvent
  <2>2. ledger' \in Seq(LedgerEvent) /\ torn' \in BOOLEAN
    BY <1>22, <2>1, CommitType DEF Finish
  <2> QED BY <1>22, <2>2 DEF TypeOK, Pc, Finish
<1>23. CASE FinishIndex
  BY <1>23, ForgetType DEF TypeOK, Pc, FinishIndex
<1>24. ASSUME NEW w \in Worker
       PROVE  /\ Offer(w) \/ OfferFails(w) => TypeOK'
              /\ Heartbeat(w) => TypeOK'
              /\ Perform(w) => TypeOK'
              /\ Panic(w) \/ Leave(w) \/ Unwind(w) => TypeOK'
  <2>1. CASE Offer(w) \/ OfferFails(w)
    <3>1. jobs # << >>
      BY <2>1 DEF Offer, OfferFails
    <3>2. Tail(jobs) \in Seq(Task) /\ Head(jobs) \in Task
      BY <3>1, TailOfQueue DEF TypeOK
    <3>3. /\ Tell("started", w, Head(jobs)) \in Message
          /\ [Tell("finished", w, Head(jobs)) EXCEPT !.outcome = "error"] \in Message
      BY <3>2 DEF Tell, Message
    <3>4. CASE Offer(w)
      <4>1. events' \in Seq(Message)
        BY <3>3, <3>4, AppendToEvents DEF TypeOK, Offer
      <4> QED BY <3>2, <3>4, <4>1 DEF TypeOK, Offer
    <3>5. CASE OfferFails(w)
      <4>1. events' \in Seq(Message)
        BY <3>3, <3>5, AppendToEvents DEF TypeOK, OfferFails
      <4> QED BY <3>2, <3>5, <4>1 DEF TypeOK, OfferFails
    <3> QED BY <2>1, <3>4, <3>5
  <2>2. CASE Heartbeat(w)
    <3>1. wtask[w] \in Task
      BY <2>2 DEF TypeOK, Threads, Heartbeat
    <3>2. Tell("heartbeat", w, wtask[w]) \in Message
      BY <3>1 DEF Tell, Message
    <3>3. events' \in Seq(Message)
      BY <2>2, <3>2, AppendToEvents DEF TypeOK, Heartbeat
    <3> QED BY <2>2, <3>3 DEF TypeOK, Heartbeat
  <2>3. CASE Perform(w)
    <3>1. PICK m \in Message : events' = Append(events, m)
      BY <2>3, PerformAnswers
    <3>2. events' \in Seq(Message)
      BY <3>1, AppendToEvents DEF TypeOK
    <3> QED BY <2>3, <3>2 DEF TypeOK, Perform
  <2>4. CASE Panic(w) \/ Leave(w) \/ Unwind(w)
    BY <2>4 DEF TypeOK, Panic, Leave, Unwind
  <2> QED BY <2>1, <2>2, <2>3, <2>4
<1>25. \A e \in Pending : e \in LedgerEvent
  BY PendingTypes
<1>26. \A e \in Pending : Botched(e) => ledger' \in Seq(LedgerEvent) /\ torn' \in BOOLEAN
  BY <1>25, CommitType DEF Botched, TypeOK
<1>27. CASE AppendError
  <2>1. ledger' \in Seq(LedgerEvent) /\ torn' \in BOOLEAN
    BY <1>26, <1>27 DEF AppendError
  <2> QED BY <1>27, <2>1, ForgetType DEF TypeOK, Pc, AppendError, Abandon
<1>28. CASE IndexError
  BY <1>28, ForgetType DEF TypeOK, Pc, IndexError, Abandon
<1>29. CASE PreflightError \/ SpawnFails \/ AbortJoined
  <2>1. strays' \in Nat
    BY <1>29 DEF TypeOK, PreflightError, SpawnFails, Spawn, AbortJoined
  <2> QED BY <1>29, <2>1 DEF TypeOK, Pc, PreflightError, SpawnFails, AbortJoined
<1>30. CASE RecordFailure \/ RecordFailureError
  <2>1. OnRun("run_failed") \in LedgerEvent
    BY EventTypes DEF RunKinds, LedgerEvent
  <2>2. ledger' \in Seq(LedgerEvent) /\ torn' \in BOOLEAN
    BY <1>26, <1>30, <2>1, CommitType DEF RecordFailure, RecordFailureError
  <2> QED BY <1>30, <2>2 DEF TypeOK, Pc, RecordFailure, RecordFailureError
<1>31. CASE Crash
  <2>1. torn' \in BOOLEAN
    BY <1>31 DEF Crash, TypeOK
  <2> QED BY <1>31, <2>1, ForgetType DEF TypeOK, Pc, Crash
<1>32. CASE ResumeRefused \/ ResumeFinished
  BY <1>32 DEF TypeOK, Pc, ResumeRefused, ResumeFinished, Reopen
<1>33. CASE ResumeRun
  <2>1. PICK queue \in InQueueOrder(Todo(ledger)) : Begin(queue, ReceiptTokens(ledger))
    BY <1>33 DEF ResumeRun
  <2>2. queue \in Seq(Task)
    BY <2>1, OrderedQueue DEF Todo, Mentioned
  <2>3. counts' \in Counts /\ tier' \in [Task -> Nat] /\ attempt' \in [Task -> Nat]
    BY <1>33, FoldTypes DEF ResumeRun, TypeOK
  <2>4. ledger' = ledger /\ index' = index /\ torn' = FALSE /\ strays' = strays
    BY <1>33 DEF ResumeRun, Reopen
  <2> QED BY <2>1, <2>2, <2>3, <2>4, BeginType DEF TypeOK, Pc
<1>34. CASE ClockTurns \/ StrayLeaves \/ Stopped
  BY <1>34 DEF TypeOK, ClockTurns, StrayLeaves, Stopped, vars
<1> QED
  BY <1>1, <1>2, <1>3, <1>4, <1>5, <1>6, <1>7, <1>8, <1>9, <1>10, <1>11, <1>12, <1>15,
     <1>16, <1>17, <1>18, <1>19, <1>20, <1>21, <1>22, <1>23, <1>24, <1>27, <1>28, <1>29,
     <1>30, <1>31, <1>32, <1>33, <1>34 DEF Next
----------------------------------------------------------------------------
(* The workers and the run lock.                                           *)

\* One step, one holder of the lock.
LEMMA AloneStep ==
  ASSUME TypeOK, Alone, Threads, Locals, Next
  PROVE  Alone'
<1> USE DEF durable, sched, pool, env
<1>1. ASSUME AllGone, UNCHANGED wpc
      PROVE  Alone'
  BY <1>1 DEF Alone, AllGone
<1>2. CASE Launch \/ StartRun \/ QueueTask
  BY <1>1, <1>2 DEF Alone, Single, Launch, StartRun, QueueTask
<1>3. CASE Announce
  BY <1>3 DEF Alone, Single, Announce, Begin
<1>4. CASE DispatchSend \/ DispatchPark \/ DispatchDone \/ WakeUp \/ HaltOne \/ HaltDone \/ LeaveLoop
  BY <1>4 DEF Alone, Single, DispatchSend, DispatchPark, DispatchDone, WakeUp, HaltOne,
              HaltDone, LeaveLoop
<1>5. CASE PoolLost \/ AppendError \/ IndexError
  BY <1>5 DEF Alone, Single, PoolLost, AppendError, IndexError, Abandon
<1>6. CASE HandleStarted \/ HandleHeartbeat \/ HandleError \/ HandleReceipt
  BY <1>6 DEF Alone, Single, HandleStarted, HandleHeartbeat, HandleError, HandleReceipt, Wake,
              EnforceBudget
<1>7. CASE ApplyDone \/ ApplyRetry \/ ApplyEscalate \/ ApplyGate \/ ApplyFail
  BY <1>7 DEF Alone, Single, ApplyDone, ApplyRetry, ApplyEscalate, ApplyGate, ApplyFail,
              EnforceBudget
<1>8. CASE JoinPool \/ AbortJoined
  BY <1>1, <1>8 DEF JoinPool, AbortJoined
<1>9. CASE Finish \/ FinishIndex \/ RecordFailure \/ RecordFailureError \/ PreflightError
                  \/ SpawnFails
  BY <1>1, <1>9 DEF Alone, Single, Finish, FinishIndex, RecordFailure, RecordFailureError,
      PreflightError, SpawnFails
<1>10. ASSUME NEW w \in Worker
       PROVE  /\ Offer(w) \/ OfferFails(w) \/ Heartbeat(w) \/ Perform(w) \/ Panic(w) => Alone'
              /\ Leave(w) \/ Unwind(w) => Alone'
  BY DEF Alone, Single, AllGone, Offer, OfferFails, Heartbeat, Perform, Panic, Leave, Unwind
<1>11. CASE Crash
  BY <1>11 DEF Alone, AllGone, Crash
<1>12. CASE ResumeRefused \/ ResumeFinished
  BY <1>1, <1>12 DEF Alone, Single, ResumeRefused, ResumeFinished, Reopen
<1>13. CASE ResumeRun
  BY <1>13 DEF Alone, Single, ResumeRun, Reopen, Begin
<1>14. CASE ClockTurns \/ StrayLeaves \/ Stopped
  BY <1>14 DEF Alone, AllGone, ClockTurns, StrayLeaves, Stopped, vars
<1> QED
  BY <1>2, <1>3, <1>4, <1>5, <1>6, <1>7, <1>8, <1>9, <1>10, <1>11, <1>12, <1>13, <1>14 DEF Next

----------------------------------------------------------------------------
(* The coordinator's locals.                                               *)

\* One step, and the coordinator's locals still fit where it is.
LEMMA LocalsStep ==
  ASSUME TypeOK, Alone, Threads, Locals, Next
  PROVE  Locals'
<1> USE DEF durable, sched, pool, env
<1>1. NoTask \notin Task
  BY LedgerAssumption DEF NoTask, Task
<1>2. NoDecision.task = NoTask
  BY DEF NoDecision
<1>3. CASE Launch
  BY <1>3 DEF Locals, Launch
<1>4. CASE StartRun
  <2>1. OnRun("run_started") \in LedgerEvent /\ OnRun("run_started").event \notin TerminalKinds
    BY EventTypes DEF RunKinds, LedgerEvent, TerminalKinds
  <2>2. Settled(ledger') = Settled(ledger)
    BY <1>4, <2>1, CommitQuietly DEF StartRun
  <2>3. 1 \in Task
    BY LedgerAssumption DEF Task
  <2> QED BY <1>4, <2>2, <2>3 DEF Locals, StartRun
<1>5. CASE QueueTask
  <2>1. scan \in Task
    BY <1>5 DEF Locals, QueueTask
  <2>2. OnTask("task_queued", scan) \in LedgerEvent
        /\ OnTask("task_queued", scan).event \notin TerminalKinds
    BY <2>1, EventTypes DEF TaskKinds, LedgerEvent, TerminalKinds
  <2>3. Settled(ledger') = Settled(ledger)
    BY <1>5, <2>2, CommitQuietly DEF QueueTask
  <2>4. scan < TaskCount => scan + 1 \in Task
    BY <2>1, LedgerAssumption DEF Task
  <2> QED BY <1>5, <2>3, <2>4 DEF Locals, QueueTask
<1>6. CASE Announce
  BY <1>2, <1>6 DEF Locals, Announce, Begin
<1>7. CASE DispatchSend \/ DispatchPark \/ DispatchDone \/ WakeUp \/ HaltOne \/ HaltDone
           \/ LeaveLoop \/ JoinPool \/ Finish
  BY <1>7 DEF Locals, DispatchSend, DispatchPark, DispatchDone, WakeUp, HaltOne, HaltDone,
              LeaveLoop, JoinPool, Finish
<1>8. CASE PoolLost \/ AppendError \/ IndexError
  BY <1>2, <1>8 DEF Locals, PoolLost, AppendError, IndexError, Abandon, Forget
<1>9. CASE HandleStarted \/ HandleHeartbeat \/ HandleError
  BY <1>9 DEF Locals, Receive, HandleStarted, HandleHeartbeat, HandleError, Wake, EnforceBudget
<1>10. CASE HandleReceipt
  <2>1. Head(events).task \in Task
    BY <1>10, TailOfEvents DEF HandleReceipt, Receive, TypeOK, Message
  <2> QED BY <1>1, <1>10, <2>1 DEF Locals, HandleReceipt
<1>11. CASE ApplyDone \/ ApplyRetry \/ ApplyEscalate \/ ApplyGate \/ ApplyFail
  BY <1>2, <1>11 DEF Locals, ApplyDone, ApplyRetry, ApplyEscalate, ApplyGate, ApplyFail,
                     EnforceBudget
<1>12. CASE FinishIndex \/ Crash
  BY <1>2, <1>12 DEF Locals, FinishIndex, Crash, Forget
<1>13. CASE PreflightError \/ SpawnFails \/ AbortJoined \/ RecordFailure \/ RecordFailureError
  BY <1>13 DEF Locals, PreflightError, SpawnFails, AbortJoined, RecordFailure, RecordFailureError
<1>14. ASSUME NEW w \in Worker
       PROVE  /\ Offer(w) \/ OfferFails(w) \/ Heartbeat(w) \/ Perform(w) \/ Panic(w) => Locals'
              /\ Leave(w) \/ Unwind(w) => Locals'
  <2>1. CASE Offer(w) \/ OfferFails(w)
    BY <2>1 DEF Locals, Alone, Single, AllGone, Offer, OfferFails
  <2>2. CASE Heartbeat(w) \/ Perform(w)
    BY <2>2 DEF Locals, Alone, Single, AllGone, Heartbeat, Perform
  <2>3. CASE Panic(w) \/ Leave(w) \/ Unwind(w)
    BY <2>3 DEF Locals, Panic, Leave, Unwind
  <2> QED BY <2>1, <2>2, <2>3
<1>15. CASE ResumeRefused \/ ResumeFinished
  BY <1>15 DEF Locals, ResumeRefused, ResumeFinished, Reopen
<1>16. CASE ResumeRun
  BY <1>2, <1>16 DEF Locals, ResumeRun, Reopen, Begin
<1>17. CASE ClockTurns \/ StrayLeaves \/ Stopped
  BY <1>17 DEF Locals, ClockTurns, StrayLeaves, Stopped, vars
<1> QED
  BY <1>3, <1>4, <1>5, <1>6, <1>7, <1>8, <1>9, <1>10, <1>11, <1>12, <1>13, <1>14, <1>15,
     <1>16, <1>17 DEF Next
----------------------------------------------------------------------------
(* What the threads hold and the offers they have made.                    *)

\* One step, and every worker still has what its place needs.
LEMMA ThreadsStep ==
  ASSUME TypeOK, Alone, Threads, Locals, Next
  PROVE  Threads'
<1> USE DEF durable, sched, pool, env
<1> DEFINE offers(q, at) ==
      \A i \in DOMAIN q :
        q[i].kind = "started" =>
          /\ at[q[i].worker] = "offered"
          /\ \A j \in DOMAIN q : q[j].kind = "started" /\ q[j].worker = q[i].worker => i = j
           holds(at, held) == \A w \in Worker : at[w] \in {"idle", "gone"} <=> held[w] = NoTask
<1>1. holds(wpc, wtask) /\ offers(events, wpc)
  BY DEF Threads
<1>2. SUFFICES holds(wpc', wtask') /\ offers(events', wpc')
  BY DEF Threads
<1>3. /\ wpc \in [Worker -> {"idle", "offered", "running", "gone"}]
      /\ wtask \in [Worker -> Task \cup {NoTask}]
      /\ events \in Seq(Message)
      /\ NoTask \notin Task
  BY LedgerAssumption DEF TypeOK, NoTask, Task
<1>4. \A at : offers(<< >>, at)
  OBVIOUS
<1>5. ASSUME events # << >>, events' = Tail(events)
      PROVE  /\ offers(events', wpc)
             /\ Head(events).kind = "started" =>
                  /\ wpc[Head(events).worker] = "offered"
                  /\ \A i \in DOMAIN events' :
                       events'[i].kind = "started" => events'[i].worker # Head(events).worker
  <2>1. /\ Len(events) \in Nat \ {0}
        /\ DOMAIN events = 1 .. Len(events)
        /\ DOMAIN events' = 1 .. Len(events) - 1
        /\ \A i \in 1 .. Len(events) - 1 : events'[i] = events[i + 1]
        /\ Head(events) = events[1]
    BY <1>3, <1>5, HeadTailProperties, EmptySeq, LenProperties
  <2>2. \A i \in DOMAIN events' : i \in Nat /\ i + 1 \in DOMAIN events /\ i + 1 # 1
    BY <2>1
  <2>3. ASSUME NEW i \in DOMAIN events', NEW j \in DOMAIN events',
               events'[i].kind = "started", events'[j].kind = "started",
               events'[i].worker = events'[j].worker
        PROVE  i = j
    <3>1. i + 1 = j + 1
      BY <1>1, <2>1, <2>2, <2>3
    <3> QED BY <2>2, <3>1
  <2>4. \A i \in DOMAIN events' :
          events'[i].kind = "started" => wpc[events'[i].worker] = "offered"
    BY <1>1, <2>1, <2>2
  <2>5. Head(events).kind = "started" => wpc[Head(events).worker] = "offered"
    BY <1>1, <2>1
  <2>6. ASSUME Head(events).kind = "started", NEW i \in DOMAIN events',
               events'[i].kind = "started"
        PROVE  events'[i].worker # Head(events).worker
    BY <1>1, <2>1, <2>2, <2>6
  <2> QED BY <2>3, <2>4, <2>5, <2>6
<1>6. ASSUME NEW m \in Message, events' = Append(events, m), m.kind # "started"
      PROVE  offers(events', wpc)
  <2>1. /\ DOMAIN events = 1 .. Len(events)
        /\ DOMAIN events' = 1 .. Len(events) + 1
        /\ Len(events) \in Nat
        /\ \A i \in 1 .. Len(events) : events'[i] = events[i]
        /\ events'[Len(events) + 1] = m
    BY <1>3, <1>6
  <2>2. \A i \in DOMAIN events' :
          events'[i].kind = "started" => i \in DOMAIN events /\ events'[i] = events[i]
    BY <1>6, <2>1
  <2> QED BY <1>1, <2>2
<1>7. ASSUME NEW w \in Worker, wpc[w] # "offered", NEW at,
             at = [wpc EXCEPT ![w] = "offered"] \/ at = [wpc EXCEPT ![w] = "idle"]
               \/ at = [wpc EXCEPT ![w] = "gone"],
             NEW q, offers(q, wpc), \A i \in DOMAIN q : q[i].worker \in Worker
      PROVE  offers(q, at)
  BY <1>3, <1>7
<1>8. CASE UNCHANGED <<events, wpc, wtask>>
  BY <1>1, <1>8
<1>9. ASSUME Forget, UNCHANGED <<wpc, wtask>>
      PROVE  holds(wpc', wtask') /\ offers(events', wpc')
  BY <1>1, <1>4, <1>9 DEF Forget
<1>10. ASSUME NEW queue, NEW tokens, Begin(queue, tokens),
              pc \in {"announce", "off"}
       PROVE  holds(wpc', wtask') /\ offers(events', wpc')
  <2>1. \A w \in Worker : wpc[w] = "gone"
    BY <1>10 DEF Alone, Single, AllGone
  <2>2. \A w \in Worker : wtask[w] = NoTask
    BY <1>1, <2>1
  <2>3. events' = << >> /\ wtask' = wtask
    BY <1>10 DEF Locals, Begin, Staff
  <2>4. \A w \in Worker : wpc'[w] \in {"idle", "gone"}
    BY <1>10 DEF Begin, Staff
  <2> QED BY <1>4, <2>2, <2>3, <2>4
<1>11. CASE Announce
  BY <1>10, <1>11 DEF Announce
<1>12. CASE ResumeRun
  BY <1>10, <1>12 DEF ResumeRun, Reopen
<1>13. CASE PoolLost \/ AppendError \/ IndexError
  BY <1>9, <1>13 DEF PoolLost, AppendError, IndexError, Abandon
<1>14. CASE FinishIndex
  BY <1>9, <1>14 DEF FinishIndex
<1>15. CASE Crash
  BY <1>4, <1>15 DEF Crash, Forget
<1>16. CASE HandleStarted
  <2> DEFINE m == Head(events)
  <2>1. events # << >> /\ events' = Tail(events) /\ m.kind = "started"
    BY <1>16 DEF HandleStarted, Receive
  <2>2. wpc' = [wpc EXCEPT ![m.worker] = "running"] /\ wtask' = wtask
    BY <1>16 DEF HandleStarted
  <2>3. m.worker \in Worker
    BY <1>3, <2>1, TailOfEvents DEF Message
  <2>4. wpc[m.worker] = "offered" /\ wtask[m.worker] # NoTask
    BY <1>1, <1>5, <2>1, <2>3
  <2>5. holds(wpc', wtask')
    BY <1>1, <1>3, <2>2, <2>3, <2>4
  <2>6. \A i \in DOMAIN events' :
          events'[i].kind = "started" => wpc'[events'[i].worker] = wpc[events'[i].worker]
    BY <1>3, <1>5, <2>1, <2>2
  <2> QED BY <1>5, <2>1, <2>5, <2>6
<1>17. CASE HandleHeartbeat \/ HandleError \/ HandleReceipt
  BY <1>1, <1>5, <1>17 DEF HandleHeartbeat, HandleError, HandleReceipt, Receive
<1>18. ASSUME NEW w \in Worker
       PROVE  /\ Offer(w) => holds(wpc', wtask') /\ offers(events', wpc')
              /\ OfferFails(w) \/ Heartbeat(w) => holds(wpc', wtask') /\ offers(events', wpc')
              /\ Perform(w) => holds(wpc', wtask') /\ offers(events', wpc')
              /\ Panic(w) \/ Leave(w) => holds(wpc', wtask') /\ offers(events', wpc')
              /\ Unwind(w) => holds(wpc', wtask') /\ offers(events', wpc')
  <2>1. \A i \in DOMAIN events : events[i].worker \in Worker
    <3>1. \A i \in DOMAIN events : events[i] \in Message
      BY <1>3
    <3> QED BY <3>1 DEF Message
  <2>2. CASE Offer(w)
    <3> DEFINE m == Tell("started", w, Head(jobs))
    <3>1. /\ wpc[w] = "idle" /\ jobs # << >>
          /\ events' = Append(events, m)
          /\ wpc' = [wpc EXCEPT ![w] = "offered"]
          /\ wtask' = [wtask EXCEPT ![w] = Head(jobs)]
      BY <2>2 DEF Offer
    <3>2. Head(jobs) \in Task
      BY <3>1, TailOfQueue DEF TypeOK
    <3>3. m.kind = "started" /\ m.worker = w
      BY DEF Tell
    <3>4. /\ DOMAIN events = 1 .. Len(events)
          /\ DOMAIN events' = 1 .. Len(events) + 1
          /\ Len(events) \in Nat
          /\ \A i \in 1 .. Len(events) : events'[i] = events[i]
          /\ events'[Len(events) + 1] = m
      BY <1>3, <3>1
    <3>5. \A i \in DOMAIN events : events[i].kind = "started" => events[i].worker # w
      BY <1>1, <3>1
    <3>6. offers(events, wpc')
      BY <1>1, <1>7, <2>1, <3>1
    <3> HIDE DEF m
    <3>7. ASSUME NEW i \in DOMAIN events', events'[i].kind = "started"
          PROVE  /\ wpc'[events'[i].worker] = "offered"
                 /\ \A j \in DOMAIN events' :
                      events'[j].kind = "started" /\ events'[j].worker = events'[i].worker
                        => i = j
      <4>1. CASE i \in DOMAIN events
        BY <3>3, <3>4, <3>5, <3>6, <3>7, <4>1
      <4>2. CASE i = Len(events) + 1
        BY <1>3, <3>1, <3>3, <3>4, <3>5, <4>2
      <4> QED BY <3>4, <4>1, <4>2
    <3>8. holds(wpc', wtask')
      BY <1>1, <1>3, <3>1, <3>2
    <3> QED BY <3>7, <3>8
  <2>3. CASE OfferFails(w) \/ Heartbeat(w)
    <3>1. PICK m \in Message : events' = Append(events, m) /\ m.kind # "started"
      <4>1. CASE OfferFails(w)
        <5>1. Head(jobs) \in Task
          BY <4>1, TailOfQueue DEF TypeOK, OfferFails
        <5> DEFINE m == [Tell("finished", w, Head(jobs)) EXCEPT !.outcome = "error"]
        <5>2. m \in Message /\ m.kind = "finished"
          BY <5>1 DEF Tell, Message
        <5> QED BY <4>1, <5>2 DEF OfferFails
      <4>2. CASE Heartbeat(w)
        <5>1. wtask[w] \in Task
          BY <1>1, <1>3, <4>2 DEF Heartbeat
        <5>2. Tell("heartbeat", w, wtask[w]) \in Message
              /\ Tell("heartbeat", w, wtask[w]).kind = "heartbeat"
          BY <5>1 DEF Tell, Message
        <5> QED BY <4>2, <5>2 DEF Heartbeat
      <4> QED BY <2>3, <4>1, <4>2
    <3>2. UNCHANGED <<wpc, wtask>>
      BY <2>3 DEF OfferFails, Heartbeat
    <3> QED BY <1>1, <1>6, <3>1, <3>2
  <2>4. CASE Perform(w)
    <3>1. PICK m \in Message : events' = Append(events, m) /\ m.kind = "finished"
      BY <2>4, PerformAnswers
    <3>2. offers(events', wpc)
      BY <1>6, <3>1
    <3>3. \A i \in DOMAIN events' : events'[i].worker \in Worker
      <4>1. events' \in Seq(Message)
        BY <1>3, <3>1
      <4>2. \A i \in DOMAIN events' : events'[i] \in Message
        BY <4>1
      <4> QED BY <4>2 DEF Message
    <3>4. /\ wpc[w] = "running"
          /\ wpc' = [wpc EXCEPT ![w] = "idle"]
          /\ wtask' = [wtask EXCEPT ![w] = NoTask]
      BY <2>4 DEF Perform
    <3>5. offers(events', wpc')
      BY <1>7, <3>2, <3>3, <3>4
    <3>6. holds(wpc', wtask')
      BY <1>1, <1>3, <3>4
    <3> QED BY <3>5, <3>6
  <2>5. CASE Panic(w) \/ Leave(w)
    <3>1. /\ wpc[w] # "offered"
          /\ wpc' = [wpc EXCEPT ![w] = "gone"]
          /\ wtask' = [wtask EXCEPT ![w] = NoTask]
          /\ events' = events
      <4>1. CASE Panic(w)
        BY <4>1 DEF Panic
      <4>2. CASE Leave(w)
        <5>1. wtask[w] = NoTask
          BY <1>1, <4>2 DEF Leave
        <5> QED BY <1>3, <4>2, <5>1 DEF Leave
      <4> QED BY <2>5, <4>1, <4>2
    <3>2. offers(events, wpc')
      BY <1>1, <1>7, <2>1, <3>1
    <3>3. holds(wpc', wtask')
      BY <1>1, <1>3, <3>1
    <3> QED BY <3>1, <3>2, <3>3
  <2>6. CASE Unwind(w)
    <3>1. events' = << >>
      BY <2>6 DEF Unwind, Locals
    <3>2. holds(wpc', wtask')
      BY <1>1, <1>3, <2>6 DEF Unwind
    <3> QED BY <1>4, <3>1, <3>2
  <2> QED BY <2>2, <2>3, <2>4, <2>5, <2>6
<1> QED
  BY <1>8, <1>11, <1>12, <1>13, <1>14, <1>15, <1>16, <1>17, <1>18
  DEF Next, Launch, StartRun, QueueTask, DispatchSend, DispatchPark, DispatchDone, WakeUp,
      ApplyDone, ApplyRetry, ApplyEscalate, ApplyGate, ApplyFail, HaltOne, HaltDone, LeaveLoop,
      JoinPool, Finish, PreflightError, SpawnFails, AbortJoined, RecordFailure,
      RecordFailureError, ResumeRefused, ResumeFinished, Reopen, ClockTurns, StrayLeaves,
      Stopped, vars
----------------------------------------------------------------------------
(* Tasks in hand.                                                          *)

Hand == Once /\ Apart /\ Unsettled /\ OneTerminalPerTask

\* A place a step leaves alone, or empties, is what it was, or empty.
LEMMA SamePlaces ==
  /\ remaining' = remaining => Waiting' = Waiting
  /\ jobs' = jobs           => Sent' = Sent
  /\ wtask' = wtask         => Taken' = Taken
  /\ events' = events       => Answered' = Answered
  /\ deciding' = deciding   => Judged' = Judged
  /\ remaining' = << >>     => Waiting' = {}
  /\ jobs' = << >>          => Sent' = {}
  /\ events' = << >>        => Answered' = {}
  /\ deciding' = NoDecision => Judged' = {}
<1>1. \A f : f = << >> => Range(f) = {} /\ Tasks(f) = {}
  BY DEF Range, Tasks, Answers
<1>2. NoDecision.task = NoTask
  BY DEF NoDecision
<1>3. deciding' = NoDecision => Judged' = {}
  BY <1>2 DEF Judged
<1> QED BY <1>1, <1>3 DEF Waiting, Sent, Taken, Answered, Judged

\* A worker takes a task up, or puts it down.
LEMMA TakeTask ==
  ASSUME TypeOK, SoleHolders, NEW w \in Worker, NEW t \in Task,
         wtask' = [wtask EXCEPT ![w] = t], wtask[w] = NoTask
  PROVE  /\ Taken' = Taken \cup {t}
         /\ t \notin Taken => SoleHolders'
<1>1. /\ wtask \in [Worker -> Task \cup {NoTask}]
      /\ NoTask \notin Task
  BY LedgerAssumption DEF TypeOK, NoTask, Task
<1>2. \A v \in Worker : wtask'[v] = IF v = w THEN t ELSE wtask[v]
  BY <1>1
<1>3. DOMAIN wtask = Worker /\ DOMAIN wtask' = Worker
  BY <1>1
<1>4. Taken' = Taken \cup {t}
  BY <1>1, <1>2, <1>3 DEF Taken, Range
<1>5. ASSUME t \notin Taken
      PROVE  SoleHolders'
  <2>1. \A v \in Worker : wtask[v] # t
    BY <1>1, <1>3, <1>5 DEF Taken, Range
  <2> QED BY <1>2, <2>1 DEF SoleHolders
<1> QED BY <1>4, <1>5

\* A worker that lets its job go is no longer among the holders.
LEMMA DropTask ==
  ASSUME TypeOK, SoleHolders, NEW w \in Worker, wtask' = [wtask EXCEPT ![w] = NoTask]
  PROVE  /\ Taken' = Taken \ {wtask[w]}
         /\ wtask[w] # NoTask => wtask[w] \in Taken
         /\ SoleHolders'
<1>1. wtask \in [Worker -> Task \cup {NoTask}]
  BY DEF TypeOK
<1>2. \A v \in Worker : wtask'[v] = IF v = w THEN NoTask ELSE wtask[v]
  BY <1>1
<1>3. DOMAIN wtask = Worker /\ DOMAIN wtask' = Worker
  BY <1>1
<1>4. Taken' = Taken \ {wtask[w]}
  <2>1. ASSUME NEW x, x \in Taken'
        PROVE  x \in Taken /\ x # wtask[w]
    <3>1. PICK v \in Worker : x = wtask'[v] /\ x # NoTask
      BY <1>3, <2>1 DEF Taken, Range
    <3>2. v # w /\ wtask[v] = x
      BY <1>2, <3>1
    <3> QED BY <1>3, <3>1, <3>2 DEF Taken, Range, SoleHolders
  <2>2. ASSUME NEW x, x \in Taken, x # wtask[w]
        PROVE  x \in Taken'
    <3>1. PICK v \in Worker : x = wtask[v] /\ x # NoTask
      BY <1>3, <2>2 DEF Taken, Range
    <3>2. wtask'[v] = x
      BY <1>2, <2>2, <3>1
    <3> QED BY <1>3, <3>1, <3>2 DEF Taken, Range
  <2> QED BY <2>1, <2>2
<1>5. SoleHolders'
  BY <1>2 DEF SoleHolders
<1> QED BY <1>3, <1>4, <1>5 DEF Taken, Range

\* A worker is alone with NoTask when no thread is left.
LEMMA NobodyHolds ==
  ASSUME TypeOK, Threads, AllGone
  PROVE  Taken = {}
<1>1. \A w \in Worker : wtask[w] = NoTask
  BY DEF Threads, AllGone
<1>2. DOMAIN wtask = Worker
  BY DEF TypeOK
<1> QED BY <1>1, <1>2 DEF Taken, Range

\* Nothing joins the hand, and a task that is settled meanwhile leaves it.
LEMMA HandShrinks ==
  ASSUME Apart, Unsettled, NEW t,
         Waiting' \subseteq Waiting, Sent' \subseteq Sent, Taken' \subseteq Taken,
         Answered' \subseteq Answered, Judged' \subseteq Judged,
         Settled(ledger') \subseteq Settled(ledger) \cup {t}, t \notin InHand'
  PROVE  Apart' /\ Unsettled'
<1>1. Apart'
  BY DEF Apart
<1>2. InHand' \subseteq InHand
  BY DEF InHand
<1>3. Unsettled'
  BY <1>2 DEF Unsettled
<1> QED BY <1>1, <1>3

\* No line is written and the hand only loses tasks.
LEMMA HandLoses ==
  ASSUME Apart, Unsettled, OneTerminalPerTask, ledger' = ledger,
         Waiting' \subseteq Waiting, Sent' \subseteq Sent, Taken' \subseteq Taken,
         Answered' \subseteq Answered, Judged' \subseteq Judged
  PROVE  Apart' /\ Unsettled' /\ OneTerminalPerTask'
<1>1. Apart'
  BY DEF Apart
<1>2. Unsettled'
  BY DEF Unsettled, InHand
<1>3. OneTerminalPerTask'
  BY DEF OneTerminalPerTask
<1> QED BY <1>1, <1>2, <1>3
\* A line that ends a task is about one that no worker has and is unsettled.
LEMMA PendingTerminal ==
  ASSUME TypeOK, Locals, Apart, Unsettled,
         NEW e \in Pending, e.event \in TerminalKinds
  PROVE  e.task \in Task \ (Settled(ledger) \cup Taken)
<1> SUFFICES e.task \in Task /\ e.task \in Waiting \cup Answered \cup Judged
  BY DEF Apart, Unsettled, InHand
<1>1. CASE pc = "halt"
  <2>1. remaining # << >> /\ e = OnTask("task_failed", Head(remaining))
    BY <1>1 DEF Pending
  <2>2. Head(remaining) \in Task /\ Head(remaining) \in Waiting
    BY <2>1, TailOfQueue DEF TypeOK, Waiting
  <2> QED BY <2>1, <2>2 DEF OnTask
<1>2. CASE pc = "loop"
  <2> DEFINE m == Head(events)
  <2>1. /\ events # << >>
        /\ e = IF m.kind = "started" THEN TaskStarted(m.task, tier[m.task], attempt[m.task])
               ELSE IF m.kind = "heartbeat" THEN OnTask("task_heartbeat", m.task)
               ELSE IF m.outcome = "error" THEN OnTask("task_failed", m.task)
               ELSE TaskReceipt(m.task, attempt[m.task], m.outcome, m.tokens)
    BY <1>2 DEF Pending
  <2>2. m \in Message /\ (m.kind = "finished" => m.task \in Answered)
    BY <2>1, TailOfEvents DEF TypeOK, Answered
  <2>3. m.task \in Task /\ m.kind \in {"started", "heartbeat", "finished"}
    BY <2>2 DEF Message
  <2>4. m.kind = "finished" /\ e = OnTask("task_failed", m.task)
    BY <2>1, <2>3 DEF TerminalKinds, TaskStarted, TaskReceipt, OnTask
  <2> QED BY <2>2, <2>3, <2>4 DEF OnTask
<1>3. CASE pc = "decide"
  <2>1. deciding.task \in Task /\ deciding.task \in Judged
    BY <1>3 DEF Locals, TypeOK, Judged
  <2>2. e.task = deciding.task
    BY <1>3 DEF Pending, TaskDone, TaskEscalated, OnTask
  <2> QED BY <2>1, <2>2
<1>4. CASE pc \notin {"halt", "loop", "decide"}
  BY <1>4, WrittenEvents DEF Pending, TerminalKinds, OnTask, OnRun, RunFinished
<1> QED BY <1>1, <1>2, <1>3, <1>4

\* Every step keeps each task in hand once, unsettled, and ended at most once.
LEMMA HandStep ==
  ASSUME Inv, Next
  PROVE  Hand'
<1> USE DEF durable, sched, pool, env
<1>1. /\ TypeOK /\ Alone /\ Threads /\ Locals /\ Once /\ Apart /\ Unsettled
      /\ OneTerminalPerTask
      /\ Distinct(remaining) /\ Distinct(jobs) /\ SoleHolders /\ OneAnswer(events)
      /\ remaining \in Seq(Task) /\ jobs \in Seq(Task) /\ events \in Seq(Message)
  BY DEF Inv, Once, TypeOK
<1>2. NoTask \notin Task /\ NoDecision.task = NoTask
  BY LedgerAssumption DEF NoTask, Task, NoDecision
<1>3. ASSUME UNCHANGED <<ledger, remaining, jobs, wtask, events, deciding>>
      PROVE  Hand'
  <2>1. Once'
    BY <1>1, <1>3 DEF Once, SoleHolders
  <2> QED BY <1>1, <1>3, <2>1, SamePlaces, HandLoses DEF Hand
<1>4. ASSUME NEW e \in LedgerEvent, Commit(e), e.event \notin TerminalKinds,
             UNCHANGED <<remaining, jobs, wtask, events, deciding>>
      PROVE  Hand'
  <2>1. Settled(ledger') = Settled(ledger) /\ OneTerminalPerTask'
    BY <1>1, <1>4, CommitQuietly
  <2>2. Once'
    BY <1>1, <1>4 DEF Once, SoleHolders
  <2>3. Apart' /\ Unsettled'
    BY <1>1, <1>4, <2>1, SamePlaces DEF Apart, Unsettled, InHand
  <2> QED BY <2>1, <2>2, <2>3 DEF Hand
<1>5. CASE Launch \/ DispatchDone \/ WakeUp \/ HaltDone \/ LeaveLoop \/ JoinPool
           \/ PreflightError \/ SpawnFails \/ AbortJoined \/ ResumeRefused \/ ResumeFinished
           \/ ClockTurns \/ StrayLeaves \/ Stopped
  BY <1>3, <1>5 DEF Launch, DispatchDone, WakeUp, HaltDone, LeaveLoop, JoinPool, PreflightError,
      SpawnFails, AbortJoined, ResumeRefused, ResumeFinished, Reopen, ClockTurns, StrayLeaves,
      Stopped, vars
<1>6. CASE StartRun \/ Finish \/ RecordFailure
  <2>1. /\ OnRun("run_started") \in LedgerEvent /\ OnRun("run_failed") \in LedgerEvent
        /\ OnRun("run_started").event = "run_started"
        /\ OnRun("run_failed").event = "run_failed"
    BY EventTypes DEF RunKinds, LedgerEvent
  <2>2. RunFinished(counts) \in LedgerEvent /\ RunFinished(counts).event = "run_finished"
    BY <1>1, WrittenEvents DEF TypeOK, LedgerEvent
  <2> QED BY <1>4, <1>6, <2>1, <2>2 DEF StartRun, Finish, RecordFailure, TerminalKinds
<1>7. CASE QueueTask
  <2>1. scan \in Task
    BY <1>1, <1>7 DEF Locals, QueueTask
  <2>2. OnTask("task_queued", scan) \in LedgerEvent
        /\ OnTask("task_queued", scan).event = "task_queued"
    BY <2>1, EventTypes DEF TaskKinds, LedgerEvent
  <2> QED BY <1>4, <1>7, <2>2 DEF QueueTask, TerminalKinds
<1>8. ASSUME NEW queue \in Seq(Task), NEW tokens, Begin(queue, tokens), Distinct(queue),
             Range(queue) \cap Settled(ledger) = {}, ledger' = ledger,
             pc \in {"announce", "off"}
      PROVE  Hand'
  <2>1. AllGone
    BY <1>1, <1>8 DEF Alone, Single
  <2>2. Taken = {}
    BY <1>1, <2>1, NobodyHolds
  <2>3. /\ remaining' = queue /\ deciding' = NoDecision /\ wtask' = wtask
        /\ jobs' = << >> /\ events' = << >>
    BY <1>1, <1>8 DEF Begin, Staff, Locals
  <2>4. /\ Waiting' = Range(queue)
        /\ Sent' = {} /\ Taken' = {} /\ Answered' = {} /\ Judged' = {}
    BY <2>2, <2>3, SamePlaces DEF Waiting
  <2>5. Once'
    BY <1>1, <1>8, <2>3 DEF Once, SoleHolders, Distinct, OneAnswer, Answers
  <2>6. Apart' /\ Unsettled' /\ OneTerminalPerTask'
    BY <1>1, <1>8, <2>4 DEF Apart, Unsettled, InHand, OneTerminalPerTask
  <2> QED BY <2>5, <2>6 DEF Hand
<1>9. CASE Announce
  <2> DEFINE queue == [i \in 1 .. TaskCount |-> i]
  <2>1. queue \in Seq(Task) /\ Distinct(queue)
    BY LedgerAssumption, SeqDef DEF Task, Distinct
  <2>2. Settled(ledger) = {}
    BY <1>1, <1>9 DEF Locals, Announce
  <2> HIDE DEF queue
  <2>3. Begin(queue, 0) /\ ledger' = ledger /\ pc = "announce"
    BY <1>9 DEF Announce, queue
  <2> QED BY <1>8, <2>1, <2>2, <2>3
<1>10. CASE ResumeRun
  <2>1. PICK queue \in InQueueOrder(Todo(ledger)) : Begin(queue, ReceiptTokens(ledger))
    BY <1>10 DEF ResumeRun
  <2>2. queue \in Seq(Task) /\ Distinct(queue) /\ Range(queue) = Todo(ledger)
    BY <2>1, OrderedQueue DEF Todo, Mentioned
  <2>3. Range(queue) \cap Settled(ledger) = {}
    BY <2>2 DEF Todo
  <2> QED BY <1>8, <1>10, <2>1, <2>2, <2>3 DEF ResumeRun, Reopen
<1>11. CASE DispatchSend
  <2> DEFINE t == Head(remaining)
  <2>1. /\ remaining # << >> /\ remaining' = Tail(remaining) /\ jobs' = Append(jobs, t)
        /\ UNCHANGED <<ledger, wtask, events, deciding>>
    BY <1>11 DEF DispatchSend
  <2>2. /\ t \in Task /\ t \in Waiting /\ Waiting' = Waiting \ {t}
        /\ Distinct(remaining')
    BY <1>1, <2>1, TailOfQueue DEF Waiting
  <2>3. t \notin Sent
    BY <1>1, <2>2 DEF Apart
  <2>4. Sent' = Sent \cup {t} /\ Distinct(jobs')
    BY <1>1, <2>1, <2>2, <2>3, AppendToQueue DEF Sent
  <2>5. Taken' = Taken /\ Answered' = Answered /\ Judged' = Judged
    BY <2>1, SamePlaces
  <2>6. Once'
    BY <1>1, <2>1, <2>2, <2>4 DEF Once, SoleHolders
  <2> HIDE DEF t
  <2>7. Apart'
    BY <1>1, <2>2, <2>4, <2>5 DEF Apart
  <2>8. Unsettled' /\ OneTerminalPerTask'
    BY <1>1, <2>1, <2>2, <2>4, <2>5 DEF Unsettled, InHand, OneTerminalPerTask
  <2> QED BY <2>6, <2>7, <2>8 DEF Hand
<1>12. CASE DispatchPark
  <2>1. /\ remaining # << >> /\ remaining' = Append(Tail(remaining), Head(remaining))
        /\ UNCHANGED <<ledger, jobs, wtask, events, deciding>>
    BY <1>12 DEF DispatchPark
  <2>2. Distinct(remaining') /\ Waiting' = Waiting
    BY <1>1, <2>1, RotatedQueue DEF Waiting
  <2>3. Once'
    BY <1>1, <2>1, <2>2 DEF Once, SoleHolders
  <2> QED BY <1>1, <2>1, <2>2, <2>3, SamePlaces, HandLoses DEF Hand
<1>13. ASSUME Forget, UNCHANGED wtask
       PROVE  /\ Once'
              /\ Waiting' = {} /\ Sent' = {} /\ Answered' = {} /\ Judged' = {}
              /\ Taken' = Taken
  <2>1. remaining' = << >> /\ jobs' = << >> /\ events' = << >> /\ deciding' = NoDecision
    BY <1>13 DEF Forget
  <2>2. Once'
    BY <1>1, <1>13, <2>1 DEF Once, SoleHolders, Distinct, OneAnswer, Answers
  <2> QED BY <1>13, <2>1, <2>2, SamePlaces
<1>14. CASE PoolLost \/ IndexError \/ FinishIndex
  <2>1. Forget /\ UNCHANGED <<wtask, ledger>>
    BY <1>14 DEF PoolLost, IndexError, FinishIndex, Abandon
  <2> QED BY <1>1, <1>13, <2>1, HandLoses DEF Hand
<1>15. CASE Crash
  <2>1. /\ remaining' = << >> /\ jobs' = << >> /\ events' = << >> /\ deciding' = NoDecision
        /\ wtask' = [w \in Worker |-> NoTask] /\ ledger' = ledger
    BY <1>15 DEF Crash, Forget
  <2>2. Once'
    BY <2>1 DEF Once, SoleHolders, Distinct, OneAnswer, Answers
  <2>3. Taken' = {}
    BY <2>1 DEF Taken, Range
  <2> QED BY <1>1, <2>1, <2>2, <2>3, SamePlaces, HandLoses DEF Hand
<1>16. ASSUME NEW e \in Pending, Botched(e)
       PROVE  /\ OneTerminalPerTask'
              /\ e.event \in TerminalKinds =>
                   /\ Settled(ledger') \subseteq Settled(ledger) \cup {e.task}
                   /\ e.task \notin Taken
              /\ e.event \notin TerminalKinds => Settled(ledger') = Settled(ledger)
  <2>1. e \in LedgerEvent
    BY <1>1, PendingTypes
  <2>2. e.event \in TerminalKinds => e.task \in Task \ (Settled(ledger) \cup Taken)
    BY <1>1, PendingTerminal
  <2>3. CASE ledger' = ledger
    BY <1>1, <2>2, <2>3 DEF OneTerminalPerTask
  <2>4. CASE Commit(e)
    BY <1>1, <2>1, <2>2, <2>4, CommitQuietly, CommitTerminal
  <2> QED BY <1>16, <2>3, <2>4 DEF Botched
<1>17. CASE AppendError
  <2>1. PICK e \in Pending : Botched(e)
    BY <1>17 DEF AppendError
  <2>2. Forget /\ UNCHANGED wtask
    BY <1>17 DEF AppendError, Abandon
  <2>3. InHand' = Taken
    BY <1>13, <2>2 DEF InHand
  <2>4. Apart' /\ Unsettled'
    <3>1. CASE e.event \in TerminalKinds
      BY <1>1, <1>13, <1>16, <2>1, <2>2, <2>3, <3>1, HandShrinks
    <3>2. CASE e.event \notin TerminalKinds
      BY <1>1, <1>13, <1>16, <2>1, <2>2, <3>2 DEF Apart, Unsettled, InHand
    <3> QED BY <3>1, <3>2
  <2> QED BY <1>13, <1>16, <2>1, <2>2, <2>4 DEF Hand
<1>18. CASE RecordFailureError
  <2>1. PICK e \in Pending : Botched(e)
    BY <1>18 DEF RecordFailureError
  <2>2. e.event \notin TerminalKinds
    BY <1>18, EventTypes DEF RecordFailureError, Pending, RunKinds, TerminalKinds
  <2>3. /\ UNCHANGED <<remaining, jobs, wtask, events, deciding>>
        /\ Settled(ledger') = Settled(ledger) /\ OneTerminalPerTask'
    BY <1>16, <1>18, <2>1, <2>2 DEF RecordFailureError
  <2>4. Once'
    BY <1>1, <2>3 DEF Once, SoleHolders
  <2>5. Apart' /\ Unsettled'
    BY <1>1, <2>3, SamePlaces DEF Apart, Unsettled, InHand
  <2> QED BY <2>3, <2>4, <2>5 DEF Hand
<1>19. CASE HandleStarted \/ HandleHeartbeat
  <2> DEFINE m == Head(events)
  <2>1. /\ events # << >> /\ events' = Tail(events) /\ m.kind \in {"started", "heartbeat"}
        /\ UNCHANGED <<remaining, jobs, wtask, deciding>>
    BY <1>19 DEF HandleStarted, HandleHeartbeat, Receive
  <2>2. m.task \in Task /\ Answered' \subseteq Answered /\ OneAnswer(events')
    BY <1>1, <2>1, TailOfEvents DEF Message, Answered
  <2>3. \E e \in LedgerEvent : Commit(e) /\ e.event \notin TerminalKinds
    <3>1. /\ TaskStarted(m.task, tier[m.task], attempt[m.task]) \in LedgerEvent
          /\ TaskStarted(m.task, tier[m.task], attempt[m.task]).event = "task_started"
      <4>1. tier[m.task] \in Nat /\ attempt[m.task] \in Nat
        BY <1>1, <2>2 DEF TypeOK
      <4> HIDE DEF m
      <4> QED BY <2>2, <4>1, WrittenEvents DEF LedgerEvent
    <3>2. /\ OnTask("task_heartbeat", m.task) \in LedgerEvent
          /\ OnTask("task_heartbeat", m.task).event = "task_heartbeat"
      BY <2>2, EventTypes DEF TaskKinds, LedgerEvent
    <3> QED BY <1>19, <3>1, <3>2 DEF HandleStarted, HandleHeartbeat, TerminalKinds
  <2>4. Settled(ledger') = Settled(ledger) /\ OneTerminalPerTask'
    BY <1>1, <2>3, CommitQuietly
  <2>5. Once'
    BY <1>1, <2>1, <2>2 DEF Once, SoleHolders
  <2>6. /\ Waiting' = Waiting /\ Sent' = Sent /\ Taken' = Taken /\ Judged' = Judged
    BY <2>1, SamePlaces
  <2>7. Apart' /\ Unsettled'
    BY <1>1, <2>2, <2>4, <2>6 DEF Apart, Unsettled, InHand
  <2> QED BY <2>4, <2>5, <2>7 DEF Hand
<1>20. CASE HandleError
  <2> DEFINE m == Head(events)
             e == OnTask("task_failed", m.task)
  <2>1. /\ events # << >> /\ events' = Tail(events) /\ m.kind = "finished"
        /\ Commit(e) /\ UNCHANGED <<remaining, jobs, wtask, deciding>>
    BY <1>20 DEF HandleError, Receive
  <2>2. /\ m.task \in Task /\ m.task \in Answered
        /\ Answered' \subseteq Answered \ {m.task} /\ OneAnswer(events')
    <3>1. m \in Message /\ m.task \in Tasks(events)
      BY <1>1, <2>1, TailOfEvents
    <3>2. /\ Tasks(Tail(events)) \subseteq Tasks(events)
          /\ m.task \notin Tasks(Tail(events)) /\ OneAnswer(Tail(events))
      BY <1>1, <2>1, TailOfEvents
    <3>3. m.task \in Task
      BY <3>1 DEF Message
    <3>4. Answered = Tasks(events) /\ Answered' = Tasks(Tail(events))
      BY <2>1 DEF Answered
    <3> HIDE DEF m
    <3> QED BY <2>1, <3>1, <3>2, <3>3, <3>4
  <2>3. e \in LedgerEvent /\ e.event = "task_failed" /\ e.task = m.task
    BY <2>2, EventTypes DEF TaskKinds, LedgerEvent
  <2>4. m.task \notin Settled(ledger)
    BY <1>1, <2>2 DEF Unsettled, InHand
  <2> HIDE DEF e
  <2>5. Settled(ledger') \subseteq Settled(ledger) \cup {m.task} /\ OneTerminalPerTask'
    BY <1>1, <2>1, <2>2, <2>3, <2>4, CommitTerminal DEF TerminalKinds
  <2>6. Once'
    BY <1>1, <2>1, <2>2 DEF Once, SoleHolders
  <2> HIDE DEF m
  <2>7. /\ Waiting' = Waiting /\ Sent' = Sent /\ Taken' = Taken /\ Judged' = Judged
    BY <2>1, SamePlaces
  <2>8. m.task \notin InHand'
    BY <1>1, <2>2, <2>7 DEF Apart, InHand
  <2>9. Apart' /\ Unsettled'
    BY <1>1, <2>2, <2>5, <2>7, <2>8, HandShrinks
  <2> QED BY <2>5, <2>6, <2>9 DEF Hand
<1>21. CASE HandleReceipt
  <2> DEFINE m == Head(events)
             e == TaskReceipt(m.task, attempt[m.task], m.outcome, m.tokens)
  <2>1. /\ events # << >> /\ events' = Tail(events) /\ m.kind = "finished"
        /\ m.outcome # "error" /\ Commit(e) /\ deciding'.task = m.task
        /\ pc = "loop"
        /\ UNCHANGED <<remaining, jobs, wtask>>
    BY <1>21 DEF HandleReceipt, Receive
  <2>2. m \in Message /\ m.task \in Tasks(events)
    BY <1>1, <2>1, TailOfEvents
  <2>3. /\ Tasks(Tail(events)) \subseteq Tasks(events)
        /\ m.task \notin Tasks(Tail(events)) /\ OneAnswer(Tail(events))
    BY <1>1, <2>1, TailOfEvents
  <2>4. m.task \in Task /\ m.outcome \in Outcome \cup {"none"} /\ m.tokens \in Nat
    BY <2>1, <2>2 DEF Message
  <2>5. e \in LedgerEvent /\ e.event = "task_receipt"
    <3>1. attempt[m.task] \in Nat
      BY <1>1, <2>4 DEF TypeOK
    <3> HIDE DEF m
    <3>2. e \in TaskEvent /\ e.event = "task_receipt"
      BY <2>4, <3>1, WrittenEvents
    <3> QED BY <3>2 DEF LedgerEvent
  <2> HIDE DEF e
  <2>6. Settled(ledger') = Settled(ledger) /\ OneTerminalPerTask'
    BY <1>1, <2>1, <2>5, CommitQuietly DEF TerminalKinds
  <2>7. Answered = Tasks(events) /\ Answered' = Tasks(Tail(events))
    BY <2>1 DEF Answered
  <2> HIDE DEF m
  <2>8. Once'
    <3>1. OneAnswer(events')
      BY <2>1, <2>3
    <3>2. Distinct(remaining') /\ Distinct(jobs') /\ SoleHolders'
      BY <1>1, <2>1 DEF SoleHolders
    <3> QED BY <3>1, <3>2 DEF Once
  <2>9. /\ Waiting' = Waiting /\ Sent' = Sent /\ Taken' = Taken
    BY <2>1, SamePlaces
  <2>10. Judged' = {m.task}
    BY <1>2, <2>1, <2>4 DEF Judged
  <2>11. Apart'
    BY <1>1, <2>2, <2>3, <2>7, <2>9, <2>10 DEF Apart
  <2>12. Unsettled'
    BY <1>1, <2>2, <2>3, <2>6, <2>7, <2>9, <2>10 DEF Unsettled, InHand
  <2> QED BY <2>6, <2>8, <2>11, <2>12 DEF Hand
<1>22. ASSUME pc = "decide"
       PROVE  /\ deciding.task \in Task /\ Judged = {deciding.task}
              /\ deciding.task \notin Settled(ledger)
              /\ deciding.task \notin Waiting \cup Sent \cup Taken \cup Answered
  <2>1. deciding.task \in Task /\ Judged = {deciding.task}
    BY <1>1, <1>2, <1>22, DecisionTypes DEF Judged
  <2> QED BY <1>1, <2>1 DEF Apart, Unsettled, InHand
\* The decided task leaves the hand with its terminal event.
<1>23. ASSUME pc = "decide", NEW e \in LedgerEvent, Commit(e), e.event \in TerminalKinds,
              e.task = deciding.task, deciding' = NoDecision,
              UNCHANGED <<remaining, jobs, wtask, events>>
       PROVE  Hand'
  <2>1. Settled(ledger') \subseteq Settled(ledger) \cup {deciding.task} /\ OneTerminalPerTask'
    BY <1>1, <1>22, <1>23, CommitTerminal
  <2>2. /\ Waiting' = Waiting /\ Sent' = Sent /\ Taken' = Taken /\ Answered' = Answered
        /\ Judged' = {}
    BY <1>23, SamePlaces
  <2>3. deciding.task \notin InHand'
    BY <1>22, <1>23, <2>2 DEF InHand
  <2>4. Apart' /\ Unsettled'
    BY <1>1, <2>1, <2>2, <2>3, HandShrinks
  <2>5. Once'
    BY <1>1, <1>23 DEF Once, SoleHolders
  <2> QED BY <2>1, <2>4, <2>5 DEF Hand
<1>24. CASE ApplyDone \/ ApplyGate \/ ApplyFail
  <2>1. /\ pc = "decide" /\ deciding' = NoDecision
        /\ UNCHANGED <<remaining, jobs, wtask, events>>
    BY <1>24 DEF ApplyDone, ApplyGate, ApplyFail
  <2>2. \E e \in LedgerEvent :
          Commit(e) /\ e.event \in TerminalKinds /\ e.task = deciding.task
    <3>1. deciding.task \in Task /\ deciding.outcome \in Outcome \cup {"none"}
      BY <1>1, <2>1 DEF TypeOK, Locals
    <3>2. \A kind \in {"task_gate", "task_failed"} :
            /\ OnTask(kind, deciding.task) \in LedgerEvent
            /\ OnTask(kind, deciding.task).event = kind
            /\ OnTask(kind, deciding.task).task = deciding.task
      BY <3>1, EventTypes DEF TaskKinds, LedgerEvent
    <3>3. /\ TaskDone(deciding.task, deciding.outcome) \in LedgerEvent
          /\ TaskDone(deciding.task, deciding.outcome).event = "task_done"
          /\ TaskDone(deciding.task, deciding.outcome).task = deciding.task
      BY <3>1, WrittenEvents DEF LedgerEvent
    <3> QED BY <1>24, <3>2, <3>3 DEF ApplyDone, ApplyGate, ApplyFail, TerminalKinds
  <2> QED BY <1>23, <2>1, <2>2
\* The decided task goes back to the queue.
<1>25. ASSUME pc = "decide", deciding' = NoDecision, UNCHANGED <<jobs, wtask, events>>,
              remaining' = Append(remaining, deciding.task),
              Settled(ledger') = Settled(ledger), OneTerminalPerTask'
       PROVE  Hand'
  <2>1. /\ Waiting' = Waiting \cup {deciding.task} /\ Distinct(remaining')
    BY <1>1, <1>22, <1>25, AppendToQueue DEF Waiting
  <2>2. /\ Sent' = Sent /\ Taken' = Taken /\ Answered' = Answered /\ Judged' = {}
    BY <1>25, SamePlaces
  <2>3. Apart'
    BY <1>1, <1>22, <1>25, <2>1, <2>2 DEF Apart
  <2>4. Unsettled'
    BY <1>1, <1>22, <1>25, <2>1, <2>2 DEF Unsettled, InHand
  <2>5. Once'
    BY <1>1, <1>25, <2>1 DEF Once, SoleHolders
  <2> QED BY <1>25, <2>3, <2>4, <2>5 DEF Hand
<1>26. CASE ApplyRetry
  BY <1>1, <1>25, <1>26 DEF ApplyRetry, OneTerminalPerTask
<1>27. CASE ApplyEscalate
  <2> DEFINE e == TaskEscalated(deciding.task, tier[deciding.task] + 1)
  <2>1. pc = "decide" /\ Commit(e)
    BY <1>27 DEF ApplyEscalate
  <2>2. deciding.task \in Task /\ tier[deciding.task] + 1 \in Nat
    BY <1>1, <1>22, <2>1 DEF TypeOK
  <2>3. e \in LedgerEvent /\ e.event = "task_escalated"
    BY <2>2, WrittenEvents DEF LedgerEvent
  <2> HIDE DEF e
  <2>4. Settled(ledger') = Settled(ledger) /\ OneTerminalPerTask'
    BY <1>1, <2>1, <2>3, CommitQuietly DEF TerminalKinds
  <2> QED BY <1>25, <1>27, <2>4 DEF ApplyEscalate
<1>28. CASE HaltOne
  <2> DEFINE t == Head(remaining)
             e == OnTask("task_failed", t)
  <2>1. /\ remaining # << >> /\ remaining' = Tail(remaining) /\ Commit(e)
        /\ UNCHANGED <<jobs, wtask, events, deciding>>
    BY <1>28 DEF HaltOne
  <2>2. /\ t \in Task /\ t \in Waiting /\ Waiting' = Waiting \ {t} /\ Distinct(remaining')
    BY <1>1, <2>1, TailOfQueue DEF Waiting
  <2>3. e \in LedgerEvent /\ e.event = "task_failed" /\ e.task = t
    BY <2>2, EventTypes DEF TaskKinds, LedgerEvent
  <2> HIDE DEF e, t
  <2>4. t \notin Settled(ledger)
    BY <1>1, <2>2 DEF Unsettled, InHand
  <2>5. Settled(ledger') \subseteq Settled(ledger) \cup {t} /\ OneTerminalPerTask'
    BY <1>1, <2>1, <2>2, <2>3, <2>4, CommitTerminal DEF TerminalKinds
  <2>6. /\ Sent' = Sent /\ Taken' = Taken /\ Answered' = Answered /\ Judged' = Judged
    BY <2>1, SamePlaces
  <2>7. t \notin InHand'
    BY <1>1, <2>2, <2>6 DEF Apart, InHand
  <2>8. Apart' /\ Unsettled'
    BY <1>1, <2>2, <2>5, <2>6, <2>7, HandShrinks
  <2>9. Once'
    BY <1>1, <2>1, <2>2 DEF Once, SoleHolders
  <2> QED BY <2>5, <2>8, <2>9 DEF Hand
<1>29. ASSUME NEW w \in Worker
       PROVE  /\ Offer(w) => Hand'
              /\ OfferFails(w) => Hand'
              /\ Heartbeat(w) => Hand'
              /\ Perform(w) => Hand'
              /\ Panic(w) \/ Leave(w) \/ Unwind(w) => Hand'
  <2>1. ASSUME jobs # << >>, jobs' = Tail(jobs)
        PROVE  /\ Head(jobs) \in Task /\ Head(jobs) \in Sent
               /\ Sent' = Sent \ {Head(jobs)} /\ Distinct(jobs')
    BY <1>1, <2>1, TailOfQueue DEF Sent
  <2>2. CASE Offer(w)
    <3> DEFINE t == Head(jobs)
               m == Tell("started", w, t)
    <3>1. /\ wpc[w] = "idle" /\ jobs # << >> /\ jobs' = Tail(jobs)
          /\ wtask' = [wtask EXCEPT ![w] = t]
          /\ events' = Append(events, m)
          /\ UNCHANGED <<ledger, remaining, deciding>>
      BY <2>2 DEF Offer
    <3>2. /\ t \in Task /\ t \in Sent /\ Sent' = Sent \ {t} /\ Distinct(jobs')
      BY <2>1, <3>1
    <3>3. m \in Message /\ m.kind # "finished"
      BY <3>2 DEF Tell, Message
    <3> HIDE DEF m, t
    <3>4. Answered' = Answered /\ OneAnswer(events')
      BY <1>1, <3>1, <3>3, AppendToEvents DEF Answered
    <3>5. t \notin Taken
      BY <1>1, <3>2 DEF Apart
    <3>6. wtask[w] = NoTask
      BY <1>1, <3>1 DEF Threads
    <3>7. Taken' = Taken \cup {t} /\ SoleHolders'
      BY <1>1, <3>1, <3>2, <3>5, <3>6, TakeTask
    <3>8. Waiting' = Waiting /\ Judged' = Judged
      BY <3>1, SamePlaces
    <3>9. Once'
      <4>1. Distinct(remaining')
        BY <1>1, <3>1
      <4> QED BY <3>2, <3>4, <3>7, <4>1 DEF Once
    <3>10. Apart'
      BY <1>1, <3>2, <3>4, <3>7, <3>8 DEF Apart
    <3>11. Unsettled' /\ OneTerminalPerTask'
      BY <1>1, <3>1, <3>2, <3>4, <3>7, <3>8 DEF Unsettled, InHand, OneTerminalPerTask
    <3> QED BY <3>9, <3>10, <3>11 DEF Hand
  <2>3. CASE OfferFails(w)
    <3> DEFINE t == Head(jobs)
               m == [Tell("finished", w, t) EXCEPT !.outcome = "error"]
    <3>1. /\ jobs # << >> /\ jobs' = Tail(jobs) /\ events' = Append(events, m)
          /\ UNCHANGED <<ledger, remaining, deciding, wtask>>
      BY <2>3 DEF OfferFails
    <3>2. /\ t \in Task /\ t \in Sent /\ Sent' = Sent \ {t} /\ Distinct(jobs')
      BY <2>1, <3>1
    <3>3. m \in Message /\ m.kind = "finished" /\ m.task = t
      BY <3>2 DEF Tell, Message
    <3>4. t \notin Answered
      BY <1>1, <3>2 DEF Apart
    <3> HIDE DEF m, t
    <3>5. Answered' = Answered \cup {t} /\ OneAnswer(events')
      BY <1>1, <3>1, <3>3, <3>4, AppendToEvents DEF Answered
    <3>6. Waiting' = Waiting /\ Judged' = Judged /\ Taken' = Taken
      BY <3>1, SamePlaces
    <3>7. Once'
      <4>1. Distinct(remaining') /\ SoleHolders'
        BY <1>1, <3>1 DEF SoleHolders
      <4> QED BY <3>2, <3>5, <4>1 DEF Once
    <3>8. Apart'
      BY <1>1, <3>2, <3>5, <3>6 DEF Apart
    <3>9. Unsettled' /\ OneTerminalPerTask'
      BY <1>1, <3>1, <3>2, <3>5, <3>6 DEF Unsettled, InHand, OneTerminalPerTask
    <3> QED BY <3>7, <3>8, <3>9 DEF Hand
  <2>4. CASE Heartbeat(w)
    <3> DEFINE m == Tell("heartbeat", w, wtask[w])
    <3>1. /\ wpc[w] = "running" /\ events' = Append(events, m)
          /\ UNCHANGED <<ledger, remaining, jobs, deciding, wtask>>
      BY <2>4 DEF Heartbeat
    <3>2. wtask[w] \in Task
      BY <1>1, <3>1 DEF Threads, TypeOK
    <3>3. m \in Message /\ m.kind # "finished"
      BY <3>2 DEF Tell, Message
    <3> HIDE DEF m
    <3>4. Answered' = Answered /\ OneAnswer(events')
      BY <1>1, <3>1, <3>3, AppendToEvents DEF Answered
    <3>5. Once'
      <4>1. Distinct(remaining') /\ Distinct(jobs') /\ SoleHolders'
        BY <1>1, <3>1 DEF SoleHolders
      <4> QED BY <3>4, <4>1 DEF Once
    <3> QED BY <1>1, <3>1, <3>4, <3>5, SamePlaces, HandLoses DEF Hand
  <2>5. CASE Perform(w)
    <3> DEFINE t == wtask[w]
    <3>1. PICK m \in Message : events' = Append(events, m) /\ m.kind = "finished" /\ m.task = t
      BY <1>1, <2>5, PerformAnswers
    <3>2. /\ t \in Task /\ wtask' = [wtask EXCEPT ![w] = NoTask]
          /\ UNCHANGED <<ledger, remaining, jobs, deciding>>
      BY <1>1, <2>5, PerformAnswers DEF Perform
    <3>3. Taken' = Taken \ {t} /\ t \in Taken /\ SoleHolders'
      BY <1>1, <1>2, <3>2, DropTask
    <3>4. t \notin Answered
      BY <1>1, <3>3 DEF Apart
    <3> HIDE DEF t
    <3>5. Answered' = Answered \cup {t} /\ OneAnswer(events')
      BY <1>1, <3>1, <3>4, AppendToEvents DEF Answered
    <3>6. Waiting' = Waiting /\ Sent' = Sent /\ Judged' = Judged
      BY <3>2, SamePlaces
    <3>7. Once'
      <4>1. Distinct(remaining') /\ Distinct(jobs')
        BY <1>1, <3>2
      <4> QED BY <3>3, <3>5, <4>1 DEF Once
    <3>8. Apart'
      BY <1>1, <3>3, <3>5, <3>6 DEF Apart
    <3>9. Unsettled' /\ OneTerminalPerTask'
      BY <1>1, <3>2, <3>3, <3>5, <3>6 DEF Unsettled, InHand, OneTerminalPerTask
    <3> QED BY <3>7, <3>8, <3>9 DEF Hand
  <2>6. CASE Panic(w) \/ Leave(w) \/ Unwind(w)
    <3>1. Taken' \subseteq Taken /\ SoleHolders'
      <4>1. CASE wtask' = wtask
        BY <1>1, <4>1, SamePlaces DEF SoleHolders
      <4>2. CASE wtask' = [wtask EXCEPT ![w] = NoTask]
        BY <1>1, <4>2, DropTask
      <4> QED BY <2>6, <4>1, <4>2 DEF Panic, Leave, Unwind
    <3>2. UNCHANGED <<ledger, remaining, jobs, events, deciding>>
      BY <2>6 DEF Panic, Leave, Unwind
    <3>3. Once'
      <4>1. Distinct(remaining') /\ Distinct(jobs') /\ OneAnswer(events')
        BY <1>1, <3>2
      <4> QED BY <3>1, <4>1 DEF Once
    <3> QED BY <1>1, <3>1, <3>2, <3>3, SamePlaces, HandLoses DEF Hand
  <2> QED BY <2>2, <2>3, <2>4, <2>5, <2>6
<1> QED
  BY <1>5, <1>6, <1>7, <1>9, <1>10, <1>11, <1>12, <1>14, <1>15, <1>17, <1>18, <1>19, <1>20,
     <1>21, <1>24, <1>26, <1>27, <1>28, <1>29 DEF Next

----------------------------------------------------------------------------
(* The theorems.                                                           *)

\* A first process starts in the invariant.
LEMMA InitInv == Init => Inv
<1> SUFFICES ASSUME Init PROVE Inv
  OBVIOUS
<1>1. /\ remaining = << >> /\ jobs = << >> /\ events = << >> /\ ledger = << >>
      /\ deciding = NoDecision /\ pc = "new"
      /\ wpc = [w \in Worker |-> "gone"] /\ wtask = [w \in Worker |-> NoTask]
  BY DEF Init
<1>2. TypeOK
  BY InitType
<1>3. Alone
  BY <1>1 DEF Alone, AllGone
<1>4. Threads
  BY <1>1 DEF Threads
<1>5. Settled(ledger) = {}
  BY <1>1 DEF Settled, At
<1>6. Locals
  BY <1>1, <1>5 DEF Locals, NoDecision
<1>7. Once
  BY <1>1 DEF Once, SoleHolders, Distinct, OneAnswer, Answers
<1>8. /\ Waiting = {} /\ Sent = {} /\ Taken = {} /\ Answered = {} /\ Judged = {}
  BY <1>1 DEF Waiting, Sent, Taken, Answered, Judged, Range, Tasks, Answers, NoDecision
<1>9. Apart /\ Unsettled
  BY <1>8 DEF Apart, Unsettled, InHand
<1>10. OneTerminalPerTask
  BY <1>1 DEF OneTerminalPerTask, SingleTerminal
<1> QED BY <1>2, <1>3, <1>4, <1>6, <1>7, <1>9, <1>10 DEF Inv

\* The invariant is inductive.
LEMMA StepInv == Inv /\ [Next]_vars => Inv'
<1>1. ASSUME Inv, Next
      PROVE  Inv'
  <2>1. TypeOK' /\ Alone' /\ Threads' /\ Locals'
    BY <1>1, TypeStep, AloneStep, ThreadsStep, LocalsStep DEF Inv
  <2>2. Hand'
    BY <1>1, HandStep
  <2> QED BY <2>1, <2>2 DEF Inv, Hand
<1>2. ASSUME Inv, UNCHANGED vars
      PROVE  Inv'
  <2>1. UNCHANGED <<ledger, torn, index, pc, remaining, active, halted, counts, scan, deciding,
                    tier, attempt, jobs, events, workers, wpc, wtask, strays>>
    BY <1>2 DEF vars, durable, sched, pool, env
  <2>2. TypeOK'
    BY <1>2, <2>1 DEF Inv, TypeOK
  <2>3. Alone' /\ Threads' /\ Locals'
    BY <1>2, <2>1 DEF Inv, Alone, AllGone, Threads, Locals
  <2>4. Once' /\ OneTerminalPerTask'
    BY <1>2, <2>1 DEF Inv, Once, SoleHolders, OneTerminalPerTask
  <2>5. Apart' /\ Unsettled'
    BY <1>2, <2>1, SamePlaces DEF Inv, Apart, Unsettled, InHand
  <2> QED BY <2>2, <2>3, <2>4, <2>5 DEF Inv
<1> QED BY <1>1, <1>2

\* In every reachable state of a run, of any number of processes that take it,
\* each task in hand is in one place and unsettled, and no task has ended twice.
THEOREM Invariance == Spec => []Inv
BY InitInv, StepInv, PTL DEF Spec

(* The coordinator and its workers never leave the ranges of their         *)
(* variables, whatever the number of tasks, tiers and workers.             *)
THEOREM TypeCorrect == Spec => []TypeOK
<1>1. Inv => TypeOK
  BY DEF Inv
<1> QED BY Invariance, <1>1, PTL

(* No ledger ever holds two terminal events of a task, through any number  *)
(* of crashes, failed appends, panics and resumes: ensure_single_terminal  *)
(* of ledger.rs refuses no ledger this program has written.                *)
THEOREM SingleEnd == Spec => []OneTerminalPerTask
<1>1. Inv => OneTerminalPerTask
  BY DEF Inv
<1> QED BY Invariance, <1>1, PTL

(* When a process writes run_finished or run_failed, or lets the run lock  *)
(* go, it has no worker thread left.                                       *)
THEOREM LockHeldToTheEnd == Spec => []LockCoversWorkers
<1>1. Inv => LockCoversWorkers
  BY DEF Inv, Alone, Single, LockCoversWorkers
<1> QED BY Invariance, <1>1, PTL

----------------------------------------------------------------------------
(* The ledger as a record of the run: nothing follows the end of a task,   *)
(* and a task that runs has its start, tier and attempt in the file.  The  *)
(* invariant is RecordInv; Inv holds beside it already.                    *)


----------------------------------------------------------------------------
(* Heartbeats in the event channel.                                        *)

\* Receiving an event: no heartbeat is left behind the answer of its task.
LEMMA TailOfBeats ==
  ASSUME NEW q \in Seq(Message), q # << >>
  PROVE  /\ Beating(Tail(q)) \subseteq Beating(q)
         /\ Head(q).kind = "heartbeat" => Head(q).task \in Beating(q)
         /\ BeatsFirst(q) =>
              /\ BeatsFirst(Tail(q))
              /\ Head(q).kind = "finished" => Head(q).task \notin Beating(Tail(q))
<1>1. /\ Head(q) = q[1]
      /\ Len(q) \in Nat \ {0}
      /\ DOMAIN q = 1 .. Len(q)
      /\ DOMAIN Tail(q) = 1 .. Len(q) - 1
      /\ \A i \in 1 .. Len(q) - 1 : Tail(q)[i] = q[i + 1]
  BY HeadTailProperties, EmptySeq, LenProperties
<1>2. \A i \in Pulses(Tail(q)) : i \in Nat \ {0} /\ i + 1 \in Pulses(q) /\ Tail(q)[i] = q[i + 1]
  BY <1>1 DEF Pulses
<1>3. \A i \in Answers(Tail(q)) : i \in Nat \ {0} /\ i + 1 \in Answers(q) /\ Tail(q)[i] = q[i + 1]
  BY <1>1 DEF Answers
<1>4. Beating(Tail(q)) \subseteq Beating(q)
  BY <1>2 DEF Beating
<1>5. Head(q).kind = "heartbeat" => Head(q).task \in Beating(q)
  BY <1>1 DEF Beating, Pulses
<1>6. ASSUME BeatsFirst(q)
      PROVE  BeatsFirst(Tail(q))
  <2> SUFFICES ASSUME NEW i \in Pulses(Tail(q)), NEW j \in Answers(Tail(q)),
                      Tail(q)[i].task = Tail(q)[j].task
               PROVE  i < j
    BY DEF BeatsFirst
  <2>1. i + 1 < j + 1
    BY <1>2, <1>3, <1>6 DEF BeatsFirst
  <2> QED BY <1>2, <1>3, <2>1
<1>7. ASSUME BeatsFirst(q), Head(q).kind = "finished"
      PROVE  Head(q).task \notin Beating(Tail(q))
  <2>1. 1 \in Answers(q)
    BY <1>1, <1>7 DEF Answers
  <2>2. ASSUME NEW i \in Pulses(Tail(q)), Tail(q)[i].task = Head(q).task
        PROVE  FALSE
    <3>1. i + 1 < 1
      BY <1>1, <1>2, <1>7, <2>1, <2>2 DEF BeatsFirst
    <3> QED BY <1>2, <3>1
  <2> QED BY <2>2 DEF Beating
<1> QED BY <1>4, <1>5, <1>6, <1>7

\* Sending an event: a heartbeat joins in front of no answer about its task.
LEMMA AppendToBeats ==
  ASSUME NEW q \in Seq(Message), NEW m \in Message
  PROVE  /\ m.kind # "heartbeat" => /\ Beating(Append(q, m)) = Beating(q)
                                    /\ BeatsFirst(q) => BeatsFirst(Append(q, m))
         /\ m.kind = "heartbeat" =>
              /\ Beating(Append(q, m)) = Beating(q) \cup {m.task}
              /\ BeatsFirst(q) /\ m.task \notin Tasks(q) => BeatsFirst(Append(q, m))
<1>1. /\ DOMAIN q = 1 .. Len(q)
      /\ DOMAIN Append(q, m) = 1 .. Len(q) + 1
      /\ Len(q) \in Nat
      /\ \A i \in 1 .. Len(q) : Append(q, m)[i] = q[i]
      /\ Append(q, m)[Len(q) + 1] = m
  OBVIOUS
<1>2. ASSUME m.kind # "heartbeat"
      PROVE  Pulses(Append(q, m)) = Pulses(q)
  BY <1>1, <1>2 DEF Pulses
<1>3. ASSUME m.kind = "heartbeat"
      PROVE  Pulses(Append(q, m)) = Pulses(q) \cup {Len(q) + 1}
  BY <1>1, <1>3 DEF Pulses
<1>4. \A i \in Pulses(q) : i \in 1 .. Len(q) /\ Append(q, m)[i] = q[i]
  BY <1>1 DEF Pulses
<1>5. \A j \in Answers(Append(q, m)) : j \in Answers(q) \/ (j = Len(q) + 1 /\ m.kind = "finished")
  BY <1>1 DEF Answers
<1>6. \A j \in Answers(q) : j \in 1 .. Len(q) /\ Append(q, m)[j] = q[j]
  BY <1>1 DEF Answers
<1>7. ASSUME m.kind # "heartbeat"
      PROVE  /\ Beating(Append(q, m)) = Beating(q)
             /\ BeatsFirst(q) => BeatsFirst(Append(q, m))
  <2>1. Beating(Append(q, m)) = Beating(q)
    BY <1>2, <1>4, <1>7 DEF Beating
  <2>2. ASSUME BeatsFirst(q), NEW i \in Pulses(q), NEW j \in Answers(Append(q, m)),
               Append(q, m)[i].task = Append(q, m)[j].task
        PROVE  i < j
    BY <1>1, <1>4, <1>5, <1>6, <2>2 DEF BeatsFirst
  <2> QED BY <1>2, <1>7, <2>1, <2>2 DEF BeatsFirst
<1>8. ASSUME m.kind = "heartbeat"
      PROVE  /\ Beating(Append(q, m)) = Beating(q) \cup {m.task}
             /\ BeatsFirst(q) /\ m.task \notin Tasks(q) => BeatsFirst(Append(q, m))
  <2>1. Beating(Append(q, m)) = Beating(q) \cup {m.task}
    BY <1>1, <1>3, <1>4, <1>8 DEF Beating
  <2>2. ASSUME BeatsFirst(q), m.task \notin Tasks(q),
               NEW i \in Pulses(Append(q, m)), NEW j \in Answers(Append(q, m)),
               Append(q, m)[i].task = Append(q, m)[j].task
        PROVE  i < j
    <3>1. j \in Answers(q) /\ q[j].task # m.task
      BY <1>5, <1>6, <1>8, <2>2 DEF Tasks
    <3>2. i \in Pulses(q)
      BY <1>1, <1>3, <1>6, <1>8, <2>2, <3>1
    <3> QED BY <1>4, <1>6, <2>2, <3>1, <3>2 DEF BeatsFirst
  <2> QED BY <2>1, <2>2 DEF BeatsFirst
<1> QED BY <1>7, <1>8

----------------------------------------------------------------------------
(* Where the steps move tasks to.                                          *)

\* Receiving an answer takes its task, and no other, out of the channel.
LEMMA AnswerTaken ==
  ASSUME NEW q \in Seq(Message), q # << >>, OneAnswer(q)
  PROVE  Tasks(Tail(q)) = IF Head(q).kind = "finished" THEN Tasks(q) \ {Head(q).task}
                                                       ELSE Tasks(q)
<1>1. /\ Head(q) = q[1]
      /\ Len(q) \in Nat \ {0}
      /\ DOMAIN q = 1 .. Len(q)
      /\ DOMAIN Tail(q) = 1 .. Len(q) - 1
      /\ \A i \in 1 .. Len(q) - 1 : Tail(q)[i] = q[i + 1]
  BY HeadTailProperties, EmptySeq, LenProperties
<1>2. \A i \in Answers(q) : i # 1 => i - 1 \in Answers(Tail(q)) /\ Tail(q)[i - 1] = q[i]
  BY <1>1 DEF Answers
<1>3. 1 \in Answers(q) <=> Head(q).kind = "finished"
  BY <1>1 DEF Answers
<1>4. ASSUME NEW t \in Tasks(q)
      PROVE  t \in Tasks(Tail(q)) \/ (Head(q).kind = "finished" /\ t = Head(q).task)
  <2>1. PICK i \in Answers(q) : t = q[i].task
    BY DEF Tasks
  <2>2. CASE i = 1
    BY <1>1, <1>3, <2>1, <2>2
  <2>3. CASE i # 1
    BY <1>2, <2>1, <2>3 DEF Tasks
  <2> QED BY <2>2, <2>3
<1>5. /\ Tasks(Tail(q)) \subseteq Tasks(q)
      /\ Head(q).kind = "finished" => Head(q).task \notin Tasks(Tail(q))
  BY TailOfEvents
<1> QED BY <1>4, <1>5

\* What the sequences and the decision of a reachable state are.
LEMMA Ranges ==
  ASSUME Inv
  PROVE  /\ TypeOK /\ Locals /\ Threads
         /\ Distinct(remaining) /\ Distinct(jobs) /\ SoleHolders /\ OneAnswer(events)
         /\ remaining \in Seq(Task) /\ jobs \in Seq(Task) /\ events \in Seq(Message)
         /\ ledger \in Seq(LedgerEvent)
         /\ NoTask \notin Task /\ NoDecision.task = NoTask
         /\ pc = "decide" => deciding.task \in Task /\ Judged = {deciding.task}
         /\ pc # "decide" => Judged = {}
         /\ \A w \in Worker : wpc[w] \in {"offered", "running"} =>
              wtask[w] \in Task /\ wtask[w] \in Taken
<1>1. /\ TypeOK /\ Locals /\ Threads /\ Once
      /\ remaining \in Seq(Task) /\ jobs \in Seq(Task) /\ events \in Seq(Message)
      /\ ledger \in Seq(LedgerEvent)
  BY DEF Inv, TypeOK
<1>2. NoTask \notin Task /\ NoDecision.task = NoTask
  BY LedgerAssumption DEF NoTask, Task, NoDecision
<1>3. pc = "decide" => deciding.task \in Task /\ Judged = {deciding.task}
  BY <1>1, <1>2 DEF TypeOK, Locals, Judged
<1>4. pc # "decide" => Judged = {}
  BY <1>1 DEF Locals, Judged
<1>5. \A w \in Worker : wpc[w] \in {"offered", "running"} =>
        wtask[w] \in Task /\ wtask[w] \in Taken
  BY <1>1 DEF TypeOK, Threads, Taken, Range
<1> QED BY <1>1, <1>2, <1>3, <1>4, <1>5 DEF Once

\* Receiving an event of the channel.
LEMMA ReceiveMoves ==
  ASSUME Inv, events # << >>, events' = Tail(events)
  PROVE  /\ Head(events) \in Message /\ Head(events).task \in Task
         /\ Head(events).worker \in Worker
         /\ IF Head(events).kind = "finished"
            THEN /\ Head(events).task \in Answered
                 /\ Answered' = Answered \ {Head(events).task}
            ELSE Answered' = Answered
  BY Ranges, AnswerTaken, TailOfEvents DEF Answered, Message

\* A step that leaves the places of the tasks alone.
LEMMA StillPlaces ==
  ASSUME UNCHANGED <<remaining, jobs, wtask, events, deciding>>
  PROVE  /\ Waiting' = Waiting /\ Sent' = Sent /\ Taken' = Taken
         /\ Answered' = Answered /\ Judged' = Judged
  BY SamePlaces

\* Sending a task to the workers.
LEMMA SendMoves ==
  ASSUME Inv, DispatchSend
  PROVE  /\ Head(remaining) \in Waiting
         /\ Waiting' = Waiting \ {Head(remaining)} /\ Sent' = Sent \cup {Head(remaining)}
         /\ Taken' = Taken /\ Answered' = Answered /\ Judged' = Judged
<1>1. /\ Waiting' = Waiting \ {Head(remaining)} /\ Head(remaining) \in Waiting
      /\ Head(remaining) \in Task
  BY Ranges, TailOfQueue DEF DispatchSend, Waiting
<1>2. Sent' = Sent \cup {Head(remaining)}
  BY Ranges, <1>1, AppendToQueue DEF DispatchSend, Sent
<1> QED BY <1>1, <1>2, SamePlaces DEF DispatchSend

\* Parking a task that may not be sent yet.
LEMMA ParkMoves ==
  ASSUME Inv, DispatchPark
  PROVE  /\ Waiting' = Waiting /\ Sent' = Sent /\ Taken' = Taken
         /\ Answered' = Answered /\ Judged' = Judged
<1>1. Waiting' = Waiting
  BY Ranges, RotatedQueue DEF DispatchPark, Waiting
<1> QED BY <1>1, SamePlaces DEF DispatchPark, pool

\* Handling a start or a heartbeat.
LEMMA NoticeMoves ==
  ASSUME Inv, HandleStarted \/ HandleHeartbeat
  PROVE  /\ Waiting' = Waiting /\ Sent' = Sent /\ Taken' = Taken
         /\ Answered' = Answered /\ Judged' = Judged
<1>1. events # << >> /\ events' = Tail(events) /\ Head(events).kind # "finished"
  BY DEF HandleStarted, HandleHeartbeat, Receive
<1> QED BY <1>1, ReceiveMoves, SamePlaces DEF HandleStarted, HandleHeartbeat

\* Handling the answer of a worker that failed.
LEMMA ErrorMoves ==
  ASSUME Inv, HandleError
  PROVE  /\ Head(events).task \in Answered /\ Answered' = Answered \ {Head(events).task}
         /\ Waiting' = Waiting /\ Sent' = Sent /\ Taken' = Taken /\ Judged' = Judged
<1>1. events # << >> /\ events' = Tail(events) /\ Head(events).kind = "finished"
  BY DEF HandleError, Receive
<1> QED BY <1>1, ReceiveMoves, SamePlaces DEF HandleError

\* Handling a receipt, which leaves its task to be decided.
LEMMA ReceiptMoves ==
  ASSUME Inv, HandleReceipt
  PROVE  /\ Head(events).task \in Answered /\ Answered' = Answered \ {Head(events).task}
         /\ Judged = {} /\ Judged' = {Head(events).task}
         /\ Waiting' = Waiting /\ Sent' = Sent /\ Taken' = Taken
<1>1. /\ events # << >> /\ events' = Tail(events) /\ Head(events).kind = "finished"
      /\ pc = "loop"
  BY DEF HandleReceipt, Receive
<1>2. Head(events).task \in Task
  BY <1>1, ReceiveMoves
<1>3. Judged' = {Head(events).task}
  BY <1>2, Ranges DEF HandleReceipt, Judged
<1> QED BY <1>1, <1>3, ReceiveMoves, Ranges, SamePlaces DEF HandleReceipt

\* Deciding that a task is at its end.
LEMMA EndMoves ==
  ASSUME Inv, ApplyDone \/ ApplyGate \/ ApplyFail
  PROVE  /\ Judged = {deciding.task} /\ deciding.task \in Task /\ Judged' = {}
         /\ Waiting' = Waiting /\ Sent' = Sent /\ Taken' = Taken /\ Answered' = Answered
  BY Ranges, SamePlaces DEF ApplyDone, ApplyGate, ApplyFail, pool

\* Deciding that a task goes on, on its tier or the next.
LEMMA AgainMoves ==
  ASSUME Inv, ApplyRetry \/ ApplyEscalate
  PROVE  /\ Judged = {deciding.task} /\ deciding.task \in Task
         /\ Judged' = {} /\ Waiting' = Waiting \cup {deciding.task}
         /\ Sent' = Sent /\ Taken' = Taken /\ Answered' = Answered
<1>1. pc = "decide" /\ remaining' = Append(remaining, deciding.task)
  BY DEF ApplyRetry, ApplyEscalate
<1>2. Waiting' = Waiting \cup {deciding.task}
  BY Ranges, <1>1, AppendToQueue DEF Waiting
<1> QED BY Ranges, <1>1, <1>2, SamePlaces DEF ApplyRetry, ApplyEscalate, pool

\* Ending a task that is left when the budget is spent.
LEMMA HaltMoves ==
  ASSUME Inv, HaltOne
  PROVE  /\ Head(remaining) \in Waiting /\ Head(remaining) \in Task
         /\ Waiting' = Waiting \ {Head(remaining)}
         /\ Sent' = Sent /\ Taken' = Taken /\ Answered' = Answered /\ Judged' = Judged
<1>1. /\ Waiting' = Waiting \ {Head(remaining)} /\ Head(remaining) \in Waiting
      /\ Head(remaining) \in Task
  BY Ranges, TailOfQueue DEF HaltOne, Waiting
<1> QED BY <1>1, SamePlaces DEF HaltOne, pool

\* Taking a job from the channel.
LEMMA JobMoves ==
  ASSUME Inv, jobs # << >>, jobs' = Tail(jobs)
  PROVE  Head(jobs) \in Task /\ Head(jobs) \in Sent /\ Sent' = Sent \ {Head(jobs)}
  BY Ranges, TailOfQueue DEF Sent

\* A worker takes a job and announces it.
LEMMA OfferMoves ==
  ASSUME Inv, NEW w \in Worker, Offer(w)
  PROVE  /\ Head(jobs) \in Sent /\ Sent' = Sent \ {Head(jobs)}
         /\ Head(jobs) \in Task /\ Taken' = Taken \cup {Head(jobs)}
         /\ Waiting' = Waiting /\ Answered' = Answered /\ Judged' = Judged
         /\ Beating(events') = Beating(events)
<1> DEFINE m == Tell("started", w, Head(jobs))
<1>1. /\ wpc[w] = "idle" /\ jobs # << >> /\ jobs' = Tail(jobs)
      /\ events' = Append(events, m)
      /\ wtask' = [wtask EXCEPT ![w] = Head(jobs)]
  BY DEF Offer
<1>2. Head(jobs) \in Task /\ Head(jobs) \in Sent /\ Sent' = Sent \ {Head(jobs)}
  BY <1>1, JobMoves
<1>3. m \in Message /\ m.kind = "started"
  BY <1>2 DEF Tell, Message
<1>4. Answered' = Answered /\ Beating(events') = Beating(events)
  BY Ranges, <1>1, <1>3, AppendToEvents, AppendToBeats DEF Answered
<1>5. wtask[w] = NoTask
  BY Ranges, <1>1 DEF Threads
<1>6. Taken' = Taken \cup {Head(jobs)}
  BY Ranges, <1>1, <1>2, <1>5, TakeTask
<1> QED BY <1>2, <1>4, <1>6, SamePlaces DEF Offer, sched

\* A worker takes a job whose announcement fails.
LEMMA FailedOfferMoves ==
  ASSUME Inv, NEW w \in Worker, OfferFails(w)
  PROVE  /\ Head(jobs) \in Sent /\ Sent' = Sent \ {Head(jobs)}
         /\ Answered' = Answered \cup {Head(jobs)}
         /\ Waiting' = Waiting /\ Taken' = Taken /\ Judged' = Judged
         /\ Beating(events') = Beating(events)
<1> DEFINE m == [Tell("finished", w, Head(jobs)) EXCEPT !.outcome = "error"]
<1>1. jobs # << >> /\ jobs' = Tail(jobs) /\ events' = Append(events, m)
  BY DEF OfferFails
<1>2. Head(jobs) \in Task /\ Head(jobs) \in Sent /\ Sent' = Sent \ {Head(jobs)}
  BY <1>1, JobMoves
<1>3. m \in Message /\ m.kind = "finished" /\ m.task = Head(jobs)
  BY <1>2 DEF Tell, Message
<1> HIDE DEF m
<1>4. Answered' = Answered \cup {Head(jobs)} /\ Beating(events') = Beating(events)
  BY Ranges, <1>1, <1>3, AppendToEvents, AppendToBeats DEF Answered
<1> QED BY <1>2, <1>4, SamePlaces DEF OfferFails, sched

\* A worker announces that it is still running.
LEMMA HeartbeatMoves ==
  ASSUME Inv, NEW w \in Worker, Heartbeat(w)
  PROVE  /\ wtask[w] \in Task /\ wtask[w] \in Taken
         /\ Beating(events') = Beating(events) \cup {wtask[w]}
         /\ Waiting' = Waiting /\ Sent' = Sent /\ Taken' = Taken
         /\ Answered' = Answered /\ Judged' = Judged
<1> DEFINE m == Tell("heartbeat", w, wtask[w])
<1>1. wpc[w] = "running" /\ events' = Append(events, m)
  BY DEF Heartbeat
<1>2. m \in Message /\ m.kind = "heartbeat" /\ m.task = wtask[w]
  BY Ranges, <1>1 DEF Tell, Message
<1> HIDE DEF m
<1>3. Answered' = Answered /\ Beating(events') = Beating(events) \cup {wtask[w]}
  BY Ranges, <1>1, <1>2, AppendToEvents, AppendToBeats DEF Answered
<1> QED BY Ranges, <1>1, <1>3, SamePlaces DEF Heartbeat, sched

\* A worker answers.
LEMMA PerformMoves ==
  ASSUME Inv, NEW w \in Worker, Perform(w)
  PROVE  /\ wtask[w] \in Task /\ wtask[w] \in Taken /\ Taken' = Taken \ {wtask[w]}
         /\ Answered' = Answered \cup {wtask[w]}
         /\ Waiting' = Waiting /\ Sent' = Sent /\ Judged' = Judged
         /\ Beating(events') = Beating(events)
<1>1. PICK m \in Message : /\ events' = Append(events, m)
                           /\ m.kind = "finished"
                           /\ m.task = wtask[w]
  BY Ranges, PerformAnswers
<1>2. Answered' = Answered \cup {wtask[w]} /\ Beating(events') = Beating(events)
  BY Ranges, <1>1, AppendToEvents, AppendToBeats DEF Answered
<1>3. wpc[w] = "running" /\ Taken' = Taken \ {wtask[w]}
  BY Ranges, DropTask DEF Perform
<1> QED BY Ranges, <1>2, <1>3, SamePlaces DEF Perform, sched

\* A worker panics, unwinds or leaves.
LEMMA QuitMoves ==
  ASSUME Inv, NEW w \in Worker, Panic(w) \/ Unwind(w) \/ Leave(w)
  PROVE  /\ Taken' \subseteq Taken /\ events' = events
         /\ Waiting' = Waiting /\ Sent' = Sent /\ Answered' = Answered /\ Judged' = Judged
<1>1. CASE Panic(w) \/ Unwind(w)
  <2>1. Taken' = Taken \ {wtask[w]}
    BY Ranges, <1>1, DropTask DEF Panic, Unwind
  <2> QED BY <1>1, <2>1, SamePlaces DEF Panic, Unwind, sched
<1>2. CASE Leave(w)
  BY <1>2, SamePlaces DEF Leave, sched
<1> QED BY <1>1, <1>2

----------------------------------------------------------------------------
(* What a step writes.                                                     *)

\* The one line a step may add is the one the coordinator is about to write.
Written(e) == ledger' = Append(ledger, IF torn THEN OnRun("corrupt") ELSE e)

\* A step appends at most that line.
LEMMA LedgerGrows ==
  ASSUME Next
  PROVE  ledger' = ledger \/ \E e \in Pending : Written(e)
<1> USE DEF durable, sched, pool, env, Written, Commit
<1>1. CASE StartRun \/ RecordFailure
  BY <1>1 DEF StartRun, RecordFailure, Pending
<1>2. CASE QueueTask
  BY <1>2 DEF QueueTask, Pending
<1>3. CASE HandleStarted \/ HandleHeartbeat
  BY <1>3 DEF HandleStarted, HandleHeartbeat, Receive, Pending
<1>4. CASE HandleError \/ HandleReceipt
  BY <1>4 DEF HandleError, HandleReceipt, Receive, Pending
<1>5. CASE ApplyDone \/ ApplyEscalate \/ ApplyGate \/ ApplyFail
  BY <1>5 DEF ApplyDone, ApplyEscalate, ApplyGate, ApplyFail, Pending
<1>6. CASE HaltOne
  BY <1>6 DEF HaltOne, Pending
<1>7. CASE Finish
  BY <1>7 DEF Finish, Pending
<1>8. CASE AppendError \/ RecordFailureError
  BY <1>8 DEF AppendError, RecordFailureError, Botched
<1>9. CASE Launch \/ Announce \/ DispatchSend \/ DispatchPark \/ DispatchDone \/ WakeUp \/ PoolLost
           \/ ApplyRetry \/ HaltDone \/ LeaveLoop \/ JoinPool \/ FinishIndex
  BY <1>9 DEF Launch, Announce, DispatchSend, DispatchPark, DispatchDone, WakeUp, PoolLost,
              ApplyRetry, HaltDone, LeaveLoop, JoinPool, FinishIndex
<1>10. CASE IndexError \/ PreflightError \/ SpawnFails \/ AbortJoined \/ Crash \/ ResumeRefused
            \/ ResumeFinished \/ ResumeRun \/ ClockTurns \/ StrayLeaves \/ Stopped
  BY <1>10 DEF IndexError, PreflightError, SpawnFails, AbortJoined, Crash, ResumeRefused,
      ResumeFinished, ResumeRun, Reopen, ClockTurns, StrayLeaves, Stopped, vars
<1>11. ASSUME NEW w \in Worker
       PROVE  Offer(w) \/ OfferFails(w) \/ Heartbeat(w) \/ Perform(w) \/ Panic(w) \/ Leave(w)
                \/ Unwind(w) => ledger' = ledger
  BY DEF Offer, OfferFails, Heartbeat, Perform, Panic, Leave, Unwind
<1> QED
  BY <1>1, <1>2, <1>3, <1>4, <1>5, <1>6, <1>7, <1>8, <1>9, <1>10, <1>11 DEF Next

\* Torn bytes are left behind by a process that ends, and gone when the next begins.
LEMMA WholeStep ==
  ASSUME Whole, Next
  PROVE  Whole'
<1> USE DEF Whole, durable, sched, pool, env, Commit
<1>1. CASE StartRun \/ QueueTask \/ HandleStarted \/ HandleHeartbeat \/ HandleError
           \/ HandleReceipt
  BY <1>1 DEF StartRun, QueueTask, HandleStarted, HandleHeartbeat, HandleError, HandleReceipt
<1>2. CASE ApplyDone \/ ApplyEscalate \/ ApplyGate \/ ApplyFail \/ HaltOne \/ Finish
           \/ RecordFailure
  BY <1>2 DEF ApplyDone, ApplyEscalate, ApplyGate, ApplyFail, HaltOne, Finish, RecordFailure
<1>3. CASE ApplyRetry
  BY <1>3 DEF ApplyRetry
<1>4. CASE AppendError \/ RecordFailureError \/ IndexError \/ PoolLost
  BY <1>4 DEF AppendError, RecordFailureError, IndexError, PoolLost, Abandon
<1>5. CASE Launch \/ Announce \/ DispatchSend \/ DispatchPark \/ DispatchDone \/ WakeUp
           \/ HaltDone \/ LeaveLoop \/ JoinPool \/ FinishIndex
  BY <1>5 DEF Launch, Announce, DispatchSend, DispatchPark, DispatchDone, WakeUp,
              HaltDone, LeaveLoop, JoinPool, FinishIndex
<1>6. CASE PreflightError \/ SpawnFails \/ AbortJoined \/ Crash \/ ResumeRefused
            \/ ResumeFinished \/ ResumeRun \/ ClockTurns \/ StrayLeaves \/ Stopped
  BY <1>6 DEF PreflightError, SpawnFails, AbortJoined, Crash, ResumeRefused, ResumeFinished,
      ResumeRun, Reopen, ClockTurns, StrayLeaves, Stopped, vars
<1>7. ASSUME NEW w \in Worker
      PROVE  Offer(w) \/ OfferFails(w) \/ Heartbeat(w) \/ Perform(w) \/ Panic(w) \/ Leave(w)
               \/ Unwind(w) => UNCHANGED <<torn, pc>>
  BY DEF Offer, OfferFails, Heartbeat, Perform, Panic, Leave, Unwind
<1> QED
  BY <1>1, <1>2, <1>3, <1>4, <1>5, <1>6, <1>7 DEF Next

----------------------------------------------------------------------------
(* The events in the channel.                                              *)

\* An offer that is out keeps its task while its thread waits for the answer.
LEMMA OffersStep ==
  ASSUME Inv, Offers, Next
  PROVE  Offers'
<1> USE DEF durable, sched, pool, env
<1> DEFINE true(q, held) ==
      \A i \in DOMAIN q : q[i].kind = "started" => q[i].task = held[q[i].worker]
<1>1. true(events, wtask) /\ (Offers' <=> true(events', wtask'))
  BY DEF Offers
<1>2. /\ events \in Seq(Message)
      /\ wtask \in [Worker -> Task \cup {NoTask}]
      /\ \A i \in DOMAIN events : events[i].kind = "started" => wpc[events[i].worker] = "offered"
      /\ \A i \in DOMAIN events : events[i].worker \in Worker
  <2>1. \A i \in DOMAIN events : events[i] \in Message
    BY Ranges
  <2> QED BY Ranges, <2>1 DEF TypeOK, Threads, Message
<1>3. CASE UNCHANGED <<events, wtask>>
  BY <1>1, <1>3
<1>4. CASE events' = << >>
  BY <1>1, <1>4
<1>5. ASSUME events # << >>, events' = Tail(events), wtask' = wtask
      PROVE  true(events', wtask')
  <2>1. \A i \in DOMAIN events' : i + 1 \in DOMAIN events /\ events'[i] = events[i + 1]
    BY <1>2, <1>5, HeadTailProperties, EmptySeq, LenProperties
  <2> QED BY <1>1, <1>5, <2>1
<1>6. ASSUME NEW w \in Worker, wpc[w] # "offered",
             \A v \in Worker : v # w => wtask'[v] = wtask[v]
      PROVE  true(events, wtask')
  BY <1>1, <1>2, <1>6
<1>7. ASSUME NEW m \in Message, events' = Append(events, m), true(events, wtask'),
             m.kind = "started" => m.task = wtask'[m.worker]
      PROVE  true(events', wtask')
  <2>1. \A i \in DOMAIN events' : \/ i \in DOMAIN events /\ events'[i] = events[i]
                                  \/ events'[i] = m
    BY <1>2, <1>7
  <2> QED BY <1>7, <2>1
<1> HIDE DEF true
<1>8. CASE HandleStarted \/ HandleHeartbeat \/ HandleError \/ HandleReceipt
  BY <1>1, <1>5, <1>8 DEF HandleStarted, HandleHeartbeat, HandleError, HandleReceipt, Receive
<1>9. ASSUME NEW w \in Worker, Offer(w)
      PROVE  Offers'
  <2> DEFINE m == Tell("started", w, Head(jobs))
  <2>1. wpc[w] = "idle" /\ events' = Append(events, m) /\ wtask' = [wtask EXCEPT ![w] = Head(jobs)]
    BY <1>9 DEF Offer
  <2>2. Head(jobs) \in Task
    BY <1>9, OfferMoves
  <2>3. m \in Message /\ m.task = Head(jobs) /\ m.worker = w
    BY <2>2 DEF Tell, Message
  <2>4. true(events, wtask')
    BY <1>2, <1>6, <2>1
  <2>5. m.task = wtask'[m.worker]
    BY <1>2, <2>1, <2>3
  <2> QED BY <1>1, <1>7, <2>1, <2>3, <2>4, <2>5
<1>10. ASSUME NEW w \in Worker, OfferFails(w)
       PROVE  Offers'
  <2> DEFINE m == [Tell("finished", w, Head(jobs)) EXCEPT !.outcome = "error"]
  <2>1. events' = Append(events, m) /\ wtask' = wtask /\ jobs # << >> /\ jobs' = Tail(jobs)
    BY <1>10 DEF OfferFails
  <2>2. m \in Message /\ m.kind = "finished"
    BY <2>1, JobMoves DEF Tell, Message
  <2> HIDE DEF m
  <2> QED BY <1>1, <1>7, <2>1, <2>2
<1>11. ASSUME NEW w \in Worker, Heartbeat(w)
       PROVE  Offers'
  <2> DEFINE m == Tell("heartbeat", w, wtask[w])
  <2>1. events' = Append(events, m) /\ wtask' = wtask
    BY <1>11 DEF Heartbeat
  <2>2. m \in Message /\ m.kind = "heartbeat"
    BY <1>11, HeartbeatMoves DEF Tell, Message
  <2> HIDE DEF m
  <2> QED BY <1>1, <1>7, <2>1, <2>2
<1>12. ASSUME NEW w \in Worker, Perform(w)
       PROVE  Offers'
  <2>1. PICK m \in Message : events' = Append(events, m) /\ m.kind = "finished"
    BY <1>12, Ranges, PerformAnswers
  <2>2. wpc[w] = "running" /\ wtask' = [wtask EXCEPT ![w] = NoTask]
    BY <1>12 DEF Perform
  <2>3. true(events, wtask')
    BY <1>2, <1>6, <2>2
  <2> QED BY <1>1, <1>7, <2>1, <2>3
<1>13. ASSUME NEW w \in Worker, Panic(w)
       PROVE  Offers'
  <2>1. wpc[w] = "running" /\ wtask' = [wtask EXCEPT ![w] = NoTask] /\ events' = events
    BY <1>13 DEF Panic
  <2> QED BY <1>1, <1>2, <1>6, <2>1
<1>14. ASSUME NEW w \in Worker, Unwind(w)
       PROVE  events' = << >>
  BY <1>14, Ranges DEF Unwind, Locals
<1>15. CASE PoolLost \/ AppendError \/ IndexError \/ FinishIndex \/ Crash
  BY <1>1, <1>4, <1>15 DEF PoolLost, AppendError, IndexError, FinishIndex, Crash, Abandon, Forget
<1> QED
  BY <1>1, <1>3, <1>4, <1>8, <1>9, <1>10, <1>11, <1>12, <1>13, <1>14, <1>15
  DEF Next, Launch, StartRun, QueueTask, Announce, Begin, Staff, DispatchSend, DispatchPark,
      DispatchDone, WakeUp, ApplyDone, ApplyRetry, ApplyEscalate, ApplyGate, ApplyFail, HaltOne,
      HaltDone, LeaveLoop, JoinPool, Finish, PreflightError, SpawnFails, AbortJoined,
      RecordFailure, RecordFailureError, ResumeRefused, ResumeFinished, ResumeRun, Reopen,
      ClockTurns, StrayLeaves, Stopped, Leave, vars

\* The line a step may write is about a task that is not settled, or about no
\* task; one that ends a task is about the task the coordinator has in view.
LEMMA PendingUnsettled ==
  ASSUME Inv, Offers, Beats, NEW e \in Pending
  PROVE  /\ e \in LedgerEvent
         /\ e.task \notin Settled(ledger)
         /\ e.event \in TerminalKinds =>
              \/ pc = "halt" /\ remaining # << >> /\ e.task = Head(remaining)
              \/ pc = "decide" /\ e.task = deciding.task
              \/ /\ pc = "loop" /\ events # << >> /\ e.task = Head(events).task
                 /\ Head(events).kind = "finished"
<1>1. e \in LedgerEvent
  BY Ranges, PendingTypes
<1>2. NoTask \notin Settled(ledger)
  BY Ranges DEF Settled
<1>3. Unsettled /\ \A t \in Waiting \cup Taken \cup Answered \cup Judged : t \notin Settled(ledger)
  BY DEF Inv, Unsettled, InHand
<1>4. CASE pc \in {"launch", "fail", "finish"}
  <2>1. e.task = NoTask /\ e.event \notin TerminalKinds
    BY <1>4 DEF Pending, OnRun, RunFinished, TerminalKinds
  <2> QED BY <1>1, <1>2, <2>1
<1>5. CASE pc = "queue"
  <2>1. Settled(ledger) = {}
    BY <1>5, Ranges DEF Locals
  <2>2. e.event \notin TerminalKinds
    BY <1>5 DEF Pending, OnTask, TerminalKinds
  <2> QED BY <1>1, <2>1, <2>2
<1>6. CASE pc = "halt"
  <2>1. remaining # << >> /\ e.task = Head(remaining)
    BY <1>6 DEF Pending, OnTask
  <2>2. Head(remaining) \in Waiting
    BY <2>1, Ranges, TailOfQueue DEF Waiting
  <2> QED BY <1>1, <1>3, <1>6, <2>1, <2>2
<1>7. CASE pc = "loop"
  <2> DEFINE m == Head(events)
  <2>1. /\ events # << >>
        /\ e = IF m.kind = "started" THEN TaskStarted(m.task, tier[m.task], attempt[m.task])
               ELSE IF m.kind = "heartbeat" THEN OnTask("task_heartbeat", m.task)
               ELSE IF m.outcome = "error" THEN OnTask("task_failed", m.task)
               ELSE TaskReceipt(m.task, attempt[m.task], m.outcome, m.tokens)
    BY <1>7 DEF Pending
  <2>2. /\ e.task = m.task
        /\ e.event \in TerminalKinds => m.kind \notin {"started", "heartbeat"}
    BY <2>1 DEF OnTask, TaskStarted, TaskReceipt, TerminalKinds
  <2>3. m \in Message /\ m.kind \in {"started", "heartbeat", "finished"} /\ m.worker \in Worker
    BY <2>1, Ranges, TailOfEvents DEF Message
  <2>4. CASE m.kind = "started"
    <3>1. 1 \in DOMAIN events /\ m = events[1]
      BY <2>1, Ranges
    <3>2. wpc[m.worker] = "offered" /\ m.task = wtask[m.worker]
      BY <2>4, <3>1, Ranges DEF Offers, Threads
    <3> QED BY <1>1, <1>3, <2>2, <2>3, <2>4, <3>2, Ranges
  <2>5. CASE m.kind = "heartbeat"
    <3>1. m.task \in Beating(events)
      BY <2>1, <2>5, Ranges, TailOfBeats
    <3> QED BY <1>1, <2>2, <2>5, <3>1 DEF Beats
  <2>6. CASE m.kind = "finished"
    <3>1. m.task \in Answered
      BY <2>1, <2>6, Ranges, TailOfEvents DEF Answered
    <3> QED BY <1>1, <1>3, <1>7, <2>1, <2>2, <2>6, <3>1
  <2> QED BY <2>3, <2>4, <2>5, <2>6
<1>8. CASE pc = "decide"
  <2>1. e.task = deciding.task
    BY <1>8 DEF Pending, TaskDone, TaskEscalated, OnTask
  <2> QED BY <1>1, <1>3, <1>8, <2>1, Ranges
<1>9. CASE pc \notin {"launch", "fail", "finish", "queue", "halt", "loop", "decide"}
  BY <1>9 DEF Pending
<1> QED BY <1>4, <1>5, <1>6, <1>7, <1>8, <1>9

\* What an append makes of a ledger.
LEMMA AppendedLine ==
  ASSUME NEW l \in Seq(LedgerEvent), NEW e \in LedgerEvent
  PROVE  /\ Append(l, e) \in Seq(LedgerEvent)
         /\ DOMAIN l = 1 .. Len(l)
         /\ DOMAIN Append(l, e) = 1 .. Len(l) + 1
         /\ Len(l) \in Nat
         /\ \A i \in 1 .. Len(l) : Append(l, e)[i] = l[i]
         /\ Append(l, e)[Len(l) + 1] = e
  OBVIOUS

\* Which tasks a step may settle.
LEMMA SettledGrows ==
  ASSUME Inv, Offers, Beats, Next
  PROVE  \/ Settled(ledger') \subseteq Settled(ledger)
         \/ /\ pc = "halt" /\ remaining # << >>
            /\ Settled(ledger') \subseteq Settled(ledger) \cup {Head(remaining)}
         \/ /\ pc = "decide"
            /\ Settled(ledger') \subseteq Settled(ledger) \cup {deciding.task}
         \/ /\ pc = "loop" /\ events # << >> /\ Head(events).kind = "finished"
            /\ Settled(ledger') \subseteq Settled(ledger) \cup {Head(events).task}
<1>1. CASE ledger' = ledger
  BY <1>1
<1>2. ASSUME NEW e \in Pending, Written(e)
      PROVE  \/ Settled(ledger') \subseteq Settled(ledger)
             \/ /\ e.event \in TerminalKinds
                /\ Settled(ledger') \subseteq Settled(ledger) \cup {e.task}
  <2>1. OnRun("corrupt") \in LedgerEvent /\ OnRun("corrupt").event \notin TerminalKinds
    BY EventTypes DEF RunKinds, LedgerEvent, TerminalKinds
  <2>2. e \in LedgerEvent /\ ledger \in Seq(LedgerEvent)
    BY PendingUnsettled, Ranges
  <2> QED BY <1>2, <2>1, <2>2, LedgerAppend DEF Written
<1> QED BY <1>1, <1>2, LedgerGrows, PendingUnsettled

\* A step writes nothing about a task that has ended.
LEMMA SilenceStep ==
  ASSUME Inv, Offers, Beats, NothingAfterTerminal, Next
  PROVE  NothingAfterTerminal'
<1>1. CASE ledger' = ledger
  BY <1>1 DEF NothingAfterTerminal
<1>2. ASSUME NEW e \in Pending, Written(e)
      PROVE  NothingAfterTerminal'
  <2>1. PICK d \in LedgerEvent : ledger' = Append(ledger, d) /\ d.task \notin Settled(ledger)
    <3>1. OnRun("corrupt") \in LedgerEvent /\ OnRun("corrupt").task \notin Settled(ledger)
      BY EventTypes, Ranges DEF RunKinds, LedgerEvent, OnRun, Settled
    <3> QED BY <1>2, <3>1, PendingUnsettled DEF Written
  <2>2. /\ DOMAIN ledger = 1 .. Len(ledger) /\ DOMAIN ledger' = 1 .. Len(ledger) + 1
        /\ Len(ledger) \in Nat
        /\ \A i \in 1 .. Len(ledger) : ledger'[i] = ledger[i]
        /\ ledger'[Len(ledger) + 1] = d
    BY <2>1, AppendedLine, Ranges
  <2>3. ASSUME NEW i \in 1 .. Len(ledger), ledger[i].event \in TerminalKinds
        PROVE  ledger[i].task # d.task
    <3>1. ledger[i] \in LedgerEvent
      BY <2>2, Ranges
    <3>2. ledger[i].task \in Task
      BY <2>3, <3>1 DEF LedgerEvent, TaskEvent, RunEvent, TerminalKinds, RunKinds
    <3>3. ledger[i].task \in Settled(ledger)
      BY <2>2, <2>3, <3>2 DEF Settled, At
    <3> QED BY <2>1, <3>3
  <2>4. SUFFICES ASSUME NEW i \in 1 .. Len(ledger) + 1, NEW j \in 1 .. Len(ledger) + 1,
                        i < j, ledger'[i].event \in TerminalKinds
                 PROVE  ledger'[j].task # ledger'[i].task
    BY <2>2 DEF NothingAfterTerminal
  <2>5. i \in 1 .. Len(ledger)
    BY <2>2, <2>4
  <2>6. CASE j \in 1 .. Len(ledger)
    BY <2>2, <2>4, <2>5, <2>6 DEF NothingAfterTerminal
  <2>7. CASE j = Len(ledger) + 1
    BY <2>2, <2>3, <2>4, <2>5, <2>7
  <2> QED BY <2>4, <2>6, <2>7
<1> QED BY <1>1, <1>2, LedgerGrows

\* A heartbeat stays about a task that is out, ahead of its answer.
LEMMA BeatsStep ==
  ASSUME Inv, Offers, Beats, Next
  PROVE  Beats'
<1> USE DEF durable, sched, pool, env
<1> DEFINE Back == Settled(ledger) \cup Waiting \cup Sent \cup Judged
<1>1. BeatsFirst(events) /\ Beating(events) \cap Back = {}
  BY DEF Beats
<1>2. BeatsFirst(events') /\ Beating(events') \cap Back' = {} => Beats'
  BY DEF Beats
<1>3. CASE events' = << >>
  BY <1>2, <1>3 DEF BeatsFirst, Beating, Pulses
<1>4. ASSUME events' = events, Back' \subseteq Back
      PROVE  Beats'
  BY <1>1, <1>2, <1>4
<1>5. CASE DispatchSend
  <2>1. ledger' = ledger /\ events' = events
    BY <1>5 DEF DispatchSend
  <2> QED BY <1>4, <1>5, <2>1, SendMoves
<1>6. CASE DispatchPark
  <2>1. ledger' = ledger /\ events' = events
    BY <1>6 DEF DispatchPark
  <2> QED BY <1>4, <1>6, <2>1, ParkMoves
<1>7. CASE ApplyDone \/ ApplyGate \/ ApplyFail
  <2>1. pc = "decide" /\ events' = events
    BY <1>7 DEF ApplyDone, ApplyGate, ApplyFail
  <2> QED BY <1>4, <1>7, <2>1, EndMoves, SettledGrows
<1>8. CASE ApplyRetry \/ ApplyEscalate
  <2>1. pc = "decide" /\ events' = events
    BY <1>8 DEF ApplyRetry, ApplyEscalate
  <2> QED BY <1>4, <1>8, <2>1, AgainMoves, SettledGrows
<1>9. CASE HaltOne
  <2>1. pc = "halt" /\ events' = events
    BY <1>9 DEF HaltOne
  <2> QED BY <1>4, <1>9, <2>1, HaltMoves, SettledGrows
<1>10. CASE HandleStarted \/ HandleHeartbeat
  <2>1. /\ pc = "loop" /\ events # << >> /\ events' = Tail(events)
        /\ Head(events).kind # "finished"
    BY <1>10 DEF HandleStarted, HandleHeartbeat, Receive
  <2>2. Back' \subseteq Back
    BY <1>10, <2>1, NoticeMoves, SettledGrows
  <2> QED BY <1>1, <1>2, <2>1, <2>2, TailOfBeats, Ranges
<1>11. CASE HandleError \/ HandleReceipt
  <2>1. /\ pc = "loop" /\ events # << >> /\ events' = Tail(events)
        /\ Head(events).kind = "finished"
    BY <1>11 DEF HandleError, HandleReceipt, Receive
  <2>2. Back' \subseteq Back \cup {Head(events).task}
    BY <1>11, <2>1, ErrorMoves, ReceiptMoves, SettledGrows
  <2> QED BY <1>1, <1>2, <2>1, <2>2, TailOfBeats, Ranges
<1>12. ASSUME NEW w \in Worker, Offer(w) \/ OfferFails(w) \/ Perform(w)
       PROVE  Beats'
  <2>1. ledger' = ledger
    BY <1>12 DEF Offer, OfferFails, Perform
  <2>2. Back' \subseteq Back /\ Beating(events') = Beating(events)
    BY <1>12, <2>1, OfferMoves, FailedOfferMoves, PerformMoves
  <2>3. PICK m \in Message : events' = Append(events, m) /\ m.kind # "heartbeat"
    <3>1. CASE Offer(w)
      <4> DEFINE m == Tell("started", w, Head(jobs))
      <4>1. events' = Append(events, m) /\ m.kind = "started"
        BY <3>1 DEF Offer, Tell
      <4>2. m \in Message
        BY <3>1, OfferMoves DEF Tell, Message
      <4> HIDE DEF m
      <4> QED BY <4>1, <4>2
    <3>2. CASE OfferFails(w)
      <4> DEFINE m == [Tell("finished", w, Head(jobs)) EXCEPT !.outcome = "error"]
      <4>1. events' = Append(events, m) /\ m.kind = "finished" /\ jobs # << >> /\ jobs' = Tail(jobs)
        BY <3>2 DEF OfferFails, Tell
      <4>2. m \in Message
        BY <4>1, JobMoves DEF Tell, Message
      <4> HIDE DEF m
      <4> QED BY <4>1, <4>2
    <3>3. CASE Perform(w)
      BY <3>3, Ranges, PerformAnswers
    <3> QED BY <1>12, <3>1, <3>2, <3>3
  <2>4. BeatsFirst(events')
    BY <1>1, <2>3, AppendToBeats, Ranges
  <2> QED BY <1>1, <1>2, <2>2, <2>4
<1>13. ASSUME NEW w \in Worker, Heartbeat(w)
       PROVE  Beats'
  <2> DEFINE m == Tell("heartbeat", w, wtask[w])
  <2>1. ledger' = ledger /\ events' = Append(events, m)
    BY <1>13 DEF Heartbeat
  <2>2. /\ wtask[w] \in Task /\ wtask[w] \in Taken
        /\ Beating(events') = Beating(events) \cup {wtask[w]} /\ Back' = Back
    BY <1>13, <2>1, HeartbeatMoves
  <2>3. m \in Message /\ m.kind = "heartbeat" /\ m.task = wtask[w]
    BY <2>2 DEF Tell, Message
  <2>4. wtask[w] \notin Back \cup Answered
    BY <2>2 DEF Inv, Apart, Unsettled, InHand
  <2> HIDE DEF m
  <2>5. BeatsFirst(events')
    BY <1>1, <2>1, <2>3, <2>4, AppendToBeats, Ranges DEF Answered
  <2> QED BY <1>1, <1>2, <2>2, <2>4, <2>5
<1>14. ASSUME NEW w \in Worker, Panic(w) \/ Unwind(w) \/ Leave(w)
       PROVE  Beats'
  <2>1. ledger' = ledger
    BY <1>14 DEF Panic, Unwind, Leave
  <2> QED BY <1>4, <1>14, <2>1, QuitMoves
<1>15. CASE PoolLost \/ AppendError \/ IndexError \/ FinishIndex \/ Crash
  BY <1>2, <1>3, <1>15 DEF PoolLost, AppendError, IndexError, FinishIndex, Crash, Abandon, Forget
<1>16. CASE Announce \/ ResumeRun
  <2>1. events' = << >>
    BY <1>16, Ranges DEF Announce, ResumeRun, Reopen, Begin, Staff, Locals
  <2> QED BY <1>2, <1>3, <2>1
<1>17. CASE UNCHANGED <<ledger, remaining, jobs, events, wtask, deciding>>
  <2>1. Back' = Back
    BY <1>17, StillPlaces
  <2> QED BY <1>4, <1>17, <2>1
<1>18. CASE StartRun \/ QueueTask \/ Finish \/ RecordFailure \/ RecordFailureError
  <2>1. /\ UNCHANGED <<remaining, jobs, events, wtask, deciding>>
        /\ pc \notin {"halt", "loop", "decide"}
    BY <1>18 DEF StartRun, QueueTask, Finish, RecordFailure, RecordFailureError
  <2> QED BY <1>4, <2>1, StillPlaces, SettledGrows
<1> QED
  BY <1>2, <1>5, <1>6, <1>7, <1>8, <1>9, <1>10, <1>11, <1>12, <1>13, <1>14, <1>15, <1>16, <1>17,
     <1>18
  DEF Next, Launch, DispatchDone, WakeUp, HaltDone, LeaveLoop, JoinPool, PreflightError,
      SpawnFails, AbortJoined, ResumeRefused, ResumeFinished, Reopen, ClockTurns, StrayLeaves,
      Stopped, vars

----------------------------------------------------------------------------
(* The folds a resume makes, and the starts of the tasks that run.         *)

\* The lines about a task of one kind, after an append.
LEMMA AtAppend ==
  ASSUME NEW l \in Seq(LedgerEvent), NEW e \in LedgerEvent, NEW kind, NEW t
  PROVE  /\ At(l, kind, t) \subseteq 1 .. Len(l)
         /\ At(Append(l, e), kind, t) =
              IF e.event = kind /\ e.task = t THEN At(l, kind, t) \cup {Len(l) + 1}
                                              ELSE At(l, kind, t)
<1>1. /\ DOMAIN l = 1 .. Len(l) /\ DOMAIN Append(l, e) = 1 .. Len(l) + 1
      /\ Len(l) \in Nat
      /\ \A i \in 1 .. Len(l) : Append(l, e)[i] = l[i]
      /\ Append(l, e)[Len(l) + 1] = e
  BY AppendedLine
<1> QED BY <1>1 DEF At

\* Only an escalation moves the tier a resume would give a task.
LEMMA TierAppend ==
  ASSUME NEW l \in Seq(LedgerEvent), NEW e \in LedgerEvent, NEW t
  PROVE  /\ LadderTier(l, t) \in Nat
         /\ At(l, "task_escalated", t) = {} => LadderTier(l, t) = 0
         /\ LadderTier(Append(l, e), t) =
              IF e.event = "task_escalated" /\ e.task = t THEN LadderTier(l, t) + 1
                                                          ELSE LadderTier(l, t)
<1> DEFINE S == At(l, "task_escalated", t)
<1>1. Len(l) \in Nat /\ S \subseteq 1 .. Len(l)
  BY AtAppend, LenProperties
<1> HIDE DEF S
<1>2. IsFiniteSet(S)
  <2>1. IsFiniteSet(1 .. Len(l))
    BY <1>1, FS_Interval
  <2> QED BY <1>1, <2>1, FS_Subset
<1>3. Len(l) + 1 \notin S
  BY <1>1
<1>4. Cardinality(S) \in Nat /\ Cardinality(S \cup {Len(l) + 1}) = Cardinality(S) + 1
  BY <1>2, <1>3, FS_CardinalityType, FS_AddElement
<1>5. S = {} => Cardinality(S) = 0
  BY FS_EmptySet
<1>6. At(Append(l, e), "task_escalated", t) =
        IF e.event = "task_escalated" /\ e.task = t THEN S \cup {Len(l) + 1} ELSE S
  BY AtAppend DEF S
<1> QED BY <1>4, <1>5, <1>6 DEF S, LadderTier

\* What the line to be written says of a task that starts, ends a run or climbs.
LEMMA PendingAbout ==
  ASSUME Inv, Offers, NEW e \in Pending
  PROVE  /\ e.event = "task_escalated" =>
              pc = "decide" /\ Decided = "escalate" /\ e.task = deciding.task /\ Ladder
         /\ e.event = "task_started" =>
              /\ pc = "loop" /\ events # << >> /\ Head(events).kind = "started"
              /\ e = TaskStarted(Head(events).task, tier[Head(events).task],
                                 attempt[Head(events).task])
              /\ Head(events).task \in Task /\ Head(events).worker \in Worker
              /\ wpc[Head(events).worker] = "offered"
              /\ wtask[Head(events).worker] = Head(events).task
         /\ e.event = "task_receipt" => e.task \in Answered
<1>1. CASE pc = "loop"
  <2> DEFINE m == Head(events)
  <2>1. /\ events # << >>
        /\ e = IF m.kind = "started" THEN TaskStarted(m.task, tier[m.task], attempt[m.task])
               ELSE IF m.kind = "heartbeat" THEN OnTask("task_heartbeat", m.task)
               ELSE IF m.outcome = "error" THEN OnTask("task_failed", m.task)
               ELSE TaskReceipt(m.task, attempt[m.task], m.outcome, m.tokens)
    BY <1>1 DEF Pending
  <2>2. m \in Message /\ m.task \in Task /\ m.worker \in Worker
        /\ m.kind \in {"started", "heartbeat", "finished"}
    BY <2>1, Ranges, TailOfEvents DEF Message
  <2>3. /\ e.event # "task_escalated"
        /\ e.event = "task_started" => m.kind = "started"
        /\ e.event = "task_receipt" => m.kind = "finished" /\ e.task = m.task
    BY <2>1, <2>2 DEF TaskStarted, TaskReceipt, OnTask
  <2>4. m.kind = "started" => wpc[m.worker] = "offered" /\ wtask[m.worker] = m.task
    BY <2>1, Ranges DEF Offers, Threads
  <2>5. m.kind = "finished" => m.task \in Answered
    BY <2>1, Ranges, TailOfEvents DEF Answered
  <2> QED BY <1>1, <2>1, <2>2, <2>3, <2>4, <2>5
<1>2. CASE pc = "decide"
  <2>1. /\ Decided # "retry"
        /\ e = IF Decided = "done" THEN TaskDone(deciding.task, deciding.outcome)
               ELSE IF Decided = "escalate"
                    THEN TaskEscalated(deciding.task, tier[deciding.task] + 1)
               ELSE IF Decided = "gate" THEN OnTask("task_gate", deciding.task)
               ELSE OnTask("task_failed", deciding.task)
    BY <1>2 DEF Pending
  <2>2. /\ e.task = deciding.task /\ e.event \notin {"task_started", "task_receipt"}
        /\ e.event = "task_escalated" => Decided = "escalate"
    BY <2>1 DEF TaskDone, TaskEscalated, OnTask
  <2>3. Decided = "escalate" => Ladder
    BY DEF Decided, NextStep
  <2> QED BY <1>2, <2>2, <2>3
<1>3. CASE pc \notin {"loop", "decide"}
  <2>1. e.event \in {"task_queued", "task_failed", "run_started", "run_finished", "run_failed"}
    BY <1>3 DEF Pending, OnTask, OnRun, RunFinished
  <2> QED BY <2>1
<1> QED BY <1>1, <1>2, <1>3

\* While it serves, the coordinator changes tiers and attempts when it decides.
LEMMA ServingSteps ==
  ASSUME Next, Serving'
  PROVE  \/ Announce \/ ResumeRun
         \/ /\ Serving /\ pc # "decide" /\ UNCHANGED <<tier, attempt>>
         \/ /\ pc = "decide"
            /\ \/ ApplyEscalate
               \/ ApplyRetry /\ UNCHANGED <<tier, ledger>>
               \/ UNCHANGED <<tier, attempt>> /\ (Decided # "escalate" \/ ledger' = ledger)
<1> USE DEF Serving, durable, sched, pool, env
<1>1. CASE Launch \/ StartRun \/ QueueTask \/ PoolLost \/ LeaveLoop \/ JoinPool \/ Finish
           \/ FinishIndex \/ AppendError \/ IndexError \/ PreflightError \/ SpawnFails
           \/ AbortJoined
           \/ RecordFailure \/ RecordFailureError \/ Crash \/ ResumeRefused \/ ResumeFinished
  BY <1>1 DEF Launch, StartRun, QueueTask, PoolLost, LeaveLoop, JoinPool, Finish, FinishIndex,
      AppendError, IndexError, PreflightError, SpawnFails, AbortJoined, RecordFailure,
      RecordFailureError, Crash, ResumeRefused, ResumeFinished, Abandon
<1>2. CASE DispatchSend \/ DispatchPark \/ DispatchDone \/ WakeUp \/ HaltOne \/ HaltDone
  BY <1>2 DEF DispatchSend, DispatchPark, DispatchDone, WakeUp, HaltOne, HaltDone
<1>3. CASE HandleStarted \/ HandleHeartbeat \/ HandleError \/ HandleReceipt
  BY <1>3 DEF HandleStarted, HandleHeartbeat, HandleError, HandleReceipt, Receive
<1>4. CASE ApplyDone \/ ApplyGate \/ ApplyFail
  BY <1>4 DEF ApplyDone, ApplyGate, ApplyFail
<1>5. CASE ApplyRetry \/ ApplyEscalate
  BY <1>5 DEF ApplyRetry, ApplyEscalate
<1>6. ASSUME NEW w \in Worker,
             Offer(w) \/ OfferFails(w) \/ Heartbeat(w) \/ Perform(w) \/ Panic(w) \/ Leave(w)
               \/ Unwind(w)
      PROVE  Serving /\ UNCHANGED <<pc, tier, attempt, deciding>> /\ ledger' = ledger
  BY <1>6 DEF Offer, OfferFails, Heartbeat, Perform, Panic, Leave, Unwind
<1>7. CASE ClockTurns \/ StrayLeaves \/ Stopped
  BY <1>7 DEF ClockTurns, StrayLeaves, Stopped, vars
<1> QED
  BY <1>1, <1>2, <1>3, <1>4, <1>5, <1>6, <1>7 DEF Next, ApplyEscalate, ApplyRetry

\* A step escalates a task, as a resume reads the ledger, by the decision to.
LEMMA QuietTiers ==
  ASSUME Inv, Offers, Next, \/ pc # "decide" \/ Decided # "escalate" \/ ~Ladder
                            \/ ledger' = ledger
  PROVE  /\ \A t \in Task : LadderTier(ledger', t) = LadderTier(ledger, t)
         /\ Escalated(ledger') = Escalated(ledger)
<1>1. CASE ledger' = ledger
  BY <1>1
<1>2. ASSUME NEW e \in Pending, Written(e), pc # "decide" \/ Decided # "escalate" \/ ~Ladder
      PROVE  \E d \in LedgerEvent : ledger' = Append(ledger, d) /\ d.event # "task_escalated"
  <2>1. e \in LedgerEvent /\ e.event # "task_escalated"
    BY <1>2, PendingAbout, PendingTypes, Ranges
  <2>2. OnRun("corrupt") \in LedgerEvent /\ OnRun("corrupt").event # "task_escalated"
    BY EventTypes DEF RunKinds, LedgerEvent
  <2> QED BY <1>2, <2>1, <2>2 DEF Written
<1>3. ASSUME NEW d \in LedgerEvent, ledger' = Append(ledger, d), d.event # "task_escalated"
      PROVE  /\ \A t \in Task : LadderTier(ledger', t) = LadderTier(ledger, t)
             /\ Escalated(ledger') = Escalated(ledger)
  BY <1>3, AtAppend, TierAppend, Ranges DEF Escalated
<1> QED BY <1>1, <1>2, <1>3, LedgerGrows

\* Nothing returns to the start of a run.
LEMMA EarlySteps ==
  ASSUME Next, pc' \in {"new", "launch", "queue", "announce"}
  PROVE  pc \in {"new", "launch", "queue", "announce"}
<1> USE DEF durable, sched, pool, env
<1>1. CASE Launch \/ StartRun \/ QueueTask \/ Announce \/ PoolLost \/ LeaveLoop \/ JoinPool
           \/ Finish \/ FinishIndex \/ AppendError \/ IndexError \/ PreflightError
           \/ SpawnFails \/ AbortJoined
           \/ RecordFailure \/ RecordFailureError \/ Crash \/ ResumeRefused \/ ResumeFinished
  BY <1>1 DEF Launch, StartRun, QueueTask, Announce, PoolLost, LeaveLoop, JoinPool, Finish,
      FinishIndex, AppendError, IndexError, PreflightError, SpawnFails, AbortJoined,
      RecordFailure, RecordFailureError, Crash, ResumeRefused, ResumeFinished, Abandon
<1>2. CASE DispatchSend \/ DispatchPark \/ DispatchDone \/ WakeUp \/ HaltOne \/ HaltDone
  BY <1>2 DEF DispatchSend, DispatchPark, DispatchDone, WakeUp, HaltOne, HaltDone
<1>3. CASE HandleStarted \/ HandleHeartbeat \/ HandleError \/ HandleReceipt
  BY <1>3 DEF HandleStarted, HandleHeartbeat, HandleError, HandleReceipt, Wake, EnforceBudget
<1>4. CASE ApplyDone \/ ApplyGate \/ ApplyFail \/ ApplyRetry \/ ApplyEscalate
  BY <1>4 DEF ApplyDone, ApplyGate, ApplyFail, ApplyRetry, ApplyEscalate, EnforceBudget
<1>5. CASE ResumeRun
  BY <1>5 DEF ResumeRun, Begin
<1>6. ASSUME NEW w \in Worker
      PROVE  Offer(w) \/ OfferFails(w) \/ Heartbeat(w) \/ Perform(w) \/ Panic(w) \/ Leave(w)
               \/ Unwind(w) => pc' = pc
  BY DEF Offer, OfferFails, Heartbeat, Perform, Panic, Leave, Unwind
<1>7. CASE ClockTurns \/ StrayLeaves \/ Stopped
  BY <1>7 DEF ClockTurns, StrayLeaves, Stopped, vars
<1> QED
  BY <1>1, <1>2, <1>3, <1>4, <1>5, <1>6, <1>7 DEF Next

\* The coordinator's tier of a task stays the one the ledger leads to.
LEMMA OnTierStep ==
  ASSUME Inv, Offers, Whole, OnTier, Next
  PROVE  OnTier'
<1> DEFINE quiet == /\ \A t \in Task : LadderTier(ledger', t) = LadderTier(ledger, t)
                    /\ Escalated(ledger') = Escalated(ledger)
<1>1. ledger \in Seq(LedgerEvent) /\ tier \in [Task -> Nat]
  BY Ranges DEF TypeOK
<1>2. \A t \in Task : Escalated(ledger) = {} => LadderTier(ledger, t) = 0
  <2>1. ASSUME NEW t \in Task, Escalated(ledger) = {}
        PROVE  LadderTier(ledger, t) = 0
    <3>1. At(ledger, "task_escalated", t) = {}
      BY <2>1 DEF Escalated
    <3>2. PICK e : e \in LedgerEvent
      BY EventTypes DEF RunKinds, LedgerEvent
    <3> QED BY <1>1, <3>1, <3>2, TierAppend
  <2> QED BY <2>1
<1>3. ~Ladder \/ pc' \in {"new", "launch", "queue", "announce"} => Escalated(ledger') = {}
  BY EarlySteps, QuietTiers DEF OnTier
<1>4. ASSUME Serving'
      PROVE  \A t \in Task : tier'[t] = LadderTier(ledger', t)
  <2>1. CASE Announce
    BY <1>2, <2>1 DEF Announce, OnTier
  <2>2. CASE ResumeRun
    BY <1>2, <2>2 DEF ResumeRun, Reopen, OnTier, ResumeTier
  <2>3. CASE Serving /\ pc # "decide" /\ UNCHANGED <<tier, attempt>>
    BY <2>3, QuietTiers DEF OnTier
  <2>4. CASE ApplyEscalate /\ pc = "decide"
    <3> DEFINE e == TaskEscalated(deciding.task, tier[deciding.task] + 1)
    <3>1. Serving /\ ~torn /\ deciding.task \in Task
      BY <2>4, Ranges DEF Serving, Whole
    <3>2. ledger' = Append(ledger, e) /\ tier' = [tier EXCEPT ![deciding.task] = @ + 1]
      BY <2>4, <3>1 DEF ApplyEscalate, Commit
    <3>3. e \in LedgerEvent
      BY <2>4, Ranges, DecisionTypes
    <3>4. e.event = "task_escalated" /\ e.task = deciding.task
      BY DEF TaskEscalated, OnTask
    <3>5. \A t \in Task : LadderTier(ledger', t) =
            IF t = deciding.task THEN LadderTier(ledger, t) + 1 ELSE LadderTier(ledger, t)
      BY <1>1, <3>2, <3>3, <3>4, TierAppend
    <3> HIDE DEF e
    <3> QED BY <1>1, <3>1, <3>2, <3>5 DEF OnTier
  <2>5. CASE /\ pc = "decide" /\ UNCHANGED tier
             /\ Decided # "escalate" \/ ledger' = ledger
    BY <2>5, QuietTiers DEF OnTier, Serving
  <2> QED BY <1>4, <2>1, <2>2, <2>3, <2>4, <2>5, ServingSteps
<1> QED BY <1>3, <1>4 DEF OnTier

\* A task that runs after a step ran before it, as it was, or was just announced.
LEMMA RunningStays ==
  ASSUME Inv, Next, NEW w \in Worker, wpc'[w] = "running", pc' # "abort"
  PROVE  \/ HandleStarted /\ w = Head(events).worker
         \/ /\ wpc[w] = "running" /\ pc # "abort" /\ wtask'[w] = wtask[w]
            /\ tier'[wtask[w]] = tier[wtask[w]] /\ attempt'[wtask[w]] = attempt[wtask[w]]
<1> USE DEF durable, sched, pool, env
<1>1. /\ wpc \in [Worker -> {"idle", "offered", "running", "gone"}]
      /\ wtask \in [Worker -> Task \cup {NoTask}]
      /\ tier \in [Task -> Nat] /\ attempt \in [Task -> Nat]
  BY Ranges DEF TypeOK
<1>2. Alone /\ (wpc[w] = "running" => pc \notin Single)
  BY DEF Inv, Alone, AllGone
<1>3. CASE Launch \/ StartRun \/ QueueTask \/ Announce \/ JoinPool \/ Finish \/ FinishIndex
           \/ PreflightError \/ SpawnFails \/ AbortJoined \/ RecordFailure
           \/ RecordFailureError \/ Crash
           \/ ResumeRefused \/ ResumeFinished \/ ResumeRun
  <2>1. \/ UNCHANGED wpc /\ AllGone
        \/ \A v \in Worker : wpc'[v] \in {"gone", "idle"}
    BY <1>2, <1>3
    DEF Launch, StartRun, QueueTask, Announce, JoinPool, Finish, FinishIndex, PreflightError,
        SpawnFails, AbortJoined, RecordFailure, RecordFailureError, Crash, ResumeRefused,
        ResumeFinished, ResumeRun, Reopen, Begin, Staff, Alone, Single
  <2> QED BY <2>1 DEF AllGone
<1>4. CASE PoolLost \/ AppendError \/ IndexError
  BY <1>4 DEF PoolLost, AppendError, IndexError, Abandon
<1>5. CASE DispatchSend \/ DispatchPark \/ DispatchDone \/ WakeUp \/ HaltOne \/ HaltDone
           \/ LeaveLoop
  BY <1>5 DEF DispatchSend, DispatchPark, DispatchDone, WakeUp, HaltOne, HaltDone, LeaveLoop
<1>6. CASE HandleHeartbeat \/ HandleError \/ HandleReceipt
  BY <1>6 DEF HandleHeartbeat, HandleError, HandleReceipt, Receive
<1>7. CASE HandleStarted
  BY <1>1, <1>7 DEF HandleStarted, Receive
<1>8. CASE ApplyDone \/ ApplyGate \/ ApplyFail
  BY <1>8 DEF ApplyDone, ApplyGate, ApplyFail
<1>9. CASE ApplyRetry \/ ApplyEscalate
  <2>1. pc = "decide" /\ UNCHANGED <<wpc, wtask>>
    BY <1>9 DEF ApplyRetry, ApplyEscalate
  <2>2. wtask[w] \in Taken /\ deciding.task \in Judged /\ Taken \cap Judged = {}
    BY <2>1, Ranges DEF Inv, Apart
  <2>3. \A t \in Task : t # deciding.task => tier'[t] = tier[t] /\ attempt'[t] = attempt[t]
    BY <1>1, <1>9 DEF ApplyRetry, ApplyEscalate
  <2> QED BY <1>9, <2>1, <2>2, <2>3, Ranges
<1>10. ASSUME NEW v \in Worker, Offer(v) \/ OfferFails(v) \/ Heartbeat(v) \/ Perform(v)
                                \/ Panic(v) \/ Leave(v) \/ Unwind(v)
       PROVE  wpc[w] = "running" /\ wtask'[w] = wtask[w] /\ UNCHANGED <<pc, tier, attempt>>
  BY <1>1, <1>10 DEF Offer, OfferFails, Heartbeat, Perform, Panic, Leave, Unwind
<1>11. CASE ClockTurns \/ StrayLeaves \/ Stopped
  BY <1>11 DEF ClockTurns, StrayLeaves, Stopped, vars
<1> QED
  BY <1>3, <1>4, <1>5, <1>6, <1>7, <1>8, <1>9, <1>10, <1>11 DEF Next

\* The line a step writes, as the ledger keeps it.
LEMMA WrittenLine ==
  ASSUME Inv, NEW e \in Pending, Written(e)
  PROVE  \E d \in LedgerEvent :
           /\ ledger' = Append(ledger, d)
           /\ \/ d = e
              \/ torn /\ d.event = "corrupt" /\ d.task = NoTask
<1>1. OnRun("corrupt") \in LedgerEvent /\ OnRun("corrupt").event = "corrupt"
  BY EventTypes DEF RunKinds, LedgerEvent
<1>2. OnRun("corrupt").task = NoTask
  BY DEF OnRun
<1>3. e \in LedgerEvent
  BY PendingTypes, Ranges
<1>4. ledger' = Append(ledger, e) \/ (torn /\ ledger' = Append(ledger, OnRun("corrupt")))
  BY DEF Written
<1>5. CASE ledger' = Append(ledger, e)
  BY <1>3, <1>5
<1>6. CASE torn /\ ledger' = Append(ledger, OnRun("corrupt"))
  BY <1>1, <1>2, <1>6
<1> QED BY <1>4, <1>5, <1>6

\* Each task that runs keeps its start as the last of its starts, unanswered.
LEMMA RunsStep ==
  ASSUME Inv, Offers, Whole, RunsAreRecorded, Next
  PROVE  RunsAreRecorded'
<1> SUFFICES ASSUME NEW w \in Worker, wpc'[w] = "running", pc' # "abort"
             PROVE  LET t == wtask'[w]
                        starts == At(ledger', "task_started", t)
                    IN  /\ starts # {}
                        /\ ledger'[Max(starts)].attempt = attempt'[t]
                        /\ ledger'[Max(starts)].tier = tier'[t]
                        /\ \A i \in At(ledger', "task_receipt", t) : i < Max(starts)
  BY DEF RunsAreRecorded
<1> DEFINE t == wtask'[w]
           starts == At(ledger', "task_started", t)
<1>1. ledger \in Seq(LedgerEvent) /\ Len(ledger) \in Nat
  BY Ranges, LenProperties
<1>2. CASE HandleStarted /\ w = Head(events).worker
  <2> DEFINE m == Head(events)
             e == TaskStarted(m.task, tier[m.task], attempt[m.task])
  <2>1. pc = "loop" /\ events # << >> /\ m.kind = "started" /\ ~Complete
    BY <1>2 DEF HandleStarted, Receive
  <2>2. e \in Pending
    BY <2>1 DEF Pending
  <2>3. e.event = "task_started" /\ e.task = m.task /\ e.tier = tier[m.task]
        /\ e.attempt = attempt[m.task]
    BY DEF TaskStarted, OnTask
  <2>4. ~torn /\ ledger' = Append(ledger, e) /\ UNCHANGED <<tier, attempt, wtask>>
    BY <1>2, <2>1 DEF HandleStarted, Commit, Whole
  <2>5. t = m.task
    BY <1>2, <2>2, <2>3, <2>4, PendingAbout
  <2>6. e \in LedgerEvent
    BY <2>2, PendingTypes, Ranges
  <2> HIDE DEF e, m
  <2>7. /\ starts = At(ledger, "task_started", t) \cup {Len(ledger) + 1}
        /\ At(ledger', "task_receipt", t) = At(ledger, "task_receipt", t)
        /\ At(ledger, "task_started", t) \subseteq 1 .. Len(ledger)
        /\ At(ledger, "task_receipt", t) \subseteq 1 .. Len(ledger)
    BY <1>1, <2>3, <2>4, <2>5, <2>6, AtAppend
  <2> HIDE DEF starts, t
  <2>8. starts \in SUBSET Nat /\ \A n \in starts : n <= Len(ledger) + 1
    BY <1>1, <2>7
  <2>9. Max(starts) \in starts /\ \A n \in starts : n <= Max(starts)
    BY <1>1, <2>7, <2>8, GreatestNatural
  <2>10. Max(starts) = Len(ledger) + 1
    <3>1. Len(ledger) + 1 \in starts
      BY <2>7
    <3>2. Len(ledger) + 1 <= Max(starts) /\ Max(starts) <= Len(ledger) + 1 /\ Max(starts) \in Nat
      BY <2>8, <2>9, <3>1
    <3> QED BY <1>1, <3>2
  <2>11. ledger'[Max(starts)] = e
    BY <1>1, <2>4, <2>6, <2>10, AppendedLine
  <2> QED BY <1>1, <2>3, <2>4, <2>5, <2>7, <2>10, <2>11 DEF starts, t
<1>3. CASE /\ wpc[w] = "running" /\ pc # "abort" /\ wtask'[w] = wtask[w]
           /\ tier'[wtask[w]] = tier[wtask[w]] /\ attempt'[wtask[w]] = attempt[wtask[w]]
  <2> DEFINE old == At(ledger, "task_started", t)
  <2>1. t = wtask[w] /\ t \in Task /\ t \in Taken
    BY <1>3, Ranges
  <2>2. /\ old # {}
        /\ ledger[Max(old)].attempt = attempt[t]
        /\ ledger[Max(old)].tier = tier[t]
        /\ \A i \in At(ledger, "task_receipt", t) : i < Max(old)
    BY <1>3, <2>1 DEF RunsAreRecorded
  <2>3. CASE ledger' = ledger
    BY <1>3, <2>1, <2>2, <2>3
  <2>4. ASSUME NEW e \in Pending, Written(e)
        PROVE  /\ starts = old
               /\ At(ledger', "task_receipt", t) = At(ledger, "task_receipt", t)
               /\ \A i \in 1 .. Len(ledger) : ledger'[i] = ledger[i]
    <3>1. e.event = "task_started" => e.task # t
      <4>1. CASE e.event = "task_started"
        <5>1. PICK v \in Worker : wpc[v] = "offered" /\ wtask[v] = e.task /\ e.task \in Task
          BY <4>1, PendingAbout DEF TaskStarted, OnTask
        <5> QED BY <1>3, <2>1, <5>1, Ranges DEF SoleHolders
      <4> QED BY <4>1
    <3>2. e.event = "task_receipt" => e.task # t
      BY <2>1, PendingAbout DEF Inv, Apart
    <3>3. PICK d \in LedgerEvent :
             /\ ledger' = Append(ledger, d)
             /\ d = e \/ d.event = "corrupt"
      BY <2>4, WrittenLine
    <3> QED BY <1>1, <3>1, <3>2, <3>3, AtAppend, AppendedLine
  <2>5. CASE \E e \in Pending : Written(e)
    <3>1. old \in SUBSET Nat /\ \A n \in old : n <= Len(ledger) /\ n \in 1 .. Len(ledger)
      BY <1>1 DEF At
    <3>2. Max(old) \in old
      BY <1>1, <2>2, <3>1, GreatestNatural
    <3> QED BY <1>3, <2>1, <2>2, <2>4, <2>5, <3>1, <3>2
  <2> QED BY <2>3, <2>5, LedgerGrows
<1> QED BY <1>2, <1>3, RunningStays

\* The lines in front of an appended one are what they were.
LEMMA PrefixKept ==
  ASSUME NEW l \in Seq(LedgerEvent), NEW e \in LedgerEvent
  PROVE  /\ \A i \in 1 .. Len(l) : SubSeq(Append(l, e), 1, i) = SubSeq(l, 1, i)
         /\ SubSeq(Append(l, e), 1, Len(l) + 1) = Append(l, e)
         /\ \A i \in 1 .. Len(l) : SubSeq(l, 1, i) \in Seq(LedgerEvent)
<1>1. ASSUME NEW i \in 1 .. Len(l)
      PROVE  SubSeq(Append(l, e), 1, i) = SubSeq(l, 1, i) /\ SubSeq(l, 1, i) \in Seq(LedgerEvent)
  OBVIOUS
<1>2. SubSeq(Append(l, e), 1, Len(l) + 1) = Append(l, e)
  OBVIOUS
<1> QED BY <1>1, <1>2

\* A start is written with the tier the ledger leads to.
LEMMA StartsStep ==
  ASSUME Inv, Offers, OnTier, StartsOnLedgerTier, Next
  PROVE  StartsOnLedgerTier'
<1>1. CASE ledger' = ledger
  BY <1>1 DEF StartsOnLedgerTier
<1>2. ASSUME NEW e \in Pending, Written(e)
      PROVE  StartsOnLedgerTier'
  <2>1. PICK d \in LedgerEvent : ledger' = Append(ledger, d) /\ (d = e \/ d.event = "corrupt")
    BY <1>2, WrittenLine
  <2>2. /\ ledger \in Seq(LedgerEvent) /\ DOMAIN ledger = 1 .. Len(ledger) /\ Len(ledger) \in Nat
        /\ DOMAIN ledger' = 1 .. Len(ledger) + 1
        /\ \A i \in 1 .. Len(ledger) : ledger'[i] = ledger[i]
        /\ ledger'[Len(ledger) + 1] = d
    BY <2>1, AppendedLine, Ranges
  <2>3. ASSUME NEW i \in 1 .. Len(ledger), ledger'[i].event = "task_started"
        PROVE  ledger'[i].tier = LadderTier(SubSeq(ledger', 1, i), ledger'[i].task)
    BY <2>1, <2>2, <2>3, PrefixKept DEF StartsOnLedgerTier
  <2>4. ASSUME d.event = "task_started"
        PROVE  d.tier = LadderTier(SubSeq(ledger', 1, Len(ledger) + 1), d.task)
    <3>1. d = e
      BY <2>1, <2>4
    <3>2. /\ pc = "loop" /\ d.task \in Task /\ d.tier = tier[d.task]
      <4> DEFINE t == Head(events).task
      <4>1. pc = "loop" /\ t \in Task /\ e = TaskStarted(t, tier[t], attempt[t])
        BY <2>4, <3>1, PendingAbout
      <4> HIDE DEF t
      <4>2. e.task = t /\ e.tier = tier[t]
        BY <4>1 DEF TaskStarted, OnTask
      <4> QED BY <3>1, <4>1, <4>2
    <3>3. LadderTier(ledger', d.task) = LadderTier(ledger, d.task)
      BY <2>1, <2>2, <2>4, TierAppend
    <3>4. SubSeq(ledger', 1, Len(ledger) + 1) = ledger'
      BY <2>1, <2>2, PrefixKept
    <3> QED BY <3>2, <3>3, <3>4 DEF OnTier, Serving
  <2> QED BY <2>2, <2>3, <2>4 DEF StartsOnLedgerTier
<1> QED BY <1>1, <1>2, LedgerGrows

----------------------------------------------------------------------------
(* The theorems.                                                           *)

\* The record is true of a run nobody has started.
LEMMA InitRecord == Init => RecordInv
<1> SUFFICES ASSUME Init PROVE RecordInv
  OBVIOUS
<1>1. /\ ledger = << >> /\ events = << >> /\ torn = FALSE /\ pc = "new"
      /\ wpc = [w \in Worker |-> "gone"]
  BY DEF Init
<1>2. Offers /\ Beats /\ Whole
  BY <1>1 DEF Offers, Beats, Whole, BeatsFirst, Pulses, Beating, Answers
<1>3. NothingAfterTerminal
  BY <1>1 DEF NothingAfterTerminal
<1>4. OnTier
  BY <1>1 DEF OnTier, Serving, Escalated, At
<1>5. StartsAreRecorded
  BY <1>1 DEF StartsAreRecorded, RunsAreRecorded, StartsOnLedgerTier
<1> QED BY <1>2, <1>3, <1>4, <1>5 DEF RecordInv

\* Beside Inv, the record is inductive.
LEMMA StepRecord == Inv /\ RecordInv /\ [Next]_vars => RecordInv'
<1>1. ASSUME Inv, RecordInv, Next
      PROVE  RecordInv'
  <2>1. Offers /\ Beats /\ Whole /\ NothingAfterTerminal /\ OnTier
        /\ RunsAreRecorded /\ StartsOnLedgerTier
    BY <1>1 DEF RecordInv, StartsAreRecorded
  <2>2. Offers' /\ Beats' /\ Whole' /\ NothingAfterTerminal'
    BY <1>1, <2>1, OffersStep, BeatsStep, WholeStep, SilenceStep
  <2>3. OnTier' /\ RunsAreRecorded' /\ StartsOnLedgerTier'
    BY <1>1, <2>1, OnTierStep, RunsStep, StartsStep
  <2> QED BY <2>2, <2>3 DEF RecordInv, StartsAreRecorded
<1>2. ASSUME RecordInv, UNCHANGED vars
      PROVE  RecordInv'
  <2>1. UNCHANGED <<ledger, torn, pc, remaining, deciding, tier, attempt, jobs, events, wpc,
                    wtask>>
    BY <1>2 DEF vars, durable, sched, pool
  <2>2. Offers' /\ Whole'
    BY <1>2, <2>1 DEF RecordInv, Offers, Whole
  <2>3. Beats'
    BY <1>2, <2>1, StillPlaces DEF RecordInv, Beats
  <2>4. NothingAfterTerminal' /\ OnTier'
    BY <1>2, <2>1 DEF RecordInv, NothingAfterTerminal, OnTier, Serving
  <2>5. StartsAreRecorded'
    BY <1>2, <2>1 DEF RecordInv, StartsAreRecorded, RunsAreRecorded, StartsOnLedgerTier
  <2> QED BY <2>2, <2>3, <2>4, <2>5 DEF RecordInv
<1> QED BY <1>1, <1>2

\* In every reachable state the record of the run is true.
THEOREM RecordIsTrue == Spec => []RecordInv
<1>1. Spec => []Inv
  BY Invariance
<1> QED BY <1>1, InitRecord, StepRecord, PTL DEF Spec

(* After a task's task_done, task_gate or task_failed no process of the    *)
(* run, and no heartbeat that was on its way, adds a line about the task.  *)
THEOREM SilentAfterTheEnd == Spec => []NothingAfterTerminal
<1>1. RecordInv => NothingAfterTerminal
  BY DEF RecordInv
<1> QED BY RecordIsTrue, <1>1, PTL

(* A worker runs a task only behind its task_started, with the tier and    *)
(* the attempt the ledger states, and that tier is the one the escalations *)
(* in front of the line lead a resume to.                                  *)
THEOREM StartsRecorded == Spec => []StartsAreRecorded
<1>1. RecordInv => StartsAreRecorded
  BY DEF RecordInv
<1> QED BY RecordIsTrue, <1>1, PTL
==============================================================================
