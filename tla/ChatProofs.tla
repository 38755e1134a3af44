----------------------------- MODULE ChatProofs -----------------------------
(***************************************************************************)
(* The theorem about a chat: a session that is left is found again, and    *)
(* goes on as it was.  The lemmas about the ledger are those of TuiProofs. *)
(***************************************************************************)
EXTENDS Chat, TuiProofs

----------------------------------------------------------------------------
(* What is folded out of the lines.                                        *)

\* A line behind the others.
LEMMA OneMoreLine ==
  ASSUME NEW l, Talk(l), NEW e
  PROVE  /\ Len(l) \in Nat /\ Len(Append(l, e)) = Len(l) + 1
         /\ Append(l, e)[Len(l) + 1] = e
         /\ \A i \in 1 .. Len(l) : Append(l, e)[i] = l[i]
         /\ Talk(Append(l, e))
<1>1. Append(l, e) = l \o << e >>
  BY AppendJoins
<1>2. Talk(<< e >>) /\ Len(<< e >>) = 1 /\ << e >>[1] = e
  BY ListsAreTalk
<1>3. /\ Talk(l \o << e >>) /\ Len(l) \in Nat /\ Len(l \o << e >>) = Len(l) + Len(<< e >>)
      /\ \A i \in 1 .. Len(l) : (l \o << e >>)[i] = l[i]
      /\ \A i \in 1 .. Len(<< e >>) : (l \o << e >>)[Len(l) + i] = << e >>[i]
  BY <1>2, Joined
<1>4. 1 \in 1 .. Len(<< e >>)
  BY <1>2
<1> QED BY <1>1, <1>2, <1>3, <1>4

\* The totals after each of the first n lines.
Totals(l, n, f) ==
  /\ f = [k \in 0 .. n |-> f[k]]
  /\ f[0] = NoTotals
  /\ \A k \in 1 .. n : f[k] = WithLine(f[k - 1], l[k])

LEMMA TotalsExist ==
  ASSUME NEW l, Len(l) \in Nat
  PROVE  \E f : Totals(l, Len(l), f)
<1> DEFINE unknown == {m \in 0 .. Len(l) : ~\E f : Totals(l, m, f)}
<1>1. ASSUME unknown # {}
      PROVE  FALSE
  <2>1. unknown \in SUBSET (0 .. Len(l))
    OBVIOUS
  <2>2. PICK m \in unknown : \A j \in unknown : m <= j
    BY <1>1, <2>1, Extremes
  <2>3. CASE m = 0
    <3> DEFINE f == [k \in 0 .. 0 |-> NoTotals]
    <3>1. Totals(l, 0, f)
      BY DEF Totals
    <3> QED BY <2>2, <2>3, <3>1
  <2>4. CASE m # 0
    <3>1. m - 1 \in 0 .. Len(l) /\ ~(m <= m - 1) /\ m \in 1 .. Len(l) /\ m \in Nat
      BY <2>2, <2>4
    <3>2. m - 1 \notin unknown
      BY <2>2, <3>1
    <3>3. PICK f : Totals(l, m - 1, f)
      BY <3>1, <3>2
    <3> DEFINE g == [k \in 0 .. m |-> IF k = m THEN WithLine(f[m - 1], l[m]) ELSE f[k]]
    <3>4. /\ f[0] = NoTotals /\ \A k \in 1 .. m - 1 : f[k] = WithLine(f[k - 1], l[k])
      BY <3>3 DEF Totals
    <3>5. /\ \A k \in 0 .. m - 1 : k \in 0 .. m /\ k # m
          /\ \A k \in 1 .. m : k = m \/ k \in 1 .. m - 1
          /\ \A k \in 1 .. m - 1 : k \in 0 .. m - 1 /\ k - 1 \in 0 .. m - 1
          /\ 0 \in 0 .. m - 1 /\ m \in 0 .. m /\ m - 1 \in 0 .. m - 1
      BY <3>1
    <3>6. g[m] = WithLine(f[m - 1], l[m]) /\ \A k \in 0 .. m - 1 : g[k] = f[k]
      BY <3>5
    <3>7. g = [k \in 0 .. m |-> g[k]]
      OBVIOUS
    <3> HIDE DEF g
    <3>8. \A k \in 1 .. m : g[k] = WithLine(g[k - 1], l[k])
      <4>1. ASSUME NEW k \in 1 .. m
            PROVE  g[k] = WithLine(g[k - 1], l[k])
        <5>1. CASE k = m
          BY <3>5, <3>6, <5>1
        <5>2. CASE k \in 1 .. m - 1
          <6>1. g[k] = f[k] /\ g[k - 1] = f[k - 1]
            BY <3>5, <3>6, <5>2
          <6> QED BY <3>4, <5>2, <6>1
        <5> QED BY <3>5, <5>1, <5>2
      <4> QED BY <4>1
    <3>9. g[0] = NoTotals
      BY <3>4, <3>5, <3>6
    <3>10. Totals(l, m, g)
      BY <3>7, <3>8, <3>9 DEF Totals
    <3> QED BY <2>2, <3>10
  <2> QED BY <2>3, <2>4
<1>2. Len(l) \in 0 .. Len(l)
  OBVIOUS
<1> QED BY <1>1, <1>2

LEMMA TotalsAgree ==
  ASSUME NEW l, NEW h, NEW n \in Nat, NEW m \in Nat, n <= m, NEW f, NEW g,
         Totals(l, n, f), Totals(h, m, g), \A k \in 1 .. n : l[k] = h[k]
  PROVE  f[n] = g[n]
<1> DEFINE differ == {k \in 0 .. n : f[k] # g[k]}
<1>1. ASSUME differ # {}
      PROVE  FALSE
  <2>1. differ \in SUBSET (0 .. n)
    OBVIOUS
  <2>2. PICK j \in differ : \A k \in differ : j <= k
    BY <1>1, <2>1, Extremes
  <2>3. j # 0
    BY <2>2 DEF Totals
  <2>4. j \in 1 .. n /\ j \in 1 .. m /\ j - 1 \in 0 .. n /\ ~(j <= j - 1)
    BY <2>2, <2>3
  <2>5. f[j - 1] = g[j - 1]
    BY <2>2, <2>4
  <2>6. f[j] = WithLine(f[j - 1], l[j]) /\ g[j] = WithLine(g[j - 1], h[j])
    BY <2>4 DEF Totals
  <2>7. l[j] = h[j]
    BY <2>4
  <2> QED BY <2>2, <2>5, <2>6, <2>7
<1>2. n \in 0 .. n
  OBVIOUS
<1> QED BY <1>1, <1>2

LEMMA TotalsRestore ==
  ASSUME NEW l, Len(l) \in Nat, NEW f, Totals(l, Len(l), f)
  PROVE  RestoredTotals(File(l)) = f[Len(l)]
<1> DEFINE step(g) == [n \in 0 .. Len(l) |-> IF n = 0 THEN NoTotals ELSE WithLine(g[n - 1], l[n])]
           upTo == CHOOSE g : g = step(g)
<1>1. RestoredTotals(File(l)) = upTo[Len(l)]
  BY DEF RestoredTotals, File
<1>2. f = step(f)
  <2>1. /\ f = [k \in 0 .. Len(l) |-> f[k]] /\ f[0] = NoTotals
        /\ \A k \in 1 .. Len(l) : f[k] = WithLine(f[k - 1], l[k])
    BY DEF Totals
  <2>2. \A k \in 0 .. Len(l) : k = 0 \/ k \in 1 .. Len(l)
    OBVIOUS
  <2>3. \A k \in 0 .. Len(l) : f[k] = IF k = 0 THEN NoTotals ELSE WithLine(f[k - 1], l[k])
    BY <2>1, <2>2
  <2> QED BY <2>1, <2>3
<1>3. upTo = step(upTo)
  BY <1>2
<1> HIDE DEF upTo
<1>4. Totals(l, Len(l), upTo)
  <2>1. \A k \in 1 .. Len(l) : k \in 0 .. Len(l) /\ k # 0
    OBVIOUS
  <2>2. upTo = [k \in 0 .. Len(l) |-> upTo[k]]
    BY <1>3
  <2>3. upTo[0] = NoTotals
    BY <1>3
  <2>4. \A k \in 1 .. Len(l) : upTo[k] = WithLine(upTo[k - 1], l[k])
    BY <1>3, <2>1
  <2> QED BY <2>2, <2>3, <2>4 DEF Totals
<1>5. f[Len(l)] = upTo[Len(l)]
  BY <1>4, TotalsAgree
<1> QED BY <1>1, <1>5

\* A line adds its turn to the totals that are restored.
LEMMA RestoredTotalsAppend ==
  ASSUME NEW l, Talk(l), NEW e
  PROVE  /\ RestoredTotals(File(<< >>)) = NoTotals
         /\ RestoredTotals(File(Append(l, e))) = WithLine(RestoredTotals(File(l)), e)
<1> DEFINE longer == Append(l, e)
           n == Len(l)
<1>1. /\ n \in Nat /\ Len(longer) = n + 1 /\ longer[n + 1] = e
      /\ \A i \in 1 .. n : longer[i] = l[i]
  BY OneMoreLine
<1> HIDE DEF longer
<1>2. PICK f : Totals(l, n, f)
  BY <1>1, TotalsExist
<1>3. PICK g : Totals(longer, n + 1, g)
  BY <1>1, TotalsExist
<1>4. RestoredTotals(File(l)) = f[n] /\ RestoredTotals(File(longer)) = g[n + 1]
  BY <1>1, <1>2, <1>3, TotalsRestore
<1>5. f[n] = g[n]
  <2> DEFINE m == n + 1
  <2>1. n \in Nat /\ m \in Nat /\ n <= m
    BY <1>1
  <2>2. \A k \in 1 .. n : l[k] = longer[k]
    BY <1>1
  <2>3. Totals(l, n, f) /\ Totals(longer, m, g)
    BY <1>2, <1>3
  <2> HIDE DEF n, m
  <2> QED BY <2>1, <2>2, <2>3, TotalsAgree
<1>6. g[n + 1] = WithLine(g[n], e)
  <2>1. n + 1 \in 1 .. n + 1 /\ (n + 1) - 1 = n
    BY <1>1
  <2>2. g[n + 1] = WithLine(g[(n + 1) - 1], longer[n + 1])
    BY <1>3, <2>1 DEF Totals
  <2> QED BY <1>1, <2>1, <2>2
<1>7. RestoredTotals(File(<< >>)) = NoTotals
  <2>1. Len(<< >>) = 0
    BY ListsAreTalk
  <2>2. PICK h : Totals(<< >>, 0, h)
    BY <2>1, TotalsExist
  <2>3. RestoredTotals(File(<< >>)) = h[0]
    BY <2>1, <2>2, TotalsRestore
  <2> QED BY <2>2, <2>3 DEF Totals
<1> QED BY <1>4, <1>5, <1>6, <1>7 DEF longer

\* The summary after each of the first n lines.
Summaries(l, n, f) ==
  /\ f = [k \in 0 .. n |-> f[k]]
  /\ f[0] = NoSummary
  /\ \A k \in 1 .. n : f[k] = Summarized(f[k - 1], l[k])

LEMMA SummariesExist ==
  ASSUME NEW l, Len(l) \in Nat
  PROVE  \E f : Summaries(l, Len(l), f)
<1> DEFINE unknown == {m \in 0 .. Len(l) : ~\E f : Summaries(l, m, f)}
<1>1. ASSUME unknown # {}
      PROVE  FALSE
  <2>1. unknown \in SUBSET (0 .. Len(l))
    OBVIOUS
  <2>2. PICK m \in unknown : \A j \in unknown : m <= j
    BY <1>1, <2>1, Extremes
  <2>3. CASE m = 0
    <3> DEFINE f == [k \in 0 .. 0 |-> NoSummary]
    <3>1. Summaries(l, 0, f)
      BY DEF Summaries
    <3> QED BY <2>2, <2>3, <3>1
  <2>4. CASE m # 0
    <3>1. m - 1 \in 0 .. Len(l) /\ ~(m <= m - 1) /\ m \in 1 .. Len(l) /\ m \in Nat
      BY <2>2, <2>4
    <3>2. m - 1 \notin unknown
      BY <2>2, <3>1
    <3>3. PICK f : Summaries(l, m - 1, f)
      BY <3>1, <3>2
    <3> DEFINE g == [k \in 0 .. m |-> IF k = m THEN Summarized(f[m - 1], l[m]) ELSE f[k]]
    <3>4. /\ f[0] = NoSummary /\ \A k \in 1 .. m - 1 : f[k] = Summarized(f[k - 1], l[k])
      BY <3>3 DEF Summaries
    <3>5. /\ \A k \in 0 .. m - 1 : k \in 0 .. m /\ k # m
          /\ \A k \in 1 .. m : k = m \/ k \in 1 .. m - 1
          /\ \A k \in 1 .. m - 1 : k \in 0 .. m - 1 /\ k - 1 \in 0 .. m - 1
          /\ 0 \in 0 .. m - 1 /\ m \in 0 .. m /\ m - 1 \in 0 .. m - 1
      BY <3>1
    <3>6. g[m] = Summarized(f[m - 1], l[m]) /\ \A k \in 0 .. m - 1 : g[k] = f[k]
      BY <3>5
    <3>7. g = [k \in 0 .. m |-> g[k]]
      OBVIOUS
    <3> HIDE DEF g
    <3>8. \A k \in 1 .. m : g[k] = Summarized(g[k - 1], l[k])
      <4>1. ASSUME NEW k \in 1 .. m
            PROVE  g[k] = Summarized(g[k - 1], l[k])
        <5>1. CASE k = m
          BY <3>5, <3>6, <5>1
        <5>2. CASE k \in 1 .. m - 1
          <6>1. g[k] = f[k] /\ g[k - 1] = f[k - 1]
            BY <3>5, <3>6, <5>2
          <6> QED BY <3>4, <5>2, <6>1
        <5> QED BY <3>5, <5>1, <5>2
      <4> QED BY <4>1
    <3>9. g[0] = NoSummary
      BY <3>4, <3>5, <3>6
    <3>10. Summaries(l, m, g)
      BY <3>7, <3>8, <3>9 DEF Summaries
    <3> QED BY <2>2, <3>10
  <2> QED BY <2>3, <2>4
<1>2. Len(l) \in 0 .. Len(l)
  OBVIOUS
<1> QED BY <1>1, <1>2

LEMMA SummariesAgree ==
  ASSUME NEW l, NEW h, NEW n \in Nat, NEW m \in Nat, n <= m, NEW f, NEW g,
         Summaries(l, n, f), Summaries(h, m, g), \A k \in 1 .. n : l[k] = h[k]
  PROVE  f[n] = g[n]
<1> DEFINE differ == {k \in 0 .. n : f[k] # g[k]}
<1>1. ASSUME differ # {}
      PROVE  FALSE
  <2>1. differ \in SUBSET (0 .. n)
    OBVIOUS
  <2>2. PICK j \in differ : \A k \in differ : j <= k
    BY <1>1, <2>1, Extremes
  <2>3. j # 0
    BY <2>2 DEF Summaries
  <2>4. j \in 1 .. n /\ j \in 1 .. m /\ j - 1 \in 0 .. n /\ ~(j <= j - 1)
    BY <2>2, <2>3
  <2>5. f[j - 1] = g[j - 1]
    BY <2>2, <2>4
  <2>6. f[j] = Summarized(f[j - 1], l[j]) /\ g[j] = Summarized(g[j - 1], h[j])
    BY <2>4 DEF Summaries
  <2>7. l[j] = h[j]
    BY <2>4
  <2> QED BY <2>2, <2>5, <2>6, <2>7
<1>2. n \in 0 .. n
  OBVIOUS
<1> QED BY <1>1, <1>2

LEMMA SummariesRestore ==
  ASSUME NEW l, Len(l) \in Nat, NEW f, Summaries(l, Len(l), f)
  PROVE  Summary(File(l)) = f[Len(l)]
<1> DEFINE step(g) == [n \in 0 .. Len(l) |-> IF n = 0 THEN NoSummary ELSE Summarized(g[n - 1], l[n])]
           upTo == CHOOSE g : g = step(g)
<1>1. Summary(File(l)) = upTo[Len(l)]
  BY DEF Summary, File
<1>2. f = step(f)
  <2>1. /\ f = [k \in 0 .. Len(l) |-> f[k]] /\ f[0] = NoSummary
        /\ \A k \in 1 .. Len(l) : f[k] = Summarized(f[k - 1], l[k])
    BY DEF Summaries
  <2>2. \A k \in 0 .. Len(l) : k = 0 \/ k \in 1 .. Len(l)
    OBVIOUS
  <2>3. \A k \in 0 .. Len(l) : f[k] = IF k = 0 THEN NoSummary ELSE Summarized(f[k - 1], l[k])
    BY <2>1, <2>2
  <2> QED BY <2>1, <2>3
<1>3. upTo = step(upTo)
  BY <1>2
<1> HIDE DEF upTo
<1>4. Summaries(l, Len(l), upTo)
  <2>1. \A k \in 1 .. Len(l) : k \in 0 .. Len(l) /\ k # 0
    OBVIOUS
  <2>2. upTo = [k \in 0 .. Len(l) |-> upTo[k]]
    BY <1>3
  <2>3. upTo[0] = NoSummary
    BY <1>3
  <2>4. \A k \in 1 .. Len(l) : upTo[k] = Summarized(upTo[k - 1], l[k])
    BY <1>3, <2>1
  <2> QED BY <2>2, <2>3, <2>4 DEF Summaries
<1>5. f[Len(l)] = upTo[Len(l)]
  BY <1>4, SummariesAgree
<1> QED BY <1>1, <1>5

\* A line adds its event to the summary.
LEMMA SummaryAppend ==
  ASSUME NEW l, Talk(l), NEW e
  PROVE  /\ Summary(File(<< >>)) = NoSummary
         /\ Summary(File(Append(l, e))) = Summarized(Summary(File(l)), e)
<1> DEFINE longer == Append(l, e)
           n == Len(l)
<1>1. /\ n \in Nat /\ Len(longer) = n + 1 /\ longer[n + 1] = e
      /\ \A i \in 1 .. n : longer[i] = l[i]
  BY OneMoreLine
<1> HIDE DEF longer
<1>2. PICK f : Summaries(l, n, f)
  BY <1>1, SummariesExist
<1>3. PICK g : Summaries(longer, n + 1, g)
  BY <1>1, SummariesExist
<1>4. Summary(File(l)) = f[n] /\ Summary(File(longer)) = g[n + 1]
  BY <1>1, <1>2, <1>3, SummariesRestore
<1>5. f[n] = g[n]
  <2> DEFINE m == n + 1
  <2>1. n \in Nat /\ m \in Nat /\ n <= m
    BY <1>1
  <2>2. \A k \in 1 .. n : l[k] = longer[k]
    BY <1>1
  <2>3. Summaries(l, n, f) /\ Summaries(longer, m, g)
    BY <1>2, <1>3
  <2> HIDE DEF n, m
  <2> QED BY <2>1, <2>2, <2>3, SummariesAgree
<1>6. g[n + 1] = Summarized(g[n], e)
  <2>1. n + 1 \in 1 .. n + 1 /\ (n + 1) - 1 = n
    BY <1>1
  <2>2. g[n + 1] = Summarized(g[(n + 1) - 1], longer[n + 1])
    BY <1>3, <2>1 DEF Summaries
  <2> QED BY <1>1, <2>1, <2>2
<1>7. Summary(File(<< >>)) = NoSummary
  <2>1. Len(<< >>) = 0
    BY ListsAreTalk
  <2>2. PICK h : Summaries(<< >>, 0, h)
    BY <2>1, SummariesExist
  <2>3. Summary(File(<< >>)) = h[0]
    BY <2>1, <2>2, SummariesRestore
  <2> QED BY <2>2, <2>3 DEF Summaries
<1> QED BY <1>4, <1>5, <1>6, <1>7 DEF longer

----------------------------------------------------------------------------
(* The lines of a chat.                                                    *)

\* A line of these kinds is the newest of them; another one leaves the newest.
LEMMA NewestAppend ==
  ASSUME NEW l, Talk(l), NEW e, NEW kinds
  PROVE  /\ Holding(File(l), kinds) \in SUBSET (1 .. Len(l))
         /\ e.event \in kinds =>
              /\ Holding(File(Append(l, e)), kinds) = Holding(File(l), kinds) \cup {Len(l) + 1}
              /\ Newest(File(Append(l, e)), kinds) = e
         /\ e.event \notin kinds =>
              /\ Holding(File(Append(l, e)), kinds) = Holding(File(l), kinds)
              /\ Holding(File(l), kinds) # {} =>
                   Newest(File(Append(l, e)), kinds) = Newest(File(l), kinds)
<1> DEFINE longer == Append(l, e)
           n == Len(l)
           old == Holding(File(l), kinds)
           new == Holding(File(longer), kinds)
<1>1. /\ n \in Nat /\ Len(longer) = n + 1 /\ longer[n + 1] = e
      /\ \A i \in 1 .. n : longer[i] = l[i]
  BY OneMoreLine
<1> HIDE DEF longer
<1>2. File(l).lines = l /\ File(longer).lines = longer
  BY DEF File
<1>3. old \in SUBSET (1 .. n) /\ old \in SUBSET (0 .. n) /\ old \subseteq Nat
  BY <1>1, <1>2 DEF Holding
<1>4. \A i \in 1 .. n : i \in new <=> i \in old
  BY <1>1, <1>2 DEF Holding
<1>5. new \subseteq 1 .. n + 1 /\ (n + 1 \in new <=> e.event \in kinds) /\ n + 1 \notin old
  BY <1>1, <1>2 DEF Holding
<1>6. \A i \in 1 .. n + 1 : i \in 1 .. n \/ i = n + 1
  BY <1>1
<1>7. ASSUME e.event \in kinds PROVE new = old \cup {n + 1} /\ Newest(File(longer), kinds) = e
  <2> HIDE DEF old, new
  <2>1. new = old \cup {n + 1}
    BY <1>1, <1>3, <1>4, <1>5, <1>6, <1>7
  <2>2. new \subseteq Nat /\ n + 1 \in new /\ \A j \in new : j <= n + 1
    <3>1. \A j \in old : j \in Nat /\ j <= n + 1
      BY <1>1, <1>3
    <3>2. n + 1 \in Nat /\ n + 1 <= n + 1
      BY <1>1
    <3> QED BY <2>1, <3>1, <3>2
  <2>3. Max(new) = n + 1
    BY <2>2, MaxIs
  <2> QED BY <1>1, <1>2, <2>1, <2>3 DEF Newest, new
<1>8. ASSUME e.event \notin kinds
      PROVE  new = old /\ (old # {} => Newest(File(longer), kinds) = Newest(File(l), kinds))
  <2> HIDE DEF old, new
  <2>1. new = old
    BY <1>3, <1>4, <1>5, <1>6, <1>8
  <2>2. ASSUME old # {} PROVE Newest(File(longer), kinds) = Newest(File(l), kinds)
    <3>1. PICK m \in old : \A j \in old : j <= m
      BY <1>1, <1>3, <2>2, Extremes
    <3>2. Max(old) = m /\ m \in 1 .. n
      BY <1>3, <3>1, MaxIs
    <3> QED BY <1>1, <1>2, <2>1, <3>2 DEF Newest, old, new
  <2> QED BY <2>1, <2>2
<1> HIDE DEF old, new
<1> QED BY <1>3, <1>7, <1>8 DEF old, new, longer

\* A line more of a kind is one more line of it.
LEMMA CountAppend ==
  ASSUME NEW l, Talk(l), NEW e, NEW kinds
  PROVE  /\ Cardinality(Holding(File(l), kinds)) \in Nat
         /\ Cardinality(Holding(File(Append(l, e)), kinds))
              = Cardinality(Holding(File(l), kinds)) + (IF e.event \in kinds THEN 1 ELSE 0)
<1> DEFINE old == Holding(File(l), kinds)
<1>1. Len(l) \in Nat
  BY TalkIsSequence
<1>2. old \in SUBSET (1 .. Len(l))
  BY NewestAppend
<1>3. IsFiniteSet(1 .. Len(l)) /\ Len(l) + 1 \notin 1 .. Len(l)
  BY <1>1, FS_Interval
<1>4. IsFiniteSet(old) /\ Len(l) + 1 \notin old
  BY <1>2, <1>3, FS_Subset
<1>5. Cardinality(old) \in Nat /\ Cardinality(old \cup {Len(l) + 1}) = Cardinality(old) + 1
  BY <1>4, FS_CardinalityType, FS_AddElement
<1>6. CASE e.event \in kinds
  <2>1. Holding(File(Append(l, e)), kinds) = old \cup {Len(l) + 1}
    BY <1>6, NewestAppend
  <2> QED BY <1>5, <1>6, <2>1
<1>7. CASE e.event \notin kinds
  <2>1. Holding(File(Append(l, e)), kinds) = old
    BY <1>7, NewestAppend
  <2> QED BY <1>5, <1>7, <2>1
<1> QED BY <1>6, <1>7

Events == {"started", "resumed", "switched", "turn", "ended"}
SessionSummary == [route : ChatRoutes \cup {"none"}, turns : Nat, ended : BOOLEAN]

\* What an event does to a summary.
LEMMA SummarizedIs ==
  ASSUME NEW s \in SessionSummary, NEW e, e.event \in Events,
         e.event \in {"started", "switched"} => e.route \in ChatRoutes
  PROVE  /\ Summarized(s, e) \in SessionSummary
         /\ Summarized(s, e).route = IF e.event \in {"started", "switched"} THEN e.route ELSE s.route
         /\ Summarized(s, e).turns = s.turns + (IF e.event = "turn" THEN 1 ELSE 0)
         /\ e.event \in {"started", "resumed"} => ~Summarized(s, e).ended
         /\ e.event = "ended" => Summarized(s, e).ended
         /\ e.event \in {"switched", "turn"} => Summarized(s, e).ended = s.ended
<1>1. s.turns \in Nat /\ s.route \in ChatRoutes \cup {"none"} /\ s.ended \in BOOLEAN
  BY DEF SessionSummary
<1>2. CASE e.event = "started"
  <2>1. Summarized(s, e) = [s EXCEPT !.route = e.route, !.ended = FALSE]
    BY <1>2 DEF Summarized
  <2>2. Summarized(s, e) \in SessionSummary
    BY <1>1, <1>2, <2>1 DEF SessionSummary
  <2>3. /\ Summarized(s, e).turns = s.turns
        /\ Summarized(s, e).route = e.route
    BY <2>1 DEF SessionSummary
  <2>4. ~Summarized(s, e).ended
    BY <2>1 DEF SessionSummary
  <2>5. s.turns = s.turns + 0
    BY <1>1
  <2> QED BY <1>2, <2>2, <2>3, <2>4, <2>5
<1>3. CASE e.event = "resumed"
  <2>1. Summarized(s, e) = [s EXCEPT !.ended = FALSE]
    BY <1>3 DEF Summarized
  <2>2. Summarized(s, e) \in SessionSummary
    BY <1>1, <1>3, <2>1 DEF SessionSummary
  <2>3. /\ Summarized(s, e).turns = s.turns
        /\ Summarized(s, e).route = s.route
    BY <2>1 DEF SessionSummary
  <2>4. ~Summarized(s, e).ended
    BY <2>1 DEF SessionSummary
  <2>5. s.turns = s.turns + 0
    BY <1>1
  <2> QED BY <1>3, <2>2, <2>3, <2>4, <2>5
<1>4. CASE e.event = "switched"
  <2>1. Summarized(s, e) = [s EXCEPT !.route = e.route]
    BY <1>4 DEF Summarized
  <2> QED BY <1>1, <1>4, <2>1 DEF SessionSummary
<1>5. CASE e.event = "turn"
  <2>1. Summarized(s, e) = [s EXCEPT !.turns = s.turns + 1]
    BY <1>5 DEF Summarized
  <2> QED BY <1>1, <1>5, <2>1 DEF SessionSummary
<1>6. CASE e.event = "ended"
  <2>1. Summarized(s, e) = [s EXCEPT !.ended = TRUE]
    BY <1>6 DEF Summarized
  <2>2. Summarized(s, e) \in SessionSummary
    BY <1>1, <1>6, <2>1 DEF SessionSummary
  <2>3. /\ Summarized(s, e).turns = s.turns
        /\ Summarized(s, e).route = s.route
    BY <2>1 DEF SessionSummary
  <2>4. Summarized(s, e).ended
    BY <2>1 DEF SessionSummary
  <2>5. s.turns = s.turns + 0
    BY <1>1
  <2> QED BY <1>6, <2>2, <2>3, <2>4, <2>5
<1> QED BY <1>2, <1>3, <1>4, <1>5, <1>6 DEF Events

----------------------------------------------------------------------------
(* What the model is told.                                                 *)

\* A history that was told a context has a last one.
LEMMA ContextsAreLines ==
  ASSUME NEW h, Talk(h)
  PROVE  /\ Len(h) \in Nat /\ Contexts(h) \in SUBSET (1 .. Len(h))
         /\ Contexts(h) # {} =>
              \E i \in Contexts(h) : (\A j \in Contexts(h) : j <= i) /\ RouteTold(h) = h[i].route
<1>1. Len(h) \in Nat
  BY TalkIsSequence
<1>2. Contexts(h) \in SUBSET (1 .. Len(h)) /\ Contexts(h) \in SUBSET (0 .. Len(h)) /\ Contexts(h) \subseteq Nat
  BY <1>1 DEF Contexts
<1>3. ASSUME Contexts(h) # {}
      PROVE  \E i \in Contexts(h) : (\A j \in Contexts(h) : j <= i) /\ RouteTold(h) = h[i].route
  <2>1. PICK i \in Contexts(h) : \A j \in Contexts(h) : j <= i
    BY <1>1, <1>2, <1>3, Extremes
  <2>2. Max(Contexts(h)) = i
    BY <1>2, <2>1, MaxIs
  <2> QED BY <2>1, <2>2 DEF RouteTold
<1> QED BY <1>1, <1>2, <1>3

\* The last context, whatever is said behind it.
LEMMA ToldIs ==
  ASSUME NEW h, Talk(h), NEW i \in Contexts(h), \A j \in Contexts(h) : j <= i
  PROVE  RouteTold(h) = h[i].route
<1>1. Contexts(h) \subseteq Nat
  BY ContextsAreLines
<1>2. Max(Contexts(h)) = i
  BY <1>1, MaxIs
<1> QED BY <1>2 DEF RouteTold

\* Who is not the system tells no context.
LEMMA QuietTellsNothing ==
  ASSUME NEW h, Talk(h), Contexts(h) # {}, NEW m, Quiet(m)
  PROVE  Contexts(h \o m) # {} /\ RouteTold(h \o m) = RouteTold(h)
<1> DEFINE both == h \o m
<1>1. /\ Talk(both) /\ Len(h) \in Nat /\ Len(m) \in Nat /\ Len(both) = Len(h) + Len(m)
      /\ \A i \in 1 .. Len(h) : both[i] = h[i]
      /\ \A i \in 1 .. Len(m) : both[Len(h) + i] = m[i]
  BY Joined DEF Quiet
<1> HIDE DEF both
<1>2. PICK i \in Contexts(h) : (\A j \in Contexts(h) : j <= i) /\ RouteTold(h) = h[i].route
  BY ContextsAreLines
<1>3. i \in 1 .. Len(h) /\ h[i].role = "system"
  BY <1>2 DEF Contexts
<1>4. i \in Contexts(both) /\ both[i] = h[i]
  BY <1>1, <1>3 DEF Contexts
<1>5. ASSUME NEW j \in Contexts(both) PROVE j <= i
  <2>1. j \in 1 .. Len(both) /\ both[j].role = "system"
    BY <1>5 DEF Contexts
  <2>2. CASE j \in 1 .. Len(h)
    <3>1. j \in Contexts(h)
      BY <1>1, <2>1, <2>2 DEF Contexts
    <3> QED BY <1>2, <3>1
  <2>3. CASE j \notin 1 .. Len(h)
    <3>1. j - Len(h) \in 1 .. Len(m) /\ j = Len(h) + (j - Len(h))
      BY <1>1, <2>1, <2>3
    <3>2. m[j - Len(h)].role = "system"
      BY <1>1, <2>1, <3>1
    <3> QED BY <3>1, <3>2 DEF Quiet
  <2> QED BY <2>2, <2>3
<1>6. RouteTold(both) = both[i].route
  BY <1>1, <1>4, <1>5, ToldIs
<1> QED BY <1>2, <1>4, <1>6 DEF both

\* A context that is told is the last one.
LEMMA ContextIsTold ==
  ASSUME NEW h, Talk(h), NEW c, c.role = "system"
  PROVE  Talk(h \o << c >>) /\ Contexts(h \o << c >>) # {} /\ RouteTold(h \o << c >>) = c.route
<1> DEFINE both == h \o << c >>
           n == Len(h) + 1
<1>1. Talk(<< c >>) /\ Len(<< c >>) = 1 /\ << c >>[1] = c
  BY ListsAreTalk
<1>2. /\ Talk(both) /\ Len(h) \in Nat /\ Len(both) = Len(h) + Len(<< c >>)
      /\ \A i \in 1 .. Len(<< c >>) : both[Len(h) + i] = << c >>[i]
  BY <1>1, Joined
<1> HIDE DEF both
<1>3. 1 \in 1 .. Len(<< c >>) /\ Len(both) = n /\ n \in 1 .. n /\ n \in Nat
  BY <1>1, <1>2
<1>4. both[n] = c
  BY <1>1, <1>2, <1>3
<1>5. n \in Contexts(both) /\ \A j \in Contexts(both) : j <= n
  BY <1>3, <1>4 DEF Contexts
<1>6. RouteTold(both) = both[n].route
  BY <1>2, <1>5, ToldIs
<1> QED BY <1>2, <1>4, <1>5, <1>6 DEF both

----------------------------------------------------------------------------
(* What the lines of a chat add up to.                                     *)

ChatLines(l) ==
  /\ Lines(l)
  /\ \A i \in 1 .. Len(l) : l[i].event \in {"started", "switched"} => l[i].route \in ChatRoutes

\* The last context told is that of the last turn's route.
Tells(l) ==
  Readable(File(l)) =>
    LET h == SavedHistory(File(l)) IN
      /\ Holding(File(l), {"turn"}) = {} => h = << >>
      /\ Holding(File(l), {"turn"}) # {} =>
           Contexts(h) # {} /\ RouteTold(h) = Newest(File(l), {"turn"}).route

\* The summary is that of what resume folds.
SumsUp(l) ==
  Readable(File(l)) =>
    /\ Summary(File(l)) \in SessionSummary
    /\ Holding(File(l), {"started", "switched"}) # {} => Summary(File(l)).route = SavedRoute(File(l))
    /\ Summary(File(l)).turns = Cardinality(Holding(File(l), {"turn"}))

ChatRecord(l, e) ==
  /\ e.event \in Events
  /\ e.event \in {"started", "switched"} => e.route \in ChatRoutes
  /\ e.event = "turn" =>
       /\ Talk(e.messages)
       /\ Readable(File(l)) =>
            /\ Contexts(SavedHistory(File(l)) \o e.messages) # {}
            /\ RouteTold(SavedHistory(File(l)) \o e.messages) = e.route

\* Lines that add up still do with a record behind them.
LEMMA RecordAddsUp ==
  ASSUME NEW l, ChatLines(l), Tells(l), SumsUp(l), NEW e, ChatRecord(l, e)
  PROVE  ChatLines(Append(l, e)) /\ Tells(Append(l, e)) /\ SumsUp(Append(l, e))
<1> DEFINE longer == Append(l, e)
           n == Len(l)
<1>1. Lines(l) /\ Talk(l)
  BY DEF ChatLines, Lines
<1>2. /\ n \in Nat /\ Len(longer) = n + 1 /\ longer[n + 1] = e
      /\ \A i \in 1 .. n : longer[i] = l[i]
      /\ Lines(longer) /\ Talk(SavedHistory(File(l)))
      /\ SavedHistory(File(longer)) = SavedHistory(File(l)) \o Messages(e)
  BY <1>1, RestoredAppend DEF ChatRecord
<1>3. \A i \in 1 .. n + 1 : i \in 1 .. n \/ i = n + 1
  BY <1>2
<1>4. Readable(File(longer)) => Readable(File(l))
  <2>1. File(l).lines = l /\ File(longer).lines = longer
    BY DEF File
  <2>2. \A i \in 1 .. n : i \in 1 .. n + 1
    BY <1>2
  <2> HIDE DEF longer
  <2> QED BY <1>2, <2>1, <2>2 DEF Readable
<1>5. ChatLines(longer)
  <2> HIDE DEF longer
  <2> QED BY <1>2, <1>3 DEF ChatLines, ChatRecord
<1>6. Tells(longer)
  <2> SUFFICES ASSUME Readable(File(longer))
               PROVE  /\ Holding(File(longer), {"turn"}) = {} => SavedHistory(File(longer)) = << >>
                      /\ Holding(File(longer), {"turn"}) # {} =>
                           /\ Contexts(SavedHistory(File(longer))) # {}
                           /\ RouteTold(SavedHistory(File(longer))) = Newest(File(longer), {"turn"}).route
    BY DEF Tells
  <2>1. CASE e.event = "turn"
    <3>1. /\ Holding(File(longer), {"turn"}) = Holding(File(l), {"turn"}) \cup {n + 1}
          /\ Newest(File(longer), {"turn"}) = e
      BY <1>1, <2>1, NewestAppend
    <3>2. Messages(e) = e.messages
      BY <2>1 DEF Messages
    <3>3. /\ Contexts(SavedHistory(File(longer))) # {}
          /\ RouteTold(SavedHistory(File(longer))) = e.route
      BY <1>2, <1>4, <2>1, <3>2 DEF ChatRecord
    <3> QED BY <3>1, <3>3
  <2>2. CASE e.event # "turn"
    <3>1. /\ Holding(File(longer), {"turn"}) = Holding(File(l), {"turn"})
          /\ Holding(File(l), {"turn"}) # {} =>
               Newest(File(longer), {"turn"}) = Newest(File(l), {"turn"})
      BY <1>1, <2>2, NewestAppend
    <3>2. SavedHistory(File(longer)) = SavedHistory(File(l))
      <4>1. Messages(e) = << >>
        BY <2>2 DEF Messages
      <4> QED BY <1>2, <4>1, JoinedWithNothing
    <3> QED BY <1>4, <3>1, <3>2 DEF Tells
  <2> QED BY <2>1, <2>2
<1>7. SumsUp(longer)
  <2> SUFFICES ASSUME Readable(File(longer))
               PROVE  /\ Summary(File(longer)) \in SessionSummary
                      /\ Holding(File(longer), {"started", "switched"}) # {} =>
                           Summary(File(longer)).route = SavedRoute(File(longer))
                      /\ Summary(File(longer)).turns = Cardinality(Holding(File(longer), {"turn"}))
    BY DEF SumsUp
  <2> DEFINE s == Summary(File(l))
  <2>1. /\ s \in SessionSummary /\ s.turns = Cardinality(Holding(File(l), {"turn"}))
        /\ Holding(File(l), {"started", "switched"}) # {} => s.route = SavedRoute(File(l))
    BY <1>4 DEF SumsUp
  <2>2. Summary(File(longer)) = Summarized(s, e)
    BY <1>1, SummaryAppend
  <2>3. /\ Summarized(s, e) \in SessionSummary
        /\ Summarized(s, e).route = IF e.event \in {"started", "switched"} THEN e.route ELSE s.route
        /\ Summarized(s, e).turns = s.turns + (IF e.event = "turn" THEN 1 ELSE 0)
    BY <2>1, SummarizedIs DEF ChatRecord
  <2>4. Cardinality(Holding(File(longer), {"turn"}))
          = Cardinality(Holding(File(l), {"turn"})) + (IF e.event = "turn" THEN 1 ELSE 0)
    <3>1. e.event \in {"turn"} <=> e.event = "turn"
      OBVIOUS
    <3> QED BY <1>1, <3>1, CountAppend
  <2>5. ASSUME Holding(File(longer), {"started", "switched"}) # {}
        PROVE  Summarized(s, e).route = SavedRoute(File(longer))
    <3>1. CASE e.event \in {"started", "switched"}
      <4>1. Newest(File(longer), {"started", "switched"}) = e
        BY <1>1, <3>1, NewestAppend
      <4> QED BY <2>3, <3>1, <4>1 DEF SavedRoute
    <3>2. CASE e.event \notin {"started", "switched"}
      <4>1. /\ Holding(File(l), {"started", "switched"}) # {}
            /\ Newest(File(longer), {"started", "switched"}) = Newest(File(l), {"started", "switched"})
        BY <1>1, <2>5, <3>2, NewestAppend
      <4> QED BY <2>1, <2>3, <3>2, <4>1 DEF SavedRoute
    <3> QED BY <3>1, <3>2
  <2> QED BY <2>1, <2>2, <2>3, <2>4, <2>5
<1> QED BY <1>5, <1>6, <1>7 DEF longer

\* A line that is no record makes the file unreadable.
LEMMA CorruptAddsUp ==
  ASSUME NEW l, ChatLines(l)
  PROVE  /\ ChatLines(Append(l, Corrupt)) /\ Tells(Append(l, Corrupt)) /\ SumsUp(Append(l, Corrupt))
         /\ ~Readable(File(Append(l, Corrupt)))
<1> DEFINE longer == Append(l, Corrupt)
           n == Len(l)
<1>1. Lines(l) /\ Talk(l) /\ Corrupt.event = "corrupt"
  BY DEF ChatLines, Lines, Corrupt
<1>2. /\ n \in Nat /\ Len(longer) = n + 1 /\ longer[n + 1] = Corrupt
      /\ \A i \in 1 .. n : longer[i] = l[i] /\ Lines(longer)
  BY <1>1, RestoredAppend
<1>3. \A i \in 1 .. n + 1 : i \in 1 .. n \/ i = n + 1
  BY <1>2
<1>4. ~Readable(File(longer))
  <2>1. File(longer).lines = longer
    BY DEF File
  <2>2. n + 1 \in 1 .. Len(longer)
    BY <1>2
  <2> QED BY <1>2, <2>1, <2>2 DEF Readable
<1>5. ChatLines(longer)
  <2>1. Lines(longer)
    BY <1>1, RestoredAppend
  <2> HIDE DEF longer
  <2> QED BY <1>1, <1>2, <1>3, <2>1 DEF ChatLines
<1> QED BY <1>4, <1>5 DEF Tells, SumsUp, longer

----------------------------------------------------------------------------
(* The file of a chat.                                                     *)

ChatFile(file) ==
  /\ file.tail \in {"closed", "part"}
  /\ ChatLines(file.lines) /\ Tells(file.lines) /\ SumsUp(file.lines)

\* Only the lines matter to who folds them.
LEMMA OnlyLinesAreFolded ==
  ASSUME NEW file
  PROVE  /\ File(file.lines).lines = file.lines
         /\ SavedHistory(file) = SavedHistory(File(file.lines))
         /\ Readable(file) <=> Readable(File(file.lines))
         /\ RestoredTotals(file) = RestoredTotals(File(file.lines))
         /\ Summary(file) = Summary(File(file.lines))
         /\ SavedRoute(file) = SavedRoute(File(file.lines))
         /\ \A kinds : /\ Holding(file, kinds) = Holding(File(file.lines), kinds)
                       /\ Newest(file, kinds) = Newest(File(file.lines), kinds)
<1>1. File(file.lines).lines = file.lines
  BY DEF File
<1>2. RestoredTotals(file) = RestoredTotals(File(file.lines))
  BY <1>1 DEF RestoredTotals
<1>3. Summary(file) = Summary(File(file.lines))
  BY <1>1 DEF Summary
<1>4. SavedRoute(file) = SavedRoute(File(file.lines))
  BY OnlyLinesMatter DEF SavedRoute
<1> QED BY <1>1, <1>2, <1>3, <1>4, OnlyLinesMatter

\* Whatever is written or left of a record, the file adds up.
LEMMA ChatWrites ==
  ASSUME NEW file, ChatFile(file), NEW record, ChatRecord(file.lines, record),
         NEW kind \in {"nothing", "part", "line"},
         NEW after, after = Appended(file, record) \/ after = Leftover(file, record, kind)
  PROVE  ChatFile(after)
<1>1. CASE after = Appended(file, record)
  <2>1. CASE file.tail = "closed"
    <3>1. after.tail = "closed" /\ after.lines = Append(file.lines, record)
      BY <1>1, <2>1 DEF Appended
    <3> QED BY <3>1, RecordAddsUp DEF ChatFile
  <2>2. CASE file.tail = "part"
    <3>1. after.tail = "closed" /\ after.lines = Append(file.lines, Corrupt)
      BY <1>1, <2>2 DEF Appended
    <3> QED BY <3>1, CorruptAddsUp DEF ChatFile
  <2> QED BY <2>1, <2>2 DEF ChatFile
<1>2. CASE after = Leftover(file, record, kind)
  <2>1. CASE kind = "nothing"
    BY <1>2, <2>1 DEF Leftover
  <2>2. CASE kind = "line"
    <3>1. after = Appended(file, record)
      BY <1>2, <2>2 DEF Leftover
    <3> QED BY <1>1, <3>1
  <2>3. CASE kind = "part"
    <3>1. after = [lines |-> IF file.tail = "whole" THEN Front(file.lines) ELSE file.lines, tail |-> "part"]
      BY <1>2, <2>3 DEF Leftover
    <3>2. file.tail # "whole"
      BY DEF ChatFile
    <3>3. after.lines = file.lines /\ after.tail = "part"
      BY <3>1, <3>2
    <3> QED BY <3>3 DEF ChatFile
  <2> QED BY <2>1, <2>2, <2>3
<1> QED BY <1>1, <1>2

\* If a file can be read behind a record, it could before, and holds that much more.
LEMMA RecordIsFolded ==
  ASSUME NEW file, ChatFile(file), NEW record, ChatRecord(file.lines, record),
         NEW after, after = Appended(file, record), Readable(after)
  PROVE  /\ after.tail = "closed" /\ file.tail = "closed" /\ Readable(file)
         /\ SavedHistory(after) = SavedHistory(file) \o Messages(record)
         /\ Talk(SavedHistory(file))
         /\ RestoredTotals(after) = WithLine(RestoredTotals(file), record)
         /\ Summary(after) = Summarized(Summary(file), record) /\ Summary(file) \in SessionSummary
         /\ record.event \in {"started", "switched"} => SavedRoute(after) = record.route
         /\ Holding(file, {"started"}) # {} /\ record.event \notin {"started", "switched"} =>
              SavedRoute(after) = SavedRoute(file)
         /\ Holding(file, {"started"}) # {} \/ record.event = "started" => Holding(after, {"started"}) # {}
<1> DEFINE l == file.lines
           longer == Append(l, record)
           routes == {"started", "switched"}
<1>1. ChatLines(l) /\ Lines(l) /\ Talk(l) /\ file.tail \in {"closed", "part"} /\ SumsUp(l)
  BY DEF ChatFile, ChatLines, Lines
<1>2. after.tail = "closed" /\ after.lines = IF file.tail = "closed" THEN longer ELSE Append(l, Corrupt)
  BY <1>1 DEF Appended
<1>3. file.tail = "closed" /\ after.lines = longer
  <2>1. ~Readable(File(Append(l, Corrupt)))
    BY <1>1, CorruptAddsUp
  <2>2. Readable(File(after.lines))
    BY OnlyLinesAreFolded
  <2> QED BY <1>1, <1>2, <2>1, <2>2
<1>4. /\ Len(l) \in Nat /\ Len(longer) = Len(l) + 1
      /\ \A i \in 1 .. Len(l) : longer[i] = l[i]
      /\ Talk(SavedHistory(File(l)))
      /\ SavedHistory(File(longer)) = SavedHistory(File(l)) \o Messages(record)
  BY <1>1, RestoredAppend DEF ChatRecord
<1>5. Readable(File(l))
  <2>1. File(l).lines = l /\ File(longer).lines = longer
    BY DEF File
  <2>2. Readable(File(longer))
    BY <1>3, OnlyLinesAreFolded
  <2>3. \A i \in 1 .. Len(l) : i \in 1 .. Len(longer)
    BY <1>4
  <2> HIDE DEF longer, l
  <2> QED BY <1>4, <2>1, <2>2, <2>3 DEF Readable
<1>6. Summary(File(l)) \in SessionSummary
  BY <1>1, <1>5 DEF SumsUp
<1>7. /\ RestoredTotals(File(longer)) = WithLine(RestoredTotals(File(l)), record)
      /\ Summary(File(longer)) = Summarized(Summary(File(l)), record)
  BY <1>1, RestoredTotalsAppend, SummaryAppend
<1>8. /\ SavedHistory(after) = SavedHistory(File(longer)) /\ SavedHistory(file) = SavedHistory(File(l))
      /\ RestoredTotals(after) = RestoredTotals(File(longer))
      /\ RestoredTotals(file) = RestoredTotals(File(l))
      /\ Summary(after) = Summary(File(longer)) /\ Summary(file) = Summary(File(l))
      /\ SavedRoute(after) = SavedRoute(File(longer)) /\ SavedRoute(file) = SavedRoute(File(l))
      /\ Readable(file)
      /\ \A kinds : /\ Holding(after, kinds) = Holding(File(longer), kinds)
                    /\ Holding(file, kinds) = Holding(File(l), kinds)
  BY <1>3, <1>5, OnlyLinesAreFolded
<1>9. record.event \in routes => SavedRoute(File(longer)) = record.route
  BY <1>1, NewestAppend DEF SavedRoute
<1>10. Holding(File(l), {"started"}) # {} /\ record.event \notin routes =>
         SavedRoute(File(longer)) = SavedRoute(File(l))
  <2>1. Holding(File(l), {"started"}) \subseteq Holding(File(l), routes)
    BY DEF Holding
  <2> QED BY <1>1, <2>1, NewestAppend DEF SavedRoute
<1>11. Holding(File(l), {"started"}) # {} \/ record.event = "started" =>
         Holding(File(longer), {"started"}) # {}
  <2>1. record.event = "started" =>
          Holding(File(longer), {"started"}) = Holding(File(l), {"started"}) \cup {Len(l) + 1}
    BY <1>1, NewestAppend
  <2>2. record.event # "started" => Holding(File(longer), {"started"}) = Holding(File(l), {"started"})
    BY <1>1, NewestAppend
  <2> QED BY <2>1, <2>2
<1> HIDE DEF longer, l
<1> QED BY <1>2, <1>3, <1>4, <1>6, <1>7, <1>8, <1>9, <1>10, <1>11

\* The newest line of these kinds is one of them.
LEMMA NewestIsLine ==
  ASSUME NEW file, Talk(file.lines), NEW kinds, Holding(file, kinds) # {}
  PROVE  \E i \in 1 .. Len(file.lines) : file.lines[i].event \in kinds /\ Newest(file, kinds) = file.lines[i]
<1> DEFINE lines == Holding(file, kinds)
<1>1. Len(file.lines) \in Nat
  BY TalkIsSequence
<1>2. lines \in SUBSET (0 .. Len(file.lines)) /\ lines \subseteq Nat
  BY <1>1 DEF Holding
<1>3. PICK i \in lines : \A j \in lines : j <= i
  BY <1>1, <1>2, Extremes
<1>4. Max(lines) = i
  BY <1>2, <1>3, MaxIs
<1>5. i \in 1 .. Len(file.lines) /\ file.lines[i].event \in kinds
  BY <1>3 DEF Holding
<1> QED BY <1>4, <1>5 DEF Newest

----------------------------------------------------------------------------
(* What a chat keeps.                                                      *)

ChatBounds == [tasks : Nat, switches : Nat, launches : Nat, faults : Nat]

ChatShape ==
  /\ chUp \in BOOLEAN /\ chConnected \in BOOLEAN /\ chFailed \in BOOLEAN /\ chQuit \in BOOLEAN
  /\ chSpent \in ChatBounds
  /\ ChatFile(chLedger)

\* The ledger of a process that saves is what the process knows.
AllIsSaved ==
  chUp /\ ~chFailed =>
    /\ chLedger.tail = "closed"
    /\ Readable(chLedger) =>
         /\ Holding(chLedger, {"started"}) # {}
         /\ chHistory = SavedHistory(chLedger)
         /\ chTotals = RestoredTotals(chLedger)
         /\ chRoute = SavedRoute(chLedger)

\* The last context told, or told next, is that of the route.
ToldLast(h, pending, route) ==
  /\ Talk(h)
  /\ h # << >> =>
       /\ Contexts(h) # {}
       /\ (IF pending # "none" THEN pending ELSE RouteTold(h)) = route
  /\ pending # "none" => h # << >>
RouteIsTold == chUp => ToldLast(chHistory, chPending, chRoute)

LinkIsRouted ==
  chUp =>
    /\ chRoute \in ChatRoutes /\ chAgent = chRoute
    /\ chCached \in {"none", chRoute}
    /\ chConnected => chAgent \in chKeys
    /\ \A out \in WaysOut : chKeys \subseteq chScrubbers[out]
    /\ ~chQuit

\* Before the first process there is nothing.
NothingBefore ==
  chSpent.launches = 0 =>
    /\ ~chUp /\ chLedger = NoFile
    /\ chHistory = << >> /\ chPending = "none" /\ chTotals = NoTotals

\* Without a failed append the summary knows who quit.
QuitIsListed ==
  chSpent.launches # 0 /\ chSpent.faults = 0 /\ Readable(chLedger) =>
    Holding(chLedger, {"started"}) # {} /\ (Summary(chLedger).ended <=> chQuit)

ChatInv ==
  /\ ChatShape /\ AllIsSaved /\ RouteIsTold /\ LinkIsRouted
  /\ NothingBefore /\ QuitIsListed
  /\ chFailed => chSpent.faults # 0

\* What one more use of a bound leaves.
LEMMA OneMoreUse ==
  ASSUME chSpent \in ChatBounds, NEW what \in {"tasks", "switches", "launches"}
  PROVE  /\ OneMore(what) \in ChatBounds /\ OneMore(what).faults = chSpent.faults
         /\ what = "launches" \/ chSpent.launches # 0 => OneMore(what).launches # 0
<1> DEFINE n == chSpent[what] + 1
<1>1. /\ chSpent[what] \in Nat /\ chSpent.launches \in Nat /\ chSpent.tasks \in Nat
      /\ chSpent.switches \in Nat /\ chSpent.faults \in Nat
  BY DEF ChatBounds
<1>2. n \in Nat /\ n # 0
  BY <1>1
<1>3. OneMore(what) = [chSpent EXCEPT ![what] = n]
  BY DEF OneMore
<1> HIDE DEF n
<1>4. OneMore(what) \in ChatBounds
  BY <1>2, <1>3 DEF ChatBounds
<1>5. OneMore(what).faults = chSpent.faults
  BY <1>3 DEF ChatBounds
<1>6. OneMore(what).launches = IF what = "launches" THEN n ELSE chSpent.launches
  BY <1>3 DEF ChatBounds
<1> QED BY <1>2, <1>4, <1>5, <1>6

\* What an append leaves, whether it succeeds or not.
LEMMA WhatIsSaved ==
  ASSUME ChatShape, NEW record, ~chFailed => ChatRecord(chLedger.lines, record),
         NEW counted \in ChatBounds, counted.faults = chSpent.faults, Saves(record, counted)
  PROVE  /\ ChatFile(chLedger') /\ chFailed' \in BOOLEAN /\ chSpent' \in ChatBounds
         /\ chSpent'.launches = counted.launches
         /\ chFailed' => chFailed \/ chSpent'.faults # 0
         /\ ~chFailed' => ~chFailed /\ chLedger' = Appended(chLedger, record)
         /\ chSpent'.faults = 0 => chSpent.faults = 0 /\ chFailed' = chFailed
         /\ chFailed => chFailed' /\ chSpent'.faults = chSpent.faults
<1>1. ChatFile(chLedger) /\ chFailed \in BOOLEAN
  BY DEF ChatShape
<1>2. CASE /\ chLedger' = IF chFailed THEN chLedger ELSE Appended(chLedger, record)
           /\ chSpent' = counted /\ UNCHANGED chFailed
  <2>1. ChatFile(chLedger')
    <3>1. CASE chFailed
      BY <1>1, <1>2, <3>1
    <3>2. CASE ~chFailed
      <4>1. chLedger' = Appended(chLedger, record) /\ "nothing" \in {"nothing", "part", "line"}
        BY <1>2, <3>2
      <4>2. ChatRecord(chLedger.lines, record)
        BY <3>2
      <4> QED BY <1>1, <4>1, <4>2, ChatWrites
    <3> QED BY <3>1, <3>2
  <2> QED BY <1>1, <1>2, <2>1
<1>3. CASE /\ ~chFailed
           /\ \E kind \in {"nothing", "part", "line"} : chLedger' = Leftover(chLedger, record, kind)
           /\ chSpent' = [counted EXCEPT !.faults = @ + 1]
           /\ chFailed' = TRUE
  <2>1. PICK kind \in {"nothing", "part", "line"} : chLedger' = Leftover(chLedger, record, kind)
    BY <1>3
  <2>2. ChatFile(chLedger')
    <3>1. ChatRecord(chLedger.lines, record)
      BY <1>3
    <3> QED BY <1>1, <2>1, <3>1, ChatWrites
  <2> DEFINE n == counted.faults + 1
  <2>3. n \in Nat /\ n # 0
    BY DEF ChatBounds
  <2>4. chSpent' = [counted EXCEPT !.faults = n]
    BY <1>3
  <2> HIDE DEF n
  <2>5. chSpent' \in ChatBounds
    BY <2>3, <2>4 DEF ChatBounds
  <2>6. chSpent'.faults # 0 /\ chSpent'.launches = counted.launches
    BY <2>3, <2>4 DEF ChatBounds
  <2> QED BY <1>3, <2>2, <2>5, <2>6
<1> QED BY <1>2, <1>3 DEF Saves

\* The empty file adds up to nothing.
LEMMA EmptyFile ==
  /\ ChatFile(NoFile) /\ Readable(NoFile)
  /\ SavedHistory(NoFile) = << >> /\ RestoredTotals(NoFile) = NoTotals
  /\ \A kinds : Holding(NoFile, kinds) = {}
<1>1. NoFile = File(<< >>) /\ NoFile.lines = << >> /\ NoFile.tail = "closed"
  BY DEF NoFile, File
<1>2. Talk(<< >>) /\ Len(<< >>) = 0 /\ \A i \in 1 .. 0 : FALSE
  BY ListsAreTalk
<1>3. Readable(NoFile) /\ \A kinds : Holding(NoFile, kinds) = {}
  BY <1>1, <1>2 DEF Readable, Holding
<1>4. /\ SavedHistory(NoFile) = << >> /\ RestoredTotals(NoFile) = NoTotals
      /\ Summary(NoFile) = NoSummary
  BY <1>1, <1>2, NothingRestored, RestoredTotalsAppend, SummaryAppend
<1>5. ChatLines(<< >>)
  BY <1>2 DEF ChatLines, Lines
<1>6. Tells(<< >>)
  BY <1>1, <1>3, <1>4 DEF Tells
<1>7. SumsUp(<< >>)
  <2>1. NoSummary \in SessionSummary /\ NoSummary.turns = 0
    BY DEF NoSummary, SessionSummary
  <2>2. Cardinality(Holding(NoFile, {"turn"})) = 0
    BY <1>3, FS_EmptySet
  <2> QED BY <1>1, <1>3, <1>4, <2>1, <2>2 DEF SumsUp
<1> QED BY <1>1, <1>3, <1>4, <1>5, <1>6, <1>7 DEF ChatFile

LEMMA ChatStarts == ChatInit => ChatInv
<1> SUFFICES ASSUME ChatInit
             PROVE  ChatInv
  OBVIOUS
<1>1. [tasks |-> 0, switches |-> 0, launches |-> 0, faults |-> 0] \in ChatBounds
  BY DEF ChatBounds
<1>2. ChatShape
  BY <1>1, EmptyFile DEF ChatInit, ChatShape
<1>3. AllIsSaved /\ RouteIsTold /\ LinkIsRouted
  BY DEF ChatInit, AllIsSaved, RouteIsTold, LinkIsRouted
<1>4. NothingBefore /\ QuitIsListed /\ ~chFailed
  BY DEF ChatInit, NothingBefore, QuitIsListed
<1> QED BY <1>2, <1>3, <1>4 DEF ChatInv

\* A chat whose parts hold resumes faithfully.
LEMMA ChatIsFaithful == ChatInv => ChatResumesFaithfully
<1> SUFFICES ASSUME ChatInv
             PROVE  ChatResumesFaithfully
  OBVIOUS
<1>1. LiveChatIsSaved
  <2>1. chHistory # << >> /\ chUp =>
          (IF chPending # "none" THEN chPending ELSE RouteTold(chHistory)) = chRoute
    BY DEF ChatInv, RouteIsTold, ToldLast
  <2> QED BY <2>1 DEF ChatInv, AllIsSaved, LinkIsRouted, LiveChatIsSaved
<1>2. ChatFile(chLedger)
  BY DEF ChatInv, ChatShape
<1>3. ASSUME NEW summary \in Listed(chLedger)
      PROVE  summary.route = SavedRoute(chLedger) /\ summary.turns = Cardinality(Holding(chLedger, {"turn"}))
  <2> DEFINE l == chLedger.lines
  <2>1. Resumable(chLedger) /\ summary = Summary(chLedger)
    BY DEF Listed
  <2>2. /\ Readable(File(l)) /\ summary = Summary(File(l))
        /\ SavedRoute(chLedger) = SavedRoute(File(l))
        /\ \A kinds : Holding(chLedger, kinds) = Holding(File(l), kinds)
    BY <2>1, OnlyLinesAreFolded DEF Resumable
  <2>3. Holding(File(l), {"started"}) # {}
    BY <2>1, <2>2 DEF Resumable
  <2>4. Holding(File(l), {"started"}) \subseteq Holding(File(l), {"started", "switched"})
    BY DEF Holding
  <2>5. SumsUp(l)
    BY <1>2 DEF ChatFile
  <2> HIDE DEF l
  <2> QED BY <2>2, <2>3, <2>4, <2>5 DEF SumsUp
<1>4. ASSUME chSpent.launches > 0, chSpent.faults = 0, Readable(chLedger)
      PROVE  (Interrupted(chLedger) # {}) = ~chQuit
  <2>1. chSpent.launches # 0
    BY <1>4 DEF ChatInv, ChatShape, ChatBounds
  <2>2. Holding(chLedger, {"started"}) # {} /\ (Summary(chLedger).ended <=> chQuit)
    BY <1>4, <2>1 DEF ChatInv, QuitIsListed
  <2>3. Listed(chLedger) = {Summary(chLedger)}
    BY <1>4, <2>2 DEF Listed, Resumable
  <2>4. Interrupted(chLedger) # {} <=> ~Summary(chLedger).ended
    BY <2>3 DEF Interrupted
  <2>5. chQuit \in BOOLEAN
    BY DEF ChatInv, ChatShape
  <2> QED BY <2>2, <2>4, <2>5
<1>5. ListingIsTrue
  BY <1>3, <1>4 DEF ListingIsTrue
<1> QED BY <1>1, <1>5 DEF ChatResumesFaithfully

----------------------------------------------------------------------------
(* What a step keeps.                                                      *)

\* A record that is no turn changes neither the history nor the totals.
LEMMA NoTurnIsFolded ==
  ASSUME NEW file, ChatFile(file), NEW record, ChatRecord(file.lines, record), record.event # "turn",
         NEW after, after = Appended(file, record), Readable(after)
  PROVE  /\ SavedHistory(after) = SavedHistory(file)
         /\ RestoredTotals(after) = RestoredTotals(file)
<1>1. /\ SavedHistory(after) = SavedHistory(file) \o Messages(record)
      /\ Talk(SavedHistory(file))
      /\ RestoredTotals(after) = WithLine(RestoredTotals(file), record)
  BY RecordIsFolded
<1>2. Messages(record) = << >> /\ WithLine(RestoredTotals(file), record) = RestoredTotals(file)
  BY DEF Messages, WithLine
<1> QED BY <1>1, <1>2, JoinedWithNothing

\* Starting and switching a chat, resuming and ending it, are records of a chat.
LEMMA RecordsOfChat ==
  ASSUME NEW l
  PROVE  /\ \A route \in ChatRoutes :
              /\ ChatRecord(l, Started(route)) /\ Started(route).event = "started"
              /\ Started(route).route = route
              /\ ChatRecord(l, RouteSwitched(route)) /\ RouteSwitched(route).event = "switched"
              /\ RouteSwitched(route).route = route
         /\ ChatRecord(l, Resumed) /\ Resumed.event = "resumed"
         /\ ChatRecord(l, Ended) /\ Ended.event = "ended"
BY DEF ChatRecord, Events, Started, RouteSwitched, Resumed, Ended

\* A process that starts has its key in every scrubber, and runs on its route.
LEMMA StartIsRouted ==
  ASSUME NEW route \in ChatRoutes, Starts(route)
  PROVE  chUp' = TRUE /\ chQuit' = FALSE /\ chRoute' = route /\ chConnected' \in BOOLEAN /\ LinkIsRouted'
<1>1. chConnected' \in BOOLEAN /\ (chConnected' => chAgent' \in chKeys')
  BY DEF Starts
<1>2. \A out \in WaysOut : chKeys' \subseteq chScrubbers'[out]
  BY DEF Starts
<1> QED BY <1>1, <1>2 DEF Starts, LinkIsRouted

LEMMA OpenKeeps == ASSUME ChatInv, OpenChat PROVE ChatInv'
<1>1. PICK route \in ChatRoutes : Starts(route) /\ Saves(Started(route), OneMore("launches"))
  BY DEF OpenChat
<1> DEFINE record == Started(route)
<1>2. /\ ChatShape /\ ~chUp /\ chLedger = NoFile
      /\ chHistory' = << >> /\ chPending' = "none" /\ chTotals' = NoTotals
  BY DEF OpenChat, ChatInv, NothingBefore
<1>3. /\ ChatRecord(chLedger.lines, record)
      /\ record.event = "started" /\ record.route = route
  BY RecordsOfChat
<1>4. /\ chUp' = TRUE /\ chQuit' = FALSE /\ chRoute' = route /\ chConnected' \in BOOLEAN /\ LinkIsRouted'
  BY <1>1, StartIsRouted
<1>5. /\ OneMore("launches") \in ChatBounds /\ OneMore("launches").faults = chSpent.faults
      /\ OneMore("launches").launches # 0
  BY <1>2, OneMoreUse DEF ChatShape
<1>6. Saves(record, OneMore("launches"))
  BY <1>1
<1> HIDE DEF record
<1>7. /\ ChatFile(chLedger') /\ chFailed' \in BOOLEAN /\ chSpent' \in ChatBounds
      /\ chSpent'.launches # 0
      /\ chFailed' => chFailed \/ chSpent'.faults # 0
      /\ ~chFailed' => ~chFailed /\ chLedger' = Appended(chLedger, record)
      /\ chSpent'.faults = 0 => chSpent.faults = 0 /\ chFailed' = chFailed
      /\ chFailed => chSpent'.faults = chSpent.faults
  BY <1>2, <1>3, <1>5, <1>6, WhatIsSaved
<1>8. ChatShape'
  BY <1>4, <1>7 DEF ChatShape
<1>9. chFailed' => chSpent'.faults # 0
  BY <1>7 DEF ChatInv
<1>10. ASSUME ~chFailed', Readable(chLedger')
       PROVE  /\ Holding(chLedger', {"started"}) # {}
              /\ SavedHistory(chLedger') = << >> /\ RestoredTotals(chLedger') = NoTotals
              /\ SavedRoute(chLedger') = route /\ ~Summary(chLedger').ended
  <2>1. ChatFile(chLedger) /\ chLedger' = Appended(chLedger, record)
    BY <1>2, <1>7, <1>10 DEF ChatShape
  <2>2. /\ SavedHistory(chLedger') = << >> /\ RestoredTotals(chLedger') = NoTotals
    BY <1>2, <1>3, <1>10, <2>1, EmptyFile, NoTurnIsFolded
  <2>3. /\ Summary(chLedger') = Summarized(Summary(chLedger), record)
        /\ Summary(chLedger) \in SessionSummary
        /\ SavedRoute(chLedger') = route /\ Holding(chLedger', {"started"}) # {}
    BY <1>3, <1>10, <2>1, RecordIsFolded
  <2>4. ~Summarized(Summary(chLedger), record).ended
    BY <1>3, <2>3, SummarizedIs DEF ChatRecord
  <2> QED BY <2>2, <2>3, <2>4
<1>11. ~chFailed' => chLedger'.tail = "closed"
  BY <1>7 DEF Appended
<1>12. AllIsSaved'
  BY <1>2, <1>4, <1>10, <1>11 DEF AllIsSaved
<1>13. RouteIsTold'
  <2>1. ToldLast(<< >>, "none", route)
    BY ListsAreTalk DEF ToldLast
  <2> QED BY <1>2, <1>4, <2>1 DEF RouteIsTold
<1>14. NothingBefore'
  BY <1>7 DEF NothingBefore
<1>15. QuitIsListed'
  BY <1>4, <1>9, <1>10 DEF QuitIsListed
<1> QED BY <1>4, <1>8, <1>9, <1>12, <1>13, <1>14, <1>15 DEF ChatInv

\* What resume restores from a file that adds up.
LEMMA WhatIsRestored ==
  ASSUME NEW file, ChatFile(file), Resumable(file)
  PROVE  /\ SavedRoute(file) \in ChatRoutes /\ Talk(SavedHistory(file))
         /\ SavedHistory(file) # << >> =>
              /\ Contexts(SavedHistory(file)) # {}
              /\ RouteTold(SavedHistory(file)) = Newest(file, {"turn"}).route
<1> DEFINE l == file.lines
           h == SavedHistory(File(l))
<1>1. ChatLines(l) /\ Lines(l) /\ Talk(l) /\ Tells(l)
  BY DEF ChatFile, ChatLines, Lines
<1>2. /\ Readable(File(l)) /\ SavedHistory(file) = h
      /\ \A kinds : /\ Holding(file, kinds) = Holding(File(l), kinds)
                    /\ Newest(file, kinds) = Newest(File(l), kinds)
  BY OnlyLinesAreFolded DEF Resumable
<1>3. Talk(h)
  <2>1. Corrupt.event = "turn" => Talk(Corrupt.messages)
    BY DEF Corrupt
  <2> QED BY <1>1, <2>1, RestoredAppend
<1>4. h # << >> => Contexts(h) # {} /\ RouteTold(h) = Newest(file, {"turn"}).route
  BY <1>1, <1>2 DEF Tells
<1>5. SavedRoute(file) \in ChatRoutes
  <2>1. Holding(file, {"started"}) \subseteq Holding(file, {"started", "switched"})
    BY DEF Holding
  <2>2. Holding(file, {"started", "switched"}) # {}
    BY <2>1 DEF Resumable
  <2>3. PICK i \in 1 .. Len(l) :
          l[i].event \in {"started", "switched"} /\ Newest(file, {"started", "switched"}) = l[i]
    BY <1>1, <2>2, NewestIsLine
  <2> QED BY <1>1, <2>3 DEF ChatLines, SavedRoute
<1> HIDE DEF h
<1> QED BY <1>2, <1>3, <1>4, <1>5

LEMMA ResumeKeeps == ASSUME ChatInv, ResumeChat PROVE ChatInv'
<1> DEFINE route == SavedRoute(chLedger)
           h == SavedHistory(chLedger)
           totals == RestoredTotals(chLedger)
<1>1. /\ ChatShape /\ ~chUp /\ Resumable(chLedger) /\ Starts(route)
      /\ chHistory' = h
      /\ chPending' = IF chHistory' # << >> /\ Newest(chLedger, {"turn"}).route # chRoute'
                      THEN chRoute' ELSE "none"
      /\ chLedger.tail # "part" => chTotals' = totals
      /\ Saves(Resumed, OneMore("launches"))
  BY DEF ChatInv, ResumeChat
<1>2. /\ ChatFile(chLedger) /\ ChatRecord(chLedger.lines, Resumed) /\ Resumed.event = "resumed"
  BY <1>1, RecordsOfChat DEF ChatShape
<1>3. /\ route \in ChatRoutes /\ Talk(h)
      /\ h # << >> => Contexts(h) # {} /\ RouteTold(h) = Newest(chLedger, {"turn"}).route
  BY <1>1, <1>2, WhatIsRestored
<1> HIDE DEF route, h, totals
<1>4. /\ chUp' = TRUE /\ chQuit' = FALSE /\ chRoute' = route /\ chConnected' \in BOOLEAN /\ LinkIsRouted'
  BY <1>1, <1>3, StartIsRouted
<1>5. /\ OneMore("launches") \in ChatBounds /\ OneMore("launches").faults = chSpent.faults
      /\ OneMore("launches").launches # 0
  BY <1>1, OneMoreUse DEF ChatShape
<1>6. /\ ChatFile(chLedger') /\ chFailed' \in BOOLEAN /\ chSpent' \in ChatBounds
      /\ chSpent'.launches # 0
      /\ chFailed' => chFailed \/ chSpent'.faults # 0
      /\ ~chFailed' => ~chFailed /\ chLedger' = Appended(chLedger, Resumed)
      /\ chSpent'.faults = 0 => chSpent.faults = 0 /\ chFailed' = chFailed
      /\ chFailed => chSpent'.faults = chSpent.faults
  BY <1>1, <1>2, <1>5, WhatIsSaved
<1>7. ChatShape'
  BY <1>4, <1>6 DEF ChatShape
<1>8. chFailed' => chSpent'.faults # 0
  BY <1>6 DEF ChatInv
<1>9. ASSUME ~chFailed', Readable(chLedger')
      PROVE  /\ Holding(chLedger', {"started"}) # {}
             /\ SavedHistory(chLedger') = h /\ RestoredTotals(chLedger') = chTotals'
             /\ SavedRoute(chLedger') = route /\ ~Summary(chLedger').ended
  <2>1. chLedger' = Appended(chLedger, Resumed) /\ Holding(chLedger, {"started"}) # {}
    BY <1>1, <1>6, <1>9 DEF Resumable
  <2>2. SavedHistory(chLedger') = h /\ RestoredTotals(chLedger') = totals
    BY <1>2, <1>9, <2>1, NoTurnIsFolded DEF h, totals
  <2>3. /\ Summary(chLedger') = Summarized(Summary(chLedger), Resumed)
        /\ Summary(chLedger) \in SessionSummary /\ chLedger.tail = "closed"
        /\ SavedRoute(chLedger') = route /\ Holding(chLedger', {"started"}) # {}
    BY <1>2, <1>9, <2>1, RecordIsFolded DEF route
  <2>4. ~Summarized(Summary(chLedger), Resumed).ended
    BY <1>2, <2>3, SummarizedIs DEF ChatRecord
  <2> QED BY <1>1, <2>2, <2>3, <2>4
<1>10. ~chFailed' => chLedger'.tail = "closed"
  BY <1>6 DEF Appended
<1>11. AllIsSaved'
  BY <1>1, <1>4, <1>9, <1>10 DEF AllIsSaved
<1>12. RouteIsTold'
  <2>1. ToldLast(h, chPending', route)
    BY <1>1, <1>3, <1>4, ChatAssumption DEF ToldLast
  <2> QED BY <1>1, <1>4, <2>1 DEF RouteIsTold
<1>13. NothingBefore'
  BY <1>6 DEF NothingBefore
<1>14. QuitIsListed'
  BY <1>4, <1>8, <1>9 DEF QuitIsListed
<1> QED BY <1>4, <1>7, <1>8, <1>11, <1>12, <1>13, <1>14 DEF ChatInv

\* What a live process saves goes on in its ledger as it does in its memory.
LEMMA LiveProcessSaves ==
  ASSUME ChatInv, chUp, NEW record, record.event \in {"switched", "turn"},
         ~chFailed => ChatRecord(chLedger.lines, record),
         NEW counted \in ChatBounds, counted.faults = chSpent.faults, counted.launches # 0,
         Saves(record, counted), chUp' = chUp, chQuit' = chQuit, chConnected' \in BOOLEAN
  PROVE  /\ ChatShape' /\ NothingBefore' /\ QuitIsListed' /\ (chFailed' => chSpent'.faults # 0)
         /\ ~chFailed' =>
              /\ ~chFailed /\ chLedger'.tail = "closed"
              /\ Readable(chLedger') =>
                   /\ Holding(chLedger', {"started"}) # {}
                   /\ SavedHistory(chLedger') = chHistory \o Messages(record)
                   /\ RestoredTotals(chLedger') = WithLine(chTotals, record)
                   /\ SavedRoute(chLedger') = IF record.event = "switched" THEN record.route ELSE chRoute
<1>1. /\ ChatShape /\ ChatFile(chLedger) /\ chSpent \in ChatBounds /\ chQuit \in BOOLEAN
      /\ chUp \in BOOLEAN
  BY DEF ChatInv, ChatShape
<1>2. /\ ChatFile(chLedger') /\ chFailed' \in BOOLEAN /\ chSpent' \in ChatBounds
      /\ chSpent'.launches # 0
      /\ chFailed' => chFailed \/ chSpent'.faults # 0
      /\ ~chFailed' => ~chFailed /\ chLedger' = Appended(chLedger, record)
      /\ chSpent'.faults = 0 => chSpent.faults = 0 /\ chFailed' = chFailed
      /\ chFailed => chSpent'.faults = chSpent.faults
  BY <1>1, WhatIsSaved
<1>3. ChatShape'
  BY <1>1, <1>2 DEF ChatShape
<1>4. chFailed' => chSpent'.faults # 0
  BY <1>2 DEF ChatInv
<1>5. ASSUME ~chFailed', Readable(chLedger')
      PROVE  /\ Holding(chLedger', {"started"}) # {}
             /\ SavedHistory(chLedger') = chHistory \o Messages(record)
             /\ RestoredTotals(chLedger') = WithLine(chTotals, record)
             /\ SavedRoute(chLedger') = IF record.event = "switched" THEN record.route ELSE chRoute
             /\ Readable(chLedger)
             /\ Summary(chLedger') = Summarized(Summary(chLedger), record)
             /\ Summary(chLedger) \in SessionSummary
  <2>1. ~chFailed /\ chLedger' = Appended(chLedger, record)
    BY <1>2, <1>5
  <2>2. ChatRecord(chLedger.lines, record)
    BY <2>1
  <2>3. /\ Readable(chLedger)
        /\ SavedHistory(chLedger') = SavedHistory(chLedger) \o Messages(record)
        /\ RestoredTotals(chLedger') = WithLine(RestoredTotals(chLedger), record)
        /\ Summary(chLedger') = Summarized(Summary(chLedger), record)
        /\ Summary(chLedger) \in SessionSummary
        /\ record.event \in {"started", "switched"} => SavedRoute(chLedger') = record.route
        /\ Holding(chLedger, {"started"}) # {} /\ record.event \notin {"started", "switched"} =>
             SavedRoute(chLedger') = SavedRoute(chLedger)
        /\ Holding(chLedger, {"started"}) # {} => Holding(chLedger', {"started"}) # {}
    BY <1>1, <1>5, <2>1, <2>2, RecordIsFolded
  <2>4. /\ Holding(chLedger, {"started"}) # {}
        /\ chHistory = SavedHistory(chLedger) /\ chTotals = RestoredTotals(chLedger)
        /\ chRoute = SavedRoute(chLedger)
    BY <2>1, <2>3 DEF ChatInv, AllIsSaved
  <2> QED BY <2>3, <2>4
<1>6. ~chFailed' => chLedger'.tail = "closed"
  BY <1>2 DEF Appended
<1>7. NothingBefore'
  BY <1>2 DEF NothingBefore
<1>8. QuitIsListed'
  <2> SUFFICES ASSUME chSpent'.launches # 0, chSpent'.faults = 0, Readable(chLedger')
               PROVE  Holding(chLedger', {"started"}) # {} /\ (Summary(chLedger').ended <=> chQuit')
    BY DEF QuitIsListed
  <2>1. ~chFailed' /\ chSpent.faults = 0
    BY <1>2, <1>4
  <2>2. /\ Holding(chLedger', {"started"}) # {} /\ Readable(chLedger)
        /\ Summary(chLedger') = Summarized(Summary(chLedger), record)
        /\ Summary(chLedger) \in SessionSummary
    BY <1>5, <2>1
  <2>3. chSpent.launches # 0
    BY DEF ChatInv, NothingBefore
  <2>4. Summary(chLedger).ended <=> chQuit
    BY <2>1, <2>2, <2>3 DEF ChatInv, QuitIsListed
  <2>5. ChatRecord(chLedger.lines, record)
    BY <1>2, <2>1
  <2>6. Summary(chLedger').ended = Summary(chLedger).ended
    BY <2>2, <2>5, SummarizedIs DEF ChatRecord
  <2> QED BY <2>2, <2>4, <2>6
<1> QED BY <1>2, <1>3, <1>4, <1>5, <1>6, <1>7, <1>8

LEMMA SwitchKeeps == ASSUME ChatInv, SwitchModel PROVE ChatInv'
<1>1. PICK route \in ChatRoutes :
        /\ Install(route) /\ chRoute' = route
        /\ chPending' = IF route = chRoute THEN chPending
                        ELSE IF chHistory = << >> THEN "none" ELSE route
        /\ chCached' = CacheAfterSwitch(chCached)
        /\ Saves(RouteSwitched(route), OneMore("switches"))
  BY DEF SwitchModel
<1> DEFINE record == RouteSwitched(route)
<1>2. /\ ChatShape /\ chUp /\ chUp' = chUp /\ chQuit' = chQuit
      /\ chHistory' = chHistory /\ chTotals' = chTotals
  BY DEF ChatInv, SwitchModel
<1>3. chConnected' \in BOOLEAN
  BY <1>1 DEF Install
<1>4. /\ ChatRecord(chLedger.lines, record) /\ record.event = "switched" /\ record.route = route
  BY RecordsOfChat
<1>5. Saves(record, OneMore("switches"))
  BY <1>1
<1> HIDE DEF record
<1>6. /\ OneMore("switches") \in ChatBounds /\ OneMore("switches").faults = chSpent.faults
      /\ OneMore("switches").launches # 0
  BY <1>2, OneMoreUse DEF ChatShape, ChatInv, NothingBefore
<1>7. /\ ChatShape' /\ NothingBefore' /\ QuitIsListed' /\ (chFailed' => chSpent'.faults # 0)
      /\ ~chFailed' =>
           /\ ~chFailed /\ chLedger'.tail = "closed"
           /\ Readable(chLedger') =>
                /\ Holding(chLedger', {"started"}) # {}
                /\ SavedHistory(chLedger') = chHistory \o Messages(record)
                /\ RestoredTotals(chLedger') = WithLine(chTotals, record)
                /\ SavedRoute(chLedger') = route
  BY <1>2, <1>3, <1>4, <1>5, <1>6, LiveProcessSaves
<1>8. ToldLast(chHistory, chPending, chRoute)
  BY <1>2 DEF ChatInv, RouteIsTold
<1>9. chHistory \o Messages(record) = chHistory /\ WithLine(chTotals, record) = chTotals
  <2>1. Messages(record) = << >> /\ Talk(chHistory)
    BY <1>4, <1>8 DEF Messages, ToldLast
  <2> QED BY <1>4, <2>1, JoinedWithNothing DEF WithLine
<1>10. AllIsSaved'
  BY <1>1, <1>2, <1>7, <1>9 DEF AllIsSaved
<1>11. RouteIsTold'
  <2>1. ToldLast(chHistory, chPending', route)
    BY <1>1, <1>8, ChatAssumption DEF ToldLast
  <2> QED BY <1>1, <1>2, <2>1 DEF RouteIsTold
<1>12. LinkIsRouted'
  BY <1>1, <1>2 DEF ChatInv, LinkIsRouted, Install, CacheAfterSwitch
<1> QED BY <1>7, <1>10, <1>11, <1>12 DEF ChatInv

\* What a task says tells the model the context of the route.
LEMMA SaidTells ==
  ASSUME ToldLast(chHistory, chPending, chRoute), NEW ok
  PROVE  /\ Talk(Said(ok)) /\ Talk(chHistory \o Said(ok))
         /\ Contexts(chHistory \o Said(ok)) # {}
         /\ RouteTold(chHistory \o Said(ok)) = chRoute
<1> DEFINE asks == << Asks(chSpent.tasks + 1) >>
           answers == IF ok THEN << AnsweredTask(chSpent.tasks + 1) >> ELSE << >>
           told == IF chPending # "none" THEN << Context(chPending) >>
                   ELSE IF chHistory = << >> THEN << Context(chRoute) >> ELSE << >>
           m == asks \o answers
<1>1. Said(ok) = (told \o asks) \o answers
  BY DEF Said
<1>2. Quiet(asks) /\ Quiet(answers)
  <2>1. \A task : Asks(task).role # "system" /\ AnsweredTask(task).role # "system"
    BY DEF Asks, AnsweredTask
  <2>2. \A x : x.role # "system" => Quiet(<< x >>)
    <3>1. ASSUME NEW x, x.role # "system"
          PROVE  Quiet(<< x >>)
      <4>1. Talk(<< x >>) /\ Len(<< x >>) = 1 /\ << x >>[1] = x
        BY ListsAreTalk
      <4>2. \A i \in 1 .. 1 : i = 1
        OBVIOUS
      <4> QED BY <3>1, <4>1, <4>2 DEF Quiet
    <3> QED BY <3>1
  <2>3. Quiet(<< >>)
    <3>1. \A i \in 1 .. 0 : FALSE
      OBVIOUS
    <3> QED BY <3>1, ListsAreTalk DEF Quiet
  <2> QED BY <2>1, <2>2, <2>3
<1>3. Talk(chHistory) /\ Talk(asks) /\ Talk(answers)
  BY <1>2 DEF Quiet, ToldLast
<1> HIDE DEF asks, answers
<1>4. Quiet(m)
  <2>1. /\ Talk(m) /\ Len(asks) \in Nat /\ Len(answers) \in Nat /\ Len(m) = Len(asks) + Len(answers)
        /\ \A i \in 1 .. Len(asks) : m[i] = asks[i]
        /\ \A i \in 1 .. Len(answers) : m[Len(asks) + i] = answers[i]
    BY <1>3, Joined
  <2> HIDE DEF m
  <2>2. ASSUME NEW i \in 1 .. Len(m)
        PROVE  m[i].role # "system"
    <3>1. CASE i \in 1 .. Len(asks)
      BY <1>2, <2>1, <3>1 DEF Quiet
    <3>2. CASE i \notin 1 .. Len(asks)
      <4>1. i - Len(asks) \in 1 .. Len(answers) /\ i = Len(asks) + (i - Len(asks))
        BY <2>1, <3>2
      <4>2. m[i] = answers[i - Len(asks)]
        BY <2>1, <4>1
      <4> QED BY <1>2, <4>1, <4>2 DEF Quiet
    <3> QED BY <3>1, <3>2
  <2> QED BY <2>1, <2>2 DEF Quiet
<1>5. Talk(m)
  BY <1>4 DEF Quiet
<1>6. CASE told = << >>
  <2>1. Said(ok) = m
    BY <1>1, <1>3, <1>6, JoinedWithNothing
  <2>2. chPending = "none" /\ chHistory # << >>
    <3>1. << Context(chPending) >> # << >> /\ << Context(chRoute) >> # << >>
      OBVIOUS
    <3> QED BY <1>6, <3>1
  <2>3. Contexts(chHistory) # {} /\ RouteTold(chHistory) = chRoute
    BY <2>2 DEF ToldLast
  <2> HIDE DEF m
  <2>4. Talk(chHistory \o m)
    BY <1>3, <1>5, Joined
  <2> QED BY <1>3, <1>4, <1>5, <2>1, <2>3, <2>4, QuietTellsNothing
<1>7. CASE told = << Context(chRoute) >>
  <2> DEFINE c == Context(chRoute)
             h == chHistory \o << c >>
  <2>1. c.role = "system" /\ c.route = chRoute /\ Talk(<< c >>)
    BY ListsAreTalk DEF Context
  <2>2. Talk(h) /\ Contexts(h) # {} /\ RouteTold(h) = chRoute
    BY <1>3, <2>1, ContextIsTold
  <2>3. Said(ok) = << c >> \o m
    <3>1. Said(ok) = (<< c >> \o asks) \o answers
      BY <1>1, <1>7
    <3> HIDE DEF c
    <3> QED BY <1>3, <2>1, <3>1, Rejoined
  <2> HIDE DEF c, m
  <2>4. h \o m = chHistory \o Said(ok)
    BY <1>3, <1>5, <2>1, <2>3, Rejoined
  <2>5. Talk(Said(ok)) /\ Talk(h \o m)
    BY <1>5, <2>1, <2>2, <2>3, Joined
  <2>6. Contexts(h \o m) # {} /\ RouteTold(h \o m) = RouteTold(h)
    BY <1>4, <2>2, QuietTellsNothing
  <2> QED BY <2>2, <2>4, <2>5, <2>6
<1>8. told = << >> \/ told = << Context(chRoute) >>
  BY DEF ToldLast
<1> QED BY <1>6, <1>7, <1>8

LEMMA TaskKeeps == ASSUME ChatInv, RunTask PROVE ChatInv'
<1>1. PICK end \in Outcomes :
        /\ chHistory' = chHistory \o Said(end.ok)
        /\ chTotals' = AddTurn(chTotals, chRoute, end.usage, end.at)
        /\ chCached' = IF end.ok /\ end.usage # None THEN chRoute ELSE "none"
        /\ Saves(ChatTurn(chRoute, Said(end.ok), end.usage, end.at), OneMore("tasks"))
  BY DEF RunTask
<1> DEFINE record == ChatTurn(chRoute, Said(end.ok), end.usage, end.at)
           h == chHistory \o Said(end.ok)
<1>2. /\ ChatShape /\ chUp /\ chUp' = chUp /\ chQuit' = chQuit /\ chRoute' = chRoute
      /\ chPending' = "none"
      /\ \/ chConnected /\ UNCHANGED << chAgent, chConnected, chKeys, chScrubbers >>
         \/ ~chConnected /\ Install(chRoute)
  BY DEF ChatInv, RunTask
<1>3. chConnected' \in BOOLEAN
  BY <1>2 DEF Install, ChatShape
<1>4. /\ record.event = "turn" /\ record.route = chRoute /\ record.messages = Said(end.ok)
      /\ record.usage = end.usage /\ record.at = end.at
  BY DEF ChatTurn
<1>5. ToldLast(chHistory, chPending, chRoute)
  BY <1>2 DEF ChatInv, RouteIsTold
<1>6. Talk(Said(end.ok)) /\ Talk(h) /\ Contexts(h) # {} /\ RouteTold(h) = chRoute
  BY <1>5, SaidTells
<1>7. Saves(record, OneMore("tasks"))
  BY <1>1
<1> HIDE DEF record
<1>8. ~chFailed => ChatRecord(chLedger.lines, record)
  <2> SUFFICES ASSUME ~chFailed
               PROVE  ChatRecord(chLedger.lines, record)
    OBVIOUS
  <2>1. ASSUME Readable(File(chLedger.lines))
        PROVE  chHistory = SavedHistory(File(chLedger.lines))
    <3>1. Readable(chLedger)
      BY <2>1, OnlyLinesAreFolded
    <3>2. chHistory = SavedHistory(chLedger)
      BY <1>2, <3>1 DEF ChatInv, AllIsSaved
    <3> QED BY <3>2, OnlyLinesAreFolded
  <2> QED BY <1>4, <1>6, <2>1 DEF ChatRecord, Events
<1> HIDE DEF h
<1>9. /\ OneMore("tasks") \in ChatBounds /\ OneMore("tasks").faults = chSpent.faults
      /\ OneMore("tasks").launches # 0
  BY <1>2, OneMoreUse DEF ChatShape, ChatInv, NothingBefore
<1>10. /\ ChatShape' /\ NothingBefore' /\ QuitIsListed' /\ (chFailed' => chSpent'.faults # 0)
       /\ ~chFailed' =>
            /\ ~chFailed /\ chLedger'.tail = "closed"
            /\ Readable(chLedger') =>
                 /\ Holding(chLedger', {"started"}) # {}
                 /\ SavedHistory(chLedger') = chHistory \o Messages(record)
                 /\ RestoredTotals(chLedger') = WithLine(chTotals, record)
                 /\ SavedRoute(chLedger') = chRoute
  BY <1>2, <1>3, <1>4, <1>7, <1>8, <1>9, LiveProcessSaves
<1>11. Messages(record) = Said(end.ok) /\ WithLine(chTotals, record) = chTotals'
  BY <1>1, <1>4 DEF Messages, WithLine
<1>12. AllIsSaved'
  BY <1>1, <1>2, <1>10, <1>11 DEF AllIsSaved
<1>13. RouteIsTold'
  <2>1. ToldLast(h, "none", chRoute)
    BY <1>6 DEF ToldLast
  <2> QED BY <1>1, <1>2, <2>1 DEF RouteIsTold, h
<1>14. LinkIsRouted'
  BY <1>1, <1>2 DEF ChatInv, LinkIsRouted, Install
<1> QED BY <1>10, <1>12, <1>13, <1>14 DEF ChatInv

\* A process that is gone leaves what its ledger says.
LEMMA GoneKeeps ==
  ASSUME ChatInv, chUp, Gone, chSpent' = chSpent, ChatFile(chLedger'), chQuit' \in BOOLEAN,
         chSpent.faults = 0 /\ Readable(chLedger') =>
           Holding(chLedger', {"started"}) # {} /\ (Summary(chLedger').ended <=> chQuit')
  PROVE  ChatInv'
<1>1. /\ chUp' = FALSE /\ chConnected' = FALSE /\ chFailed' = FALSE
      /\ chSpent \in ChatBounds
  BY DEF Gone, ChatInv, ChatShape
<1>2. ChatShape'
  BY <1>1 DEF ChatShape
<1>3. AllIsSaved' /\ RouteIsTold' /\ LinkIsRouted'
  BY <1>1 DEF AllIsSaved, RouteIsTold, LinkIsRouted
<1>4. NothingBefore'
  BY DEF ChatInv, NothingBefore
<1>5. QuitIsListed'
  BY DEF QuitIsListed
<1> QED BY <1>1, <1>2, <1>3, <1>4, <1>5 DEF ChatInv

LEMMA QuitKeeps == ASSUME ChatInv, QuitChat PROVE ChatInv'
<1>1. /\ ChatFile(chLedger) /\ chUp /\ chQuit' = TRUE /\ Gone /\ chSpent' = chSpent
      /\ chLedger' = IF chFailed THEN chLedger ELSE Appended(chLedger, Ended)
  BY DEF ChatInv, ChatShape, QuitChat
<1>2. ChatRecord(chLedger.lines, Ended) /\ Ended.event = "ended"
  BY RecordsOfChat
<1>3. ChatFile(chLedger')
  <2>1. CASE chFailed
    BY <1>1, <2>1
  <2>2. CASE ~chFailed
    <3>1. chLedger' = Appended(chLedger, Ended) /\ "nothing" \in {"nothing", "part", "line"}
      BY <1>1, <2>2
    <3> QED BY <1>1, <1>2, <3>1, ChatWrites
  <2> QED BY <2>1, <2>2
<1>4. ASSUME chSpent.faults = 0, Readable(chLedger')
      PROVE  Holding(chLedger', {"started"}) # {} /\ (Summary(chLedger').ended <=> chQuit')
  <2>1. ~chFailed
    BY <1>4 DEF ChatInv
  <2>2. chLedger' = Appended(chLedger, Ended)
    BY <1>1, <2>1
  <2>3. /\ Readable(chLedger) /\ Summary(chLedger) \in SessionSummary
        /\ Summary(chLedger') = Summarized(Summary(chLedger), Ended)
        /\ Holding(chLedger, {"started"}) # {} => Holding(chLedger', {"started"}) # {}
    BY <1>1, <1>2, <1>4, <2>2, RecordIsFolded
  <2>4. Holding(chLedger, {"started"}) # {}
    BY <1>1, <2>1, <2>3 DEF ChatInv, AllIsSaved
  <2>5. Summarized(Summary(chLedger), Ended).ended
    BY <1>2, <2>3, SummarizedIs DEF ChatRecord
  <2> QED BY <1>1, <2>3, <2>4, <2>5
<1> QED BY <1>1, <1>3, <1>4, GoneKeeps

LEMMA CrashKeeps == ASSUME ChatInv, CrashChat PROVE ChatInv'
<1>1. /\ ChatFile(chLedger) /\ chUp /\ chQuit' = chQuit /\ chQuit \in BOOLEAN /\ Gone
      /\ chSpent' = chSpent
      /\ chLedger' = chLedger \/ chLedger' = Leftover(chLedger, Ended, "part")
  BY DEF ChatInv, ChatShape, CrashChat
<1>2. ChatFile(chLedger') /\ chLedger'.lines = chLedger.lines
  <2>1. CASE chLedger' = chLedger
    BY <1>1, <2>1
  <2>2. CASE chLedger' = Leftover(chLedger, Ended, "part")
    <3>1. ChatRecord(chLedger.lines, Ended) /\ "part" \in {"nothing", "part", "line"}
      BY RecordsOfChat
    <3>2. chLedger'.lines = IF chLedger.tail = "whole" THEN Front(chLedger.lines) ELSE chLedger.lines
      BY <2>2 DEF Leftover
    <3>3. chLedger.tail # "whole"
      BY <1>1 DEF ChatFile
    <3> QED BY <1>1, <2>2, <3>1, <3>2, <3>3, ChatWrites
  <2> QED BY <1>1, <2>1, <2>2
<1>3. /\ Readable(chLedger') <=> Readable(chLedger)
      /\ Summary(chLedger') = Summary(chLedger)
      /\ Holding(chLedger', {"started"}) = Holding(chLedger, {"started"})
  BY <1>2, OnlyLinesAreFolded
<1>4. chSpent.launches # 0
  BY <1>1 DEF ChatInv, NothingBefore
<1>5. chSpent.faults = 0 /\ Readable(chLedger') =>
        Holding(chLedger', {"started"}) # {} /\ (Summary(chLedger').ended <=> chQuit')
  BY <1>1, <1>3, <1>4 DEF ChatInv, QuitIsListed
<1> QED BY <1>1, <1>2, <1>5, GoneKeeps

\* Every step of a chat keeps its invariant.
LEMMA ChatSteps == ChatInv /\ [ChatNext]_chatVars => ChatInv'
<1> SUFFICES ASSUME ChatInv, [ChatNext]_chatVars
             PROVE  ChatInv'
  OBVIOUS
<1>1. CASE OpenChat
  BY <1>1, OpenKeeps
<1>2. CASE ResumeChat
  BY <1>2, ResumeKeeps
<1>3. CASE SwitchModel
  BY <1>3, SwitchKeeps
<1>4. CASE RunTask
  BY <1>4, TaskKeeps
<1>5. CASE QuitChat
  BY <1>5, QuitKeeps
<1>6. CASE CrashChat
  BY <1>6, CrashKeeps
<1>7. CASE UNCHANGED chatVars
  BY <1>7 DEF chatVars, chTalk, chLink, ChatInv, ChatShape, AllIsSaved, RouteIsTold, LinkIsRouted,
              NothingBefore, QuitIsListed
<1> QED BY <1>1, <1>2, <1>3, <1>4, <1>5, <1>6, <1>7 DEF ChatNext

LEMMA ChatInvariant == ChatSpec => []ChatInv
<1> QED BY ChatStarts, ChatSteps, PTL DEF ChatSpec

(* A session that is left is found again and goes on as it was             *)
(* (cmd_chat.rs, cmd_resume.rs, session_ledger.rs).  For every catalog,    *)
(* price list and usage, and any number of processes, switches, tasks and  *)
(* failed appends: a chat that still saves has the history, the totals and *)
(* the route that resuming its readable ledger restores; the last context  *)
(* the model is told is that of the route it runs on; every way out hides  *)
(* every key the process knows; and the listing gives each session its     *)
(* route, its turns and whether someone quit it.                           *)
THEOREM ChatsResume == ChatSpec => []ChatResumesFaithfully
<1>1. ChatSpec => []ChatInv
  BY ChatInvariant
<1>2. ChatInv => ChatResumesFaithfully
  BY ChatIsFaithful
<1> QED BY <1>1, <1>2, PTL
==============================================================================
