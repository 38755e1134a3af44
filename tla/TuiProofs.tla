----------------------------- MODULE TuiProofs -----------------------------
(***************************************************************************)
(* Theorems about a TUI session: one turn at a time, requests that agree   *)
(* with the mode and the route the user chose, and a transcript that       *)
(* outlives the process.                                                   *)
(***************************************************************************)
EXTENDS TuiSessionProperties, TurnProofs

----------------------------------------------------------------------------
(* What was said last.                                                     *)

\* The greatest element of a set of numbers is what Max chooses.
LEMMA MaxIs ==
  ASSUME NEW S, S \subseteq Nat, NEW m \in S, \A j \in S : j <= m
  PROVE  Max(S) = m
<1>1. \A x \in S : (\A y \in S : x >= y) => x = m
  <2>1. ASSUME NEW x \in S, \A y \in S : x >= y
        PROVE  x = m
    <3>1. x \in Nat /\ m \in Nat /\ x >= m /\ x <= m
      BY <2>1
    <3> QED BY <3>1
  <2> QED BY <2>1
<1>2. \A y \in S : m >= y
  <2>1. \A y \in S : y \in Nat /\ m \in Nat /\ y <= m
    OBVIOUS
  <2> QED BY <2>1
<1> QED BY <1>1, <1>2 DEF Max

\* A sequence says nothing in a field, or one notice of it is the last.
LEMMA LastNotice ==
  ASSUME NEW h, Talk(h), NEW field
  PROVE  /\ Notices(h, field) \subseteq 1 .. Len(h)
         /\ Notices(h, field) # {} =>
              \E i \in Notices(h, field) : \A j \in Notices(h, field) : j <= i
<1>1. Len(h) \in Nat
  BY TalkIsSequence
<1>2. Notices(h, field) \subseteq 1 .. Len(h)
  BY DEF Notices
<1>3. Notices(h, field) \in SUBSET (0 .. Len(h))
  BY <1>1, <1>2
<1> QED BY <1>1, <1>2, <1>3, Extremes

\* What is said by the last notice is what was said last.
LEMMA SaidBy ==
  ASSUME NEW h, Talk(h), NEW field, NEW default, NEW i \in Notices(h, field),
         \A j \in Notices(h, field) : j <= i
  PROVE  LastSaid(h, field, default) = h[i].says[field]
<1>1. Notices(h, field) \subseteq 1 .. Len(h) /\ Len(h) \in Nat
  BY LastNotice, TalkIsSequence
<1>2. Notices(h, field) \subseteq Nat
  BY <1>1
<1>3. Max(Notices(h, field)) = i
  BY <1>2, MaxIs
<1> QED BY <1>3 DEF LastSaid

\* Messages behind others are heard last, if they say anything.
LEMMA SaidJoined ==
  ASSUME NEW g, NEW h, Talk(g), Talk(h), NEW field, NEW default
  PROVE  LastSaid(g \o h, field, default) = LastSaid(h, field, LastSaid(g, field, default))
<1> DEFINE gh == g \o h
<1>1. /\ Talk(gh) /\ Len(g) \in Nat /\ Len(h) \in Nat /\ Len(gh) = Len(g) + Len(h)
      /\ \A i \in 1 .. Len(g) : gh[i] = g[i]
      /\ \A i \in 1 .. Len(h) : gh[Len(g) + i] = h[i]
  BY Joined
<1> HIDE DEF gh
<1>2. \A i \in 1 .. Len(h) : Len(g) + i \in Notices(gh, field) <=> i \in Notices(h, field)
  <2>1. ASSUME NEW i \in 1 .. Len(h)
        PROVE  Len(g) + i \in Notices(gh, field) <=> i \in Notices(h, field)
    <3>1. Len(g) + i \in 1 .. Len(gh) /\ gh[Len(g) + i] = h[i]
      BY <1>1
    <3> QED BY <3>1 DEF Notices
  <2> QED BY <2>1
<1>3. \A i \in 1 .. Len(g) : i \in Notices(gh, field) <=> i \in Notices(g, field)
  <2>1. ASSUME NEW i \in 1 .. Len(g)
        PROVE  i \in Notices(gh, field) <=> i \in Notices(g, field)
    <3>1. i \in 1 .. Len(gh) /\ gh[i] = g[i]
      BY <1>1
    <3> QED BY <3>1 DEF Notices
  <2> QED BY <2>1
<1>4. /\ Notices(gh, field) \subseteq 1 .. Len(gh)
      /\ Notices(g, field) \subseteq 1 .. Len(g)
      /\ Notices(h, field) \subseteq 1 .. Len(h)
  BY DEF Notices
<1>5. \A j \in Notices(gh, field) :
        \/ j \in 1 .. Len(g) /\ j \in Notices(g, field)
        \/ j - Len(g) \in Notices(h, field) /\ j = Len(g) + (j - Len(g))
  <2>1. ASSUME NEW j \in Notices(gh, field), j \notin 1 .. Len(g)
        PROVE  j - Len(g) \in 1 .. Len(h) /\ j = Len(g) + (j - Len(g))
    BY <1>1, <1>4, <2>1
  <2> QED BY <1>2, <1>3, <2>1
<1>6. CASE Notices(h, field) # {}
  <2>1. PICK i \in Notices(h, field) : \A j \in Notices(h, field) : j <= i
    BY <1>6, LastNotice
  <2>2. i \in 1 .. Len(h) /\ Len(g) + i \in Notices(gh, field) /\ gh[Len(g) + i] = h[i]
    BY <1>1, <1>2, <1>4
  <2>3. \A j \in Notices(gh, field) : j <= Len(g) + i
    <3>1. ASSUME NEW j \in Notices(gh, field)
          PROVE  j <= Len(g) + i
      <4>1. CASE j \in 1 .. Len(g)
        BY <1>1, <2>2, <4>1
      <4>2. CASE j \notin 1 .. Len(g)
        <5>1. j - Len(g) \in Notices(h, field) /\ j = Len(g) + (j - Len(g))
          BY <1>5, <4>2
        <5>2. j - Len(g) <= i
          BY <2>1, <5>1
        <5>3. j \in Nat /\ i \in Nat
          BY <1>1, <1>4, <2>2
        <5> QED BY <1>1, <5>2, <5>3
      <4> QED BY <4>1, <4>2
    <3> QED BY <3>1
  <2>4. LastSaid(gh, field, default) = h[i].says[field]
    <3>1. \A k \in Notices(gh, field) : (\A j \in Notices(gh, field) : j <= k) =>
            LastSaid(gh, field, default) = gh[k].says[field]
      BY <1>1, SaidBy
    <3>2. LastSaid(gh, field, default) = gh[Len(g) + i].says[field]
      BY <2>2, <2>3, <3>1
    <3> QED BY <2>2, <3>2
  <2>5. LastSaid(h, field, LastSaid(g, field, default)) = h[i].says[field]
    BY <2>1, SaidBy
  <2> QED BY <2>4, <2>5 DEF gh
<1>7. CASE Notices(h, field) = {} /\ Notices(g, field) # {}
  <2>1. PICK i \in Notices(g, field) : \A j \in Notices(g, field) : j <= i
    BY <1>7, LastNotice
  <2>2. i \in 1 .. Len(g) /\ i \in Notices(gh, field) /\ gh[i] = g[i]
    BY <1>1, <1>3, <1>4
  <2>3. \A j \in Notices(gh, field) : j <= i
    BY <1>5, <1>7, <2>1
  <2>4. LastSaid(gh, field, default) = g[i].says[field]
    BY <1>1, <2>2, <2>3, SaidBy
  <2>5. LastSaid(g, field, default) = g[i].says[field]
    BY <2>1, SaidBy
  <2>6. LastSaid(h, field, LastSaid(g, field, default)) = LastSaid(g, field, default)
    BY <1>7 DEF LastSaid
  <2> QED BY <2>4, <2>5, <2>6 DEF gh
<1>8. CASE Notices(h, field) = {} /\ Notices(g, field) = {}
  <2>1. Notices(gh, field) = {}
    BY <1>5, <1>8
  <2> QED BY <1>8, <2>1 DEF LastSaid, gh
<1> QED BY <1>6, <1>7, <1>8

\* A message alone: a system message that says something is heard.
LEMMA SaidAlone ==
  ASSUME NEW m, NEW field, NEW default
  PROVE  LastSaid(<< m >>, field, default) =
           IF m.role = "system" /\ m.says[field] # "none" THEN m.says[field] ELSE default
<1>1. Talk(<< m >>) /\ Len(<< m >>) = 1 /\ << m >>[1] = m
  BY ListsAreTalk
<1> DEFINE h == << m >>
<1> HIDE DEF h
<1>2. CASE m.role = "system" /\ m.says[field] # "none"
  <2>1. Notices(h, field) = {1}
    BY <1>1, <1>2 DEF Notices, h
  <2>2. 1 \in Notices(h, field) /\ \A j \in Notices(h, field) : j <= 1
    BY <2>1
  <2>3. LastSaid(h, field, default) = h[1].says[field]
    BY <1>1, <2>2, SaidBy DEF h
  <2> QED BY <1>1, <1>2, <2>3 DEF h
<1>3. CASE ~(m.role = "system" /\ m.says[field] # "none")
  <2>1. Notices(h, field) = {}
    BY <1>1, <1>3 DEF Notices, h
  <2> QED BY <1>3, <2>1 DEF LastSaid, h
<1> QED BY <1>2, <1>3

\* Messages none of which is the system's.
Quiet(m) == Talk(m) /\ \A i \in 1 .. Len(m) : m[i].role # "system"

\* Only the system's messages say anything.
LEMMA QuietSaysNothing ==
  ASSUME NEW m, Quiet(m), NEW field, NEW default
  PROVE  LastSaid(m, field, default) = default
BY DEF Quiet, Notices, LastSaid

\* Corrections keeps what was said last.
LEMMA SaidCorrections ==
  ASSUME NEW h, Talk(h), NEW field, NEW default
  PROVE  LastSaid(Corrections(h), field, default) = LastSaid(h, field, default)
<1> DEFINE c == Corrections(h)
           n == Len(h)
           count(i) == Cardinality(SystemUpTo(h, i))
<1>1. /\ Talk(c) /\ n \in Nat /\ Len(c) \in Nat /\ Len(c) = count(n)
      /\ \A k \in 1 .. Len(c) : \E i \in 1 .. n :
           h[i].role = "system" /\ c[k] = h[i] /\ count(i) = k
  <2>1. /\ Talk(c) /\ Len(c) = count(n)
        /\ \A k \in 1 .. Len(c) : \E i \in 1 .. n :
             h[i].role = "system" /\ c[k] = h[i] /\ count(i) = k
    BY CorrectionsAreSystem
  <2> QED BY <2>1, TalkIsSequence
<1>2. \A i \in 0 .. n : IsFiniteSet(SystemUpTo(h, i)) /\ count(i) \in Nat
  <2>1. ASSUME NEW i \in 0 .. n
        PROVE  IsFiniteSet(SystemUpTo(h, i)) /\ count(i) \in Nat
    <3>1. IsFiniteSet(1 .. i)
      BY <1>1, FS_Interval
    <3>2. SystemUpTo(h, i) \in SUBSET (1 .. i)
      BY DEF SystemUpTo
    <3>3. IsFiniteSet(SystemUpTo(h, i))
      BY <3>1, <3>2, FS_Subset
    <3> QED BY <3>3, FS_CardinalityType
  <2> QED BY <2>1
<1>3. \A i \in 1 .. n, j \in 1 .. n : i <= j => count(i) <= count(j)
  <2>1. ASSUME NEW i \in 1 .. n, NEW j \in 1 .. n, i <= j
        PROVE  count(i) <= count(j)
    <3>1. SystemUpTo(h, i) \in SUBSET SystemUpTo(h, j)
      <4>1. \A k \in 1 .. i : k \in 1 .. j
        BY <1>1, <2>1
      <4> QED BY <4>1 DEF SystemUpTo
    <3>2. IsFiniteSet(SystemUpTo(h, j))
      <4>1. n \in Nat
        BY <1>1
      <4>2. j \in 0 .. n
        BY <4>1
      <4> QED BY <1>2, <4>2, Zenon
    <3> QED BY <3>1, <3>2, FS_Subset
  <2> QED BY <2>1
<1>4. \A i \in 1 .. n, j \in 1 .. n :
        i < j /\ h[j].role = "system" => count(i) < count(j)
  <2>1. ASSUME NEW i \in 1 .. n, NEW j \in 1 .. n, i < j, h[j].role = "system"
        PROVE  count(i) < count(j)
    <3> DEFINE others == SystemUpTo(h, j) \ {j}
    <3>1. IsFiniteSet(SystemUpTo(h, j)) /\ count(j) \in Nat
      BY <1>1, <1>2
    <3>2. j \in SystemUpTo(h, j)
      BY <1>1, <2>1 DEF SystemUpTo
    <3>3. IsFiniteSet(others) /\ Cardinality(others) = count(j) - 1
      BY <3>1, <3>2, FS_RemoveElement
    <3>4. SystemUpTo(h, i) \in SUBSET others
      <4>1. \A k \in 1 .. i : k \in 1 .. j /\ k # j
        BY <1>1, <2>1
      <4> QED BY <4>1 DEF SystemUpTo
    <3>5. count(i) <= Cardinality(others)
      BY <3>3, <3>4, FS_Subset
    <3>6. count(i) \in Nat
      BY <1>1, <1>2
    <3> HIDE DEF others, count
    <3> QED BY <3>1, <3>3, <3>5, <3>6
  <2> QED BY <2>1
<1>5. 1 \in 1 .. n => count(1) >= 0
  BY <1>2
<1>6. \A k \in Notices(c, field) : k \in 1 .. Len(c) /\ \E i \in Notices(h, field) :
        c[k] = h[i] /\ count(i) = k
  <2>1. ASSUME NEW k \in Notices(c, field)
        PROVE  k \in 1 .. Len(c) /\ \E i \in Notices(h, field) : c[k] = h[i] /\ count(i) = k
    <3>1. k \in 1 .. Len(c) /\ c[k].role = "system" /\ c[k].says[field] # "none"
      BY DEF Notices
    <3>2. PICK i \in 1 .. n : h[i].role = "system" /\ c[k] = h[i] /\ count(i) = k
      BY <1>1, <3>1
    <3>3. i \in Notices(h, field)
      BY <3>1, <3>2 DEF Notices
    <3> QED BY <3>1, <3>2, <3>3
  <2> QED BY <2>1
<1>7. CASE Notices(h, field) = {}
  <2>1. Notices(c, field) = {}
    BY <1>6, <1>7
  <2> QED BY <1>7, <2>1 DEF LastSaid
<1>8. CASE Notices(h, field) # {}
  <2>1. PICK m \in Notices(h, field) : \A j \in Notices(h, field) : j <= m
    BY <1>8, LastNotice
  <2>2. m \in 1 .. n /\ h[m].role = "system" /\ h[m].says[field] # "none"
    BY DEF Notices
  <2>3. count(m) \in 1 .. Len(c)
    <3>1. m \in SystemUpTo(h, m)
      BY <1>1, <2>2 DEF SystemUpTo
    <3>2. count(m) # 0
      <4>1. IsFiniteSet(SystemUpTo(h, m)) /\ SystemUpTo(h, m) # {}
        BY <1>1, <1>2, <2>2, <3>1
      <4> QED BY <4>1, FS_EmptySet
    <3>3. n \in 1 .. n /\ m <= n /\ count(m) \in Nat
      BY <1>1, <1>2, <2>2
    <3>4. count(m) <= count(n)
      BY <1>3, <2>2, <3>3
    <3> HIDE DEF count
    <3> QED BY <1>1, <3>2, <3>3, <3>4
  <2>4. PICK i \in 1 .. n :
          h[i].role = "system" /\ c[count(m)] = h[i] /\ count(i) = count(m)
    BY <1>1, <2>3
  <2>5. i = m
    <3>1. ~(i < m)
      BY <1>2, <1>4, <2>2, <2>4
    <3>2. ~(m < i)
      BY <1>2, <1>4, <2>2, <2>4
    <3> QED BY <1>1, <2>2, <3>1, <3>2
  <2>6. count(m) \in Notices(c, field) /\ c[count(m)] = h[m]
    <3>1. c[count(m)] = h[m]
      BY <2>4, <2>5
    <3> QED BY <2>2, <2>3, <3>1 DEF Notices
  <2>7. \A k \in Notices(c, field) : k <= count(m)
    <3>1. ASSUME NEW k \in Notices(c, field)
          PROVE  k <= count(m)
      <4>1. PICK j \in Notices(h, field) : count(j) = k
        BY <1>6
      <4>2. j \in 1 .. n /\ j <= m
        BY <2>1 DEF Notices
      <4>3. count(j) <= count(m)
        BY <1>3, <2>2, <4>2
      <4> QED BY <4>1, <4>3
    <3> QED BY <3>1
  <2> HIDE DEF count, c
  <2>8. \A k \in Notices(c, field) : (\A j \in Notices(c, field) : j <= k) =>
          LastSaid(c, field, default) = c[k].says[field]
    BY <1>1, SaidBy
  <2>9. LastSaid(c, field, default) = h[m].says[field]
    BY <2>6, <2>7, <2>8
  <2>10. LastSaid(h, field, default) = h[m].says[field]
    BY <2>1, SaidBy
  <2> QED BY <2>9, <2>10 DEF c
<1> QED BY <1>7, <1>8

\* Compaction leaves the first message, every notice it drops, and the rest:
\* what was said last is the same.
LEMMA SaidCompacted ==
  ASSUME NEW h, Talk(h), NEW limit, CanCompact(h, limit), NEW field, NEW default
  PROVE  LastSaid(Compacted(h, limit), field, default) = LastSaid(h, field, default)
<1>1. PICK dropped, kept :
        /\ Talk(dropped) /\ Talk(kept)
        /\ h = (<< h[1] >> \o dropped) \o kept
        /\ Compacted(h, limit) =
             ((<< h[1] >> \o << Marker(Elided(dropped) + Cardinality(Dialogue(dropped))) >>)
                \o Corrections(dropped)) \o kept
        /\ Len(kept) = Len(h) - CompactStart(h, limit) + 1
  BY CompactionParts
<1> DEFINE notice == Marker(Elided(dropped) + Cardinality(Dialogue(dropped)))
           first == << h[1] >>
<1>2. Talk(dropped)
  BY <1>1
<1>3. Talk(kept)
  BY <1>1
<1>4. Talk(Corrections(dropped))
  BY <1>2, CorrectionsAreSystem
<1>5. Talk(first) /\ Talk(<< notice >>)
  BY ListsAreTalk
<1>6. Talk(first \o dropped) /\ Talk(first \o << notice >>)
  BY <1>2, <1>5, Joined
<1>7. Talk((first \o << notice >>) \o Corrections(dropped))
  BY <1>4, <1>6, Joined
<1>8. h = (first \o dropped) \o kept
  BY <1>1
<1>9. Compacted(h, limit) = ((first \o << notice >>) \o Corrections(dropped)) \o kept
  BY <1>1
<1> DEFINE said == LastSaid(first, field, default)
<1> HIDE DEF first, said
<1>10. LastSaid(first \o << notice >>, field, default) = said
  <2>1. notice.role # "system"
    BY DEF Marker
  <2> HIDE DEF notice
  <2>2. LastSaid(<< notice >>, field, said) = said
    BY <2>1, SaidAlone
  <2> QED BY <1>5, <2>2, SaidJoined DEF said
<1> HIDE DEF notice
<1>11. LastSaid((first \o << notice >>) \o Corrections(dropped), field, default)
         = LastSaid(dropped, field, said)
  <2>1. LastSaid((first \o << notice >>) \o Corrections(dropped), field, default)
          = LastSaid(Corrections(dropped), field, said)
    BY <1>4, <1>6, <1>10, SaidJoined
  <2> QED BY <1>2, <2>1, SaidCorrections
<1>12. LastSaid(first \o dropped, field, default) = LastSaid(dropped, field, said)
  BY <1>2, <1>5, SaidJoined DEF said
<1>13. LastSaid(((first \o << notice >>) \o Corrections(dropped)) \o kept, field, default)
         = LastSaid(kept, field, LastSaid(dropped, field, said))
  BY <1>3, <1>7, <1>11, SaidJoined
<1>14. LastSaid((first \o dropped) \o kept, field, default)
         = LastSaid(kept, field, LastSaid(dropped, field, said))
  BY <1>3, <1>6, <1>12, SaidJoined
<1> QED BY <1>8, <1>9, <1>13, <1>14

----------------------------------------------------------------------------
(* What a ledger restores.                                                 *)

\* A ledger of these lines; lines whose turns are sequences of messages.
File(l) == [lines |-> l, tail |-> "closed"]
Lines(l) ==
  /\ Talk(l)
  /\ \A i \in 1 .. Len(l) : l[i].event = "turn" => Talk(l[i].messages)

\* The history after each of the first n lines.
Unfolds(l, n, f) ==
  /\ f = [k \in 0 .. n |-> f[k]]
  /\ f[0] = << >>
  /\ \A k \in 1 .. n : f[k] = f[k - 1] \o Messages(l[k])

\* What a line says is a sequence.
LEMMA LinesSay ==
  ASSUME NEW l, Lines(l), NEW k \in 1 .. Len(l)
  PROVE  Talk(Messages(l[k]))
BY ListsAreTalk DEF Lines, Messages

\* Every ledger has a history at each of its lines.
LEMMA HistoryUnfolds ==
  ASSUME NEW l, Lines(l), NEW n \in 0 .. Len(l)
  PROVE  \E f : Unfolds(l, n, f) /\ \A k \in 0 .. n : Talk(f[k])
<1> DEFINE Known(m) == \E f : Unfolds(l, m, f) /\ \A k \in 0 .. m : Talk(f[k])
           unknown == {m \in 0 .. Len(l) : ~Known(m)}
<1>1. Len(l) \in Nat
  BY TalkIsSequence DEF Lines
<1>2. ASSUME unknown # {}
      PROVE  FALSE
  <2>1. unknown \in SUBSET (0 .. Len(l))
    OBVIOUS
  <2>2. PICK m \in unknown : \A j \in unknown : m <= j
    BY <1>1, <1>2, <2>1, Extremes
  <2>3. CASE m = 0
    <3> DEFINE f == [k \in 0 .. 0 |-> << >>]
    <3>1. Unfolds(l, 0, f)
      BY DEF Unfolds
    <3>2. \A k \in 0 .. 0 : Talk(f[k])
      BY ListsAreTalk
    <3> QED BY <2>2, <2>3, <3>1, <3>2
  <2>4. CASE m # 0
    <3>1. m - 1 \in 0 .. Len(l) /\ ~(m <= m - 1) /\ m \in 1 .. Len(l) /\ m \in Nat
      BY <1>1, <2>2, <2>4
    <3>2. Known(m - 1)
      BY <2>2, <3>1
    <3>3. PICK f : Unfolds(l, m - 1, f) /\ \A k \in 0 .. m - 1 : Talk(f[k])
      BY <3>2
    <3> DEFINE g == [k \in 0 .. m |-> IF k = m THEN f[m - 1] \o Messages(l[m]) ELSE f[k]]
    <3>4. /\ f[0] = << >> /\ \A k \in 1 .. m - 1 : f[k] = f[k - 1] \o Messages(l[k])
      BY <3>3 DEF Unfolds
    <3>5. /\ \A k \in 0 .. m - 1 : k \in 0 .. m /\ k # m
          /\ \A k \in 1 .. m : k = m \/ k \in 1 .. m - 1
          /\ \A k \in 1 .. m : k - 1 \in 0 .. m - 1
          /\ \A k \in 0 .. m : k = m \/ k \in 0 .. m - 1
          /\ 0 \in 0 .. m - 1 /\ m \in 0 .. m
      BY <3>1
    <3>6. g[m] = f[m - 1] \o Messages(l[m]) /\ \A k \in 0 .. m - 1 : g[k] = f[k]
      BY <3>5
    <3>7. g = [k \in 0 .. m |-> g[k]]
      OBVIOUS
    <3> HIDE DEF g
    <3>8. \A k \in 1 .. m : g[k] = g[k - 1] \o Messages(l[k])
      <4>1. ASSUME NEW k \in 1 .. m
            PROVE  g[k] = g[k - 1] \o Messages(l[k])
        <5>1. CASE k = m
          BY <3>5, <3>6, <5>1
        <5>2. CASE k \in 1 .. m - 1
          <6>1. k \in 0 .. m - 1 /\ k - 1 \in 0 .. m - 1
            BY <3>1, <3>5, <5>2
          <6> QED BY <3>4, <3>6, <5>2, <6>1
        <5> QED BY <3>5, <5>1, <5>2
      <4> QED BY <4>1
    <3>9. Unfolds(l, m, g)
      BY <3>4, <3>5, <3>6, <3>7, <3>8 DEF Unfolds
    <3>10. \A k \in 0 .. m : Talk(g[k])
      <4>1. Talk(Messages(l[m])) /\ Talk(f[m - 1])
        BY <3>1, <3>3, <3>5, LinesSay
      <4>2. Talk(g[m])
        BY <3>6, <4>1, Joined
      <4> QED BY <3>3, <3>5, <3>6, <4>2
    <3>11. Known(m)
      BY <3>9, <3>10
    <3> HIDE DEF Known
    <3> QED BY <2>2, <3>11
  <2> QED BY <2>3, <2>4
<1>3. Known(n)
  BY <1>2
<1> QED BY <1>3

\* Two ledgers have the same history as long as they have the same lines.
LEMMA UnfoldingsAgree ==
  ASSUME NEW n \in Nat, NEW m \in Nat, n <= m, NEW l, NEW h, NEW f, NEW g,
         Unfolds(l, n, f), Unfolds(h, m, g), \A k \in 1 .. n : l[k] = h[k]
  PROVE  f[n] = g[n]
<1> DEFINE differ == {k \in 0 .. n : f[k] # g[k]}
<1>1. ASSUME differ # {}
      PROVE  FALSE
  <2>1. differ \in SUBSET (0 .. n)
    OBVIOUS
  <2>2. PICK j \in differ : \A k \in differ : j <= k
    BY <1>1, <2>1, Extremes
  <2>3. j # 0
    BY <2>2 DEF Unfolds
  <2>4. j \in 1 .. n /\ j \in 1 .. m /\ j - 1 \in 0 .. n /\ ~(j <= j - 1)
    BY <2>2, <2>3
  <2>5. f[j - 1] = g[j - 1]
    BY <2>2, <2>4
  <2>6. f[j] = f[j - 1] \o Messages(l[j]) /\ g[j] = g[j - 1] \o Messages(h[j])
    BY <2>4 DEF Unfolds
  <2>7. l[j] = h[j]
    BY <2>4
  <2> QED BY <2>2, <2>5, <2>6, <2>7
<1> QED BY <1>1

\* What is restored is the history after the last line.
LEMMA RestoredHistory ==
  ASSUME NEW l, Lines(l), NEW f, Unfolds(l, Len(l), f)
  PROVE  SavedHistory(File(l)) = f[Len(l)]
<1>1. Len(l) \in Nat
  BY TalkIsSequence DEF Lines
<1> DEFINE step(g) == [n \in 0 .. Len(l) |->
                        IF n = 0 THEN << >> ELSE g[n - 1] \o Messages(l[n])]
           upTo == CHOOSE g : g = step(g)
<1>2. SavedHistory(File(l)) = upTo[Len(l)]
  BY DEF SavedHistory, File
<1>3. f = step(f)
  <2>1. /\ f = [k \in 0 .. Len(l) |-> f[k]] /\ f[0] = << >>
        /\ \A k \in 1 .. Len(l) : f[k] = f[k - 1] \o Messages(l[k])
    BY DEF Unfolds
  <2>2. \A k \in 0 .. Len(l) : k = 0 \/ k \in 1 .. Len(l)
    BY <1>1
  <2>3. \A k \in 0 .. Len(l) : f[k] = IF k = 0 THEN << >> ELSE f[k - 1] \o Messages(l[k])
    BY <2>1, <2>2
  <2> QED BY <2>1, <2>3
<1>4. upTo = step(upTo)
  BY <1>3
<1> HIDE DEF upTo
<1>5. Unfolds(l, Len(l), upTo)
  <2>1. \A k \in 1 .. Len(l) : k \in 0 .. Len(l) /\ k # 0
    BY <1>1
  <2>2. upTo = [k \in 0 .. Len(l) |-> upTo[k]]
    BY <1>4
  <2>3. upTo[0] = << >>
    BY <1>1, <1>4
  <2>4. \A k \in 1 .. Len(l) : upTo[k] = upTo[k - 1] \o Messages(l[k])
    BY <1>4, <2>1
  <2> QED BY <2>2, <2>3, <2>4 DEF Unfolds
<1>6. f[Len(l)] = upTo[Len(l)]
  BY <1>1, <1>5, UnfoldingsAgree
<1> QED BY <1>2, <1>6

\* An empty ledger restores nothing.
LEMMA NothingRestored == SavedHistory(File(<< >>)) = << >>
<1> DEFINE f == [k \in 0 .. 0 |-> << >>]
<1>1. Lines(<< >>) /\ Len(<< >>) = 0
  BY ListsAreTalk DEF Lines
<1>2. Unfolds(<< >>, 0, f)
  BY DEF Unfolds
<1>3. f[0] = << >>
  OBVIOUS
<1> HIDE DEF f
<1> QED BY <1>1, <1>2, <1>3, RestoredHistory

\* A line adds what it says to what is restored.
LEMMA RestoredAppend ==
  ASSUME NEW l, Lines(l), NEW e, e.event = "turn" => Talk(e.messages)
  PROVE  /\ Lines(Append(l, e))
         /\ Len(l) \in Nat /\ Len(Append(l, e)) = Len(l) + 1
         /\ Append(l, e)[Len(l) + 1] = e
         /\ \A i \in 1 .. Len(l) : Append(l, e)[i] = l[i]
         /\ Talk(SavedHistory(File(l)))
         /\ SavedHistory(File(Append(l, e))) = SavedHistory(File(l)) \o Messages(e)
<1> DEFINE longer == Append(l, e)
           n == Len(l)
<1>1. /\ Talk(longer) /\ n \in Nat /\ Len(longer) = n + 1 /\ longer[n + 1] = e
      /\ \A i \in 1 .. n : longer[i] = l[i]
  <2>1. longer = l \o << e >>
    BY AppendJoins DEF Lines
  <2>2. Talk(l) /\ Talk(<< e >>) /\ Len(<< e >>) = 1 /\ << e >>[1] = e
    BY ListsAreTalk DEF Lines
  <2>3. /\ Talk(longer) /\ n \in Nat /\ Len(longer) = n + Len(<< e >>)
        /\ \A i \in 1 .. n : longer[i] = l[i]
        /\ \A i \in 1 .. Len(<< e >>) : longer[n + i] = << e >>[i]
    BY <2>1, <2>2, Joined
  <2>4. 1 \in 1 .. Len(<< e >>)
    BY <2>2
  <2> HIDE DEF longer
  <2> QED BY <2>2, <2>3, <2>4
<1> HIDE DEF longer
<1>2. Lines(longer)
  <2>1. \A i \in 1 .. n + 1 : i \in 1 .. n \/ i = n + 1
    BY <1>1
  <2> QED BY <1>1, <2>1 DEF Lines
<1>3. n \in 0 .. n /\ n + 1 \in 0 .. n + 1
  BY <1>1
<1>4. PICK f : Unfolds(l, n, f) /\ \A k \in 0 .. n : Talk(f[k])
  BY <1>3, HistoryUnfolds
<1>5. PICK g : Unfolds(longer, n + 1, g)
  BY <1>1, <1>2, <1>3, HistoryUnfolds
<1>6. SavedHistory(File(l)) = f[n] /\ Talk(f[n])
  BY <1>3, <1>4, RestoredHistory
<1>7. SavedHistory(File(longer)) = g[n + 1]
  BY <1>1, <1>2, <1>5, RestoredHistory
<1>8. f[n] = g[n]
  <2>1. n <= n + 1 /\ n + 1 \in Nat /\ \A k \in 1 .. n : l[k] = longer[k]
    BY <1>1
  <2> QED BY <1>1, <1>4, <1>5, <2>1, UnfoldingsAgree
<1>9. g[n + 1] = g[n] \o Messages(e)
  <2>1. n + 1 \in 1 .. n + 1 /\ (n + 1) - 1 = n
    BY <1>1
  <2>2. g[n + 1] = g[(n + 1) - 1] \o Messages(longer[n + 1])
    BY <1>5, <2>1 DEF Unfolds
  <2> QED BY <1>1, <2>1, <2>2
<1>10. SavedHistory(File(longer)) = SavedHistory(File(l)) \o Messages(e)
  BY <1>6, <1>7, <1>8, <1>9
<1> QED BY <1>1, <1>2, <1>6, <1>10 DEF longer

\* The lines of a ledger that no later append can take back.
Firm(file) == IF file.tail = "whole" THEN Front(file.lines) ELSE file.lines

\* What a resume reads out of these lines makes sense: a mode, and the route of
\* the last turn.
Sound(l) ==
  Readable(File(l)) =>
    LET restored == SavedHistory(File(l))
        turnsIn  == Holding(File(l), {"turn"})
    IN  /\ LastMode(restored) \in Modes
        /\ turnsIn = {} => restored = << >>
        /\ turnsIn # {} => LastRoute(restored) = Newest(File(l), {"turn"}).route

GoodFile(file) ==
  /\ file.tail \in {"closed", "part", "whole"}
  /\ file.tail = "whole" => file.lines # << >>
  /\ Lines(file.lines)
  /\ Sound(file.lines) /\ Sound(Firm(file))

\* A run the user was told of is in the lines that stay.
Holds(h, run) == \E i \in 1 .. Len(h) : h[i] = User(run)
Saved(l, run) == Holds(SavedHistory(File(l)), run)

\* Only the lines of a file matter to who reads it.
LEMMA OnlyLinesMatter ==
  ASSUME NEW file
  PROVE  /\ SavedHistory(file) = SavedHistory(File(file.lines))
         /\ Readable(file) <=> Readable(File(file.lines))
         /\ \A kinds : /\ Holding(file, kinds) = Holding(File(file.lines), kinds)
                       /\ Newest(file, kinds) = Newest(File(file.lines), kinds)
<1>1. File(file.lines).lines = file.lines
  BY DEF File
<1>2. SavedHistory(file) = SavedHistory(File(file.lines))
  BY <1>1 DEF SavedHistory
<1>3. Readable(file) <=> Readable(File(file.lines))
  BY <1>1 DEF Readable
<1>4. \A kinds : Holding(file, kinds) = Holding(File(file.lines), kinds)
  BY <1>1 DEF Holding
<1>5. \A kinds : Newest(file, kinds) = Newest(File(file.lines), kinds)
  BY <1>1, <1>4 DEF Newest
<1> QED BY <1>2, <1>3, <1>4, <1>5

\* Without its last line a sequence of lines is one; appending is undone.
LEMMA FrontOfLines ==
  ASSUME NEW l, Lines(l)
  PROVE  /\ l # << >> => Lines(Front(l))
         /\ \A e : Front(Append(l, e)) = l
<1>1. Talk(l) /\ Len(l) \in Nat
  BY TalkIsSequence DEF Lines
<1>2. ASSUME l # << >>
      PROVE  Lines(Front(l))
  <2>1. Len(l) - 1 \in 0 .. Len(l)
    BY <1>1, <1>2, TalkIsSequence
  <2>2. /\ Talk(SubSeq(l, 1, Len(l) - 1)) /\ Len(SubSeq(l, 1, Len(l) - 1)) = Len(l) - 1
        /\ \A i \in 1 .. Len(l) - 1 : SubSeq(l, 1, Len(l) - 1)[i] = l[i]
    BY <1>1, <2>1, Opening
  <2>3. \A i \in 1 .. Len(l) - 1 : i \in 1 .. Len(l)
    BY <1>1
  <2> QED BY <2>2, <2>3 DEF Front, Lines
<1>3. ASSUME NEW e
      PROVE  Front(Append(l, e)) = l
  <2> DEFINE longer == Append(l, e)
  <2>1. longer = l \o << e >> /\ Talk(<< e >>) /\ Len(<< e >>) = 1
    BY <1>1, AppendJoins, ListsAreTalk
  <2>2. /\ Talk(longer) /\ Len(longer) = Len(l) + Len(<< e >>)
        /\ \A i \in 1 .. Len(l) : longer[i] = l[i]
    BY <1>1, <2>1, Joined
  <2> HIDE DEF longer
  <2>3. Len(longer) - 1 = Len(l) /\ Len(longer) - 1 \in 0 .. Len(longer)
    BY <1>1, <2>1, <2>2
  <2>4. /\ Talk(SubSeq(longer, 1, Len(longer) - 1))
        /\ Len(SubSeq(longer, 1, Len(longer) - 1)) = Len(l)
        /\ \A i \in 1 .. Len(l) : SubSeq(longer, 1, Len(longer) - 1)[i] = longer[i]
    BY <2>2, <2>3, Opening
  <2>5. SubSeq(longer, 1, Len(longer) - 1) = l
    BY <1>1, <2>2, <2>4, SameTalk
  <2> QED BY <2>5 DEF Front, longer
<1> QED BY <1>2, <1>3

\* Whatever an append does, it leaves the lines that stay, adds the record
\* behind them, or spoils the line it shares with a tail.
LEMMA Writes ==
  ASSUME NEW file, GoodFile(file), NEW record, NEW kind \in {"nothing", "line", "part", "whole"},
         NEW after, after = Appended(file, record) \/ after = Leftover(file, record, kind)
  PROVE  /\ after.tail \in {"closed", "part", "whole"}
         /\ after.tail = "whole" => after.lines # << >>
         /\ \/ after.lines \in {file.lines, Firm(file)} /\ Firm(after) = Firm(file)
            \/ /\ file.tail = "closed"
               /\ after.lines = Append(file.lines, record)
               /\ Firm(after) \in {file.lines, after.lines}
            \/ after.lines = Append(Firm(file), Corrupt) /\ Firm(after) = after.lines
<1>1. /\ file.tail \in {"closed", "part", "whole"}
      /\ file.tail = "whole" => file.lines # << >>
      /\ Lines(file.lines)
  BY DEF GoodFile
<1>2. ASSUME after = Appended(file, record)
      PROVE  /\ after.tail = "closed" /\ Firm(after) = after.lines
             /\ \/ file.tail = "closed" /\ after.lines = Append(file.lines, record)
                \/ after.lines = Append(Firm(file), Corrupt)
  BY <1>1, <1>2 DEF Appended, Firm
<1>3. CASE after = Appended(file, record)
  BY <1>2, <1>3
<1>4. CASE after = Leftover(file, record, kind)
  <2>1. CASE kind = "nothing"
    BY <1>1, <1>4, <2>1 DEF Leftover
  <2>2. CASE kind = "line"
    <3>1. after = Appended(file, record)
      BY <1>4, <2>2 DEF Leftover
    <3> QED BY <1>2, <3>1
  <2>3. CASE kind = "part"
    <3>1. after.lines = Firm(file) /\ after.tail = "part"
      BY <1>4, <2>3 DEF Leftover, Firm
    <3> QED BY <3>1 DEF Firm
  <2>4. CASE kind = "whole" /\ file.tail = "closed"
    <3>1. after.lines = Append(file.lines, record) /\ after.tail = "whole"
      BY <1>4, <2>4 DEF Leftover
    <3>2. Front(after.lines) = file.lines
      BY <1>1, <3>1, FrontOfLines
    <3>3. after.lines # << >>
      <4>1. Talk(file.lines)
        BY <1>1 DEF Lines
      <4>2. file.lines \o << record >> # << >>
        <5>1. Talk(<< record >>) /\ Len(<< record >>) = 1
          BY ListsAreTalk
        <5>2. /\ Talk(file.lines \o << record >>) /\ Len(file.lines) \in Nat
              /\ Len(file.lines \o << record >>) = Len(file.lines) + Len(<< record >>)
          BY <4>1, <5>1, Joined
        <5>3. Len(file.lines \o << record >>) # 0
          BY <5>1, <5>2
        <5> QED BY <5>2, <5>3, TalkIsSequence
      <4> QED BY <3>1, <4>1, <4>2, AppendJoins
    <3> QED BY <2>4, <3>1, <3>2, <3>3 DEF Firm
  <2>5. CASE kind = "whole" /\ file.tail # "closed"
    <3>1. after.lines = Firm(file) /\ after.tail = "part"
      BY <1>4, <2>5 DEF Leftover, Firm
    <3> QED BY <3>1 DEF Firm
  <2> QED BY <2>1, <2>2, <2>3, <2>4, <2>5
<1> QED BY <1>3, <1>4

\* Lines stay sound when a record is added that is no turn, and when it is one
\* whose messages lead to a mode and to the turn's route.
LEMMA SoundAppend ==
  ASSUME NEW l, Lines(l), Sound(l), NEW e, e.event = "turn" => Talk(e.messages),
         e.event = "turn" /\ Readable(File(l)) =>
           /\ LastMode(SavedHistory(File(l)) \o e.messages) \in Modes
           /\ LastRoute(SavedHistory(File(l)) \o e.messages) = e.route
  PROVE  Sound(Append(l, e))
<1> DEFINE longer == Append(l, e)
           n == Len(l)
<1>1. /\ n \in Nat /\ Len(longer) = n + 1 /\ longer[n + 1] = e
      /\ \A i \in 1 .. n : longer[i] = l[i]
      /\ Talk(SavedHistory(File(l)))
      /\ SavedHistory(File(longer)) = SavedHistory(File(l)) \o Messages(e)
  BY RestoredAppend
<1> HIDE DEF longer
<1>2. File(l).lines = l /\ File(longer).lines = longer
  BY DEF File
<1>3. Readable(File(longer)) => Readable(File(l))
  <2>1. \A i \in 1 .. n : i \in 1 .. n + 1
    BY <1>1
  <2> QED BY <1>1, <1>2, <2>1 DEF Readable
<1>4. \A i \in 1 .. n + 1 : i \in 1 .. n \/ i = n + 1
  BY <1>1
<1> DEFINE old == Holding(File(l), {"turn"})
           new == Holding(File(longer), {"turn"})
<1>5. old \subseteq 1 .. n /\ old \in SUBSET (0 .. n) /\ old \subseteq Nat
  BY <1>1, <1>2 DEF Holding
<1>6. CASE e.event = "turn"
  <2>1. n + 1 \in new /\ new \subseteq 1 .. n + 1
    BY <1>1, <1>2, <1>6 DEF Holding
  <2>2. new \subseteq Nat /\ \A j \in new : j <= n + 1
    BY <1>1, <2>1
  <2>3. Max(new) = n + 1
    BY <2>1, <2>2, MaxIs
  <2>4. Newest(File(longer), {"turn"}) = e
    BY <1>1, <1>2, <2>3 DEF Newest
  <2>5. Messages(e) = e.messages
    BY <1>6 DEF Messages
  <2> HIDE DEF new
  <2> QED BY <1>1, <1>3, <1>6, <2>1, <2>4, <2>5 DEF Sound, longer, new
<1>7. CASE e.event # "turn"
  <2>1. new = old
    <3>1. \A i \in 1 .. n + 1 : i \in new <=> i \in old
      <4>1. \A i \in 1 .. n : i \in 1 .. n + 1
        BY <1>1
      <4>2. n + 1 \notin new /\ n + 1 \notin old
        BY <1>1, <1>2, <1>7 DEF Holding
      <4> QED BY <1>1, <1>2, <1>4, <4>1, <4>2 DEF Holding
    <3>2. new \subseteq 1 .. n + 1 /\ old \subseteq 1 .. n + 1
      BY <1>1, <1>2 DEF Holding
    <3> QED BY <3>1, <3>2
  <2>2. SavedHistory(File(longer)) = SavedHistory(File(l))
    <3>1. Messages(e) = << >>
      BY <1>7 DEF Messages
    <3> QED BY <1>1, <3>1, JoinedWithNothing
  <2>3. old # {} => Newest(File(longer), {"turn"}) = Newest(File(l), {"turn"})
    <3>1. ASSUME old # {}
          PROVE  Newest(File(longer), {"turn"}) = Newest(File(l), {"turn"})
      <4>1. PICK m \in old : \A j \in old : j <= m
        BY <1>1, <1>5, <3>1, Extremes
      <4>2. Max(old) = m
        BY <1>5, <4>1, MaxIs
      <4>3. m \in 1 .. n
        BY <1>5, <4>1
      <4> QED BY <1>1, <1>2, <2>1, <4>2, <4>3 DEF Newest
    <3> QED BY <3>1
  <2> HIDE DEF old, new
  <2> QED BY <1>3, <2>1, <2>2, <2>3 DEF Sound, longer, old, new
<1> QED BY <1>6, <1>7

\* A record that may be appended: a turn whose messages lead to a mode and to
\* its route.
FitsBehind(file, record) ==
  /\ record.event = "turn" => Talk(record.messages)
  /\ record.event = "turn" /\ file.tail = "closed" /\ Readable(file) =>
       /\ LastMode(SavedHistory(file) \o record.messages) \in Modes
       /\ LastRoute(SavedHistory(file) \o record.messages) = record.route

\* A ledger stays good whatever an append leaves, and nothing is taken back that
\* had stayed.
LEMMA FileStays ==
  ASSUME NEW file, GoodFile(file), NEW record, FitsBehind(file, record),
         NEW kind \in {"nothing", "line", "part", "whole"},
         NEW after, after = Appended(file, record) \/ after = Leftover(file, record, kind)
  PROVE  /\ GoodFile(after)
         /\ \A run : Saved(Firm(file), run) => Saved(Firm(after), run)
<1>1. /\ after.tail \in {"closed", "part", "whole"}
      /\ after.tail = "whole" => after.lines # << >>
      /\ \/ after.lines \in {file.lines, Firm(file)} /\ Firm(after) = Firm(file)
         \/ /\ file.tail = "closed"
            /\ after.lines = Append(file.lines, record)
            /\ Firm(after) \in {file.lines, after.lines}
         \/ after.lines = Append(Firm(file), Corrupt) /\ Firm(after) = after.lines
  BY Writes
<1>2. Lines(file.lines) /\ Lines(Firm(file)) /\ Sound(file.lines) /\ Sound(Firm(file))
  BY FrontOfLines DEF GoodFile, Firm
<1>3. CASE after.lines \in {file.lines, Firm(file)} /\ Firm(after) = Firm(file)
  BY <1>1, <1>2, <1>3 DEF GoodFile
<1>4. CASE /\ file.tail = "closed"
           /\ after.lines = Append(file.lines, record)
           /\ Firm(after) \in {file.lines, after.lines}
  <2>1. /\ Lines(Append(file.lines, record))
        /\ Talk(SavedHistory(File(file.lines)))
        /\ SavedHistory(File(Append(file.lines, record))) =
             SavedHistory(File(file.lines)) \o Messages(record)
    BY <1>2, RestoredAppend DEF FitsBehind
  <2>2. Sound(Append(file.lines, record))
    <3>1. SavedHistory(file) = SavedHistory(File(file.lines))
          /\ (Readable(file) <=> Readable(File(file.lines)))
      BY OnlyLinesMatter
    <3> QED BY <1>2, <1>4, <3>1, SoundAppend DEF FitsBehind
  <2>3. Firm(file) = file.lines
    BY <1>4 DEF Firm
  <2>4. ASSUME NEW run, Saved(file.lines, run)
        PROVE  Saved(Append(file.lines, record), run)
    <3> DEFINE h == SavedHistory(File(file.lines))
               m == Messages(record)
    <3>1. Talk(m)
      BY ListsAreTalk DEF FitsBehind, Messages
    <3>2. PICK i \in 1 .. Len(h) : h[i] = User(run)
      BY <2>4 DEF Saved, Holds
    <3> HIDE DEF h, m
    <3>3. /\ Len(h) \in Nat /\ Len(m) \in Nat /\ Len(h \o m) = Len(h) + Len(m)
          /\ \A j \in 1 .. Len(h) : (h \o m)[j] = h[j]
      BY <2>1, <3>1, Joined DEF h
    <3>4. i \in 1 .. Len(h \o m) /\ (h \o m)[i] = User(run)
      BY <3>2, <3>3
    <3> QED BY <2>1, <3>4 DEF Saved, Holds, h, m
  <2> QED BY <1>1, <1>2, <1>4, <2>1, <2>2, <2>3, <2>4 DEF GoodFile
<1>5. CASE after.lines = Append(Firm(file), Corrupt) /\ Firm(after) = after.lines
  <2>1. Corrupt.event # "turn"
    BY DEF Corrupt
  <2>2. /\ Lines(Append(Firm(file), Corrupt))
        /\ Talk(SavedHistory(File(Firm(file))))
        /\ SavedHistory(File(Append(Firm(file), Corrupt))) =
             SavedHistory(File(Firm(file))) \o Messages(Corrupt)
    BY <1>2, <2>1, RestoredAppend
  <2>3. Sound(Append(Firm(file), Corrupt))
    BY <1>2, <2>1, SoundAppend
  <2>4. SavedHistory(File(Append(Firm(file), Corrupt))) = SavedHistory(File(Firm(file)))
    <3>1. Messages(Corrupt) = << >>
      BY <2>1 DEF Messages
    <3> QED BY <2>2, <3>1, JoinedWithNothing
  <2> QED BY <1>1, <1>5, <2>2, <2>3, <2>4 DEF GoodFile, Saved
<1> QED BY <1>1, <1>3, <1>4, <1>5

\* An append that returns success: behind a whole line the record is read back;
\* behind a tail the ledger is spoiled.
LEMMA FileGrows ==
  ASSUME NEW file, GoodFile(file), NEW record, record.event = "turn" => Talk(record.messages),
         NEW after, after = Appended(file, record)
  PROVE  /\ after.tail = "closed" /\ Firm(after) = after.lines
         /\ file.tail = "closed" =>
              /\ SavedHistory(after) = SavedHistory(file) \o Messages(record)
              /\ Talk(SavedHistory(file))
              /\ Readable(after) => Readable(file)
         /\ file.tail # "closed" => ~Readable(after)
<1>1. file.tail \in {"closed", "part", "whole"} /\ Lines(file.lines) /\ Lines(Firm(file))
  BY FrontOfLines DEF GoodFile, Firm
<1>2. after.tail = "closed" /\ Firm(after) = after.lines
  BY DEF Appended, Firm
<1>3. ASSUME file.tail = "closed"
      PROVE  /\ SavedHistory(after) = SavedHistory(file) \o Messages(record)
             /\ Talk(SavedHistory(file))
             /\ Readable(after) => Readable(file)
  <2>1. after.lines = Append(file.lines, record)
    BY <1>3 DEF Appended
  <2>2. /\ Len(file.lines) \in Nat /\ Len(after.lines) = Len(file.lines) + 1
        /\ \A i \in 1 .. Len(file.lines) : after.lines[i] = file.lines[i]
        /\ Talk(SavedHistory(File(file.lines)))
        /\ SavedHistory(File(after.lines)) =
             SavedHistory(File(file.lines)) \o Messages(record)
    <3> DEFINE l == file.lines
    <3>1. Lines(l)
      BY <1>1
    <3>2. after.lines = Append(l, record)
      BY <2>1
    <3> HIDE DEF l
    <3>3. /\ Len(l) \in Nat /\ Len(Append(l, record)) = Len(l) + 1
          /\ \A i \in 1 .. Len(l) : Append(l, record)[i] = l[i]
          /\ Talk(SavedHistory(File(l)))
          /\ SavedHistory(File(Append(l, record))) = SavedHistory(File(l)) \o Messages(record)
      BY <3>1, RestoredAppend
    <3> QED BY <3>2, <3>3 DEF l
  <2>3. Readable(after) => Readable(file)
    <3>1. \A i \in 1 .. Len(file.lines) : i \in 1 .. Len(after.lines)
      BY <2>2
    <3> QED BY <2>2, <3>1 DEF Readable
  <2>4. /\ SavedHistory(file) = SavedHistory(File(file.lines))
        /\ SavedHistory(after) = SavedHistory(File(after.lines))
    BY OnlyLinesMatter
  <2> QED BY <2>2, <2>3, <2>4
<1>4. ASSUME file.tail # "closed"
      PROVE  ~Readable(after)
  <2>1. after.lines = Append(Firm(file), Corrupt)
    BY <1>1, <1>4 DEF Appended, Firm
  <2>2. /\ Len(Firm(file)) \in Nat /\ Len(after.lines) = Len(Firm(file)) + 1
        /\ after.lines[Len(Firm(file)) + 1] = Corrupt
    <3>1. Corrupt.event # "turn"
      BY DEF Corrupt
    <3> QED BY <1>1, <2>1, <3>1, RestoredAppend
  <2>3. Len(Firm(file)) + 1 \in 1 .. Len(after.lines)
    BY <2>2
  <2> QED BY <2>2, <2>3 DEF Readable
<1> QED BY <1>2, <1>3, <1>4

\* What stays can be read.
LEMMA FirmIsRestored ==
  ASSUME NEW file, GoodFile(file), NEW run, Saved(Firm(file), run)
  PROVE  Holds(SavedHistory(file), run)
<1>1. SavedHistory(file) = SavedHistory(File(file.lines))
  BY OnlyLinesMatter
<1>2. CASE file.tail # "whole"
  BY <1>1, <1>2 DEF Saved, Firm
<1>3. CASE file.tail = "whole"
  <2> DEFINE l == file.lines
             front == Front(l)
             last == l[Len(l)]
  <2>1. /\ Lines(l) /\ l # << >> /\ Lines(front) /\ Firm(file) = front
        /\ Talk(l) /\ Len(l) \in Nat /\ Len(l) # 0
    BY <1>3, FrontOfLines, TalkIsSequence DEF GoodFile, Firm, Lines
  <2>2. last.event = "turn" => Talk(last.messages)
    BY <2>1 DEF Lines
  <2>3. l = Append(front, last)
    <3>1. Len(l) - 1 \in 0 .. Len(l)
      BY <2>1
    <3>2. /\ Talk(front) /\ Len(front) = Len(l) - 1
          /\ \A i \in 1 .. Len(l) - 1 : front[i] = l[i]
      BY <2>1, <3>1, Opening DEF Front
    <3> HIDE DEF front, last, l
    <3>3. /\ Lines(Append(front, last)) /\ Len(Append(front, last)) = Len(front) + 1
          /\ Append(front, last)[Len(front) + 1] = last
          /\ \A i \in 1 .. Len(front) : Append(front, last)[i] = front[i]
      BY <2>1, <2>2, RestoredAppend
    <3>4. Len(Append(front, last)) = Len(l) /\ Talk(Append(front, last))
      BY <2>1, <3>2, <3>3 DEF Lines
    <3>5. \A i \in 1 .. Len(l) : l[i] = Append(front, last)[i]
      <4>1. \A i \in 1 .. Len(l) : i \in 1 .. Len(front) \/ i = Len(front) + 1
        BY <2>1, <3>2
      <4>2. Append(front, last)[Len(front) + 1] = l[Len(l)]
        BY <3>3 DEF last
      <4> QED BY <2>1, <3>2, <3>3, <4>1, <4>2
    <3> QED BY <2>1, <3>4, <3>5, SameTalk
  <2> HIDE DEF front, last, l
  <2>4. /\ Talk(SavedHistory(File(front)))
        /\ SavedHistory(File(l)) = SavedHistory(File(front)) \o Messages(last)
    BY <2>1, <2>2, <2>3, RestoredAppend
  <2>5. Talk(Messages(last))
    BY <2>2, ListsAreTalk DEF Messages
  <2> DEFINE h == SavedHistory(File(front))
             m == Messages(last)
  <2>6. PICK i \in 1 .. Len(h) : h[i] = User(run)
    BY <2>1 DEF Saved, Holds
  <2> HIDE DEF h, m
  <2>7. /\ Len(h) \in Nat /\ Len(m) \in Nat /\ Len(h \o m) = Len(h) + Len(m)
        /\ \A j \in 1 .. Len(h) : (h \o m)[j] = h[j]
    BY <2>4, <2>5, Joined DEF h, m
  <2>8. i \in 1 .. Len(h \o m) /\ (h \o m)[i] = User(run)
    BY <2>6, <2>7
  <2> QED BY <1>1, <2>4, <2>8 DEF Holds, h, m, l
<1> QED BY <1>2, <1>3

----------------------------------------------------------------------------
(* The invariant.                                                          *)

\* What the variables are, how the thread's phase and the loop's step go
\* together, and what is left of a session without a process.
SessionShape ==
  /\ Talk(history) /\ Talk(working) /\ Talk(appended) /\ calls \in Calls
  /\ Talk(commands) /\ Talk(events)
  /\ spent \in [runs : Nat, cancels : Nat, faults : Nat, corrections : Nat]
  /\ ui \in [status : Status, inflight : BOOLEAN, queued : BOOLEAN, allow : BOOLEAN,
             route : {ui.route}, cancelling : BOOLEAN]
  /\ agent \in [mode : Modes, route : {agent.route}, routeChanged : BOOLEAN,
                connected : BOOLEAN]
  /\ mode \in Modes
  /\ phase \in Phases /\ (phase = "turn" <=> pc # "idle")
  /\ pc \in {"tool", "execute"} => calls # << >>
  /\ up \in BOOLEAN /\ shutdown \in BOOLEAN /\ ledgerFailed \in BOOLEAN
  /\ shutdown => ui.status = "gone"
  /\ ~up => /\ phase = "off" /\ ui.status = "gone" /\ ~shutdown
            /\ commands = << >> /\ events = << >> /\ ~ui.cancelling

\* As long as there is a screen, a task that is in flight is sent, running or
\* ended; it is sent behind every other command, and ended behind every other
\* event.
Flight ==
  ui.status # "gone" =>
    /\ ui.inflight <=> ui.status \in {"working", "finishing", "waiting"}
    /\ ui.inflight <=> Tasks # {} \/ Running \/ Endings # {}
    /\ Tasks # {} => Tasks = {Len(commands)} /\ ~Running /\ Endings = {}
    /\ Running => Endings = {}
    /\ Endings # {} => Endings = {Len(events)}
    /\ ~ui.inflight => events = << >>
    /\ ui.inflight /\ Tasks = {} => commands = << >>

\* The route on the screen is the one the worker will have taken.
Switches(c) == {i \in 1 .. Len(c) : c[i].command = "switch"}
HeadsFor(c, from, to) ==
  /\ Switches(c) = {} => to = from
  /\ \A i \in Switches(c) : (\A j \in Switches(c) : j <= i) => c[i].route = to
Heading == ui.status # "gone" => HeadsFor(commands, agent.route, ui.route)

\* Every route is one of the catalog, also one that is still to be taken or
\* that the ledger names.
Routed(l) ==
  \A i \in 1 .. Len(l) : l[i].event \in {"started", "switched"} => l[i].route \in Routes
OnRoutes ==
  /\ agent.route \in Routes
  /\ \A i \in Switches(commands) : commands[i].route \in Routes
  /\ Routed(ledger.lines)

\* What the transcript says of mode and route, during a turn and between turns.
Says(h, m, route) == LastMode(h) = m /\ LastRoute(h) = route
Told ==
  /\ pc # "idle" =>
       /\ agent.mode = mode /\ ~agent.routeChanged
       /\ Says(working, mode, agent.route) /\ Says(Transcript, mode, agent.route)
  /\ pc = "idle" =>
       /\ LastMode(history) \in Modes
       /\ history # << >> /\ ~agent.routeChanged => LastRoute(history) = agent.route
  /\ phase = "save" => history # << >> /\ ~agent.routeChanged

\* What a resume reads out of the ledger makes sense, also when the record in its
\* tail is lost.
FileShape == GoodFile(ledger)

\* As long as it appends, the worker knows what the ledger holds.
Saving ==
  /\ before \in Nat
  /\ phase \in {"turn", "save"} => before <= Len(history)
  /\ up /\ ~ledgerFailed /\ Readable(ledger) =>
       SavedHistory(ledger) =
         IF phase \in {"turn", "save"} THEN SubSeq(history, 1, before) ELSE history
  /\ up /\ ~ledgerFailed /\ ledger.tail # "closed" => phase = "start"

\* A run the user was told of, or will be, is in the lines that stay.
Showing ==
  /\ pc # "idle" => Holds(appended, Run)
  /\ phase = "save" => \E i \in before + 1 .. Len(history) : history[i] = User(Run)
  /\ phase = "report" /\ ~ledgerFailed => Saved(Firm(ledger), Run)
  /\ \A i \in 1 .. Len(events) : events[i].saved => Saved(Firm(ledger), events[i].run)
  /\ \A run \in shown : Saved(Firm(ledger), run)

TuiInv ==
  SessionShape /\ Flight /\ Heading /\ OnRoutes /\ Told /\ FileShape /\ Saving /\ Showing

----------------------------------------------------------------------------
(* The steps of a turn.                                                    *)

TurnStep == LoopTurns \/ ClientStops \/ ProviderAnswers \/ RunTool \/ Declined \/ Approved

\* A step within a turn adds nothing of the system's to the conversation, or
\* compacts the request; the transcript of the caller stays.
Converses ==
  /\ history' = history /\ Run' = Run
  /\ spent' \in [runs : Nat, cancels : Nat, faults : Nat, corrections : Nat]
  /\ pc' # "idle" /\ calls' \in Calls
  /\ pc' \in {"tool", "execute"} => calls' # << >>
  /\ \/ working' = working /\ appended' = appended
     \/ \E m : Quiet(m) /\ working' = working \o m /\ appended' = appended \o m
     \/ working' = Prepare(working) /\ appended' = appended

\* Calls that are not run are answered by tool messages.
LEMMA SkippedAreResults ==
  ASSUME NEW left \in Calls
  PROVE  /\ Talk(Skipped(left)) /\ Len(Skipped(left)) = Len(left) /\ Len(left) \in Nat
         /\ \A i \in 1 .. Len(left) : Skipped(left)[i].role = "tool"
<1>1. Skipped(left) = SkippedBy(Run, turns, left)
  BY DEF Skipped, SkippedBy
<1>2. /\ Talk(Skipped(left)) /\ Len(Skipped(left)) = Len(left) /\ Len(left) \in Nat
      /\ \A i \in 1 .. Len(left) :
           Skipped(left)[i] = ToolResult(Run, turns, left[i].id, "skipped")
  BY <1>1, SkippedAnswers
<1>3. \A id : ToolResult(Run, turns, id, "skipped").role = "tool"
  BY DEF ToolResult
<1> QED BY <1>2, <1>3

\* Every action of the loop but Return converses.
LEMMA TurnConverses ==
  ASSUME SessionShape, pc # "idle",
         \/ OutOfTurns \/ StopAtTop \/ PrepareRequest \/ ClientAccepts \/ Send
         \/ pc \in {"request", "wait"} /\ RequestFails
         \/ \E reply \in Replies : FinalReply(reply) \/ ToolReply(reply)
         \/ CallsDone \/ StopBeforeCall \/ TakeCall \/ AllowCall
         \/ pc \in {"tool", "execute"} /\ \E how : Answer(how)
         \/ WriteReceipt \/ ReceiptFails
  PROVE  Converses
<1> USE DEF SessionShape
<1>1. ASSUME \/ OutOfTurns \/ StopAtTop \/ ClientAccepts \/ Send \/ CallsDone \/ TakeCall
             \/ AllowCall \/ WriteReceipt
      PROVE  Converses
  <2>1. /\ talk' = talk /\ calls' = calls /\ spent' = spent
        /\ \/ pc' \in {"receipt", "send", "wait", "top", "return"}
           \/ pc' \in {"tool", "execute"} /\ calls # << >>
    BY <1>1 DEF OutOfTurns, StopAtTop, ClientAccepts, Send, CallsDone, TakeCall, AllowCall,
                WriteReceipt, EndRun, tally, bounds
  <2> QED BY <2>1 DEF talk, Converses, Run
<1>2. ASSUME RequestFails
      PROVE  Converses
  <2>1. talk' = talk /\ calls' = calls /\ spent' = spent /\ pc' = "receipt"
    BY <1>2 DEF RequestFails, EndRun, bounds
  <2> QED BY <2>1 DEF talk, Converses, Run
<1>3. ASSUME ReceiptFails
      PROVE  Converses
  <2>1. talk' = talk /\ calls' = calls /\ pc' = "return"
    BY <1>3 DEF ReceiptFails, tally
  <2>2. spent' = [spent EXCEPT !.faults = @ + 1]
    BY <1>3 DEF ReceiptFails
  <2>3. /\ spent' \in [runs : Nat, cancels : Nat, faults : Nat, corrections : Nat]
        /\ spent'.runs = spent.runs
    BY <2>2
  <2> QED BY <2>1, <2>3 DEF talk, Converses, Run
<1>4. ASSUME PrepareRequest
      PROVE  Converses
  BY <1>4 DEF PrepareRequest, Converses, bounds, Run
<1>5. ASSUME NEW reply \in Replies, FinalReply(reply)
      PROVE  Converses
  <2>1. reply \in Reply
    BY AgentTurnAssumption
  <2> DEFINE left == Numbered(reply.calls)
             said == << Spoken(reply) >>
             m    == said \o Skipped(left)
  <2>2. /\ Talk(Skipped(left)) /\ Len(Skipped(left)) = Len(left) /\ Len(left) \in Nat
        /\ \A i \in 1 .. Len(left) : Skipped(left)[i].role = "tool"
    BY <2>1, RepliesAreNumbered, SkippedAreResults
  <2>3. Talk(said) /\ Len(said) = 1 /\ said[1].role = "assistant"
    BY ListsAreTalk DEF Spoken, Assistant
  <2> HIDE DEF said, left
  <2>4. Quiet(m)
    <3>1. /\ Talk(m) /\ Len(m) = 1 + Len(Skipped(left)) /\ Len(Skipped(left)) \in Nat
          /\ m[1] = said[1]
          /\ \A i \in 1 .. Len(Skipped(left)) : m[1 + i] = Skipped(left)[i]
      <4>1. 1 \in 1 .. Len(said) /\ Talk(said) /\ Talk(Skipped(left))
        BY <2>2, <2>3
      <4>2. /\ Talk(m) /\ Len(m) = Len(said) + Len(Skipped(left)) /\ Len(Skipped(left)) \in Nat
            /\ \A i \in 1 .. Len(said) : m[i] = said[i]
            /\ \A i \in 1 .. Len(Skipped(left)) : m[Len(said) + i] = Skipped(left)[i]
        BY <4>1, Joined
      <4> HIDE DEF m
      <4> QED BY <2>3, <4>1, <4>2
    <3> HIDE DEF m
    <3>2. \A i \in 1 .. Len(m) : i = 1 \/ (i - 1 \in 1 .. Len(Skipped(left)) /\ 1 + (i - 1) = i)
      BY <3>1
    <3>3. \A i \in 1 .. Len(m) : m[i].role # "system"
      <4>1. ASSUME NEW i \in 1 .. Len(m)
            PROVE  m[i].role # "system"
        <5>1. CASE i = 1
          BY <2>3, <3>1, <5>1
        <5>2. CASE i - 1 \in 1 .. Len(Skipped(left)) /\ 1 + (i - 1) = i
          <6>1. m[1 + (i - 1)] = Skipped(left)[i - 1] /\ Skipped(left)[i - 1].role = "tool"
            BY <2>2, <3>1, <5>2
          <6> QED BY <5>2, <6>1
        <5> QED BY <3>2, <5>1, <5>2
      <4> QED BY <4>1
    <3> QED BY <3>1, <3>3 DEF Quiet
  <2>5. working' = working \o m /\ appended' = appended \o m
    BY <1>5 DEF FinalReply, Push, m, said, left
  <2>6. history' = history /\ calls' = calls /\ spent' = spent /\ pc' = "receipt"
    BY <1>5 DEF FinalReply, EndRun, bounds
  <2> QED BY <2>4, <2>5, <2>6 DEF Converses, Run
<1>6. ASSUME NEW reply \in Replies, ToolReply(reply)
      PROVE  Converses
  <2>1. calls' \in Calls
    BY <1>6, AgentTurnAssumption, RepliesAreNumbered DEF ToolReply
  <2> DEFINE said == << Spoken(reply) >>
  <2>2. Talk(said) /\ Len(said) = 1 /\ said[1].role = "assistant"
    BY ListsAreTalk DEF Spoken, Assistant
  <2>3. Quiet(said)
    BY <2>2 DEF Quiet
  <2>4. /\ working' = working \o said /\ appended' = appended \o said
        /\ history' = history /\ spent' = spent /\ pc' = "next"
    BY <1>6 DEF ToolReply, Push, bounds
  <2> HIDE DEF said
  <2> QED BY <2>1, <2>3, <2>4 DEF Converses, Run
<1>7. ASSUME StopBeforeCall
      PROVE  Converses
  <2>1. /\ Talk(Skipped(calls)) /\ Len(Skipped(calls)) = Len(calls)
        /\ \A i \in 1 .. Len(calls) : Skipped(calls)[i].role = "tool"
    BY SkippedAreResults
  <2>2. Quiet(Skipped(calls))
    BY <2>1 DEF Quiet
  <2>3. /\ working' = working \o Skipped(calls) /\ appended' = appended \o Skipped(calls)
        /\ history' = history /\ spent' = spent /\ pc' = "receipt" /\ calls' = << >>
    BY <1>7 DEF StopBeforeCall, Push, EndRun, bounds
  <2>4. << >> \in Calls
    BY EmptySeq DEF Calls
  <2> QED BY <2>2, <2>3, <2>4 DEF Converses, Run
<1>8. ASSUME pc \in {"tool", "execute"}, NEW how, Answer(how)
      PROVE  Converses
  <2> DEFINE said == << ToolResult(Run, turns, Head(calls).id, how) >>
  <2>1. Talk(said) /\ Len(said) = 1 /\ said[1].role = "tool"
    BY ListsAreTalk DEF ToolResult
  <2>2. Quiet(said)
    BY <2>1 DEF Quiet
  <2>3. /\ working' = working \o said /\ appended' = appended \o said
        /\ history' = history /\ spent' = spent /\ pc' = "next" /\ calls' = Tail(calls)
    BY <1>8 DEF Answer, Push
  <2>4. calls' \in Calls
    BY <1>8, <2>3, HeadTailProperties DEF Calls
  <2> HIDE DEF said
  <2> QED BY <2>2, <2>3, <2>4 DEF Converses, Run
<1> QED BY <1>1, <1>2, <1>3, <1>4, <1>5, <1>6, <1>7, <1>8

\* Every variable of the session but the approval's channel is as it was.
SameSession ==
  /\ up' = up /\ ui' = ui /\ shown' = shown /\ commands' = commands /\ events' = events
  /\ mode' = mode /\ shutdown' = shutdown /\ phase' = phase /\ agent' = agent
  /\ before' = before /\ ledgerFailed' = ledgerFailed /\ ledger' = ledger

\* What the worker thread does in a turn: its session stays, its loop goes on.
LEMMA TurnMoves ==
  ASSUME SessionShape, TurnStep
  PROVE  phase = "turn" /\ pc # "idle" /\ Converses /\ SameSession
<1>1. phase = "turn" /\ pc # "idle"
  BY DEF TurnStep, LoopTurns, ClientStops, ProviderAnswers, RunTool, Declined, Approved, Asking,
         SessionShape
<1>2. SameSession
  <2>1. UNCHANGED session \/ Settled
    BY DEF TurnStep, LoopTurns, ClientStops, ProviderAnswers, RunTool, Declined, Approved
  <2> QED BY <2>1 DEF session, screen, channel, worker, disk, Settled, SameSession
<1>3. ASSUME LoopTurns
      PROVE  Converses
  <2>1. \/ OutOfTurns \/ StopAtTop \/ PrepareRequest \/ ClientAccepts \/ Send
        \/ pc \in {"request", "wait"} /\ RequestFails
        \/ CallsDone \/ StopBeforeCall \/ TakeCall \/ AllowCall
        \/ pc \in {"tool", "execute"} /\ \E how : Answer(how)
        \/ WriteReceipt \/ ReceiptFails
    BY <1>3 DEF LoopTurns, ClientRefuses, RefuseCall, SkipCall
  <2> QED BY <1>1, <2>1, TurnConverses
<1>4. ASSUME ClientStops
      PROVE  Converses
  BY <1>1, <1>4, TurnConverses DEF ClientStops
<1>5. ASSUME ProviderAnswers
      PROVE  Converses
  BY <1>1, <1>5, TurnConverses DEF ProviderAnswers, ProviderStep, ProviderFails
<1>6. ASSUME RunTool \/ Declined \/ Approved
      PROVE  Converses
  <2>1. pc \in {"tool", "execute"} /\ \E how : Answer(how)
    BY <1>6 DEF RunTool, Declined, Approved, Asking, Execute
  <2> QED BY <1>1, <2>1, TurnConverses
<1> QED BY <1>1, <1>2, <1>3, <1>4, <1>5, <1>6 DEF TurnStep

----------------------------------------------------------------------------
(* Where a session starts, and what its channels do.                       *)

\* A channel with one thing more.
LEMMA Sent ==
  ASSUME NEW c, Talk(c), NEW m
  PROVE  /\ Talk(Append(c, m)) /\ Len(c) \in Nat /\ Len(Append(c, m)) = Len(c) + 1
         /\ Append(c, m)[Len(c) + 1] = m
         /\ \A i \in 1 .. Len(c) : Append(c, m)[i] = c[i]
<1> DEFINE longer == Append(c, m)
<1>1. longer = c \o << m >>
  BY AppendJoins
<1>2. Talk(<< m >>) /\ Len(<< m >>) = 1 /\ << m >>[1] = m
  BY ListsAreTalk
<1>3. /\ Talk(longer) /\ Len(c) \in Nat /\ Len(longer) = Len(c) + Len(<< m >>)
      /\ \A i \in 1 .. Len(c) : longer[i] = c[i]
      /\ \A i \in 1 .. Len(<< m >>) : longer[Len(c) + i] = << m >>[i]
  BY <1>1, <1>2, Joined
<1>4. 1 \in 1 .. Len(<< m >>)
  BY <1>2
<1> HIDE DEF longer
<1>5. longer[Len(c) + 1] = m /\ Len(longer) = Len(c) + 1
  BY <1>2, <1>3, <1>4
<1> QED BY <1>3, <1>5 DEF longer

\* A channel with one thing less.
LEMMA Taken ==
  ASSUME NEW c, Talk(c), c # << >>
  PROVE  /\ Talk(Tail(c)) /\ Len(c) \in Nat /\ Len(c) # 0 /\ Len(Tail(c)) = Len(c) - 1
         /\ Head(c) = c[1]
         /\ \A i \in 1 .. Len(c) - 1 : Tail(c)[i] = c[i + 1]
<1>1. PICK S : c \in Seq(S)
  BY DEF Talk
<1>2. Tail(c) \in Seq(S) /\ Len(Tail(c)) = Len(c) - 1 /\ Head(c) = c[1]
      /\ \A i \in 1 .. Len(c) - 1 : Tail(c)[i] = c[i + 1]
  BY <1>1, HeadTailProperties
<1> QED BY <1>2, TalkIsSequence DEF Talk

\* A new session satisfies the invariant.
LEMMA TuiStarts == TuiInit => TuiInv
<1> SUFFICES ASSUME TuiInit
             PROVE  TuiInv
  OBVIOUS
<1>1. Talk(<< >>) /\ Len(<< >>) = 0 /\ << >> \in Calls
  BY ListsAreTalk, EmptySeq DEF Calls
<1>2. history = << >> /\ working = << >> /\ appended = << >> /\ calls = << >> /\ pc = "idle"
  BY TuiSessionAssumption DEF TuiInit, Init
<1>3. /\ commands = << >> /\ events = << >> /\ ledger = NoFile /\ phase = "start"
      /\ shown = {} /\ before = 0 /\ up = TRUE /\ mode = "Change" /\ shutdown = FALSE
      /\ ledgerFailed = FALSE
  BY DEF TuiInit
<1>4. PICK route \in Routes, connected \in BOOLEAN :
        /\ ui = FreshUi(route)
        /\ agent = [mode |-> "Change", route |-> route, routeChanged |-> FALSE,
                    connected |-> connected]
  BY DEF TuiInit
<1>5. SessionShape
  <2>1. spent \in [runs : Nat, cancels : Nat, faults : Nat, corrections : Nat]
    BY DEF TuiInit, Init
  <2>2. ui \in [status : Status, inflight : BOOLEAN, queued : BOOLEAN, allow : BOOLEAN,
                route : {ui.route}, cancelling : BOOLEAN]
    BY <1>4 DEF FreshUi, Status
  <2>3. agent \in [mode : Modes, route : {agent.route}, routeChanged : BOOLEAN,
                   connected : BOOLEAN]
    BY <1>4 DEF Modes
  <2>4. mode \in Modes /\ phase \in Phases
    BY <1>3 DEF Modes, Phases
  <2> QED BY <1>1, <1>2, <1>3, <2>1, <2>2, <2>3, <2>4 DEF SessionShape
<1>6. Flight
  BY <1>1, <1>3, <1>4 DEF Flight, FreshUi, Tasks, Endings, Running
<1>7. Heading
  BY <1>1, <1>3, <1>4 DEF Heading, HeadsFor, Switches, FreshUi
<1>8. LastMode(history) \in Modes
  BY <1>1, <1>2 DEF LastMode, LastSaid, Notices, Modes
<1>9. Told
  BY <1>2, <1>3, <1>8 DEF Told
<1>10. FileShape /\ SavedHistory(ledger) = << >> /\ Readable(ledger)
  <2>1. ledger = File(<< >>) /\ ledger.lines = << >> /\ ledger.tail = "closed"
    BY <1>3 DEF NoFile, File
  <2>2. Sound(<< >>)
    <3>1. File(<< >>).lines = << >>
      BY DEF File
    <3>2. Holding(File(<< >>), {"turn"}) = {}
      BY <1>1, <3>1 DEF Holding
    <3> QED BY <1>2, <1>8, <3>2, NothingRestored DEF Sound
  <2>3. Lines(<< >>)
    BY <1>1 DEF Lines
  <2>4. GoodFile(ledger)
    BY <2>1, <2>2, <2>3 DEF GoodFile, Firm
  <2>5. Readable(ledger)
    BY <1>1, <2>1 DEF Readable
  <2> QED BY <2>1, <2>4, <2>5, NothingRestored DEF FileShape, File
<1>11. Saving
  BY <1>2, <1>3, <1>10 DEF Saving, NoFile
<1>12. Showing
  BY <1>1, <1>2, <1>3 DEF Showing
<1>13. OnRoutes
  BY <1>1, <1>3, <1>4 DEF OnRoutes, Switches, Routed, FreshUi, NoFile
<1> QED BY <1>5, <1>6, <1>7, <1>9, <1>10, <1>11, <1>12, <1>13 DEF TuiInv
----------------------------------------------------------------------------
(* The shape of a session.                                                 *)

\* Keys and events keep the shape of a session.
LEMMA UiKeepsShape ==
  ASSUME SessionShape, UserStep \/ UiStep
  PROVE  SessionShape'
<1> USE DEF SessionShape
<1>1. ui.status # "gone" \/ ui.cancelling
  BY DEF UserStep, UiStep, Submit, QueueDraft, DropDraft, Interrupt, Approve, Decline,
         AnswerApproval, SwitchMode, SwitchTo, Quit, CancelTurn, HandleApproval, HandleAnswer,
         HandleEnd, NextEvent, Attentive
<1>2. up
  BY <1>1
<1>3. /\ history' = history /\ working' = working /\ appended' = appended /\ calls' = calls
      /\ phase' = phase /\ pc' = pc /\ up' = up /\ agent' = agent /\ ledgerFailed' = ledgerFailed
  BY DEF UserStep, UiStep, Submit, QueueDraft, DropDraft, Interrupt, Approve, Decline,
         AnswerApproval, SwitchMode, SwitchTo, Quit, CancelTurn, HandleApproval, HandleAnswer,
         HandleEnd, vars, talk, tally, worker
<1>4. spent' \in [runs : Nat, cancels : Nat, faults : Nat, corrections : Nat]
  <2>1. CASE CancelTurn
    <3>1. spent' = [spent EXCEPT !.cancels = @ + 1]
      BY <2>1 DEF CancelTurn
    <3> QED BY <3>1
  <2>2. CASE ~CancelTurn
    <3>1. spent' = spent
      BY <2>2 DEF UserStep, UiStep, Submit, QueueDraft, DropDraft, Interrupt, Approve, Decline,
         AnswerApproval, SwitchMode, SwitchTo, Quit, HandleApproval, HandleAnswer,
         HandleEnd, vars, bounds
    <3> QED BY <3>1
  <2> QED BY <2>1, <2>2
<1>5. Talk(commands') /\ Talk(events')
  <2>1. /\ Talk(Append(commands, Task)) /\ Talk(Append(commands, ModeChanged))
        /\ Talk(Append(commands, Stop)) /\ \A route : Talk(Append(commands, SwitchRoute(route)))
    BY Sent
  <2>2. events # << >> => Talk(Tail(events))
    BY Taken
  <2>3. Talk(<< >>)
    BY ListsAreTalk
  <2>4. commands' \in {commands, Append(commands, Task), Append(commands, ModeChanged),
                       Append(commands, Stop)}
        \/ \E route : commands' = Append(commands, SwitchRoute(route))
    BY DEF UserStep, UiStep, Submit, QueueDraft, DropDraft, Interrupt, Approve, Decline,
         AnswerApproval, SwitchMode, SwitchTo, Quit, CancelTurn, HandleApproval, HandleAnswer,
         HandleEnd, channel, Dispatch
  <2>5. events' \in {events, << >>} \/ (events # << >> /\ events' = Tail(events))
    BY DEF UserStep, UiStep, Submit, QueueDraft, DropDraft, Interrupt, Approve, Decline,
         AnswerApproval, SwitchMode, SwitchTo, Quit, CancelTurn, HandleApproval, HandleAnswer,
         HandleEnd, channel, NextEvent
  <2> QED BY <2>1, <2>2, <2>3, <2>4, <2>5
<1>6. mode' \in Modes /\ shutdown' \in BOOLEAN
  BY DEF UserStep, UiStep, Submit, QueueDraft, DropDraft, Interrupt, Approve, Decline,
         AnswerApproval, SwitchMode, SwitchTo, Quit, CancelTurn, HandleApproval, HandleAnswer,
         HandleEnd, channel
<1>7. /\ ui' \in [status : Status, inflight : BOOLEAN, queued : BOOLEAN, allow : BOOLEAN,
                  route : {ui'.route}, cancelling : BOOLEAN]
      /\ shutdown' => ui'.status = "gone"
  <2> DEFINE Goal ==
        /\ ui' \in [status : Status, inflight : BOOLEAN, queued : BOOLEAN, allow : BOOLEAN,
                    route : {ui'.route}, cancelling : BOOLEAN]
        /\ shutdown' => ui'.status = "gone"
  <2>1. ASSUME Submit \/ HandleAnswer
        PROVE  Goal
    <3>1. /\ shutdown' = shutdown /\ ui.status # "gone"
          /\ ui' = [ui EXCEPT !.status = "working", !.inflight = TRUE, !.queued = FALSE]
      BY <2>1 DEF Submit, HandleAnswer, Dispatch, Attentive, NextEvent, channel, worker
    <3> QED BY <3>1 DEF Status
  <2>2. ASSUME QueueDraft
        PROVE  Goal
    <3>1. shutdown' = shutdown /\ ui' = [ui EXCEPT !.queued = TRUE]
      BY <2>2 DEF QueueDraft, channel
    <3> QED BY <3>1 DEF Status
  <2>3. ASSUME DropDraft
        PROVE  Goal
    <3>1. shutdown' = shutdown /\ ui' = [ui EXCEPT !.queued = FALSE]
      BY <2>3 DEF DropDraft, channel
    <3> QED BY <3>1 DEF Status
  <2>4. ASSUME Interrupt
        PROVE  Goal
    <3>1. /\ shutdown' = shutdown /\ ui.status # "gone"
          /\ ui' = [ui EXCEPT !.status = "finishing", !.cancelling = TRUE]
      BY <2>4 DEF Interrupt, Attentive
    <3> QED BY <3>1 DEF Status
  <2>5. ASSUME NEW approved, NEW always \in BOOLEAN, AnswerApproval(approved, always)
        PROVE  Goal
    <3>1. /\ shutdown' = shutdown /\ ui.status # "gone"
          /\ ui' = [ui EXCEPT !.status = "working", !.allow = @ \/ always]
      BY <2>5 DEF AnswerApproval, Attentive
    <3> QED BY <3>1 DEF Status
  <2>6. ASSUME SwitchMode
        PROVE  Goal
    <3>1. shutdown' = shutdown /\ ui' = ui
      BY <2>6 DEF SwitchMode, screen
    <3> QED BY <3>1 DEF Status
  <2>7. ASSUME NEW route \in Routes, SwitchTo(route)
        PROVE  Goal
    <3>1. shutdown' = shutdown /\ ui' = [ui EXCEPT !.route = route]
      BY <2>7 DEF SwitchTo
    <3> QED BY <3>1 DEF Status
  <2>8. ASSUME Quit
        PROVE  Goal
    <3>1. /\ ui' = [status |-> "gone", inflight |-> FALSE, queued |-> FALSE, allow |-> FALSE,
                   route |-> ui.route, cancelling |-> FALSE]
      BY <2>8 DEF Quit, FreshUi
    <3> QED BY <3>1 DEF Status
  <2>9. ASSUME CancelTurn
        PROVE  Goal
    <3>1. shutdown' = shutdown /\ ui' = [ui EXCEPT !.cancelling = FALSE]
      BY <2>9 DEF CancelTurn, channel
    <3> QED BY <3>1 DEF Status
  <2>10. ASSUME HandleApproval
        PROVE  Goal
    <3>1. /\ shutdown' = shutdown /\ ui.status # "gone"
          /\ \/ ui' = [ui EXCEPT !.status = "working"]
             \/ ui' = [ui EXCEPT !.status = "waiting"]
      BY <2>10 DEF HandleApproval, NextEvent, Attentive
    <3> QED BY <3>1 DEF Status
  <2>11. ASSUME HandleEnd
        PROVE  Goal
    <3>1. /\ shutdown' = shutdown /\ ui.status # "gone"
          /\ \E status \in {"idle", "blocked"} :
               ui' = [ui EXCEPT !.inflight = FALSE, !.status = status]
      BY <2>11 DEF HandleEnd, NextEvent, Attentive, SettledStatus
    <3> QED BY <3>1 DEF Status
  <2> HIDE DEF Goal
  <2>12. Goal
    <3>1. TRUE \in BOOLEAN /\ FALSE \in BOOLEAN
      OBVIOUS
    <3> QED BY <3>1, <2>1, <2>2, <2>3, <2>4, <2>5, <2>6, <2>7, <2>8, <2>9, <2>10, <2>11
            DEF UserStep, UiStep, Approve, Decline
  <2> QED BY <2>12 DEF Goal
<1> QED BY <1>2, <1>3, <1>4, <1>5, <1>6, <1>7

\* What a system message of the session says is heard.
LEMMA NoticeIsHeard ==
  ASSUME NEW h, Talk(h), NEW route, NEW m, NEW field \in {"route", "mode"}
  PROVE  LET longer == Append(h, System(Notice(route, m)))
             says   == Notice(route, m)[field]
         IN  /\ Talk(longer) /\ longer # << >>
             /\ \A default : LastSaid(longer, field, default) =
                  IF says = "none" THEN LastSaid(h, field, default) ELSE says
<1> DEFINE longer == Append(h, System(Notice(route, m)))
           notice == System(Notice(route, m))
<1>1. longer = h \o << notice >> /\ Talk(<< notice >>)
  BY AppendJoins, ListsAreTalk
<1>2. notice.role = "system" /\ notice.says[field] = Notice(route, m)[field]
  BY DEF System
<1>3. Talk(longer) /\ longer # << >>
  BY Sent, TalkIsSequence
<1> HIDE DEF notice, longer
<1>4. ASSUME NEW default
      PROVE  LastSaid(longer, field, default) =
               IF Notice(route, m)[field] = "none" THEN LastSaid(h, field, default)
                                                   ELSE Notice(route, m)[field]
  <2> DEFINE earlier == LastSaid(h, field, default)
  <2>1. LastSaid(longer, field, default) = LastSaid(<< notice >>, field, earlier)
    BY <1>1, SaidJoined
  <2> HIDE DEF earlier
  <2>2. LastSaid(<< notice >>, field, earlier) =
          IF notice.role = "system" /\ notice.says[field] # "none" THEN notice.says[field]
                                                                 ELSE earlier
    BY SaidAlone
  <2> QED BY <1>2, <2>1, <2>2 DEF earlier
<1> QED BY <1>3, <1>4 DEF longer

\* The context of a turn comes behind the transcript; behind a transcript that
\* is not empty it leaves the mode and the route said.
LEMMA ContextIsSaid ==
  ASSUME NEW h, Talk(h), mode \in Modes, agent.route \in Routes
  PROVE  /\ Talk(WithContext(h))
         /\ \E notices : Talk(notices) /\ WithContext(h) = h \o notices
         /\ h = << >> => WithContext(h) = << >>
         /\ h # << >> =>
              /\ WithContext(h) # << >>
              /\ LastMode(WithContext(h)) = mode
              /\ LastRoute(WithContext(h)) =
                   IF agent.routeChanged THEN agent.route ELSE LastRoute(h)
<1> DEFINE routed == Append(h, System(Constitution(agent.route, mode)))
           told   == IF h # << >> /\ agent.routeChanged THEN routed ELSE h
           moded  == Append(told, System(Notice("none", mode)))
<1>1. WithContext(h) = IF told # << >> /\ LastMode(told) # mode THEN moded ELSE told
  BY DEF WithContext
<1>2. mode # "none" /\ agent.route # "none"
  BY TuiSessionAssumption DEF Modes
<1>3. /\ Talk(routed) /\ routed # << >>
      /\ LastRoute(routed) = agent.route
  <2> DEFINE says == IF mode = "Plan" THEN "Plan" ELSE "none"
  <2>1. Constitution(agent.route, mode) = Notice(agent.route, says)
    BY DEF Constitution
  <2>2. Notice(agent.route, says)["route"] = agent.route
    BY DEF Notice
  <2> HIDE DEF says
  <2>3. /\ Talk(Append(h, System(Notice(agent.route, says))))
        /\ Append(h, System(Notice(agent.route, says))) # << >>
        /\ LastSaid(Append(h, System(Notice(agent.route, says))), "route", "none") =
             IF Notice(agent.route, says)["route"] = "none"
               THEN LastSaid(h, "route", "none") ELSE Notice(agent.route, says)["route"]
    BY NoticeIsHeard
  <2> QED BY <1>2, <2>1, <2>2, <2>3 DEF LastRoute
<1>4. /\ Talk(told) /\ (h = << >> <=> told = << >>)
      /\ h # << >> => LastRoute(told) = IF agent.routeChanged THEN agent.route ELSE LastRoute(h)
  BY <1>3
<1>5. /\ Talk(moded) /\ moded # << >> /\ LastMode(moded) = mode
      /\ LastRoute(moded) = LastRoute(told)
  <2>1. Notice("none", mode)["mode"] = mode /\ Notice("none", mode)["route"] = "none"
    BY DEF Notice
  <2> HIDE DEF told
  <2>2. /\ Talk(moded) /\ moded # << >>
        /\ LastSaid(moded, "mode", "Change") =
             IF Notice("none", mode)["mode"] = "none"
               THEN LastSaid(told, "mode", "Change") ELSE Notice("none", mode)["mode"]
    BY <1>4, NoticeIsHeard
  <2>3. LastSaid(moded, "route", "none") =
             IF Notice("none", mode)["route"] = "none"
               THEN LastSaid(told, "route", "none") ELSE Notice("none", mode)["route"]
    BY <1>4, NoticeIsHeard
  <2> QED BY <1>2, <2>1, <2>2, <2>3 DEF LastRoute, LastMode
<1>6. \E notices : Talk(notices) /\ told = h \o notices
  <2>1. routed = h \o << System(Constitution(agent.route, mode)) >> /\ h = h \o << >>
    BY AppendJoins, JoinedWithNothing
  <2>2. Talk(<< System(Constitution(agent.route, mode)) >>) /\ Talk(<< >>)
    BY ListsAreTalk
  <2> QED BY <2>1, <2>2
<1>7. \E notices : Talk(notices) /\ moded = h \o notices
  <2>1. PICK notices : Talk(notices) /\ told = h \o notices
    BY <1>6
  <2>2. moded = told \o << System(Notice("none", mode)) >>
        /\ Talk(<< System(Notice("none", mode)) >>)
    BY <1>4, AppendJoins, ListsAreTalk
  <2> DEFINE note == << System(Notice("none", mode)) >>
  <2>3. moded = (h \o notices) \o note
    BY <2>1, <2>2
  <2>4. Talk(h) /\ Talk(notices) /\ Talk(note)
    BY <2>1, <2>2
  <2> HIDE DEF note, told, moded
  <2>5. (h \o notices) \o note = h \o (notices \o note)
    BY <2>4, Rejoined
  <2>6. Talk(notices \o note)
    BY <2>4, Joined
  <2>7. moded = h \o (notices \o note)
    BY <2>3, <2>5
  <2> QED BY <2>6, <2>7
<1> HIDE DEF routed, told, moded
<1>8. CASE told # << >> /\ LastMode(told) # mode
  BY <1>1, <1>4, <1>5, <1>7, <1>8
<1>9. CASE ~(told # << >> /\ LastMode(told) # mode)
  BY <1>1, <1>4, <1>6, <1>9
<1> QED BY <1>8, <1>9

\* What the worker thread does between the steps of a turn, and how a process
\* goes away.
Work ==
  \/ StartSession \/ TakeMode \/ TakeSwitch \/ TakeTask \/ ConnectFails \/ StartTurn \/ Ask
  \/ EndTurn \/ SaveTurn \/ ReportCancelled \/ ReportAnswer \/ ReportFailure
  \/ Leave \/ EndSession
Vanish == Crash \/ Exit

\* Every step is a key or an event, a step of the worker in or between turns,
\* or the end or the beginning of a process.
LEMMA TuiSteps ==
  ASSUME [TuiNext]_all
  PROVE  UserStep \/ UiStep \/ Work \/ TurnStep \/ Vanish \/ Resume \/ UNCHANGED all
BY DEF TuiNext, WorkerStep, Work, TurnStep, Vanish

\* What opens a run on transcript h.
Opens(h, constitution, run) ==
  (IF h = << >> THEN << System(constitution) >> ELSE << >>) \o << User(run) >>

\* A run opens with the task of the user, behind the constitution of a new transcript.
LEMMA OpensWithUser ==
  ASSUME NEW h, NEW constitution, NEW run
  PROVE  /\ Talk(Opens(h, constitution, run)) /\ Holds(Opens(h, constitution, run), run)
         /\ h # << >> => Opens(h, constitution, run) = << User(run) >>
         /\ h = << >> => Opens(h, constitution, run) =
                           << System(constitution) >> \o << User(run) >>
<1> DEFINE first == IF h = << >> THEN << System(constitution) >> ELSE << >>
           task  == << User(run) >>
<1>1. Talk(first) /\ Talk(task) /\ Len(task) = 1 /\ task[1] = User(run)
  BY ListsAreTalk
<1>2. Opens(h, constitution, run) = first \o task
  BY DEF Opens
<1>3. h # << >> => first \o task = task
  BY <1>1, JoinedWithNothing
<1> HIDE DEF first, task
<1>4. /\ Talk(first \o task) /\ Len(first) \in Nat /\ Len(first \o task) = Len(first) + Len(task)
      /\ \A i \in 1 .. Len(task) : (first \o task)[Len(first) + i] = task[i]
  <2>1. Talk(first) /\ Talk(task)
    BY <1>1
  <2> QED BY <2>1, Joined
<1>5. Len(first) + 1 \in 1 .. Len(first \o task) /\ (first \o task)[Len(first) + 1] = User(run)
  BY <1>1, <1>4
<1>6. Holds(first \o task, run)
  BY <1>5 DEF Holds
<1> QED BY <1>2, <1>3, <1>4, <1>6 DEF first, task

\* What the worker does when it begins a turn.
LEMMA TurnOpens ==
  ASSUME SessionShape, StartTurn
  PROVE  LET opening == Opens(WithContext(history), Constitution(agent.route, mode),
                              spent.runs + 1)
         IN  /\ history' = WithContext(history)
             /\ working' = WithContext(history) \o opening
             /\ appended' = opening
             /\ Run' = spent.runs + 1
             /\ spent' \in [runs : Nat, cancels : Nat, faults : Nat, corrections : Nat]
             /\ calls' = << >> /\ pc' = "top" /\ phase = "connect" /\ phase' = "turn"
             /\ agent' = [agent EXCEPT !.mode = mode, !.routeChanged = FALSE,
                                       !.connected = TRUE]
             /\ before' = Len(history)
             /\ UNCHANGED << up, screen, channel, ledgerFailed, disk, uses >>
<1>1. Open(WithContext(history), Constitution(agent.route, mode))
  BY DEF StartTurn
<1>2. spent' = [spent EXCEPT !.runs = @ + 1]
  BY <1>1 DEF Open
<1>3. /\ spent' \in [runs : Nat, cancels : Nat, faults : Nat, corrections : Nat]
      /\ Run' = spent.runs + 1
  BY <1>2 DEF Run, SessionShape
<1>4. /\ history' = WithContext(history)
      /\ working' = WithContext(history) \o
           Opens(WithContext(history), Constitution(agent.route, mode), spent.runs + 1)
      /\ appended' = Opens(WithContext(history), Constitution(agent.route, mode), spent.runs + 1)
      /\ calls' = << >> /\ pc' = "top"
  BY <1>1 DEF Open, Opens
<1>5. /\ phase = "connect" /\ phase' = "turn" /\ before' = Len(history)
      /\ agent' = [agent EXCEPT !.mode = mode, !.routeChanged = FALSE, !.connected = TRUE]
  BY DEF StartTurn
<1>6. UNCHANGED << up, screen, channel, ledgerFailed, disk, uses >>
  BY DEF StartTurn
<1> QED BY <1>3, <1>4, <1>5, <1>6

\* The worker between the steps of a turn keeps the shape of a session.
LEMMA WorkKeepsShape ==
  ASSUME SessionShape, OnRoutes, Work
  PROVE  SessionShape'
<1>1. /\ Talk(history) /\ Talk(working) /\ Talk(appended) /\ calls \in Calls
      /\ Talk(commands) /\ Talk(events)
      /\ spent \in [runs : Nat, cancels : Nat, faults : Nat, corrections : Nat]
      /\ ui \in [status : Status, inflight : BOOLEAN, queued : BOOLEAN, allow : BOOLEAN,
                 route : {ui.route}, cancelling : BOOLEAN]
      /\ agent \in [mode : Modes, route : {agent.route}, routeChanged : BOOLEAN,
                    connected : BOOLEAN]
      /\ mode \in Modes
      /\ phase \in Phases /\ (phase = "turn" <=> pc # "idle")
      /\ pc \in {"tool", "execute"} => calls # << >>
      /\ up \in BOOLEAN /\ shutdown \in BOOLEAN /\ ledgerFailed \in BOOLEAN
      /\ shutdown => ui.status = "gone"
      /\ ~up => /\ phase = "off" /\ ui.status = "gone" /\ ~shutdown
                /\ commands = << >> /\ events = << >> /\ ~ui.cancelling
  BY DEF SessionShape
<1>2. up /\ up' = up /\ ui' = ui /\ mode' = mode /\ shutdown' = shutdown
  BY <1>1 DEF Work, StartSession, TakeMode, TakeSwitch, TakeTask, ConnectFails, StartTurn, Ask,
         EndTurn, SaveTurn, ReportCancelled, ReportAnswer, ReportFailure, Report, Leave,
         EndSession, NextCommand, screen, channel
<1>3. Talk(commands') /\ Talk(events')
  <2>1. commands # << >> => Talk(Tail(commands))
    BY <1>1, Taken
  <2>2. \A e : Talk(Append(events, e))
    BY <1>1, Sent
  <2>3. Talk(<< >>)
    BY ListsAreTalk
  <2>4. commands' = commands \/ (commands # << >> /\ commands' = Tail(commands))
    BY DEF Work, StartSession, TakeMode, TakeSwitch, TakeTask, ConnectFails, StartTurn, Ask,
         EndTurn, SaveTurn, ReportCancelled, ReportAnswer, ReportFailure, Report, Leave,
         EndSession, NextCommand, channel
  <2>5. events' \in {events, << >>} \/ \E e : events' = Append(events, e)
    BY DEF Work, StartSession, TakeMode, TakeSwitch, TakeTask, ConnectFails, StartTurn, Ask,
         EndTurn, SaveTurn, ReportCancelled, ReportAnswer, ReportFailure, Report, Leave,
         EndSession, channel, Emit
  <2> QED BY <1>1, <2>1, <2>2, <2>3, <2>4, <2>5
<1>4. agent' \in [mode : Modes, route : {agent'.route}, routeChanged : BOOLEAN,
                  connected : BOOLEAN]
  <2>1. ASSUME TakeSwitch
        PROVE  agent' \in [mode : Modes, route : {agent'.route}, routeChanged : BOOLEAN,
                           connected : BOOLEAN]
    <3> DEFINE route == Head(commands).route
    <3>1. PICK connected \in BOOLEAN :
            agent' = [agent EXCEPT !.route = route, !.connected = connected,
                                   !.routeChanged = @ \/ agent.route # route]
      BY <2>1 DEF TakeSwitch
    <3> HIDE DEF route
    <3> QED BY <1>1, <3>1
  <2>2. ASSUME TakeMode \/ StartTurn \/ ReportFailure
        PROVE  agent' \in [mode : Modes, route : {agent'.route}, routeChanged : BOOLEAN,
                           connected : BOOLEAN]
    <3>1. \/ agent' = [agent EXCEPT !.mode = mode]
          \/ agent' = [agent EXCEPT !.mode = mode, !.routeChanged = FALSE, !.connected = TRUE]
          \/ \E connected \in BOOLEAN : agent' = [agent EXCEPT !.connected = connected]
      BY <2>2 DEF TakeMode, StartTurn, ReportFailure
    <3> QED BY <1>1, <3>1
  <2>3. CASE ~(TakeSwitch \/ TakeMode \/ StartTurn \/ ReportFailure)
    <3>1. agent' = agent
      BY <2>3 DEF Work, StartSession, TakeTask, ConnectFails, Ask, EndTurn, SaveTurn,
         ReportCancelled, ReportAnswer, Report, Leave, EndSession, worker
    <3> QED BY <1>1, <3>1
  <2> QED BY <2>1, <2>2, <2>3
<1>5. phase' \in Phases /\ ledgerFailed' \in BOOLEAN
  BY <1>1 DEF Work, StartSession, TakeMode, TakeSwitch, TakeTask, ConnectFails, StartTurn, Ask,
         EndTurn, SaveTurn, ReportCancelled, ReportAnswer, ReportFailure, Report, Leave,
         EndSession, Record, worker, Phases
<1>6. /\ Talk(history') /\ Talk(working') /\ Talk(appended') /\ calls' \in Calls
      /\ spent' \in [runs : Nat, cancels : Nat, faults : Nat, corrections : Nat]
      /\ phase' = "turn" <=> pc' # "idle"
      /\ pc' \in {"tool", "execute"} => calls' # << >>
  <2>1. CASE StartTurn
    <3> DEFINE opening == Opens(WithContext(history), Constitution(agent.route, mode),
                                spent.runs + 1)
    <3>1. Talk(opening)
      BY OpensWithUser
    <3>2. Talk(WithContext(history))
      BY <1>1, ContextIsSaid DEF OnRoutes
    <3>3. /\ history' = WithContext(history) /\ working' = WithContext(history) \o opening
          /\ appended' = opening /\ calls' = << >> /\ pc' = "top" /\ phase' = "turn"
          /\ spent' \in [runs : Nat, cancels : Nat, faults : Nat, corrections : Nat]
      BY <2>1, TurnOpens
    <3> HIDE DEF opening
    <3>4. << >> \in Calls
      BY EmptySeq DEF Calls
    <3> QED BY <3>1, <3>2, <3>3, <3>4, Joined
  <2>2. CASE EndTurn
    <3>1. /\ history' = history \o appended /\ working' = << >> /\ appended' = << >>
          /\ calls' = calls /\ spent' = spent /\ pc' = "idle" /\ phase' = "save"
      BY <2>2 DEF EndTurn, Return, bounds
    <3> QED BY <1>1, <3>1, Joined, ListsAreTalk
  <2>3. CASE ~(StartTurn \/ EndTurn)
    <3>1. /\ history' = history /\ working' = working /\ appended' = appended
          /\ calls' = calls /\ spent' = spent /\ pc' = pc
          /\ phase' = phase \/ (phase # "turn" /\ phase' # "turn")
      BY <2>3 DEF Work, StartSession, TakeMode, TakeSwitch, TakeTask, ConnectFails, Ask,
         SaveTurn, ReportCancelled, ReportAnswer, ReportFailure, Report, Leave,
         EndSession, NextCommand, vars, talk, tally, bounds, worker
    <3> QED BY <1>1, <3>1
  <2> QED BY <2>1, <2>2, <2>3
<1> QED BY <1>1, <1>2, <1>3, <1>4, <1>5, <1>6 DEF SessionShape

\* What a process that resumes the session finds.
LEMMA Restoring ==
  ASSUME FileShape, OnRoutes, Resumable(ledger)
  PROVE  LET restored == SavedHistory(ledger)
             turnsIn  == Holding(ledger, {"turn"})
         IN  /\ Talk(restored) /\ LastMode(restored) \in Modes
             /\ turnsIn = {} => restored = << >>
             /\ turnsIn # {} => LastRoute(restored) = Newest(ledger, {"turn"}).route
             /\ SavedRoute(ledger) \in Routes
<1> DEFINE file == ledger
           l == file.lines
<1>1. Lines(l) /\ Sound(l) /\ Routed(l) /\ Readable(file) /\ Holding(file, {"started"}) # {}
  BY DEF FileShape, GoodFile, OnRoutes, Resumable
<1> HIDE DEF file
<1>2. /\ SavedHistory(file) = SavedHistory(File(l))
      /\ Readable(file) <=> Readable(File(l))
      /\ \A kinds : /\ Holding(file, kinds) = Holding(File(l), kinds)
                    /\ Newest(file, kinds) = Newest(File(l), kinds)
  BY OnlyLinesMatter
<1>3. Talk(SavedHistory(File(l)))
  <2>1. Ended.event # "turn"
    BY DEF Ended
  <2> QED BY <1>1, <2>1, RestoredAppend
<1>4. SavedRoute(file) \in Routes
  <2> DEFINE named == Holding(file, {"started", "switched"})
  <2>1. Len(l) \in Nat
    BY <1>1, TalkIsSequence DEF Lines
  <2>2. named \subseteq 1 .. Len(l) /\ named # {}
    BY <1>1 DEF Holding
  <2>3. named \in SUBSET (0 .. Len(l)) /\ named \subseteq Nat
    BY <2>1, <2>2
  <2>4. PICK i \in named : \A j \in named : j <= i
    BY <2>1, <2>2, <2>3, Extremes
  <2>5. Max(named) = i
    BY <2>3, <2>4, MaxIs
  <2>6. i \in 1 .. Len(l) /\ l[i].event \in {"started", "switched"}
    BY DEF Holding
  <2> QED BY <1>1, <2>5, <2>6 DEF SavedRoute, Newest, Routed
<1>5. /\ LastMode(SavedHistory(File(l))) \in Modes
      /\ Holding(File(l), {"turn"}) = {} => SavedHistory(File(l)) = << >>
      /\ Holding(File(l), {"turn"}) # {} =>
           LastRoute(SavedHistory(File(l))) = Newest(File(l), {"turn"}).route
  BY <1>1, <1>2 DEF Sound
<1> QED BY <1>2, <1>3, <1>4, <1>5 DEF file

\* What the process that resumes the session starts from.
LEMMA ResumesFrom ==
  ASSUME Resume
  PROVE  /\ ~up /\ up' = TRUE /\ Resumable(ledger)
         /\ history' = SavedHistory(ledger) /\ mode' = LastMode(SavedHistory(ledger))
         /\ ui' = FreshUi(SavedRoute(ledger))
         /\ agent'.route = SavedRoute(ledger)
         /\ agent'.routeChanged = (/\ Holding(ledger, {"turn"}) # {}
                                   /\ Newest(ledger, {"turn"}).route # SavedRoute(ledger))
         /\ \E connected \in BOOLEAN, changed \in BOOLEAN :
              agent' = [mode |-> LastMode(SavedHistory(ledger)), route |-> SavedRoute(ledger),
                        routeChanged |-> changed, connected |-> connected]
         /\ phase' = "start" /\ pc' = pc /\ working' = working /\ appended' = appended
         /\ calls' = calls /\ spent' = spent /\ shown' = shown /\ commands' = commands
         /\ events' = events /\ shutdown' = shutdown /\ before' = before
         /\ ledgerFailed' = ledgerFailed /\ ledger' = ledger
<1>1. PICK connected \in BOOLEAN :
        agent' = [mode |-> LastMode(SavedHistory(ledger)),
                  route |-> SavedRoute(ledger),
                  routeChanged |-> Holding(ledger, {"turn"}) # {}
                                     /\ Newest(ledger, {"turn"}).route # SavedRoute(ledger),
                  connected |-> connected]
  BY DEF Resume
<1> DEFINE changed == /\ Holding(ledger, {"turn"}) # {}
                      /\ Newest(ledger, {"turn"}).route # SavedRoute(ledger)
<1>2. /\ changed \in BOOLEAN
      /\ agent' = [mode |-> LastMode(SavedHistory(ledger)), route |-> SavedRoute(ledger),
                   routeChanged |-> changed, connected |-> connected]
  BY <1>1
<1>3. agent'.route = SavedRoute(ledger) /\ agent'.routeChanged = changed
  BY <1>2
<1> HIDE DEF changed
<1>4. \E c \in BOOLEAN, r \in BOOLEAN :
              agent' = [mode |-> LastMode(SavedHistory(ledger)), route |-> SavedRoute(ledger),
                        routeChanged |-> r, connected |-> c]
  BY <1>2
<1>5. /\ ~up /\ up' = TRUE /\ Resumable(ledger)
      /\ history' = SavedHistory(ledger) /\ mode' = LastMode(SavedHistory(ledger))
      /\ ui' = FreshUi(SavedRoute(ledger))
      /\ phase' = "start" /\ pc' = pc /\ working' = working /\ appended' = appended
      /\ calls' = calls /\ spent' = spent /\ shown' = shown /\ commands' = commands
      /\ events' = events /\ shutdown' = shutdown /\ before' = before
      /\ ledgerFailed' = ledgerFailed /\ ledger' = ledger
  BY DEF Resume, tally, bounds, disk
<1> QED BY <1>3, <1>4, <1>5 DEF changed

\* Every step keeps the shape of a session.
LEMMA ShapeOfSession ==
  ASSUME TuiInv, [TuiNext]_all
  PROVE  SessionShape'
<1> USE DEF TuiInv
<1>1. ASSUME TurnStep
      PROVE  SessionShape'
  <2>1. phase = "turn" /\ pc # "idle" /\ Converses /\ SameSession
    BY <1>1, TurnMoves
  <2>2. Talk(working') /\ Talk(appended')
    <3>1. Talk(working) /\ Talk(appended)
      BY DEF SessionShape
    <3>2. Talk(Prepare(working))
      BY <3>1, CompactedIsTalk DEF Prepare
    <3>3. ASSUME NEW m, Quiet(m), working' = working \o m, appended' = appended \o m
          PROVE  Talk(working') /\ Talk(appended')
      BY <3>1, <3>3, Joined DEF Quiet
    <3> QED BY <2>1, <3>1, <3>2, <3>3 DEF Converses
  <2> QED BY <2>1, <2>2 DEF SessionShape, Converses, SameSession
<1>2. ASSUME Vanish
      PROVE  SessionShape'
  <2>1. Forget
    BY <1>2 DEF Vanish, Crash, Exit
  <2>2. Talk(<< >>) /\ << >> \in Calls
    BY ListsAreTalk, EmptySeq DEF Calls
  <2>3. ui' = [status |-> "gone", inflight |-> FALSE, queued |-> FALSE, allow |-> FALSE,
               route |-> ui.route, cancelling |-> FALSE]
    BY <2>1 DEF Forget, FreshUi
  <2>4. ui' \in [status : Status, inflight : BOOLEAN, queued : BOOLEAN, allow : BOOLEAN,
                 route : {ui'.route}, cancelling : BOOLEAN]
    BY <2>3 DEF Status
  <2>5. ui'.status = "gone" /\ ~ui'.cancelling
    BY <2>3
  <2>6. /\ agent' = agent /\ mode' = mode /\ spent' = spent /\ up' = FALSE
        /\ history' = << >> /\ working' = << >> /\ appended' = << >> /\ calls' = << >>
        /\ commands' = << >> /\ events' = << >> /\ phase' = "off" /\ pc' = "idle"
        /\ shutdown' = FALSE /\ ledgerFailed' = FALSE
    BY <2>1 DEF Forget
  <2>7. agent' \in [mode : Modes, route : {agent'.route}, routeChanged : BOOLEAN,
                    connected : BOOLEAN]
    BY <2>6 DEF SessionShape
  <2> QED BY <2>2, <2>4, <2>5, <2>6, <2>7 DEF SessionShape, Phases
<1>3. ASSUME Resume
      PROVE  SessionShape'
  <2>1. /\ Talk(SavedHistory(ledger)) /\ LastMode(SavedHistory(ledger)) \in Modes
    BY <1>3, ResumesFrom, Restoring
  <2>2. ui' = [status |-> "idle", inflight |-> FALSE, queued |-> FALSE, allow |-> FALSE,
               route |-> SavedRoute(ledger), cancelling |-> FALSE]
    BY <1>3, ResumesFrom DEF FreshUi
  <2>3. ui' \in [status : Status, inflight : BOOLEAN, queued : BOOLEAN, allow : BOOLEAN,
                 route : {ui'.route}, cancelling : BOOLEAN]
    BY <2>2 DEF Status
  <2>4. agent' \in [mode : Modes, route : {agent'.route}, routeChanged : BOOLEAN,
                    connected : BOOLEAN]
    BY <1>3, <2>1, ResumesFrom
  <2>5. phase = "off"
    BY <1>3, ResumesFrom DEF SessionShape
  <2> QED BY <1>3, <2>1, <2>3, <2>4, <2>5, ResumesFrom DEF SessionShape, Phases
<1>4. ASSUME UNCHANGED all
      PROVE  SessionShape'
  BY <1>4 DEF SessionShape, all, vars, talk, tally, bounds, session, screen, channel, worker
<1> QED BY <1>1, <1>2, <1>3, <1>4, TuiSteps, UiKeepsShape, WorkKeepsShape

----------------------------------------------------------------------------
(* One task in flight.                                                     *)

\* Where a channel holds certain things.
At(c, field, kinds) == {i \in 1 .. Len(c) : c[i][field] \in kinds}

\* How sending and taking moves the only mark of its kind.
LEMMA Marks ==
  ASSUME NEW c, Talk(c), NEW field, NEW kinds
  PROVE  /\ At(<< >>, field, kinds) = {}
         /\ \A m : m[field] \notin kinds =>
                     At(Append(c, m), field, kinds) = At(c, field, kinds)
         /\ \A m : m[field] \in kinds /\ At(c, field, kinds) = {} =>
                     At(Append(c, m), field, kinds) = {Len(Append(c, m))}
         /\ c # << >> /\ At(c, field, kinds) = {} =>
              At(Tail(c), field, kinds) = {} /\ Head(c)[field] \notin kinds
         /\ c # << >> /\ At(c, field, kinds) = {Len(c)} =>
              IF Head(c)[field] \in kinds
                THEN Tail(c) = << >>
                ELSE At(Tail(c), field, kinds) = {Len(Tail(c))}
<1>1. Len(<< >>) = 0
  BY ListsAreTalk
<1>2. At(<< >>, field, kinds) = {}
  BY <1>1 DEF At
<1>3. ASSUME NEW m
      PROVE  /\ m[field] \notin kinds =>
                     At(Append(c, m), field, kinds) = At(c, field, kinds)
             /\ m[field] \in kinds /\ At(c, field, kinds) = {} =>
                     At(Append(c, m), field, kinds) = {Len(Append(c, m))}
  <2> DEFINE longer == Append(c, m)
  <2>1. /\ Len(c) \in Nat /\ Len(longer) = Len(c) + 1 /\ longer[Len(c) + 1] = m
        /\ \A i \in 1 .. Len(c) : longer[i] = c[i]
    BY Sent
  <2> HIDE DEF longer
  <2>2. \A i : i \in 1 .. Len(longer) <=> i \in 1 .. Len(c) \/ i = Len(c) + 1
    BY <2>1
  <2>3. \A i : i \in At(longer, field, kinds) <=>
                 i \in At(c, field, kinds) \/ (i = Len(c) + 1 /\ m[field] \in kinds)
    BY <2>1, <2>2 DEF At
  <2> QED BY <2>1, <2>3 DEF longer
<1>4. ASSUME c # << >>
      PROVE  /\ At(c, field, kinds) = {} =>
                  At(Tail(c), field, kinds) = {} /\ Head(c)[field] \notin kinds
             /\ At(c, field, kinds) = {Len(c)} =>
                  IF Head(c)[field] \in kinds
                    THEN Tail(c) = << >>
                    ELSE At(Tail(c), field, kinds) = {Len(Tail(c))}
  <2> DEFINE left == Tail(c)
             head == Head(c)
  <2>1. /\ Talk(left) /\ Len(c) \in Nat /\ Len(c) # 0 /\ Len(left) = Len(c) - 1
        /\ head = c[1] /\ \A i \in 1 .. Len(c) - 1 : left[i] = c[i + 1]
    BY <1>4, Taken
  <2> HIDE DEF left, head
  <2>2. 1 \in 1 .. Len(c) /\ \A i \in 1 .. Len(left) : i + 1 \in 1 .. Len(c)
    BY <2>1
  <2>3. head[field] \in kinds <=> 1 \in At(c, field, kinds)
    BY <2>1, <2>2 DEF At
  <2>4. \A i \in 1 .. Len(left) : i \in At(left, field, kinds) <=> i + 1 \in At(c, field, kinds)
    BY <2>1, <2>2 DEF At
  <2>5. At(left, field, kinds) \subseteq 1 .. Len(left)
    BY DEF At
  <2>6. ASSUME At(c, field, kinds) = {Len(c)}, head[field] \in kinds
        PROVE  left = << >>
    <3>1. Len(c) = 1
      BY <2>3, <2>6
    <3>2. Len(left) = 0
      BY <2>1, <3>1
    <3> QED BY <2>1, <3>2, TalkIsSequence
  <2>7. ASSUME At(c, field, kinds) = {Len(c)}, head[field] \notin kinds
        PROVE  At(left, field, kinds) = {Len(left)}
    <3>1. Len(c) # 1
      BY <2>3, <2>7
    <3>2. Len(left) \in 1 .. Len(left) /\ Len(left) + 1 = Len(c)
      BY <2>1, <3>1
    <3>3. \A i \in 1 .. Len(left) : i \in At(left, field, kinds) <=> i + 1 = Len(c)
      BY <2>4, <2>7
    <3>4. \A i \in 1 .. Len(left) : i + 1 = Len(c) <=> i = Len(left)
      BY <2>1, <3>2
    <3> QED BY <2>5, <3>2, <3>3, <3>4
  <2> QED BY <2>3, <2>4, <2>5, <2>6, <2>7 DEF left, head
<1> QED BY <1>2, <1>3, <1>4

\* What is on its way is found in the channels.
LEMMA OnTheWay ==
  /\ Tasks = At(commands, "command", {"task"}) /\ Endings = At(events, "event", Ends)
  /\ Tasks' = At(commands', "command", {"task"}) /\ Endings' = At(events', "event", Ends)
BY DEF Tasks, Endings, At

\* Keys and events leave one task in flight.
LEMMA UiKeepsFlight ==
  ASSUME SessionShape, Flight, UserStep \/ UiStep
  PROVE  Flight'
<1> DEFINE T(c) == At(c, "command", {"task"})
           E(e) == At(e, "event", Ends)
<1>1. Talk(commands) /\ Talk(events)
  BY DEF SessionShape
<1>2. /\ Tasks = T(commands) /\ Endings = E(events)
      /\ Tasks' = T(commands') /\ Endings' = E(events')
  BY OnTheWay
<1>3. Running' <=> Running
  <2>1. phase' = phase
    BY DEF UserStep, UiStep, Submit, QueueDraft, DropDraft, Interrupt, Approve, Decline,
           AnswerApproval, SwitchMode, SwitchTo, Quit, CancelTurn, HandleApproval, HandleAnswer,
           HandleEnd, worker
  <2> QED BY <2>1 DEF Running
<1>4. T(<< >>) = {} /\ E(<< >>) = {}
  BY ListsAreTalk, Marks
<1>5. \A m : m.command \notin {"task"} => T(Append(commands, m)) = T(commands)
  BY <1>1, Marks
<1>6. T(commands) = {} => T(Append(commands, Task)) = {Len(Append(commands, Task))}
  <2>1. Task["command"] \in {"task"}
    BY DEF Task
  <2> QED BY <1>1, <2>1, Marks
<1>7. events # << >> /\ E(events) = {} => E(Tail(events)) = {} /\ Head(events).event \notin Ends
  BY <1>1, Marks
<1>8. events # << >> /\ E(events) = {Len(events)} =>
        IF Head(events).event \in Ends THEN Tail(events) = << >>
                                       ELSE E(Tail(events)) = {Len(Tail(events))}
  BY <1>1, Marks
<1> HIDE DEF T, E
<1> DEFINE Before ==
       /\ ui.inflight <=> ui.status \in {"working", "finishing", "waiting"}
       /\ ui.inflight <=> T(commands) # {} \/ Running \/ E(events) # {}
       /\ T(commands) # {} => T(commands) = {Len(commands)} /\ ~Running /\ E(events) = {}
       /\ Running => E(events) = {}
       /\ E(events) # {} => E(events) = {Len(events)}
       /\ ~ui.inflight => events = << >>
       /\ ui.inflight /\ T(commands) = {} => commands = << >>
<1>9. ui.status # "gone" => Before
  BY <1>2 DEF Flight
<1>10. ASSUME ui'.status # "gone" =>
               /\ ui'.inflight <=> ui'.status \in {"working", "finishing", "waiting"}
               /\ ui'.inflight <=> T(commands') # {} \/ Running' \/ E(events') # {}
               /\ T(commands') # {} =>
                    T(commands') = {Len(commands')} /\ ~Running' /\ E(events') = {}
               /\ Running' => E(events') = {}
               /\ E(events') # {} => E(events') = {Len(events')}
               /\ ~ui'.inflight => events' = << >>
               /\ ui'.inflight /\ T(commands') = {} => commands' = << >>
      PROVE  Flight'
  BY <1>2, <1>10 DEF Flight
<1>11. ASSUME \/ QueueDraft \/ DropDraft \/ CancelTurn \/ Interrupt
              \/ \E approved, always : AnswerApproval(approved, always)
       PROVE  Flight'
  <2>1. /\ commands' = commands /\ events' = events /\ ui'.inflight = ui.inflight
        /\ \/ ui'.status = ui.status
           \/ /\ ui.status \in {"working", "waiting"}
              /\ ui'.status \in {"working", "finishing"}
    BY <1>11 DEF QueueDraft, DropDraft, CancelTurn, AnswerApproval, Interrupt, channel,
       SessionShape
  <2> QED BY <1>3, <1>9, <1>10, <2>1
<1>12. ASSUME HandleApproval
       PROVE  Flight'
  <2>1. /\ commands' = commands /\ events' = Tail(events) /\ events # << >>
        /\ ui'.inflight = ui.inflight /\ ui.status # "gone"
        /\ ui'.status \in {"working", "waiting"} /\ Head(events).event = "approval"
    BY <1>12 DEF HandleApproval, NextEvent, Attentive, SessionShape
  <2>2. Head(events).event \notin Ends
    BY <2>1 DEF Ends
  <2> QED BY <1>3, <1>7, <1>8, <1>9, <1>10, <2>1, <2>2
<1>13. ASSUME HandleAnswer \/ HandleEnd
       PROVE  /\ ui.status # "gone" /\ events' = Tail(events) /\ events # << >>
              /\ Tail(events) = << >> /\ ~Running /\ T(commands) = {} /\ commands = << >>
  <2>1. /\ events' = Tail(events) /\ events # << >> /\ ui.status # "gone"
        /\ Head(events).event \in Ends
    BY <1>13 DEF HandleAnswer, HandleEnd, NextEvent, Attentive, Ends
  <2> QED BY <1>7, <1>8, <1>9, <2>1
<1>14. ASSUME HandleEnd
       PROVE  Flight'
  <2>1. /\ commands' = commands /\ ui'.inflight = FALSE /\ ui'.status \in {"idle", "blocked"}
    BY <1>14 DEF HandleEnd, SettledStatus, SessionShape
  <2> QED BY <1>3, <1>4, <1>10, <1>13, <1>14, <2>1
<1>15. ASSUME HandleAnswer
       PROVE  Flight'
  <2>1. /\ commands' = Append(commands, Task) /\ ui'.inflight = TRUE /\ ui'.status = "working"
    BY <1>15 DEF HandleAnswer, Dispatch, SessionShape
  <2> QED BY <1>3, <1>4, <1>6, <1>10, <1>13, <1>15, <2>1
<1>16. ASSUME ui.status \in {"idle", "blocked"}
       PROVE  ~ui.inflight /\ ~Running /\ T(commands) = {} /\ events = << >> /\ E(events) = {}
  BY <1>9, <1>16
<1>17. ASSUME Submit
       PROVE  Flight'
  <2>1. /\ commands' = Append(commands, Task) /\ ui'.inflight = TRUE /\ ui'.status = "working"
        /\ events' = events /\ ui.status \in {"idle", "blocked"}
    BY <1>17 DEF Submit, Dispatch, CanDispatch, Resting, SessionShape
  <2> QED BY <1>3, <1>6, <1>10, <1>16, <2>1
<1>18. ASSUME SwitchMode \/ (\E route \in Routes : SwitchTo(route))
       PROVE  Flight'
  <2>1. /\ \E m : m.command \notin {"task"} /\ commands' = Append(commands, m)
        /\ ui'.inflight = ui.inflight /\ ui'.status = ui.status
        /\ events' = events /\ ui.status \in {"idle", "blocked"}
    BY <1>18 DEF SwitchMode, SwitchTo, CanSwitchMode, Resting, SessionShape, screen, ModeChanged,
       SwitchRoute
  <2>2. T(commands') = {}
    BY <1>5, <1>16, <2>1
  <2> QED BY <1>3, <1>10, <1>16, <2>1, <2>2
<1>19. ASSUME Quit
       PROVE  Flight'
  <2>1. ui'.status = "gone"
    BY <1>19 DEF Quit, FreshUi
  <2> QED BY <2>1 DEF Flight
<1> QED
  <2> HIDE DEF Before
  <2> QED BY <1>11, <1>12, <1>14, <1>15, <1>17, <1>18, <1>19 DEF UserStep, UiStep, Approve, Decline

\* The worker between the steps of a turn leaves one task in flight.
LEMMA WorkKeepsFlight ==
  ASSUME SessionShape, Flight, Work
  PROVE  Flight'
<1> DEFINE T(c) == At(c, "command", {"task"})
           E(e) == At(e, "event", Ends)
<1>1. Talk(commands) /\ Talk(events) /\ (shutdown => ui.status = "gone")
  BY DEF SessionShape
<1>2. /\ Tasks = T(commands) /\ Endings = E(events)
      /\ Tasks' = T(commands') /\ Endings' = E(events')
  BY OnTheWay
<1>3. ui' = ui
  BY DEF Work, StartSession, TakeMode, TakeSwitch, TakeTask, ConnectFails, StartTurn, Ask,
         EndTurn, SaveTurn, ReportCancelled, ReportAnswer, ReportFailure, Report, Leave,
         EndSession, screen
<1>4. T(<< >>) = {} /\ E(<< >>) = {}
  BY ListsAreTalk, Marks
<1>5. \A m : /\ m.event \notin Ends => E(Append(events, m)) = E(events)
             /\ m.event \in Ends /\ E(events) = {} =>
                   E(Append(events, m)) = {Len(Append(events, m))}
  BY <1>1, Marks
<1>6. commands # << >> /\ T(commands) = {} =>
        T(Tail(commands)) = {} /\ Head(commands).command \notin {"task"}
  BY <1>1, Marks
<1>7. commands # << >> /\ T(commands) = {Len(commands)} =>
        IF Head(commands).command \in {"task"} THEN Tail(commands) = << >>
                                               ELSE T(Tail(commands)) = {Len(Tail(commands))}
  BY <1>1, Marks
<1> HIDE DEF T, E
<1> SUFFICES ASSUME ui.status # "gone"
             PROVE  Flight'
  BY <1>3 DEF Flight
<1>8. /\ ui.inflight <=> ui.status \in {"working", "finishing", "waiting"}
      /\ ui.inflight <=> T(commands) # {} \/ Running \/ E(events) # {}
      /\ T(commands) # {} => T(commands) = {Len(commands)} /\ ~Running /\ E(events) = {}
      /\ Running => E(events) = {}
      /\ E(events) # {} => E(events) = {Len(events)}
      /\ ~ui.inflight => events = << >>
      /\ ui.inflight /\ T(commands) = {} => commands = << >>
  BY <1>2 DEF Flight
<1>9. ASSUME /\ ui.inflight <=> T(commands') # {} \/ Running' \/ E(events') # {}
             /\ T(commands') # {} =>
                  T(commands') = {Len(commands')} /\ ~Running' /\ E(events') = {}
             /\ Running' => E(events') = {}
             /\ E(events') # {} => E(events') = {Len(events')}
             /\ ~ui.inflight => events' = << >>
             /\ ui.inflight /\ T(commands') = {} => commands' = << >>
      PROVE  Flight'
  BY <1>2, <1>3, <1>8, <1>9 DEF Flight
<1>10. ASSUME StartSession \/ StartTurn \/ EndTurn \/ SaveTurn \/ Leave \/ EndSession
       PROVE  Flight'
  <2>1. commands' = commands /\ events' = events /\ (Running' <=> Running)
    BY <1>1, <1>10 DEF StartSession, StartTurn, EndTurn, SaveTurn, Leave, EndSession, channel,
       Running
  <2> QED BY <1>8, <1>9, <2>1
<1>11. ASSUME TakeMode \/ TakeSwitch
       PROVE  Flight'
  <2>1. /\ commands # << >> /\ commands' = Tail(commands) /\ events' = events
        /\ Head(commands).command \notin {"task"} /\ (Running' <=> Running)
    BY <1>11 DEF TakeMode, TakeSwitch, NextCommand, Running
  <2> QED BY <1>6, <1>7, <1>8, <1>9, <2>1
<1>12. ASSUME TakeTask
       PROVE  Flight'
  <2>1. /\ commands # << >> /\ commands' = Tail(commands) /\ events' = events
        /\ Head(commands).command \in {"task"} /\ Running'
    BY <1>12 DEF TakeTask, NextCommand, Running
  <2> QED BY <1>4, <1>6, <1>7, <1>8, <1>9, <2>1
<1>13. ASSUME Running, ~Running', commands' = commands,
              NEW m, m.event \in Ends, events' = Append(events, m)
       PROVE  Flight'
  <2>1. E(events') = {Len(events')}
    BY <1>5, <1>8, <1>13
  <2> QED BY <1>8, <1>9, <1>13, <2>1
<1>14. ASSUME ConnectFails \/ ReportCancelled \/ ReportAnswer \/ ReportFailure
       PROVE  Flight'
  <2>1. /\ Running /\ ~Running' /\ commands' = commands
        /\ \E m : m.event \in Ends /\ events' = Append(events, m)
    BY <1>1, <1>14 DEF ConnectFails, ReportCancelled, ReportAnswer, ReportFailure, Report, Emit,
       Event, Ends, Running
  <2> QED BY <1>13, <2>1
<1>15. ASSUME Ask
       PROVE  Flight'
  <2>1. /\ Running /\ Running' /\ commands' = commands
        /\ \E m : m.event \notin Ends /\ events' = Append(events, m)
    BY <1>15 DEF Ask, Emit, Event, Ends, Running, worker
  <2>2. E(events') = E(events)
    BY <1>5, <2>1
  <2> QED BY <1>8, <1>9, <2>1, <2>2
<1> QED BY <1>10, <1>11, <1>12, <1>14, <1>15 DEF Work

\* Every step leaves one task in flight.
LEMMA FlightOfSession ==
  ASSUME TuiInv, [TuiNext]_all
  PROVE  Flight'
<1> USE DEF TuiInv
<1>1. ASSUME TurnStep
      PROVE  Flight'
  <2>1. SameSession
    BY <1>1, TurnMoves
  <2>2. Tasks' = Tasks /\ Endings' = Endings /\ (Running' <=> Running)
    BY <2>1 DEF Tasks, Endings, Running, SameSession
  <2> QED BY <2>1, <2>2 DEF Flight, SameSession
<1>2. ASSUME Vanish
      PROVE  Flight'
  <2>1. ui'.status = "gone"
    BY <1>2 DEF Vanish, Crash, Exit, Forget, FreshUi
  <2> QED BY <2>1 DEF Flight
<1>3. ASSUME Resume
      PROVE  Flight'
  <2>1. ui'.status = "idle" /\ ui'.inflight = FALSE /\ phase' = "start"
    BY <1>3, ResumesFrom DEF FreshUi
  <2>2. commands' = << >> /\ events' = << >>
    BY <1>3, ResumesFrom DEF SessionShape
  <2>3. Tasks' = {} /\ Endings' = {}
    BY <2>2, ListsAreTalk, Marks, OnTheWay
  <2> QED BY <2>1, <2>2, <2>3 DEF Flight, Running
<1>4. ASSUME UNCHANGED all
      PROVE  Flight'
  <2>1. ui' = ui /\ commands' = commands /\ events' = events /\ phase' = phase
    BY <1>4 DEF all, session, screen, channel, worker
  <2>2. Tasks' = Tasks /\ Endings' = Endings /\ (Running' <=> Running)
    BY <2>1 DEF Tasks, Endings, Running
  <2> QED BY <2>1, <2>2 DEF Flight
<1> QED BY <1>1, <1>2, <1>3, <1>4, TuiSteps, UiKeepsFlight, WorkKeepsFlight

----------------------------------------------------------------------------
(* Routes.                                                                 *)

\* Commands end where the screen is.
LEMMA HeadingKept ==
  ASSUME NEW c, Talk(c), NEW from, NEW to, HeadsFor(c, from, to)
  PROVE  /\ \A m : m.command # "switch" => HeadsFor(Append(c, m), from, to)
         /\ \A route : HeadsFor(Append(c, SwitchRoute(route)), from, route)
         /\ c # << >> /\ Head(c).command # "switch" => HeadsFor(Tail(c), from, to)
         /\ c # << >> /\ Head(c).command = "switch" => HeadsFor(Tail(c), Head(c).route, to)
<1>1. /\ Switches(c) = {} => to = from
      /\ \A i \in Switches(c) : (\A j \in Switches(c) : j <= i) => c[i].route = to
  BY DEF HeadsFor
<1>2. Len(c) \in Nat
  BY TalkIsSequence
<1>3. ASSUME NEW m
      PROVE  LET longer == Append(c, m)
             IN  /\ Len(longer) = Len(c) + 1 /\ longer[Len(c) + 1] = m
                 /\ \A i \in 1 .. Len(c) : longer[i] = c[i]
                 /\ \A i : i \in Switches(longer) <=>
                      i \in Switches(c) \/ (i = Len(c) + 1 /\ m.command = "switch")
  <2> DEFINE longer == Append(c, m)
  <2>1. /\ Len(c) \in Nat /\ Len(longer) = Len(c) + 1 /\ longer[Len(c) + 1] = m
        /\ \A i \in 1 .. Len(c) : longer[i] = c[i]
    BY Sent
  <2> HIDE DEF longer
  <2>2. \A i : i \in 1 .. Len(longer) <=> i \in 1 .. Len(c) \/ i = Len(c) + 1
    BY <2>1
  <2>3. \A i : i \in Switches(longer) <=>
                 i \in Switches(c) \/ (i = Len(c) + 1 /\ m.command = "switch")
    BY <2>1, <2>2 DEF Switches
  <2> QED BY <2>1, <2>3 DEF longer
<1>4. Switches(c) \subseteq 1 .. Len(c)
  BY DEF Switches
<1>5. ASSUME NEW m, m.command # "switch"
      PROVE  HeadsFor(Append(c, m), from, to)
  <2> DEFINE longer == Append(c, m)
  <2>1. /\ \A i \in 1 .. Len(c) : longer[i] = c[i]
        /\ Switches(longer) = Switches(c)
    BY <1>3, <1>5
  <2> HIDE DEF longer
  <2> QED BY <1>1, <1>4, <2>1 DEF HeadsFor, longer
<1>6. ASSUME NEW route
      PROVE  HeadsFor(Append(c, SwitchRoute(route)), from, route)
  <2> DEFINE m == SwitchRoute(route)
             longer == Append(c, m)
  <2>1. m.command = "switch" /\ m.route = route
    BY DEF SwitchRoute
  <2> HIDE DEF m
  <2>2. /\ longer[Len(c) + 1] = m
        /\ \A i : i \in Switches(longer) <=> i \in Switches(c) \/ i = Len(c) + 1
    BY <1>3, <2>1
  <2> HIDE DEF longer
  <2>3. ASSUME NEW i \in Switches(longer), \A j \in Switches(longer) : j <= i
        PROVE  i = Len(c) + 1
    <3>1. Len(c) + 1 <= i
      BY <2>2, <2>3
    <3>2. i \in 1 .. Len(c) \/ i = Len(c) + 1
      BY <1>4, <2>2
    <3> QED BY <1>2, <3>1, <3>2
  <2> QED BY <2>1, <2>2, <2>3 DEF HeadsFor, longer, m
<1>7. ASSUME c # << >>
      PROVE  /\ Head(c).command # "switch" => HeadsFor(Tail(c), from, to)
             /\ Head(c).command = "switch" => HeadsFor(Tail(c), Head(c).route, to)
  <2> DEFINE left == Tail(c)
             head == Head(c)
  <2>1. /\ Len(c) # 0 /\ Len(left) = Len(c) - 1
        /\ head = c[1] /\ \A i \in 1 .. Len(c) - 1 : left[i] = c[i + 1]
    BY <1>7, Taken
  <2> HIDE DEF left, head
  <2>2. 1 \in 1 .. Len(c) /\ \A i \in 1 .. Len(left) : i + 1 \in 1 .. Len(c)
    BY <1>2, <2>1
  <2>3. \A i \in 1 .. Len(left) : /\ i \in Switches(left) <=> i + 1 \in Switches(c)
                                  /\ left[i] = c[i + 1]
    BY <2>1, <2>2 DEF Switches
  <2>4. Switches(left) \subseteq 1 .. Len(left)
    BY DEF Switches
  <2>5. head.command = "switch" <=> 1 \in Switches(c)
    BY <2>1, <2>2 DEF Switches
  <2>6. \A j \in Switches(c) : j = 1 \/ (j - 1 \in Switches(left) /\ (j - 1) + 1 = j)
    <3>1. ASSUME NEW j \in Switches(c), j # 1
          PROVE  j - 1 \in Switches(left) /\ (j - 1) + 1 = j
      <4>1. j - 1 \in 1 .. Len(left) /\ (j - 1) + 1 = j
        BY <1>2, <1>4, <2>1, <3>1
      <4> QED BY <2>3, <4>1
    <3> QED BY <3>1
  <2>7. ASSUME NEW i \in Switches(left), \A j \in Switches(left) : j <= i
        PROVE  left[i].route = to
    <3>1. i \in 1 .. Len(left) /\ i + 1 \in Switches(c) /\ left[i] = c[i + 1]
      BY <2>3, <2>4
    <3>2. \A j \in Switches(c) : j <= i + 1
      <4>1. ASSUME NEW j \in Switches(c)
            PROVE  j <= i + 1
        <5>1. CASE j = 1
          BY <1>2, <2>1, <3>1, <5>1
        <5>2. CASE j - 1 \in Switches(left) /\ (j - 1) + 1 = j
          <6>1. j - 1 <= i
            BY <2>7, <5>2
          <6>2. j \in Nat /\ i \in Nat
            BY <1>2, <1>4, <2>1, <3>1
          <6> QED BY <6>1, <6>2
        <5> QED BY <2>6, <5>1, <5>2
      <4> QED BY <4>1
    <3> QED BY <1>1, <3>1, <3>2
  <2>8. ASSUME Switches(left) = {}, head.command # "switch"
        PROVE  to = from
    BY <1>1, <2>5, <2>6, <2>8
  <2>9. ASSUME Switches(left) = {}, head.command = "switch"
        PROVE  to = head.route
    <3>1. 1 \in Switches(c) /\ \A j \in Switches(c) : j <= 1
      BY <2>5, <2>6, <2>9
    <3> QED BY <1>1, <2>1, <3>1
  <2> QED BY <2>7, <2>8, <2>9 DEF HeadsFor, left, head
<1> QED BY <1>5, <1>6, <1>7

\* Every step leaves the screen's route ahead of the worker.
LEMMA HeadingOfSession ==
  ASSUME TuiInv, [TuiNext]_all
  PROVE  Heading'
<1> USE DEF TuiInv
<1>1. Talk(commands)
  BY DEF SessionShape
<1> SUFFICES ASSUME ui'.status # "gone"
             PROVE  HeadsFor(commands', agent'.route, ui'.route)
  BY DEF Heading
<1>2. /\ \A m : m.command # "switch" /\ ui.status # "gone" =>
           HeadsFor(Append(commands, m), agent.route, ui.route)
      /\ \A route : ui.status # "gone" =>
           HeadsFor(Append(commands, SwitchRoute(route)), agent.route, route)
      /\ ui.status # "gone" /\ commands # << >> /\ Head(commands).command # "switch" =>
           HeadsFor(Tail(commands), agent.route, ui.route)
      /\ ui.status # "gone" /\ commands # << >> /\ Head(commands).command = "switch" =>
           HeadsFor(Tail(commands), Head(commands).route, ui.route)
      /\ ui.status # "gone" => HeadsFor(commands, agent.route, ui.route)
  <2>1. ui.status # "gone" => HeadsFor(commands, agent.route, ui.route)
    BY DEF Heading
  <2> QED BY <1>1, <2>1, HeadingKept
<1>3. ASSUME UserStep \/ UiStep
      PROVE  HeadsFor(commands', agent'.route, ui'.route)
  <2>1. agent' = agent
    BY <1>3 DEF UserStep, UiStep, Submit, QueueDraft, DropDraft, Interrupt, Approve, Decline,
         AnswerApproval, SwitchMode, SwitchTo, Quit, CancelTurn, HandleApproval, HandleAnswer,
         HandleEnd, worker
  <2>2. CASE Quit
    BY <2>2 DEF Quit, FreshUi
  <2>3. ASSUME NEW route, SwitchTo(route)
        PROVE  HeadsFor(commands', agent'.route, ui'.route)
    <3>1. /\ commands' = Append(commands, SwitchRoute(route)) /\ ui'.route = route
          /\ ui.status # "gone"
      BY <2>3 DEF SwitchTo, Attentive, SessionShape
    <3> QED BY <1>2, <2>1, <3>1
  <2>4. CASE Submit \/ HandleAnswer \/ SwitchMode
    <3>1. /\ \E m : m.command # "switch" /\ commands' = Append(commands, m)
          /\ ui'.route = ui.route /\ ui.status # "gone"
      BY <2>4 DEF Submit, HandleAnswer, SwitchMode, Dispatch, Task, ModeChanged, Attentive,
         NextEvent, screen, SessionShape
    <3> QED BY <1>2, <2>1, <3>1
  <2>5. CASE \/ QueueDraft \/ DropDraft \/ Interrupt \/ CancelTurn \/ HandleApproval \/ HandleEnd
             \/ \E approved, always : AnswerApproval(approved, always)
    <3>1. /\ commands' = commands /\ ui'.route = ui.route
          /\ ui.status # "gone" \/ ui'.status = ui.status
      BY <2>5 DEF QueueDraft, DropDraft, Interrupt, CancelTurn, HandleApproval, HandleEnd,
         AnswerApproval, channel, Attentive, NextEvent, SessionShape
    <3> QED BY <1>2, <2>1, <3>1
  <2> QED BY <1>3, <2>2, <2>3, <2>4, <2>5 DEF UserStep, UiStep, Approve, Decline
<1>4. ASSUME Work
      PROVE  HeadsFor(commands', agent'.route, ui'.route)
  <2>1. ui' = ui
    BY <1>4 DEF Work, StartSession, TakeMode, TakeSwitch, TakeTask, ConnectFails, StartTurn, Ask,
         EndTurn, SaveTurn, ReportCancelled, ReportAnswer, ReportFailure, Report, Leave,
         EndSession, screen
  <2>2. CASE TakeSwitch
    <3> DEFINE route == Head(commands).route
    <3>1. PICK connected \in BOOLEAN :
            agent' = [agent EXCEPT !.route = route, !.connected = connected,
                                   !.routeChanged = @ \/ agent.route # route]
      BY <2>2 DEF TakeSwitch
    <3> HIDE DEF route
    <3>2. agent'.route = route
      BY <3>1 DEF SessionShape
    <3>3. commands # << >> /\ Head(commands).command = "switch" /\ commands' = Tail(commands)
      BY <2>2 DEF TakeSwitch, NextCommand
    <3> QED BY <1>2, <2>1, <3>2, <3>3 DEF route
  <2>3. CASE TakeMode \/ TakeTask
    <3>1. agent' = agent \/ agent' = [agent EXCEPT !.mode = mode]
      BY <2>3 DEF TakeMode, TakeTask
    <3>2. agent'.route = agent.route
      BY <3>1 DEF SessionShape
    <3>3. commands # << >> /\ Head(commands).command # "switch" /\ commands' = Tail(commands)
      BY <2>3 DEF TakeMode, TakeTask, NextCommand
    <3> QED BY <1>2, <2>1, <3>2, <3>3
  <2>4. CASE ~(TakeSwitch \/ TakeMode \/ TakeTask)
    <3>1. /\ commands' = commands
          /\ \/ agent' = agent
             \/ agent' = [agent EXCEPT !.mode = mode, !.routeChanged = FALSE, !.connected = TRUE]
             \/ \E connected \in BOOLEAN : agent' = [agent EXCEPT !.connected = connected]
      BY <1>4, <2>4 DEF Work, StartSession, ConnectFails, StartTurn, Ask, EndTurn, SaveTurn,
         ReportCancelled, ReportAnswer, ReportFailure, Report, Leave, EndSession, channel, worker
    <3>2. agent'.route = agent.route
      BY <3>1 DEF SessionShape
    <3> QED BY <1>2, <2>1, <3>1, <3>2
  <2> QED BY <2>2, <2>3, <2>4
<1>5. ASSUME TurnStep
      PROVE  HeadsFor(commands', agent'.route, ui'.route)
  BY <1>2, <1>5, TurnMoves DEF SameSession
<1>6. ASSUME Vanish
      PROVE  FALSE
  BY <1>6 DEF Vanish, Crash, Exit, Forget, FreshUi
<1>7. ASSUME Resume
      PROVE  HeadsFor(commands', agent'.route, ui'.route)
  <2>1. commands' = << >>
    BY <1>7, ResumesFrom DEF SessionShape
  <2>2. agent'.route = SavedRoute(ledger) /\ ui'.route = SavedRoute(ledger)
    BY <1>7, ResumesFrom DEF FreshUi
  <2>3. Switches(<< >>) = {}
    BY ListsAreTalk DEF Switches
  <2> QED BY <2>1, <2>2, <2>3 DEF HeadsFor
<1>8. ASSUME UNCHANGED all
      PROVE  HeadsFor(commands', agent'.route, ui'.route)
  BY <1>2, <1>8 DEF all, session, screen, channel, worker
<1> QED BY <1>3, <1>4, <1>5, <1>6, <1>7, <1>8, TuiSteps

----------------------------------------------------------------------------
(* The ledger.                                                             *)

\* The ledger only changes by an append, whole or not, of what is due.
LEMMA Appends ==
  ASSUME [TuiNext]_all
  PROVE  \/ ledger' = ledger
         \/ /\ ~ledgerFailed
            /\ \E record \in Unfinished :
                 \/ ledger' = Appended(ledger, record)
                 \/ \E kind \in Leftovers : ledger' = Leftover(ledger, record, kind)
<1> DEFINE Goal ==
       \/ ledger' = ledger
       \/ /\ ~ledgerFailed
          /\ \E record \in Unfinished :
               \/ ledger' = Appended(ledger, record)
               \/ \E kind \in Leftovers : ledger' = Leftover(ledger, record, kind)
<1>1. ASSUME NEW record \in Unfinished, Record(record)
      PROVE  Goal
  BY <1>1 DEF Record
<1>2. ASSUME CutOff
      PROVE  Goal
  BY <1>2 DEF CutOff
<1> HIDE DEF Goal
<1>3. ASSUME ledger' = ledger
      PROVE  Goal
  BY <1>3 DEF Goal
<1>4. ASSUME StartSession
      PROVE  Goal
  <2>1. Record(Lifecycle) /\ Lifecycle \in Unfinished
    BY <1>4 DEF StartSession, Unfinished, NextCommand
  <2> QED BY <1>1, <2>1
<1>5. ASSUME SaveTurn
      PROVE  Goal
  <2>1. Record(TurnRecord) /\ TurnRecord \in Unfinished
    BY <1>5 DEF SaveTurn, Unfinished, NextCommand
  <2> QED BY <1>1, <2>1
<1>6. ASSUME EndSession
      PROVE  Goal
  <2>1. Record(Ended) /\ Ended \in Unfinished
    BY <1>6 DEF EndSession, Unfinished, NextCommand
  <2> QED BY <1>1, <2>1
<1>7. ASSUME TakeSwitch
      PROVE  Goal
  <2>1. Record(RouteSwitched(Head(commands).route))
        /\ RouteSwitched(Head(commands).route) \in Unfinished
    BY <1>7 DEF TakeSwitch, Unfinished, NextCommand
  <2> QED BY <1>1, <2>1
<1>8. ASSUME Vanish
      PROVE  Goal
  BY <1>2, <1>8 DEF Vanish, Crash, Exit
<1>9. ASSUME Work, ~(StartSession \/ SaveTurn \/ EndSession \/ TakeSwitch)
      PROVE  ledger' = ledger
  BY <1>9 DEF Work, TakeMode, TakeTask, ConnectFails, StartTurn, Ask, EndTurn,
     ReportCancelled, ReportAnswer, ReportFailure, Report, Leave, disk
<1>10. ASSUME UserStep \/ UiStep \/ Resume \/ UNCHANGED all
       PROVE  ledger' = ledger
  BY <1>10 DEF UserStep, UiStep, Submit, QueueDraft, DropDraft, Interrupt, Approve, Decline,
     AnswerApproval, SwitchMode, SwitchTo, Quit, CancelTurn, HandleApproval, HandleAnswer,
     HandleEnd, Resume, disk, all, session
<1>11. ASSUME TurnStep
       PROVE  ledger' = ledger
  <2>1. UNCHANGED session \/ Settled
    BY <1>11 DEF TurnStep, LoopTurns, ClientStops, ProviderAnswers, RunTool, Declined, Approved
  <2> QED BY <2>1 DEF session, disk, Settled
<1>12. Goal
  BY <1>3, <1>4, <1>5, <1>6, <1>7, <1>8, <1>9, <1>10, <1>11, TuiSteps
<1> QED BY <1>12 DEF Goal

\* The route of a switch the worker takes next is one of the catalog.
LEMMA SwitchIsRouted ==
  ASSUME SessionShape, OnRoutes, NextCommand("switch")
  PROVE  Head(commands).route \in Routes
<1>1. /\ Len(commands) \in Nat /\ Len(commands) # 0 /\ Head(commands) = commands[1]
      /\ commands[1].command = "switch"
  BY Taken DEF SessionShape, NextCommand
<1>2. 1 \in Switches(commands)
  BY <1>1 DEF Switches
<1> QED BY <1>1, <1>2 DEF OnRoutes

\* Every step leaves the routes in the catalog.
LEMMA RoutesOfSession ==
  ASSUME TuiInv, [TuiNext]_all
  PROVE  OnRoutes'
<1> USE DEF TuiInv
<1>1. agent'.route \in Routes
  <2>1. agent.route \in Routes
    BY DEF OnRoutes
  <2>2. CASE TakeSwitch
    <3> DEFINE route == Head(commands).route
    <3>1. PICK connected \in BOOLEAN :
            agent' = [agent EXCEPT !.route = route, !.connected = connected,
                                   !.routeChanged = @ \/ agent.route # route]
      BY <2>2 DEF TakeSwitch
    <3>2. route \in Routes
      BY <2>2, SwitchIsRouted DEF TakeSwitch
    <3> HIDE DEF route
    <3> QED BY <3>1, <3>2 DEF SessionShape
  <2>3. CASE Resume
    BY <2>3, ResumesFrom, Restoring
  <2>4. CASE Work /\ ~TakeSwitch
    <3>1. \/ agent' = agent
          \/ agent' = [agent EXCEPT !.mode = mode]
          \/ agent' = [agent EXCEPT !.mode = mode, !.routeChanged = FALSE, !.connected = TRUE]
          \/ \E connected \in BOOLEAN : agent' = [agent EXCEPT !.connected = connected]
      BY <2>4 DEF Work, StartSession, TakeMode, TakeTask, ConnectFails, StartTurn, Ask, EndTurn,
         SaveTurn, ReportCancelled, ReportAnswer, ReportFailure, Report, Leave, EndSession,
         worker
    <3> QED BY <2>1, <3>1 DEF SessionShape
  <2>5. CASE UserStep \/ UiStep \/ Vanish \/ UNCHANGED all
    <3>1. agent' = agent
      BY <2>5 DEF UserStep, UiStep, Submit, QueueDraft, DropDraft, Interrupt, Approve, Decline,
         AnswerApproval, SwitchMode, SwitchTo, Quit, CancelTurn, HandleApproval, HandleAnswer,
         HandleEnd, worker, Vanish, Crash, Exit, Forget, all, session
    <3> QED BY <2>1, <3>1
  <2>6. CASE TurnStep
    BY <2>1, <2>6, TurnMoves DEF SameSession
  <2> QED BY <2>2, <2>3, <2>4, <2>5, <2>6, TuiSteps
<1>2. \A i \in Switches(commands') : commands'[i].route \in Routes
  <2> DEFINE On(c) == \A i \in Switches(c) : c[i].route \in Routes
  <2>1. Talk(commands) /\ On(commands)
    BY DEF OnRoutes, SessionShape
  <2>2. On(<< >>)
    BY ListsAreTalk DEF Switches
  <2>3. ASSUME commands # << >>
        PROVE  On(Tail(commands))
    <3> DEFINE left == Tail(commands)
    <3>1. /\ Len(commands) \in Nat /\ Len(left) = Len(commands) - 1
          /\ \A i \in 1 .. Len(commands) - 1 : left[i] = commands[i + 1]
      BY <2>1, <2>3, Taken
    <3> HIDE DEF left
    <3>2. \A i \in 1 .. Len(left) : left[i] = commands[i + 1] /\ i + 1 \in 1 .. Len(commands)
      BY <3>1
    <3>3. On(left)
      BY <2>1, <3>2 DEF Switches
    <3> QED BY <3>3 DEF left
  <2>4. ASSUME NEW m, m.command = "switch" => m.route \in Routes
        PROVE  On(Append(commands, m))
    <3> DEFINE longer == Append(commands, m)
    <3>1. /\ Len(commands) \in Nat /\ Len(longer) = Len(commands) + 1
          /\ longer[Len(commands) + 1] = m
          /\ \A i \in 1 .. Len(commands) : longer[i] = commands[i]
      BY <2>1, Sent
    <3> HIDE DEF longer
    <3>2. \A i \in 1 .. Len(longer) : i \in 1 .. Len(commands) \/ i = Len(commands) + 1
      BY <3>1
    <3>3. On(longer)
      BY <2>1, <2>4, <3>1, <3>2 DEF Switches
    <3> QED BY <3>3 DEF longer
  <2> HIDE DEF On
  <2>5. \/ commands' = commands \/ commands' = << >>
        \/ commands # << >> /\ commands' = Tail(commands)
        \/ \E m : (m.command = "switch" => m.route \in Routes) /\ commands' = Append(commands, m)
    <3>1. CASE UserStep \/ UiStep
      BY <3>1 DEF UserStep, UiStep, Submit, QueueDraft, DropDraft, Interrupt, Approve, Decline,
         AnswerApproval, SwitchMode, SwitchTo, Quit, CancelTurn, HandleApproval, HandleAnswer,
         HandleEnd, channel, Dispatch, Task, ModeChanged, Stop, SwitchRoute
    <3>2. CASE Work
      BY <3>2 DEF Work, StartSession, TakeMode, TakeSwitch, TakeTask, ConnectFails, StartTurn,
         Ask, EndTurn, SaveTurn, ReportCancelled, ReportAnswer, ReportFailure, Report, Leave,
         EndSession, NextCommand, channel
    <3>3. CASE Vanish \/ Resume \/ UNCHANGED all
      BY <3>3 DEF Vanish, Crash, Exit, Forget, Resume, all, session, channel
    <3>4. CASE TurnStep
      BY <3>4, TurnMoves DEF SameSession
    <3> QED BY <3>1, <3>2, <3>3, <3>4, TuiSteps
  <2>6. On(commands')
    BY <2>1, <2>2, <2>3, <2>4, <2>5
  <2> QED BY <2>6 DEF On
<1>3. Routed(ledger'.lines)
  <2> SUFFICES ASSUME NEW record \in Unfinished,
                      NEW kind \in {"nothing", "line", "part", "whole"},
                      \/ ledger' = Appended(ledger, record)
                      \/ ledger' = Leftover(ledger, record, kind)
               PROVE  Routed(ledger'.lines)
    BY Appends, TuiSessionAssumption DEF OnRoutes
  <2>1. record.event \in {"started", "switched"} => record.route \in Routes
    <3>1. \/ record = Started(agent.route) \/ record = Resumed \/ record = TurnRecord
          \/ record = Ended
          \/ NextCommand("switch") /\ record = RouteSwitched(Head(commands).route)
      BY DEF Unfinished, Lifecycle
    <3> QED BY <3>1, SwitchIsRouted
            DEF Started, Resumed, TurnRecord, Turn, Ended, RouteSwitched, OnRoutes
  <2>2. Corrupt.event \notin {"started", "switched"}
    BY DEF Corrupt
  <2>3. GoodFile(ledger) /\ Routed(ledger.lines)
    BY DEF FileShape, OnRoutes
  <2>4. \/ ledger'.lines \in {ledger.lines, Firm(ledger)}
        \/ ledger'.lines = Append(ledger.lines, record)
        \/ ledger'.lines = Append(Firm(ledger), Corrupt)
    BY <2>3, Writes
  <2>5. Lines(ledger.lines) /\ Lines(Firm(ledger))
    BY <2>3, FrontOfLines DEF GoodFile, Firm
  <2>6. Routed(Firm(ledger))
    <3> DEFINE l == ledger.lines
    <3>1. Talk(l) /\ Len(l) \in Nat /\ Routed(l) /\ (ledger.tail = "whole" => Len(l) # 0)
      BY <2>3, <2>5, TalkIsSequence DEF Lines, GoodFile
    <3> HIDE DEF l
    <3>2. CASE ledger.tail = "whole"
      <4>1. Len(l) - 1 \in 0 .. Len(l)
        BY <3>1, <3>2
      <4>2. /\ Len(SubSeq(l, 1, Len(l) - 1)) = Len(l) - 1
            /\ \A i \in 1 .. Len(l) - 1 : SubSeq(l, 1, Len(l) - 1)[i] = l[i]
        BY <3>1, <4>1, Opening
      <4>3. \A i \in 1 .. Len(l) - 1 : i \in 1 .. Len(l)
        BY <3>1
      <4>4. Routed(SubSeq(l, 1, Len(l) - 1))
        BY <3>1, <4>2, <4>3 DEF Routed
      <4> QED BY <3>2, <4>4 DEF Firm, Front, l
    <3>3. CASE ledger.tail # "whole"
      BY <3>1, <3>3 DEF Firm, l
    <3> QED BY <3>2, <3>3
  <2>7. ASSUME NEW l, Talk(l), Routed(l),
               NEW e, e.event \in {"started", "switched"} => e.route \in Routes
        PROVE  Routed(Append(l, e))
    <3> DEFINE longer == Append(l, e)
    <3>1. /\ Len(l) \in Nat /\ Len(longer) = Len(l) + 1 /\ longer[Len(l) + 1] = e
          /\ \A i \in 1 .. Len(l) : longer[i] = l[i]
      BY <2>7, Sent
    <3> HIDE DEF longer
    <3>2. \A i \in 1 .. Len(longer) : i \in 1 .. Len(l) \/ i = Len(l) + 1
      BY <3>1
    <3>3. Routed(longer)
      BY <2>7, <3>1, <3>2 DEF Routed
    <3> QED BY <3>3 DEF longer
  <2>8. Routed(Append(ledger.lines, record)) /\ Routed(Append(Firm(ledger), Corrupt))
    BY <2>1, <2>2, <2>3, <2>5, <2>6, <2>7 DEF Lines
  <2> QED BY <2>3, <2>4, <2>6, <2>8
<1> QED BY <1>1, <1>2, <1>3 DEF OnRoutes

----------------------------------------------------------------------------
(* What the transcript says.                                               *)

\* Quiet messages and a compaction leave what was said.
LEMMA SaidStays ==
  ASSUME NEW h, Talk(h), NEW m, NEW route
  PROVE  /\ \A q : Quiet(q) /\ Says(h, m, route) => Says(h \o q, m, route)
         /\ Says(h, m, route) => Says(Prepare(h), m, route)
<1>1. ASSUME NEW q, Quiet(q), NEW field, NEW default
      PROVE  LastSaid(h \o q, field, default) = LastSaid(h, field, default)
  <2>1. Talk(q)
    BY <1>1 DEF Quiet
  <2> DEFINE earlier == LastSaid(h, field, default)
  <2>2. LastSaid(h \o q, field, default) = LastSaid(q, field, earlier)
    BY <2>1, SaidJoined
  <2> HIDE DEF earlier
  <2>3. LastSaid(q, field, earlier) = earlier
    BY <1>1, QuietSaysNothing
  <2> QED BY <2>2, <2>3 DEF earlier
<1>2. ASSUME NEW field, NEW default
      PROVE  LastSaid(Prepare(h), field, default) = LastSaid(h, field, default)
  BY SaidCompacted DEF Prepare
<1> QED BY <1>1, <1>2 DEF Says, LastMode, LastRoute

\* The opening of a turn says the mode and the route, or keeps what was said.
LEMMA OpeningSays ==
  ASSUME NEW h, Talk(h), NEW m \in Modes, NEW route \in Routes, NEW run,
         h # << >> => Says(h, m, route)
  PROVE  LET whole == h \o Opens(h, Constitution(route, m), run)
         IN  Talk(whole) /\ Says(whole, m, route)
<1> DEFINE opening == Opens(h, Constitution(route, m), run)
           task == << User(run) >>
<1>1. Talk(opening) /\ Talk(task)
  BY OpensWithUser, ListsAreTalk
<1>2. Quiet(task)
  <2>1. Talk(task) /\ Len(task) = 1 /\ task[1].role = "user"
    BY ListsAreTalk DEF User
  <2> HIDE DEF task
  <2> QED BY <2>1 DEF Quiet
<1>3. Talk(h \o opening)
  BY <1>1, Joined
<1>4. CASE h # << >>
  <2>1. opening = task
    BY <1>4, OpensWithUser
  <2>2. Says(h \o task, m, route)
    BY <1>2, <1>4, SaidStays
  <2> QED BY <1>3, <2>1, <2>2
<1>5. CASE h = << >>
  <2> DEFINE said == << System(Constitution(route, m)) >>
  <2>1. opening = said \o task /\ Talk(said)
    BY <1>5, OpensWithUser, ListsAreTalk
  <2>2. h \o opening = opening
    BY <1>1, <1>5, JoinedWithNothing
  <2>3. Says(said, m, route)
    <3> DEFINE notice == System(Constitution(route, m))
    <3>1. /\ notice.role = "system"
          /\ notice.says["mode"] = IF m = "Plan" THEN "Plan" ELSE "none"
          /\ notice.says["route"] = route
      BY DEF System, Constitution, Notice
    <3>2. m # "none" /\ route # "none" /\ (m # "Plan" => m = "Change")
      BY TuiSessionAssumption DEF Modes
    <3> HIDE DEF notice
    <3>3. /\ LastSaid(<< notice >>, "mode", "Change") =
               IF notice.role = "system" /\ notice.says["mode"] # "none"
                 THEN notice.says["mode"] ELSE "Change"
          /\ LastSaid(<< notice >>, "route", "none") =
               IF notice.role = "system" /\ notice.says["route"] # "none"
                 THEN notice.says["route"] ELSE "none"
      BY SaidAlone
    <3> QED BY <3>1, <3>2, <3>3 DEF Says, LastMode, LastRoute, notice
  <2>4. Says(said \o task, m, route)
    <3> HIDE DEF said, task
    <3> QED BY <1>2, <2>1, <2>3, SaidStays
  <2> QED BY <1>3, <2>1, <2>2, <2>4
<1> QED BY <1>3, <1>4, <1>5

\* A turn opens with the mode and the route said.
LEMMA TurnIsTold ==
  ASSUME TuiInv, StartTurn
  PROVE  Told'
<1> DEFINE h       == WithContext(history)
           opening == Opens(h, Constitution(agent.route, mode), spent.runs + 1)
<1>1. /\ history' = h /\ working' = h \o opening /\ appended' = opening /\ pc' = "top"
      /\ phase = "connect" /\ phase' = "turn" /\ mode' = mode
      /\ agent' = [agent EXCEPT !.mode = mode, !.routeChanged = FALSE, !.connected = TRUE]
  BY TurnOpens DEF TuiInv, channel
<1>2. agent'.mode = mode /\ agent'.route = agent.route /\ ~agent'.routeChanged
  BY <1>1 DEF TuiInv, SessionShape
<1>3. Talk(history) /\ mode \in Modes /\ agent.route \in Routes /\ pc = "idle"
  BY <1>1 DEF TuiInv, SessionShape, OnRoutes
<1>4. history # << >> /\ ~agent.routeChanged => LastRoute(history) = agent.route
  BY <1>3 DEF TuiInv, Told
<1>5. /\ Talk(h) /\ (h # << >> => LastMode(h) = mode)
      /\ h # << >> => LastRoute(h) = agent.route
  BY <1>3, <1>4, ContextIsSaid
<1> HIDE DEF h
<1>6. Says(h \o opening, mode, agent.route)
  BY <1>3, <1>5, OpeningSays DEF Says
<1> HIDE DEF opening
<1>7. Says(working', mode', agent'.route) /\ Says(Transcript', mode', agent'.route)
  BY <1>1, <1>2, <1>6 DEF Transcript
<1> QED BY <1>1, <1>2, <1>7 DEF Told

\* What a turn hands back says its mode and its route.
LEMMA ReturnIsTold ==
  ASSUME TuiInv, EndTurn
  PROVE  /\ Told' /\ history' = Transcript
         /\ Len(Transcript) = Len(history) + Len(appended)
         /\ \A i \in 1 .. Len(history) : history'[i] = history[i]
         /\ \A i \in 1 .. Len(appended) : history'[Len(history) + i] = appended[i]
<1>1. /\ history' = history \o appended /\ pc' = "idle" /\ phase' = "save" /\ pc # "idle"
      /\ agent' = agent /\ mode \in Modes
  BY DEF EndTurn, Return, TuiInv, SessionShape
<1>2. Talk(history) /\ Talk(appended)
  BY DEF TuiInv, SessionShape
<1>3. /\ Talk(history \o appended) /\ Len(history) \in Nat /\ Len(appended) \in Nat
      /\ Len(history \o appended) = Len(history) + Len(appended)
      /\ \A i \in 1 .. Len(history) : (history \o appended)[i] = history[i]
      /\ \A i \in 1 .. Len(appended) : (history \o appended)[Len(history) + i] = appended[i]
  BY <1>2, Joined
<1>4. LastMode(Transcript) = mode /\ LastRoute(Transcript) = agent.route /\ ~agent.routeChanged
  BY <1>1 DEF TuiInv, Told, Says
<1>5. history' = Transcript
  BY <1>1 DEF Transcript
<1>6. history' # << >>
  <2>1. Len(appended) # 0
    <3>1. Holds(appended, Run)
      BY <1>1 DEF TuiInv, Showing
    <3> QED BY <1>3, <3>1 DEF Holds
  <2>2. Len(history') # 0
    BY <1>1, <1>3, <2>1
  <2> QED BY <1>1, <1>3, <2>2, TalkIsSequence
<1>7. Told'
  BY <1>1, <1>4, <1>5, <1>6 DEF Told
<1> QED BY <1>1, <1>3, <1>5, <1>7 DEF Transcript

\* Every step leaves the mode and the route said.
LEMMA ToldOfSession ==
  ASSUME TuiInv, [TuiNext]_all
  PROVE  Told'
<1> DEFINE Same == /\ history' = history /\ working' = working /\ appended' = appended /\ pc' = pc
                   /\ mode' = mode
                   /\ agent'.mode = agent.mode /\ agent'.route = agent.route
                   /\ agent'.routeChanged = agent.routeChanged
                   /\ phase' = "save" => phase = "save"
<1>1. ASSUME Same
      PROVE  Told'
  BY <1>1 DEF TuiInv, Told, Says, Transcript
<1>2. ASSUME pc = "idle", pc' = "idle", history' = history, phase' # "save",
             ~agent'.routeChanged => agent'.route = agent.route /\ ~agent.routeChanged
      PROVE  Told'
  BY <1>2 DEF TuiInv, Told
<1>3. ASSUME UserStep \/ UiStep, ~SwitchMode
      PROVE  Told'
  <2>1. Same
    BY <1>3 DEF UserStep, UiStep, Submit, QueueDraft, DropDraft, Interrupt, Approve, Decline,
         AnswerApproval, SwitchTo, Quit, CancelTurn, HandleApproval, HandleAnswer,
         HandleEnd, vars, talk, worker, channel
  <2> QED BY <1>1, <2>1
<1>4. ASSUME SwitchMode
      PROVE  Told'
  <2>1. /\ history' = history /\ pc' = pc /\ agent' = agent /\ phase' = phase
        /\ ~ui.inflight /\ ui.status # "gone"
    BY <1>4 DEF SwitchMode, CanSwitchMode, Attentive, vars, talk, worker
  <2>2. ~Running
    BY <2>1 DEF TuiInv, Flight
  <2>3. phase \notin {"turn", "save"} /\ pc = "idle"
    BY <2>2 DEF Running, TuiInv, SessionShape
  <2> QED BY <1>2, <2>1, <2>3
<1>5. ASSUME TakeSwitch
      PROVE  Told'
  <2> DEFINE route == Head(commands).route
  <2>1. PICK connected \in BOOLEAN :
          agent' = [agent EXCEPT !.route = route, !.connected = connected,
                                 !.routeChanged = @ \/ agent.route # route]
    BY <1>5 DEF TakeSwitch
  <2> HIDE DEF route
  <2>2. agent'.route = route /\ (agent'.routeChanged <=> agent.routeChanged \/ agent.route # route)
    BY <2>1 DEF TuiInv, SessionShape
  <2>3. pc = "idle" /\ pc' = pc /\ history' = history /\ phase' = "idle"
    BY <1>5 DEF TakeSwitch, NextCommand, talk, TuiInv, SessionShape
  <2> QED BY <1>2, <2>2, <2>3
<1>6. ASSUME TakeMode \/ ReportFailure
      PROVE  Told'
  <2>1. \/ agent' = [agent EXCEPT !.mode = mode]
        \/ \E connected \in BOOLEAN : agent' = [agent EXCEPT !.connected = connected]
    BY <1>6 DEF TakeMode, ReportFailure
  <2>2. agent'.route = agent.route /\ agent'.routeChanged = agent.routeChanged
    BY <2>1 DEF TuiInv, SessionShape
  <2>3. pc = "idle" /\ pc' = pc /\ history' = history /\ phase' = "idle"
    BY <1>6 DEF TakeMode, ReportFailure, Report, NextCommand, vars, talk, TuiInv, SessionShape
  <2> QED BY <1>2, <2>2, <2>3
<1>7. ASSUME \/ StartSession \/ TakeTask \/ ConnectFails \/ Ask \/ SaveTurn \/ ReportCancelled
             \/ ReportAnswer \/ Leave \/ EndSession
      PROVE  Told'
  <2>1. Same
    BY <1>7 DEF StartSession, TakeTask, ConnectFails, Ask, SaveTurn, ReportCancelled, ReportAnswer,
         Report, Leave, EndSession, vars, talk, worker, channel
  <2> QED BY <1>1, <2>1
<1>8. ASSUME TurnStep
      PROVE  Told'
  <2>1. pc # "idle" /\ Converses /\ SameSession
    BY <1>8, TurnMoves DEF TuiInv
  <2>2. Talk(history) /\ Talk(working) /\ Talk(appended) /\ Talk(Transcript)
    BY Joined DEF TuiInv, SessionShape, Transcript
  <2>3. Says(working, mode, agent.route) /\ Says(Transcript, mode, agent.route)
    BY <2>1 DEF TuiInv, Told
  <2>4. Says(working', mode, agent.route) /\ Says(Transcript', mode, agent.route)
    <3>1. CASE working' = working /\ appended' = appended
      BY <2>1, <2>3, <3>1 DEF Transcript, Converses
    <3>2. CASE working' = Prepare(working) /\ appended' = appended
      <4>1. Says(Prepare(working), mode, agent.route)
        BY <2>2, <2>3, SaidStays
      <4> QED BY <2>1, <2>3, <3>2, <4>1 DEF Transcript, Converses
    <3>3. ASSUME NEW m, Quiet(m), working' = working \o m, appended' = appended \o m
          PROVE  Says(working', mode, agent.route) /\ Says(Transcript', mode, agent.route)
      <4>1. Says(working \o m, mode, agent.route) /\ Says(Transcript \o m, mode, agent.route)
        BY <2>2, <2>3, <3>3, SaidStays
      <4>2. Transcript' = Transcript \o m
        <5>1. history' = history /\ Talk(m)
          BY <2>1, <3>3 DEF Quiet, Converses
        <5>2. (history \o appended) \o m = history \o (appended \o m)
          BY <2>2, <5>1, Rejoined
        <5> QED BY <3>3, <5>1, <5>2 DEF Transcript
      <4> QED BY <3>3, <4>1, <4>2
    <3> QED BY <2>1, <3>1, <3>2, <3>3 DEF Converses
  <2>5. pc' # "idle" /\ phase' = "turn"
    BY <1>8, <2>1, TurnMoves DEF Converses, SameSession, TuiInv
  <2>6. agent.mode = mode /\ ~agent.routeChanged
    BY <2>1 DEF TuiInv, Told
  <2> QED BY <2>1, <2>4, <2>5, <2>6 DEF Told, SameSession
<1>9. ASSUME Vanish
      PROVE  Told'
  <2>1. history' = << >> /\ pc' = "idle" /\ phase' = "off"
    BY <1>9 DEF Vanish, Crash, Exit, Forget
  <2>2. LastMode(<< >>) \in Modes
    BY ListsAreTalk DEF LastMode, LastSaid, Notices, Modes
  <2> QED BY <2>1, <2>2 DEF Told
<1>10. ASSUME Resume
       PROVE  Told'
  <2>1. /\ history' = SavedHistory(ledger) /\ pc' = pc /\ phase' = "start" /\ ~up
        /\ agent'.route = SavedRoute(ledger)
        /\ agent'.routeChanged = (/\ Holding(ledger, {"turn"}) # {}
                                  /\ Newest(ledger, {"turn"}).route # SavedRoute(ledger))
    BY <1>10, ResumesFrom
  <2>2. pc = "idle"
    BY <2>1 DEF TuiInv, SessionShape
  <2>3. /\ LastMode(SavedHistory(ledger)) \in Modes
        /\ Holding(ledger, {"turn"}) = {} => SavedHistory(ledger) = << >>
        /\ Holding(ledger, {"turn"}) # {} =>
             LastRoute(SavedHistory(ledger)) = Newest(ledger, {"turn"}).route
    BY <1>10, ResumesFrom, Restoring DEF TuiInv
  <2> QED BY <2>1, <2>2, <2>3 DEF Told
<1>11. ASSUME UNCHANGED all
       PROVE  Told'
  <2>1. Same
    BY <1>11 DEF all, vars, talk, session, worker, channel
  <2> QED BY <1>1, <2>1
<1> QED BY <1>3, <1>4, <1>5, <1>6, <1>7, <1>8, <1>9, <1>10, <1>11,
          TuiSteps, TurnIsTold, ReturnIsTold
        DEF Work

----------------------------------------------------------------------------
(* What is saved.                                                          *)

\* A sequence is what is up to a point and what comes behind it.
LEMMA SplitAt ==
  ASSUME NEW h, Talk(h), NEW b \in 0 .. Len(h)
  PROVE  LET front == SubSeq(h, 1, b)
             rest  == SubSeq(h, b + 1, Len(h))
         IN  /\ Talk(front) /\ Talk(rest) /\ front \o rest = h
             /\ Len(h) \in Nat /\ Len(rest) = Len(h) - b
             /\ \A i \in 1 .. Len(h) - b : rest[i] = h[b + i]
<1> DEFINE front == SubSeq(h, 1, b)
           rest  == SubSeq(h, b + 1, Len(h))
           whole == front \o rest
<1>1. Len(h) \in Nat /\ b + 1 \in 1 .. Len(h) + 1 /\ Len(h) \in (b + 1) - 1 .. Len(h)
  BY TalkIsSequence
<1>2. Talk(front) /\ Len(front) = b /\ \A i \in 1 .. b : front[i] = h[i]
  BY Opening
<1>3. /\ Talk(rest) /\ Len(rest) = Len(h) - (b + 1) + 1
      /\ \A i \in 1 .. Len(h) - (b + 1) + 1 : rest[i] = h[(b + 1) + i - 1]
  BY <1>1, Cut
<1> HIDE DEF front, rest
<1>4. Len(rest) = Len(h) - b /\ \A i \in 1 .. Len(h) - b : rest[i] = h[b + i]
  <2>1. Len(h) - (b + 1) + 1 = Len(h) - b /\ \A i \in Int : (b + 1) + i - 1 = b + i
    BY <1>1
  <2> QED BY <1>1, <1>3, <2>1
<1>5. /\ Talk(whole) /\ Len(whole) = Len(front) + Len(rest)
      /\ \A i \in 1 .. Len(front) : whole[i] = front[i]
      /\ \A i \in 1 .. Len(rest) : whole[Len(front) + i] = rest[i]
  BY <1>2, <1>3, Joined
<1> HIDE DEF whole
<1>6. Len(whole) = Len(h)
  BY <1>1, <1>2, <1>4, <1>5
<1>7. ASSUME NEW i \in 1 .. Len(whole)
      PROVE  whole[i] = h[i]
  <2>1. CASE i <= b
    BY <1>1, <1>2, <1>5, <1>6, <2>1
  <2>2. CASE ~(i <= b)
    <3> DEFINE j == i - b
    <3>1. j \in 1 .. Len(h) - b /\ b + j = i
      BY <1>1, <1>6, <2>2
    <3> HIDE DEF j
    <3>2. whole[b + j] = rest[j] /\ rest[j] = h[b + j]
      BY <1>2, <1>4, <1>5, <3>1
    <3> QED BY <3>1, <3>2
  <2> QED BY <2>1, <2>2
<1>8. whole = h
  BY <1>5, <1>6, <1>7, SameTalk
<1> QED BY <1>1, <1>2, <1>3, <1>4, <1>8 DEF front, rest, whole

\* What is up to a point stays when more is said.
LEMMA FrontStays ==
  ASSUME NEW g, NEW h, Talk(g), Talk(h), NEW b \in 0 .. Len(g)
  PROVE  /\ SubSeq(g \o h, 1, b) = SubSeq(g, 1, b)
         /\ b = Len(g) => SubSeq(g, 1, b) = g
<1> DEFINE whole == g \o h
           old   == SubSeq(g, 1, b)
           new   == SubSeq(whole, 1, b)
<1>1. /\ Talk(whole) /\ Len(g) \in Nat /\ Len(h) \in Nat /\ Len(whole) = Len(g) + Len(h)
      /\ \A i \in 1 .. Len(g) : whole[i] = g[i]
  BY Joined
<1> HIDE DEF whole
<1>2. Talk(old) /\ Len(old) = b /\ \A i \in 1 .. b : old[i] = g[i]
  BY Opening
<1>3. b \in 0 .. Len(whole) /\ \A i \in 1 .. b : i \in 1 .. Len(g)
  BY <1>1
<1>4. Talk(new) /\ Len(new) = b /\ \A i \in 1 .. b : new[i] = whole[i]
  BY <1>1, <1>3, Opening
<1> HIDE DEF old, new
<1>5. new = old
  BY <1>1, <1>2, <1>3, <1>4, SameTalk
<1>6. b = Len(g) => old = g
  BY <1>2, SameTalk
<1> QED BY <1>5, <1>6 DEF old, new, whole

\* What is due may be appended, and is a turn only when one is to be saved.
LEMMA DueFits ==
  ASSUME TuiInv, ~ledgerFailed, NEW record \in Unfinished
  PROVE  /\ FitsBehind(ledger, record)
         /\ record.event = "turn" <=> phase = "save"
         /\ phase = "save" => record = TurnRecord /\ record.messages =
                                SubSeq(history, before + 1, Len(history))
<1>1. CASE phase = "save"
  <2>1. record = TurnRecord
    BY <1>1 DEF Unfinished, NextCommand
  <2>2. /\ record.event = "turn" /\ record.route = agent.route
        /\ record.messages = SubSeq(history, before + 1, Len(history))
    BY <2>1 DEF TurnRecord, Turn
  <2>3. /\ Talk(history) /\ Len(history) \in Nat /\ before \in 0 .. Len(history) /\ up
    <3>1. Talk(history) /\ up
      BY <1>1 DEF TuiInv, SessionShape
    <3>2. before \in Nat /\ before <= Len(history)
      BY <1>1 DEF TuiInv, Saving
    <3> QED BY <3>1, <3>2, TalkIsSequence
  <2>4. /\ Talk(SubSeq(history, before + 1, Len(history)))
        /\ SubSeq(history, 1, before) \o SubSeq(history, before + 1, Len(history)) = history
    BY <2>3, SplitAt
  <2>5. Readable(ledger) => SavedHistory(ledger) = SubSeq(history, 1, before)
    BY <1>1, <2>3 DEF TuiInv, Saving
  <2>6. LastMode(history) \in Modes /\ LastRoute(history) = agent.route
    <3>1. pc = "idle"
      BY <1>1 DEF TuiInv, SessionShape
    <3> QED BY <1>1, <3>1 DEF TuiInv, Told
  <2> QED BY <1>1, <2>1, <2>2, <2>4, <2>5, <2>6 DEF FitsBehind
<1>2. CASE phase # "save"
  <2>1. record.event # "turn"
    BY <1>2 DEF Unfinished, Lifecycle, Started, Resumed, Ended, RouteSwitched
  <2> QED BY <1>2, <2>1 DEF FitsBehind
<1> QED BY <1>1, <1>2

\* Every step leaves a ledger that makes sense, and takes back nothing that stays.
LEMMA LedgerOfSession ==
  ASSUME TuiInv, [TuiNext]_all
  PROVE  /\ FileShape'
         /\ \A run : Saved(Firm(ledger), run) => Saved(Firm(ledger'), run)
<1>1. GoodFile(ledger)
  BY DEF TuiInv, FileShape
<1>2. CASE ledger' = ledger
  BY <1>1, <1>2 DEF FileShape
<1>3. CASE ledger' # ledger
  <2>1. PICK record \in Unfinished, kind \in {"nothing", "line", "part", "whole"} :
          ledger' = Appended(ledger, record) \/ ledger' = Leftover(ledger, record, kind)
    BY <1>3, Appends, TuiSessionAssumption
  <2>2. ~ledgerFailed
    BY <1>3, Appends
  <2>3. FitsBehind(ledger, record)
    BY <2>2, DueFits
  <2>4. GoodFile(ledger') /\ \A run : Saved(Firm(ledger), run) => Saved(Firm(ledger'), run)
    BY <1>1, <2>1, <2>3, FileStays
  <2> QED BY <2>4 DEF FileShape
<1> QED BY <1>2, <1>3

\* A successful append: what is saved is what was, and the messages of the turn.
LEMMA Recorded ==
  ASSUME TuiInv, NEW record \in Unfinished, Record(record), ~ledgerFailed'
  PROVE  /\ ~ledgerFailed /\ ledger'.tail = "closed" /\ Firm(ledger') = ledger'.lines
         /\ ledger.tail = "closed" =>
              /\ SavedHistory(ledger') = SavedHistory(ledger) \o Messages(record)
              /\ Talk(SavedHistory(ledger))
         /\ Readable(ledger') => Readable(ledger) /\ ledger.tail = "closed"
<1>1. ~ledgerFailed /\ ledger' = Appended(ledger, record)
  BY DEF Record
<1>2. record.event = "turn" => Talk(record.messages)
  BY <1>1, DueFits DEF FitsBehind
<1>3. GoodFile(ledger)
  BY DEF TuiInv, FileShape
<1>4. /\ ledger'.tail = "closed" /\ Firm(ledger') = ledger'.lines
      /\ ledger.tail = "closed" =>
              /\ SavedHistory(ledger') = SavedHistory(ledger) \o Messages(record)
              /\ Talk(SavedHistory(ledger))
              /\ Readable(ledger') => Readable(ledger)
      /\ ledger.tail # "closed" => ~Readable(ledger')
  BY <1>1, <1>2, <1>3, FileGrows
<1> QED BY <1>1, <1>4

\* Every step leaves the worker knowing what the ledger holds.
LEMMA SavingOfSession ==
  ASSUME TuiInv, [TuiNext]_all
  PROVE  Saving'
<1>1. /\ before \in Nat /\ (phase \in {"turn", "save"} => before <= Len(history))
      /\ up /\ ~ledgerFailed /\ Readable(ledger) =>
           SavedHistory(ledger) =
             IF phase \in {"turn", "save"} THEN SubSeq(history, 1, before) ELSE history
      /\ up /\ ~ledgerFailed /\ ledger.tail # "closed" => phase = "start"
  BY DEF TuiInv, Saving
<1>2. /\ Talk(history) /\ Talk(appended) /\ Len(history) \in Nat /\ phase \in Phases
      /\ ~up => phase = "off"
  BY TalkIsSequence DEF TuiInv, SessionShape
<1>3. ASSUME before' = before, history' = history, up' = up, ledgerFailed' = ledgerFailed,
             ledger' = ledger,
             phase' = phase \/ (phase # "start" /\ {phase, phase'} \cap {"turn", "save"} = {})
      PROVE  Saving'
  BY <1>1, <1>3 DEF Saving
<1>4. ASSUME UserStep \/ UiStep
      PROVE  Saving'
  <2>1. /\ before' = before /\ history' = history /\ up' = up /\ ledgerFailed' = ledgerFailed
        /\ ledger' = ledger /\ phase' = phase
    BY <1>4 DEF UserStep, UiStep, Submit, QueueDraft, DropDraft, Interrupt, Approve, Decline,
         AnswerApproval, SwitchMode, SwitchTo, Quit, CancelTurn, HandleApproval, HandleAnswer,
         HandleEnd, vars, talk, worker, disk
  <2> QED BY <1>3, <2>1
<1>5. ASSUME \/ TakeMode \/ TakeTask \/ ConnectFails \/ Ask \/ ReportCancelled \/ ReportAnswer
             \/ ReportFailure \/ Leave
      PROVE  Saving'
  <2>1. /\ before' = before /\ history' = history /\ up' = up /\ ledgerFailed' = ledgerFailed
        /\ ledger' = ledger
    BY <1>5 DEF TakeMode, TakeTask, ConnectFails, Ask, ReportCancelled, ReportAnswer,
         ReportFailure, Report, Leave, vars, talk, worker, disk
  <2>2. phase' = phase \/ (phase # "start" /\ {phase, phase'} \cap {"turn", "save"} = {})
    BY <1>5 DEF TakeMode, TakeTask, ConnectFails, Ask, ReportCancelled, ReportAnswer,
         ReportFailure, Report, Leave, NextCommand, worker
  <2> QED BY <1>3, <2>1, <2>2
<1>6. ASSUME NEW record \in Unfinished, Record(record), record.event # "turn",
             before' = before, history' = history, up' = up,
             {phase, phase'} \cap {"turn", "save"} = {}
      PROVE  Saving'
  <2>1. CASE ledgerFailed'
    BY <1>1, <1>6, <2>1 DEF Saving
  <2>2. CASE ~ledgerFailed'
    <3>1. /\ ~ledgerFailed /\ ledger'.tail = "closed"
          /\ ledger.tail = "closed" =>
               /\ SavedHistory(ledger') = SavedHistory(ledger) \o Messages(record)
               /\ Talk(SavedHistory(ledger))
          /\ Readable(ledger') => Readable(ledger) /\ ledger.tail = "closed"
      BY <1>6, <2>2, Recorded
    <3>2. Messages(record) = << >>
      BY <1>6 DEF Messages
    <3>3. ASSUME up, Readable(ledger')
          PROVE  SavedHistory(ledger') = history
      <4>1. SavedHistory(ledger) = history
        BY <1>1, <1>6, <3>1, <3>3
      <4> QED BY <3>1, <3>2, <3>3, <4>1, JoinedWithNothing
    <3> QED BY <1>1, <1>6, <3>1, <3>3 DEF Saving
  <2> QED BY <2>1, <2>2
<1>7. ASSUME StartSession \/ EndSession \/ TakeSwitch
      PROVE  Saving'
  <2>1. /\ before' = before /\ history' = history /\ up' = up
        /\ {phase, phase'} \cap {"turn", "save"} = {}
    BY <1>7 DEF StartSession, EndSession, TakeSwitch, NextCommand, vars, talk
  <2>2. \E record : Record(record) /\ record \in Unfinished /\ record.event # "turn"
    <3>1. CASE StartSession
      <4>1. Record(Lifecycle) /\ Lifecycle \in Unfinished /\ Lifecycle.event # "turn"
        BY <3>1 DEF StartSession, Unfinished, NextCommand, Lifecycle, Started, Resumed
      <4> QED BY <4>1
    <3>2. CASE EndSession
      <4>1. Record(Ended) /\ Ended \in Unfinished /\ Ended.event # "turn"
        BY <3>2 DEF EndSession, Unfinished, NextCommand, Ended
      <4> QED BY <4>1
    <3>3. CASE TakeSwitch
      <4> DEFINE record == RouteSwitched(Head(commands).route)
      <4>1. Record(record) /\ record \in Unfinished /\ record.event # "turn"
        BY <3>3 DEF TakeSwitch, Unfinished, NextCommand, RouteSwitched
      <4> QED BY <4>1
    <3> QED BY <1>7, <3>1, <3>2, <3>3
  <2> QED BY <1>6, <2>1, <2>2
<1>8. ASSUME SaveTurn
      PROVE  Saving'
  <2>1. /\ before' = before /\ history' = history /\ up' = up /\ phase = "save"
        /\ phase' = "report" /\ Record(TurnRecord) /\ TurnRecord \in Unfinished
    BY <1>8 DEF SaveTurn, Unfinished, NextCommand, vars, talk
  <2>2. up /\ before \in 0 .. Len(history)
    BY <1>1, <1>2, <2>1
  <2>3. CASE ledgerFailed'
    BY <1>1, <2>1, <2>3 DEF Saving
  <2>4. CASE ~ledgerFailed'
    <3>1. /\ ~ledgerFailed /\ ledger'.tail = "closed"
          /\ ledger.tail = "closed" =>
               SavedHistory(ledger') = SavedHistory(ledger) \o Messages(TurnRecord)
          /\ Readable(ledger') => Readable(ledger) /\ ledger.tail = "closed"
      BY <2>1, <2>4, Recorded
    <3>2. Messages(TurnRecord) = SubSeq(history, before + 1, Len(history))
      BY DEF Messages, TurnRecord, Turn
    <3>3. ASSUME Readable(ledger')
          PROVE  SavedHistory(ledger') = history
      <4>1. SavedHistory(ledger) = SubSeq(history, 1, before)
        BY <1>1, <2>1, <2>2, <3>1, <3>3
      <4>2. SubSeq(history, 1, before) \o SubSeq(history, before + 1, Len(history)) = history
        BY <1>2, <2>2, SplitAt
      <4> QED BY <3>1, <3>2, <3>3, <4>1, <4>2
    <3> QED BY <1>1, <2>1, <3>1, <3>3 DEF Saving
  <2> QED BY <2>3, <2>4
<1>9. ASSUME StartTurn
      PROVE  Saving'
  <2>1. /\ history' = WithContext(history) /\ before' = Len(history) /\ phase = "connect"
        /\ phase' = "turn" /\ up' = up /\ ledgerFailed' = ledgerFailed /\ ledger' = ledger
    BY <1>9, TurnOpens DEF TuiInv, disk
  <2>2. PICK notices : Talk(notices) /\ WithContext(history) = history \o notices
    <3>1. mode \in Modes /\ agent.route \in Routes
      BY DEF TuiInv, SessionShape, OnRoutes
    <3> QED BY <1>2, <3>1, ContextIsSaid
  <2>3. Len(history) \in 0 .. Len(history)
    BY <1>2
  <2>4. SubSeq(history', 1, Len(history)) = history
    BY <1>2, <2>1, <2>2, <2>3, FrontStays
  <2>5. Len(history) <= Len(history')
    <3>1. Len(history \o notices) = Len(history) + Len(notices) /\ Len(notices) \in Nat
      BY <1>2, <2>2, Joined
    <3> QED BY <1>2, <2>1, <2>2, <3>1
  <2> QED BY <1>1, <1>2, <2>1, <2>4, <2>5 DEF Saving
<1>10. ASSUME EndTurn
       PROVE  Saving'
  <2>1. /\ history' = history \o appended /\ before' = before /\ phase = "turn"
        /\ phase' = "save" /\ up' = up /\ ledgerFailed' = ledgerFailed /\ ledger' = ledger
    BY <1>10 DEF EndTurn, Return, disk
  <2>2. before \in 0 .. Len(history)
    BY <1>1, <1>2, <2>1
  <2>3. SubSeq(history', 1, before) = SubSeq(history, 1, before)
    BY <1>2, <2>1, <2>2, FrontStays
  <2>4. before <= Len(history')
    <3>1. Len(history \o appended) = Len(history) + Len(appended) /\ Len(appended) \in Nat
      BY <1>2, Joined
    <3> QED BY <1>2, <2>1, <2>2, <3>1
  <2> QED BY <1>1, <2>1, <2>3, <2>4 DEF Saving
<1>11. ASSUME TurnStep
       PROVE  Saving'
  <2>1. SameSession /\ history' = history
    BY <1>11, TurnMoves DEF TuiInv, Converses
  <2> QED BY <1>3, <2>1 DEF SameSession
<1>12. ASSUME Vanish
       PROVE  Saving'
  <2>1. up' = FALSE /\ before' = 0 /\ phase' = "off"
    BY <1>12 DEF Vanish, Crash, Exit, Forget
  <2> QED BY <2>1 DEF Saving
<1>13. ASSUME Resume
       PROVE  Saving'
  <2>1. /\ before' = before /\ history' = SavedHistory(ledger) /\ phase' = "start"
        /\ ledger' = ledger
    BY <1>13, ResumesFrom
  <2> QED BY <1>1, <2>1 DEF Saving
<1>14. ASSUME UNCHANGED all
       PROVE  Saving'
  BY <1>3, <1>14 DEF all, vars, talk, session, worker, disk
<1> QED BY <1>4, <1>5, <1>7, <1>8, <1>9, <1>10, <1>11, <1>12, <1>13, <1>14, TuiSteps DEF Work

\* An event that tells the end of a turn tells it of a run that l has saved.
ToldTruly(e, l) == \A i \in 1 .. Len(e) : e[i].saved => Saved(l, e[i].run)

\* Every step leaves what the user was told of in the lines that stay.
LEMMA ShowingOfSession ==
  ASSUME TuiInv, [TuiNext]_all
  PROVE  Showing'
<1>1. /\ pc # "idle" => Holds(appended, Run)
      /\ phase = "save" => \E i \in before + 1 .. Len(history) : history[i] = User(Run)
      /\ phase = "report" /\ ~ledgerFailed => Saved(Firm(ledger), Run)
      /\ \A i \in 1 .. Len(events) : events[i].saved => Saved(Firm(ledger), events[i].run)
      /\ \A run \in shown : Saved(Firm(ledger), run)
  BY DEF TuiInv, Showing
<1>2. \A run : Saved(Firm(ledger), run) => Saved(Firm(ledger'), run)
  BY LedgerOfSession
<1>3. /\ Talk(history) /\ Talk(appended) /\ Talk(events) /\ Len(history) \in Nat
      /\ (phase = "turn" <=> pc # "idle") /\ (~up => phase = "off")
  BY TalkIsSequence DEF TuiInv, SessionShape
<1>4. Run' = Run \/ StartTurn
  <2>1. CASE UserStep \/ UiStep
    <3>1. spent' = spent \/ spent' = [spent EXCEPT !.cancels = @ + 1]
      BY <2>1 DEF UserStep, UiStep, Submit, QueueDraft, DropDraft, Interrupt, Approve, Decline,
         AnswerApproval, SwitchMode, SwitchTo, Quit, CancelTurn, HandleApproval, HandleAnswer,
         HandleEnd, vars, bounds
    <3> QED BY <3>1 DEF Run, TuiInv, SessionShape
  <2>2. CASE Work /\ ~StartTurn
    <3>1. spent' = spent
      BY <2>2 DEF Work, StartSession, TakeMode, TakeSwitch, TakeTask, ConnectFails, Ask,
         EndTurn, Return, SaveTurn, ReportCancelled, ReportAnswer, ReportFailure, Report, Leave,
         EndSession, vars, bounds
    <3> QED BY <3>1 DEF Run
  <2>3. CASE TurnStep
    BY <2>3, TurnMoves DEF TuiInv, Converses
  <2>4. CASE Vanish \/ Resume \/ UNCHANGED all
    <3>1. spent' = spent
      BY <2>4 DEF Vanish, Crash, Exit, Forget, Resume, all, vars, bounds
    <3> QED BY <3>1 DEF Run
  <2> QED BY <2>1, <2>2, <2>3, <2>4, TuiSteps
<1>5. \A i \in 1 .. Len(events') : events'[i].saved => Saved(Firm(ledger'), events'[i].run)
  <2> SUFFICES ASSUME NEW l, l = Firm(ledger'), NEW later, later = events'
               PROVE  ToldTruly(later, l)
    BY DEF ToldTruly
  <2>1. ToldTruly(events, l) /\ ToldTruly(<< >>, l)
    BY <1>1, <1>2, ListsAreTalk DEF ToldTruly
  <2>2. ASSUME events # << >>
        PROVE  ToldTruly(Tail(events), l)
    <3> DEFINE left == Tail(events)
    <3>1. /\ Len(events) \in Nat /\ Len(left) = Len(events) - 1
          /\ \A i \in 1 .. Len(events) - 1 : left[i] = events[i + 1]
      BY <1>3, <2>2, Taken
    <3> HIDE DEF left
    <3>2. \A i \in 1 .. Len(left) : left[i] = events[i + 1] /\ i + 1 \in 1 .. Len(events)
      BY <3>1
    <3>3. ToldTruly(left, l)
      BY <2>1, <3>2 DEF ToldTruly
    <3> QED BY <3>3 DEF left
  <2>3. ASSUME NEW m, m.saved => Saved(l, m.run)
        PROVE  ToldTruly(Append(events, m), l)
    <3> DEFINE longer == Append(events, m)
    <3>1. /\ Len(events) \in Nat /\ Len(longer) = Len(events) + 1
          /\ longer[Len(events) + 1] = m
          /\ \A i \in 1 .. Len(events) : longer[i] = events[i]
      BY <1>3, Sent
    <3> HIDE DEF longer
    <3>2. \A i \in 1 .. Len(longer) : i \in 1 .. Len(events) \/ i = Len(events) + 1
      BY <3>1
    <3>3. ToldTruly(longer, l)
      BY <2>1, <2>3, <3>1, <3>2 DEF ToldTruly
    <3> QED BY <3>3 DEF longer
  <2>4. ASSUME NEW kind, phase = "report", ledger' = ledger, Report(kind)
        PROVE  ToldTruly(later, l)
    <3> DEFINE m == Event(kind, Run, ~ledgerFailed)
    <3>1. events' = << >> \/ events' = Append(events, m)
      BY <2>4 DEF Report, Emit
    <3>2. m.saved = ~ledgerFailed /\ m.run = Run
      BY DEF Event
    <3> HIDE DEF m
    <3>3. m.saved => Saved(l, m.run)
      BY <1>1, <2>4, <3>2
    <3> QED BY <2>1, <2>3, <3>1, <3>3
  <2>5. CASE ReportCancelled \/ ReportAnswer \/ ReportFailure
    <3>1. phase = "report" /\ ledger' = ledger /\ \E kind : Report(kind)
      BY <2>5 DEF ReportCancelled, ReportAnswer, ReportFailure, Report, disk
    <3> QED BY <2>4, <3>1
  <2>6. CASE ConnectFails \/ Ask
    <3>1. \/ events' = events \/ events' = << >>
          \/ events' = Append(events, Event("failed", 0, FALSE))
          \/ events' = Append(events, Event("approval", Run, FALSE))
      BY <2>6 DEF ConnectFails, Ask, Emit
    <3>2. Event("failed", 0, FALSE).saved = FALSE /\ Event("approval", Run, FALSE).saved = FALSE
      BY DEF Event
    <3>3. /\ ToldTruly(Append(events, Event("failed", 0, FALSE)), l)
          /\ ToldTruly(Append(events, Event("approval", Run, FALSE)), l)
      BY <2>3, <3>2
    <3> QED BY <2>1, <3>1, <3>3
  <2>7. CASE UserStep \/ UiStep
    <3>1. \/ events' = events \/ events' = << >>
          \/ events # << >> /\ events' = Tail(events)
      BY <2>7 DEF UserStep, UiStep, Submit, QueueDraft, DropDraft, Interrupt, Approve, Decline,
         AnswerApproval, SwitchMode, SwitchTo, Quit, CancelTurn, HandleApproval, HandleAnswer,
         HandleEnd, NextEvent, channel
    <3> QED BY <2>1, <2>2, <3>1
  <2>8. CASE \/ StartSession \/ TakeMode \/ TakeSwitch \/ TakeTask \/ StartTurn \/ EndTurn
             \/ SaveTurn \/ Leave \/ EndSession \/ Vanish \/ Resume \/ UNCHANGED all
    <3>1. events' = events \/ events' = << >>
      BY <2>8 DEF StartSession, TakeMode, TakeSwitch, TakeTask, StartTurn, EndTurn, SaveTurn,
         Leave, EndSession, Vanish, Crash, Exit, Forget, Resume, all, session, channel
    <3> QED BY <2>1, <3>1
  <2>9. CASE TurnStep
    BY <2>1, <2>9, TurnMoves DEF TuiInv, SameSession
  <2> QED BY <2>5, <2>6, <2>7, <2>8, <2>9, TuiSteps DEF Work
<1>6. \A run \in shown' : Saved(Firm(ledger'), run)
  <2>1. CASE HandleAnswer \/ HandleEnd
    <3>1. Show /\ events # << >>
      BY <2>1 DEF HandleAnswer, HandleEnd, NextEvent
    <3>2. /\ Len(events) \in Nat /\ Len(events) # 0 /\ Head(events) = events[1]
      BY <1>3, <3>1, Taken
    <3>3. Head(events).saved => Saved(Firm(ledger), Head(events).run)
      BY <1>1, <3>2
    <3> QED BY <1>1, <1>2, <3>1, <3>3 DEF Show
  <2>2. CASE (UserStep \/ UiStep) /\ ~(HandleAnswer \/ HandleEnd)
    <3>1. shown' = shown
      BY <2>2 DEF UserStep, UiStep, Submit, QueueDraft, DropDraft, Interrupt, Approve, Decline,
         AnswerApproval, SwitchMode, SwitchTo, Quit, CancelTurn, HandleApproval, screen
    <3> QED BY <1>1, <1>2, <3>1
  <2>3. CASE Work \/ Vanish \/ Resume \/ UNCHANGED all
    <3>1. shown' = shown
      BY <2>3 DEF Work, StartSession, TakeMode, TakeSwitch, TakeTask, ConnectFails, StartTurn,
         Ask, EndTurn, SaveTurn, ReportCancelled, ReportAnswer, ReportFailure, Report, Leave,
         EndSession, Vanish, Crash, Exit, Forget, Resume, all, session, screen
    <3> QED BY <1>1, <1>2, <3>1
  <2>4. CASE TurnStep
    BY <1>1, <1>2, <2>4, TurnMoves DEF TuiInv, SameSession
  <2> QED BY <2>1, <2>2, <2>3, <2>4, TuiSteps
<1>7. pc' # "idle" => Holds(appended', Run')
  <2>1. CASE StartTurn
    <3> DEFINE run == spent.runs + 1
    <3>1. /\ appended' = Opens(WithContext(history), Constitution(agent.route, mode), run)
          /\ Run' = run
      BY <2>1, TurnOpens DEF TuiInv
    <3>2. Holds(Opens(WithContext(history), Constitution(agent.route, mode), run), run)
      BY OpensWithUser
    <3> QED BY <3>1, <3>2
  <2>2. CASE TurnStep
    <3>1. pc # "idle" /\ Converses
      BY <2>2, TurnMoves DEF TuiInv
    <3>2. Holds(appended, Run) /\ Run' = Run
      BY <1>1, <3>1 DEF Converses
    <3>3. ASSUME NEW m, Quiet(m)
          PROVE  Holds(appended \o m, Run)
      <4>1. /\ Len(appended) \in Nat /\ Len(m) \in Nat
            /\ Len(appended \o m) = Len(appended) + Len(m)
            /\ \A j \in 1 .. Len(appended) : (appended \o m)[j] = appended[j]
        BY <1>3, <3>3, Joined DEF Quiet
      <4>2. PICK i \in 1 .. Len(appended) : appended[i] = User(Run)
        BY <3>2 DEF Holds
      <4>3. i \in 1 .. Len(appended \o m) /\ (appended \o m)[i] = User(Run)
        BY <4>1, <4>2
      <4> QED BY <4>3 DEF Holds
    <3> QED BY <3>1, <3>2, <3>3 DEF Converses
  <2>3. CASE EndTurn \/ Vanish
    BY <2>3 DEF EndTurn, Return, Vanish, Crash, Exit, Forget
  <2>4. CASE \/ UserStep \/ UiStep \/ (Work /\ ~StartTurn /\ ~EndTurn)
             \/ Resume \/ UNCHANGED all
    <3>1. appended' = appended /\ pc' = pc
      BY <2>4 DEF UserStep, UiStep, Submit, QueueDraft, DropDraft, Interrupt, Approve, Decline,
         AnswerApproval, SwitchMode, SwitchTo, Quit, CancelTurn, HandleApproval, HandleAnswer,
         HandleEnd, Work, StartSession, TakeMode, TakeSwitch, TakeTask, ConnectFails, Ask,
         SaveTurn, ReportCancelled, ReportAnswer, ReportFailure, Report, Leave,
         EndSession, Resume, all, vars, talk
    <3>2. pc # "idle" => ~StartTurn
      BY <1>3 DEF StartTurn
    <3> QED BY <1>1, <1>4, <3>1, <3>2
  <2> QED BY <2>1, <2>2, <2>3, <2>4, TuiSteps
<1>8. phase' = "save" => \E i \in before' + 1 .. Len(history') : history'[i] = User(Run')
  <2>1. CASE EndTurn
    <3>1. /\ before' = before /\ phase = "turn" /\ Run' = Run /\ before \in Nat
          /\ before <= Len(history)
      BY <1>4, <2>1 DEF EndTurn, StartTurn, TuiInv, Saving
    <3>2. /\ Len(history') = Len(history) + Len(appended) /\ Len(appended) \in Nat
          /\ \A j \in 1 .. Len(appended) : history'[Len(history) + j] = appended[j]
      BY <1>3, <2>1, ReturnIsTold, TalkIsSequence
    <3>3. PICK j \in 1 .. Len(appended) : appended[j] = User(Run)
      BY <1>1, <1>3, <3>1 DEF Holds
    <3>4. /\ Len(history) + j \in before' + 1 .. Len(history')
          /\ history'[Len(history) + j] = User(Run')
      BY <1>3, <3>1, <3>2, <3>3
    <3> QED BY <3>4
  <2>2. CASE StartTurn
    BY <2>2 DEF StartTurn
  <2>3. CASE \/ UserStep \/ UiStep \/ UNCHANGED all
    <3>1. phase' = phase /\ history' = history /\ before' = before
      BY <2>3 DEF UserStep, UiStep, Submit, QueueDraft, DropDraft, Interrupt, Approve, Decline,
         AnswerApproval, SwitchMode, SwitchTo, Quit, CancelTurn, HandleApproval, HandleAnswer,
         HandleEnd, all, session, vars, talk, worker
    <3> QED BY <1>1, <1>4, <2>2, <3>1
  <2>4. CASE (Work /\ ~EndTurn /\ ~StartTurn) \/ Vanish \/ Resume
    <3>1. phase' # "save"
      BY <1>3, <2>4 DEF Work, StartSession, TakeMode, TakeSwitch, TakeTask, ConnectFails, Ask,
         SaveTurn, ReportCancelled, ReportAnswer, ReportFailure, Report, Leave,
         EndSession, Vanish, Crash, Exit, Forget, Resume, NextCommand, worker
    <3> QED BY <3>1
  <2>5. CASE TurnStep
    <3>1. phase' = "turn"
      BY <2>5, TurnMoves DEF TuiInv, SameSession
    <3> QED BY <3>1
  <2> QED BY <2>1, <2>2, <2>3, <2>4, <2>5, TuiSteps
<1>9. phase' = "report" /\ ~ledgerFailed' => Saved(Firm(ledger'), Run')
  <2>1. CASE SaveTurn
    <3> SUFFICES ASSUME ~ledgerFailed'
                 PROVE  Saved(Firm(ledger'), Run')
      OBVIOUS
    <3>1. /\ phase = "save" /\ Record(TurnRecord) /\ TurnRecord \in Unfinished /\ up
          /\ Run' = Run
      BY <1>3, <1>4, <2>1 DEF SaveTurn, Unfinished, NextCommand, StartTurn
    <3>2. ~ledgerFailed /\ ledger.tail = "closed"
      BY <3>1, Recorded DEF TuiInv, Saving
    <3> DEFINE m == SubSeq(history, before + 1, Len(history))
               h == SavedHistory(ledger)
    <3>3. /\ Firm(ledger') = ledger'.lines /\ SavedHistory(ledger') = h \o Messages(TurnRecord)
          /\ Talk(h)
      BY <3>1, <3>2, Recorded
    <3>4. Messages(TurnRecord) = m
      BY DEF Messages, TurnRecord, Turn
    <3>5. before \in 0 .. Len(history)
      BY <1>3, <3>1 DEF TuiInv, Saving
    <3>6. /\ Talk(m) /\ Len(m) = Len(history) - before
          /\ \A i \in 1 .. Len(history) - before : m[i] = history[before + i]
      BY <1>3, <3>5, SplitAt
    <3> HIDE DEF m, h
    <3>7. PICK i \in before + 1 .. Len(history) : history[i] = User(Run)
      BY <1>1, <3>1
    <3>8. /\ i - before \in 1 .. Len(m) /\ before + (i - before) = i
      BY <1>3, <3>5, <3>6, <3>7
    <3>9. m[i - before] = User(Run)
      BY <3>6, <3>7, <3>8
    <3>10. /\ Len(h) \in Nat /\ Len(m) \in Nat /\ Len(h \o m) = Len(h) + Len(m)
           /\ \A j \in 1 .. Len(m) : (h \o m)[Len(h) + j] = m[j]
      <4>1. Talk(h) /\ Talk(m)
        BY <3>3, <3>6
      <4> QED BY <4>1, Joined
    <3>11. /\ Len(h) + (i - before) \in 1 .. Len(h \o m)
           /\ (h \o m)[Len(h) + (i - before)] = User(Run)
      <4> DEFINE j == i - before
      <4>1. j \in 1 .. Len(m) /\ m[j] = User(Run)
        BY <3>8, <3>9
      <4> HIDE DEF j
      <4>2. Len(h) + j \in 1 .. Len(h \o m) /\ (h \o m)[Len(h) + j] = User(Run)
        BY <3>10, <4>1
      <4> QED BY <4>2 DEF j
    <3>12. Holds(SavedHistory(ledger'), Run)
      BY <3>3, <3>4, <3>11 DEF Holds
    <3>13. SavedHistory(ledger') = SavedHistory(File(ledger'.lines))
      BY OnlyLinesMatter
    <3> QED BY <3>1, <3>3, <3>12, <3>13 DEF Saved
  <2>2. CASE UserStep \/ UiStep \/ UNCHANGED all
    <3>1. phase' = phase /\ ledgerFailed' = ledgerFailed
      BY <2>2 DEF UserStep, UiStep, Submit, QueueDraft, DropDraft, Interrupt, Approve, Decline,
         AnswerApproval, SwitchMode, SwitchTo, Quit, CancelTurn, HandleApproval, HandleAnswer,
         HandleEnd, all, session, worker
    <3>2. StartTurn => phase' = "turn"
      BY DEF StartTurn
    <3> QED BY <1>1, <1>2, <1>4, <3>1, <3>2
  <2>3. CASE (Work /\ ~SaveTurn) \/ Vanish \/ Resume
    <3>1. phase' # "report"
      BY <1>3, <2>3 DEF Work, StartSession, TakeMode, TakeSwitch, TakeTask, ConnectFails,
         StartTurn, EndTurn, Ask, ReportCancelled, ReportAnswer, ReportFailure, Report, Leave,
         EndSession, Vanish, Crash, Exit, Forget, Resume, NextCommand, worker
    <3> QED BY <3>1
  <2>4. CASE TurnStep
    <3>1. phase' = "turn"
      BY <2>4, TurnMoves DEF TuiInv, SameSession
    <3> QED BY <3>1
  <2> QED BY <2>1, <2>2, <2>3, <2>4, TuiSteps
<1> QED BY <1>5, <1>6, <1>7, <1>8, <1>9 DEF Showing

\* The invariant holds in every session.
LEMMA TuiInvariant == TuiSpec => []TuiInv
<1>1. TuiInit => TuiInv
  BY TuiStarts
<1>2. TuiInv /\ [TuiNext]_all => TuiInv'
  <2> SUFFICES ASSUME TuiInv, [TuiNext]_all
               PROVE  TuiInv'
    OBVIOUS
  <2> QED BY ShapeOfSession, FlightOfSession, HeadingOfSession, RoutesOfSession, ToldOfSession,
             LedgerOfSession, SavingOfSession, ShowingOfSession DEF TuiInv
<1> QED BY <1>1, <1>2, PTL DEF TuiSpec

----------------------------------------------------------------------------
(* What follows for the properties.                                        *)

\* The composer of nh-tui is closed exactly as long as one task is on its way:
\* App::dispatch, the channels and run_task never lose one or run two.
THEOREM OneTurnAtATime == TuiSpec => []OneTurnInFlight
<1>1. TuiInv => OneTurnInFlight
  <2> SUFFICES ASSUME TuiInv, ui.status # "gone"
               PROVE  Cardinality(Tasks) + Cardinality(Endings) + (IF Running THEN 1 ELSE 0)
                        = (IF ui.inflight THEN 1 ELSE 0)
    BY DEF OneTurnInFlight
  <2>1. /\ ui.inflight <=> Tasks # {} \/ Running \/ Endings # {}
        /\ Tasks # {} => Tasks = {Len(commands)} /\ ~Running /\ Endings = {}
        /\ Running => Endings = {}
        /\ Endings # {} => Endings = {Len(events)}
    BY DEF TuiInv, Flight
  <2>2. Cardinality({}) = 0
    BY FS_EmptySet
  <2>3. Cardinality(Tasks) = IF Tasks = {} THEN 0 ELSE 1
    <3>1. Cardinality({Len(commands)}) = 1
      BY FS_Singleton
    <3> QED BY <2>1, <2>2, <3>1
  <2>4. Cardinality(Endings) = IF Endings = {} THEN 0 ELSE 1
    <3>1. Cardinality({Len(events)}) = 1
      BY FS_Singleton
    <3> QED BY <2>1, <2>2, <3>1
  <2> QED BY <2>1, <2>3, <2>4
<1> QED BY <1>1, TuiInvariant, PTL

\* At every provider request the tools, the guard and the last notice the model
\* reads agree on the mode of the session (worker.rs, StartTurn).
THEOREM RequestsKeepMode == TuiSpec => []RequestsAgreeOnMode
<1>1. TuiInv => RequestsAgreeOnMode
  <2> SUFFICES ASSUME TuiInv, pc # "idle"
               PROVE  agent.mode = mode /\ LastMode(working) = mode
    BY DEF RequestsAgreeOnMode
  <2> QED BY DEF TuiInv, Told, Says
<1> QED BY <1>1, TuiInvariant, PTL

\* At every provider request the model has last been told the route it runs on,
\* which is the one the screen shows.
THEOREM RequestsKeepRoute == TuiSpec => []RequestsAgreeOnRoute
<1>1. TuiInv => RequestsAgreeOnRoute
  <2> SUFFICES ASSUME TuiInv, pc # "idle"
               PROVE  /\ LastRoute(working) = agent.route
                      /\ ui.status # "gone" => ui.route = agent.route
    BY DEF RequestsAgreeOnRoute
  <2>1. LastRoute(working) = agent.route
    BY DEF TuiInv, Told, Says
  <2>2. ASSUME ui.status # "gone"
        PROVE  ui.route = agent.route
    <3>1. Running
      BY DEF TuiInv, SessionShape, Running
    <3>2. commands = << >>
      BY <2>2, <3>1 DEF TuiInv, Flight
    <3>3. Switches(commands) = {}
      BY <3>2, ListsAreTalk DEF Switches
    <3> QED BY <2>2, <3>3 DEF TuiInv, Heading, HeadsFor
  <2> QED BY <2>1, <2>2
<1> QED BY <1>1, TuiInvariant, PTL

\* As long as the ledger can be read, a resume restores the transcript of the
\* process that wrote it, and whatever the user saw the end of.
THEOREM NothingShownIsLost == TuiSpec => []TranscriptSurvives
<1>1. TuiInv => TranscriptSurvives
  <2> SUFFICES ASSUME TuiInv, Readable(ledger)
               PROVE  SavedIsHistory /\ ShownIsSaved
    BY DEF TranscriptSurvives
  <2>1. SavedIsHistory
    BY DEF TuiInv, Saving, SavedIsHistory
  <2>2. \A run : Saved(Firm(ledger), run) => Holds(SavedHistory(ledger), run)
    BY FirmIsRestored DEF TuiInv, FileShape
  <2>3. ShownIsSaved
    BY <2>2 DEF TuiInv, Showing, ShownIsSaved, Holds
  <2> QED BY <2>1, <2>3
<1> QED BY <1>1, TuiInvariant, PTL

\* Torn lines are all that can make a ledger unreadable: if an append leaves its
\* whole line or nothing, every session can be read back.  (append_locked_line)
THEOREM OnlyTornLinesSpoil ==
  ASSUME Leftovers \subseteq {"nothing", "line"}
  PROVE  TuiSpec => []SessionStaysReadable
<1> DEFINE Clean == ledger.tail = "closed" /\ Readable(ledger) /\ Talk(ledger.lines)
<1>1. TuiInit => Clean
  BY ListsAreTalk DEF TuiInit, NoFile, Readable
<1>2. Clean /\ [TuiNext]_all => Clean'
  <2> SUFFICES ASSUME Clean, [TuiNext]_all, ledger' # ledger
               PROVE  Clean'
    BY DEF Readable
  <2>1. PICK record \in Unfinished : ledger' = Appended(ledger, record)
    BY Appends DEF Leftover
  <2>2. record # Corrupt
    BY DEF Unfinished, Lifecycle, TurnRecord, Started, Resumed, RouteSwitched, Turn, Ended, Corrupt
  <2>3. ledger'.tail = "closed" /\ ledger'.lines = Append(ledger.lines, record)
    BY <2>1 DEF Appended
  <2> DEFINE lines == ledger.lines
             longer == Append(lines, record)
  <2>4. /\ Talk(longer) /\ Len(lines) \in Nat /\ Len(longer) = Len(lines) + 1
        /\ longer[Len(lines) + 1] = record
        /\ \A i \in 1 .. Len(lines) : longer[i] = lines[i] /\ lines[i] # Corrupt
    BY Sent DEF Readable
  <2> HIDE DEF lines, longer
  <2>5. \A i \in 1 .. Len(longer) : i \in 1 .. Len(lines) \/ i = Len(lines) + 1
    BY <2>4
  <2>6. \A i \in 1 .. Len(longer) : longer[i] # Corrupt
    BY <2>2, <2>4, <2>5
  <2> QED BY <2>3, <2>4, <2>6 DEF lines, longer, Readable
<1>3. Clean => SessionStaysReadable
  BY DEF SessionStaysReadable
<1> QED BY <1>1, <1>2, <1>3, PTL DEF TuiSpec
==============================================================================
