----------------------------- MODULE TurnProofs -----------------------------
(***************************************************************************)
(* Theorems about the turn loop: every call is answered, evidence of the   *)
(* cache describes the transcript, passes are receipted, a cancellation    *)
(* stops the work, compaction keeps account of what it drops.              *)
(***************************************************************************)
EXTENDS AgentTurnProperties, FiniteSetTheorems, SequenceTheorems, TLAPS

----------------------------------------------------------------------------
(* Sequences of anything: messages have no common set, because the model   *)
(* counts in notices whatever Elided finds.                                *)

Talk(h) == \E S : h \in Seq(S)

\* Two sequences have a set that holds the elements of both.
LEMMA CommonElements ==
  ASSUME NEW g, NEW h, Talk(g), Talk(h)
  PROVE  \E S : g \in Seq(S) /\ h \in Seq(S)
<1>1. PICK S : g \in Seq(S)
  BY DEF Talk
<1>2. PICK T : h \in Seq(T)
  BY DEF Talk
<1>3. Seq(S) \subseteq Seq(S \cup T) /\ Seq(T) \subseteq Seq(S \cup T)
  BY SeqMonotonic
<1> QED BY <1>1, <1>2, <1>3

\* The length of a sequence is a number, and its domain goes up to it.
LEMMA TalkIsSequence ==
  ASSUME NEW h, Talk(h)
  PROVE  Len(h) \in Nat /\ DOMAIN h = 1 .. Len(h) /\ (Len(h) = 0 <=> h = << >>)
BY LenProperties, EmptySeq DEF Talk

\* What the concatenation of two sequences is, element by element.
LEMMA Joined ==
  ASSUME NEW g, NEW h, Talk(g), Talk(h)
  PROVE  /\ Talk(g \o h)
         /\ Len(g) \in Nat /\ Len(h) \in Nat
         /\ Len(g \o h) = Len(g) + Len(h)
         /\ \A i \in 1 .. Len(g) : (g \o h)[i] = g[i]
         /\ \A i \in 1 .. Len(h) : (g \o h)[Len(g) + i] = h[i]
<1>1. PICK S : g \in Seq(S) /\ h \in Seq(S)
  BY CommonElements
<1>2. Len(g) \in Nat /\ Len(h) \in Nat
  BY <1>1, LenProperties
<1>3. /\ g \o h \in Seq(S)
      /\ Len(g \o h) = Len(g) + Len(h)
      /\ \A i \in 1 .. Len(g) + Len(h) : (g \o h)[i] =
           IF i <= Len(g) THEN g[i] ELSE h[i - Len(g)]
  BY <1>1, ConcatProperties
<1>4. \A i \in 1 .. Len(g) : i \in 1 .. Len(g) + Len(h) /\ i <= Len(g)
  BY <1>2
<1>5. \A i \in 1 .. Len(h) : /\ Len(g) + i \in 1 .. Len(g) + Len(h)
                             /\ ~(Len(g) + i <= Len(g))
                             /\ (Len(g) + i) - Len(g) = i
  BY <1>2
<1>6. \A i \in 1 .. Len(g) : (g \o h)[i] = g[i]
  BY <1>3, <1>4
<1>7. ASSUME NEW i \in 1 .. Len(h)
      PROVE  (g \o h)[Len(g) + i] = h[i]
  BY <1>3, <1>5
<1>8. Talk(g \o h)
  BY <1>3 DEF Talk
<1> QED BY <1>2, <1>3, <1>6, <1>7, <1>8

\* Concatenation associates.
LEMMA Rejoined ==
  ASSUME NEW f, NEW g, NEW h, Talk(f), Talk(g), Talk(h)
  PROVE  (f \o g) \o h = f \o (g \o h)
<1>1. PICK S : f \in Seq(S) /\ g \in Seq(S)
  BY CommonElements
<1>2. PICK T : h \in Seq(T)
  BY DEF Talk
<1>3. Seq(S) \subseteq Seq(S \cup T) /\ Seq(T) \subseteq Seq(S \cup T)
  BY SeqMonotonic
<1> QED BY <1>1, <1>2, <1>3, ConcatAssociative

\* Appending an element joins a sequence of it.
LEMMA AppendJoins ==
  ASSUME NEW h, Talk(h), NEW m
  PROVE  Append(h, m) = h \o << m >>
<1>1. PICK S : h \in Seq(S)
  BY DEF Talk
<1>2. Seq(S) \subseteq Seq(S \cup {m})
  BY SeqMonotonic
<1> QED BY <1>1, <1>2, AppendIsConcat

\* Nothing is added by the empty sequence.
LEMMA JoinedWithNothing ==
  ASSUME NEW h, Talk(h)
  PROVE  h \o << >> = h /\ << >> \o h = h
BY ConcatEmptySeq DEF Talk

\* A function on the numbers up to n is a sequence of that length.
LEMMA FunctionIsSequence ==
  ASSUME NEW S, NEW n \in Nat, NEW f \in [1 .. n -> S]
  PROVE  f \in Seq(S) /\ Len(f) = n
BY LenProperties, SeqDef

\* A single element, and a sequence given element by element, are sequences.
LEMMA ListsAreTalk ==
  /\ Talk(<< >>) /\ Len(<< >>) = 0
  /\ \A m : Talk(<< m >>) /\ Len(<< m >>) = 1 /\ << m >>[1] = m
<1>1. << >> \in Seq({}) /\ Len(<< >>) = 0
  BY EmptySeq
<1>2. \A m : << m >> \in Seq({m}) /\ Len(<< m >>) = 1 /\ << m >>[1] = m
  OBVIOUS
<1> QED BY <1>1, <1>2 DEF Talk

\* Sequences are equal that have the same elements.
LEMMA SameTalk ==
  ASSUME NEW g, NEW h, Talk(g), Talk(h), Len(g) = Len(h),
         \A i \in 1 .. Len(g) : g[i] = h[i]
  PROVE  g = h
BY CommonElements, SeqEqual

\* What a part of a sequence is, element by element.
LEMMA Cut ==
  ASSUME NEW h, Talk(h), NEW a \in 1 .. Len(h) + 1, NEW b \in a - 1 .. Len(h)
  PROVE  /\ Talk(SubSeq(h, a, b))
         /\ Len(SubSeq(h, a, b)) = b - a + 1
         /\ \A i \in 1 .. b - a + 1 : SubSeq(h, a, b)[i] = h[a + i - 1]
<1>1. PICK S : h \in Seq(S)
  BY DEF Talk
<1>2. Len(h) \in Nat /\ a \in Int /\ b \in Int
  BY <1>1, LenProperties
<1>3. \A i \in a .. b : h[i] \in S
  BY <1>1, <1>2, ElementOfSeq
<1>4. /\ SubSeq(h, a, b) \in Seq(S)
      /\ Len(SubSeq(h, a, b)) = IF a <= b THEN b - a + 1 ELSE 0
      /\ \A i \in 1 .. b - a + 1 : SubSeq(h, a, b)[i] = h[a + i - 1]
  BY <1>2, <1>3, SubSeqProperties
<1>5. Len(SubSeq(h, a, b)) = b - a + 1
  BY <1>2, <1>4
<1>6. Talk(SubSeq(h, a, b))
  BY <1>4 DEF Talk
<1> QED BY <1>4, <1>5, <1>6

\* A part from the beginning.
LEMMA Opening ==
  ASSUME NEW h, Talk(h), NEW b \in 0 .. Len(h)
  PROVE  /\ Talk(SubSeq(h, 1, b))
         /\ Len(SubSeq(h, 1, b)) = b
         /\ \A i \in 1 .. b : SubSeq(h, 1, b)[i] = h[i]
<1>1. Len(h) \in Nat /\ 1 \in 1 .. Len(h) + 1 /\ b \in 1 - 1 .. Len(h)
  BY TalkIsSequence
<1>2. b - 1 + 1 = b /\ \A i \in 1 .. b : 1 + i - 1 = i
  BY <1>1
<1>3. /\ Talk(SubSeq(h, 1, b))
      /\ Len(SubSeq(h, 1, b)) = b - 1 + 1
      /\ \A i \in 1 .. b - 1 + 1 : SubSeq(h, 1, b)[i] = h[1 + i - 1]
  BY <1>1, Cut
<1> QED BY <1>2, <1>3

\* A sequence begins with itself, with nothing, and still begins with what it
\* began with when more is said.
LEMMA PrefixKept ==
  ASSUME NEW c, NEW g, NEW h, Talk(c), Talk(g), Talk(h)
  PROVE  /\ IsPrefix(<< >>, g)
         /\ IsPrefix(g, g)
         /\ IsPrefix(c, g) => IsPrefix(c, g \o h)
<1>1. PICK S : g \in Seq(S) /\ h \in Seq(S)
  BY CommonElements
<1>2. /\ Len(g) \in Nat /\ Len(h) \in Nat /\ Len(c) \in Nat
      /\ Len(g \o h) = Len(g) + Len(h) /\ g \o h \in Seq(S)
      /\ \A i \in 1 .. Len(g) : (g \o h)[i] = g[i]
  BY <1>1, Joined, TalkIsSequence, ConcatProperties
<1>3. IsPrefix(<< >>, g)
  <2>1. Len(<< >>) = 0
    BY ListsAreTalk
  <2>2. SubSeq(<< >>, 1, 0) = << >> /\ SubSeq(g, 1, 0) = << >>
    BY SubSeqEmpty
  <2> QED BY <1>2, <2>1, <2>2 DEF IsPrefix
<1>4. IsPrefix(g, g)
  BY <1>2 DEF IsPrefix
<1>5. ASSUME IsPrefix(c, g)
      PROVE  IsPrefix(c, g \o h)
  <2>1. Len(c) <= Len(g) /\ SubSeq(c, 1, Len(c)) = SubSeq(g, 1, Len(c))
    BY <1>5 DEF IsPrefix
  <2>2. \A i \in 1 .. Len(c) : i \in 1 .. Len(g) /\ i \in 1 .. Len(g) + Len(h)
    BY <1>2, <2>1
  <2>3. SubSeq(g, 1, Len(c)) = SubSeq(g \o h, 1, Len(c))
    <3> DEFINE start == SubSeq(g, 1, Len(c))
               longer == SubSeq(g \o h, 1, Len(c))
    <3>1. /\ Talk(start) /\ Len(start) = Len(c)
          /\ \A i \in 1 .. Len(c) : start[i] = g[i]
      BY <1>2, <2>1, Opening
    <3>2. Talk(g \o h) /\ Len(c) \in 0 .. Len(g \o h)
      BY <1>2, <2>1 DEF Talk
    <3>3. /\ Talk(longer) /\ Len(longer) = Len(c)
          /\ \A i \in 1 .. Len(c) : longer[i] = (g \o h)[i]
      BY <3>2, Opening
    <3> HIDE DEF start, longer
    <3>4. \A i \in 1 .. Len(c) : start[i] = longer[i]
      BY <1>2, <2>2, <3>1, <3>3
    <3>5. start = longer
      BY <3>1, <3>3, <3>4, SameTalk
    <3> QED BY <3>5 DEF start, longer
  <2> QED BY <1>2, <2>1, <2>3 DEF IsPrefix
<1> QED BY <1>3, <1>4, <1>5

----------------------------------------------------------------------------
(* Conversations in which every call is answered.                          *)

\* The results of message i's calls follow it, and message i, if it is a
\* result, follows a message that called for it.
Settles(h, i) ==
  h[i].role = "assistant" =>
    /\ Len(h[i].calls) \in Nat
    /\ \A k \in 1 .. Len(h[i].calls) :
         /\ i + k <= Len(h)
         /\ h[i + k].role = "tool"
         /\ h[i + k].run = h[i].run
         /\ h[i + k].turn = h[i].turn
         /\ h[i + k].call = h[i].calls[k]
Belongs(h, i) ==
  h[i].role = "tool" =>
    \E j \in 1 .. i - 1 : h[j].role = "assistant" /\ i - j <= Len(h[j].calls)

Clear(h) == Talk(h) /\ \A i \in 1 .. Len(h) : Settles(h, i) /\ Belongs(h, i)

\* That is what Answered says, of messages whose calls are counted.
LEMMA ClearMeansAnswered ==
  ASSUME NEW h, Talk(h)
  PROVE  /\ Clear(h) => Answered(h)
         /\ Answered(h)
              /\ (\A i \in 1 .. Len(h) : h[i].role = "assistant" => Len(h[i].calls) \in Nat)
              => Clear(h)
BY DEF Clear, Answered, Settles, Belongs

\* Two clear conversations are clear one behind the other.
LEMMA ClearJoined ==
  ASSUME NEW g, NEW h, Clear(g), Clear(h)
  PROVE  Clear(g \o h)
<1> DEFINE both == g \o h
<1>1. /\ Talk(both) /\ Len(g) \in Nat /\ Len(h) \in Nat
      /\ Len(both) = Len(g) + Len(h)
      /\ \A i \in 1 .. Len(g) : both[i] = g[i]
      /\ \A i \in 1 .. Len(h) : both[Len(g) + i] = h[i]
  BY Joined DEF Clear
<1> HIDE DEF both
<1>2. ASSUME NEW i \in 1 .. Len(g)
      PROVE  Settles(both, i) /\ Belongs(both, i)
  <2>1. Settles(g, i) /\ Belongs(g, i)
    BY DEF Clear
  <2>2. ASSUME g[i].role = "assistant"
        PROVE  Settles(both, i)
    <3>1. Len(g[i].calls) \in Nat /\ both[i] = g[i]
      BY <1>1, <2>1, <2>2 DEF Settles
    <3>2. \A k \in 1 .. Len(g[i].calls) :
            /\ i + k \in 1 .. Len(g) /\ i + k <= Len(both) /\ both[i + k] = g[i + k]
      BY <1>1, <2>1, <2>2, <3>1 DEF Settles
    <3> QED BY <2>1, <2>2, <3>1, <3>2 DEF Settles
  <2>3. ASSUME g[i].role = "tool"
        PROVE  Belongs(both, i)
    <3>1. PICK j \in 1 .. i - 1 : g[j].role = "assistant" /\ i - j <= Len(g[j].calls)
      BY <2>1, <2>3 DEF Belongs
    <3>2. j \in 1 .. Len(g) /\ both[j] = g[j]
      BY <1>1
    <3> QED BY <3>1, <3>2 DEF Belongs
  <2>4. both[i] = g[i]
    BY <1>1
  <2> QED BY <2>2, <2>3, <2>4 DEF Settles, Belongs
<1>3. ASSUME NEW i \in 1 .. Len(h)
      PROVE  Settles(both, Len(g) + i) /\ Belongs(both, Len(g) + i)
  <2>1. Settles(h, i) /\ Belongs(h, i) /\ both[Len(g) + i] = h[i]
    BY <1>1 DEF Clear
  <2>2. ASSUME h[i].role = "assistant"
        PROVE  Settles(both, Len(g) + i)
    <3>1. Len(h[i].calls) \in Nat
      BY <2>1, <2>2 DEF Settles
    <3>2. ASSUME NEW k \in 1 .. Len(h[i].calls)
          PROVE  /\ Len(g) + i + k <= Len(both)
                 /\ both[Len(g) + i + k] = h[i + k]
      <4>1. i + k \in 1 .. Len(h) /\ Len(g) + i + k = Len(g) + (i + k)
        BY <1>1, <2>1, <2>2, <3>1 DEF Settles
      <4> QED BY <1>1, <4>1
    <3> QED BY <2>1, <2>2, <3>1, <3>2 DEF Settles
  <2>3. ASSUME h[i].role = "tool"
        PROVE  Belongs(both, Len(g) + i)
    <3>1. PICK j \in 1 .. i - 1 : h[j].role = "assistant" /\ i - j <= Len(h[j].calls)
      BY <2>1, <2>3 DEF Belongs
    <3>2. j \in 1 .. Len(h) /\ both[Len(g) + j] = h[j]
      BY <1>1
    <3>3. Len(g) + j \in 1 .. Len(g) + i - 1 /\ (Len(g) + i) - (Len(g) + j) = i - j
      BY <1>1
    <3> QED BY <3>1, <3>2, <3>3 DEF Belongs
  <2> QED BY <2>1, <2>2, <2>3 DEF Settles, Belongs
<1>4. ASSUME NEW i \in 1 .. Len(both)
      PROVE  Settles(both, i) /\ Belongs(both, i)
  <2>1. CASE i <= Len(g)
    BY <1>1, <1>2, <2>1
  <2>2. CASE ~(i <= Len(g))
    <3>1. i - Len(g) \in 1 .. Len(h) /\ Len(g) + (i - Len(g)) = i
      BY <1>1, <2>2
    <3>2. Settles(both, Len(g) + (i - Len(g))) /\ Belongs(both, Len(g) + (i - Len(g)))
      BY <1>3, <3>1
    <3> QED BY <3>1, <3>2
  <2> QED BY <2>1, <2>2
<1>5. Clear(both)
  BY <1>1, <1>4 DEF Clear
<1> QED BY <1>5 DEF both

\* A conversation without calls and results is clear.
LEMMA ClearWithoutCalls ==
  ASSUME NEW h, Talk(h),
         \A i \in 1 .. Len(h) : h[i].role # "assistant" /\ h[i].role # "tool"
  PROVE  Clear(h)
BY DEF Clear, Settles, Belongs

\* A message that neither calls nor answers is clear.
LEMMA ClearAlone ==
  ASSUME NEW m, m.role # "assistant", m.role # "tool"
  PROVE  Clear(<< m >>)
<1>1. Talk(<< m >>) /\ Len(<< m >>) = 1 /\ << m >>[1] = m
  BY ListsAreTalk
<1>2. \A i \in 1 .. Len(<< m >>) : << m >>[i] = m
  BY <1>1
<1> QED BY <1>1, <1>2, ClearWithoutCalls

\* What follows from a user message on is clear: results never stand behind it
\* that were called for before it.
LEMMA ClearFromUser ==
  ASSUME NEW h, Clear(h), NEW start \in 1 .. Len(h), h[start].role = "user"
  PROVE  Clear(SubSeq(h, start, Len(h)))
<1> DEFINE rest == SubSeq(h, start, Len(h))
<1>1. Talk(h) /\ Len(h) \in Nat /\ start \in 1 .. Len(h) + 1 /\ Len(h) \in start - 1 .. Len(h)
  BY TalkIsSequence DEF Clear
<1>2. /\ Talk(rest) /\ Len(rest) = Len(h) - start + 1
      /\ \A i \in 1 .. Len(h) - start + 1 : rest[i] = h[start + i - 1]
  BY <1>1, Cut
<1> HIDE DEF rest
<1>3. ASSUME NEW i \in 1 .. Len(rest)
      PROVE  Settles(rest, i) /\ Belongs(rest, i)
  <2> DEFINE at == start + i - 1
  <2>1. at \in 1 .. Len(h) /\ rest[i] = h[at] /\ i = at - start + 1
    <3>1. Len(h) \in Nat /\ start \in 1 .. Len(h) /\ Len(rest) = Len(h) - start + 1
      BY <1>1, <1>2
    <3>2. i \in 1 .. Len(h) - start + 1
      BY <3>1
    <3>3. rest[i] = h[at]
      BY <1>2, <3>2, Zenon
    <3>4. at \in 1 .. Len(h) /\ i = at - start + 1
      BY <3>1, <3>2
    <3> QED BY <3>3, <3>4
  <2> HIDE DEF at
  <2>2. Settles(h, at) /\ Belongs(h, at)
    BY <2>1 DEF Clear
  <2>3. ASSUME h[at].role = "assistant"
        PROVE  Settles(rest, i)
    <3>1. Len(h[at].calls) \in Nat
      BY <2>2, <2>3 DEF Settles
    <3>2. ASSUME NEW k \in 1 .. Len(h[at].calls)
          PROVE  i + k <= Len(rest) /\ rest[i + k] = h[at + k]
      <4>1. at + k <= Len(h) /\ at + k = start + (i + k) - 1
        <5>1. at + k <= Len(h)
          BY <2>2, <2>3 DEF Settles
        <5>2. at \in Nat /\ start \in Nat /\ k \in Nat /\ i = at - start + 1
          BY <1>1, <2>1, <3>1
        <5>3. at + k = start + (i + k) - 1
          BY <5>2
        <5> QED BY <5>1, <5>3
      <4>2. i + k \in 1 .. Len(h) - start + 1
        BY <1>1, <2>1, <3>1, <4>1
      <4>3. rest[i + k] = h[start + (i + k) - 1]
        BY <1>2, <4>2, Zenon
      <4>4. i + k <= Len(rest)
        BY <1>1, <1>2, <4>2
      <4> QED BY <4>1, <4>3, <4>4
    <3>3. ASSUME NEW k \in 1 .. Len(h[at].calls)
          PROVE  /\ h[at + k].role = "tool"
                 /\ h[at + k].run = h[at].run
                 /\ h[at + k].turn = h[at].turn
                 /\ h[at + k].call = h[at].calls[k]
      BY <2>2, <2>3 DEF Settles
    <3>4. rest[i] = h[at]
      BY <2>1
    <3> QED BY <3>1, <3>2, <3>3, <3>4, Zenon DEF Settles
  <2>4. ASSUME h[at].role = "tool"
        PROVE  Belongs(rest, i)
    <3>1. PICK j \in 1 .. at - 1 : h[j].role = "assistant" /\ at - j <= Len(h[j].calls)
      BY <2>2, <2>4 DEF Belongs
    <3>2. j \in 1 .. Len(h) /\ Settles(h, j)
      <4>1. j \in 1 .. Len(h)
        BY <1>1, <2>1
      <4> QED BY <4>1 DEF Clear
    <3>3. ASSUME j < start
          PROVE  FALSE
      <4>1. Len(h[j].calls) \in Nat /\ start - j \in 1 .. Len(h[j].calls)
        BY <1>1, <2>1, <3>1, <3>2, <3>3 DEF Settles
      <4>2. h[j + (start - j)].role = "tool"
        <5> DEFINE k == start - j
        <5>1. k \in 1 .. Len(h[j].calls)
          BY <4>1
        <5> HIDE DEF k
        <5>2. h[j + k].role = "tool"
          BY <3>1, <3>2, <5>1 DEF Settles
        <5> QED BY <5>2 DEF k
      <4>3. j + (start - j) = start
        BY <1>1, <3>2
      <4> QED BY <4>2, <4>3
    <3>4. /\ j - start + 1 \in 1 .. i - 1 /\ j - start + 1 \in 1 .. Len(h) - start + 1
          /\ start + (j - start + 1) - 1 = j /\ i - (j - start + 1) = at - j
      BY <1>1, <2>1, <3>2, <3>3
    <3>5. rest[j - start + 1] = h[j]
      BY <1>2, <3>4
    <3> QED BY <3>1, <3>4, <3>5 DEF Belongs
  <2> QED BY <2>1, <2>3, <2>4 DEF Settles, Belongs
<1>4. Clear(rest)
  BY <1>2, <1>3 DEF Clear
<1> QED BY <1>4 DEF rest

\* Only who calls and who answers what matters, not how.
LEMMA ClearWhateverTheAnswer ==
  ASSUME NEW g, NEW h, Clear(g), Talk(h), Len(h) = Len(g),
         \A i \in 1 .. Len(g) :
           \/ h[i] = g[i]
           \/ /\ h[i].role = "tool" /\ g[i].role = "tool"
              /\ h[i].run = g[i].run /\ h[i].turn = g[i].turn /\ h[i].call = g[i].call
  PROVE  Clear(h)
<1>1. \A i \in 1 .. Len(g) :
        /\ h[i].role = g[i].role
        /\ h[i].role = "tool" =>
             h[i].run = g[i].run /\ h[i].turn = g[i].turn /\ h[i].call = g[i].call
        /\ h[i].role = "assistant" => h[i] = g[i]
  OBVIOUS
<1>2. Len(g) \in Nat
  BY TalkIsSequence DEF Clear
<1>3. ASSUME NEW i \in 1 .. Len(g)
      PROVE  Settles(h, i)
  <2>1. Settles(g, i)
    BY DEF Clear
  <2>2. ASSUME h[i].role = "assistant"
        PROVE  Settles(h, i)
    <3>1. h[i] = g[i] /\ Len(g[i].calls) \in Nat
      BY <1>1, <2>1, <2>2 DEF Settles
    <3>2. ASSUME NEW k \in 1 .. Len(g[i].calls)
          PROVE  /\ i + k <= Len(h)
                 /\ h[i + k].role = "tool"
                 /\ h[i + k].run = h[i].run
                 /\ h[i + k].turn = h[i].turn
                 /\ h[i + k].call = h[i].calls[k]
      <4>1. /\ i + k <= Len(g)
            /\ g[i + k].role = "tool"
            /\ g[i + k].run = g[i].run
            /\ g[i + k].turn = g[i].turn
            /\ g[i + k].call = g[i].calls[k]
        BY <2>1, <2>2, <3>1 DEF Settles
      <4>2. i + k \in 1 .. Len(g)
        BY <1>2, <3>1, <4>1
      <4> QED BY <1>1, <3>1, <4>1, <4>2
    <3> QED BY <3>1, <3>2 DEF Settles
  <2> QED BY <2>2 DEF Settles
<1>4. ASSUME NEW i \in 1 .. Len(g), h[i].role = "tool"
      PROVE  Belongs(h, i)
  <2>1. Belongs(g, i) /\ g[i].role = "tool"
    BY <1>1, <1>4 DEF Clear
  <2>2. PICK j \in 1 .. i - 1 : g[j].role = "assistant" /\ i - j <= Len(g[j].calls)
    BY <2>1 DEF Belongs
  <2>3. j \in 1 .. Len(g)
    BY <1>2
  <2>4. h[j] = g[j]
    BY <1>1, <2>2, <2>3
  <2> QED BY <2>2, <2>4 DEF Belongs
<1> QED BY <1>3, <1>4 DEF Clear, Belongs

----------------------------------------------------------------------------
(* What a reply, and the answers nobody waits for, add to a conversation.  *)

Calls == Seq([id : Nat, kind : {"good", "bad"}])

\* Skipped, of calls that a turn of a run has made.
SkippedBy(run, turn, left) ==
  [i \in 1 .. Len(left) |-> ToolResult(run, turn, left[i].id, "skipped")]

\* The answers to calls that are not run, one by one.
LEMMA SkippedAnswers ==
  ASSUME NEW run, NEW turn, NEW left \in Calls
  PROVE  /\ Talk(SkippedBy(run, turn, left))
         /\ Len(left) \in Nat /\ Len(SkippedBy(run, turn, left)) = Len(left)
         /\ \A i \in 1 .. Len(left) :
              SkippedBy(run, turn, left)[i] = ToolResult(run, turn, left[i].id, "skipped")
<1>1. Len(left) \in Nat
  BY DEF Calls
<1> DEFINE S == {ToolResult(run, turn, left[i].id, "skipped") : i \in 1 .. Len(left)}
<1>2. SkippedBy(run, turn, left) \in [1 .. Len(left) -> S]
  BY DEF SkippedBy
<1>3. /\ SkippedBy(run, turn, left) \in Seq(S)
      /\ Len(SkippedBy(run, turn, left)) = Len(left)
  BY <1>1, <1>2, FunctionIsSequence
<1>4. Talk(SkippedBy(run, turn, left))
  BY <1>3 DEF Talk
<1> QED BY <1>1, <1>3, <1>4 DEF SkippedBy

\* Nothing is owed when there are no calls.
LEMMA NothingSkipped == \A run, turn : SkippedBy(run, turn, << >>) = << >>
<1> TAKE run, turn
<1>1. << >> \in Calls /\ Len(<< >>) = 0
  BY EmptySeq DEF Calls
<1> QED BY <1>1, SkippedAnswers, TalkIsSequence

\* A reply numbers its calls.
LEMMA RepliesAreNumbered ==
  ASSUME NEW reply \in Reply
  PROVE  /\ Len(reply.calls) \in Nat
         /\ Numbered(reply.calls) \in Calls
         /\ Len(Numbered(reply.calls)) = Len(reply.calls)
         /\ \A i \in 1 .. Len(reply.calls) : Numbered(reply.calls)[i].id = i
         /\ Len(Spoken(reply).calls) = Len(reply.calls)
         /\ \A i \in 1 .. Len(reply.calls) : Spoken(reply).calls[i] = i
         /\ reply.calls = << >> => Spoken(reply).calls = << >>
<1> DEFINE kinds == reply.calls
           n == Len(kinds)
<1>1. kinds \in Seq({"good", "bad"})
  BY DEF Reply
<1>2. n \in Nat /\ \A i \in 1 .. n : kinds[i] \in {"good", "bad"}
  BY <1>1, LenProperties, ElementOfSeq
<1>3. Numbered(kinds) \in [1 .. n -> [id : Nat, kind : {"good", "bad"}]]
  BY <1>2 DEF Numbered
<1>4. Numbered(kinds) \in Calls /\ Len(Numbered(kinds)) = n
  BY <1>2, <1>3, FunctionIsSequence DEF Calls
<1>5. \A i \in 1 .. n : Numbered(kinds)[i].id = i
  BY DEF Numbered
<1>6. Spoken(reply).calls = [i \in 1 .. n |-> i]
  BY DEF Spoken, Assistant
<1>7. [i \in 1 .. n |-> i] \in [1 .. n -> Nat]
  BY <1>2
<1>8. [i \in 1 .. n |-> i] \in Seq(Nat) /\ Len([i \in 1 .. n |-> i]) = n
  BY <1>2, <1>7, LenProperties, SeqDef
<1>9. ASSUME kinds = << >>
      PROVE  Spoken(reply).calls = << >>
  <2>1. n = 0
    BY <1>9, EmptySeq
  <2> QED BY <1>6, <1>8, <2>1, EmptySeq
<1> QED BY <1>2, <1>4, <1>5, <1>6, <1>8, <1>9

\* A reply and the answers to all its calls are clear.
LEMMA ExchangeIsClear ==
  ASSUME NEW reply \in Reply
  PROVE  Clear(<< Spoken(reply) >> \o Skipped(Numbered(reply.calls)))
<1> DEFINE left == Numbered(reply.calls)
           both == << Spoken(reply) >> \o Skipped(left)
           n == Len(reply.calls)
<1>1. /\ n \in Nat /\ left \in Calls /\ Len(left) = n
      /\ \A i \in 1 .. n : left[i].id = i
      /\ Len(Spoken(reply).calls) = n
      /\ \A i \in 1 .. n : Spoken(reply).calls[i] = i
  BY RepliesAreNumbered
<1>2. /\ Talk(Skipped(left)) /\ Len(Skipped(left)) = n
      /\ \A i \in 1 .. n : Skipped(left)[i] = ToolResult(Run, turns, left[i].id, "skipped")
  <2>1. Skipped(left) = SkippedBy(Run, turns, left)
    BY DEF Skipped, SkippedBy
  <2>2. left \in Calls /\ Len(left) = n
    BY <1>1
  <2> HIDE DEF left, n
  <2> QED BY <2>1, <2>2, SkippedAnswers
<1>3. /\ Talk(<< Spoken(reply) >>) /\ Len(<< Spoken(reply) >>) = 1
      /\ << Spoken(reply) >>[1] = Spoken(reply)
  BY ListsAreTalk
<1>4. /\ Talk(both) /\ Len(both) = 1 + n
      /\ \A i \in 1 .. 1 : both[i] = << Spoken(reply) >>[i]
      /\ \A i \in 1 .. n : both[1 + i] = Skipped(left)[i]
  BY <1>2, <1>3, Joined
<1>5. both[1] = Spoken(reply)
  BY <1>3, <1>4
<1>6. \A i \in 1 .. n : both[1 + i] = ToolResult(Run, turns, i, "skipped")
  BY <1>1, <1>2, <1>4
<1> HIDE DEF both, left
<1>7. /\ Spoken(reply).role = "assistant"
      /\ Spoken(reply).run = Run /\ Spoken(reply).turn = turns
  BY DEF Spoken, Assistant
<1>8. \A i \in 1 .. n : /\ ToolResult(Run, turns, i, "skipped").role = "tool"
                        /\ ToolResult(Run, turns, i, "skipped").run = Run
                        /\ ToolResult(Run, turns, i, "skipped").turn = turns
                        /\ ToolResult(Run, turns, i, "skipped").call = i
  BY DEF ToolResult
<1>9. Settles(both, 1) /\ Belongs(both, 1)
  <2>1. \A k \in 1 .. n : 1 + k <= Len(both)
    BY <1>1, <1>4
  <2> QED BY <1>1, <1>5, <1>6, <1>7, <1>8, <2>1 DEF Settles, Belongs
<1>10. ASSUME NEW i \in 1 .. n
       PROVE  Settles(both, 1 + i) /\ Belongs(both, 1 + i)
  <2>1. both[1 + i].role = "tool"
    BY <1>6, <1>8
  <2>2. 1 \in 1 .. (1 + i) - 1 /\ (1 + i) - 1 <= n
    BY <1>1
  <2>3. both[1].role = "assistant" /\ Len(both[1].calls) = n
    BY <1>1, <1>5, <1>7
  <2> QED BY <2>1, <2>2, <2>3 DEF Settles, Belongs
<1>11. \A i \in 1 .. Len(both) : i = 1 \/ (i - 1 \in 1 .. n /\ i = 1 + (i - 1))
  BY <1>1, <1>4
<1>12. \A i \in 1 .. Len(both) : Settles(both, i) /\ Belongs(both, i)
  BY <1>9, <1>10, <1>11
<1> QED BY <1>4, <1>12 DEF Clear, both, left

----------------------------------------------------------------------------
(* Compaction.                                                             *)

\* A set of numbers up to n has a least and a greatest element.
LEMMA Extremes ==
  ASSUME NEW n \in Nat, NEW S \in SUBSET (0 .. n), S # {}
  PROVE  /\ \E i \in S : \A j \in S : i <= j
         /\ \E i \in S : \A j \in S : j <= i
<1> DEFINE less == {p \in Nat \X Nat : p[1] < p[2]}
<1>1. IsWellFoundedOn(less, Nat)
  BY NatLessThanWellFounded DEF OpToRel
<1>2. \A i, j \in Nat : << j, i >> \in less <=> j < i
  OBVIOUS
<1> HIDE DEF less
<1>3. ASSUME NEW T \in SUBSET (0 .. n), T # {}
      PROVE  \E i \in T : \A j \in T : i <= j
  <2>1. T \in SUBSET Nat
    OBVIOUS
  <2>2. PICK i \in T : \A j \in T : ~(<< j, i >> \in less)
    BY <1>1, <1>3, <2>1, WFMin
  <2>3. \A j \in T : i \in Nat /\ j \in Nat /\ ~(j < i)
    BY <1>2, <2>1, <2>2
  <2>4. \A j \in T : i <= j
    BY <2>3
  <2> QED BY <2>4
<1>4. \E i \in S : \A j \in S : i <= j
  BY <1>3
<1> DEFINE T == {n - i : i \in S}
<1>5. T \in SUBSET (0 .. n) /\ T # {}
  OBVIOUS
<1>6. PICK k \in T : \A j \in T : k <= j
  BY <1>3, <1>5
<1>7. PICK i \in S : k = n - i
  OBVIOUS
<1>8. \A j \in S : n - i <= n - j
  BY <1>6, <1>7
<1>9. \A j \in S : j <= i
  BY <1>8
<1> QED BY <1>4, <1>9

\* The places of users are finitely many.
LEMMA UsersAreCounted ==
  ASSUME NEW h, Talk(h)
  PROVE  /\ Len(h) \in Nat /\ UserAt(h) \in SUBSET (0 .. Len(h))
         /\ IsFiniteSet(UserAt(h)) /\ Cardinality(UserAt(h)) \in Nat
<1>1. Len(h) \in Nat
  BY TalkIsSequence
<1>2. IsFiniteSet(0 .. Len(h))
  BY <1>1, FS_Interval
<1>3. UserAt(h) \in SUBSET (0 .. Len(h))
  BY <1>1 DEF UserAt
<1>4. IsFiniteSet(UserAt(h))
  BY <1>2, <1>3, FS_Subset
<1> QED BY <1>1, <1>3, <1>4, FS_CardinalityType

\* The last KeepRecent user turns open with a user message.
LEMMA RequiredStartIsUser ==
  ASSUME NEW h, Talk(h), Cardinality(UserAt(h)) >= KeepRecent
  PROVE  /\ RequiredStart(h) \in UserAt(h)
         /\ Cardinality({j \in UserAt(h) : j >= RequiredStart(h)}) = KeepRecent
<1> DEFINE users == UserAt(h)
<1>1. Len(h) \in Nat /\ users \in SUBSET (0 .. Len(h)) /\ IsFiniteSet(users)
  BY UsersAreCounted
<1> HIDE DEF users
<1>2. Cardinality(users) \in Nat /\ Cardinality(users) >= 2
  BY <1>1, FS_CardinalityType DEF users, KeepRecent
<1>3. users # {}
  BY <1>2, FS_EmptySet
<1>4. PICK last \in users : \A j \in users : j <= last
  BY <1>1, <1>3, Extremes
<1> DEFINE others == users \ {last}
<1>5. IsFiniteSet(others) /\ Cardinality(others) = Cardinality(users) - 1
  BY <1>1, <1>4, FS_RemoveElement
<1>6. others # {}
  <2>1. Cardinality(others) # 0
    BY <1>2, <1>5
  <2> QED BY <2>1, FS_EmptySet
<1>7. PICK first \in others : \A j \in others : j <= first
  BY <1>1, <1>6, Extremes
<1>8. {j \in users : j >= first} = {last} \cup {first}
  <2>1. \A j \in users : j \in Nat
    BY <1>1
  <2>2. \A j \in users : j >= first => j = last \/ j = first
    BY <1>7, <2>1
  <2>3. last >= first /\ first >= first
    BY <1>4, <1>7, <2>1
  <2> QED BY <1>4, <1>7, <2>2, <2>3
<1>9. Cardinality({last} \cup {first}) = 2
  <2>1. IsFiniteSet({last}) /\ Cardinality({last}) = 1
    BY FS_Singleton
  <2>2. first \notin {last}
    BY <1>7
  <2> QED BY <2>1, <2>2, FS_AddElement
<1>10. \E i \in users : Cardinality({j \in users : j >= i}) = KeepRecent
  BY <1>7, <1>8, <1>9 DEF KeepRecent
<1> QED BY <1>10 DEF RequiredStart, users

\* What is kept opens with a user message, that of the last turns or one before.
LEMMA CompactStartIsUser ==
  ASSUME NEW h, Talk(h), NEW limit, Cardinality(UserAt(h)) > KeepRecent
  PROVE  CompactStart(h, limit) \in UserAt(h) /\ CompactStart(h, limit) <= RequiredStart(h)
<1> DEFINE required == RequiredStart(h)
           fitting  == {i \in UserAt(h) : i > 2 /\ i <= required /\ FitsFrom(h, i, limit)}
           earliest == CHOOSE i \in fitting : \A j \in fitting : i <= j
<1>1. required \in UserAt(h)
  <2>1. Cardinality(UserAt(h)) >= KeepRecent
    BY UsersAreCounted DEF KeepRecent
  <2> QED BY <2>1, RequiredStartIsUser
<1>2. ASSUME fitting # {}
      PROVE  earliest \in fitting
  <2>1. Len(h) \in Nat
    BY TalkIsSequence
  <2>2. fitting \in SUBSET (0 .. Len(h))
    BY <2>1 DEF UserAt
  <2> HIDE DEF fitting
  <2>3. \E i \in fitting : \A j \in fitting : i <= j
    BY <1>2, <2>1, <2>2, Extremes
  <2> QED BY <2>3
<1>3. CompactStart(h, limit) = IF fitting = {} THEN required ELSE earliest
  BY DEF CompactStart
<1>4. fitting \subseteq UserAt(h) /\ \A i \in fitting : i <= required
  OBVIOUS
<1>5. required <= required
  BY <1>1, UsersAreCounted
<1>6. CASE fitting = {}
  BY <1>1, <1>3, <1>5, <1>6
<1>7. CASE fitting # {}
  <2> HIDE DEF fitting, required, earliest
  <2>1. CompactStart(h, limit) \in UserAt(h) /\ CompactStart(h, limit) <= required
    BY <1>2, <1>3, <1>4, <1>7
  <2> QED BY <2>1 DEF required
<1> QED BY <1>6, <1>7

\* Corrections finds the system messages, and nothing else: the k-th one is that
\* which has k of them up to it.
LEMMA CorrectionsAreSystem ==
  ASSUME NEW h, Talk(h)
  PROVE  /\ Talk(Corrections(h))
         /\ \A k \in 1 .. Len(Corrections(h)) : Corrections(h)[k].role = "system"
         /\ Len(Corrections(h)) = Cardinality(SystemUpTo(h, Len(h)))
         /\ \A k \in 1 .. Len(Corrections(h)) : \E i \in 1 .. Len(h) :
              /\ h[i].role = "system" /\ Corrections(h)[k] = h[i]
              /\ Cardinality(SystemUpTo(h, i)) = k
<1> DEFINE n == Len(h)
           total == Cardinality(SystemUpTo(h, n))
           At(k) == CHOOSE i \in DOMAIN h : /\ h[i].role = "system"
                                            /\ Cardinality(SystemUpTo(h, i)) = k
<1>1. n \in Nat /\ DOMAIN h = 1 .. n
  BY TalkIsSequence
<1>2. \A i \in 0 .. n : /\ IsFiniteSet(SystemUpTo(h, i))
                        /\ Cardinality(SystemUpTo(h, i)) \in Nat
  <2>1. ASSUME NEW i \in 0 .. n
        PROVE  IsFiniteSet(SystemUpTo(h, i)) /\ Cardinality(SystemUpTo(h, i)) \in Nat
    <3>1. IsFiniteSet(1 .. i)
      BY <1>1, FS_Interval
    <3>2. SystemUpTo(h, i) \in SUBSET (1 .. i)
      BY DEF SystemUpTo
    <3>3. IsFiniteSet(SystemUpTo(h, i))
      BY <3>1, <3>2, FS_Subset
    <3> QED BY <3>3, FS_CardinalityType
  <2> QED BY <2>1
<1>3. ASSUME NEW k \in 1 .. total
      PROVE  \E i \in DOMAIN h : h[i].role = "system" /\ Cardinality(SystemUpTo(h, i)) = k
  <2> DEFINE enough == {i \in 0 .. n : Cardinality(SystemUpTo(h, i)) >= k}
  <2>1. total \in Nat /\ k \in Nat /\ n \in enough
    BY <1>1, <1>2
  <2>2. PICK i \in enough : \A j \in enough : i <= j
    BY <1>1, <2>1, Extremes
  <2>3. i # 0
    <3>1. SystemUpTo(h, 0) = {}
      BY DEF SystemUpTo
    <3>2. Cardinality(SystemUpTo(h, 0)) = 0
      BY <3>1, FS_EmptySet
    <3> QED BY <2>1, <2>2, <3>2
  <2>4. i \in 1 .. n /\ i - 1 \in 0 .. n /\ ~(i <= i - 1)
    BY <1>1, <2>2, <2>3
  <2>5. Cardinality(SystemUpTo(h, i - 1)) < k /\ Cardinality(SystemUpTo(h, i)) >= k
    <3>1. ~(Cardinality(SystemUpTo(h, i - 1)) >= k)
      BY <2>2, <2>4
    <3>2. Cardinality(SystemUpTo(h, i - 1)) \in Nat
      BY <1>2, <2>4
    <3> QED BY <2>1, <2>2, <3>1, <3>2
  <2>6. SystemUpTo(h, i) =
          IF h[i].role = "system" THEN SystemUpTo(h, i - 1) \cup {i} ELSE SystemUpTo(h, i - 1)
    <3>1. \A j : j \in 1 .. i <=> j \in 1 .. i - 1 \/ j = i
      BY <2>4
    <3> QED BY <3>1 DEF SystemUpTo
  <2>7. i \notin SystemUpTo(h, i - 1)
    BY <2>4 DEF SystemUpTo
  <2>8. h[i].role = "system"
    BY <1>2, <2>1, <2>4, <2>5, <2>6
  <2>9. Cardinality(SystemUpTo(h, i)) = Cardinality(SystemUpTo(h, i - 1)) + 1
    <3>1. SystemUpTo(h, i) = SystemUpTo(h, i - 1) \cup {i}
      BY <2>6, <2>8
    <3> QED BY <1>2, <2>4, <2>7, <3>1, FS_AddElement
  <2>10. Cardinality(SystemUpTo(h, i)) = k
    <3>1. Cardinality(SystemUpTo(h, i - 1)) \in Nat
      BY <1>2, <2>4
    <3> QED BY <2>1, <2>5, <2>9, <3>1
  <2> QED BY <1>1, <2>4, <2>8, <2>10
<1>4. \A k \in 1 .. total : /\ At(k) \in 1 .. n /\ h[At(k)].role = "system"
                            /\ Cardinality(SystemUpTo(h, At(k))) = k
  BY <1>1, <1>3
<1>5. total \in Nat
  BY <1>1, <1>2
<1>6. Corrections(h) = [k \in 1 .. total |-> h[At(k)]]
  BY DEF Corrections
<1> HIDE DEF At, total
<1> DEFINE S == {h[At(k)] : k \in 1 .. total}
<1>7. [k \in 1 .. total |-> h[At(k)]] \in [1 .. total -> S]
  OBVIOUS
<1>8. [k \in 1 .. total |-> h[At(k)]] \in Seq(S)
  BY <1>5, <1>7, SeqDef
<1>9. Len([k \in 1 .. total |-> h[At(k)]]) = total
  BY <1>5, <1>8, LenProperties
<1>10. Talk(Corrections(h))
  BY <1>6, <1>8 DEF Talk
<1>11. Len(Corrections(h)) = total /\ \A k \in 1 .. total : Corrections(h)[k] = h[At(k)]
  BY <1>6, <1>9
<1> HIDE DEF S
<1>12. \A k \in 1 .. Len(Corrections(h)) : \E i \in 1 .. Len(h) :
         /\ h[i].role = "system" /\ Corrections(h)[k] = h[i]
         /\ Cardinality(SystemUpTo(h, i)) = k
  BY <1>4, <1>11
<1>13. Len(Corrections(h)) = Cardinality(SystemUpTo(h, Len(h)))
  BY <1>11 DEF total
<1> QED BY <1>4, <1>10, <1>11, <1>12, <1>13

\* Compaction leaves a sequence.
LEMMA CompactedIsTalk ==
  ASSUME NEW h, Talk(h), NEW limit, CanCompact(h, limit)
  PROVE  Talk(Compacted(h, limit))
<1> DEFINE start   == CompactStart(h, limit)
           dropped == SubSeq(h, 2, start - 1)
           opening == << h[1], Marker(Elided(dropped) + Cardinality(Dialogue(dropped))) >>
           kept    == SubSeq(h, start, Len(h))
<1>1. Len(h) \in Nat
  BY TalkIsSequence
<1>2. start \in 2 .. Len(h)
  BY CompactStartIsUser DEF CanCompact, UserAt
<1> HIDE DEF start
<1>3. /\ 2 \in 1 .. Len(h) + 1 /\ start - 1 \in 2 - 1 .. Len(h)
      /\ start \in 1 .. Len(h) + 1 /\ Len(h) \in start - 1 .. Len(h)
  BY <1>1, <1>2
<1>4. Talk(kept) /\ Talk(dropped)
  BY <1>3, Cut
<1>5. Talk(Corrections(dropped))
  BY <1>4, CorrectionsAreSystem
<1>6. opening \in Seq({opening[1], opening[2]})
  OBVIOUS
<1>7. Talk(opening)
  BY <1>6 DEF Talk
<1> HIDE DEF opening, dropped, kept
<1>8. Talk((opening \o Corrections(dropped)) \o kept)
  BY <1>4, <1>5, <1>7, Joined
<1> QED BY <1>8 DEF Compacted, opening, dropped, kept, start

\* A clear conversation stays clear when it is compacted, and keeps its first
\* message.
LEMMA CompactedIsClear ==
  ASSUME NEW h, Clear(h), h[1].role = "system", NEW limit, CanCompact(h, limit)
  PROVE  Clear(Compacted(h, limit)) /\ Compacted(h, limit) # << >> /\ Compacted(h, limit)[1] = h[1]
<1> DEFINE start   == CompactStart(h, limit)
           dropped == SubSeq(h, 2, start - 1)
           notice  == Marker(Elided(dropped) + Cardinality(Dialogue(dropped)))
           opening == << h[1], notice >>
           kept    == SubSeq(h, start, Len(h))
<1>1. Talk(h) /\ Len(h) \in Nat
  BY TalkIsSequence DEF Clear
<1>2. start \in UserAt(h) /\ start > 2
  BY <1>1, CompactStartIsUser DEF CanCompact
<1> HIDE DEF start
<1>3. start \in 1 .. Len(h) /\ h[start].role = "user"
      /\ 2 \in 1 .. Len(h) + 1 /\ start - 1 \in 2 - 1 .. Len(h)
  BY <1>1, <1>2 DEF UserAt
<1>4. Clear(kept)
  BY <1>3, ClearFromUser
<1>5. Talk(dropped)
  BY <1>1, <1>3, Cut
<1> HIDE DEF dropped, kept
<1>6. /\ Talk(Corrections(dropped))
      /\ \A k \in 1 .. Len(Corrections(dropped)) : Corrections(dropped)[k].role = "system"
  BY <1>5, CorrectionsAreSystem
<1>7. Clear(Corrections(dropped))
  BY <1>6, ClearWithoutCalls
<1>8. notice.role = "marker"
  BY DEF Marker
<1> HIDE DEF notice
<1>9. opening \in Seq({h[1], notice}) /\ Len(opening) = 2
      /\ opening[1] = h[1] /\ opening[2] = notice
  OBVIOUS
<1>10. Talk(opening)
  BY <1>9 DEF Talk
<1>11. Clear(opening)
  <2>1. \A i \in 1 .. Len(opening) : i = 1 \/ i = 2
    BY <1>9
  <2> QED BY <1>8, <1>9, <1>10, <2>1, ClearWithoutCalls
<1> HIDE DEF opening
<1>12. /\ Clear(opening \o Corrections(dropped))
       /\ Len(opening \o Corrections(dropped)) >= 2
       /\ (opening \o Corrections(dropped))[1] = h[1]
  <2>1. Clear(opening \o Corrections(dropped))
    BY <1>7, <1>11, ClearJoined
  <2>2. /\ Len(Corrections(dropped)) \in Nat
        /\ Len(opening \o Corrections(dropped)) = Len(opening) + Len(Corrections(dropped))
        /\ \A i \in 1 .. Len(opening) : (opening \o Corrections(dropped))[i] = opening[i]
    BY <1>6, <1>10, Joined
  <2>3. 1 \in 1 .. Len(opening) /\ Len(opening \o Corrections(dropped)) >= 2
    BY <1>9, <2>2
  <2>4. (opening \o Corrections(dropped))[1] = h[1]
    BY <1>9, <2>2, <2>3
  <2> QED BY <2>1, <2>3, <2>4
<1> DEFINE front == opening \o Corrections(dropped)
<1> HIDE DEF front
<1>13. /\ Clear(front \o kept)
       /\ Len(front \o kept) # 0 /\ (front \o kept)[1] = h[1]
  <2>1. Clear(front) /\ Len(front) >= 2 /\ front[1] = h[1]
    BY <1>12 DEF front
  <2>2. Clear(front \o kept)
    BY <1>4, <2>1, ClearJoined
  <2>3. /\ Len(front) \in Nat /\ Len(kept) \in Nat
        /\ Len(front \o kept) = Len(front) + Len(kept)
        /\ \A i \in 1 .. Len(front) : (front \o kept)[i] = front[i]
    BY <1>4, <2>1, Joined DEF Clear
  <2>4. 1 \in 1 .. Len(front) /\ Len(front \o kept) # 0
    BY <2>1, <2>3
  <2>5. (front \o kept)[1] = h[1]
    BY <2>1, <2>3, <2>4
  <2> QED BY <2>2, <2>4, <2>5
<1>14. Compacted(h, limit) = front \o kept
  BY DEF Compacted, front, opening, notice, dropped, kept, start
<1>15. front \o kept # << >>
  BY <1>13, TalkIsSequence DEF Clear
<1> QED BY <1>13, <1>14, <1>15

----------------------------------------------------------------------------
(* The invariant.                                                          *)

Receipts ==
  Seq([run : Nat, kind : {"CancelledTurn", "Task"}, outcome : Outcome, class : FailureClass])

\* Types, and where in a run there are calls and messages of the run.
TurnShape ==
  /\ Talk(history) /\ Talk(working) /\ Talk(appended) /\ Talk(cached)
  /\ receipts \in Receipts
  /\ pc \in Steps /\ turns \in Nat /\ calls \in Calls
  /\ compacted \in BOOLEAN /\ failed \in BOOLEAN /\ cancel \in BOOLEAN
  /\ result \in Result
  /\ stop \in [asked : BOOLEAN, late : Nat]
  /\ spent \in [runs : Nat, cancels : Nat, faults : Nat, corrections : Nat]
  /\ pc = "idle" => appended = << >>
  /\ pc \notin {"next", "tool", "execute"} => calls = << >>
  /\ pc \in {"tool", "execute"} => calls # << >>

\* Work is only ever begun late once, by what had passed its check.
Stopping ==
  /\ stop.asked <=> cancel
  /\ stop.late <= 1
  /\ ~cancel => stop.late = 0
  /\ pc \in {"send", "execute"} => stop.late = 0

\* A verdict of "Pass" rests on an answer that is in the transcript already.
Passing ==
  /\ pc \in {"receipt", "return"} /\ result.outcome = "Pass" => Concluded(Transcript, Run)
  /\ PassIsReceipted

\* An uncompacted request is the transcript, and the evidence is about a prefix.
CacheHolds ==
  /\ pc # "idle" /\ ~compacted => working = Transcript
  /\ pc # "idle" /\ ~compacted /\ ~failed => IsPrefix(cached, Transcript)
  /\ pc = "idle" => IsPrefix(cached, history)

\* With the answers that are still owed, both the transcript and the request
\* are clear; each opens with the constitution.
Opened(h) == h # << >> /\ h[1] = System("constitution")
Owed == SkippedBy(Run, turns, calls)
Answering ==
  /\ Clear(Transcript \o Owed)
  /\ pc # "idle" => Clear(working \o Owed) /\ Opened(working) /\ Opened(Transcript)
  /\ history # << >> => Opened(history)

TurnInv == TurnShape /\ Stopping /\ Passing /\ CacheHolds /\ Answering

----------------------------------------------------------------------------
(* Initially.                                                              *)

\* A fresh session, or one restored from finished turns, satisfies the invariant.
LEMMA TurnStarts == Init => TurnInv
<1> SUFFICES ASSUME Init PROVE TurnInv
  OBVIOUS
<1>1. history \in Restored /\ history \in Seq(Range(history)) /\ Talk(history)
  BY RestoredAssumption DEF Init, Talk
<1>2. Talk(<< >>) /\ Len(<< >>) = 0
  BY ListsAreTalk
<1>3. TurnShape
  <2>1. receipts \in Receipts /\ calls \in Calls
    BY EmptySeq DEF Init, Receipts, Calls
  <2>2. result \in Result
    BY DEF Init, NoResult, Result, Outcome, FailureClass
  <2>3. stop \in [asked : BOOLEAN, late : Nat]
    BY DEF Init, NotAsked
  <2>4. spent \in [runs : Nat, cancels : Nat, faults : Nat, corrections : Nat]
    BY DEF Init
  <2> QED BY <1>1, <1>2, <2>1, <2>2, <2>3, <2>4 DEF Init, TurnShape, Steps
<1>4. Stopping
  BY DEF Init, Stopping, NotAsked
<1>5. Passing
  BY <1>2 DEF Init, Passing, PassIsReceipted
<1>6. CacheHolds
  BY <1>1, <1>2, PrefixKept DEF Init, CacheHolds
<1>7. Transcript \o Owed = history
  <2>1. Owed = << >>
    BY NothingSkipped DEF Init, Owed
  <2> QED BY <1>1, <2>1, JoinedWithNothing DEF Init, Transcript
<1>8. Clear(history)
  <2>1. /\ Answered(history)
        /\ \A i \in 1 .. Len(history) :
             history[i].role = "assistant" => history[i].calls \in Seq(Nat)
    BY <1>1, RestoredAssumption
  <2>2. \A i \in 1 .. Len(history) :
          history[i].role = "assistant" => Len(history[i].calls) \in Nat
    BY <2>1
  <2> QED BY <1>1, <2>1, <2>2, ClearMeansAnswered
<1>9. Answering
  BY <1>1, <1>7, <1>8, RestoredAssumption DEF Init, Answering, Opened
<1> QED BY <1>3, <1>4, <1>5, <1>6, <1>9 DEF TurnInv

----------------------------------------------------------------------------
(* Every step keeps the shape.                                             *)

\* What an answer, and the end of a run, do to the shape.
LEMMA PushKeepsTalk ==
  ASSUME Talk(working), Talk(appended), NEW messages, Talk(messages), Push(messages)
  PROVE  Talk(working') /\ Talk(appended')
BY Joined DEF Push

\* Verdicts are results.
LEMMA VerdictIsResult ==
  ASSUME NEW reply
  PROVE  Verdict(reply) \in Result
BY DEF Verdict, Result, Outcome, FailureClass

\* Every action of the loop, the provider and the caller keeps types and order.
LEMMA ShapeStep ==
  ASSUME TurnShape, [Next]_vars
  PROVE  TurnShape'
<1> USE DEF TurnShape
<1>1. ASSUME Begin PROVE TurnShape'
  <2> DEFINE opening == (IF history = << >> THEN << System("constitution") >> ELSE << >>)
                          \o << User(spent.runs + 1) >>
  <2>1. Talk(opening)
    <3>1. Talk(<< System("constitution") >>) /\ Talk(<< >>) /\ Talk(<< User(spent.runs + 1) >>)
      BY ListsAreTalk
    <3>2. Talk(<< System("constitution") >> \o << User(spent.runs + 1) >>)
            /\ Talk(<< >> \o << User(spent.runs + 1) >>)
      BY <3>1, Joined
    <3> QED BY <3>2
  <2>2. working' = history \o opening /\ appended' = opening /\ history' = history
    BY <1>1 DEF Begin, Open
  <2> HIDE DEF opening
  <2>3. Talk(working') /\ Talk(appended') /\ Talk(history')
    BY <2>1, <2>2, Joined
  <2>4. calls' = << >> /\ << >> \in Calls /\ turns' = 0 /\ pc' = "top" /\ compacted' = FALSE
        /\ failed' = FALSE /\ cached' = cached /\ receipts' = receipts /\ cancel' = FALSE
    BY <1>1, EmptySeq DEF Begin, Open, Calls
  <2>5. result' \in Result
    BY <1>1 DEF Begin, Open, NoResult, Result, Outcome, FailureClass
  <2>6. stop' \in [asked : BOOLEAN, late : Nat]
    BY <1>1 DEF Begin, NotAsked
  <2>7. spent' \in [runs : Nat, cancels : Nat, faults : Nat, corrections : Nat]
    <3>1. spent' = [spent EXCEPT !.runs = @ + 1]
      BY <1>1 DEF Begin, Open
    <3> QED BY <3>1
  <2> QED BY <2>3, <2>4, <2>5, <2>6, <2>7 DEF Steps
<1>2. ASSUME Cancel PROVE TurnShape'
  <2>1. spent' \in [runs : Nat, cancels : Nat, faults : Nat, corrections : Nat]
    BY <1>2 DEF Cancel
  <2>2. stop' \in [asked : BOOLEAN, late : Nat]
    BY <1>2 DEF Cancel
  <2> QED BY <1>2, <2>1, <2>2 DEF Cancel, talk, tally
<1>3. ASSUME Correct PROVE TurnShape'
  <2>1. history' = history \o << System("correction") >>
    BY <1>3, AppendJoins DEF Correct
  <2>2. Talk(history')
    BY <2>1, Joined, ListsAreTalk
  <2> QED BY <1>3, <2>2 DEF Correct, tally, outside
<1>4. ASSUME OutOfTurns \/ StopAtTop PROVE TurnShape'
  BY <1>4 DEF OutOfTurns, StopAtTop, EndRun, talk, tally, outside, bounds, Steps, Result, Outcome,
              FailureClass
<1>5. ASSUME PrepareRequest PROVE TurnShape'
  <2>1. Talk(working')
    <3>1. CASE Prepare(working) = working
      BY <1>5, <3>1 DEF PrepareRequest
    <3>2. CASE Prepare(working) # working
      <4>1. CanCompact(working, ContextLimit) /\ Prepare(working) = Compacted(working, ContextLimit)
        BY <3>2 DEF Prepare
      <4>2. Talk(Compacted(working, ContextLimit))
        BY <4>1, CompactedIsTalk
      <4> QED BY <1>5, <4>1, <4>2 DEF PrepareRequest
    <3> QED BY <3>1, <3>2
  <2>2. compacted' \in BOOLEAN
    BY <1>5 DEF PrepareRequest
  <2> QED BY <1>5, <2>1, <2>2 DEF PrepareRequest, outside, bounds, Steps
<1>6. ASSUME RequestFails, pc \in {"request", "wait"} PROVE TurnShape'
  <2>1. Talk(cached')
    BY <1>6, ListsAreTalk DEF RequestFails
  <2>2. result' \in Result
    BY <1>6 DEF RequestFails, EndRun, Result, Outcome, FailureClass
  <2> QED BY <1>6, <2>1, <2>2 DEF RequestFails, EndRun, talk, outside, bounds, Steps
<1>7. ASSUME ClientAccepts \/ CallsDone \/ TakeCall \/ AllowCall PROVE TurnShape'
  BY <1>7 DEF ClientAccepts, CallsDone, TakeCall, AllowCall, talk, tally, outside, bounds, Steps
<1>8. ASSUME Send PROVE TurnShape'
  <2>1. stop' \in [asked : BOOLEAN, late : Nat]
    BY <1>8 DEF Send, StartWork
  <2> QED BY <1>8, <2>1 DEF Send, talk, tally, outside, Steps
<1>9. ASSUME NEW reply \in Replies, FinalReply(reply) PROVE TurnShape'
  <2>1. reply \in Reply
    BY AgentTurnAssumption
  <2> DEFINE messages == << Spoken(reply) >> \o Skipped(Numbered(reply.calls))
  <2>2. Talk(messages)
    BY <2>1, ExchangeIsClear DEF Clear
  <2>3. Push(messages)
    BY <1>9 DEF FinalReply
  <2> HIDE DEF messages
  <2>4. Talk(working') /\ Talk(appended')
    BY <2>2, <2>3, PushKeepsTalk
  <2>5. Talk(cached')
    BY <1>9, ListsAreTalk DEF FinalReply, Measure
  <2>6. result' \in Result
    <3>1. Verdict(reply) \in Result
      BY VerdictIsResult
    <3> QED BY <1>9, <3>1 DEF FinalReply, EndRun, Result
  <2> QED BY <1>9, <2>4, <2>5, <2>6 DEF FinalReply, EndRun, outside, bounds, Steps
<1>10. ASSUME NEW reply \in Replies, ToolReply(reply) PROVE TurnShape'
  <2>1. reply \in Reply
    BY AgentTurnAssumption
  <2>2. Talk(<< Spoken(reply) >>)
    BY ListsAreTalk
  <2>3. Push(<< Spoken(reply) >>)
    BY <1>10 DEF ToolReply
  <2>4. Talk(working') /\ Talk(appended')
    BY <2>2, <2>3, PushKeepsTalk
  <2>5. Talk(cached')
    BY <1>10, ListsAreTalk DEF ToolReply, Measure
  <2>6. calls' \in Calls
    BY <1>10, <2>1, RepliesAreNumbered DEF ToolReply
  <2> QED BY <1>10, <2>4, <2>5, <2>6 DEF ToolReply, outside, bounds, Steps
<1>11. ASSUME StopBeforeCall PROVE TurnShape'
  <2>1. Talk(Skipped(calls)) /\ Push(Skipped(calls))
    BY <1>11, SkippedAnswers DEF StopBeforeCall, Skipped, SkippedBy
  <2>2. Talk(working') /\ Talk(appended')
    BY <2>1, PushKeepsTalk
  <2>3. calls' = << >> /\ << >> \in Calls
    BY <1>11, EmptySeq DEF StopBeforeCall, Calls
  <2>4. result' \in Result
    BY <1>11 DEF StopBeforeCall, EndRun, Result, Outcome, FailureClass
  <2> QED BY <1>11, <2>2, <2>3, <2>4 DEF StopBeforeCall, EndRun, outside, bounds, Steps
<1>12. ASSUME NEW how, Answer(how), calls # << >>, stop' \in [asked : BOOLEAN, late : Nat]
       PROVE  TurnShape'
  <2>1. /\ Talk(<< ToolResult(Run, turns, Head(calls).id, how) >>)
        /\ Push(<< ToolResult(Run, turns, Head(calls).id, how) >>)
    BY <1>12, ListsAreTalk DEF Answer
  <2>2. Talk(working') /\ Talk(appended')
    BY <2>1, PushKeepsTalk
  <2>3. calls' \in Calls
    BY <1>12, HeadTailProperties DEF Answer, Calls
  <2> QED BY <1>12, <2>2, <2>3 DEF Answer, outside, Steps
<1>13. ASSUME RefuseCall \/ SkipCall PROVE TurnShape'
  BY <1>12, <1>13 DEF RefuseCall, SkipCall
<1>14. ASSUME Execute PROVE TurnShape'
  <2>1. stop' \in [asked : BOOLEAN, late : Nat]
    BY <1>14 DEF Execute, StartWork
  <2> QED BY <1>12, <1>14, <2>1 DEF Execute
<1>15. ASSUME WriteReceipt PROVE TurnShape'
  <2>1. Receipt(result) \in [run : Nat, kind : {"CancelledTurn", "Task"},
                             outcome : Outcome, class : FailureClass]
    BY DEF Receipt, Result, Run
  <2>2. receipts' \in Receipts
    BY <1>15, <2>1, AppendProperties DEF WriteReceipt, Receipts
  <2> QED BY <1>15, <2>2 DEF WriteReceipt, talk, tally, bounds, Steps
<1>16. ASSUME ReceiptFails PROVE TurnShape'
  <2>1. result' \in Result
    BY <1>16 DEF ReceiptFails, Result, Outcome, FailureClass
  <2>2. spent' \in [runs : Nat, cancels : Nat, faults : Nat, corrections : Nat]
    BY <1>16 DEF ReceiptFails
  <2> QED BY <1>16, <2>1, <2>2 DEF ReceiptFails, talk, tally, outside, Steps
<1>17. ASSUME Return PROVE TurnShape'
  <2>1. Talk(history') /\ Talk(working') /\ Talk(appended') /\ Talk(cached')
    BY <1>17, Joined, ListsAreTalk DEF Return
  <2> QED BY <1>17, <2>1 DEF Return, outside, bounds, Steps
<1>18. ASSUME UNCHANGED vars PROVE TurnShape'
  BY <1>18 DEF vars, talk, tally, outside, bounds
<1>19. ASSUME ClientRefuses \/ ProviderFails PROVE TurnShape'
  BY <1>6, <1>19 DEF ClientRefuses, ProviderFails
<1> QED
  BY <1>1, <1>2, <1>3, <1>4, <1>5, <1>7, <1>8, <1>9, <1>10, <1>11, <1>13, <1>14, <1>15, <1>16,
     <1>17, <1>18, <1>19 DEF Next, LoopStep, ProviderStep

----------------------------------------------------------------------------
(* Cancellation.                                                           *)

\* A late start uses up the one allowance, and every later check sees the flag.
LEMMA StoppingStep ==
  ASSUME TurnShape, Stopping, [Next]_vars
  PROVE  Stopping'
<1>1. /\ cancel \in BOOLEAN /\ stop.asked \in BOOLEAN /\ stop.late \in Nat
      /\ stop \in [asked : BOOLEAN, late : Nat]
  BY DEF TurnShape
<1>2. ASSUME stop' = stop, cancel' = cancel, pc' \in {"send", "execute"} => stop.late = 0
      PROVE  Stopping'
  BY <1>2 DEF Stopping
<1>3. ASSUME StartWork, cancel' = cancel, pc \in {"send", "execute"}, pc' \notin {"send", "execute"}
      PROVE  Stopping'
  <2>1. stop.late = 0
    BY <1>3 DEF Stopping
  <2>2. stop'.asked = stop.asked /\ stop'.late = IF stop.asked THEN 1 ELSE 0
    BY <1>1, <1>3, <2>1 DEF StartWork
  <2> QED BY <1>1, <1>3, <2>2 DEF Stopping
<1>4. ASSUME Begin PROVE Stopping'
  BY <1>4 DEF Begin, Open, NotAsked, Stopping
<1>5. ASSUME Cancel PROVE Stopping'
  <2>1. stop'.asked = TRUE /\ stop'.late = stop.late
    BY <1>1, <1>5 DEF Cancel
  <2> QED BY <1>5, <2>1 DEF Cancel, Stopping
<1>6. ASSUME ClientAccepts \/ AllowCall PROVE Stopping'
  <2>1. ~cancel /\ stop' = stop /\ cancel' = cancel
    BY <1>6 DEF ClientAccepts, AllowCall, outside, bounds
  <2>2. stop.late = 0
    BY <2>1 DEF Stopping
  <2> QED BY <1>2, <2>1, <2>2
<1>7. ASSUME Correct \/ OutOfTurns \/ StopAtTop \/ PrepareRequest \/ RequestFails \/ CallsDone
               \/ TakeCall \/ StopBeforeCall \/ RefuseCall \/ SkipCall \/ WriteReceipt
               \/ ReceiptFails \/ Return
      PROVE  Stopping'
  <2>1. stop' = stop /\ cancel' = cancel
    BY <1>7 DEF Correct, OutOfTurns, StopAtTop, PrepareRequest, RequestFails, CallsDone, TakeCall,
                StopBeforeCall, RefuseCall, SkipCall, Answer, WriteReceipt, ReceiptFails, Return,
                outside, bounds
  <2>2. pc' \notin {"send", "execute"}
    BY <1>7 DEF Correct, OutOfTurns, StopAtTop, PrepareRequest, RequestFails, CallsDone, TakeCall,
                StopBeforeCall, RefuseCall, SkipCall, Answer, WriteReceipt, ReceiptFails, Return,
                EndRun
  <2> QED BY <1>2, <2>1, <2>2
<1>8. ASSUME NEW reply \in Replies, FinalReply(reply) \/ ToolReply(reply)
      PROVE  Stopping'
  <2>1. stop' = stop /\ cancel' = cancel
    BY <1>8 DEF FinalReply, ToolReply, outside, bounds
  <2>2. pc' \notin {"send", "execute"}
    BY <1>8 DEF FinalReply, ToolReply, EndRun
  <2> QED BY <1>2, <2>1, <2>2
<1>9. ASSUME Send PROVE Stopping'
  BY <1>3, <1>9 DEF Send, outside
<1>10. ASSUME Execute PROVE Stopping'
  BY <1>3, <1>10 DEF Execute, Answer, outside
<1>11. ASSUME UNCHANGED vars PROVE Stopping'
  BY <1>11 DEF vars, outside, bounds, Stopping
<1> QED
  BY <1>4, <1>5, <1>6, <1>7, <1>8, <1>9, <1>10, <1>11
  DEF Next, LoopStep, ProviderStep, ClientRefuses, ProviderFails

----------------------------------------------------------------------------
(* What is said is never taken back.                                       *)

\* The step leaves the conversation alone.
Silent == /\ history' = history /\ working' = working /\ appended' = appended
          /\ calls' = calls /\ turns' = turns /\ Run' = Run
          /\ pc' = "idle" <=> pc = "idle"

\* Steps, by what they do to the conversation.
LEMMA StepsThatSpeak ==
  ASSUME TurnShape, [Next]_vars
  PROVE  \/ Silent
         \/ Begin
         \/ Correct
         \/ PrepareRequest
         \/ \E reply \in Replies : FinalReply(reply) \/ ToolReply(reply)
         \/ StopBeforeCall
         \/ calls # << >> /\ \E how : Answer(how)
         \/ Return
<1>1. ASSUME Cancel PROVE Silent
  BY <1>1 DEF Cancel, Silent, talk, tally, Run, TurnShape
<1>2. ASSUME \/ OutOfTurns \/ StopAtTop \/ ClientRefuses \/ ProviderFails \/ ClientAccepts
             \/ CallsDone \/ TakeCall \/ AllowCall \/ WriteReceipt
      PROVE  Silent
  BY <1>2 DEF OutOfTurns, StopAtTop, ClientRefuses, ProviderFails, RequestFails, EndRun,
              ClientAccepts, CallsDone, TakeCall, AllowCall, WriteReceipt, Silent, talk, tally,
              bounds, Run
<1>3. ASSUME Send PROVE Silent
  BY <1>3 DEF Send, Silent, talk, tally, Run
<1>4. ASSUME ReceiptFails PROVE Silent
  <2>1. spent'.runs = spent.runs
    BY <1>4 DEF ReceiptFails, TurnShape
  <2> QED BY <1>4, <2>1 DEF ReceiptFails, Silent, talk, tally, Run
<1>5. ASSUME RefuseCall \/ SkipCall \/ Execute
      PROVE  calls # << >> /\ \E how : Answer(how)
  BY <1>5 DEF RefuseCall, SkipCall, Execute, TurnShape
<1>6. ASSUME UNCHANGED vars PROVE Silent
  BY <1>6 DEF vars, talk, tally, bounds, Silent, Run
<1> QED
  BY <1>1, <1>2, <1>3, <1>4, <1>5, <1>6 DEF Next, LoopStep, ProviderStep

\* What Push does to the transcript and to the request.
LEMMA PushJoins ==
  ASSUME TurnShape, NEW messages, Talk(messages), Push(messages), history' = history
  PROVE  /\ Talk(Transcript) /\ Talk(working)
         /\ Transcript' = Transcript \o messages
         /\ working' = working \o messages
<1>1. Talk(history) /\ Talk(appended) /\ Talk(working)
  BY DEF TurnShape
<1>2. history' \o appended' = history \o (appended \o messages)
  BY DEF Push
<1>3. (history \o appended) \o messages = history \o (appended \o messages)
  <2>1. Talk(history) /\ Talk(appended) /\ Talk(messages)
    BY <1>1
  <2> QED BY <2>1, Rejoined
<1>4. Transcript' = Transcript \o messages
  BY <1>2, <1>3 DEF Transcript
<1> QED BY <1>1, <1>4, Joined DEF Push, Transcript

\* The transcript only ever grows at its end.
LEMMA TranscriptGrows ==
  ASSUME TurnShape, [Next]_vars
  PROVE  \E messages : Talk(messages) /\ Transcript' = Transcript \o messages
<1>1. Talk(history) /\ Talk(appended) /\ Talk(Transcript)
  BY Joined DEF TurnShape, Transcript
<1>2. ASSUME Transcript' = Transcript
      PROVE  \E messages : Talk(messages) /\ Transcript' = Transcript \o messages
  BY <1>1, <1>2, ListsAreTalk, JoinedWithNothing
<1>3. ASSUME NEW messages, Talk(messages), Push(messages), history' = history
      PROVE  \E said : Talk(said) /\ Transcript' = Transcript \o said
  BY <1>3, PushJoins
<1>4. CASE Silent
  BY <1>2, <1>4 DEF Silent, Transcript
<1>5. CASE Begin
  <2>1. Transcript = history
    BY <1>1, <1>5, JoinedWithNothing DEF Begin, TurnShape, Transcript
  <2>2. history' = history /\ Transcript' = history \o appended'
    BY <1>5 DEF Begin, Open, Transcript
  <2>3. Talk(appended')
    <3>1. TurnShape'
      BY ShapeStep
    <3> QED BY <3>1 DEF TurnShape
  <2> QED BY <2>1, <2>2, <2>3
<1>6. CASE Correct
  <2>1. appended = << >> /\ appended' = << >>
    BY <1>6 DEF Correct, TurnShape
  <2>2. history' = history \o << System("correction") >> /\ Talk(<< System("correction") >>)
    BY <1>1, <1>6, AppendJoins, ListsAreTalk DEF Correct
  <2>3. Transcript = history
    BY <1>1, <2>1, JoinedWithNothing DEF Transcript
  <2>4. Talk(history')
    BY <1>1, <2>2, Joined
  <2>5. Transcript' = history'
    BY <2>1, <2>4, JoinedWithNothing DEF Transcript
  <2> QED BY <2>2, <2>3, <2>5
<1>7. CASE PrepareRequest
  BY <1>2, <1>7 DEF PrepareRequest, Transcript
<1>8. CASE \E reply \in Replies : FinalReply(reply) \/ ToolReply(reply)
  <2>1. PICK reply \in Replies : FinalReply(reply) \/ ToolReply(reply)
    BY <1>8
  <2>2. reply \in Reply
    BY AgentTurnAssumption
  <2>3. Talk(<< Spoken(reply) >> \o Skipped(Numbered(reply.calls))) /\ Talk(<< Spoken(reply) >>)
    BY <2>2, ExchangeIsClear, ListsAreTalk DEF Clear
  <2>4. /\ history' = history
        /\ \/ Push(<< Spoken(reply) >> \o Skipped(Numbered(reply.calls)))
           \/ Push(<< Spoken(reply) >>)
    BY <2>1 DEF FinalReply, ToolReply
  <2> QED BY <1>3, <2>3, <2>4
<1>9. CASE StopBeforeCall
  <2>1. Talk(Skipped(calls)) /\ Push(Skipped(calls)) /\ history' = history
    BY <1>9, SkippedAnswers DEF StopBeforeCall, TurnShape, Skipped, SkippedBy
  <2> QED BY <1>3, <2>1
<1>10. CASE calls # << >> /\ \E how : Answer(how)
  <2>1. PICK how : Answer(how)
    BY <1>10
  <2>2. /\ Talk(<< ToolResult(Run, turns, Head(calls).id, how) >>)
        /\ Push(<< ToolResult(Run, turns, Head(calls).id, how) >>)
        /\ history' = history
    BY <2>1, ListsAreTalk DEF Answer
  <2> QED BY <1>3, <2>2
<1>11. CASE Return
  <2>1. history' = Transcript /\ appended' = << >>
    BY <1>11 DEF Return, Transcript
  <2>2. Transcript' = Transcript
    BY <1>1, <2>1, JoinedWithNothing DEF Transcript
  <2> QED BY <1>2, <2>2
<1> QED BY <1>4, <1>5, <1>6, <1>7, <1>8, <1>9, <1>10, <1>11, StepsThatSpeak

----------------------------------------------------------------------------
(* Passes.                                                                 *)

\* An answer given stays given.
LEMMA ConcludedStays ==
  ASSUME TurnShape, [Next]_vars, NEW run, Concluded(Transcript, run)
  PROVE  Concluded(Transcript', run)
<1>1. PICK messages : Talk(messages) /\ Transcript' = Transcript \o messages
  BY TranscriptGrows
<1>2. Talk(Transcript)
  BY Joined DEF TurnShape, Transcript
<1>3. /\ Len(Transcript) \in Nat /\ Len(messages) \in Nat
      /\ Len(Transcript') = Len(Transcript) + Len(messages)
      /\ \A i \in 1 .. Len(Transcript) : Transcript'[i] = Transcript[i]
  BY <1>1, <1>2, Joined
<1>4. PICK i \in 1 .. Len(Transcript) :
        /\ Transcript[i].role = "assistant"
        /\ Transcript[i].run = run
        /\ Transcript[i].calls = << >>
        /\ Transcript[i].text
  BY DEF Concluded
<1>5. i \in 1 .. Len(Transcript') /\ Transcript'[i] = Transcript[i]
  BY <1>3
<1> QED BY <1>4, <1>5 DEF Concluded

\* The reply behind a verdict of "Pass" is such an answer.
LEMMA PassConcludes ==
  ASSUME TurnShape, NEW reply \in Replies, FinalReply(reply), result'.outcome = "Pass"
  PROVE  Concluded(Transcript', Run')
<1> DEFINE messages == << Spoken(reply) >> \o Skipped(Numbered(reply.calls))
<1>1. reply \in Reply
  BY AgentTurnAssumption
<1>2. Verdict(reply).outcome = "Pass"
  BY DEF FinalReply, EndRun
<1>3. reply.calls = << >> /\ reply.text
  BY <1>2 DEF Verdict
<1>4. /\ Spoken(reply).role = "assistant" /\ Spoken(reply).run = Run
      /\ Spoken(reply).calls = << >> /\ Spoken(reply).text
  BY <1>1, <1>3, RepliesAreNumbered DEF Spoken, Assistant
<1>5. Talk(messages) /\ Len(messages) \in Nat /\ Len(messages) >= 1 /\ messages[1] = Spoken(reply)
  <2>1. /\ Talk(<< Spoken(reply) >>) /\ Len(<< Spoken(reply) >>) = 1
        /\ << Spoken(reply) >>[1] = Spoken(reply)
    BY ListsAreTalk
  <2>2. Talk(Skipped(Numbered(reply.calls)))
    <3>1. Skipped(Numbered(reply.calls)) = SkippedBy(Run, turns, Numbered(reply.calls))
      BY DEF Skipped, SkippedBy
    <3> QED BY <1>1, <3>1, RepliesAreNumbered, SkippedAnswers
  <2>3. /\ Talk(messages) /\ Len(Skipped(Numbered(reply.calls))) \in Nat
        /\ Len(messages) = Len(<< Spoken(reply) >>) + Len(Skipped(Numbered(reply.calls)))
        /\ \A i \in 1 .. Len(<< Spoken(reply) >>) : messages[i] = << Spoken(reply) >>[i]
    BY <2>1, <2>2, Joined
  <2> QED BY <2>1, <2>3
<1>6. Push(messages) /\ history' = history
  BY DEF FinalReply
<1>7. Run' = Run
  BY DEF FinalReply, bounds, Run
<1> HIDE DEF messages
<1>8. Talk(Transcript) /\ Transcript' = Transcript \o messages
  BY <1>5, <1>6, PushJoins
<1>9. /\ Len(Transcript) \in Nat /\ Len(Transcript') = Len(Transcript) + Len(messages)
      /\ \A i \in 1 .. Len(messages) : Transcript'[Len(Transcript) + i] = messages[i]
  BY <1>5, <1>8, Joined
<1>10. /\ 1 \in 1 .. Len(messages)
       /\ Len(Transcript) + 1 \in 1 .. Len(Transcript')
  BY <1>5, <1>9
<1>11. Transcript'[Len(Transcript) + 1] = Spoken(reply)
  BY <1>5, <1>9, <1>10
<1> QED BY <1>4, <1>7, <1>10, <1>11 DEF Concluded

\* Receipts and verdicts of "Pass" keep resting on answers.
LEMMA PassingStep ==
  ASSUME TurnShape, Passing, [Next]_vars
  PROVE  Passing'
<1> DEFINE Receipted ==
             \E i \in 1 .. Len(receipts) : receipts[i].run = Run /\ receipts[i].outcome = "Pass"
           Founded == \A i \in 1 .. Len(receipts) :
                        receipts[i].outcome = "Pass" => Concluded(Transcript, receipts[i].run)
<1>1. /\ pc \in {"receipt", "return"} /\ result.outcome = "Pass" => Concluded(Transcript, Run)
      /\ pc = "return" /\ result.outcome = "Pass" => Receipted
      /\ Founded
  BY DEF Passing, PassIsReceipted
<1>2. ASSUME /\ pc' \in {"receipt", "return"} /\ result'.outcome = "Pass" => Concluded(Transcript', Run')
             /\ pc' = "return" /\ result'.outcome = "Pass" => Receipted'
             /\ Founded'
      PROVE  Passing'
  BY <1>2 DEF Passing, PassIsReceipted
<1>3. ASSUME receipts' = receipts
      PROVE  Founded'
  <2>1. ASSUME NEW i \in 1 .. Len(receipts), receipts[i].outcome = "Pass"
        PROVE  Concluded(Transcript', receipts[i].run)
    <3>1. Concluded(Transcript, receipts[i].run)
      BY <1>1, <2>1
    <3> QED BY <3>1, ConcludedStays
  <2> QED BY <1>3, <2>1
<1>4. ASSUME receipts' = receipts, pc' \notin {"receipt", "return"}
      PROVE  Passing'
  <2> HIDE DEF Receipted, Founded
  <2> QED BY <1>2, <1>3, <1>4
<1>5. ASSUME receipts' = receipts, pc' \in {"receipt", "return"}, result'.outcome # "Pass"
      PROVE  Passing'
  <2> HIDE DEF Receipted, Founded
  <2> QED BY <1>2, <1>3, <1>5
<1>6. ASSUME receipts' = receipts, pc' = pc, result' = result, Run' = Run
      PROVE  Passing'
  <2>1. pc' \in {"receipt", "return"} /\ result'.outcome = "Pass" => Concluded(Transcript', Run')
    <3>1. ASSUME pc \in {"receipt", "return"}, result.outcome = "Pass"
          PROVE  Concluded(Transcript', Run')
      <4>1. Concluded(Transcript, Run)
        BY <1>1, <3>1
      <4>2. \A r : Concluded(Transcript, r) => Concluded(Transcript', r)
        BY ConcludedStays
      <4> QED BY <1>6, <4>1, <4>2
    <3> QED BY <1>6, <3>1
  <2>2. pc' = "return" /\ result'.outcome = "Pass" => Receipted'
    BY <1>1, <1>6
  <2> HIDE DEF Receipted, Founded
  <2> QED BY <1>2, <1>3, <1>6, <2>1, <2>2
<1>7. CASE Begin \/ Correct \/ PrepareRequest \/ ClientAccepts \/ Send \/ CallsDone \/ TakeCall
             \/ AllowCall \/ Return \/ (\E how : Answer(how))
  <2>1. receipts' = receipts
    BY <1>7 DEF Begin, Correct, PrepareRequest, ClientAccepts, Send, CallsDone, TakeCall, AllowCall,
                Return, Answer, outside
  <2>2. pc' \notin {"receipt", "return"}
    BY <1>7 DEF Begin, Open, Correct, PrepareRequest, ClientAccepts, Send, CallsDone, TakeCall,
                AllowCall, Return, Answer
  <2> QED BY <1>4, <2>1, <2>2
<1>8. CASE OutOfTurns \/ StopAtTop \/ RequestFails \/ StopBeforeCall
  <2>1. receipts' = receipts /\ pc' \in {"receipt", "return"}
    BY <1>8 DEF OutOfTurns, StopAtTop, RequestFails, StopBeforeCall, EndRun, outside
  <2>2. result'.outcome # "Pass"
    BY <1>8 DEF OutOfTurns, StopAtTop, RequestFails, StopBeforeCall, EndRun
  <2> QED BY <1>5, <2>1, <2>2
<1>9. ASSUME NEW reply \in Replies, FinalReply(reply)
      PROVE  Passing'
  <2>1. receipts' = receipts /\ pc' = "receipt"
    BY <1>9 DEF FinalReply, EndRun, outside
  <2>2. result'.outcome = "Pass" => Concluded(Transcript', Run')
    BY <1>9, PassConcludes
  <2> HIDE DEF Receipted, Founded
  <2> QED BY <1>2, <1>3, <2>1, <2>2
<1>10. ASSUME NEW reply \in Replies, ToolReply(reply)
       PROVE  Passing'
  BY <1>4, <1>10 DEF ToolReply, outside
<1>11. CASE WriteReceipt
  <2>1. /\ pc = "receipt" /\ pc' = "return" /\ result' = result /\ Run' = Run
        /\ receipts' = Append(receipts, Receipt(result))
    BY <1>11 DEF WriteReceipt, bounds, Run
  <2>2. receipts \in Receipts
    BY DEF TurnShape
  <2> DEFINE n == Len(receipts)
  <2>3. /\ n \in Nat /\ Len(receipts') = n + 1
        /\ \A i \in 1 .. n : receipts'[i] = receipts[i]
        /\ receipts'[n + 1] = Receipt(result)
    <3>1. Receipt(result) \in [run : Nat, kind : {"CancelledTurn", "Task"},
                               outcome : Outcome, class : FailureClass]
      BY DEF Receipt, Result, Run, TurnShape
    <3> QED BY <2>1, <2>2, <3>1, AppendProperties DEF Receipts
  <2>4. Receipt(result).run = Run /\ Receipt(result).outcome = result.outcome
    BY DEF Receipt
  <2> HIDE DEF n
  <2>5. \A r : Concluded(Transcript, r) => Concluded(Transcript', r)
    BY ConcludedStays
  <2>6. result.outcome = "Pass" => Concluded(Transcript', Run')
    BY <1>1, <2>1, <2>5
  <2>7. result'.outcome = "Pass" => Receipted'
    <3>1. n + 1 \in 1 .. Len(receipts')
      BY <2>3
    <3> QED BY <2>1, <2>3, <2>4, <3>1
  <2>8. ASSUME NEW i \in 1 .. Len(receipts'), receipts'[i].outcome = "Pass"
        PROVE  Concluded(Transcript', receipts'[i].run)
    <3>1. CASE i = n + 1
      <4>1. receipts'[i].run = Run /\ result.outcome = "Pass"
        BY <2>3, <2>4, <2>8, <3>1
      <4> QED BY <2>1, <2>6, <4>1
    <3>2. CASE i # n + 1
      <4>1. i \in 1 .. n /\ receipts'[i] = receipts[i]
        BY <2>3, <3>2
      <4>2. Concluded(Transcript, receipts[i].run)
        BY <1>1, <2>8, <4>1 DEF n
      <4> QED BY <2>5, <4>1, <4>2
    <3> QED BY <3>1, <3>2
  <2>9. Founded'
    BY <2>8
  <2> HIDE DEF Receipted, Founded
  <2> QED BY <1>2, <2>1, <2>6, <2>7, <2>9
<1>12. CASE ReceiptFails
  <2>1. receipts' = receipts /\ pc' = "return" /\ result'.outcome # "Pass"
    <3>1. result'.outcome # "Pass"
      BY <1>12 DEF ReceiptFails
    <3> QED BY <1>12, <3>1 DEF ReceiptFails, outside
  <2> QED BY <1>5, <2>1
<1>13. CASE Cancel
  <2>1. spent'.runs = spent.runs
    BY <1>13 DEF Cancel, TurnShape
  <2> QED BY <1>6, <1>13, <2>1 DEF Cancel, Run
<1>14. CASE UNCHANGED vars
  BY <1>6, <1>14 DEF vars, outside, bounds, Run
<1> QED
  BY <1>7, <1>8, <1>9, <1>10, <1>11, <1>12, <1>13, <1>14
  DEF Next, LoopStep, ProviderStep, ClientRefuses, ProviderFails, RefuseCall, SkipCall, Execute

----------------------------------------------------------------------------
(* The evidence of the cache.                                              *)

\* What the evidence was measured on stays a prefix, until a step drops it.
LEMMA CacheStep ==
  ASSUME TurnShape, CacheHolds, [Next]_vars
  PROVE  CacheHolds'
<1>1. /\ Talk(history) /\ Talk(working) /\ Talk(appended) /\ Talk(cached) /\ Talk(Transcript)
      /\ compacted \in BOOLEAN /\ failed \in BOOLEAN
  BY Joined DEF TurnShape, Transcript
<1>2. /\ pc # "idle" /\ ~compacted => working = Transcript
      /\ pc # "idle" /\ ~compacted /\ ~failed => IsPrefix(cached, Transcript)
      /\ pc = "idle" => IsPrefix(cached, history)
  BY DEF CacheHolds
<1>3. ASSUME Silent, compacted' = compacted, pc # "idle", pc' # "idle",
             failed' \/ (failed' = failed /\ cached' = cached)
      PROVE  CacheHolds'
  BY <1>2, <1>3 DEF Silent, CacheHolds, Transcript
<1>4. ASSUME NEW messages, Talk(messages), Push(messages), history' = history,
             compacted' = compacted, failed' = failed, pc # "idle", pc' # "idle",
             cached' \in {cached, working, << >>}
      PROVE  CacheHolds'
  <2>1. Transcript' = Transcript \o messages /\ working' = working \o messages
    BY <1>4, PushJoins
  <2>2. ASSUME ~compacted
        PROVE  working' = Transcript'
    BY <1>2, <1>4, <2>1, <2>2
  <2>3. ASSUME ~compacted, ~failed
        PROVE  IsPrefix(cached', Transcript')
    <3>1. working = Transcript /\ IsPrefix(cached, Transcript)
      BY <1>2, <1>4, <2>3
    <3>2. IsPrefix(cached, Transcript \o messages)
      BY <1>1, <1>4, <3>1, PrefixKept
    <3>3. IsPrefix(Transcript, Transcript \o messages) /\ Talk(Transcript \o messages)
      BY <1>1, <1>4, Joined, PrefixKept
    <3>4. IsPrefix(<< >>, Transcript \o messages)
      BY <1>1, <3>3, PrefixKept
    <3> QED BY <1>4, <2>1, <3>1, <3>2, <3>3, <3>4
  <2> QED BY <1>4, <2>2, <2>3 DEF CacheHolds
<1>5. ASSUME Begin PROVE CacheHolds'
  <2>1. /\ pc = "idle" /\ pc' = "top" /\ history' = history /\ cached' = cached
        /\ working' = history \o appended'
    BY <1>5 DEF Begin, Open
  <2>2. Talk(appended')
    <3>1. TurnShape'
      BY ShapeStep
    <3> QED BY <3>1 DEF TurnShape
  <2>3. Transcript' = history \o appended'
    BY <2>1 DEF Transcript
  <2>4. IsPrefix(cached, history \o appended')
    BY <1>1, <1>2, <2>1, <2>2, PrefixKept
  <2> QED BY <2>1, <2>3, <2>4 DEF CacheHolds
<1>6. ASSUME Correct PROVE CacheHolds'
  <2>1. /\ pc = "idle" /\ pc' = "idle" /\ cached' = cached
        /\ history' = history \o << System("correction") >>
    BY <1>1, <1>6, AppendJoins DEF Correct
  <2>2. IsPrefix(cached, history \o << System("correction") >>)
    BY <1>1, <1>2, <2>1, ListsAreTalk, PrefixKept
  <2> QED BY <2>1, <2>2 DEF CacheHolds
<1>7. ASSUME PrepareRequest PROVE CacheHolds'
  <2>1. /\ pc # "idle" /\ pc' # "idle" /\ cached' = cached /\ failed' = failed
        /\ Transcript' = Transcript
    BY <1>7 DEF PrepareRequest, Transcript
  <2>2. ASSUME ~compacted'
        PROVE  ~compacted /\ working' = working
    BY <1>7, <2>2 DEF PrepareRequest
  <2> QED BY <1>2, <2>1, <2>2 DEF CacheHolds
<1>8. ASSUME ClientRefuses \/ ProviderFails PROVE CacheHolds'
  <2>1. Silent
    BY <1>8 DEF ClientRefuses, ProviderFails, RequestFails, EndRun, talk, bounds, Silent, Run
  <2>2. compacted' = compacted /\ pc # "idle" /\ pc' # "idle" /\ failed' = TRUE
    BY <1>8 DEF ClientRefuses, ProviderFails, RequestFails, EndRun
  <2> QED BY <1>3, <2>1, <2>2
<1>9. ASSUME \/ OutOfTurns \/ StopAtTop \/ ClientAccepts \/ CallsDone \/ TakeCall \/ AllowCall
             \/ WriteReceipt \/ Send
      PROVE  CacheHolds'
  <2>1. /\ compacted' = compacted /\ failed' = failed /\ cached' = cached
        /\ pc # "idle" /\ pc' # "idle"
    BY <1>9 DEF OutOfTurns, StopAtTop, EndRun, ClientAccepts, CallsDone, TakeCall, AllowCall,
                WriteReceipt, Send, tally
  <2>2. /\ history' = history /\ working' = working /\ appended' = appended
    BY <1>9 DEF OutOfTurns, StopAtTop, ClientAccepts, CallsDone, TakeCall, AllowCall, WriteReceipt,
                Send, talk
  <2> QED BY <1>2, <2>1, <2>2 DEF CacheHolds, Transcript
<1>10. ASSUME Cancel \/ ReceiptFails PROVE CacheHolds'
  <2>1. /\ compacted' = compacted /\ failed' = failed /\ cached' = cached
        /\ pc # "idle" /\ pc' # "idle"
        /\ history' = history /\ working' = working /\ appended' = appended
    BY <1>10 DEF Cancel, ReceiptFails, tally, talk
  <2> QED BY <1>2, <2>1 DEF CacheHolds, Transcript
<1>11. ASSUME NEW reply \in Replies, FinalReply(reply) \/ ToolReply(reply)
       PROVE  CacheHolds'
  <2>1. reply \in Reply
    BY AgentTurnAssumption
  <2>2. Talk(<< Spoken(reply) >> \o Skipped(Numbered(reply.calls))) /\ Talk(<< Spoken(reply) >>)
    BY <2>1, ExchangeIsClear, ListsAreTalk DEF Clear
  <2>3. /\ history' = history /\ compacted' = compacted /\ failed' = failed
        /\ pc # "idle" /\ pc' # "idle"
    BY <1>11 DEF FinalReply, ToolReply, EndRun
  <2>4. cached' \in {cached, working, << >>}
    BY <1>11 DEF FinalReply, ToolReply, Measure
  <2>5. \/ Push(<< Spoken(reply) >> \o Skipped(Numbered(reply.calls)))
        \/ Push(<< Spoken(reply) >>)
    BY <1>11 DEF FinalReply, ToolReply
  <2> QED BY <1>4, <2>2, <2>3, <2>4, <2>5
<1>12. ASSUME StopBeforeCall PROVE CacheHolds'
  <2>1. Talk(SkippedBy(Run, turns, calls))
    BY SkippedAnswers DEF TurnShape
  <2>2. Skipped(calls) = SkippedBy(Run, turns, calls)
    BY DEF Skipped, SkippedBy
  <2>3. /\ Push(Skipped(calls)) /\ history' = history /\ compacted' = compacted
        /\ failed' = failed /\ pc # "idle" /\ pc' # "idle" /\ cached' = cached
    BY <1>12 DEF StopBeforeCall, EndRun
  <2> QED BY <1>4, <2>1, <2>2, <2>3
<1>13. ASSUME RefuseCall \/ SkipCall \/ Execute PROVE CacheHolds'
  <2>1. PICK how : Answer(how)
    BY <1>13 DEF RefuseCall, SkipCall, Execute
  <2>2. /\ Talk(<< ToolResult(Run, turns, Head(calls).id, how) >>)
        /\ Push(<< ToolResult(Run, turns, Head(calls).id, how) >>)
        /\ history' = history /\ compacted' = compacted
        /\ failed' = failed /\ pc' # "idle" /\ cached' = cached
    BY <2>1, ListsAreTalk DEF Answer
  <2>3. pc # "idle"
    BY <1>13 DEF RefuseCall, SkipCall, Execute
  <2> QED BY <1>4, <2>2, <2>3
<1>14. ASSUME Return PROVE CacheHolds'
  <2>1. /\ pc # "idle" /\ pc' = "idle" /\ history' = Transcript
        /\ cached' = IF compacted \/ failed THEN << >> ELSE cached
    BY <1>14 DEF Return, Transcript
  <2>2. IsPrefix(cached', Transcript)
    <3>1. IsPrefix(<< >>, Transcript)
      BY <1>1, PrefixKept
    <3> QED BY <1>2, <2>1, <3>1
  <2> QED BY <2>1, <2>2 DEF CacheHolds
<1>15. ASSUME UNCHANGED vars PROVE CacheHolds'
  BY <1>15 DEF vars, talk, tally, CacheHolds, Transcript
<1> QED
  BY <1>5, <1>6, <1>7, <1>8, <1>9, <1>10, <1>11, <1>12, <1>13, <1>14, <1>15
  DEF Next, LoopStep, ProviderStep

----------------------------------------------------------------------------
(* Every call is answered.                                                 *)

\* What a conversation opens with stays.
LEMMA OpenedStays ==
  ASSUME NEW g, NEW h, Talk(g), Talk(h), Opened(g)
  PROVE  Opened(g \o h)
<1>1. /\ Len(g) \in Nat /\ Len(h) \in Nat /\ Len(g \o h) = Len(g) + Len(h) /\ Talk(g \o h)
      /\ \A i \in 1 .. Len(g) : (g \o h)[i] = g[i]
  BY Joined
<1>2. Len(g) # 0
  BY TalkIsSequence DEF Opened
<1>3. 1 \in 1 .. Len(g) /\ Len(g \o h) # 0
  BY <1>1, <1>2
<1>4. g \o h # << >> /\ (g \o h)[1] = g[1]
  BY <1>1, <1>3, TalkIsSequence
<1> QED BY <1>4 DEF Opened

\* A call that is answered, somehow, is one call less that is owed.
LEMMA OneCallLess ==
  ASSUME NEW h, Talk(h), NEW run, NEW turn, NEW left \in Calls, left # << >>, NEW how,
         Clear(h \o SkippedBy(run, turn, left))
  PROVE  Clear((h \o << ToolResult(run, turn, Head(left).id, how) >>)
                 \o SkippedBy(run, turn, Tail(left)))
<1> DEFINE answer == ToolResult(run, turn, Head(left).id, how)
           g == h \o SkippedBy(run, turn, left)
           f == (h \o << answer >>) \o SkippedBy(run, turn, Tail(left))
           n == Len(left)
<1>1. /\ Tail(left) \in Calls /\ Len(Tail(left)) = n - 1 /\ n \in Nat /\ n # 0
      /\ \A i \in 1 .. n - 1 : Tail(left)[i] = left[i + 1]
  <2>1. n \in Nat /\ n # 0
    BY LenProperties, EmptySeq DEF Calls
  <2>2. /\ Tail(left) \in Calls /\ Len(Tail(left)) = n - 1
        /\ \A i \in 1 .. Len(Tail(left)) : Tail(left)[i] = left[i + 1]
    BY HeadTailProperties DEF Calls
  <2> QED BY <2>1, <2>2
<1>2. Head(left) = left[1]
  BY <1>1 DEF Calls
<1>3. /\ Talk(SkippedBy(run, turn, left)) /\ Len(SkippedBy(run, turn, left)) = n
      /\ \A i \in 1 .. n :
           SkippedBy(run, turn, left)[i] = ToolResult(run, turn, left[i].id, "skipped")
  BY SkippedAnswers
<1>4. /\ Talk(SkippedBy(run, turn, Tail(left))) /\ Len(SkippedBy(run, turn, Tail(left))) = n - 1
      /\ \A i \in 1 .. n - 1 : SkippedBy(run, turn, Tail(left))[i]
                                 = ToolResult(run, turn, Tail(left)[i].id, "skipped")
  <2> DEFINE rest == Tail(left)
  <2>1. rest \in Calls /\ Len(rest) = n - 1
    BY <1>1
  <2> HIDE DEF rest
  <2>2. /\ Talk(SkippedBy(run, turn, rest)) /\ Len(SkippedBy(run, turn, rest)) = Len(rest)
        /\ \A i \in 1 .. Len(rest) : SkippedBy(run, turn, rest)[i]
                                      = ToolResult(run, turn, rest[i].id, "skipped")
    BY <2>1, SkippedAnswers
  <2>3. /\ Talk(SkippedBy(run, turn, rest)) /\ Len(SkippedBy(run, turn, rest)) = n - 1
        /\ \A i \in 1 .. n - 1 : SkippedBy(run, turn, rest)[i]
                                  = ToolResult(run, turn, rest[i].id, "skipped")
    BY <2>1, <2>2
  <2> QED BY <2>3 DEF rest
<1>5. Talk(<< answer >>) /\ Len(<< answer >>) = 1 /\ << answer >>[1] = answer
  BY ListsAreTalk
<1>6. /\ Len(h) \in Nat /\ Talk(g) /\ Len(g) = Len(h) + n
      /\ \A i \in 1 .. Len(h) : g[i] = h[i]
      /\ \A i \in 1 .. n : g[Len(h) + i] = ToolResult(run, turn, left[i].id, "skipped")
  <2>1. /\ Len(h) \in Nat /\ Talk(g) /\ Len(g) = Len(h) + Len(SkippedBy(run, turn, left))
        /\ \A i \in 1 .. Len(h) : g[i] = h[i]
        /\ \A i \in 1 .. Len(SkippedBy(run, turn, left)) :
             g[Len(h) + i] = SkippedBy(run, turn, left)[i]
    BY <1>3, Joined
  <2> HIDE DEF g
  <2> QED BY <1>3, <2>1
<1> DEFINE longer == h \o << answer >>
<1>7. /\ Talk(longer) /\ Len(longer) = Len(h) + 1
      /\ \A i \in 1 .. Len(h) : longer[i] = h[i]
      /\ longer[Len(h) + 1] = answer
  <2>1. /\ Talk(longer) /\ Len(longer) = Len(h) + Len(<< answer >>)
        /\ \A i \in 1 .. Len(h) : longer[i] = h[i]
        /\ \A i \in 1 .. Len(<< answer >>) : longer[Len(h) + i] = << answer >>[i]
    BY <1>5, Joined
  <2> HIDE DEF longer
  <2>2. 1 \in 1 .. Len(<< answer >>)
    BY <1>5
  <2>3. longer[Len(h) + 1] = << answer >>[1]
    BY <2>1, <2>2
  <2> QED BY <1>5, <2>1, <2>3
<1>8. /\ Talk(f) /\ Len(f) = Len(h) + 1 + (n - 1)
      /\ \A i \in 1 .. Len(h) + 1 : f[i] = longer[i]
      /\ \A i \in 1 .. n - 1 : f[Len(h) + 1 + i] = SkippedBy(run, turn, Tail(left))[i]
  <2>1. /\ Talk(f) /\ Len(f) = Len(longer) + Len(SkippedBy(run, turn, Tail(left)))
        /\ \A i \in 1 .. Len(longer) : f[i] = longer[i]
        /\ \A i \in 1 .. Len(SkippedBy(run, turn, Tail(left))) :
             f[Len(longer) + i] = SkippedBy(run, turn, Tail(left))[i]
    BY <1>4, <1>7, Joined
  <2> HIDE DEF f, longer
  <2> QED BY <1>4, <1>7, <2>1
<1> HIDE DEF f, g, longer, answer
<1>9. Len(f) = Len(g)
  BY <1>1, <1>6, <1>8
<1>10. ASSUME NEW i \in 1 .. Len(g)
       PROVE  \/ f[i] = g[i]
              \/ /\ f[i].role = "tool" /\ g[i].role = "tool"
                 /\ f[i].run = g[i].run /\ f[i].turn = g[i].turn /\ f[i].call = g[i].call
  <2>1. CASE i \in 1 .. Len(h)
    <3>1. i \in 1 .. Len(h) + 1
      BY <1>6, <2>1
    <3> QED BY <1>6, <1>7, <1>8, <2>1, <3>1
  <2>2. CASE i = Len(h) + 1
    <3>1. 1 \in 1 .. n /\ i \in 1 .. Len(h) + 1
      BY <1>1, <1>6, <2>2
    <3>2. f[i] = answer /\ g[i] = ToolResult(run, turn, left[1].id, "skipped")
      BY <1>6, <1>7, <1>8, <2>2, <3>1
    <3> QED BY <1>2, <3>2 DEF answer, ToolResult
  <2>3. CASE i \notin 1 .. Len(h) + 1
    <3> DEFINE k == i - Len(h) - 1
    <3>1. /\ k \in 1 .. n - 1 /\ k + 1 \in 1 .. n
          /\ Len(h) + 1 + k = i /\ Len(h) + (k + 1) = i
      BY <1>1, <1>6, <2>3
    <3> HIDE DEF k
    <3>2. f[i] = ToolResult(run, turn, left[k + 1].id, "skipped")
      <4>1. f[Len(h) + 1 + k] = SkippedBy(run, turn, Tail(left))[k]
        BY <1>8, <3>1
      <4>2. SkippedBy(run, turn, Tail(left))[k] = ToolResult(run, turn, Tail(left)[k].id, "skipped")
        BY <1>4, <3>1
      <4>3. Tail(left)[k] = left[k + 1]
        BY <1>1, <3>1
      <4> QED BY <3>1, <4>1, <4>2, <4>3
    <3>3. g[i] = ToolResult(run, turn, left[k + 1].id, "skipped")
      BY <1>6, <3>1
    <3> QED BY <3>2, <3>3
  <2>4. i \in 1 .. Len(h) \/ i = Len(h) + 1 \/ i \notin 1 .. Len(h) + 1
    BY <1>6
  <2> QED BY <2>1, <2>2, <2>3, <2>4
<1>11. Clear(g)
  BY DEF g
<1>12. Clear(f)
  BY <1>8, <1>9, <1>10, <1>11, ClearWhateverTheAnswer
<1> QED BY <1>12 DEF f, longer, answer

\* What is said and what is still owed stay clear together.
LEMMA AnsweringStep ==
  ASSUME TurnShape, Answering, [Next]_vars
  PROVE  Answering'
<1>1. /\ Talk(history) /\ Talk(working) /\ Talk(appended) /\ Talk(Transcript) /\ calls \in Calls
  BY Joined DEF TurnShape, Transcript
<1>2. /\ Clear(Transcript \o Owed)
      /\ pc # "idle" => Clear(working \o Owed) /\ Opened(working) /\ Opened(Transcript)
      /\ history # << >> => Opened(history)
  BY DEF Answering
<1>3. Talk(Owed)
  BY <1>1, SkippedAnswers DEF Owed
<1>4. calls = << >> => Owed = << >>
  BY NothingSkipped DEF Owed
<1>5. calls' = << >> => Owed' = << >>
  BY NothingSkipped DEF Owed
<1>6. ASSUME NEW messages, Talk(messages), Push(messages), history' = history, pc # "idle",
             Clear((Transcript \o messages) \o Owed'), Clear((working \o messages) \o Owed')
      PROVE  Answering'
  <2>1. Transcript' = Transcript \o messages /\ working' = working \o messages
    BY <1>6, PushJoins
  <2>2. Opened(Transcript \o messages) /\ Opened(working \o messages)
    BY <1>1, <1>2, <1>6, OpenedStays
  <2> QED BY <1>2, <1>6, <2>1, <2>2 DEF Answering
<1>7. CASE Silent
  <2>1. Transcript' = Transcript /\ Owed' = Owed
    BY <1>7 DEF Silent, Transcript, Owed
  <2> QED BY <1>2, <1>7, <2>1 DEF Silent, Answering
<1>8. CASE Begin
  <2> DEFINE greeting == IF history = << >> THEN << System("constitution") >> ELSE << >>
             opening == greeting \o << User(spent.runs + 1) >>
  <2>1. /\ pc = "idle" /\ history' = history /\ working' = history \o opening
        /\ appended' = opening /\ calls' = << >>
    BY <1>8 DEF Begin, Open
  <2>2. calls = << >> /\ appended = << >>
    BY <2>1 DEF TurnShape
  <2>3. Transcript \o Owed = history
    BY <1>1, <1>4, <2>2, JoinedWithNothing DEF Transcript
  <2>4. Clear(greeting)
    <3>1. System("constitution").role = "system"
      BY DEF System
    <3>2. Clear(<< System("constitution") >>) /\ Clear(<< >>)
      BY <3>1, ClearAlone, ListsAreTalk, ClearWithoutCalls
    <3> QED BY <3>2
  <2>5. Clear(<< User(spent.runs + 1) >>) /\ Talk(<< User(spent.runs + 1) >>)
    <3>1. User(spent.runs + 1).role = "user"
      BY DEF User
    <3> QED BY <3>1, ClearAlone, ListsAreTalk
  <2>6. Clear(opening) /\ Talk(opening)
    BY <2>4, <2>5, ClearJoined DEF Clear
  <2>7. Clear(history \o opening)
    BY <1>2, <2>3, <2>6, ClearJoined
  <2>8. Opened(history \o opening)
    <3>1. CASE history = << >>
      <4>1. Talk(<< System("constitution") >>) /\ << System("constitution") >>[1] = System("constitution")
            /\ << System("constitution") >> # << >>
        BY ListsAreTalk, TalkIsSequence
      <4>2. Opened(greeting)
        BY <3>1, <4>1 DEF Opened
      <4>3. Opened(opening)
        BY <2>4, <2>5, <4>2, OpenedStays DEF Clear
      <4>4. history \o opening = opening
        BY <2>6, <3>1, JoinedWithNothing
      <4> QED BY <4>3, <4>4
    <3>2. CASE history # << >>
      BY <1>1, <1>2, <2>6, <3>2, OpenedStays
    <3> QED BY <3>1, <3>2
  <2>9. /\ Transcript' = history \o opening
        /\ (history \o opening) \o Owed' = history \o opening
    <3>1. Talk(history \o opening)
      BY <2>7 DEF Clear
    <3>2. Owed' = << >>
      BY <1>5, <2>1
    <3>3. Transcript' = history \o opening
      BY <2>1 DEF Transcript
    <3> HIDE DEF opening
    <3> QED BY <3>1, <3>2, <3>3, JoinedWithNothing
  <2> HIDE DEF opening
  <2> QED BY <1>2, <2>1, <2>7, <2>8, <2>9 DEF Answering
<1>9. CASE Correct
  <2>1. /\ pc = "idle" /\ pc' = "idle" /\ history # << >> /\ calls' = calls /\ appended' = appended
        /\ history' = history \o << System("correction") >>
    BY <1>1, <1>9, AppendJoins DEF Correct, tally
  <2>2. calls = << >> /\ appended = << >>
    BY <2>1 DEF TurnShape
  <2>3. Transcript \o Owed = history
    BY <1>1, <1>4, <2>2, JoinedWithNothing DEF Transcript
  <2>4. Clear(<< System("correction") >>) /\ Talk(<< System("correction") >>)
    <3>1. System("correction").role = "system"
      BY DEF System
    <3> QED BY <3>1, ClearAlone, ListsAreTalk
  <2>5. Clear(history') /\ Opened(history')
    BY <1>1, <1>2, <2>1, <2>3, <2>4, ClearJoined, OpenedStays
  <2>6. Transcript' \o Owed' = history'
    <3>1. Owed' = << >> /\ Talk(history')
      BY <1>5, <2>1, <2>2, <2>5 DEF Clear
    <3>2. Transcript' = history'
      BY <2>1, <2>2, <3>1, JoinedWithNothing DEF Transcript
    <3> QED BY <3>1, <3>2, JoinedWithNothing
  <2> QED BY <2>1, <2>5, <2>6 DEF Answering
<1>10. CASE PrepareRequest
  <2>1. /\ pc = "top" /\ calls' = calls /\ history' = history /\ appended' = appended
        /\ working' = Prepare(working)
    BY <1>10 DEF PrepareRequest
  <2>2. calls = << >>
    BY <2>1 DEF TurnShape
  <2>3. Owed = << >> /\ Owed' = << >> /\ Transcript' = Transcript
    BY <1>4, <1>5, <2>1, <2>2 DEF Transcript
  <2>4. Clear(working) /\ Opened(working)
    BY <1>1, <1>2, <2>1, <2>3, JoinedWithNothing
  <2>5. Clear(Prepare(working)) /\ Opened(Prepare(working))
    <3>1. CASE Prepare(working) = working
      BY <2>4, <3>1
    <3>2. CASE Prepare(working) # working
      <4>1. CanCompact(working, ContextLimit) /\ Prepare(working) = Compacted(working, ContextLimit)
        BY <3>2 DEF Prepare
      <4>2. working[1] = System("constitution") /\ working[1].role = "system"
        BY <2>4 DEF Opened, System
      <4>3. /\ Clear(Compacted(working, ContextLimit))
            /\ Compacted(working, ContextLimit) # << >>
            /\ Compacted(working, ContextLimit)[1] = working[1]
        BY <2>4, <4>1, <4>2, CompactedIsClear
      <4> QED BY <4>1, <4>2, <4>3 DEF Opened
    <3> QED BY <3>1, <3>2
  <2>6. Prepare(working) \o << >> = Prepare(working)
    BY <2>5, JoinedWithNothing DEF Clear
  <2> QED BY <1>2, <2>1, <2>3, <2>5, <2>6 DEF Answering
<1>11. ASSUME NEW reply \in Replies, FinalReply(reply) \/ ToolReply(reply)
       PROVE  Answering'
  <2> DEFINE answers == SkippedBy(Run, turns, Numbered(reply.calls))
             spoken == << Spoken(reply) >>
  <2>1. reply \in Reply
    BY AgentTurnAssumption
  <2>2. Skipped(Numbered(reply.calls)) = answers
    BY DEF Skipped, SkippedBy
  <2>3. Clear(spoken \o answers) /\ Talk(spoken \o answers)
    BY <2>1, <2>2, ExchangeIsClear DEF Clear
  <2>4. Talk(spoken) /\ Talk(answers)
    BY <2>1, ListsAreTalk, RepliesAreNumbered, SkippedAnswers
  <2>5. pc = "wait" /\ history' = history /\ turns' = turns /\ Run' = Run
    BY <1>11 DEF FinalReply, ToolReply, bounds, Run
  <2>6. calls = << >>
    BY <2>5 DEF TurnShape
  <2>7. Clear(Transcript) /\ Clear(working)
    BY <1>1, <1>2, <1>4, <2>5, <2>6, JoinedWithNothing
  <2>8. Clear(Transcript \o (spoken \o answers)) /\ Clear(working \o (spoken \o answers))
    BY <2>3, <2>7, ClearJoined
  <2> HIDE DEF answers, spoken
  <2>9. CASE FinalReply(reply)
    <3>1. Push(spoken \o answers) /\ calls' = calls
      BY <2>2, <2>9 DEF FinalReply, spoken
    <3>2. Owed' = << >>
      BY <1>5, <2>6, <3>1
    <3>3. /\ (Transcript \o (spoken \o answers)) \o << >> = Transcript \o (spoken \o answers)
          /\ (working \o (spoken \o answers)) \o << >> = working \o (spoken \o answers)
      BY <2>8, JoinedWithNothing DEF Clear
    <3> QED BY <1>6, <2>3, <2>5, <2>8, <3>1, <3>2, <3>3
  <2>10. CASE ToolReply(reply)
    <3>1. Push(spoken) /\ calls' = Numbered(reply.calls)
      BY <2>10 DEF ToolReply, spoken
    <3>2. Owed' = answers
      BY <2>5, <3>1 DEF Owed, answers
    <3>3. /\ (Transcript \o spoken) \o answers = Transcript \o (spoken \o answers)
          /\ (working \o spoken) \o answers = working \o (spoken \o answers)
      <4>1. \A h : Talk(h) => (h \o spoken) \o answers = h \o (spoken \o answers)
        BY <2>4, Rejoined
      <4> QED BY <1>1, <4>1
    <3> QED BY <1>6, <2>4, <2>5, <2>8, <3>1, <3>2, <3>3
  <2> QED BY <1>11, <2>9, <2>10
<1>12. CASE StopBeforeCall
  <2>1. /\ pc = "next" /\ history' = history /\ calls' = << >> /\ Push(Owed)
    BY <1>12 DEF StopBeforeCall, Owed, Skipped, SkippedBy
  <2>2. /\ (Transcript \o Owed) \o << >> = Transcript \o Owed
        /\ (working \o Owed) \o << >> = working \o Owed
    BY <1>2, <2>1, JoinedWithNothing DEF Clear
  <2> QED BY <1>2, <1>3, <1>5, <1>6, <2>1, <2>2
<1>13. CASE calls # << >> /\ \E how : Answer(how)
  <2>1. PICK how : Answer(how)
    BY <1>13
  <2> DEFINE answer == << ToolResult(Run, turns, Head(calls).id, how) >>
  <2>2. Talk(answer)
    BY ListsAreTalk
  <2>3. /\ Push(answer) /\ history' = history /\ calls' = Tail(calls)
        /\ turns' = turns /\ Run' = Run
    BY <2>1 DEF Answer, Run
  <2>4. pc # "idle"
    BY <1>13 DEF TurnShape
  <2>5. Owed' = SkippedBy(Run, turns, Tail(calls))
    BY <2>3 DEF Owed
  <2>6. Clear((Transcript \o answer) \o Owed') /\ Clear((working \o answer) \o Owed')
    BY <1>1, <1>2, <1>13, <2>4, <2>5, OneCallLess DEF Owed
  <2> HIDE DEF answer
  <2> QED BY <1>6, <2>2, <2>3, <2>4, <2>6
<1>14. CASE Return
  <2>1. /\ pc = "return" /\ pc' = "idle" /\ history' = Transcript /\ appended' = << >> /\ calls' = calls
    BY <1>14 DEF Return, Transcript
  <2>2. calls = << >>
    BY <2>1 DEF TurnShape
  <2>3. Owed = << >> /\ Owed' = << >>
    BY <1>4, <1>5, <2>1, <2>2
  <2>4. Transcript' = Transcript
    BY <1>1, <2>1, JoinedWithNothing DEF Transcript
  <2> QED BY <1>2, <2>1, <2>3, <2>4 DEF Answering
<1> QED BY <1>7, <1>8, <1>9, <1>10, <1>11, <1>12, <1>13, <1>14, StepsThatSpeak

----------------------------------------------------------------------------
(* Counting messages.                                                      *)

\* Numbers that are all moved by the same distance are as many.
LEMMA MovedAreAsMany ==
  ASSUME NEW S \in SUBSET Int, IsFiniteSet(S), NEW n \in Int,
         NEW T, T = {n + i : i \in S}
  PROVE  IsFiniteSet(T) /\ Cardinality(T) = Cardinality(S)
<1> DEFINE f == [i \in S |-> n + i]
<1>1. f \in [S -> T]
  OBVIOUS
<1>2. \A i, j \in S : f[i] = f[j] => i = j
  OBVIOUS
<1>3. \A t \in T : \E i \in S : f[i] = t
  OBVIOUS
<1> HIDE DEF f
<1>4. f \in Bijection(S, T)
  BY <1>1, <1>2, <1>3 DEF Bijection, Injection, Surjection, IsInjective
<1>5. ExistsBijection(S, T)
  BY <1>4 DEF ExistsBijection
<1> QED BY <1>5, FS_Bijection

\* The places up to n of messages in one of some roles.
Places(h, n, roles) == {i \in 1 .. n : h[i].role \in roles}

\* They are finitely many.
LEMMA PlacesAreCounted ==
  ASSUME NEW h, NEW n \in Nat, NEW roles
  PROVE  IsFiniteSet(Places(h, n, roles)) /\ Cardinality(Places(h, n, roles)) \in Nat
<1>1. IsFiniteSet(1 .. n)
  BY FS_Interval
<1>2. Places(h, n, roles) \in SUBSET (1 .. n)
  BY DEF Places
<1>3. IsFiniteSet(Places(h, n, roles))
  BY <1>1, <1>2, FS_Subset
<1> QED BY <1>3, FS_CardinalityType

\* Those of a joined conversation are those of its parts.
LEMMA PlacesJoined ==
  ASSUME NEW g, NEW h, Talk(g), Talk(h), NEW roles
  PROVE  /\ \A n \in 0 .. Len(g) : Places(g \o h, n, roles) = Places(g, n, roles)
         /\ \A n \in 0 .. Len(h) :
              Cardinality(Places(g \o h, Len(g) + n, roles))
                = Cardinality(Places(g, Len(g), roles)) + Cardinality(Places(h, n, roles))
<1> DEFINE both == g \o h
<1>1. /\ Len(g) \in Nat /\ Len(h) \in Nat
      /\ \A i \in 1 .. Len(g) : both[i] = g[i]
      /\ \A i \in 1 .. Len(h) : both[Len(g) + i] = h[i]
  BY Joined
<1> HIDE DEF both
<1>2. ASSUME NEW n \in 0 .. Len(g)
      PROVE  Places(both, n, roles) = Places(g, n, roles)
  <2>1. \A i \in 1 .. n : both[i] = g[i]
    BY <1>1
  <2> QED BY <2>1 DEF Places
<1>3. ASSUME NEW n \in 0 .. Len(h)
      PROVE  Cardinality(Places(both, Len(g) + n, roles))
               = Cardinality(Places(g, Len(g), roles)) + Cardinality(Places(h, n, roles))
  <2> DEFINE front == Places(g, Len(g), roles)
             back == {Len(g) + i : i \in Places(h, n, roles)}
  <2>1. /\ IsFiniteSet(front) /\ Cardinality(front) \in Nat
        /\ IsFiniteSet(Places(h, n, roles)) /\ Cardinality(Places(h, n, roles)) \in Nat
    BY <1>1, PlacesAreCounted
  <2>2. Places(h, n, roles) \in SUBSET Int
    BY DEF Places
  <2>3. IsFiniteSet(back) /\ Cardinality(back) = Cardinality(Places(h, n, roles))
    <3>1. Len(g) \in Int /\ back = {Len(g) + i : i \in Places(h, n, roles)}
      BY <1>1
    <3> HIDE DEF back
    <3> QED BY <2>1, <2>2, <3>1, MovedAreAsMany
  <2>4. \A i : i \in Places(both, Len(g) + n, roles) <=> i \in front \/ i \in back
    <3>1. ASSUME NEW i \in 1 .. Len(g)
          PROVE  i \in Places(both, Len(g) + n, roles) <=> i \in front
      BY <1>1, <3>1 DEF Places
    <3>2. ASSUME NEW i \in 1 .. n
          PROVE  Len(g) + i \in Places(both, Len(g) + n, roles) <=> i \in Places(h, n, roles)
      BY <1>1, <3>2 DEF Places
    <3>3. front \in SUBSET (1 .. Len(g)) /\ Places(h, n, roles) \in SUBSET (1 .. n)
      BY DEF Places
    <3>4. Places(both, Len(g) + n, roles) \in SUBSET (1 .. Len(g) + n)
      BY DEF Places
    <3>5. ASSUME NEW i \in Places(both, Len(g) + n, roles)
          PROVE  i \in front \/ i \in back
      <4>1. CASE i <= Len(g)
        BY <1>1, <3>1, <3>4, <4>1
      <4>2. CASE ~(i <= Len(g))
        <5>1. i - Len(g) \in 1 .. n /\ Len(g) + (i - Len(g)) = i
          BY <1>1, <3>4, <4>2
        <5>2. i - Len(g) \in Places(h, n, roles)
          BY <3>2, <5>1
        <5> QED BY <5>1, <5>2
      <4> QED BY <4>1, <4>2
    <3>6. ASSUME NEW i \in front
          PROVE  i \in Places(both, Len(g) + n, roles)
      BY <3>1, <3>3
    <3>7. ASSUME NEW i \in back
          PROVE  i \in Places(both, Len(g) + n, roles)
      BY <3>2, <3>3
    <3> QED BY <3>5, <3>6, <3>7
  <2>5. front \cap back = {}
    <3>1. \A i \in front : i <= Len(g)
      BY <1>1 DEF Places
    <3>2. \A i \in back : ~(i <= Len(g))
      BY <1>1 DEF Places
    <3> QED BY <3>1, <3>2
  <2> HIDE DEF front, back
  <2>6. Places(both, Len(g) + n, roles) = front \cup back
    BY <2>4
  <2>7. Cardinality(front \cap back) = 0
    BY <2>5, FS_EmptySet
  <2>8. Cardinality(front \cup back) = Cardinality(front) + Cardinality(back) - Cardinality(front \cap back)
    BY <2>1, <2>3, FS_Union
  <2>9. Cardinality(front \cup back) = Cardinality(front) + Cardinality(Places(h, n, roles))
    BY <2>1, <2>3, <2>7, <2>8
  <2> QED BY <2>6, <2>9 DEF front
<1> QED BY <1>2, <1>3 DEF both

\* The dialogue of a joined conversation is that of its parts.
LEMMA DialogueJoined ==
  ASSUME NEW g, NEW h, Talk(g), Talk(h)
  PROVE  /\ Cardinality(Dialogue(g)) \in Nat
         /\ Cardinality(Dialogue(g \o h)) = Cardinality(Dialogue(g)) + Cardinality(Dialogue(h))
<1> DEFINE roles == {"user", "assistant", "tool"}
<1>1. \A f : Dialogue(f) = Places(f, Len(f), roles)
  BY DEF Dialogue, Places
<1>2. Len(g) \in Nat /\ Len(h) \in Nat /\ Len(g \o h) = Len(g) + Len(h)
  BY Joined
<1>3. Len(h) \in 0 .. Len(h)
  BY <1>2
<1> HIDE DEF roles
<1>4. /\ Cardinality(Places(g, Len(g), roles)) \in Nat
      /\ Cardinality(Places(g \o h, Len(g) + Len(h), roles))
           = Cardinality(Places(g, Len(g), roles)) + Cardinality(Places(h, Len(h), roles))
  BY <1>2, <1>3, PlacesAreCounted, PlacesJoined
<1> QED BY <1>1, <1>2, <1>4

\* A conversation of system messages and notices has none.
LEMMA NoDialogue ==
  ASSUME NEW h, Talk(h), \A i \in 1 .. Len(h) : h[i].role \in {"system", "marker"}
  PROVE  Cardinality(Dialogue(h)) = 0
<1>1. Dialogue(h) = {}
  BY DEF Dialogue
<1> QED BY <1>1, FS_EmptySet

----------------------------------------------------------------------------
(* Corrections.                                                            *)

\* A system message is the correction whose number is that of the system
\* messages up to it.
LEMMA CorrectionFound ==
  ASSUME NEW h, Talk(h), NEW i \in 1 .. Len(h), h[i].role = "system"
  PROVE  /\ Cardinality(SystemUpTo(h, i)) \in 1 .. Len(Corrections(h))
         /\ Corrections(h)[Cardinality(SystemUpTo(h, i))] = h[i]
<1> DEFINE k == Cardinality(SystemUpTo(h, i))
<1>1. Len(h) \in Nat
  BY TalkIsSequence
<1>2. \A j \in 1 .. Len(h) : /\ IsFiniteSet(SystemUpTo(h, j))
                             /\ Cardinality(SystemUpTo(h, j)) \in Nat
  <2>1. \A j \in 1 .. Len(h) : SystemUpTo(h, j) = Places(h, j, {"system"})
    BY DEF SystemUpTo, Places
  <2> QED BY <2>1, PlacesAreCounted
<1>3. ASSUME NEW a \in 1 .. Len(h), NEW b \in 1 .. Len(h), a < b, h[b].role = "system"
      PROVE  Cardinality(SystemUpTo(h, a)) < Cardinality(SystemUpTo(h, b))
  <2>1. SystemUpTo(h, a) \in SUBSET SystemUpTo(h, b)
    BY <1>1, <1>3 DEF SystemUpTo
  <2>2. b \in SystemUpTo(h, b) /\ b \notin SystemUpTo(h, a)
    BY <1>1, <1>3 DEF SystemUpTo
  <2>3. /\ Cardinality(SystemUpTo(h, a)) <= Cardinality(SystemUpTo(h, b))
        /\ Cardinality(SystemUpTo(h, a)) # Cardinality(SystemUpTo(h, b))
    BY <1>2, <2>1, <2>2, FS_Subset
  <2> QED BY <1>2, <2>3
<1>4. k # 0
  <2>1. i \in SystemUpTo(h, i)
    BY <1>1 DEF SystemUpTo
  <2> QED BY <1>2, <2>1, FS_EmptySet
<1>5. Len(Corrections(h)) = Cardinality(SystemUpTo(h, Len(h))) /\ Len(h) \in 1 .. Len(h)
  BY <1>1, CorrectionsAreSystem
<1>6. k <= Cardinality(SystemUpTo(h, Len(h)))
  <2>1. SystemUpTo(h, i) \in SUBSET SystemUpTo(h, Len(h))
    BY <1>1 DEF SystemUpTo
  <2> QED BY <1>2, <1>5, <2>1, FS_Subset
<1>7. k \in 1 .. Len(Corrections(h))
  BY <1>2, <1>4, <1>5, <1>6
<1>8. PICK j \in 1 .. Len(h) : /\ h[j].role = "system" /\ Corrections(h)[k] = h[j]
                               /\ Cardinality(SystemUpTo(h, j)) = k
  BY <1>7, CorrectionsAreSystem
<1>9. ~(j < i) /\ ~(i < j)
  BY <1>2, <1>3, <1>8
<1>10. j = i
  BY <1>1, <1>9
<1> QED BY <1>7, <1>8, <1>10

\* The corrections of a joined conversation are those of its parts.
LEMMA CorrectionsJoined ==
  ASSUME NEW g, NEW h, Talk(g), Talk(h)
  PROVE  Corrections(g \o h) = Corrections(g) \o Corrections(h)
<1> DEFINE both == g \o h
           parts == Corrections(g) \o Corrections(h)
<1>1. /\ Talk(both) /\ Len(g) \in Nat /\ Len(h) \in Nat /\ Len(both) = Len(g) + Len(h)
      /\ \A i \in 1 .. Len(g) : both[i] = g[i]
      /\ \A i \in 1 .. Len(h) : both[Len(g) + i] = h[i]
  BY Joined
<1>2. \A f, n : SystemUpTo(f, n) = Places(f, n, {"system"})
  BY DEF SystemUpTo, Places
<1>3. /\ \A i \in 1 .. Len(g) : SystemUpTo(both, i) = SystemUpTo(g, i)
      /\ \A i \in 0 .. Len(h) :
           Cardinality(SystemUpTo(both, Len(g) + i))
             = Cardinality(SystemUpTo(g, Len(g))) + Cardinality(SystemUpTo(h, i))
  BY <1>1, <1>2, PlacesJoined
<1> HIDE DEF both
<1>4. \A f \in {g, h, both} :
        /\ Talk(f) /\ Talk(Corrections(f)) /\ Len(Corrections(f)) \in Nat
        /\ Len(Corrections(f)) = Cardinality(SystemUpTo(f, Len(f)))
  BY <1>1, CorrectionsAreSystem, TalkIsSequence
<1>5. Len(Corrections(both)) = Len(Corrections(g)) + Len(Corrections(h))
  <2>1. Len(h) \in 0 .. Len(h)
    BY <1>1
  <2> QED BY <1>1, <1>3, <1>4, <2>1
<1>6. /\ Talk(parts) /\ Len(parts) = Len(Corrections(g)) + Len(Corrections(h))
      /\ \A k \in 1 .. Len(Corrections(g)) : parts[k] = Corrections(g)[k]
      /\ \A k \in 1 .. Len(Corrections(h)) : parts[Len(Corrections(g)) + k] = Corrections(h)[k]
  BY <1>4, Joined
<1> HIDE DEF parts
<1>7. ASSUME NEW k \in 1 .. Len(Corrections(both))
      PROVE  Corrections(both)[k] = parts[k]
  <2>1. PICK i \in 1 .. Len(both) : /\ both[i].role = "system" /\ Corrections(both)[k] = both[i]
                                    /\ Cardinality(SystemUpTo(both, i)) = k
    BY <1>1, CorrectionsAreSystem
  <2>2. CASE i <= Len(g)
    <3>1. i \in 1 .. Len(g) /\ both[i] = g[i] /\ Cardinality(SystemUpTo(g, i)) = k
      BY <1>1, <1>3, <2>1, <2>2
    <3>2. k \in 1 .. Len(Corrections(g)) /\ Corrections(g)[k] = g[i]
      BY <2>1, <3>1, CorrectionFound
    <3> QED BY <1>6, <2>1, <3>1, <3>2
  <2>3. CASE ~(i <= Len(g))
    <3>1. i - Len(g) \in 1 .. Len(h) /\ i - Len(g) \in 0 .. Len(h) /\ Len(g) + (i - Len(g)) = i
      BY <1>1, <2>3
    <3> DEFINE j == i - Len(g)
               m == Cardinality(SystemUpTo(h, j))
    <3>2. both[i] = h[j] /\ k = Len(Corrections(g)) + m
      BY <1>1, <1>3, <1>4, <2>1, <3>1
    <3>3. m \in 1 .. Len(Corrections(h)) /\ Corrections(h)[m] = h[j]
      BY <2>1, <3>1, <3>2, CorrectionFound
    <3>4. parts[Len(Corrections(g)) + m] = Corrections(h)[m]
      BY <1>6, <3>3
    <3> QED BY <2>1, <3>2, <3>3, <3>4
  <2> QED BY <2>2, <2>3
<1>8. Corrections(both) = parts
  BY <1>4, <1>5, <1>6, <1>7, SameTalk
<1> QED BY <1>8 DEF both, parts

\* System messages are their own corrections.
LEMMA CorrectionsOfSystem ==
  ASSUME NEW h, Talk(h), \A i \in 1 .. Len(h) : h[i].role = "system"
  PROVE  Corrections(h) = h
<1>1. Len(h) \in Nat
  BY TalkIsSequence
<1>2. ASSUME NEW i \in 0 .. Len(h)
      PROVE  Cardinality(SystemUpTo(h, i)) = i
  <2>1. SystemUpTo(h, i) = 1 .. i
    BY <1>1 DEF SystemUpTo
  <2>2. Cardinality(1 .. i) = IF 1 > i THEN 0 ELSE i - 1 + 1
    BY <1>1, FS_Interval
  <2> QED BY <1>1, <2>1, <2>2
<1>3. Talk(Corrections(h)) /\ Len(Corrections(h)) = Len(h)
  <2>1. Len(h) \in 0 .. Len(h)
    BY <1>1
  <2> QED BY <1>2, <2>1, CorrectionsAreSystem
<1>4. ASSUME NEW i \in 1 .. Len(h)
      PROVE  Corrections(h)[i] = h[i]
  <2>1. Cardinality(SystemUpTo(h, i)) = i
    BY <1>1, <1>2
  <2> QED BY <2>1, CorrectionFound
<1> QED BY <1>3, <1>4, SameTalk

\* Where there are no system messages there are no corrections.
LEMMA NoCorrections ==
  ASSUME NEW h, Talk(h), \A i \in 1 .. Len(h) : h[i].role # "system"
  PROVE  Corrections(h) = << >>
<1>1. SystemUpTo(h, Len(h)) = {}
  BY DEF SystemUpTo
<1>2. Len(Corrections(h)) = 0 /\ Talk(Corrections(h))
  BY <1>1, CorrectionsAreSystem, FS_EmptySet
<1> QED BY <1>2, TalkIsSequence

----------------------------------------------------------------------------
(* What the notices stand for.                                             *)

\* Messages that a message stands for, besides itself.
Standing(m) == IF m.role = "marker" THEN m.elided ELSE 0

\* All notices give a number.
Counted(h) == \A i \in 1 .. Len(h) : Standing(h[i]) \in Nat

\* The sums over the first messages.
Sums(h, n, f) ==
  /\ f \in [0 .. n -> Nat]
  /\ f[0] = 0
  /\ \A k \in 1 .. n : f[k] = f[k - 1] + Standing(h[k])

\* There are such sums.
LEMMA SumsExist ==
  ASSUME NEW h, Len(h) \in Nat, Counted(h)
  PROVE  \E f : Sums(h, Len(h), f)
<1> DEFINE unknown == {m \in 0 .. Len(h) : ~\E f : Sums(h, m, f)}
<1>1. ASSUME unknown # {}
      PROVE  FALSE
  <2>1. unknown \in SUBSET (0 .. Len(h))
    OBVIOUS
  <2>2. PICK m \in unknown : \A j \in unknown : m <= j
    BY <1>1, <2>1, Extremes
  <2>3. CASE m = 0
    <3> DEFINE f == [k \in 0 .. 0 |-> 0]
    <3>1. Sums(h, 0, f)
      BY DEF Sums
    <3> QED BY <2>2, <2>3, <3>1
  <2>4. CASE m # 0
    <3>1. m - 1 \in 0 .. Len(h) /\ ~(m <= m - 1) /\ m \in 1 .. Len(h) /\ m \in Nat
      BY <2>2, <2>4
    <3>2. PICK f : Sums(h, m - 1, f)
      BY <2>2, <3>1
    <3> DEFINE g == [k \in 0 .. m |-> IF k = m THEN f[m - 1] + Standing(h[m]) ELSE f[k]]
    <3>3. /\ f \in [0 .. m - 1 -> Nat] /\ f[0] = 0
          /\ \A k \in 1 .. m - 1 : f[k] = f[k - 1] + Standing(h[k])
      BY <3>2 DEF Sums
    <3>4. f[m - 1] \in Nat /\ Standing(h[m]) \in Nat
      BY <3>1, <3>3 DEF Counted
    <3>5. g[m] = f[m - 1] + Standing(h[m]) /\ \A k \in 0 .. m - 1 : g[k] = f[k]
      BY <3>1
    <3>6. g \in [0 .. m -> Nat]
      <4>1. \A k \in 0 .. m : k = m \/ k \in 0 .. m - 1
        BY <3>1
      <4>2. \A k \in 0 .. m : (IF k = m THEN f[m - 1] + Standing(h[m]) ELSE f[k]) \in Nat
        <5> DEFINE last == f[m - 1] + Standing(h[m])
        <5>1. last \in Nat
          BY <3>4
        <5>2. \A k \in 0 .. m - 1 : f[k] \in Nat
          BY <3>3
        <5> HIDE DEF last
        <5>3. \A k \in 0 .. m : (IF k = m THEN last ELSE f[k]) \in Nat
          BY <4>1, <5>1, <5>2, Zenon
        <5> QED BY <5>3 DEF last
      <4> QED BY <4>2
    <3> HIDE DEF g
    <3>7. ASSUME NEW k \in 1 .. m
          PROVE  g[k] = g[k - 1] + Standing(h[k])
      <4>1. CASE k = m
        BY <3>1, <3>5, <4>1
      <4>2. CASE k # m
        <5>1. k \in 1 .. m - 1 /\ k \in 0 .. m - 1 /\ k - 1 \in 0 .. m - 1
          BY <3>1, <4>2
        <5> QED BY <3>3, <3>5, <5>1
      <4> QED BY <4>1, <4>2
    <3>8. g[0] = 0
      BY <3>1, <3>3, <3>5
    <3>9. Sums(h, m, g)
      BY <3>6, <3>7, <3>8 DEF Sums
    <3> QED BY <2>2, <3>9
  <2> QED BY <2>3, <2>4
<1>2. Len(h) \in 0 .. Len(h)
  OBVIOUS
<1> QED BY <1>1, <1>2

\* Elided is the sum over all messages.
LEMMA ElidedIsSum ==
  ASSUME NEW h, Len(h) \in Nat, NEW f, Sums(h, Len(h), f)
  PROVE  Elided(h) = f[Len(h)] /\ Elided(h) \in Nat
<1> DEFINE step(g) == [n \in 0 .. Len(h) |->
                         IF n = 0 THEN 0
                                  ELSE g[n - 1] + IF h[n].role = "marker" THEN h[n].elided ELSE 0]
           upTo == CHOOSE g : g = step(g)
           differ == {k \in 0 .. Len(h) : f[k] # upTo[k]}
<1>1. Elided(h) = upTo[Len(h)]
  BY DEF Elided
<1>2. /\ f \in [0 .. Len(h) -> Nat] /\ f[0] = 0
      /\ \A k \in 1 .. Len(h) : f[k] = f[k - 1] + IF h[k].role = "marker" THEN h[k].elided ELSE 0
  BY DEF Sums, Standing
<1>3. f = step(f)
  <2>1. \A k \in 0 .. Len(h) : k = 0 \/ k \in 1 .. Len(h)
    OBVIOUS
  <2>2. \A k \in 0 .. Len(h) :
          f[k] = IF k = 0 THEN 0
                          ELSE f[k - 1] + IF h[k].role = "marker" THEN h[k].elided ELSE 0
    BY <1>2, <2>1
  <2> QED BY <1>2, <2>2
<1>4. upTo = step(upTo)
  BY <1>3
<1> HIDE DEF upTo
<1>5. /\ upTo[0] = 0
      /\ \A k \in 1 .. Len(h) :
           upTo[k] = upTo[k - 1] + IF h[k].role = "marker" THEN h[k].elided ELSE 0
  <2>1. \A k \in 1 .. Len(h) : k \in 0 .. Len(h) /\ k # 0
    OBVIOUS
  <2> QED BY <1>4, <2>1
<1>6. ASSUME differ # {}
      PROVE  FALSE
  <2>1. differ \in SUBSET (0 .. Len(h))
    OBVIOUS
  <2>2. PICK j \in differ : \A k \in differ : j <= k
    BY <1>6, <2>1, Extremes
  <2>3. j # 0
    BY <1>2, <1>5, <2>2
  <2>4. j \in 1 .. Len(h) /\ j - 1 \in 0 .. Len(h) /\ ~(j <= j - 1)
    BY <2>2, <2>3
  <2>5. f[j - 1] = upTo[j - 1]
    BY <2>2, <2>4
  <2> QED BY <1>2, <1>5, <2>2, <2>4, <2>5
<1>7. Len(h) \in 0 .. Len(h)
  OBVIOUS
<1> QED BY <1>1, <1>2, <1>6, <1>7

\* The notices of a joined conversation are those of its parts.
LEMMA ElidedJoined ==
  ASSUME NEW g, NEW h, Talk(g), Talk(h), Counted(g), Counted(h)
  PROVE  /\ Elided(g) \in Nat /\ Elided(h) \in Nat
         /\ Counted(g \o h) /\ Elided(g \o h) = Elided(g) + Elided(h)
<1> DEFINE both == g \o h
<1>1. /\ Talk(both) /\ Len(g) \in Nat /\ Len(h) \in Nat /\ Len(both) = Len(g) + Len(h)
      /\ \A i \in 1 .. Len(g) : both[i] = g[i]
      /\ \A i \in 1 .. Len(h) : both[Len(g) + i] = h[i]
  BY Joined
<1> HIDE DEF both
<1>2. PICK f : Sums(g, Len(g), f)
  BY <1>1, SumsExist
<1>3. PICK e : Sums(h, Len(h), e)
  BY <1>1, SumsExist
<1>4. /\ f \in [0 .. Len(g) -> Nat] /\ f[0] = 0
      /\ \A k \in 1 .. Len(g) : f[k] = f[k - 1] + Standing(g[k])
      /\ e \in [0 .. Len(h) -> Nat] /\ e[0] = 0
      /\ \A k \in 1 .. Len(h) : e[k] = e[k - 1] + Standing(h[k])
  BY <1>2, <1>3 DEF Sums
<1> DEFINE sum == [k \in 0 .. Len(both) |-> IF k <= Len(g) THEN f[k] ELSE f[Len(g)] + e[k - Len(g)]]
<1>5. /\ \A k \in 0 .. Len(g) : k \in 0 .. Len(both) /\ k <= Len(g)
      /\ \A k \in 0 .. Len(both) : ~(k <= Len(g)) => k - Len(g) \in 1 .. Len(h)
      /\ \A k \in 1 .. Len(h) : k \in 0 .. Len(h) /\ k - 1 \in 0 .. Len(h)
      /\ Len(g) \in 0 .. Len(g)
  BY <1>1
<1>6. sum \in [0 .. Len(both) -> Nat]
  <2>1. ASSUME NEW k \in 0 .. Len(both)
        PROVE  (IF k <= Len(g) THEN f[k] ELSE f[Len(g)] + e[k - Len(g)]) \in Nat
    <3>1. CASE k <= Len(g)
      <4>1. k \in 0 .. Len(g)
        BY <1>1, <3>1
      <4> QED BY <1>4, <3>1, <4>1
    <3>2. CASE ~(k <= Len(g))
      <4>1. k - Len(g) \in 1 .. Len(h) /\ k - Len(g) \in 0 .. Len(h)
        BY <1>5, <3>2
      <4>2. f[Len(g)] \in Nat /\ e[k - Len(g)] \in Nat
        BY <1>4, <1>5, <4>1
      <4>3. f[Len(g)] + e[k - Len(g)] \in Nat
        BY <4>2
      <4> QED BY <3>2, <4>3
    <3> QED BY <3>1, <3>2
  <2> QED BY <2>1
<1>7. /\ \A k \in 0 .. Len(g) : sum[k] = f[k]
      /\ \A k \in 0 .. Len(h) : sum[Len(g) + k] = f[Len(g)] + e[k]
  <2>1. \A k \in 0 .. Len(g) : sum[k] = f[k]
    BY <1>5
  <2>2. ASSUME NEW k \in 0 .. Len(h)
        PROVE  sum[Len(g) + k] = f[Len(g)] + e[k]
    <3>1. CASE k = 0
      BY <1>1, <1>4, <1>5, <2>1, <3>1
    <3>2. CASE k # 0
      <4>1. Len(g) + k \in 0 .. Len(both) /\ ~(Len(g) + k <= Len(g)) /\ (Len(g) + k) - Len(g) = k
        BY <1>1, <3>2
      <4> QED BY <4>1
    <3> QED BY <3>1, <3>2
  <2> QED BY <2>1, <2>2
<1> HIDE DEF sum
<1>8. ASSUME NEW k \in 1 .. Len(both)
      PROVE  sum[k] = sum[k - 1] + Standing(both[k]) /\ Standing(both[k]) \in Nat
  <2>1. CASE k <= Len(g)
    <3>1. k \in 1 .. Len(g) /\ k \in 0 .. Len(g) /\ k - 1 \in 0 .. Len(g)
      BY <1>1, <2>1
    <3> QED BY <1>1, <1>4, <1>7, <3>1 DEF Counted
  <2>2. CASE ~(k <= Len(g))
    <3>1. PICK j \in 1 .. Len(h) : k = Len(g) + j /\ k - 1 = Len(g) + (j - 1)
      <4>1. k - Len(g) \in 1 .. Len(h) /\ k = Len(g) + (k - Len(g))
              /\ k - 1 = Len(g) + ((k - Len(g)) - 1)
        BY <1>1, <2>2
      <4> QED BY <4>1
    <3>2. j \in 0 .. Len(h) /\ j - 1 \in 0 .. Len(h) /\ Standing(h[j]) \in Nat
      BY <1>5 DEF Counted
    <3>3. sum[k] = f[Len(g)] + e[j] /\ sum[k - 1] = f[Len(g)] + e[j - 1] /\ both[k] = h[j]
      BY <1>1, <1>7, <3>1, <3>2
    <3>4. e[j] = e[j - 1] + Standing(h[j])
      BY <1>4
    <3>5. f[Len(g)] \in Nat /\ e[j - 1] \in Nat
      BY <1>4, <1>5, <3>2
    <3> QED BY <3>2, <3>3, <3>4, <3>5
  <2> QED BY <2>1, <2>2
<1>9. sum[0] = 0
  BY <1>1, <1>4, <1>7
<1>10. Sums(both, Len(both), sum)
  BY <1>6, <1>8, <1>9 DEF Sums
<1>11. Elided(both) = sum[Len(both)]
  <2>1. Len(both) \in Nat
    BY <1>1
  <2> QED BY <1>10, <2>1, ElidedIsSum
<1>12. Elided(g) = f[Len(g)] /\ Elided(h) = e[Len(h)] /\ Elided(g) \in Nat /\ Elided(h) \in Nat
  BY <1>1, <1>2, <1>3, ElidedIsSum
<1>13. sum[Len(both)] = f[Len(g)] + e[Len(h)]
  <2>1. Len(h) \in 0 .. Len(h)
    BY <1>1
  <2> QED BY <1>1, <1>7, <2>1
<1>14. Counted(both)
  BY <1>8 DEF Counted
<1> QED BY <1>11, <1>12, <1>13, <1>14 DEF both

\* Without notices nothing is elided.
NoNotice(h) == \A i \in 1 .. Len(h) : h[i].role # "marker"

LEMMA NothingElided ==
  ASSUME NEW h, Talk(h), NoNotice(h)
  PROVE  Counted(h) /\ Elided(h) = 0
<1> DEFINE f == [k \in 0 .. Len(h) |-> 0]
<1>1. Len(h) \in Nat
  BY TalkIsSequence
<1>2. \A k \in 1 .. Len(h) : Standing(h[k]) = 0
  BY DEF NoNotice, Standing
<1>3. Sums(h, Len(h), f)
  <2>1. \A k \in 1 .. Len(h) : k \in 0 .. Len(h) /\ k - 1 \in 0 .. Len(h)
    BY <1>1
  <2>2. f \in [0 .. Len(h) -> Nat] /\ f[0] = 0
    BY <1>1
  <2> QED BY <1>2, <2>1, <2>2 DEF Sums
<1>4. Elided(h) = f[Len(h)] /\ f[Len(h)] = 0
  BY <1>1, <1>3, ElidedIsSum
<1>5. Counted(h)
  BY <1>2 DEF Counted
<1> QED BY <1>4, <1>5

\* A notice stands for what it counts.
LEMMA NoticeCounts ==
  ASSUME NEW count \in Nat
  PROVE  Counted(<< Marker(count) >>) /\ Elided(<< Marker(count) >>) = count
<1> DEFINE h == << Marker(count) >>
           f == [k \in 0 .. 1 |-> IF k = 0 THEN 0 ELSE count]
<1>1. Talk(h) /\ Len(h) = 1 /\ h[1] = Marker(count)
  BY ListsAreTalk
<1> HIDE DEF h
<1>2. \A k \in 1 .. 1 : Standing(h[k]) = count
  BY <1>1 DEF Standing, Marker
<1>3. Sums(h, 1, f)
  <2>1. f \in [0 .. 1 -> Nat] /\ f[0] = 0 /\ f[1] = count
    OBVIOUS
  <2>2. \A k \in 1 .. 1 : k = 1 /\ k - 1 = 0
    OBVIOUS
  <2> HIDE DEF f
  <2>3. \A k \in 1 .. 1 : f[k] = f[k - 1] + Standing(h[k])
    BY <1>2, <2>1, <2>2
  <2> QED BY <2>1, <2>3 DEF Sums
<1>4. Elided(h) = f[1]
  BY <1>1, <1>3, ElidedIsSum
<1>5. Counted(h)
  BY <1>1, <1>2 DEF Counted
<1> QED BY <1>4, <1>5 DEF h

----------------------------------------------------------------------------
(* The last user turns.                                                    *)

\* The last n messages are the same.
EndsAlike(w, t, n) ==
  /\ n <= Len(w) /\ n <= Len(t)
  /\ \A d \in 0 .. n - 1 : w[Len(w) - d] = t[Len(t) - d]

\* They still are when both go on alike.
LEMMA EndsAlikeJoined ==
  ASSUME NEW w, NEW t, NEW m, Talk(w), Talk(t), Talk(m), NEW n \in Nat, EndsAlike(w, t, n)
  PROVE  EndsAlike(w \o m, t \o m, n + Len(m))
<1>1. /\ Len(w) \in Nat /\ Len(t) \in Nat /\ Len(m) \in Nat
      /\ Len(w \o m) = Len(w) + Len(m) /\ Len(t \o m) = Len(t) + Len(m)
      /\ \A i \in 1 .. Len(w) : (w \o m)[i] = w[i]
      /\ \A i \in 1 .. Len(t) : (t \o m)[i] = t[i]
      /\ \A i \in 1 .. Len(m) : (w \o m)[Len(w) + i] = m[i] /\ (t \o m)[Len(t) + i] = m[i]
  BY Joined
<1>2. /\ n <= Len(w) /\ n <= Len(t)
      /\ \A d \in 0 .. n - 1 : w[Len(w) - d] = t[Len(t) - d]
  BY DEF EndsAlike
<1>3. ASSUME NEW d \in 0 .. n + Len(m) - 1
      PROVE  (w \o m)[Len(w) + Len(m) - d] = (t \o m)[Len(t) + Len(m) - d]
  <2>1. CASE d < Len(m)
    <3>1. /\ Len(m) - d \in 1 .. Len(m)
          /\ Len(w) + Len(m) - d = Len(w) + (Len(m) - d)
          /\ Len(t) + Len(m) - d = Len(t) + (Len(m) - d)
      BY <1>1, <2>1
    <3> QED BY <1>1, <3>1
  <2>2. CASE ~(d < Len(m))
    <3>1. /\ d - Len(m) \in 0 .. n - 1
          /\ Len(w) + Len(m) - d = Len(w) - (d - Len(m))
          /\ Len(t) + Len(m) - d = Len(t) - (d - Len(m))
          /\ Len(w) - (d - Len(m)) \in 1 .. Len(w)
          /\ Len(t) - (d - Len(m)) \in 1 .. Len(t)
      BY <1>1, <1>2, <2>2
    <3> QED BY <1>1, <1>2, <3>1
  <2> QED BY <2>1, <2>2
<1>4. n + Len(m) <= Len(w) + Len(m) /\ n + Len(m) <= Len(t) + Len(m)
  BY <1>1, <1>2
<1> QED BY <1>1, <1>3, <1>4 DEF EndsAlike

\* Then the end of the one is the end of the other.
LEMMA EndsAlikeIsSuffix ==
  ASSUME NEW w, NEW t, Talk(w), Talk(t), NEW n \in Nat, EndsAlike(w, t, n)
  PROVE  IsSuffix(SubSeq(t, Len(t) - n + 1, Len(t)), w)
<1> DEFINE last == SubSeq(t, Len(t) - n + 1, Len(t))
<1>1. /\ Len(w) \in Nat /\ Len(t) \in Nat /\ n <= Len(w) /\ n <= Len(t)
      /\ \A d \in 0 .. n - 1 : w[Len(w) - d] = t[Len(t) - d]
  BY TalkIsSequence DEF EndsAlike
<1>2. /\ Talk(last) /\ Len(last) = n
      /\ \A i \in 1 .. n : last[i] = t[Len(t) - n + i]
  <2> DEFINE a == Len(t) - n + 1
  <2>1. a \in 1 .. Len(t) + 1 /\ Len(t) \in a - 1 .. Len(t) /\ Len(t) - a + 1 = n
    BY <1>1
  <2>2. \A i \in 1 .. n : a + i - 1 = Len(t) - n + i
    BY <1>1
  <2> HIDE DEF a
  <2>3. /\ Talk(SubSeq(t, a, Len(t))) /\ Len(SubSeq(t, a, Len(t))) = n
        /\ \A i \in 1 .. n : SubSeq(t, a, Len(t))[i] = t[a + i - 1]
    BY <2>1, Cut
  <2> QED BY <2>2, <2>3 DEF a
<1> HIDE DEF last
<1>3. ASSUME NEW h, Talk(h)
      PROVE  /\ Talk(Reverse(h)) /\ Len(Reverse(h)) = Len(h)
             /\ \A i \in 1 .. Len(h) : Reverse(h)[i] = h[Len(h) - i + 1]
  <2> DEFINE S == {h[i] : i \in 1 .. Len(h)}
  <2>1. Len(h) \in Nat
    BY <1>3, TalkIsSequence
  <2>2. Reverse(h) \in [1 .. Len(h) -> S]
    BY <2>1 DEF Reverse
  <2>3. Reverse(h) \in Seq(S) /\ Len(Reverse(h)) = Len(h)
    BY <2>1, <2>2, FunctionIsSequence
  <2> QED BY <2>3 DEF Reverse, Talk
<1> DEFINE a == Reverse(last)
           b == Reverse(w)
<1>4. /\ Talk(a) /\ Len(a) = n /\ \A i \in 1 .. n : a[i] = last[n - i + 1]
      /\ Talk(b) /\ Len(b) = Len(w) /\ \A i \in 1 .. Len(w) : b[i] = w[Len(w) - i + 1]
  BY <1>2, <1>3
<1> HIDE DEF a, b
<1>5. ASSUME NEW i \in 1 .. n
      PROVE  a[i] = b[i]
  <2>1. /\ n - i + 1 \in 1 .. n /\ Len(t) - n + (n - i + 1) = Len(t) - (i - 1)
        /\ i \in 1 .. Len(w) /\ Len(w) - i + 1 = Len(w) - (i - 1) /\ i - 1 \in 0 .. n - 1
    BY <1>1
  <2>2. a[i] = t[Len(t) - (i - 1)]
    BY <1>2, <1>4, <2>1
  <2>3. b[i] = w[Len(w) - (i - 1)]
    BY <1>4, <2>1
  <2> QED BY <1>1, <2>1, <2>2, <2>3
<1>6. SubSeq(a, 1, Len(a)) = SubSeq(b, 1, Len(a))
  <2>1. n \in 0 .. Len(a) /\ n \in 0 .. Len(b)
    BY <1>1, <1>4
  <2>2. /\ Talk(SubSeq(a, 1, n)) /\ Len(SubSeq(a, 1, n)) = n
        /\ \A i \in 1 .. n : SubSeq(a, 1, n)[i] = a[i]
    BY <1>4, <2>1, Opening
  <2>3. /\ Talk(SubSeq(b, 1, n)) /\ Len(SubSeq(b, 1, n)) = n
        /\ \A i \in 1 .. n : SubSeq(b, 1, n)[i] = b[i]
    BY <1>4, <2>1, Opening
  <2>4. SubSeq(a, 1, n) = SubSeq(b, 1, n)
    BY <1>5, <2>2, <2>3, SameTalk
  <2> QED BY <1>4, <2>4
<1>7. IsPrefix(a, b)
  BY <1>1, <1>4, <1>6 DEF IsPrefix
<1> QED BY <1>7 DEF IsSuffix, a, b, last

\* Only one place has KeepRecent user messages from it on.
LEMMA RequiredStartIsThat ==
  ASSUME NEW h, Talk(h), NEW p \in UserAt(h),
         Cardinality({j \in UserAt(h) : j >= p}) = KeepRecent
  PROVE  RequiredStart(h) = p
<1> DEFINE From(i) == {j \in UserAt(h) : j >= i}
<1>1. /\ UserAt(h) \in SUBSET Int /\ IsFiniteSet(UserAt(h))
  BY UsersAreCounted
<1>2. \A i : IsFiniteSet(From(i))
  <2>1. \A i : From(i) \in SUBSET UserAt(h)
    OBVIOUS
  <2> HIDE DEF From
  <2> QED BY <1>1, <2>1, FS_Subset
<1>3. ASSUME NEW i \in UserAt(h), NEW k \in UserAt(h), i < k
      PROVE  Cardinality(From(i)) # Cardinality(From(k))
  <2>1. From(k) \in SUBSET From(i) /\ i \in From(i) /\ i \notin From(k)
    BY <1>1, <1>3
  <2> HIDE DEF From
  <2> QED BY <1>2, <2>1, FS_Subset
<1>4. \E i \in UserAt(h) : Cardinality(From(i)) = KeepRecent
  OBVIOUS
<1>5. RequiredStart(h) \in UserAt(h) /\ Cardinality(From(RequiredStart(h))) = KeepRecent
  BY <1>4 DEF RequiredStart
<1>6. ~(RequiredStart(h) < p) /\ ~(p < RequiredStart(h))
  <2>1. Cardinality(From(p)) = KeepRecent
    OBVIOUS
  <2> HIDE DEF From
  <2> QED BY <1>3, <1>5, <2>1
<1> QED BY <1>1, <1>5, <1>6

\* Of two conversations that end alike from the last turns on, the last turns are
\* the same, unless the one opens with them.
LEMMA LastTurnsAlike ==
  ASSUME NEW w, NEW t, Talk(w), Talk(t), w[1].role # "user",
         Cardinality(UserAt(t)) >= KeepRecent,
         EndsAlike(w, t, Len(t) - RequiredStart(t) + 1)
  PROVE  Len(w) - RequiredStart(w) = Len(t) - RequiredStart(t)
<1> DEFINE r == RequiredStart(t)
           n == Len(t) - r + 1
           p == Len(w) - n + 1
           move == Len(w) - Len(t)
           There == {j \in UserAt(t) : j >= r}
           Here == {j \in UserAt(w) : j >= p}
<1>1. r \in UserAt(t) /\ Cardinality(There) = KeepRecent
  BY RequiredStartIsUser
<1>2. Len(w) \in Nat /\ Len(t) \in Nat /\ r \in 2 .. Len(t)
  BY <1>1, TalkIsSequence DEF UserAt
<1> HIDE DEF r
<1>3. /\ n <= Len(w)
      /\ \A d \in 0 .. n - 1 : w[Len(w) - d] = t[Len(t) - d]
  BY DEF EndsAlike, r
<1>4. \A j \in r .. Len(t) : move + j \in p .. Len(w) /\ w[move + j] = t[j]
  <2>1. ASSUME NEW j \in r .. Len(t)
        PROVE  move + j \in p .. Len(w) /\ w[move + j] = t[j]
    <3>1. Len(t) - j \in 0 .. n - 1 /\ Len(w) - (Len(t) - j) = move + j /\ Len(t) - (Len(t) - j) = j
      BY <1>2
    <3>2. w[Len(w) - (Len(t) - j)] = t[Len(t) - (Len(t) - j)]
      BY <1>3, <3>1
    <3>3. move + j \in p .. Len(w)
      BY <1>2
    <3> QED BY <3>1, <3>2, <3>3
  <2> QED BY <2>1
<1>5. p = move + r /\ p \in 1 .. Len(w) /\ w[p].role = "user"
  <2>1. p = move + r /\ p \in 1 .. Len(w) /\ r \in r .. Len(t)
    BY <1>2, <1>3
  <2>2. t[r].role = "user"
    BY <1>1 DEF UserAt
  <2>3. w[move + r] = t[r]
    BY <1>4, <2>1
  <2> QED BY <2>1, <2>2, <2>3
<1>6. p \in UserAt(w)
  <2>1. p # 1
    BY <1>5
  <2> QED BY <1>2, <1>5, <2>1 DEF UserAt
<1>7. Here = {move + j : j \in There}
  <2>1. ASSUME NEW j \in There
        PROVE  move + j \in Here
    <3>1. j \in r .. Len(t) /\ t[j].role = "user"
      BY <1>2 DEF UserAt
    <3>2. move + j \in p .. Len(w) /\ w[move + j].role = "user"
      BY <1>4, <3>1
    <3>3. p >= 2
      BY <1>2, <1>6 DEF UserAt
    <3>4. move + j \in 2 .. Len(w) /\ move + j >= p
      BY <1>2, <1>5, <3>1, <3>2, <3>3
    <3> QED BY <3>2, <3>4 DEF UserAt
  <2>2. ASSUME NEW i \in Here
        PROVE  \E j \in There : i = move + j
    <3>1. i \in p .. Len(w) /\ w[i].role = "user"
      BY <1>2, <1>5 DEF UserAt
    <3>2. i - move \in r .. Len(t) /\ move + (i - move) = i
      BY <1>2, <1>5, <3>1
    <3>3. t[i - move].role = "user"
      BY <1>4, <3>1, <3>2
    <3>4. i - move \in There
      BY <1>2, <3>2, <3>3 DEF UserAt
    <3> QED BY <3>2, <3>4
  <2> QED BY <2>1, <2>2
<1>8. Cardinality(Here) = KeepRecent
  <2>1. There \in SUBSET Int /\ IsFiniteSet(There) /\ move \in Int
    <3>1. UserAt(t) \in SUBSET Int /\ IsFiniteSet(UserAt(t))
      BY UsersAreCounted
    <3>2. There \in SUBSET UserAt(t)
      OBVIOUS
    <3> HIDE DEF There
    <3> QED BY <1>2, <3>1, <3>2, FS_Subset
  <2> HIDE DEF Here, There, move
  <2> QED BY <1>1, <1>7, <2>1, MovedAreAsMany
<1>9. RequiredStart(w) = p
  BY <1>6, <1>8, RequiredStartIsThat
<1> QED BY <1>2, <1>5, <1>9 DEF r

----------------------------------------------------------------------------
(* What compaction keeps account of.                                       *)

\* Request w stands for transcript t: its notices count the dialogue it lacks, it
\* has all corrections, and the last turns whole.
Honest(w, t) ==
  /\ Counted(w)
  /\ Elided(w) + Cardinality(Dialogue(w)) = Cardinality(Dialogue(t))
  /\ Corrections(w) = Corrections(t)
  /\ Cardinality(UserAt(t)) >= KeepRecent => EndsAlike(w, t, Len(t) - RequiredStart(t) + 1)

\* A transcript stands for itself.
LEMMA HonestAlone ==
  ASSUME NEW t, Talk(t), NoNotice(t)
  PROVE  Honest(t, t)
<1>1. Counted(t) /\ Elided(t) = 0
  BY NothingElided
<1>2. Cardinality(Dialogue(t)) \in Nat
  BY DialogueJoined
<1>3. ASSUME Cardinality(UserAt(t)) >= KeepRecent
      PROVE  EndsAlike(t, t, Len(t) - RequiredStart(t) + 1)
  <2>1. RequiredStart(t) \in 2 .. Len(t) /\ Len(t) \in Nat
    BY <1>3, RequiredStartIsUser, TalkIsSequence DEF UserAt
  <2> QED BY <2>1 DEF EndsAlike
<1> QED BY <1>1, <1>2, <1>3 DEF Honest

\* It goes on standing for the transcript when both get the same messages, of
\* neither users nor compaction.
LEMMA HonestJoined ==
  ASSUME NEW w, NEW t, NEW m, Talk(w), Talk(t), Talk(m), Honest(w, t),
         \A i \in 1 .. Len(m) : m[i].role \notin {"user", "marker"}
  PROVE  Honest(w \o m, t \o m)
<1>1. Counted(m) /\ Elided(m) = 0
  BY NothingElided DEF NoNotice
<1>2. Elided(w) \in Nat /\ Counted(w \o m) /\ Elided(w \o m) = Elided(w) + 0
  BY <1>1, ElidedJoined DEF Honest
<1>3. /\ Cardinality(Dialogue(w)) \in Nat /\ Cardinality(Dialogue(t)) \in Nat
      /\ Cardinality(Dialogue(m)) \in Nat
      /\ Cardinality(Dialogue(w \o m)) = Cardinality(Dialogue(w)) + Cardinality(Dialogue(m))
      /\ Cardinality(Dialogue(t \o m)) = Cardinality(Dialogue(t)) + Cardinality(Dialogue(m))
  BY DialogueJoined
<1>4. Elided(w \o m) + Cardinality(Dialogue(w \o m)) = Cardinality(Dialogue(t \o m))
  <2>1. Elided(w) + Cardinality(Dialogue(w)) = Cardinality(Dialogue(t))
    BY DEF Honest
  <2> QED BY <1>2, <1>3, <2>1
<1>5. Corrections(w \o m) = Corrections(t \o m)
  <2>1. Corrections(w) = Corrections(t)
    BY DEF Honest
  <2>2. /\ Corrections(w \o m) = Corrections(w) \o Corrections(m)
        /\ Corrections(t \o m) = Corrections(t) \o Corrections(m)
    BY CorrectionsJoined
  <2> QED BY <2>1, <2>2
<1>6. UserAt(t \o m) = UserAt(t) /\ Len(t \o m) = Len(t) + Len(m) /\ Len(t) \in Nat /\ Len(m) \in Nat
  <2> DEFINE both == t \o m
  <2>1. /\ Len(t) \in Nat /\ Len(m) \in Nat /\ Len(both) = Len(t) + Len(m)
        /\ \A i \in 1 .. Len(t) : both[i] = t[i]
        /\ \A i \in 1 .. Len(m) : both[Len(t) + i] = m[i]
    BY Joined
  <2> HIDE DEF both
  <2>2. ASSUME NEW i \in 2 .. Len(both), ~(i <= Len(t))
        PROVE  both[i].role # "user"
    <3>1. i - Len(t) \in 1 .. Len(m) /\ Len(t) + (i - Len(t)) = i
      BY <2>1, <2>2
    <3>2. both[i] = m[i - Len(t)]
      BY <2>1, <3>1
    <3> QED BY <3>1, <3>2
  <2>3. \A i : i \in UserAt(both) <=> i \in UserAt(t)
    BY <2>1, <2>2 DEF UserAt
  <2>4. UserAt(both) = UserAt(t)
    <3>1. UserAt(both) \in SUBSET Int /\ UserAt(t) \in SUBSET Int
      BY DEF UserAt
    <3> QED BY <2>3, <3>1
  <2> QED BY <2>1, <2>4 DEF both
<1>7. ASSUME Cardinality(UserAt(t \o m)) >= KeepRecent
      PROVE  EndsAlike(w \o m, t \o m, Len(t \o m) - RequiredStart(t \o m) + 1)
  <2>1. RequiredStart(t \o m) = RequiredStart(t)
    BY <1>6 DEF RequiredStart
  <2>2. Cardinality(UserAt(t)) >= KeepRecent
    BY <1>6, <1>7
  <2>3. RequiredStart(t) \in 2 .. Len(t)
    BY <2>2, RequiredStartIsUser DEF UserAt
  <2> DEFINE n == Len(t) - RequiredStart(t) + 1
  <2>4. n \in Nat /\ n + Len(m) = Len(t \o m) - RequiredStart(t \o m) + 1
    BY <1>6, <2>1, <2>3
  <2>5. EndsAlike(w, t, n)
    BY <2>2 DEF Honest
  <2> HIDE DEF n
  <2>6. EndsAlike(w \o m, t \o m, n + Len(m))
    BY <2>4, <2>5, EndsAlikeJoined
  <2> QED BY <2>4, <2>6
<1> QED BY <1>2, <1>4, <1>5, <1>7 DEF Honest

\* What a conversation is compacted from and to.
LEMMA CompactionParts ==
  ASSUME NEW h, Talk(h), NEW limit, CanCompact(h, limit)
  PROVE  \E dropped, kept :
           /\ Talk(dropped) /\ Talk(kept)
           /\ h = (<< h[1] >> \o dropped) \o kept
           /\ Compacted(h, limit) =
                ((<< h[1] >> \o << Marker(Elided(dropped) + Cardinality(Dialogue(dropped))) >>)
                   \o Corrections(dropped)) \o kept
           /\ Len(kept) = Len(h) - CompactStart(h, limit) + 1
<1> DEFINE start   == CompactStart(h, limit)
           dropped == SubSeq(h, 2, start - 1)
           notice  == Marker(Elided(dropped) + Cardinality(Dialogue(dropped)))
           kept    == SubSeq(h, start, Len(h))
           first   == << h[1] >>
           front   == first \o dropped
           whole   == front \o kept
<1>1. Len(h) \in Nat
  BY TalkIsSequence
<1>2. start \in 2 .. Len(h)
  BY CompactStartIsUser DEF CanCompact, UserAt
<1> HIDE DEF start
<1>3. /\ 2 \in 1 .. Len(h) + 1 /\ start - 1 \in 2 - 1 .. Len(h)
      /\ start \in 1 .. Len(h) + 1 /\ Len(h) \in start - 1 .. Len(h)
  BY <1>1, <1>2
<1>4. /\ Talk(dropped) /\ Len(dropped) = start - 2
      /\ \A i \in 1 .. start - 2 : dropped[i] = h[i + 1]
  <2>1. /\ Talk(dropped) /\ Len(dropped) = (start - 1) - 2 + 1
        /\ \A i \in 1 .. (start - 1) - 2 + 1 : dropped[i] = h[2 + i - 1]
    BY <1>3, Cut
  <2>2. (start - 1) - 2 + 1 = start - 2 /\ \A i \in 1 .. start - 2 : 2 + i - 1 = i + 1
    BY <1>2
  <2> QED BY <2>1, <2>2
<1>5. /\ Talk(kept) /\ Len(kept) = Len(h) - start + 1
      /\ \A i \in 1 .. Len(h) - start + 1 : kept[i] = h[start + i - 1]
  BY <1>3, Cut
<1>6. Talk(first) /\ Len(first) = 1 /\ first[1] = h[1]
  BY ListsAreTalk
<1>7. Compacted(h, limit) = ((first \o << notice >>) \o Corrections(dropped)) \o kept
  <2>1. << h[1], notice >> = first \o << notice >>
    OBVIOUS
  <2> QED BY <2>1 DEF Compacted, start
<1> HIDE DEF dropped, kept, first
<1>8. /\ Talk(front) /\ Len(front) = 1 + (start - 2)
      /\ \A i \in 1 .. 1 : front[i] = first[i]
      /\ \A i \in 1 .. start - 2 : front[1 + i] = dropped[i]
  <2>1. /\ Talk(front) /\ Len(front) = Len(first) + Len(dropped)
        /\ \A i \in 1 .. Len(first) : front[i] = first[i]
        /\ \A i \in 1 .. Len(dropped) : front[Len(first) + i] = dropped[i]
    <3>1. Talk(first) /\ Talk(dropped)
      BY <1>4, <1>6
    <3> QED BY <3>1, Joined
  <2> HIDE DEF front
  <2> QED BY <1>4, <1>6, <2>1
<1> HIDE DEF front
<1>9. /\ Talk(whole) /\ Len(whole) = start - 1 + (Len(h) - start + 1)
      /\ \A i \in 1 .. start - 1 : whole[i] = front[i]
      /\ \A i \in 1 .. Len(h) - start + 1 : whole[start - 1 + i] = kept[i]
  <2>1. Len(front) = start - 1
    BY <1>2, <1>8
  <2>2. /\ Talk(whole) /\ Len(whole) = Len(front) + Len(kept)
        /\ \A i \in 1 .. Len(front) : whole[i] = front[i]
        /\ \A i \in 1 .. Len(kept) : whole[Len(front) + i] = kept[i]
    <3>1. Talk(front) /\ Talk(kept)
      BY <1>5, <1>8
    <3> QED BY <3>1, Joined
  <2> HIDE DEF whole
  <2> QED BY <1>5, <2>1, <2>2
<1> HIDE DEF whole
<1>10. ASSUME NEW i \in 1 .. Len(h)
       PROVE  whole[i] = h[i]
  <2>1. CASE i = 1
    <3>1. i \in 1 .. start - 1 /\ i \in 1 .. 1
      BY <1>2, <2>1
    <3> QED BY <1>6, <1>8, <1>9, <2>1, <3>1
  <2>2. CASE i # 1 /\ i <= start - 1
    <3>1. i - 1 \in 1 .. start - 2 /\ 1 + (i - 1) = i /\ (i - 1) + 1 = i /\ i \in 1 .. start - 1
      BY <1>2, <2>2
    <3>2. front[1 + (i - 1)] = dropped[i - 1] /\ dropped[i - 1] = h[(i - 1) + 1]
      BY <1>4, <1>8, <3>1
    <3> QED BY <1>9, <3>1, <3>2
  <2>3. CASE ~(i <= start - 1)
    <3> DEFINE k == i - start + 1
    <3>1. k \in 1 .. Len(h) - start + 1 /\ start - 1 + k = i /\ start + k - 1 = i
      BY <1>1, <1>2, <2>3
    <3> HIDE DEF k
    <3>2. whole[start - 1 + k] = kept[k] /\ kept[k] = h[start + k - 1]
      BY <1>5, <1>9, <3>1
    <3> QED BY <3>1, <3>2
  <2> QED BY <2>1, <2>2, <2>3
<1>11. whole = h
  <2>1. Len(whole) = Len(h)
    BY <1>1, <1>2, <1>9
  <2> QED BY <1>9, <1>10, <2>1, SameTalk
<1>12. h = (<< h[1] >> \o dropped) \o kept
  BY <1>11 DEF whole, front, first
<1> HIDE DEF notice
<1>13. Compacted(h, limit) = ((<< h[1] >> \o << notice >>) \o Corrections(dropped)) \o kept
  BY <1>7 DEF first
<1> QED BY <1>4, <1>5, <1>12, <1>13 DEF notice, start

\* Counted notices are counted in every part.
LEMMA CountedParts ==
  ASSUME NEW g, NEW h, Talk(g), Talk(h), Counted(g \o h)
  PROVE  Counted(g) /\ Counted(h)
<1> DEFINE both == g \o h
<1>1. /\ Len(g) \in Nat /\ Len(h) \in Nat /\ Len(both) = Len(g) + Len(h)
      /\ \A i \in 1 .. Len(g) : both[i] = g[i]
      /\ \A i \in 1 .. Len(h) : both[Len(g) + i] = h[i]
  BY Joined
<1>2. \A i \in 1 .. Len(both) : Standing(both[i]) \in Nat
  BY DEF Counted
<1> HIDE DEF both
<1>3. /\ \A i \in 1 .. Len(g) : i \in 1 .. Len(both)
      /\ \A i \in 1 .. Len(h) : Len(g) + i \in 1 .. Len(both)
  BY <1>1
<1>4. Counted(g)
  BY <1>1, <1>2, <1>3 DEF Counted
<1>5. ASSUME NEW i \in 1 .. Len(h)
      PROVE  Standing(h[i]) \in Nat
  BY <1>1, <1>2, <1>3
<1> QED BY <1>4, <1>5 DEF Counted

\* A compacted request still stands for the transcript.
LEMMA HonestCompacted ==
  ASSUME NEW w, NEW t, Talk(w), Talk(t), Honest(w, t), w[1].role = "system",
         NEW limit, CanCompact(w, limit)
  PROVE  Honest(Compacted(w, limit), t)
<1>1. PICK dropped, kept :
        /\ Talk(dropped) /\ Talk(kept)
        /\ w = (<< w[1] >> \o dropped) \o kept
        /\ Compacted(w, limit) =
             ((<< w[1] >> \o << Marker(Elided(dropped) + Cardinality(Dialogue(dropped))) >>)
                \o Corrections(dropped)) \o kept
        /\ Len(kept) = Len(w) - CompactStart(w, limit) + 1
  BY CompactionParts
<1> DEFINE first   == << w[1] >>
           count   == Elided(dropped) + Cardinality(Dialogue(dropped))
           notice  == << Marker(count) >>
           systems == Corrections(dropped)
           shorter == Compacted(w, limit)
<1>2. /\ Talk(first) /\ Len(first) = 1 /\ first[1] = w[1]
      /\ Talk(notice) /\ Len(notice) = 1 /\ notice[1] = Marker(count)
  BY ListsAreTalk
<1>3. \A i \in 1 .. Len(first) : first[i].role = "system"
  BY <1>2
<1>4. \A i \in 1 .. Len(notice) : notice[i].role = "marker"
  <2>1. Marker(count).role = "marker"
    BY DEF Marker
  <2> HIDE DEF notice, count
  <2> QED BY <1>2, <2>1
<1>5. Talk(systems) /\ \A i \in 1 .. Len(systems) : systems[i].role = "system"
  BY <1>1, CorrectionsAreSystem
<1>6. w = (first \o dropped) \o kept /\ shorter = ((first \o notice) \o systems) \o kept
  BY <1>1
<1>7. /\ Counted(w) /\ Elided(w) + Cardinality(Dialogue(w)) = Cardinality(Dialogue(t))
      /\ Corrections(w) = Corrections(t)
      /\ Cardinality(UserAt(t)) >= KeepRecent => EndsAlike(w, t, Len(t) - RequiredStart(t) + 1)
  BY DEF Honest
<1> HIDE DEF first, systems, shorter
<1>8. Talk(first \o dropped) /\ Talk(first \o notice) /\ Talk((first \o notice) \o systems)
  BY <1>1, <1>2, <1>5, Joined
<1>9. Counted(dropped) /\ Counted(kept)
  <2>1. Counted(first \o dropped) /\ Counted(kept)
    BY <1>1, <1>6, <1>7, <1>8, CountedParts
  <2> QED BY <1>1, <1>2, <2>1, CountedParts
<1>10. /\ Counted(first) /\ Elided(first) = 0
       /\ Counted(systems) /\ Elided(systems) = 0
  BY <1>2, <1>3, <1>5, NothingElided DEF NoNotice
<1>11. /\ Elided(dropped) \in Nat /\ Elided(kept) \in Nat
       /\ \A h \in {first, dropped, kept, notice, systems} : Cardinality(Dialogue(h)) \in Nat
       /\ count \in Nat
  <2>1. Elided(dropped) \in Nat /\ Elided(kept) \in Nat
    BY <1>1, <1>9, ElidedJoined
  <2>2. \A h \in {first, dropped, kept, notice, systems} : Cardinality(Dialogue(h)) \in Nat
    BY <1>1, <1>2, <1>5, DialogueJoined
  <2> QED BY <2>1, <2>2
<1>12. Counted(notice) /\ Elided(notice) = count
  BY <1>11, NoticeCounts
<1>13. Cardinality(Dialogue(notice)) = 0 /\ Cardinality(Dialogue(systems)) = 0
  <2> HIDE DEF notice
  <2> QED BY <1>2, <1>4, <1>5, NoDialogue
<1>14. Elided(w) + Cardinality(Dialogue(w))
         = Cardinality(Dialogue(first)) + count + Elided(kept) + Cardinality(Dialogue(kept))
  <2>1. Counted(first \o dropped) /\ Elided(first \o dropped) = 0 + Elided(dropped)
    BY <1>1, <1>2, <1>9, <1>10, ElidedJoined
  <2>2. Elided(w) = Elided(dropped) + Elided(kept)
    <3>1. Elided(w) = Elided(first \o dropped) + Elided(kept)
      BY <1>1, <1>6, <1>8, <1>9, <2>1, ElidedJoined
    <3> QED BY <1>11, <2>1, <3>1
  <2>3. Cardinality(Dialogue(w)) = Cardinality(Dialogue(first)) + Cardinality(Dialogue(dropped))
                                     + Cardinality(Dialogue(kept))
    BY <1>1, <1>2, <1>6, <1>8, DialogueJoined
  <2> HIDE DEF notice
  <2> QED BY <1>11, <2>2, <2>3
<1> HIDE DEF notice, count
<1>15. /\ Counted(shorter)
       /\ Elided(shorter) = count + Elided(kept)
  <2>1. Counted(first \o notice) /\ Elided(first \o notice) = 0 + count
    BY <1>2, <1>10, <1>12, ElidedJoined
  <2>2. /\ Counted((first \o notice) \o systems)
        /\ Elided((first \o notice) \o systems) = (0 + count) + 0
    BY <1>5, <1>8, <1>10, <2>1, ElidedJoined
  <2>3. /\ Counted(shorter) /\ Elided(shorter) = ((0 + count) + 0) + Elided(kept)
    BY <1>1, <1>6, <1>8, <1>9, <2>2, ElidedJoined
  <2> QED BY <1>11, <2>3
<1>16. Cardinality(Dialogue(shorter)) = Cardinality(Dialogue(first)) + Cardinality(Dialogue(kept))
  <2>1. Cardinality(Dialogue(shorter)) = ((Cardinality(Dialogue(first)) + 0) + 0) + Cardinality(Dialogue(kept))
    BY <1>1, <1>2, <1>5, <1>6, <1>8, <1>13, DialogueJoined
  <2> QED BY <1>11, <2>1
<1>17. Elided(shorter) + Cardinality(Dialogue(shorter)) = Cardinality(Dialogue(t))
  BY <1>7, <1>11, <1>14, <1>15, <1>16
<1>18. Corrections(shorter) = Corrections(t)
  <2>1. Corrections(notice) = << >>
    BY <1>2, <1>4, NoCorrections
  <2>2. Corrections(systems) = systems
    BY <1>5, CorrectionsOfSystem
  <2>3. Talk(Corrections(first))
    BY <1>2, CorrectionsAreSystem
  <2>4. Corrections(first \o notice) = Corrections(first)
    <3>1. Corrections(first \o notice) = Corrections(first) \o Corrections(notice)
      BY <1>2, CorrectionsJoined
    <3> QED BY <2>1, <2>3, <3>1, JoinedWithNothing
  <2>5. Corrections((first \o notice) \o systems) = Corrections(first) \o systems
    <3>1. Talk(first \o notice) /\ Talk(systems)
      BY <1>5, <1>8
    <3>2. Corrections((first \o notice) \o systems)
            = Corrections(first \o notice) \o Corrections(systems)
      BY <3>1, CorrectionsJoined
    <3> QED BY <2>2, <2>4, <3>2
  <2>6. Corrections(shorter) = (Corrections(first) \o systems) \o Corrections(kept)
    <3>1. Talk((first \o notice) \o systems) /\ Talk(kept)
      BY <1>1, <1>8
    <3>2. Corrections(((first \o notice) \o systems) \o kept)
            = Corrections((first \o notice) \o systems) \o Corrections(kept)
      BY <3>1, CorrectionsJoined
    <3> QED BY <1>6, <2>5, <3>2
  <2>7. Corrections(first \o dropped) = Corrections(first) \o systems
    BY <1>1, <1>2, CorrectionsJoined DEF systems
  <2>8. Corrections(w) = (Corrections(first) \o systems) \o Corrections(kept)
    BY <1>1, <1>6, <1>8, <2>7, CorrectionsJoined
  <2> QED BY <1>7, <2>6, <2>8
<1>19. ASSUME Cardinality(UserAt(t)) >= KeepRecent
       PROVE  EndsAlike(shorter, t, Len(t) - RequiredStart(t) + 1)
  <2> DEFINE n == Len(t) - RequiredStart(t) + 1
             before == first \o dropped
             after == (first \o notice) \o systems
  <2>1. EndsAlike(w, t, n)
    BY <1>7, <1>19
  <2>2. RequiredStart(t) \in 2 .. Len(t) /\ Len(t) \in Nat /\ Len(w) \in Nat /\ Len(kept) \in Nat
    BY <1>1, <1>19, RequiredStartIsUser, TalkIsSequence DEF UserAt
  <2>3. Len(w) - RequiredStart(w) + 1 = n
    <3>1. Len(w) - RequiredStart(w) = Len(t) - RequiredStart(t)
      BY <1>7, <1>19, LastTurnsAlike
    <3> QED BY <3>1
  <2>4. n \in Nat /\ n <= Len(kept)
    <3>1. Cardinality(UserAt(w)) > KeepRecent
      BY DEF CanCompact
    <3>2. /\ CompactStart(w, limit) \in UserAt(w) /\ RequiredStart(w) \in UserAt(w)
          /\ CompactStart(w, limit) <= RequiredStart(w)
      <4>1. Cardinality(UserAt(w)) >= KeepRecent
        BY <3>1, UsersAreCounted DEF KeepRecent
      <4> QED BY <3>1, <4>1, CompactStartIsUser, RequiredStartIsUser
    <3> DEFINE from == CompactStart(w, limit)
               required == RequiredStart(w)
    <3>3. from \in Nat /\ required \in Nat
      BY <3>2, UsersAreCounted
    <3>4. Len(kept) = Len(w) - from + 1
      BY <1>1
    <3>5. from <= required /\ Len(w) - required + 1 = n
      BY <2>3, <3>2
    <3>6. Len(t) \in Nat /\ RequiredStart(t) \in 2 .. Len(t) /\ Len(w) \in Nat /\ Len(kept) \in Nat
      BY <2>2
    <3>7. n \in Nat
      BY <3>6
    <3> HIDE DEF from, required, n
    <3> QED BY <3>3, <3>4, <3>5, <3>6, <3>7
  <2>5. /\ Len(before) \in Nat /\ Len(w) = Len(before) + Len(kept)
        /\ \A i \in 1 .. Len(kept) : w[Len(before) + i] = kept[i]
        /\ Len(after) \in Nat /\ Len(shorter) = Len(after) + Len(kept)
        /\ \A i \in 1 .. Len(kept) : shorter[Len(after) + i] = kept[i]
    <3>1. Talk(before) /\ Talk(after) /\ w = before \o kept /\ shorter = after \o kept
      BY <1>6, <1>8
    <3>2. Talk(kept)
      BY <1>1
    <3> HIDE DEF before, after
    <3>3. /\ Len(before) \in Nat /\ Len(before \o kept) = Len(before) + Len(kept)
          /\ \A i \in 1 .. Len(kept) : (before \o kept)[Len(before) + i] = kept[i]
      BY <3>1, <3>2, Joined
    <3>4. /\ Len(after) \in Nat /\ Len(after \o kept) = Len(after) + Len(kept)
          /\ \A i \in 1 .. Len(kept) : (after \o kept)[Len(after) + i] = kept[i]
      BY <3>1, <3>2, Joined
    <3> QED BY <3>1, <3>3, <3>4
  <2> HIDE DEF n, before, after
  <2>6. n <= Len(t) /\ \A d \in 0 .. n - 1 : w[Len(w) - d] = t[Len(t) - d]
    BY <2>1 DEF EndsAlike
  <2>7. ASSUME NEW d \in 0 .. n - 1
        PROVE  shorter[Len(shorter) - d] = w[Len(w) - d]
    <3>1. /\ Len(kept) - d \in 1 .. Len(kept)
          /\ Len(shorter) - d = Len(after) + (Len(kept) - d)
          /\ Len(w) - d = Len(before) + (Len(kept) - d)
      BY <2>2, <2>4, <2>5
    <3> QED BY <2>5, <3>1
  <2>8. n <= Len(shorter)
    BY <2>2, <2>4, <2>5
  <2>9. EndsAlike(shorter, t, n)
    BY <2>6, <2>7, <2>8 DEF EndsAlike
  <2> QED BY <2>9 DEF n
<1>20. Honest(shorter, t)
  BY <1>15, <1>17, <1>18, <1>19 DEF Honest
<1> QED BY <1>20 DEF shorter

----------------------------------------------------------------------------
(* The request stands for the transcript throughout a run.                 *)

HonestInv ==
  /\ NoNotice(history) /\ NoNotice(appended)
  /\ pc # "idle" => Honest(working, Transcript)

\* Conversations without notices are joined to such.
LEMMA NoNoticeJoined ==
  ASSUME NEW g, NEW h, Talk(g), Talk(h), NoNotice(g), NoNotice(h)
  PROVE  NoNotice(g \o h)
<1> DEFINE both == g \o h
<1>1. /\ Len(g) \in Nat /\ Len(h) \in Nat /\ Len(both) = Len(g) + Len(h)
      /\ \A i \in 1 .. Len(g) : both[i] = g[i]
      /\ \A i \in 1 .. Len(h) : both[Len(g) + i] = h[i]
  BY Joined
<1> HIDE DEF both
<1>2. ASSUME NEW i \in 1 .. Len(both)
      PROVE  both[i].role # "marker"
  <2>1. CASE i <= Len(g)
    BY <1>1, <2>1 DEF NoNotice
  <2>2. CASE ~(i <= Len(g))
    <3>1. i - Len(g) \in 1 .. Len(h) /\ Len(g) + (i - Len(g)) = i
      BY <1>1, <2>2
    <3>2. both[i] = h[i - Len(g)]
      BY <1>1, <3>1
    <3> QED BY <3>1, <3>2 DEF NoNotice
  <2> QED BY <2>1, <2>2
<1> QED BY <1>2 DEF NoNotice, both

\* Initially there is no run and no notice.
LEMMA HonestStarts == Init => HonestInv
<1> SUFFICES ASSUME Init PROVE HonestInv
  OBVIOUS
<1>1. NoNotice(history)
  BY RestoredAssumption DEF Init, NoNotice
<1>2. NoNotice(<< >>)
  BY ListsAreTalk DEF NoNotice
<1> QED BY <1>1, <1>2 DEF Init, HonestInv

\* What a run pushes: replies and results.
LEMMA PushKeepsHonest ==
  ASSUME TurnShape, HonestInv, pc # "idle", NEW m, Talk(m), Push(m), history' = history,
         \A i \in 1 .. Len(m) : m[i].role \in {"assistant", "tool"}
  PROVE  HonestInv'
<1>1. Talk(Transcript) /\ Talk(working) /\ Talk(appended)
        /\ Transcript' = Transcript \o m /\ working' = working \o m /\ appended' = appended \o m
  BY PushJoins DEF Push, TurnShape
<1>2. /\ NoNotice(history) /\ NoNotice(appended) /\ Honest(working, Transcript)
  BY DEF HonestInv
<1>3. NoNotice(m)
  BY DEF NoNotice
<1>4. NoNotice(appended')
  BY <1>1, <1>2, <1>3, NoNoticeJoined
<1>5. Honest(working', Transcript')
  BY <1>1, <1>2, HonestJoined
<1> QED BY <1>2, <1>4, <1>5 DEF HonestInv

\* Answers are messages of tools.
LEMMA SkippedAreTools ==
  ASSUME NEW run, NEW turn, NEW left \in Calls
  PROVE  /\ Talk(SkippedBy(run, turn, left)) /\ Len(SkippedBy(run, turn, left)) \in Nat
         /\ \A i \in 1 .. Len(SkippedBy(run, turn, left)) :
              SkippedBy(run, turn, left)[i].role = "tool"
<1> DEFINE answers == SkippedBy(run, turn, left)
<1>1. /\ Talk(answers) /\ Len(left) \in Nat /\ Len(answers) = Len(left)
      /\ \A i \in 1 .. Len(left) : answers[i] = ToolResult(run, turn, left[i].id, "skipped")
  BY SkippedAnswers
<1> HIDE DEF answers
<1>2. \A i : ToolResult(run, turn, left[i].id, "skipped").role = "tool"
  BY DEF ToolResult
<1>3. /\ Talk(answers) /\ Len(answers) \in Nat
      /\ \A i \in 1 .. Len(answers) : answers[i].role = "tool"
  BY <1>1, <1>2
<1> QED BY <1>3 DEF answers

\* Every step keeps the account.
LEMMA HonestStep ==
  ASSUME TurnInv, TurnInv', HonestInv, [Next]_vars
  PROVE  HonestInv'
<1>1. /\ TurnShape /\ TurnShape'
      /\ Talk(history) /\ Talk(working) /\ Talk(appended) /\ Talk(Transcript)
  BY Joined DEF TurnInv, TurnShape, Transcript
<1>2. /\ NoNotice(history) /\ NoNotice(appended)
      /\ pc # "idle" => Honest(working, Transcript)
  BY DEF HonestInv
<1>3. CASE Silent
  BY <1>2, <1>3 DEF Silent, HonestInv, Transcript
<1>4. CASE Begin
  <2> DEFINE greeting == IF history = << >> THEN << System("constitution") >> ELSE << >>
             task == << User(spent.runs + 1) >>
  <2>1. history' = history /\ working' = history \o appended' /\ appended' = greeting \o task
    BY <1>4 DEF Begin, Open
  <2>2. Talk(greeting) /\ NoNotice(greeting)
    <3>1. System("constitution").role # "marker"
      BY DEF System
    <3> QED BY <3>1, ListsAreTalk DEF NoNotice
  <2>3. Talk(task) /\ NoNotice(task)
    <3>1. User(spent.runs + 1).role # "marker"
      BY DEF User
    <3> QED BY <3>1, ListsAreTalk DEF NoNotice
  <2> HIDE DEF greeting, task
  <2>4. Talk(appended') /\ NoNotice(appended')
    BY <2>1, <2>2, <2>3, Joined, NoNoticeJoined
  <2>5. Talk(working') /\ NoNotice(working')
    BY <1>1, <1>2, <2>1, <2>4, Joined, NoNoticeJoined
  <2>6. Transcript' = working'
    BY <2>1 DEF Transcript
  <2>7. Honest(working', Transcript')
    BY <2>5, <2>6, HonestAlone
  <2> QED BY <1>2, <2>1, <2>4, <2>7 DEF HonestInv
<1>5. CASE Correct
  <2>1. /\ pc' = "idle" /\ appended' = appended
        /\ history' = history \o << System("correction") >>
    BY <1>1, <1>5, AppendJoins DEF Correct
  <2>2. NoNotice(history')
    <3>1. System("correction").role # "marker"
      BY DEF System
    <3>2. Talk(<< System("correction") >>) /\ NoNotice(<< System("correction") >>)
      BY <3>1, ListsAreTalk DEF NoNotice
    <3> QED BY <1>1, <1>2, <2>1, <3>2, NoNoticeJoined
  <2> QED BY <1>2, <2>1, <2>2 DEF HonestInv
<1>6. CASE PrepareRequest
  <2>1. /\ pc # "idle" /\ history' = history /\ appended' = appended
        /\ working' = Prepare(working) /\ Transcript' = Transcript
    BY <1>6 DEF PrepareRequest, Transcript
  <2>2. Honest(Prepare(working), Transcript)
    <3>1. CASE Prepare(working) = working
      BY <1>2, <2>1, <3>1
    <3>2. CASE Prepare(working) # working
      <4>1. CanCompact(working, ContextLimit) /\ Prepare(working) = Compacted(working, ContextLimit)
        BY <3>2 DEF Prepare
      <4>2. working[1].role = "system"
        BY <2>1 DEF TurnInv, Answering, Opened, System
      <4> QED BY <1>1, <1>2, <2>1, <4>1, <4>2, HonestCompacted
    <3> QED BY <3>1, <3>2
  <2> QED BY <1>2, <2>1, <2>2 DEF HonestInv
<1>7. ASSUME NEW reply \in Replies, FinalReply(reply) \/ ToolReply(reply)
      PROVE  HonestInv'
  <2> DEFINE spoken == << Spoken(reply) >>
             answers == SkippedBy(Run, turns, Numbered(reply.calls))
  <2>1. reply \in Reply
    BY AgentTurnAssumption
  <2>2. pc # "idle" /\ history' = history /\ (Push(spoken) \/ Push(spoken \o answers))
    BY <1>7 DEF FinalReply, ToolReply, Skipped, SkippedBy
  <2>3. Talk(spoken) /\ Len(spoken) = 1 /\ spoken[1].role = "assistant"
    BY ListsAreTalk DEF Spoken, Assistant
  <2>4. /\ Talk(answers) /\ Len(answers) \in Nat
        /\ \A i \in 1 .. Len(answers) : answers[i].role = "tool"
    <3>1. Numbered(reply.calls) \in Calls
      BY <2>1, RepliesAreNumbered
    <3> QED BY <3>1, SkippedAreTools
  <2> HIDE DEF spoken, answers
  <2>5. /\ Talk(spoken \o answers)
        /\ \A i \in 1 .. Len(spoken \o answers) : (spoken \o answers)[i].role \in {"assistant", "tool"}
    <3> DEFINE both == spoken \o answers
    <3>1. /\ Talk(both) /\ Len(both) = Len(spoken) + Len(answers)
          /\ \A i \in 1 .. Len(spoken) : both[i] = spoken[i]
          /\ \A i \in 1 .. Len(answers) : both[Len(spoken) + i] = answers[i]
      <4>1. Talk(spoken) /\ Talk(answers)
        BY <2>3, <2>4
      <4> QED BY <4>1, Joined
    <3> HIDE DEF both
    <3>2. ASSUME NEW i \in 1 .. Len(both)
          PROVE  both[i].role \in {"assistant", "tool"}
      <4>1. CASE i = 1
        BY <2>3, <3>1, <4>1
      <4>2. CASE i # 1
        <5>1. i - 1 \in 1 .. Len(answers) /\ Len(spoken) + (i - 1) = i
          BY <2>3, <2>4, <3>1, <4>2
        <5>2. both[i] = answers[i - 1]
          BY <3>1, <5>1
        <5> QED BY <2>4, <5>1, <5>2
      <4> QED BY <4>1, <4>2
    <3> QED BY <3>1, <3>2 DEF both
  <2>6. \A i \in 1 .. Len(spoken) : spoken[i].role \in {"assistant", "tool"}
    BY <2>3
  <2> QED BY <1>1, <2>2, <2>3, <2>5, <2>6, PushKeepsHonest
<1>8. CASE StopBeforeCall
  <2>1. /\ pc # "idle" /\ history' = history /\ Push(SkippedBy(Run, turns, calls)) /\ calls \in Calls
    BY <1>1, <1>8 DEF StopBeforeCall, Skipped, SkippedBy, TurnShape
  <2>2. /\ Talk(SkippedBy(Run, turns, calls))
        /\ \A i \in 1 .. Len(SkippedBy(Run, turns, calls)) :
             SkippedBy(Run, turns, calls)[i].role \in {"assistant", "tool"}
    BY <2>1, SkippedAreTools
  <2> QED BY <1>1, <2>1, <2>2, PushKeepsHonest
<1>9. CASE calls # << >> /\ \E how : Answer(how)
  <2>1. PICK how : Answer(how)
    BY <1>9
  <2> DEFINE answer == << ToolResult(Run, turns, Head(calls).id, how) >>
  <2>2. Push(answer) /\ history' = history /\ pc # "idle"
    BY <1>1, <1>9, <2>1 DEF Answer, TurnShape
  <2>3. Talk(answer) /\ Len(answer) = 1 /\ answer[1].role = "tool"
    BY ListsAreTalk DEF ToolResult
  <2> HIDE DEF answer
  <2>4. \A i \in 1 .. Len(answer) : answer[i].role \in {"assistant", "tool"}
    BY <2>3
  <2> QED BY <1>1, <2>2, <2>3, <2>4, PushKeepsHonest
<1>10. CASE Return
  <2>1. pc' = "idle" /\ history' = history \o appended /\ appended' = << >>
    BY <1>10 DEF Return
  <2>2. NoNotice(history') /\ NoNotice(appended')
    BY <1>1, <1>2, <2>1, NoNoticeJoined, ListsAreTalk DEF NoNotice
  <2> QED BY <2>1, <2>2 DEF HonestInv
<1> QED BY <1>1, <1>3, <1>4, <1>5, <1>6, <1>7, <1>8, <1>9, <1>10, StepsThatSpeak

----------------------------------------------------------------------------
(* The theorems.                                                           *)

\* The invariant holds throughout every behaviour of the turn loop.
LEMMA TurnInvariant == Spec => []TurnInv
<1>1. TurnInv /\ [Next]_vars => TurnInv'
  BY ShapeStep, StoppingStep, PassingStep, CacheStep, AnsweringStep DEF TurnInv
<1> QED BY <1>1, TurnStarts, PTL DEF Spec

\* Whatever was cancelled, cut short or compacted away: every request has each
\* call answered right behind the message that made it, and so has every
\* transcript handed back.  (run_with_persistent_history_and_cache, compact_history)
THEOREM CallsAreAnswered == Spec => []EveryCallIsAnswered
<1>1. TurnInv => EveryCallIsAnswered
  <2> SUFFICES ASSUME TurnInv PROVE EveryCallIsAnswered
    OBVIOUS
  <2>1. Talk(working) /\ Talk(history) /\ Talk(Transcript)
    BY Joined DEF TurnInv, TurnShape, Transcript
  <2>2. ASSUME pc \in {"send", "wait"}
        PROVE  Answered(working) /\ working[1] = System("constitution")
    <3>1. calls = << >>
      BY <2>2 DEF TurnInv, TurnShape
    <3>2. Owed = << >>
      BY <3>1, NothingSkipped DEF Owed
    <3>3. Clear(working \o Owed) /\ Opened(working)
      BY <2>2 DEF TurnInv, Answering
    <3>4. Clear(working)
      BY <2>1, <3>2, <3>3, JoinedWithNothing
    <3> QED BY <2>1, <3>3, <3>4, ClearMeansAnswered DEF Opened
  <2>3. ASSUME pc = "idle"
        PROVE  Answered(history)
    <3>1. calls = << >> /\ appended = << >>
      BY <2>3 DEF TurnInv, TurnShape
    <3>2. Transcript \o Owed = history
      <4>1. Owed = << >>
        BY <3>1, NothingSkipped DEF Owed
      <4> QED BY <2>1, <3>1, <4>1, JoinedWithNothing DEF Transcript
    <3>3. Clear(history)
      BY <3>2 DEF TurnInv, Answering
    <3> QED BY <2>1, <3>3, ClearMeansAnswered
  <2> QED BY <2>2, <2>3 DEF EveryCallIsAnswered
<1> QED BY <1>1, TurnInvariant, PTL

\* Evidence of the cache that survives a run is about a request the caller's
\* transcript still begins with.  (preceding_cached_tokens)
THEOREM CacheEvidenceHolds == Spec => []CachedDescribesPrefix
<1>1. TurnInv => CachedDescribesPrefix
  BY DEF TurnInv, CacheHolds, CachedDescribesPrefix
<1> QED BY <1>1, TurnInvariant, PTL

\* A run reported as passed has a receipt that says so, and every such receipt
\* belongs to a run that gave an answer.  (classify_finish_reason, the receipt at the end of run)
THEOREM PassesAreReceipted == Spec => []PassIsReceipted
<1>1. TurnInv => PassIsReceipted
  BY DEF TurnInv, Passing
<1> QED BY <1>1, TurnInvariant, PTL

\* After a cancellation at most one request or tool call starts.
THEOREM CancellationStopsWork == Spec => []CancelStopsWork
<1>1. TurnInv => CancelStopsWork
  BY DEF TurnInv, Stopping, CancelStopsWork
<1> QED BY <1>1, TurnInvariant, PTL

\* A request that was compacted says so and is exact about it: its notices count
\* the dialogue it lacks, no correction is missing, the last two user turns are
\* whole; one that was not is the transcript.  (compact_history, compaction_marker_stats)
THEOREM CompactionKeepsAccount == Spec => []CompactionIsHonest
<1>1. TurnInv /\ HonestInv => CompactionIsHonest
  <2> SUFFICES ASSUME TurnInv, HonestInv, pc \in {"send", "wait"}
               PROVE  /\ Elided(working) = Cardinality(Dialogue(Transcript)) - Cardinality(Dialogue(working))
                      /\ Corrections(working) = Corrections(Transcript)
                      /\ Cardinality(UserAt(Transcript)) >= KeepRecent =>
                           IsSuffix(LastTurns(Transcript), working)
                      /\ ~compacted => working = Transcript
    BY DEF CompactionIsHonest
  <2>1. Talk(working) /\ Talk(Transcript)
    BY Joined DEF TurnInv, TurnShape, Transcript
  <2>2. Honest(working, Transcript)
    BY DEF HonestInv
  <2>3. /\ Counted(working)
        /\ Elided(working) + Cardinality(Dialogue(working)) = Cardinality(Dialogue(Transcript))
        /\ Corrections(working) = Corrections(Transcript)
    BY <2>2 DEF Honest
  <2>4. Elided(working) = Cardinality(Dialogue(Transcript)) - Cardinality(Dialogue(working))
    <3>1. Elided(working) \in Nat /\ Cardinality(Dialogue(working)) \in Nat
      BY <2>1, <2>3, ElidedJoined, DialogueJoined
    <3> QED BY <2>3, <3>1
  <2>5. ASSUME Cardinality(UserAt(Transcript)) >= KeepRecent
        PROVE  IsSuffix(LastTurns(Transcript), working)
    <3> DEFINE n == Len(Transcript) - RequiredStart(Transcript) + 1
    <3>1. RequiredStart(Transcript) \in 2 .. Len(Transcript) /\ Len(Transcript) \in Nat
      BY <2>1, <2>5, RequiredStartIsUser, TalkIsSequence DEF UserAt
    <3>2. n \in Nat /\ Len(Transcript) - n + 1 = RequiredStart(Transcript)
      BY <3>1
    <3>3. EndsAlike(working, Transcript, n)
      BY <2>2, <2>5 DEF Honest
    <3> HIDE DEF n
    <3>4. IsSuffix(SubSeq(Transcript, Len(Transcript) - n + 1, Len(Transcript)), working)
      BY <2>1, <3>2, <3>3, EndsAlikeIsSuffix
    <3> QED BY <3>2, <3>4 DEF LastTurns
  <2>6. ~compacted => working = Transcript
    BY DEF TurnInv, CacheHolds
  <2> QED BY <2>3, <2>4, <2>5, <2>6
<1>2. TurnInv /\ TurnInv' /\ HonestInv /\ [Next]_vars => HonestInv'
  BY HonestStep
<1> QED BY <1>1, <1>2, HonestStarts, TurnInvariant, PTL DEF Spec
==============================================================================
