----------------------------- MODULE EditMatch -----------------------------
(***************************************************************************)
(* How edit_file finds the text it is to replace: as it stands, then with  *)
(* runs of blanks taken for one, then with the indentation ignored.  A     *)
(* text is a sequence of characters; what only tells a model where the     *)
(* text might have been (nearest_candidate) is left out.                   *)
(***************************************************************************)
EXTENDS Integers, SequencesExt

Blanks == {" ", "tab", "cr"}
Part(s, range) == SubSeq(s, range.from, range.to)

\* str::match_indices: from left to right, and none that overlaps the one before
Occurrences(s, pattern) ==
  LET n == Len(pattern)
      step(found, i) ==
        IF /\ i + n - 1 <= Len(s) /\ SubSeq(s, i, i + n - 1) = pattern
           /\ found = << >> \/ Last(found).to < i
        THEN Append(found, [from |-> i, to |-> i + n - 1]) ELSE found
  IN FoldLeft(step, << >>, [i \in DOMAIN s |-> i])

----------------------------------------------------------------------------
(* Normalization: what is kept of a text, and where it came from.          *)

\* The line of i without its end: nothing but the characters between two nl
LineStart(s, i) == LET ends == {j \in 1 .. i - 1 : s[j] = "nl"}
                   IN 1 + (IF ends = {} THEN 0 ELSE CHOOSE j \in ends : \A k \in ends : j >= k)
AtLineEnd(s, i) == i > Len(s) \/ s[i] = "nl"

\* A carriage return at the end of a line belongs to the end of the line
EndsLine(s, i) == s[i] = "nl" \/ (s[i] = "cr" /\ AtLineEnd(s, i + 1))
TextIn(s, from, to) == \E j \in from .. to : s[j] \notin Blanks
TextFollows(s, i) == \E j \in i + 1 .. Len(s) : s[j] \notin Blanks \cup {"nl"}
                                                 /\ \A k \in i .. j : s[k] # "nl"

\* The run of blanks that ends at i, behind some text
RunStart(s, i) == CHOOSE j \in 1 .. i : /\ \A k \in j .. i : s[k] \in Blanks
                                        /\ s[j - 1] \notin Blanks

(* normalize: blanks at the end of a line go, those between two words      *)
(* become one, and those of the indentation stay only when it counts.      *)
Kept(s, i, indentation) ==
  LET start == LineStart(s, i) IN
    \/ s[i] = "nl" \/ s[i] \notin Blanks
    \/ /\ s[i] \in Blanks /\ ~EndsLine(s, i) /\ TextFollows(s, i)
       /\ IF TextIn(s, start, i) THEN s[i + 1] \notin Blanks ELSE indentation

Normal(s, indentation) ==
  LET kept == SelectSeq([i \in DOMAIN s |-> i], LAMBDA i : Kept(s, i, indentation))
      as(i) ==
        IF s[i] = "nl" THEN [char |-> "nl", from |-> IF i > LineStart(s, i) /\ s[i - 1] = "cr"
                                                     THEN i - 1 ELSE i, to |-> i]
        ELSE IF s[i] \in Blanks /\ TextIn(s, LineStart(s, i), i)
             THEN [char |-> " ", from |-> RunStart(s, i), to |-> i]
        ELSE [char |-> s[i], from |-> i, to |-> i]
  IN [j \in DOMAIN kept |-> as(kept[j])]

CharsOf(normal) == [j \in DOMAIN normal |-> normal[j].char]

\* normalized_ranges
NormalRanges(s, pattern, indentation) ==
  LET hay    == Normal(s, indentation)
      needle == CharsOf(Normal(pattern, indentation))
      found  == Occurrences(CharsOf(hay), needle)
  IN IF needle = << >> THEN << >>
     ELSE [k \in DOMAIN found |-> [from |-> hay[found[k].from].from, to |-> hay[found[k].to].to]]

----------------------------------------------------------------------------
(* What replaces the text.                                                 *)

RECURSIVE LinesOf(_)
LinesOf(s) ==
  IF ~Contains(s, "nl") THEN << s >>
  ELSE LET i == CHOOSE j \in DOMAIN s : s[j] = "nl" /\ \A k \in 1 .. j - 1 : s[k] # "nl"
       IN << SubSeq(s, 1, i - 1) >> \o LinesOf(SubSeq(s, i + 1, Len(s)))

\* leading_indentation, of a line
Indentation(line) ==
  LET n == CHOOSE j \in 0 .. Len(line) : /\ \A k \in 1 .. j : line[k] \in Blanks
                                         /\ j = Len(line) \/ line[j + 1] \notin Blanks
  IN SubSeq(line, 1, n)
StripPrefix(prefix, line) ==
  IF IsPrefix(prefix, line) THEN SubSeq(line, Len(prefix) + 1, Len(line)) ELSE line

MUT_Reindented(s, old, new, range) == new
\* indentation_flexible_replacement: each line is indented as the one it replaces
Reindented(s, old, new, range) ==
  LET before == SubSeq(s, LineStart(s, range.from), range.from - 1)
      base   == IF \A i \in DOMAIN before : before[i] \in Blanks THEN before ELSE << >>
      source == LinesOf(Part(s, range))
      olds   == LinesOf(old)
      lines  == LinesOf(new)
      line(i) ==
        LET body == StripPrefix(Indentation(olds[IF i \in DOMAIN olds THEN i ELSE 1]), lines[i])
        IN (IF i = 1 THEN << >> ELSE IF i \in DOMAIN source THEN Indentation(source[i]) ELSE base)
             \o body
      \* Nothing stands behind the end of the last line
      count == IF lines[Len(lines)] = << >> THEN Len(lines) - 1 ELSE Len(lines)
  IN FlattenSeq([i \in 1 .. count |-> line(i) \o (IF i < Len(lines) THEN << "nl" >> ELSE << >>)])

----------------------------------------------------------------------------
(* locate.                                                                 *)

Tiers == << "exact", "whitespace", "indentation" >>
RangesAt(tier, s, old) ==
  IF tier = "exact" THEN Occurrences(s, old) ELSE NormalRanges(s, old, tier = "whitespace")

\* The first tier that finds anything decides, and it has to find one place
Locate(s, old, new) ==
  LET finds == {t \in DOMAIN Tiers : RangesAt(Tiers[t], s, old) # << >>} IN
    IF finds = {} THEN [how |-> "not found"]
    ELSE LET tier   == Tiers[CHOOSE t \in finds : \A u \in finds : t <= u]
             ranges == RangesAt(tier, s, old)
         IN IF Len(ranges) > 1 THEN [how |-> "ambiguous", tier |-> tier]
            ELSE [how |-> "found", tier |-> tier, range |-> ranges[1],
                  replacement |-> IF tier = "indentation" THEN Reindented(s, old, new, ranges[1])
                                  ELSE new]

\* EditFile: what the file holds afterwards
Edited(s, found) ==
  SubSeq(s, 1, found.range.from - 1) \o found.replacement
    \o SubSeq(s, found.range.to + 1, Len(s))
=============================================================================
