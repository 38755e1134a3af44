-------------------------------- MODULE Glob --------------------------------
(***************************************************************************)
(* Path globs and the segments they are made of (nh-law's matcher): the    *)
(* backtracking walk the code makes, and what a glob means.  A path is a   *)
(* sequence of segments, a segment a sequence of characters.               *)
(***************************************************************************)
EXTENDS Naturals, Sequences

\* After a mismatch the last wildcard takes one more: not from where the match failed
MUT_RestartAt(v, last) == v + 1
RestartAt(v, last) == last + 1

(* The walk over pattern position p and value position v; w is the last    *)
(* wildcard passed, or 0, and from is where the value stood then.          *)
WildcardWalk(patternLength, valueLength, wildcards, alike) ==
  LET RECURSIVE Walk(_, _, _, _)
      Walk(p, v, w, from) ==
        IF v > valueLength THEN p .. patternLength \subseteq wildcards
        ELSE IF p \notin wildcards /\ << p, v >> \in alike THEN Walk(p + 1, v + 1, w, from)
        ELSE IF p \in wildcards THEN Walk(p + 1, v, p, v)
        ELSE w # 0 /\ Walk(w + 1, RestartAt(v, from), w, RestartAt(v, from))
  IN  Walk(1, 1, 0, 0)

SegmentMatches(pattern, value) ==
  WildcardWalk(Len(pattern), Len(value),
               {i \in 1 .. Len(pattern) : pattern[i] = "*"},
               {<< i, j >> \in (1 .. Len(pattern)) \X (1 .. Len(value)) :
                  pattern[i] \in {"?", value[j]}})

AnyDepth == << "*", "*" >>
GlobMatches(pattern, value) ==
  WildcardWalk(Len(pattern), Len(value),
               {i \in 1 .. Len(pattern) : pattern[i] = AnyDepth},
               {<< i, j >> \in (1 .. Len(pattern)) \X (1 .. Len(value)) :
                  SegmentMatches(pattern[i], value[j])})

----------------------------------------------------------------------------
(* What a glob means: a wildcard stands for any sequence, ? for one        *)
(* character, and anything else for itself.                                *)
RECURSIVE SegmentMeans(_, _)
SegmentMeans(pattern, value) ==
  IF pattern = << >> THEN value = << >>
  ELSE IF Head(pattern) = "*"
  THEN \E i \in 0 .. Len(value) : SegmentMeans(Tail(pattern), SubSeq(value, i + 1, Len(value)))
  ELSE /\ value # << >>
       /\ Head(pattern) \in {"?", Head(value)}
       /\ SegmentMeans(Tail(pattern), Tail(value))

RECURSIVE GlobMeans(_, _)
GlobMeans(pattern, value) ==
  IF pattern = << >> THEN value = << >>
  ELSE IF Head(pattern) = AnyDepth
  THEN \E i \in 0 .. Len(value) : GlobMeans(Tail(pattern), SubSeq(value, i + 1, Len(value)))
  ELSE /\ value # << >>
       /\ SegmentMeans(Head(pattern), Head(value))
       /\ GlobMeans(Tail(pattern), Tail(value))
=============================================================================
