----------------------------- MODULE ToolRepair -----------------------------
(***************************************************************************)
(* What the agent loop makes of the arguments of a tool call before it     *)
(* runs the tool: JSON that does not parse is repaired where only one      *)
(* thing can have been meant, and every repair is noted.  A text is a      *)
(* sequence of characters.                                                 *)
(***************************************************************************)
EXTENDS Naturals, SequencesExt

Blank == {" ", "nl"}
Letters == {"a", "b"}
Opened == [c \in {"}", "]"} |-> IF c = "}" THEN "{" ELSE "["]

----------------------------------------------------------------------------
(* Quotes.                                                                 *)

NothingRead == [out |-> << >>, quote |-> "none", escaped |-> FALSE, open |-> << >>, single |-> FALSE]

Escapes(s, c) == [s EXCEPT !.escaped = ~s.escaped /\ c = "\\"]
Put(s, text) == [s EXCEPT !.out = @ \o text]

InDouble(s, c) ==
  [Escapes(Put(s, << c >>), c) EXCEPT !.quote = IF c = "\"" /\ ~s.escaped THEN "none" ELSE @]

\* An escaped single quote loses its escape, a bare double quote gets one
InSingle(s, c) ==
  IF s.escaped THEN Escapes(Put(s, IF c = "'" THEN << c >> ELSE << "\\", c >>), c)
  ELSE IF c = "\\" THEN Escapes(s, c)
  ELSE IF c = "'" THEN [Put(s, << "\"" >>) EXCEPT !.quote = "none"]
  ELSE Put(s, IF c = "\"" THEN << "\\", c >> ELSE << c >>)

InNone(s, c) ==
  CASE c = "\"" -> [Put(s, << c >>) EXCEPT !.quote = "double"]
    [] c = "'"  -> [Put(s, << "\"" >>) EXCEPT !.quote = "single", !.single = TRUE]
    [] c \in {"{", "["} -> [Put(s, << c >>) EXCEPT !.open = Append(@, c)]
    [] c \in DOMAIN Opened /\ s.open # << >> /\ Last(s.open) = Opened[c] ->
         [Put(s, << c >>) EXCEPT !.open = Front(@)]
    [] OTHER -> Put(s, << c >>)

Read(s, c) == CASE s.quote = "double" -> InDouble(s, c)
                [] s.quote = "single" -> InSingle(s, c)
                [] OTHER -> InNone(s, c)

Visible(text) == SelectSeq([i \in DOMAIN text |-> i], LAMBDA i : text[i] \notin Blank)

(* closing_container_suffix_start: a string nobody closed ends before the  *)
(* closers at the end of the text, when they are those of what is open.    *)
(* They are compared from the end with the innermost first, so only        *)
(* containers of one kind are recognised when there are several.           *)
Suffix(text, open) ==
  LET seen  == Visible(text)
      first == Len(seen) - Len(open)
      matches == \A j \in DOMAIN open :
                   LET c == text[seen[first + j]] IN c \in DOMAIN Opened /\ Opened[c] = open[j]
  IN IF open # << >> /\ first >= 0 /\ matches THEN seen[first + 1] ELSE Len(text) + 1

\* normalize_quotes
NormalizeQuotes(text) ==
  LET read == FoldLeft(Read, NothingRead, text)
  IN [text |-> IF read.quote = "none" THEN read.out
               ELSE InsertAt(read.out, Suffix(read.out, read.open), "\""),
      single |-> read.single, unterminated |-> read.quote # "none"]

----------------------------------------------------------------------------
(* Keys and commas, outside of strings.                                    *)

\* Which characters are part of a string, its quotes included
Quoted(text) ==
  LET step(s, c) ==
        LET within == s.within \/ c = "\"" IN
        [within |-> IF s.within THEN s.escaped \/ c # "\"" ELSE c = "\"",
         escaped |-> s.within /\ ~s.escaped /\ c = "\\",
         marks |-> Append(s.marks, within)]
  IN FoldLeft(step, [within |-> FALSE, escaped |-> FALSE, marks |-> << >>], text).marks

\* The first character that is not blank from i on, or the last one up to i
NextSeen(text, i) == LET later == {j \in i .. Len(text) : text[j] \notin Blank}
                  IN IF later = {} THEN "end" ELSE text[CHOOSE j \in later : \A k \in later : j <= k]
LastSeen(text, i) == LET sooner == {j \in 1 .. i : text[j] \notin Blank}
                  IN IF sooner = {} THEN "start" ELSE text[CHOOSE j \in sooner : \A k \in sooner : j >= k]

\* quote_unquoted_keys: a word after { or , is a key when a colon follows it
QuoteKeys(text) ==
  LET quoted == Quoted(text)
      end(i) == CHOOSE j \in i .. Len(text) :
                  /\ \A k \in i .. j : text[k] \in Letters
                  /\ j = Len(text) \/ text[j + 1] \notin Letters
      starts == {i \in DOMAIN text : /\ ~quoted[i] /\ text[i] \in Letters
                                     /\ LastSeen(text, i - 1) \in {"{", ","}
                                     /\ NextSeen(text, end(i) + 1) = ":"}
      ends == {end(i) : i \in starts}
      quote(i, set) == IF i \in set THEN << "\"" >> ELSE << >>
  IN [text |-> FlattenSeq([i \in DOMAIN text |-> quote(i, starts) \o << text[i] >> \o quote(i, ends)]),
      changed |-> starts # {}]

MUT_RemoveCommas(text) ==
  LET trailing == {i \in DOMAIN text : text[i] = "," /\ NextSeen(text, i + 1) \in DOMAIN Opened}
      kept == SelectSeq([i \in DOMAIN text |-> i], LAMBDA i : i \notin trailing)
  IN [text |-> [j \in DOMAIN kept |-> text[kept[j]]], changed |-> trailing # {}]

\* remove_trailing_commas
RemoveCommas(text) ==
  LET quoted == Quoted(text)
      trailing == {i \in DOMAIN text : /\ ~quoted[i] /\ text[i] = ","
                                       /\ NextSeen(text, i + 1) \in DOMAIN Opened}
      kept == SelectSeq([i \in DOMAIN text |-> i], LAMBDA i : i \notin trailing)
  IN [text |-> [j \in DOMAIN kept |-> text[kept[j]]], changed |-> trailing # {}]

\* mechanically_repair_json
Repair(text) ==
  LET quotes == NormalizeQuotes(text)
      keys   == QuoteKeys(quotes.text)
      commas == RemoveCommas(keys.text)
      note(done, what) == IF done THEN {what} ELSE {}
  IN [text  |-> commas.text,
      notes |-> note(quotes.single, "single") \cup note(quotes.unterminated, "unterminated")
                \cup note(keys.changed, "keys") \cup note(commas.changed, "commas")]

----------------------------------------------------------------------------
(* parse_arguments.  Arguments come as a text, maybe in a Markdown fence.  *)

\* strip_json_fence: one that is closed and says json or nothing
Strippable == {"json", "plain"}

(* Json is what parses.  Inside a fence nothing does, and what the repair  *)
(* makes of the fence does not either.                                     *)
ParseArguments(fence, text, Json) ==
  LET repaired == Repair(text)
      stripped == IF fence \in Strippable THEN {"fence"} ELSE {}
  IN IF fence \notin Strippable \cup {"none"} THEN [ok |-> FALSE]
     ELSE IF text \in Json THEN [ok |-> TRUE, value |-> text, notes |-> stripped]
     ELSE IF repaired.text \in Json
          THEN [ok |-> TRUE, value |-> repaired.text, notes |-> stripped \cup repaired.notes]
     ELSE [ok |-> FALSE]
=============================================================================
