--------------------------- MODULE SessionLedger ---------------------------
(***************************************************************************)
(* The ledger of one chat or TUI session: the events of                    *)
(* nh-core/src/session_ledger.rs, how jsonl.rs appends and reads lines,    *)
(* and what a resume folds out of them.                                    *)
(*                                                                         *)
(* A file is its lines and whether the last one ends in a newline: "part"  *)
(* of a record that is not in lines, or a "whole" record that is the last  *)
(* of lines.  Nothing repairs such a tail.                                 *)
(***************************************************************************)
EXTENDS Naturals, Sequences, SequencesExt

Started(route) == [event |-> "started", route |-> route]
Resumed == [event |-> "resumed"]
RouteSwitched(route) == [event |-> "switched", route |-> route]
Turn(route, messages) == [event |-> "turn", route |-> route, messages |-> messages]
Ended == [event |-> "ended"]

Corrupt == [event |-> "corrupt"]    \* a line with a newline that is not a record

NoFile == [lines |-> << >>, tail |-> "closed"]

(* append_locked_line: the record and a newline go behind whatever is      *)
(* there and share its line.                                               *)
Appended(file, record) ==
  [tail  |-> "closed",
   lines |-> CASE file.tail = "closed" -> Append(file.lines, record)
               [] file.tail = "part"   -> Append(file.lines, Corrupt)
               [] file.tail = "whole"  -> Append(Front(file.lines), Corrupt)]

(* What an append that does not return success can leave.  Behind an open  *)
(* tail every partial write only makes the bad line longer.                *)
Leftover(file, record, kind) ==
  CASE kind = "nothing" -> file
    [] kind = "line"    -> Appended(file, record)
    [] kind = "part"    -> [lines |-> IF file.tail = "whole" THEN Front(file.lines) ELSE file.lines,
                            tail  |-> "part"]
    [] kind = "whole"   -> IF file.tail = "closed"
                             THEN [lines |-> Append(file.lines, record), tail |-> "whole"]
                             ELSE [lines |-> IF file.tail = "whole" THEN Front(file.lines)
                                                                    ELSE file.lines,
                                   tail  |-> "part"]

(* read_session: an invalid last record without a newline is dropped, any  *)
(* other line that is not a record makes the session unreadable.           *)
Readable(file) == \A i \in 1 .. Len(file.lines) : file.lines[i] # Corrupt

(* Lines with an event of these kinds, and the last of them. *)
Holding(file, kinds) == {i \in 1 .. Len(file.lines) : file.lines[i].event \in kinds}
Newest(file, kinds) == file.lines[Max(Holding(file, kinds))]

Resumable(file) == Readable(file) /\ Holding(file, {"started"}) # {}

(* fold_session: a turn extends the history by its messages; the route is  *)
(* that of the last record which names one.                                *)
Messages(e) == IF e.event = "turn" THEN e.messages ELSE << >>
SavedHistory(file) ==
  LET upTo[n \in 0 .. Len(file.lines)] ==
        IF n = 0 THEN << >> ELSE upTo[n - 1] \o Messages(file.lines[n])
  IN  upTo[Len(file.lines)]
SavedRoute(file) == Newest(file, {"started", "switched"}).route

NoSummary == [route |-> "none", turns |-> 0, ended |-> FALSE]
MUT_Summarized(summary, e) ==
  CASE e.event \in {"started", "switched"} -> [summary EXCEPT !.route = e.route]
    [] e.event = "resumed" -> summary
    [] e.event = "turn"    -> [summary EXCEPT !.turns = @ + 1]
    [] e.event = "ended"   -> [summary EXCEPT !.ended = TRUE]
(* SessionSummaryBuilder, which never looks at what a turn said            *)
Summarized(summary, e) ==
  CASE e.event = "started"  -> [summary EXCEPT !.route = e.route, !.ended = FALSE]
    [] e.event = "resumed"  -> [summary EXCEPT !.ended = FALSE]
    [] e.event = "switched" -> [summary EXCEPT !.route = e.route]
    [] e.event = "turn"     -> [summary EXCEPT !.turns = @ + 1]
    [] e.event = "ended"    -> [summary EXCEPT !.ended = TRUE]

Summary(file) ==
  LET upTo[n \in 0 .. Len(file.lines)] ==
        IF n = 0 THEN NoSummary ELSE Summarized(upTo[n - 1], file.lines[n])
  IN  upTo[Len(file.lines)]

(* list_sessions: a file that cannot be read is only counted               *)
Listed(file) == IF Resumable(file) THEN {Summary(file)} ELSE {}

(* list_at shows the sessions that have not ended                          *)
Interrupted(file) == {summary \in Listed(file) : ~summary.ended}
=============================================================================
