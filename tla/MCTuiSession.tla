---------------------------- MODULE MCTuiSession ----------------------------
(* Instances of a TUI session for TLC. *)
EXTENDS TuiSessionProperties

Says(finish, kinds) ==
  [finish |-> finish, calls |-> kinds, text |-> TRUE, exact |-> FALSE, prompt |-> 0]

AnswerOrCall == {Says("Normal", << >>), Says("ToolUse", << "good" >>)}
OnlyAnswer == {Says("Normal", << >>)}
AnswerOrCalls == AnswerOrCall \cup {Says("ToolUse", << "bad", "good" >>)}
NewSession == {<< >>}

(* No route is special. *)
RouteSymmetry == Permutations(Routes)
=============================================================================
