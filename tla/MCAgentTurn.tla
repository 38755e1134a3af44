---------------------------- MODULE MCAgentTurn ----------------------------
(* Instances of the turn loop, and of one command it runs, for TLC: the    *)
(* loop sees of a command no more than its result, so a behaviour is about *)
(* one of the two and the other stays as it starts.                        *)
EXTENDS AgentTurnProperties, ExecShell

VARIABLE subject

TurnOrCommand ==
  /\ subject \in {"turn", "command"}
  /\ Init /\ (subject # "turn" => history = << >>)
  /\ ExecInit

Step ==
  \/ subject = "turn" /\ Next /\ UNCHANGED << execVars, subject >>
  \/ subject = "command" /\ ExecNext /\ UNCHANGED << vars, subject >>

\* The loop as in AgentTurn; the calling thread and the clock go on, while the
\* command need not do anything
FairSteps ==
  /\ TurnOrCommand /\ [][Step]_<< vars, execVars, subject >>
  /\ WF_vars(subject = "turn" /\ LoopStep) /\ WF_vars(subject = "turn" /\ ProviderStep)
  /\ WF_execVars(subject = "command" /\ Call) /\ WF_execVars(subject = "command" /\ Tick)

Says(finish, kinds, text, exact, prompt) ==
  [finish |-> finish, calls |-> kinds, text |-> text, exact |-> exact, prompt |-> prompt]

SomeReplies ==
  { Says("Normal", << >>, TRUE, TRUE, 3),
    Says("Normal", << "good" >>, TRUE, FALSE, 0),
    Says("Filtered", << >>, FALSE, TRUE, 3),
    Says("Context", << >>, TRUE, FALSE, 0),
    Says("ToolUse", << "good", "bad" >>, FALSE, TRUE, 20),
    Says("ToolUse", << "bad", "good" >>, TRUE, FALSE, 0),
    Says("Truncated", << "good" >>, FALSE, TRUE, 3) }

SomeOutput == [stdout |-> 2, stderr |-> 0]

Exchange(run) == << User(run), Assistant(run, 1, << >>, TRUE) >>
ToolExchange(run) ==
  << User(run), Assistant(run, 1, << 1 >>, FALSE), ToolResult(run, 1, 1, "ran"),
     Assistant(run, 2, << >>, TRUE) >>

(* Transcripts of sessions resumed from disk; runs before this process are *)
(* numbered down from 0.                                                   *)
NewOrLong ==
  { << >>,
    << System("constitution") >> \o ToolExchange(-3) \o << System("correction") >>
      \o Exchange(-2) \o ToolExchange(-1) \o Exchange(0) }
============================================================================
