------------------------ MODULE TuiSessionProperties ------------------------
(* What a session owes its user, across threads and across processes. *)
EXTENDS TuiSession

Running == phase \in {"connect", "turn", "save", "report"}

Tasks == {i \in 1 .. Len(commands) : commands[i].command = "task"}
Endings == {i \in 1 .. Len(events) : events[i].event \in Ends}

(* The composer is closed exactly as long as one task is somewhere: sent,  *)
(* running, or ended but not shown.  If it opened early two turns would    *)
(* run on one transcript, if it stayed closed the session would be dead.   *)
OneTurnInFlight ==
  ui.status # "gone" =>
    Cardinality(Tasks) + Cardinality(Endings) + (IF Running THEN 1 ELSE 0)
      = (IF ui.inflight THEN 1 ELSE 0)

(* As long as persistence is not reported off, what a resume would restore *)
(* is the worker's transcript up to the turn that is not saved yet: no     *)
(* message, notice or failed turn is missing, doubled or out of order.     *)
SavedIsHistory ==
  up /\ ~ledgerFailed =>
    SavedHistory(ledger) =
      IF phase \in {"turn", "save"} THEN SubSeq(history, 1, before) ELSE history

(* Whatever the user saw the end of survives every crash, quit and resume, *)
(* unless the session had said that persistence is off.                    *)
ShownIsSaved ==
  \A run \in shown :
    \E i \in 1 .. Len(SavedHistory(ledger)) : SavedHistory(ledger)[i] = User(run)

(* The transcript outlives the process, for the model and for the user.    *)
(* A ledger that cannot be read back is what SessionStaysReadable is about. *)
TranscriptSurvives == Readable(ledger) => SavedIsHistory /\ ShownIsSaved

(* "At every provider request: (a) tracked tools and (b) the installed     *)
(* guard derive from the ONE shared mode; (c) the last model-visible mode  *)
(* notice agrees with it" (worker.rs:817), and so while the tools of the   *)
(* reply run.                                                              *)
RequestsAgreeOnMode ==
  pc \in {"send", "wait", "next", "tool", "execute"} =>
    agent.mode = mode /\ LastMode(working) = mode

(* The model is told the route it runs on, and it is the one on the        *)
(* screen, after any switches and resumes.                                 *)
RequestsAgreeOnRoute ==
  pc \in {"send", "wait"} =>
    /\ LastRoute(working) = agent.route
    /\ ui.status # "gone" => ui.route = agent.route

(* Every task the user sends comes back to the screen as an answer, a      *)
(* failure or a cancellation, unless the user leaves an approval open.     *)
TurnsSettle == <>[](ui.status = "waiting") \/ (ui.inflight ~> ~ui.inflight)

(* "Crash-safe, append-only ledgers for interactive chat and TUI sessions" *)
(* (session_ledger.rs:1): the ledger of a session can always be read back. *)
SessionStaysReadable == Readable(ledger)

(* "While work is active, Esc stops the current turn" (TERMINAL_GUIDE.md): *)
(* after the interrupt at most the request or tool that had passed its     *)
(* check starts.                                                           *)
InterruptStopsWork == stop.late <= 1
=============================================================================
