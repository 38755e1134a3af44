-------------------------------- MODULE Chat --------------------------------
(***************************************************************************)
(* One `nh chat` session (nh-cli cmd_chat.rs, cmd_chat/startup.rs) over    *)
(* its ledger: tasks, route switches, what they cost, the key literals     *)
(* that have to stay out of every output, and `nh resume` (cmd_resume.rs). *)
(*                                                                         *)
(* A task is one action: its turns are those of AgentTurn, which runs it   *)
(* for every surface.  A route's key literal and its catalog entry go by   *)
(* the route's name.  Left out: what commands print, and pending images.   *)
(***************************************************************************)
EXTENDS Usage, SessionLedger

CONSTANTS
  ChatRoutes,        \* routes of the catalog
  PricedRoutes,      \* those with a price; the others are local
  Outcomes,          \* bound: how a task ends: ok, the usage of its receipt and the hour
  MaxChatTasks,      \* bound: tasks
  MaxChatSwitches,   \* bound: switches
  MaxChatLaunches,   \* bound: processes
  MaxChatFaults      \* bound: connections and appends that fail

ASSUME ChatAssumption == "none" \notin ChatRoutes /\ PricedRoutes \subseteq ChatRoutes

VARIABLES
  chUp,          \* the process runs
  chRoute,       \* route
  chConnected,
  chAgent,       \* the route agent.client, model_id, thinking and context_limit are for
  chHistory,
  chPending,     \* pending_route_context: the route it names
  chTotals,      \* session_usage, session_cost, incomplete_cost_turns
  chCached,      \* last_cached_tokens: the route of the call it measures
  chKeys,        \* key_literals
  chScrubbers,   \* the literals each way out hides
  chLedger,
  chFailed,      \* ledger_failed
  chQuit,        \* ghost: the last process ended by quitting
  chSpent        \* uses of each bound

chTalk == << chHistory, chPending, chTotals, chCached >>
chLink == << chRoute, chConnected, chAgent, chKeys, chScrubbers >>
chatVars == << chUp, chTalk, chLink, chLedger, chFailed, chQuit, chSpent >>

WaysOut == {"shown lines", "tool results", "receipts", "ledger"}
NoTotals == [usage |-> None, amount |-> 0, bound |-> FALSE, incomplete |-> 0]

Context(route) == [role |-> "system", route |-> route]
Asks(task) == [role |-> "user", task |-> task]
AnsweredTask(task) == [role |-> "assistant", task |-> task]

ChatTurn(route, messages, usage, at) ==
  [event |-> "turn", route |-> route, messages |-> messages, usage |-> usage, at |-> at]

OneMore(what) == [chSpent EXCEPT ![what] = @ + 1]

----------------------------------------------------------------------------
(* Totals.                                                                 *)

\* at is the factor of the hour: an amount counts tokens, those not cached
\* twice; the cache split is an upper bound when it was not reported
CostAt(usage, at) ==
  at * (2 * usage.prompt + usage.completion - (IF usage.cached > 0 THEN usage.cached ELSE 0))

(* add_session_usage *)
CountsUsage(totals, usage) == totals.usage = None \/ Fits(totals.usage, usage)
WithUsage(totals, usage) ==
  IF totals.usage = None THEN [totals EXCEPT !.usage = usage]
  ELSE [totals EXCEPT !.usage = Added(@, usage)]
Incomplete(totals) == [totals EXCEPT !.incomplete = @ + 1]

(* add_session_usage, then add_route_cost *)
AddTurn(totals, route, reported, at) ==
  LET usage   == IF reported = None THEN Unmetered ELSE reported
      counted == WithUsage(totals, usage)
  IN IF ~CountsUsage(totals, usage) THEN Incomplete([totals EXCEPT !.usage.evidence = "partial"])
     ELSE IF route \notin PricedRoutes \/ usage.evidence # "measured" THEN Incomplete(counted)
     ELSE [counted EXCEPT !.amount = @ + CostAt(usage, at), !.bound = @ \/ usage.cached < 0]

MUT_WithLine(totals, e) ==
  IF e.event = "turn" THEN AddTurn(totals, e.route, e.usage, 1) ELSE totals
(* restore_session_totals                                                  *)
WithLine(totals, e) ==
  IF e.event = "turn" THEN AddTurn(totals, e.route, e.usage, e.at) ELSE totals
RestoredTotals(file) ==
  LET upTo[n \in 0 .. Len(file.lines)] ==
        IF n = 0 THEN NoTotals ELSE WithLine(upTo[n - 1], file.lines[n])
  IN  upTo[Len(file.lines)]

----------------------------------------------------------------------------
(* The ledger and the connection.                                          *)

(* append_session_event: after one failure nothing is saved any more *)
Saves(record, spent) ==
  \/ /\ chLedger' = IF chFailed THEN chLedger ELSE Appended(chLedger, record)
     /\ chSpent' = spent
     /\ UNCHANGED chFailed
  \/ /\ ~chFailed /\ chSpent.faults < MaxChatFaults
     /\ \E kind \in {"nothing", "part", "line"} : chLedger' = Leftover(chLedger, record, kind)
     /\ chSpent' = [spent EXCEPT !.faults = @ + 1]
     /\ chFailed' = TRUE

\* The literal is in every scrubber before the client is in use
Install(route) ==
  /\ chKeys' = chKeys \cup {route}
  /\ chScrubbers' = [out \in WaysOut |-> chKeys \cup {route}]
  /\ chAgent' = route /\ chConnected' = TRUE

(* initial_connection; the ledger, receipts and tools start with its keys *)
Starts(route) ==
  /\ chRoute' = route /\ chAgent' = route
  /\ \/ chConnected' = TRUE /\ chKeys' = {route}
     \/ chConnected' = FALSE /\ chKeys' = {}
  /\ chScrubbers' = [out \in WaysOut |-> chKeys']
  /\ chCached' = "none"
  /\ chUp' = TRUE /\ chQuit' = FALSE

ChatInit ==
  /\ chUp = FALSE /\ chConnected = FALSE
  /\ chRoute = "none" /\ chAgent = "none"
  /\ chHistory = << >> /\ chPending = "none"
  /\ chTotals = NoTotals /\ chCached = "none"
  /\ chKeys = {} /\ chScrubbers = [out \in WaysOut |-> {}]
  /\ chLedger = NoFile /\ chFailed = FALSE /\ chQuit = FALSE
  /\ chSpent = [tasks |-> 0, switches |-> 0, launches |-> 0, faults |-> 0]

OpenChat ==
  /\ ~chUp /\ chSpent.launches = 0
  /\ \E route \in ChatRoutes : Starts(route) /\ Saves(Started(route), OneMore("launches"))
  /\ UNCHANGED << chHistory, chPending, chTotals >>

\* open_prepared with what fold_session restores; a torn tail is a turn that
\* nobody can price
ResumeChat ==
  /\ ~chUp /\ Resumable(chLedger) /\ chSpent.launches < MaxChatLaunches
  /\ Starts(SavedRoute(chLedger))
  /\ chHistory' = SavedHistory(chLedger)
  /\ chPending' = IF chHistory' # << >> /\ Newest(chLedger, {"turn"}).route # chRoute'
                  THEN chRoute' ELSE "none"
  /\ chTotals' = IF chLedger.tail = "part"
                 THEN Incomplete(WithUsage(RestoredTotals(chLedger), Unmetered))
                 ELSE RestoredTotals(chLedger)
  /\ Saves(Resumed, OneMore("launches"))

----------------------------------------------------------------------------
(* Commands and tasks.                                                     *)

MUT_CacheAfterSwitch(cached) == cached
CacheAfterSwitch(cached) == "none"

(* /model and /provider; a connection that fails changes nothing *)
SwitchModel ==
  /\ chUp /\ chSpent.switches < MaxChatSwitches
  /\ \E route \in ChatRoutes :
       /\ Install(route)
       /\ chRoute' = route
       /\ chPending' = IF route = chRoute THEN chPending
                       ELSE IF chHistory = << >> THEN "none" ELSE route
       /\ chCached' = CacheAfterSwitch(chCached)
       /\ Saves(RouteSwitched(route), OneMore("switches"))
  /\ UNCHANGED << chUp, chQuit, chHistory, chTotals >>

\* What the task adds: the context of a new route, the constitution that opens
\* a history, and the task with its answer or, when it failed, without one
Said(ok) ==
  LET told == IF chPending # "none" THEN << Context(chPending) >>
              ELSE IF chHistory = << >> THEN << Context(chRoute) >> ELSE << >>
      task == chSpent.tasks + 1
  IN told \o << Asks(task) >> \o (IF ok THEN << AnsweredTask(task) >> ELSE << >>)

(* run_task; without a key the connection is tried again first *)
RunTask ==
  /\ chUp /\ chSpent.tasks < MaxChatTasks
  /\ \/ chConnected /\ UNCHANGED << chAgent, chConnected, chKeys, chScrubbers >>
     \/ ~chConnected /\ Install(chRoute)
  /\ \E end \in Outcomes :
       /\ chHistory' = chHistory \o Said(end.ok)
       /\ chTotals' = AddTurn(chTotals, chRoute, end.usage, end.at)
       /\ chCached' = IF end.ok /\ end.usage # None THEN chRoute ELSE "none"
       /\ Saves(ChatTurn(chRoute, Said(end.ok), end.usage, end.at), OneMore("tasks"))
  /\ chPending' = "none"
  /\ UNCHANGED << chUp, chQuit, chRoute >>

(* What a process keeps ends with it. *)
Gone ==
  /\ chUp' = FALSE /\ chConnected' = FALSE /\ chFailed' = FALSE
  /\ chRoute' = "none" /\ chAgent' = "none" /\ chPending' = "none" /\ chCached' = "none"
  /\ chHistory' = << >> /\ chTotals' = NoTotals
  /\ chKeys' = {} /\ chScrubbers' = [out \in WaysOut |-> {}]

QuitChat ==
  /\ chUp
  /\ chLedger' = IF chFailed THEN chLedger ELSE Appended(chLedger, Ended)
  /\ chQuit' = TRUE
  /\ Gone /\ UNCHANGED chSpent

\* In a task, what was said is lost and its record may be half written
CrashChat ==
  /\ chUp
  /\ \/ UNCHANGED chLedger
     \/ ~chFailed /\ chLedger' = Leftover(chLedger, Ended, "part")
  /\ Gone /\ UNCHANGED << chQuit, chSpent >>

ChatNext ==
  \/ OpenChat \/ ResumeChat \/ SwitchModel \/ RunTask \/ QuitChat \/ CrashChat

ChatSpec == ChatInit /\ [][ChatNext]_chatVars

----------------------------------------------------------------------------
\* The route of the last context the model was told
Contexts(history) == {i \in 1 .. Len(history) : history[i].role = "system"}
RouteTold(history) == history[Max(Contexts(history))].route

(* "History and usage survive route switches" (cmd_chat.rs): as long as    *)
(* its ledger can be read, a session that is resumed now has the history,  *)
(* the route, the tokens and the cost the live one shows, each turn priced *)
(* on its own route and hour; the last context the model is told, or will  *)
(* be told first, is that of the route it runs on; cache evidence is of    *)
(* this route; and no output can show a key that was ever installed.       *)
LiveChatIsSaved ==
  chUp =>
    /\ ~chFailed /\ Readable(chLedger) =>
         /\ chHistory = SavedHistory(chLedger)
         /\ chTotals = RestoredTotals(chLedger)
         /\ chRoute = SavedRoute(chLedger)
    /\ chAgent = chRoute
    /\ chCached \in {"none", chRoute}
    /\ chHistory # << >> => (IF chPending # "none" THEN chPending ELSE RouteTold(chHistory)) = chRoute
    /\ (IF chConnected THEN {chAgent} ELSE {}) \subseteq chKeys
    /\ \A out \in WaysOut : chKeys \subseteq chScrubbers[out]

(* `nh resume` without an id offers a session exactly when it was left by  *)
(* a crash or is still open, under the route and the number of turns that  *)
(* resuming it restores.                                                   *)
ListingIsTrue ==
  /\ \A summary \in Listed(chLedger) :
       summary.route = SavedRoute(chLedger) /\ summary.turns = Cardinality(Holding(chLedger, {"turn"}))
  /\ chSpent.launches > 0 /\ chSpent.faults = 0 /\ Readable(chLedger) =>
       (Interrupted(chLedger) # {}) = ~chQuit

(* A session that was left is found again, and goes on as it was.          *)
ChatResumesFaithfully == LiveChatIsSaved /\ ListingIsTrue
=============================================================================
