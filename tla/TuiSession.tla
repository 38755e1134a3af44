----------------------------- MODULE TuiSession -----------------------------
(***************************************************************************)
(* One full-screen session of nh-tui: the UI thread, the worker thread     *)
(* that runs agent turns, the channels and flags between them, and the     *)
(* session ledger, through crashes, quits and resumes.  The turns are      *)
(* those of AgentTurn, action by action.                                   *)
(*                                                                         *)
(* Left out: usage, budget and costs, reasoning effort and profiles,       *)
(* overlays and the text of the composer beyond "a draft is queued".       *)
(***************************************************************************)
EXTENDS AgentTurn, SessionLedger

CONSTANTS
  Routes,          \* routes of the catalog
  Leftovers,       \* what an interrupted append may leave
  MaxTasks,        \* bound: tasks dispatched
  MaxSwitches,     \* bound: route and mode switches
  MaxCrashes,      \* bound: crashes
  MaxLaunches,     \* bound: processes
  MaxSaveFaults    \* bound: appends to the ledger that fail

(* A session starts with an empty transcript, whatever it resumes later.   *)
ASSUME TuiSessionAssumption ==
  /\ Restored = {<< >>}
  /\ Routes # {}
  /\ "none" \notin Routes
  /\ Leftovers \subseteq {"nothing", "line", "part", "whole"}
  /\ \A bound \in {MaxTasks, MaxSwitches, MaxCrashes, MaxLaunches, MaxSaveFaults} : bound \in Nat

VARIABLES
  up,          \* a process has the session
  ui,          \* App: status, turn_in_flight, pending_send, session_allow not empty,
               \* route, and whether Interrupt is still to be handled
  commands,    \* the channel of WorkerCommand
  events,      \* the channel of AgentEvent
  question,    \* the reply channel of the approval the worker waits for
  mode,        \* SharedMode
  shutdown,    \* Worker::shutdown
  phase,       \* what the worker thread does next
  agent,       \* WorkerSession: mode of the installed tools and guard, route,
               \* pending_route_changed, connected
  before,      \* history_before
  ledger,      \* the session's file
  ledgerFailed,
  shown,       \* auxiliary: runs whose end the user saw while the ledger was good
  uses         \* uses of each bound

screen  == << ui, shown >>
channel == << commands, events, question, mode, shutdown >>
worker  == << phase, agent, before, ledgerFailed >>
disk    == << ledger >>
session == << up, screen, channel, worker, disk, uses >>
all     == << vars, session >>

Modes == {"Plan", "Change"}

Status == {"idle", "working", "finishing", "waiting", "blocked", "gone"}
Phases == {"start", "idle", "connect", "turn", "save", "report", "end", "off"}

Task == [command |-> "task"]
SwitchRoute(route) == [command |-> "switch", route |-> route]
ModeChanged == [command |-> "mode"]
Stop == [command |-> "stop"]

(* saved: no notice that persistence is off was sent before this event. *)
Event(kind, run, saved) == [event |-> kind, run |-> run, saved |-> saved]
Ends == {"answer", "cancelled", "failed"}

FreshUi(route) ==
  [status |-> "idle", inflight |-> FALSE, queued |-> FALSE, allow |-> FALSE,
   route |-> route, cancelling |-> FALSE]

Spend(what) == uses' = [uses EXCEPT ![what] = @ + 1]

----------------------------------------------------------------------------
(* Notices: the constitution and the corrections say the route and the     *)
(* mode, or leave one of them unsaid.                                      *)

Notice(route, m) == [route |-> route, mode |-> m]

(* mode_identity_constitution *)
Constitution(route, m) == Notice(route, IF m = "Plan" THEN "Plan" ELSE "none")

Notices(h, field) == {i \in 1 .. Len(h) : h[i].role = "system" /\ h[i].says[field] # "none"}
LastSaid(h, field, default) ==
  IF Notices(h, field) = {} THEN default ELSE h[Max(Notices(h, field))].says[field]

LastMode(h) == LastSaid(h, "mode", "Change")
LastRoute(h) == LastSaid(h, "route", "none")

(* append_context: an empty history stays empty. *)
WithContext(h) ==
  LET told == IF h # << >> /\ agent.routeChanged
                THEN Append(h, System(Constitution(agent.route, mode))) ELSE h
  IN  IF told # << >> /\ LastMode(told) # mode
        THEN Append(told, System(Notice("none", mode))) ELSE told

----------------------------------------------------------------------------

TuiInit ==
  /\ Init
  /\ up = TRUE
  /\ mode = "Change"
  /\ \E route \in Routes, connected \in BOOLEAN :
       /\ ui = FreshUi(route)
       /\ agent = [mode |-> "Change", route |-> route, routeChanged |-> FALSE,
                   connected |-> connected]
  /\ commands = << >>
  /\ events = << >>
  /\ question = "none"
  /\ shutdown = FALSE
  /\ phase = "start"
  /\ before = 0
  /\ ledger = NoFile
  /\ ledgerFailed = FALSE
  /\ shown = {}
  /\ uses = [tasks |-> 0, switches |-> 0, crashes |-> 0, launches |-> 1, faults |-> 0]

----------------------------------------------------------------------------
(* The UI thread: keys *)

(* An Interrupt is handled before the next key or event is looked at. *)
Attentive == ui.status # "gone" /\ ~ui.cancelling

Resting == ui.status \in {"idle", "blocked"}

MUT_CanDispatchFinishing == ui.status \in {"idle", "blocked", "finishing"}
CanDispatch == Resting

(* App::dispatch, and the command it leads to. *)
Dispatch ==
  /\ ui' = [ui EXCEPT !.status = "working", !.inflight = TRUE, !.queued = FALSE]
  /\ commands' = Append(commands, Task)
  /\ stop' = NotAsked
  /\ Spend("tasks")

Submit ==
  /\ Attentive
  /\ CanDispatch
  /\ uses.tasks < MaxTasks
  /\ Dispatch
  /\ UNCHANGED << talk, pc, tally, result, cached, outside, spent, up, shown, events,
                  question, mode, shutdown, worker, disk >>

(* Enter while the agent works queues the draft; emptying it takes it back. *)
QueueDraft ==
  /\ Attentive
  /\ ~Resting
  /\ uses.tasks < MaxTasks
  /\ ~ui.queued
  /\ ui' = [ui EXCEPT !.queued = TRUE]
  /\ UNCHANGED << vars, up, shown, channel, worker, disk, uses >>

DropDraft ==
  /\ Attentive
  /\ ui.queued
  /\ ui' = [ui EXCEPT !.queued = FALSE]
  /\ UNCHANGED << vars, up, shown, channel, worker, disk, uses >>

MUT_InterruptKeepsApproval ==
  /\ Attentive
  /\ ui.status \in {"working", "waiting"}
  /\ spent.cancels < MaxCancels
  /\ ui' = [ui EXCEPT !.status = "finishing", !.cancelling = TRUE]
  /\ UNCHANGED << vars, up, shown, channel, worker, disk, uses >>
(* Esc or Ctrl+C during a turn: an approval on the screen is declined, and *)
(* only then the cancel flag is set.                                       *)
Interrupt ==
  /\ Attentive
  /\ ui.status \in {"working", "waiting"}
  /\ spent.cancels < MaxCancels
  /\ ui' = [ui EXCEPT !.status = "finishing", !.cancelling = TRUE]
  /\ question' = IF ui.status = "waiting" THEN "no" ELSE question
  /\ UNCHANGED << vars, up, shown, commands, events, mode, shutdown, worker, disk, uses >>

CancelTurn ==
  /\ ui.cancelling
  /\ ui' = [ui EXCEPT !.cancelling = FALSE]
  /\ cancel' = TRUE
  /\ stop' = [stop EXCEPT !.asked = TRUE]
  /\ spent' = [spent EXCEPT !.cancels = @ + 1]
  /\ UNCHANGED << talk, pc, tally, result, cached, receipts, up, shown, channel, worker,
                  disk, uses >>

(* F2, F3 (for identical commands from now on) and F4 *)
AnswerApproval(approved, always) ==
  /\ Attentive
  /\ ui.status = "waiting"
  /\ ui' = [ui EXCEPT !.status = "working", !.allow = @ \/ always]
  /\ question' = IF approved THEN "yes" ELSE "no"
  /\ UNCHANGED << vars, up, shown, commands, events, mode, shutdown, worker, disk, uses >>

Approve == AnswerApproval(TRUE, FALSE) \/ AnswerApproval(TRUE, TRUE)
Decline == AnswerApproval(FALSE, FALSE)

MUT_CanSwitchModeAlways == TRUE
CanSwitchMode == ~ui.inflight /\ Resting

SwitchMode ==
  /\ Attentive
  /\ CanSwitchMode
  /\ uses.switches < MaxSwitches
  /\ \E other \in Modes \ {mode} : mode' = other
  /\ commands' = Append(commands, ModeChanged)
  /\ Spend("switches")
  /\ UNCHANGED << vars, up, screen, events, question, shutdown, worker, disk >>

SwitchTo(route) ==
  /\ Attentive
  /\ Resting
  /\ uses.switches < MaxSwitches
  /\ ui' = [ui EXCEPT !.route = route]
  /\ commands' = Append(commands, SwitchRoute(route))
  /\ Spend("switches")
  /\ UNCHANGED << vars, up, shown, events, question, mode, shutdown, worker, disk >>

(* The user leaves, or the terminal fails: the pending approval and the    *)
(* event channel are dropped, the flag is set and Stop is sent.            *)
Quit ==
  /\ Attentive
  /\ ui' = [FreshUi(ui.route) EXCEPT !.status = "gone"]
  /\ events' = << >>
  /\ question' = IF question = "asked" THEN "no" ELSE question
  /\ shutdown' = TRUE
  /\ commands' = Append(commands, Stop)
  /\ UNCHANGED << vars, up, shown, mode, worker, disk, uses >>

UserStep ==
  \/ Submit \/ QueueDraft \/ DropDraft \/ Interrupt
  \/ Approve \/ Decline
  \/ SwitchMode \/ (\E route \in Routes : SwitchTo(route)) \/ Quit

----------------------------------------------------------------------------
(* The UI thread: events of the worker *)

NextEvent(kinds) == Attentive /\ events # << >> /\ Head(events).event \in kinds

(* An approval is answered by a rule of the session or shown. *)
HandleApproval ==
  /\ NextEvent({"approval"})
  /\ events' = Tail(events)
  /\ \/ /\ ui.allow
        /\ question' = "yes"
        /\ ui' = [ui EXCEPT !.status = "working"]
     \/ /\ ui' = [ui EXCEPT !.status = "waiting"]
        /\ UNCHANGED question
  /\ UNCHANGED << vars, up, shown, commands, mode, shutdown, worker, disk, uses >>

Show == shown' = IF Head(events).saved THEN shown \cup {Head(events).run} ELSE shown

SettledStatus(kind) == IF kind = "failed" THEN "blocked" ELSE "idle"

(* A normal answer sends the queued draft, unless the turn was interrupted. *)
HandleAnswer ==
  /\ NextEvent({"answer"})
  /\ ui.queued /\ ui.status = "working"
  /\ events' = Tail(events)
  /\ Show
  /\ Dispatch
  /\ UNCHANGED << talk, pc, tally, result, cached, outside, spent, up, question, mode,
                  shutdown, worker, disk >>

HandleEnd ==
  /\ NextEvent(Ends)
  /\ ~(Head(events).event = "answer" /\ ui.queued /\ ui.status = "working")
  /\ events' = Tail(events)
  /\ Show
  /\ ui' = [ui EXCEPT !.inflight = FALSE, !.status = SettledStatus(Head(events).event)]
  /\ UNCHANGED << vars, up, commands, question, mode, shutdown, worker, disk, uses >>

UiStep == CancelTurn \/ HandleApproval \/ HandleAnswer \/ HandleEnd

----------------------------------------------------------------------------
(* The worker thread *)

(* A sender whose receiver is gone is ignored. *)
Emit(e) == events' = IF ui.status = "gone" THEN << >> ELSE Append(events, e)

(* append_session_event: after a failure nothing is saved any more. *)
Record(record) ==
  \/ /\ ledgerFailed
     /\ UNCHANGED << ledger, ledgerFailed, uses >>
  \/ /\ ~ledgerFailed
     /\ ledger' = Appended(ledger, record)
     /\ UNCHANGED << ledgerFailed, uses >>
  \/ /\ ~ledgerFailed
     /\ uses.faults < MaxSaveFaults
     /\ \E kind \in Leftovers : ledger' = Leftover(ledger, record, kind)
     /\ ledgerFailed' = TRUE
     /\ Spend("faults")

Lifecycle == IF Holding(ledger, {"started"}) = {} THEN Started(agent.route) ELSE Resumed

StartSession ==
  /\ phase = "start"
  /\ Record(Lifecycle)
  /\ phase' = "idle"
  /\ UNCHANGED << vars, up, screen, channel, agent, before >>

NextCommand(kind) ==
  phase = "idle" /\ ~shutdown /\ commands # << >> /\ Head(commands).command = kind

TakeMode ==
  /\ NextCommand("mode")
  /\ commands' = Tail(commands)
  /\ agent' = [agent EXCEPT !.mode = mode]
  /\ UNCHANGED << vars, up, screen, events, question, mode, shutdown, phase, before,
                  ledgerFailed, disk, uses >>

MUT_TakeSwitchForgets ==
  /\ NextCommand("switch")
  /\ commands' = Tail(commands)
  /\ cached' = << >>
  /\ LET route == Head(commands).route
     IN  /\ \E connected \in BOOLEAN :
              agent' = [agent EXCEPT !.route = route, !.connected = connected,
                                     !.routeChanged = agent.route # route]
         /\ Record(RouteSwitched(route))
  /\ UNCHANGED << talk, pc, tally, result, outside, bounds, up, screen, events, question,
                  mode, shutdown, phase, before >>
TakeSwitch ==
  /\ NextCommand("switch")
  /\ commands' = Tail(commands)
  /\ cached' = << >>
  /\ LET route == Head(commands).route
     IN  /\ \E connected \in BOOLEAN :
              agent' = [agent EXCEPT !.route = route, !.connected = connected,
                                     !.routeChanged = @ \/ agent.route # route]
         /\ Record(RouteSwitched(route))
  /\ UNCHANGED << talk, pc, tally, result, outside, bounds, up, screen, events, question,
                  mode, shutdown, phase, before >>

(* run_task clears the cancel flag and connects if it has to. *)
TakeTask ==
  /\ NextCommand("task")
  /\ commands' = Tail(commands)
  /\ cancel' = FALSE
  /\ phase' = "connect"
  /\ UNCHANGED << talk, pc, tally, result, cached, receipts, bounds, up, screen, events,
                  question, mode, shutdown, agent, before, ledgerFailed, disk, uses >>

ConnectFails ==
  /\ phase = "connect"
  /\ ~agent.connected
  /\ cached' = << >>
  /\ phase' = IF shutdown THEN "end" ELSE "idle"
  /\ IF shutdown THEN UNCHANGED events ELSE Emit(Event("failed", 0, FALSE))
  /\ UNCHANGED << talk, pc, tally, result, outside, bounds, up, screen, commands, question,
                  mode, shutdown, agent, before, ledgerFailed, disk, uses >>

MUT_StartTurnCountsNotices ==
  /\ phase = "connect"
  /\ agent' = [agent EXCEPT !.mode = mode, !.routeChanged = FALSE, !.connected = TRUE]
  /\ before' = Len(WithContext(history))
  /\ Open(WithContext(history), Constitution(agent.route, mode))
  /\ phase' = "turn"
  /\ UNCHANGED << cached, outside, stop, up, screen, channel, ledgerFailed, disk, uses >>
(* The tools, the guard, the constitution and the notices of the turn all  *)
(* come from the mode as it is now.                                        *)
StartTurn ==
  /\ phase = "connect"
  /\ agent' = [agent EXCEPT !.mode = mode, !.routeChanged = FALSE, !.connected = TRUE]
  /\ before' = Len(history)
  /\ Open(WithContext(history), Constitution(agent.route, mode))
  /\ phase' = "turn"
  /\ UNCHANGED << cached, outside, stop, up, screen, channel, ledgerFailed, disk, uses >>

LoopTurns ==
  /\ phase = "turn"
  /\ \/ OutOfTurns \/ StopAtTop \/ PrepareRequest
     \/ ClientRefuses \/ (~shutdown /\ ClientAccepts) \/ Send
     \/ CallsDone \/ StopBeforeCall \/ TakeCall
     \/ RefuseCall \/ SkipCall \/ AllowCall
     \/ WriteReceipt \/ ReceiptFails
  /\ UNCHANGED session

(* WorkerAwareClient looks at the shutdown flag as well. *)
ClientStops ==
  phase = "turn" /\ pc = "request" /\ shutdown /\ RequestFails /\ UNCHANGED session

ProviderAnswers == phase = "turn" /\ ProviderStep /\ UNCHANGED session

(* A tool that needs no approval *)
RunTool == phase = "turn" /\ question = "none" /\ Execute /\ UNCHANGED session

(* A tool that does; in Plan mode there is none. *)
Ask ==
  /\ phase = "turn"
  /\ pc = "execute"
  /\ question = "none"
  /\ agent.mode = "Change"
  /\ ~shutdown
  /\ question' = "asked"
  /\ Emit(Event("approval", Run, FALSE))
  /\ UNCHANGED << vars, up, screen, commands, mode, shutdown, worker, disk, uses >>

Asking(answers) == phase = "turn" /\ pc = "execute" /\ question \in answers

Settled == question' = "none"
             /\ UNCHANGED << up, screen, commands, events, mode, shutdown, worker, disk, uses >>

Declined ==
  /\ \/ Asking({"no"})
     \/ shutdown /\ Asking({"none", "asked", "yes"})
  /\ Answer("refused")
  /\ Settled
  /\ UNCHANGED stop

(* An approved command looks at the cancel flag before it starts. *)
Approved ==
  /\ Asking({"yes"})
  /\ ~shutdown
  /\ IF cancel THEN Answer("skipped") /\ UNCHANGED stop ELSE Execute
  /\ Settled

EndTurn ==
  /\ phase = "turn"
  /\ Return
  /\ phase' = "save"
  /\ UNCHANGED << up, screen, channel, agent, before, ledgerFailed, disk, uses >>

TurnRecord == Turn(agent.route, SubSeq(history, before + 1, Len(history)))

SaveTurn ==
  /\ phase = "save"
  /\ Record(TurnRecord)
  /\ phase' = "report"
  /\ UNCHANGED << vars, up, screen, channel, agent, before >>

MUT_ReportUnnoticed(kind) ==
  /\ Emit(Event(kind, Run, TRUE))
  /\ phase' = "idle"
  /\ UNCHANGED << vars, up, screen, commands, question, mode, shutdown, before,
                  ledgerFailed, disk, uses >>
Report(kind) ==
  /\ Emit(Event(kind, Run, ~ledgerFailed))
  /\ phase' = "idle"
  /\ UNCHANGED << vars, up, screen, commands, question, mode, shutdown, before,
                  ledgerFailed, disk, uses >>

ReportCancelled == phase = "report" /\ cancel /\ Report("cancelled") /\ UNCHANGED agent

ReportAnswer ==
  phase = "report" /\ ~cancel /\ ~shutdown /\ ~failed /\ Report("answer") /\ UNCHANGED agent

(* A refused credential is asked for again before the next turn. *)
ReportFailure ==
  /\ phase = "report" /\ ~cancel /\ ~shutdown /\ failed
  /\ Report("failed")
  /\ \E connected \in BOOLEAN : agent' = [agent EXCEPT !.connected = connected]

(* The loop ends at a shutdown: after a turn, or at the next command. *)
Leave ==
  /\ shutdown
  /\ \/ phase = "report" /\ ~cancel
     \/ phase = "idle"
  /\ phase' = "end"
  /\ UNCHANGED << vars, up, screen, channel, agent, before, ledgerFailed, disk, uses >>

EndSession ==
  /\ phase = "end"
  /\ Record(Ended)
  /\ phase' = "off"
  /\ UNCHANGED << vars, up, screen, channel, agent, before >>

WorkerStep ==
  \/ StartSession \/ TakeMode \/ TakeSwitch \/ TakeTask \/ ConnectFails \/ StartTurn
  \/ LoopTurns \/ ClientStops \/ RunTool \/ Ask \/ Declined \/ Approved
  \/ EndTurn \/ SaveTurn \/ ReportCancelled \/ ReportAnswer \/ ReportFailure
  \/ Leave \/ EndSession

----------------------------------------------------------------------------
(* Processes *)

Forget ==
  /\ up' = FALSE
  /\ ui' = [FreshUi(ui.route) EXCEPT !.status = "gone"]
  /\ commands' = << >>
  /\ events' = << >>
  /\ question' = "none"
  /\ shutdown' = FALSE
  /\ phase' = "off"
  /\ before' = 0
  /\ ledgerFailed' = FALSE
  /\ history' = << >>
  /\ working' = << >>
  /\ appended' = << >>
  /\ pc' = "idle"
  /\ turns' = 0
  /\ calls' = << >>
  /\ measured' = 0
  /\ compacted' = FALSE
  /\ failed' = FALSE
  /\ result' = NoResult
  /\ cached' = << >>
  /\ cancel' = FALSE
  /\ stop' = NotAsked
  /\ UNCHANGED << receipts, spent, mode, agent, shown >>

Unfinished ==     \* the append a thread may be in
  CASE phase = "start" -> {Lifecycle}
    [] phase = "save"  -> {TurnRecord}
    [] phase = "end"   -> {Ended}
    [] NextCommand("switch") -> {RouteSwitched(Head(commands).route)}
    [] OTHER           -> {}

(* A process that goes away in the middle of an append. *)
CutOff ==
  \/ UNCHANGED ledger
  \/ /\ ~ledgerFailed
     /\ \E record \in Unfinished, kind \in Leftovers :
          ledger' = Leftover(ledger, record, kind)

Crash ==
  /\ up
  /\ uses.crashes < MaxCrashes
  /\ Forget
  /\ CutOff
  /\ Spend("crashes")

(* The main thread waits 250 ms for the worker and then leaves it behind. *)
Exit ==
  /\ up
  /\ ui.status = "gone"
  /\ Forget
  /\ CutOff
  /\ UNCHANGED uses

Resume ==
  /\ ~up
  /\ uses.launches < MaxLaunches
  /\ Resumable(ledger)
  /\ up' = TRUE
  /\ history' = SavedHistory(ledger)
  /\ mode' = LastMode(SavedHistory(ledger))
  /\ ui' = FreshUi(SavedRoute(ledger))
  /\ \E connected \in BOOLEAN :
       agent' = [mode |-> LastMode(SavedHistory(ledger)),
                 route |-> SavedRoute(ledger),
                 routeChanged |-> Holding(ledger, {"turn"}) # {}
                                    /\ Newest(ledger, {"turn"}).route # SavedRoute(ledger),
                 connected |-> connected]
  /\ phase' = "start"
  /\ Spend("launches")
  /\ UNCHANGED << working, appended, pc, tally, result, cached, outside, bounds, shown,
                  commands, events, question, shutdown, before, ledgerFailed, disk >>

----------------------------------------------------------------------------

TuiNext == UserStep \/ UiStep \/ WorkerStep \/ ProviderAnswers \/ Crash \/ Exit \/ Resume

TuiSpec == TuiInit /\ [][TuiNext]_all

(* Both threads run, timeouts bound requests and tools.  Nothing is        *)
(* assumed of the user.                                                    *)
TuiFairSpec ==
  TuiSpec /\ WF_all(UiStep) /\ WF_all(WorkerStep) /\ WF_all(ProviderAnswers)
=============================================================================
