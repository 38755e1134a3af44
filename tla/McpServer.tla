----------------------------- MODULE McpServer -----------------------------
(***************************************************************************)
(* The loopback MCP server: one thread accepts requests one at a time; a   *)
(* fleet_run call claims one of MaxActive slots and hands the run to a     *)
(* thread of its own, which shares the run's lock and ledger with any      *)
(* `nh fleet resume` of the same id.                                       *)
(***************************************************************************)
EXTENDS Naturals, FiniteSets, McpProtocol

CONSTANTS
  MaxRuns,     \* bound: run ids that new_run_id mints
  MaxActive,   \* MAX_ACTIVE_RUNS
  MaxRunMishaps   \* bound: failed creations, runs that end or hang without a record

ASSUME ServerAssumption == MaxRuns \in Nat /\ MaxActive \in Nat \ {0} /\ MaxRunMishaps \in Nat

VARIABLES
  svPhase,     \* what the accept loop is doing
  svStop,      \* the shutdown flag
  svActive,    \* active_runs
  svRun,       \* the run the call in hand is about
  svSeen,      \* the ledger lines fleet_status has read
  svReply,     \* the answer just sent
  svTold,      \* runs a caller was told have started
  svDirs,      \* run directories that exist
  svThread,    \* each run's thread
  svResume,    \* a resume of each run from the command line
  svLock,      \* who holds each run's coordinator.lock
  svLedger,    \* the run events in each ledger
  svMishaps,
  svLost       \* ghost: runs whose thread or resume was lost without a record

serverVars == <<svPhase, svStop, svActive, svRun, svSeen, svReply, svTold, svDirs,
                svThread, svResume, svLock, svLedger, svMishaps, svLost>>
callVars == <<svPhase, svActive, svRun, svSeen, svReply, svTold>>
runVars  == <<svThread, svResume, svLock, svLedger, svLost>>

NoRun == 0
\* An id is known by when it was minted; new_run_id never repeats one
RunId == 1 .. MaxRuns
Fresh == Cardinality(svDirs) + 1
Nothing == [tool |-> "none", verdict |-> "none"]
Settling == {"finished", "failed"}

ServerInit ==
  /\ svPhase = "accepting" /\ svStop = FALSE
  /\ svActive = 0 /\ svRun = NoRun /\ svSeen = {} /\ svReply = Nothing
  /\ svTold = {} /\ svDirs = {}
  /\ svThread = [r \in RunId |-> "none"]
  /\ svResume = [r \in RunId |-> "none"]
  /\ svLock = [r \in RunId |-> "free"]
  /\ svLedger = [r \in RunId |-> {}]
  /\ svMishaps = 0 /\ svLost = {}

----------------------------------------------------------------------------
(* The accept loop and its handlers.                                       *)

Answer(tool, verdict) ==
  /\ svPhase' = "accepting" /\ svRun' = NoRun /\ svSeen' = {}
  /\ svReply' = [tool |-> tool, verdict |-> verdict]

Accepting == svPhase = "accepting" /\ ~svStop

\* A request that never reaches a tool changes nothing
Refuse(q) ==
  /\ Accepting /\ Verdict(q) # "call"
  /\ Answer("none", "refused")
  /\ UNCHANGED <<svStop, svActive, svTold, svDirs, runVars, svMishaps>>

\* route_resolve, why, route_cost and receipts read and answer
ReadOnlyCall(q) ==
  /\ Accepting /\ Verdict(q) = "call" /\ q.tool \notin {"fleet_run", "fleet_status"}
  /\ Answer("read", "answered")
  /\ UNCHANGED <<svStop, svActive, svTold, svDirs, runVars, svMishaps>>

\* Empty tasks, a missing, zero or too large budget, no workers
FleetRunMalformed(q) ==
  /\ Accepting /\ Verdict(q) = "call" /\ q.tool = "fleet_run" /\ ~q.wellFormed
  /\ Answer("fleet_run", "error")
  /\ UNCHANGED <<svStop, svActive, svTold, svDirs, runVars, svMishaps>>

\* fetch_add comes first and decides by the value it found
Claim(q) ==
  /\ Accepting /\ Verdict(q) = "call" /\ q.tool = "fleet_run" /\ q.wellFormed
  /\ svPhase' = IF svActive >= MaxActive THEN "busy" ELSE "claimed"
  /\ svActive' = svActive + 1 /\ svReply' = Nothing
  /\ UNCHANGED <<svStop, svRun, svSeen, svTold, svDirs, runVars, svMishaps>>

MUT_BusyKeepsSlot ==
  /\ svPhase = "busy"
  /\ Answer("fleet_run", "busy")
  /\ UNCHANGED <<svStop, svActive, svTold, svDirs, runVars, svMishaps>>

Busy ==
  /\ svPhase = "busy"
  /\ svActive' = svActive - 1
  /\ Answer("fleet_run", "busy")
  /\ UNCHANGED <<svStop, svTold, svDirs, runVars, svMishaps>>

\* A catalog, route or credential that preflight refuses; the guard gives the slot back
PreflightFails ==
  /\ svPhase = "claimed"
  /\ svActive' = svActive - 1
  /\ Answer("fleet_run", "error")
  /\ UNCHANGED <<svStop, svTold, svDirs, runVars, svMishaps>>

MUT_PrepareWithoutDir ==
  /\ svPhase = "claimed"
  /\ Fresh \in RunId
  /\ svRun' = Fresh /\ svPhase' = "prepared"
  /\ UNCHANGED <<svStop, svActive, svSeen, svReply, svTold, svDirs, runVars, svMishaps>>

\* The directory is there before anything is answered
Prepare ==
  /\ svPhase = "claimed"
  /\ Fresh \in RunId
  /\ svRun' = Fresh /\ svPhase' = "prepared"
  /\ svDirs' = svDirs \cup {Fresh}
  /\ UNCHANGED <<svStop, svActive, svSeen, svReply, svTold, runVars, svMishaps>>

PrepareFails ==
  /\ svPhase = "claimed" /\ svMishaps < MaxRunMishaps
  /\ svMishaps' = svMishaps + 1
  /\ svActive' = svActive - 1
  /\ Answer("fleet_run", "error")
  /\ UNCHANGED <<svStop, svTold, svDirs, runVars>>

\* The guard moves into the thread
SpawnThread ==
  /\ svPhase = "prepared"
  /\ svThread' = [svThread EXCEPT ![svRun] = "starting"]
  /\ svPhase' = "spawned"
  /\ UNCHANGED <<svStop, svActive, svRun, svSeen, svReply, svTold, svDirs,
                 svResume, svLock, svLedger, svMishaps, svLost>>

\* The closure is dropped, and the guard with it; the directory stays
SpawnFails ==
  /\ svPhase = "prepared" /\ svMishaps < MaxRunMishaps
  /\ svMishaps' = svMishaps + 1
  /\ svActive' = svActive - 1
  /\ Answer("fleet_run", "error")
  /\ UNCHANGED <<svStop, svTold, svDirs, runVars>>

Tell ==
  /\ svPhase = "spawned"
  /\ svTold' = svTold \cup {svRun}
  /\ Answer("fleet_run", "started")
  /\ UNCHANGED <<svStop, svActive, svDirs, runVars, svMishaps>>

\* fleet_status reads the ledger, and only then looks for the directory; a look may fail
ReadLedger(q) ==
  /\ Accepting /\ Verdict(q) = "call" /\ q.tool = "fleet_status"
  /\ \E r \in RunId : svRun' = r /\ svSeen' = svLedger[r]
  /\ svPhase' = "reading" /\ svReply' = Nothing
  /\ UNCHANGED <<svStop, svActive, svTold, svDirs, runVars, svMishaps>>

StateOf(seen) ==
  CASE "finished" \in seen -> "finished"
    [] "finished" \notin seen /\ "failed" \in seen -> "failed"
    [] seen = {} -> "starting"
    [] OTHER -> "running"

Status ==
  /\ svPhase = "reading"
  /\ svPhase' = "accepting" /\ svRun' = NoRun /\ svSeen' = {}
  /\ \E verdict \in {IF svRun \in svDirs THEN StateOf(svSeen) ELSE "unknown", "error"} :
       svReply' = [tool |-> "fleet_status", run |-> svRun, verdict |-> verdict]
  /\ UNCHANGED <<svStop, svActive, svTold, svDirs, runVars, svMishaps>>

Shutdown ==
  /\ ~svStop /\ svStop' = TRUE
  /\ UNCHANGED <<callVars, svDirs, runVars, svMishaps>>

\* The loop looks at the flag between requests; run threads are not joined
Close ==
  /\ svStop /\ svPhase = "accepting"
  /\ svPhase' = "closed"
  /\ UNCHANGED <<svStop, svActive, svRun, svSeen, svReply, svTold, svDirs, runVars, svMishaps>>

----------------------------------------------------------------------------
(* A run's thread: nh_fleet::run_with_id under the guard.                  *)

ThreadAt(r, at) == svThread[r] = at
Go(r, to) == svThread' = [svThread EXCEPT ![r] = to]
Write(r, events) == svLedger' = [svLedger EXCEPT ![r] = @ \cup events]
Lock(r, who) == svLock' = [svLock EXCEPT ![r] = who]
Lose(r) ==
  /\ svMishaps < MaxRunMishaps /\ svMishaps' = svMishaps + 1
  /\ svLost' = svLost \cup {r}

TakeLock(r) ==
  /\ ThreadAt(r, "starting") /\ svLock[r] = "free"
  /\ Lock(r, "thread") /\ Go(r, "locked")
  /\ svDirs' = svDirs \cup {r}
  /\ UNCHANGED <<callVars, svStop, svResume, svLedger, svMishaps, svLost>>

\* A new run does not wait for the lock
LockTaken(r) ==
  /\ ThreadAt(r, "starting") /\ svLock[r] # "free"
  /\ Go(r, "returned")
  /\ UNCHANGED <<callVars, svStop, svDirs, svResume, svLock, svLedger, svMishaps, svLost>>

\* A ledger that has lines is refused without another line
RefuseLedger(r) ==
  /\ ThreadAt(r, "locked") /\ svLedger[r] # {}
  /\ Go(r, "returned") /\ Lock(r, "free")
  /\ UNCHANGED <<callVars, svStop, svDirs, svResume, svLedger, svMishaps, svLost>>

StartRun(r) ==
  /\ ThreadAt(r, "locked") /\ svLedger[r] = {}
  /\ Write(r, {"started"}) /\ Go(r, "running")
  /\ UNCHANGED <<callVars, svStop, svDirs, svResume, svLock, svMishaps, svLost>>

\* An error on the way in, while it runs or behind run_finished (the index)
\* is recorded before the lock is let go
EndRun(r) ==
  /\ \/ ThreadAt(r, "locked") /\ Write(r, {"failed"})
     \/ ThreadAt(r, "running") /\ \E ends \in SUBSET Settling \ {{}} : Write(r, ends)
  /\ Go(r, "returned") /\ Lock(r, "free")
  /\ UNCHANGED <<callVars, svStop, svDirs, svResume, svMishaps, svLost>>

\* An error before the lock is held is returned, and recorded nowhere
FailsUnlocked(r) ==
  /\ ThreadAt(r, "starting") /\ Lose(r) /\ Go(r, "returned")
  /\ UNCHANGED <<callVars, svStop, svDirs, svResume, svLock, svLedger>>

\* append_run_failed fails as well or writes behind a torn line (run
\* fleet_torn_tail), or the thread panics and unwinds
EndsUnrecorded(r) ==
  /\ svThread[r] \in {"locked", "running"} /\ Lose(r)
  /\ Go(r, "returned") /\ Lock(r, "free")
  /\ UNCHANGED <<callVars, svStop, svDirs, svResume, svLedger>>

\* A worker of the run panicked and its coordinator waits on (run fleet_panic)
RunHangs(r) ==
  /\ ThreadAt(r, "running") /\ Lose(r) /\ Go(r, "hanging")
  /\ UNCHANGED <<callVars, svStop, svDirs, svResume, svLock, svLedger>>

DropGuard(r) ==
  /\ ThreadAt(r, "returned")
  /\ svActive' = svActive - 1 /\ Go(r, "gone")
  /\ UNCHANGED <<svPhase, svRun, svSeen, svReply, svTold, svStop, svDirs,
                 svResume, svLock, svLedger, svMishaps, svLost>>

----------------------------------------------------------------------------
(* `nh fleet resume` of a run whose directory can be seen.                 *)

Resume(r) ==
  /\ svResume[r] = "none" /\ r \in svDirs /\ svLock[r] = "free"
  /\ Lock(r, "resume") /\ svResume' = [svResume EXCEPT ![r] = "locked"]
  /\ UNCHANGED <<callVars, svStop, svDirs, svThread, svLedger, svMishaps, svLost>>

ResumeReturns(r) ==
  /\ svResume' = [svResume EXCEPT ![r] = "over"] /\ Lock(r, "free")
  /\ UNCHANGED <<callVars, svStop, svDirs, svThread>>

MUT_ResumeFailsQuietly(r) ==
  /\ svResume[r] = "locked" /\ "started" \notin svLedger[r]
  /\ ResumeReturns(r) /\ UNCHANGED <<svLedger, svMishaps, svLost>>

\* Without a run_started there is no run to resume, and that is recorded
ResumeFails(r) ==
  /\ svResume[r] = "locked" /\ "started" \notin svLedger[r]
  /\ Write(r, {"failed"})
  /\ ResumeReturns(r) /\ UNCHANGED <<svMishaps, svLost>>

ResumeRuns(r) ==
  /\ svResume[r] = "locked" /\ "started" \in svLedger[r]
  /\ \E ends \in SUBSET Settling \ {{}} : Write(r, ends)
  /\ ResumeReturns(r) /\ UNCHANGED <<svMishaps, svLost>>

\* append_run_failed fails as well, or the process ends
ResumeUnrecorded(r) ==
  /\ svResume[r] = "locked" /\ Lose(r)
  /\ ResumeReturns(r) /\ UNCHANGED svLedger

ResumeHangs(r) ==
  /\ svResume[r] = "locked" /\ "started" \in svLedger[r] /\ Lose(r)
  /\ svResume' = [svResume EXCEPT ![r] = "hanging"]
  /\ UNCHANGED <<callVars, svStop, svDirs, svThread, svLock, svLedger>>

----------------------------------------------------------------------------
Handler ==
  \/ Busy \/ PreflightFails \/ Prepare \/ PrepareFails
  \/ SpawnThread \/ SpawnFails \/ Tell \/ Status \/ Close

Request(q) ==
  \/ Refuse(q) \/ ReadOnlyCall(q) \/ FleetRunMalformed(q) \/ Claim(q) \/ ReadLedger(q)

RunThread(r) ==
  \/ TakeLock(r) \/ LockTaken(r) \/ RefuseLedger(r) \/ StartRun(r)
  \/ EndRun(r) \/ FailsUnlocked(r) \/ EndsUnrecorded(r) \/ RunHangs(r) \/ DropGuard(r)

Resumer(r) == ResumeFails(r) \/ ResumeRuns(r) \/ ResumeUnrecorded(r) \/ ResumeHangs(r)

ServerNext ==
  \/ Handler \/ Shutdown
  \/ \E q \in SomeRequests : Request(q)
  \/ \E r \in RunId : RunThread(r) \/ Resume(r) \/ Resumer(r)

ServerSpec == ServerInit /\ [][ServerNext]_serverVars

----------------------------------------------------------------------------
(* Properties.                                                             *)

(* The counter is exactly the guards alive, between any two steps of the   *)
(* accept loop and the run threads, so refused and failed calls give their *)
(* slot back and never more than MaxActive runs execute.                   *)
Executing == {r \in RunId : svThread[r] \in {"starting", "locked", "running", "hanging", "returned"}}
ActiveRunsAreCapped ==
  /\ svActive = Cardinality(Executing)
                 + IF svPhase \in {"busy", "claimed", "prepared"} THEN 1 ELSE 0
  /\ Cardinality(Executing) <= MaxActive

(* A caller that was told a run has started is never told by fleet_status  *)
(* that there is no such run.                                              *)
StartedIsKnown ==
  svReply.tool = "fleet_status" /\ svReply.run \in svTold => svReply.verdict # "unknown"

(* The server counts the runs it serves, and knows those it announced.     *)
RunsAreAccounted == ActiveRunsAreCapped /\ StartedIsKnown

(* A run that a caller was told has started comes to finished or failed in *)
(* its ledger, even when a resume takes its lock first; the only excuse is *)
(* that this run's own thread or resume went away without a record: its    *)
(* end could not be appended, it failed before it held the lock, it        *)
(* panicked, or waits for a worker that did.  Nobody else's trouble, and   *)
(* no race for the lock, leaves a run to be polled for ever.               *)
StartedRunsSettle ==
  \A r \in RunId : r \in svTold ~> (svLedger[r] \cap Settling # {} \/ r \in svLost)
============================================================================
