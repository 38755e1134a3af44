----------------------------- MODULE ExecShell -----------------------------
(***************************************************************************)
(* One exec_shell call: law, approval, a child in a process group of its   *)
(* own, two threads that drain its pipes, and the loop that waits for the  *)
(* exit, the cancellation or the deadline.  The child may leave a          *)
(* descendant behind, in its group or out of reach of a kill, and each of  *)
(* the two may close or redirect an output and live on.  A look at the     *)
(* child and what is done about it are two steps.                          *)
(***************************************************************************)
EXTENDS Naturals

CONSTANTS
  MaxToolRead,   \* MAX_TOOL_READ_BYTES, in chunks
  MaxWritten,    \* bound: chunks a command writes to each stream
  Redirects      \* what a process may close or redirect while it lives, as sets of streams

Streams == {"stdout", "stderr"}

ASSUME ExecAssumption ==
  MaxToolRead \in Nat /\ MaxWritten \in [Streams -> Nat] /\ Redirects \subseteq SUBSET Streams

VARIABLES
  exPhase,       \* where execute_with_deadlines_audited is
  exCancel,      \* ctx.cancel
  exLate,        \* the deadline of the present wait has passed
  exReason,      \* why the command is being terminated
  exTreeKilled,  \* the tree kill said it succeeded
  exChild,       \* the shell
  exKid,         \* a descendant of it
  exHeld,        \* for each stream: who of the two has the pipe open
  exDoomed,      \* processes a KILL has reached
  exWritten, exOut, exDrain,    \* for each stream: what was written, kept, and the drain thread
  exCaptured,    \* for each stream: how its capture is reported
  exReport       \* the command's outcome, once it is known

execVars == <<exPhase, exCancel, exLate, exReason, exTreeKilled, exChild, exKid, exHeld,
              exDoomed, exWritten, exOut, exDrain, exCaptured, exReport>>
processVars == <<exChild, exKid, exHeld, exDoomed, exWritten>>
drainVars == <<exOut, exDrain>>

NoReport == [outcome |-> "none"]
Waits == {"polling", "treeKilled", "directKilled"}
Looked(wait) == CASE wait = "polling"      -> "looked"
                  [] wait = "treeKilled"   -> "treeLooked"
                  [] wait = "directKilled" -> "directLooked"
Looks == {Looked(wait) : wait \in Waits}
KidAlive == exKid \in {"member", "escaped"}
Alive(p) == IF p = "child" THEN exChild = "running" ELSE KidAlive
Less(a, b) == IF a < b THEN a ELSE b

ExecInit ==
  /\ exPhase = "idle" /\ exCancel = FALSE /\ exLate = FALSE
  /\ exReason = "none" /\ exTreeKilled = FALSE
  /\ exChild = "none" /\ exKid = "none" /\ exDoomed = {}
  /\ exHeld = [s \in Streams |-> {}]
  /\ exWritten = [s \in Streams |-> 0]
  /\ exOut = [s \in Streams |-> [read |-> 0, kept |-> 0, truncated |-> FALSE]]
  /\ exDrain = [s \in Streams |-> "idle"]
  /\ exCaptured = [s \in Streams |-> "none"]
  /\ exReport = NoReport

Reach(phase) == exPhase' = phase /\ exLate' = FALSE
Finish(report) == Reach("done") /\ exReport' = report
EndedAs(name) == [outcome |-> name]

----------------------------------------------------------------------------
(* Up to the spawn.                                                        *)

\* The model asks for a command
Receive ==
  /\ exPhase = "idle" /\ Reach("called")
  /\ UNCHANGED <<exCancel, exReason, exTreeKilled, processVars, drainVars, exCaptured, exReport>>

CancelledBefore ==
  /\ exPhase \in {"called", "approved"} /\ exCancel
  /\ Finish(EndedAs("cancelled_before_start"))
  /\ UNCHANGED <<exCancel, exReason, exTreeKilled, processVars, drainVars, exCaptured>>

\* The law blocks, or the user is asked whatever else it says
AskLaw ==
  /\ exPhase = "called" /\ ~exCancel
  /\ \/ Finish(EndedAs("blocked"))
     \/ Reach("asking") /\ UNCHANGED exReport
  /\ UNCHANGED <<exCancel, exReason, exTreeKilled, processVars, drainVars, exCaptured>>

UserAnswers ==
  /\ exPhase = "asking"
  /\ \/ Finish(EndedAs("denied"))
     \/ Reach("approved") /\ UNCHANGED exReport
  /\ UNCHANGED <<exCancel, exReason, exTreeKilled, processVars, drainVars, exCaptured>>

Spawn ==
  /\ exPhase = "approved" /\ ~exCancel
  /\ \/ /\ Finish(EndedAs("error"))
        /\ UNCHANGED <<exChild, exHeld, exDrain>>
     \/ /\ Reach("polling") /\ UNCHANGED exReport
        /\ exChild' = "running"
        /\ exHeld' = [s \in Streams |-> {"child"}]
        /\ exDrain' = [s \in Streams |-> "reading"]
  /\ UNCHANGED <<exCancel, exReason, exTreeKilled, exKid, exDoomed, exWritten, exOut, exCaptured>>

----------------------------------------------------------------------------
(* The wait: exit first, then the cancellation, then the deadline.         *)

\* try_wait finds the child running, and the loop goes on to its other tests
Look ==
  /\ exPhase \in Waits /\ exChild = "running"
  /\ exPhase' = Looked(exPhase)
  /\ UNCHANGED <<exCancel, exLate, exReason, exTreeKilled, processVars, drainVars,
                 exCaptured, exReport>>

\* None of them holds.  A failed tree kill has no time to wait for.
LookAgain ==
  /\ ~exLate
  /\ \/ exPhase = "looked" /\ ~exCancel /\ exPhase' = "polling"
     \/ exPhase = "treeLooked" /\ exTreeKilled /\ exPhase' = "treeKilled"
     \/ exPhase = "directLooked" /\ exPhase' = "directKilled"
  /\ UNCHANGED <<exCancel, exLate, exReason, exTreeKilled, processVars, drainVars,
                 exCaptured, exReport>>

\* try_wait itself fails, and `?` leaves the command as it is
WaitFails ==
  /\ exPhase \in Waits
  /\ Finish(EndedAs("error"))
  /\ UNCHANGED <<exCancel, exReason, exTreeKilled, processVars, drainVars, exCaptured>>

SeeExit ==
  /\ exPhase = "polling" /\ exChild = "zombie"
  /\ exChild' = "reaped"
  /\ Reach("draining") /\ exReport' = EndedAs("exited")
  /\ UNCHANGED <<exCancel, exReason, exTreeKilled, exKid, exHeld, exDoomed, exWritten,
                 drainVars, exCaptured>>

\* A tree kill that works reaches every process still in the group, which the
\* child may have left by ending since it was looked at; one that fails may have
\* reached some of them.
InGroup == (IF exChild = "running" THEN {"child"} ELSE {})
             \cup (IF exKid = "member" THEN {"kid"} ELSE {})
TreeKill(reason) ==
  /\ exPhase = "looked"
  /\ exReason' = reason
  /\ \E worked \in BOOLEAN, reached \in SUBSET InGroup :
       /\ worked => reached = InGroup
       /\ exTreeKilled' = worked
       /\ exDoomed' = reached
  /\ Reach("treeKilled")
  /\ UNCHANGED <<exCancel, exChild, exKid, exHeld, exWritten, drainVars, exCaptured, exReport>>

Terminate ==
  \/ exCancel /\ TreeKill("cancelled")
  \/ ~exCancel /\ exLate /\ TreeKill("timed_out")

MUT_TerminatedComplete == [outcome |-> exReason, complete |-> TRUE]
Terminated == [outcome |-> exReason, complete |-> exTreeKilled]
Unverified == [outcome |-> exReason, complete |-> FALSE]

ReapKilled ==
  /\ exPhase \in {"treeKilled", "directKilled"} /\ exChild = "zombie"
  /\ exChild' = "reaped"
  /\ Reach("draining") /\ exReport' = Terminated
  /\ UNCHANGED <<exCancel, exReason, exTreeKilled, exKid, exHeld, exDoomed, exWritten,
                 drainVars, exCaptured>>

\* A failed tree kill is polled once; a successful one for half the grace
DirectKill ==
  /\ exPhase = "treeLooked" /\ (exTreeKilled => exLate)
  /\ \/ /\ exDoomed' = exDoomed \cup ({"child"} \cap InGroup)
        /\ Reach("directKilled") /\ UNCHANGED exReport
     \/ /\ Finish(EndedAs("error"))
        /\ UNCHANGED exDoomed
  /\ UNCHANGED <<exCancel, exReason, exTreeKilled, exChild, exKid, exHeld, exWritten, drainVars,
                 exCaptured>>

GiveUp ==
  /\ exPhase = "directLooked" /\ exLate
  /\ Reach("draining") /\ exReport' = Unverified
  /\ UNCHANGED <<exCancel, exReason, exTreeKilled, processVars, drainVars, exCaptured>>

----------------------------------------------------------------------------
(* stdout and then stderr are collected before one shared drain deadline.  *)

MUT_CollectWaits(s) ==
  /\ exPhase = "draining" /\ exCaptured[s] = "none" /\ exDrain[s] # "reading"
  /\ s = "stderr" => exCaptured["stdout"] # "none"
  /\ exCaptured' = [exCaptured EXCEPT ![s] = exDrain[s]]
  /\ UNCHANGED <<exPhase, exCancel, exLate, exReason, exTreeKilled, processVars, drainVars, exReport>>

Collect(s) ==
  /\ exPhase = "draining" /\ exCaptured[s] = "none"
  /\ s = "stderr" => exCaptured["stdout"] # "none"
  /\ exDrain[s] = "reading" => exLate
  /\ exCaptured' = [exCaptured EXCEPT ![s] =
                      IF exDrain[s] = "reading" THEN "incomplete" ELSE exDrain[s]]
  /\ UNCHANGED <<exPhase, exCancel, exLate, exReason, exTreeKilled, processVars, drainVars, exReport>>

Report ==
  /\ exPhase = "draining" /\ \A s \in Streams : exCaptured[s] # "none"
  /\ Reach("done")
  /\ UNCHANGED <<exCancel, exReason, exTreeKilled, processVars, drainVars, exCaptured, exReport>>

----------------------------------------------------------------------------
(* The drain threads: every chunk is read, up to MaxToolRead are kept.     *)
(* A thread that has been given up reads on, which nobody sees.            *)

MUT_KeepQuietly(out) == [out EXCEPT !.read = @ + 1, !.kept = Less(@ + 1, MaxToolRead)]
Keep(out) ==
  [read |-> out.read + 1,
   kept |-> Less(out.kept + 1, MaxToolRead),
   truncated |-> out.truncated \/ out.kept = MaxToolRead]

DrainChunk(s) ==
  /\ exDrain[s] = "reading" /\ exCaptured[s] = "none" /\ exOut[s].read < exWritten[s]
  /\ exOut' = [exOut EXCEPT ![s] = Keep(@)]
  /\ UNCHANGED <<exPhase, exCancel, exLate, exReason, exTreeKilled, processVars,
                 exDrain, exCaptured, exReport>>

\* The pipe ends when nobody holds it and it is empty; a read may also fail
DrainEnds(s) ==
  /\ exDrain[s] = "reading" /\ exCaptured[s] = "none"
  /\ \/ /\ exHeld[s] = {} /\ exOut[s].read = exWritten[s]
        /\ exDrain' = [exDrain EXCEPT ![s] = "complete"]
     \/ exDrain' = [exDrain EXCEPT ![s] = "failed"]
  /\ UNCHANGED <<exPhase, exCancel, exLate, exReason, exTreeKilled, processVars,
                 exOut, exCaptured, exReport>>

----------------------------------------------------------------------------
(* The command, the user and the clock.  Of what goes on after the call    *)
(* has returned, only the writing is followed.                             *)

Outside(changed) ==
  UNCHANGED <<exPhase, exReason, exTreeKilled, drainVars, exCaptured, exReport>> /\ changed

WriteChunk(s) ==
  /\ exHeld[s] # {} /\ exWritten[s] < MaxWritten[s]
  /\ exWritten' = [exWritten EXCEPT ![s] = @ + 1]
  /\ Outside(UNCHANGED <<exCancel, exLate, exChild, exKid, exHeld, exDoomed>>)

\* A descendant stays in the group, or where a kill reaches it no more; a
\* signalled one may still be running.  It inherits the pipes its parent has.
Fork ==
  /\ exPhase # "done"
  /\ exChild = "running" /\ exKid = "none" /\ "child" \notin exDoomed
  /\ exKid' \in {"member", "escaped"}
  /\ exHeld' = [s \in Streams |-> IF "child" \in exHeld[s] THEN {"child", "kid"} ELSE {}]
  /\ Outside(UNCHANGED <<exCancel, exLate, exChild, exDoomed, exWritten>>)

\* A live process closes or redirects some of its outputs
LetGo(p) ==
  /\ exPhase # "done" /\ Alive(p)
  /\ \E closed \in Redirects :
       /\ \E s \in closed : p \in exHeld[s]
       /\ exHeld' = [s \in Streams |-> IF s \in closed THEN exHeld[s] \ {p} ELSE exHeld[s]]
  /\ Outside(UNCHANGED <<exCancel, exLate, exChild, exKid, exDoomed, exWritten>>)

ChildExits ==
  /\ exPhase # "done"
  /\ exChild = "running" /\ exChild' = "zombie"
  /\ exHeld' = [s \in Streams |-> exHeld[s] \ {"child"}]
  /\ Outside(UNCHANGED <<exCancel, exLate, exKid, exDoomed, exWritten>>)

KidExits ==
  /\ exPhase # "done"
  /\ KidAlive /\ exKid' = "dead"
  /\ exHeld' = [s \in Streams |-> exHeld[s] \ {"kid"}]
  /\ Outside(UNCHANGED <<exCancel, exLate, exChild, exDoomed, exWritten>>)

CancelCommand ==
  /\ ~exCancel /\ exPhase \notin {"idle", "done"} /\ exCancel' = TRUE
  /\ Outside(UNCHANGED <<exLate, processVars>>)

Tick ==
  /\ exPhase \in Waits \cup Looks \cup {"draining"} /\ ~exLate /\ exLate' = TRUE
  /\ Outside(UNCHANGED <<exCancel, processVars>>)

----------------------------------------------------------------------------
Call ==
  \/ CancelledBefore \/ AskLaw \/ Spawn
  \/ Look \/ LookAgain \/ WaitFails \/ SeeExit \/ Terminate
  \/ ReapKilled \/ DirectKill \/ GiveUp \/ Report
  \/ \E s \in Streams : Collect(s)

Drain(s) == DrainChunk(s) \/ DrainEnds(s)

Command ==
  \/ Fork \/ ChildExits \/ KidExits
  \/ \E s \in Streams : WriteChunk(s)
  \/ \E p \in {"child", "kid"} : LetGo(p)

ExecNext ==
  \/ Receive \/ Call \/ UserAnswers \/ Command \/ CancelCommand \/ Tick
  \/ \E s \in Streams : Drain(s)

ExecSpec == ExecInit /\ [][ExecNext]_execVars

----------------------------------------------------------------------------
(* Properties.                                                             *)

CommandEnded(outcome) == exPhase = "done" /\ exReport.outcome = outcome

(* What the call reports is what became of the command: an exit is one     *)
(* nobody forced, a termination said to be complete has reaped the shell   *)
(* and its kill reached every descendant in its group, and output without  *)
(* a marker is all that was ever written there, with nobody left who could *)
(* write more.  An error promises nothing: the command may still be running. *)
CommandReportsTruth ==
  /\ CommandEnded("exited") => exChild = "reaped" /\ exDoomed = {}
  /\ (exPhase = "done" /\ exReason # "none" /\ exReport.outcome = exReason /\ exReport.complete)
       => exChild = "reaped" /\ (exKid = "member" => "kid" \in exDoomed)
  /\ \A s \in Streams :
       exPhase = "done" /\ exCaptured[s] = "complete" /\ ~exOut[s].truncated
         => exOut[s].kept = exWritten[s] /\ exHeld[s] = {}

(* Once the user has approved it the call returns, whatever the command,   *)
(* its descendants and the signals do, as long as the program that sends   *)
(* them to the group returns: the code waits for that one without a        *)
(* deadline.                                                               *)
ApprovedCallReturns == (exPhase = "approved") ~> (exPhase = "done")
============================================================================
