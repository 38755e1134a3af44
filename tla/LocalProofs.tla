---------------------------- MODULE LocalProofs ----------------------------
(***************************************************************************)
(* Theorems about the components that deal with files and processes of     *)
(* this machine: file publication, command execution, the two updates of a *)
(* private file, the efficiency log, and the context archive.              *)
(***************************************************************************)
EXTENDS FileTools, ExecShell, CatalogMigration, Recorder, ContextArchive, FiniteSetTheorems,
        SequenceTheorems, WellFoundedInduction, TLAPS

----------------------------------------------------------------------------
(* FileTools.                                                              *)

FilePhases == {"called", "asking", "approved", "opened", "located", "staged", "filled",
               "linked", "restatted", "reread", "done"}
FileState == [text : {"absent", "base", "other", "ours"}, stamp : Nat]

FileTypeOK ==
  /\ fiTool \in {"write_file", "edit_file"} /\ fiPhase \in FilePhases
  /\ fiFile \in FileState /\ fiWrote \in FileState \cup {Nought}
  /\ fiStage \in BOOLEAN /\ fiRaced \in BOOLEAN /\ fiForeign \in Nat

\* The phases of one tool are not entered by the other
PhaseFitsTool ==
  /\ fiPhase = "linked" => fiTool = "write_file"
  /\ fiPhase \in {"opened", "located", "restatted", "reread"} => fiTool = "edit_file"

\* Nothing is published before the last step, and a link only where nothing was
PublishedLast ==
  /\ fiPhase \notin {"linked", "done"} => fiWrote = Nought
  /\ fiPhase = "linked" => fiWrote = Absent

\* What the last look found is still there, unless the other program came
LastLookHolds == fiPhase = "reread" /\ ~fiRaced => Exists /\ fiFile.text = fiText

\* There is a stage only between staging and the end
StagedInBetween ==
  fiStage => fiPhase \in {"staged", "filled", "linked", "restatted", "reread", "done"}

FileInv ==
  /\ FileTypeOK /\ PhaseFitsTool /\ PublishedLast /\ LastLookHolds /\ StagedInBetween
  /\ PublicationIsExact /\ StagesAreAccounted

\* One call of a file tool, one step of it or of the other program
LEMMA FileStep == FileInv /\ [FileNext]_fileVars => FileInv'
<1> SUFFICES ASSUME FileInv, [FileNext]_fileVars
             PROVE  FileInv'
  OBVIOUS
<1>0. /\ Absent \in FileState /\ Nought \notin FileState
      /\ \A text \in {"base", "other", "ours"} :
           [text |-> text, stamp |-> fiForeign + 2] \in FileState \ {Absent}
  BY DEF FileInv, FileTypeOK, FileState, Absent, Nought
<1>a. ASSUME NEW what, Say(what)
      PROVE  fiPhase' = "done" /\ fiResult'.say = what /\ ~fiResult'.published
  BY <1>a DEF Say
<1>b. ASSUME NEW what, Published(what)
      PROVE  fiPhase' = "done" /\ fiResult'.say = what /\ fiResult'.published
  BY <1>b DEF Published
<1>c. ForeignWrite => fiForeign' \in Nat
  BY DEF ForeignWrite, FileInv, FileTypeOK
<1> USE <1>0, <1>a, <1>b DEF FileInv, FileTypeOK, PhaseFitsTool, PublishedLast, LastLookHolds, StagedInBetween,
            PublicationIsExact, StagesAreAccounted, FilePhases,
            Exists, Enter, Decide, FileAt, seenVars, outsideVars
<1>1. ASSUME Cancelled
      PROVE  FileInv'
  BY <1>1 DEF Cancelled
<1>2. ASSUME BadCall
      PROVE  FileInv'
  BY <1>2 DEF BadCall
<1>3. ASSUME AskToWrite
      PROVE  FileInv'
  BY <1>3 DEF AskToWrite
<1>4. ASSUME AskToEdit
      PROVE  FileInv'
  BY <1>4 DEF AskToEdit
<1>5. ASSUME UserAllows
      PROVE  FileInv'
  BY <1>5 DEF UserAllows
<1>6. ASSUME Open
      PROVE  FileInv'
  BY <1>6 DEF Open
<1>7. ASSUME ReadAndLocate
      PROVE  FileInv'
  BY <1>7 DEF ReadAndLocate
<1>8. ASSUME Stage
      PROVE  FileInv'
  BY <1>8 DEF Stage, ToStage
<1>9. ASSUME FillStage
      PROVE  FileInv'
  BY <1>9 DEF FillStage, Abandon
<1>10. ASSUME HardLink
      PROVE  FileInv'
  BY <1>10 DEF HardLink, Clean
<1>11. ASSUME CleanLinked
      PROVE  FileInv'
  BY <1>11 DEF CleanLinked
<1>12. ASSUME Restat
      PROVE  FileInv'
  BY <1>12 DEF Restat, Clean
<1>13. ASSUME Reread
      PROVE  FileInv'
  BY <1>13 DEF Reread, Clean
<1>14. ASSUME Rename
      PROVE  FileInv'
  BY <1>14 DEF Rename, Clean
<1>15. ASSUME ForeignWrite
      PROVE  FileInv'
  <2>1. fiForeign' \in Nat
    BY <1>15, <1>c
  <2>2. fiFile' \in FileState
    <3>1. CASE fiFile' = Absent
      BY <3>1
    <3>2. CASE fiFile' # Absent
      <4>1. PICK text \in Texts : fiFile' = [text |-> text, stamp |-> fiForeign + 2]
        BY <1>15, <3>2 DEF ForeignWrite
      <4> QED BY <4>1 DEF Texts
    <3> QED BY <3>1, <3>2
  <2> QED
    BY <1>15, <2>1, <2>2 DEF ForeignWrite
<1>16. ASSUME UserCancels
      PROVE  FileInv'
  BY <1>16 DEF UserCancels
<1>17. ASSUME UNCHANGED fileVars
      PROVE  FileInv'
  BY <1>17 DEF fileVars
<1> QED
  BY <1>1, <1>2, <1>3, <1>4, <1>5, <1>6, <1>7, <1>8, <1>9, <1>10, <1>11, <1>12, <1>13, <1>14, <1>15, <1>16, <1>17
     DEF FileNext, FileCall

\* A file tool's answer tells what became of the file and of its stage: a
\* creation replaced nothing, an edit the very text it read, up to the gap
\* after the last look (crates/nh-tools/src/lib.rs).
THEOREM FilesAreAnswered == FileSpec => []AnswersMatchFiles
<1>1. ASSUME FileInit
      PROVE  FileInv
  <2>1. {Absent, [text |-> "base", stamp |-> 1]} \subseteq FileState
    BY DEF FileState, Absent
  <2>2. FileTypeOK
    BY <1>1, <2>1 DEF FileInit, FileTypeOK, FilePhases
  <2>3. fiPhase = "called" /\ fiStage = FALSE /\ fiWrote = Nought
    BY <1>1 DEF FileInit
  <2> QED
    BY <2>2, <2>3 DEF FileInv, PhaseFitsTool, PublishedLast, LastLookHolds, StagedInBetween,
                      PublicationIsExact, StagesAreAccounted
<1>2. FileInv => AnswersMatchFiles
  BY DEF FileInv, AnswersMatchFiles
<1> QED
  BY <1>1, <1>2, FileStep, PTL DEF FileSpec
----------------------------------------------------------------------------
(* ExecShell.                                                              *)

Unspawned == {"idle", "called", "asking", "approved"}
LooksAfterKill == {"treeLooked", "directLooked"}
ExecPhases == Unspawned \cup Waits \cup {"looked"} \cup LooksAfterKill \cup {"draining", "done"}

ExecTypeOK ==
  /\ exPhase \in ExecPhases
  /\ exReason \in {"none", "cancelled", "timed_out"} /\ exTreeKilled \in BOOLEAN
  /\ exChild \in {"none", "running", "zombie", "reaped"}
  /\ exKid \in {"none", "member", "escaped", "dead"}
  /\ exDoomed \subseteq {"child", "kid"}
  /\ exHeld \in [Streams -> SUBSET {"child", "kid"}]
  /\ exWritten \in [Streams -> Nat]
  /\ exOut \in [Streams -> [read : Nat, kept : Nat, truncated : BOOLEAN]]
  /\ exDrain \in [Streams -> {"idle", "reading", "complete", "failed"}]
  /\ exCaptured \in [Streams -> {"none", "idle", "complete", "incomplete", "failed"}]

\* Nothing runs and nothing has been said before the spawn
QuietBeforeSpawn ==
  exPhase \in Unspawned =>
    /\ exChild = "none" /\ exKid = "none"
    /\ \A s \in Streams : exDrain[s] = "idle" /\ exCaptured[s] = "none"

\* A process is signalled only for a reason, which is there from the first kill on
KilledForReason ==
  /\ exPhase \in Unspawned \cup {"polling", "looked"} => exReason = "none"
  /\ exPhase \in {"treeKilled", "directKilled"} \cup LooksAfterKill => exReason # "none"
  /\ exReason = "none" => exDoomed = {} /\ ~exTreeKilled

\* A tree kill that worked reached what is left of the shell and its group
TreeKillReaches ==
  exTreeKilled => /\ exChild = "running" => "child" \in exDoomed
                  /\ exKid = "member" => "kid" \in exDoomed

\* The dead hold no pipe
HeldByLiving ==
  \A s \in Streams : /\ "child" \in exHeld[s] => exChild = "running"
                     /\ "kid" \in exHeld[s] => KidAlive

\* An outcome is known after the wait, with what was seen of the shell
ReportedAsSeen ==
  /\ exPhase \notin {"draining", "done"} => exReport.outcome = "none"
  /\ exReport.outcome = "exited" => exReason = "none" /\ exChild = "reaped"
  /\ exReason # "none" /\ exReport.outcome = exReason /\ exReport.complete
       => exTreeKilled /\ exChild = "reaped"

\* A stream that ended is wholly read, nobody can write it, and it was kept up to the cap
StreamsAccounted ==
  \A s \in Streams :
    /\ exCaptured[s] = "complete" => exDrain[s] = "complete"
    /\ exDrain[s] = "complete" => exHeld[s] = {} /\ exOut[s].read = exWritten[s]
    /\ ~exOut[s].truncated => exOut[s].kept = exOut[s].read
    /\ exOut[s].kept <= MaxToolRead

ExecInv ==
  /\ ExecTypeOK /\ QuietBeforeSpawn /\ KilledForReason /\ TreeKillReaches
  /\ HeldByLiving /\ ReportedAsSeen /\ StreamsAccounted

\* One chunk more: what is kept follows what is read until the cap is met.
LEMMA KeepCounts ==
  ASSUME NEW out \in [read : Nat, kept : Nat, truncated : BOOLEAN],
         ~out.truncated => out.kept = out.read,
         out.kept <= MaxToolRead
  PROVE  /\ Keep(out) \in [read : Nat, kept : Nat, truncated : BOOLEAN]
         /\ ~Keep(out).truncated => Keep(out).kept = Keep(out).read
         /\ Keep(out).kept <= MaxToolRead
<1>1. /\ Keep(out).read = out.read + 1
      /\ Keep(out).kept = IF out.kept + 1 < MaxToolRead THEN out.kept + 1 ELSE MaxToolRead
      /\ Keep(out).truncated <=> out.truncated \/ out.kept = MaxToolRead
      /\ Keep(out) = [read |-> Keep(out).read, kept |-> Keep(out).kept,
                      truncated |-> Keep(out).truncated]
  BY DEF Keep, Less
<1>2. out.read \in Nat /\ out.kept \in Nat /\ out.truncated \in BOOLEAN
  OBVIOUS
<1>3. Keep(out).read \in Nat /\ Keep(out).kept \in Nat /\ Keep(out).truncated \in BOOLEAN
  <2>1. Keep(out).truncated \in BOOLEAN
    BY DEF Keep
  <2> QED BY <1>1, <1>2, <2>1, ExecAssumption
<1>4. Keep(out) \in [read : Nat, kept : Nat, truncated : BOOLEAN]
  BY <1>1, <1>3
<1> QED BY <1>1, <1>2, <1>4, ExecAssumption

\* One command, one step of the call, of its drains, or of what runs beside it
LEMMA ExecStep == ExecInv /\ [ExecNext]_execVars => ExecInv'
<1> SUFFICES ASSUME ExecInv, [ExecNext]_execVars
             PROVE  ExecInv'
  OBVIOUS
<1>a. ASSUME NEW name, Finish(EndedAs(name))
      PROVE  exPhase' = "done" /\ exReport'.outcome = name
  BY <1>a DEF Finish, EndedAs, Reach
<1>b. ASSUME NEW phase, Reach(phase)
      PROVE  exPhase' = phase
  BY <1>b DEF Reach
<1> USE <1>a, <1>b DEF ExecInv, ExecTypeOK, QuietBeforeSpawn, KilledForReason, TreeKillReaches,
        HeldByLiving, ReportedAsSeen, StreamsAccounted, ExecPhases, Unspawned, Waits,
        LooksAfterKill, KidAlive, processVars, drainVars
<1>1. ASSUME Receive
      PROVE  ExecInv'
  BY <1>1 DEF Receive
<1>2. ASSUME CancelledBefore
      PROVE  ExecInv'
  BY <1>2 DEF CancelledBefore
<1>3. ASSUME AskLaw
      PROVE  ExecInv'
  BY <1>3 DEF AskLaw
<1>4. ASSUME UserAnswers
      PROVE  ExecInv'
  BY <1>4 DEF UserAnswers
<1>5. ASSUME Spawn
      PROVE  ExecInv'
  BY <1>5 DEF Spawn
<1>6. ASSUME SeeExit
      PROVE  ExecInv'
  <2>1. exReport'.outcome = "exited"
    BY <1>6 DEF SeeExit, EndedAs
  <2> QED BY <1>6, <2>1 DEF SeeExit
<1>7. ASSUME NEW reason \in {"cancelled", "timed_out"}, TreeKill(reason)
      PROVE  ExecInv'
  <2>1. PICK worked \in BOOLEAN, reached \in SUBSET InGroup :
          /\ worked => reached = InGroup
          /\ exTreeKilled' = worked /\ exDoomed' = reached
    BY <1>7 DEF TreeKill
  <2>2. InGroup \subseteq {"child", "kid"}
    BY DEF InGroup
  <2>3. worked => /\ exChild = "running" => "child" \in reached
                  /\ exKid = "member" => "kid" \in reached
    BY <2>1 DEF InGroup
  <2>4. /\ exPhase = "looked" /\ exReason' = reason /\ exPhase' = "treeKilled"
        /\ UNCHANGED <<exChild, exKid, exHeld, exWritten, drainVars, exCaptured, exReport>>
    BY <1>7 DEF TreeKill
  <2> QED BY <2>1, <2>2, <2>3, <2>4
<1>8. ASSUME ReapKilled
      PROVE  ExecInv'
  <2>1. exReport'.outcome = exReason /\ (exReport'.complete <=> exTreeKilled)
    BY <1>8 DEF ReapKilled, Terminated
  <2> QED BY <1>8, <2>1 DEF ReapKilled
<1>9. ASSUME DirectKill
      PROVE  ExecInv'
  <2>1. CASE exPhase' = "directKilled"
    <3>1. /\ exPhase = "treeLooked" /\ exDoomed' = exDoomed \cup ({"child"} \cap InGroup)
          /\ UNCHANGED <<exReason, exTreeKilled, exChild, exKid, exHeld, exWritten, drainVars,
                         exCaptured, exReport>>
      BY <1>9, <2>1 DEF DirectKill, Finish, Reach
    <3> QED BY <2>1, <3>1
  <2>2. CASE exPhase' # "directKilled"
    <3>1. Finish(EndedAs("error")) /\ exDoomed' = exDoomed
      BY <1>9, <2>2 DEF DirectKill
    <3>2. exPhase' = "done" /\ exReport'.outcome = "error"
      BY <3>1
    <3> QED BY <1>9, <3>1, <3>2 DEF DirectKill
  <2> QED BY <2>1, <2>2
<1>10. ASSUME GiveUp
       PROVE  ExecInv'
  <2>1. exReport'.outcome = exReason /\ ~exReport'.complete
    BY <1>10 DEF GiveUp, Unverified
  <2> QED BY <1>10, <2>1 DEF GiveUp
<1>11. ASSUME Report
       PROVE  ExecInv'
  BY <1>11 DEF Report
<1>12. ASSUME NEW s \in Streams, Collect(s)
       PROVE  ExecInv'
  BY <1>12 DEF Collect
<1>13. ASSUME NEW s \in Streams, DrainChunk(s)
       PROVE  ExecInv'
  <2>1. /\ Keep(exOut[s]) \in [read : Nat, kept : Nat, truncated : BOOLEAN]
        /\ ~Keep(exOut[s]).truncated => Keep(exOut[s]).kept = Keep(exOut[s]).read
        /\ Keep(exOut[s]).kept <= MaxToolRead
    BY KeepCounts
  <2> QED BY <1>13, <2>1 DEF DrainChunk
<1>14. ASSUME NEW s \in Streams, DrainEnds(s)
       PROVE  ExecInv'
  <2>1. exDrain[s] = "reading"
        /\ UNCHANGED <<exPhase, exReason, exTreeKilled, processVars, exOut, exCaptured, exReport>>
    BY <1>14 DEF DrainEnds
  <2>2. \E end \in {"complete", "failed"} : exDrain' = [exDrain EXCEPT ![s] = end]
    BY <1>14 DEF DrainEnds
  <2>3. /\ ExecTypeOK' /\ QuietBeforeSpawn'
    BY <2>1, <2>2
  <2>4. KilledForReason' /\ TreeKillReaches' /\ HeldByLiving' /\ ReportedAsSeen'
    BY <2>1
  <2>5. StreamsAccounted'
    BY <1>14, <2>1, <2>2 DEF DrainEnds
  <2> QED BY <2>3, <2>4, <2>5
<1>15. ASSUME NEW s \in Streams, WriteChunk(s)
       PROVE  ExecInv'
  BY <1>15 DEF WriteChunk, Outside
<1>16. ASSUME Fork
       PROVE  ExecInv'
  BY <1>16 DEF Fork, Outside
<1>22. ASSUME NEW p \in {"child", "kid"}, LetGo(p)
       PROVE  ExecInv'
  <2>1. PICK closed \in Redirects :
          exHeld' = [s \in Streams |-> IF s \in closed THEN exHeld[s] \ {p} ELSE exHeld[s]]
    BY <1>22 DEF LetGo
  <2>2. \A s \in Streams : exHeld'[s] \subseteq exHeld[s]
    BY <2>1
  <2>3. exHeld' \in [Streams -> SUBSET {"child", "kid"}]
    BY <2>1
  <2>4. UNCHANGED <<exPhase, exReason, exTreeKilled, drainVars, exCaptured, exReport, exChild,
                    exKid, exDoomed, exWritten>>
    BY <1>22 DEF LetGo, Outside
  <2> QED BY <2>2, <2>3, <2>4
<1>23. ASSUME Look \/ LookAgain
       PROVE  ExecInv'
  <2>1. /\ Looked("polling") = "looked" /\ Looked("treeKilled") = "treeLooked"
        /\ Looked("directKilled") = "directLooked"
    BY DEF Looked
  <2>2. UNCHANGED <<exReason, exTreeKilled, exChild, exKid, exHeld, exDoomed, exWritten, exOut,
                    exDrain, exCaptured, exReport>>
    BY <1>23 DEF Look, LookAgain
  <2>3. \/ exPhase = "polling" /\ exPhase' = "looked"
        \/ exPhase = "looked" /\ exPhase' = "polling"
        \/ exPhase \in {"treeKilled", "directKilled"} /\ exPhase' \in LooksAfterKill
        \/ exPhase \in LooksAfterKill /\ exPhase' \in {"treeKilled", "directKilled"}
    BY <1>23, <2>1 DEF Look, LookAgain
  <2> QED BY <2>2, <2>3
<1>24. ASSUME WaitFails
       PROVE  ExecInv'
  <2>1. exPhase' = "done" /\ exReport'.outcome = "error"
    BY <1>24 DEF WaitFails
  <2> QED BY <1>24, <2>1 DEF WaitFails
<1>17. ASSUME ChildExits
       PROVE  ExecInv'
  BY <1>17 DEF ChildExits, Outside
<1>18. ASSUME KidExits
       PROVE  ExecInv'
  BY <1>18 DEF KidExits, Outside
<1>19. ASSUME CancelCommand
       PROVE  ExecInv'
  BY <1>19 DEF CancelCommand, Outside
<1>20. ASSUME Tick
       PROVE  ExecInv'
  BY <1>20 DEF Tick, Outside
<1>21. ASSUME UNCHANGED execVars
       PROVE  ExecInv'
  BY <1>21 DEF execVars
<1> QED
  BY <1>1, <1>2, <1>3, <1>4, <1>5, <1>6, <1>7, <1>8, <1>9, <1>10, <1>11, <1>12, <1>13,
     <1>14, <1>15, <1>16, <1>17, <1>18, <1>19, <1>20, <1>21, <1>22, <1>23, <1>24
     DEF ExecNext, Call, Terminate, Drain, Command

\* What exec_shell reports is what became of the command: an exit nobody
\* forced, a complete termination that reaped the shell and reached its group,
\* output without a marker that is all there is (crates/nh-tools/src/exec.rs).
THEOREM CommandsAreReported == ExecSpec => []CommandReportsTruth
<1>1. ASSUME ExecInit
      PROVE  ExecInv
  <2>1. \A s \in Streams : /\ exOut[s].read = 0 /\ exOut[s].kept = 0 /\ ~exOut[s].truncated
                           /\ exWritten[s] = 0 /\ exDrain[s] = "idle" /\ exCaptured[s] = "none"
    BY <1>1 DEF ExecInit
  <2>2. ExecTypeOK
    BY <1>1 DEF ExecInit, ExecTypeOK, ExecPhases, Unspawned
  <2>3. exReport.outcome = "none"
    BY <1>1 DEF ExecInit, NoReport
  <2> QED
    BY <1>1, <2>1, <2>2, <2>3, ExecAssumption
       DEF ExecInit, ExecInv, QuietBeforeSpawn, KilledForReason, TreeKillReaches,
           HeldByLiving, LooksAfterKill, ReportedAsSeen, StreamsAccounted, Unspawned
<1>2. ExecInv => CommandReportsTruth
  BY DEF ExecInv, ExecTypeOK, KilledForReason, TreeKillReaches, ReportedAsSeen,
         StreamsAccounted, CommandReportsTruth, CommandEnded
<1> QED
  BY <1>1, <1>2, ExecStep, PTL DEF ExecSpec
----------------------------------------------------------------------------
(* PrivateState.                                                           *)

PrivatePlaces == {"new", "read", "staged", "both", "probed", "compared", "removed", "failed",
                  "cleanSaved", "cleanError", "cleanKeeping", "halfSaved", "halfError", "ended"}

PrivateTypeOK ==
  /\ psFile \in Int /\ psPrevious \in [Runs -> Int] /\ psStale \in BOOLEAN
  /\ psAt \in [Runs -> PrivatePlaces] /\ psCommand \in [Runs -> {"none", "set", "clear", "select"}]

HoldsRestore(p) == StageOf(p, "restore", psPrevious[p]) \in psStages

OldInHand == {"both", "probed", "compared", "removed", "failed", "cleanKeeping"}

\* From the second stage on a `set` has the old text in hand, until its last cleanup
OldTextStaged ==
  \A p \in Runs :
    /\ psCommand[p] = "set" /\ Updating(p) /\ psAt[p] \in OldInHand => HoldsRestore(p)
    /\ ProcessAt(p, "set", "compared") => Updating(p)

\* The process whose removal is not made good yet, and may never be
InHand(p) ==
  /\ Updating(p) /\ HoldsRestore(p)
  /\ psAt[p] \in {"removed", "failed", "cleanKeeping", "ended"}

MissingIsInHand == psSaved # NoText /\ psFile = NoText => \E p \in Runs : InHand(p)

\* The value saved last is in place, or the process that removed it has it in hand
SavedIsInHand ==
  psSaved # NoText /\ ~psStale =>
    psFile = psSaved \/ \E p \in Runs : InHand(p) /\ psPrevious[p] = psSaved

PrivateInv == PrivateTypeOK /\ OldTextStaged /\ MissingIsInHand /\ SavedIsInHand

\* Unlinking a stage takes neither another process's nor the other kind's.
LEMMA StagesStay ==
  ASSUME NEW q \in Runs, NEW kind, Unstage(q, kind),
         NEW p \in Runs, p # q \/ kind = "new", HoldsRestore(p)
  PROVE  StageOf(p, "restore", psPrevious[p]) \in psStages'
<1>1. /\ StageOf(p, "restore", psPrevious[p]).by = p
      /\ StageOf(p, "restore", psPrevious[p]).kind = "restore"
  BY DEF StageOf
<1>2. StageOf(p, "restore", psPrevious[p]) \notin Mine(q, kind)
  BY <1>1 DEF Mine
<1> QED BY <1>2 DEF Unstage, HoldsRestore

\* One step of one command
LEMMA PrivateStep == PrivateInv /\ [PrivateNext]_privateVars => PrivateInv'
<1> SUFFICES ASSUME PrivateInv, [PrivateNext]_privateVars
             PROVE  PrivateInv'
  OBVIOUS
<1>s. ASSUME NEW q \in Runs, NEW p \in Runs, Unstage(q, "new"), HoldsRestore(p)
      PROVE  StageOf(p, "restore", psPrevious[p]) \in psStages'
  BY <1>s, StagesStay
<1>t. ASSUME NEW q \in Runs, NEW p \in Runs \ {q}, Unstage(q, "restore"), HoldsRestore(p)
      PROVE  StageOf(p, "restore", psPrevious[p]) \in psStages'
  BY <1>t, StagesStay
<1>n. NoText \notin Runs /\ NoText \in Int /\ Runs \subseteq Int
  BY DEF NoText, Runs
<1>a. ASSUME NEW q \in Runs, NEW where \in PrivatePlaces, Advance(q, where)
      PROVE  /\ psAt' \in [Runs -> PrivatePlaces]
             /\ psAt'[q] = where /\ \A p \in Runs \ {q} : psAt'[p] = psAt[p]
  BY <1>a DEF Advance, PrivateInv, PrivateTypeOK
<1>b. ASSUME NEW q \in Runs, NEW what, End(q, what)
      PROVE  /\ psAt' \in [Runs -> PrivatePlaces]
             /\ psAt'[q] = "ended" /\ \A p \in Runs \ {q} : psAt'[p] = psAt[p]
  BY <1>b DEF End, PrivateInv, PrivateTypeOK, PrivatePlaces
<1> USE <1>n, <1>a, <1>b DEF PrivateInv, PrivateTypeOK, PrivatePlaces, HoldsRestore, OldInHand,
        OldTextStaged, InHand, MissingIsInHand, SavedIsInHand, Updating, ProcessAt, Ghosts,
        Decides
<1>1. ASSUME NEW q \in Runs, NEW command \in {"set", "clear", "select"}, Start(q, command)
      PROVE  PrivateInv'
  <2>1. /\ psCommand' \in [Runs -> {"none", "set", "clear", "select"}]
        /\ psPrevious' \in [Runs -> Int]
        /\ \A p \in Runs \ {q} : psCommand'[p] = psCommand[p] /\ psPrevious'[p] = psPrevious[p]
    BY <1>1 DEF Start
  <2>2. psAt[q] = "new" /\ Advance(q, "read") /\ UNCHANGED <<psFile, psStages, psSaved, psStale>>
    BY <1>1 DEF Start
  <2>3. PrivateTypeOK'
    BY <2>1, <2>2
  <2>4. OldTextStaged'
    BY <2>1, <2>2
  <2>5. MissingIsInHand' /\ SavedIsInHand'
    <3>1. ASSUME NEW p \in Runs, InHand(p)
          PROVE  InHand(p)' /\ psPrevious'[p] = psPrevious[p]
      BY <2>1, <2>2, <3>1
    <3> QED BY <2>2, <3>1
  <2> QED BY <2>3, <2>4, <2>5
<1>2. ASSUME NEW q \in Runs, StageNew(q)
      PROVE  PrivateInv'
  BY <1>2 DEF StageNew, AddStage
<1>3. ASSUME NEW q \in Runs, StageRestore(q)
      PROVE  PrivateInv'
  BY <1>3, <1>s DEF StageRestore, AddStage
<1>4. ASSUME NEW q \in Runs, Probe(q)
      PROVE  PrivateInv'
  BY <1>4 DEF Probe
<1>5. ASSUME NEW q \in Runs, Compare(q)
      PROVE  PrivateInv'
  BY <1>5 DEF Compare
<1>6. ASSUME NEW q \in Runs, RemoveOld(q)
      PROVE  PrivateInv'
  <2>1. /\ UNCHANGED <<psStages, psCommand, psPrevious, psSaved, psDeaths>>
        /\ psCommand[q] = "set" /\ psAt[q] = "compared" /\ Updating(q) /\ HoldsRestore(q)
    BY <1>6 DEF RemoveOld
  <2>2. CASE Advance(q, "cleanError") /\ UNCHANGED <<psFile, psStale>>
    BY <2>1, <2>2
  <2>3. CASE /\ psFile # NoText /\ psFile' = NoText /\ Advance(q, "removed")
             /\ psStale' = (psStale \/ psFile # psPrevious[q])
    <3>1. PrivateTypeOK' /\ OldTextStaged'
      BY <2>1, <2>3
    <3>2. InHand(q)'
      BY <2>1, <2>3
    <3>3. ~psStale' => psFile = psPrevious[q] /\ ~psStale
      BY <2>3
    <3>4. \A p \in Runs : ~InHand(p) \/ p = q \/ InHand(p)'
      BY <2>1, <2>3
    <3>5. MissingIsInHand'
      BY <3>2
    <3>6. SavedIsInHand'
      BY <2>1, <3>2, <3>3, <3>4
    <3> QED BY <3>1, <3>5, <3>6
  <2> QED BY <1>6, <2>2, <2>3 DEF RemoveOld
<1>7. ASSUME NEW q \in Runs, LinkNew(q)
      PROVE  PrivateInv'
  BY <1>7 DEF LinkNew
<1>8. ASSUME NEW q \in Runs, Rollback(q)
      PROVE  PrivateInv'
  BY <1>8 DEF Rollback
<1>9. ASSUME NEW q \in Runs, CleanNew(q)
      PROVE  PrivateInv'
  BY <1>9, <1>s DEF CleanNew
<1>10. ASSUME NEW q \in Runs, CleanRestore(q)
       PROVE  PrivateInv'
  BY <1>10, <1>t DEF CleanRestore
<1>11. ASSUME NEW q \in Runs, CompareToClear(q)
       PROVE  PrivateInv'
  BY <1>11 DEF CompareToClear
<1>12. ASSUME NEW q \in Runs, RemoveForGood(q)
       PROVE  PrivateInv'
  BY <1>12 DEF RemoveForGood
<1>13. ASSUME NEW q \in Runs, Select(q)
       PROVE  PrivateInv'
  BY <1>13 DEF Select
<1>14. ASSUME NEW q \in Runs, Die(q)
       PROVE  PrivateInv'
  BY <1>14 DEF Die
<1>15. ASSUME UNCHANGED privateVars
       PROVE  PrivateInv'
  BY <1>15 DEF privateVars
<1> QED
  BY <1>1, <1>2, <1>3, <1>4, <1>5, <1>6, <1>7, <1>8, <1>9, <1>10, <1>11, <1>12, <1>13,
     <1>14, <1>15 DEF PrivateNext, Run

----------------------------------------------------------------------------
(* CatalogMigration.                                                       *)

MigrationPlaces == {"new", "staging", "staged", "backed_up", "rechecked", "removed", "published",
                    "restoring", "failed", "ended"}
Endings == {"nothing", "unchanged", "migrated", "error", "died"}

MigrationTypeOK ==
  /\ cmAt \in [Migrations -> MigrationPlaces] /\ cmSaid \in [Migrations -> Endings]
  /\ cmEdits \in Nat

\* A migration that has published the backup, whatever it does next
Ahead(m) ==
  \/ cmAt[m] \in {"backed_up", "rechecked", "removed", "published", "restoring"}
  \/ cmSaid[m] = "migrated"

\* There is one such migration, and its backup stays
OneGoesAhead ==
  /\ \A m \in Migrations : Ahead(m) => cmBackup = "historical"
  /\ \A m, n \in Migrations : Ahead(m) /\ Ahead(n) => m = n

\* What is no longer there, unless the operator removed it, is in the backup
MissingIsBackedUp == cmCatalog = "absent" /\ cmEdits = 0 => cmBackup = "historical"

\* What the operator wrote is not what the last check has let through
NoTextInTheGap ==
  /\ cmKept = "custom" => cmCatalog = "custom"
  /\ \A m \in Migrations : cmAt[m] = "rechecked" => cmKept # "custom"

\* The bundled text stays once published, and a migration that says so has ended
BundledStays ==
  \A m \in Migrations :
    /\ cmSaid[m] = "migrated" => cmAt[m] = "ended"
    /\ cmEdits = 0 /\ (cmAt[m] = "published" \/ cmSaid[m] = "migrated") => cmCatalog = "bundled"

MigrationInv ==
  /\ MigrationTypeOK /\ OneGoesAhead /\ MissingIsBackedUp /\ NoTextInTheGap /\ BundledStays

\* One step of one migration, or of the operator
LEMMA MigrationStep == MigrationInv /\ [MigrationNext]_migrationVars => MigrationInv'
<1> SUFFICES ASSUME MigrationInv, [MigrationNext]_migrationVars
             PROVE  MigrationInv'
  OBVIOUS
<1>a. ASSUME NEW m \in Migrations, NEW where \in MigrationPlaces, MigrationGoes(m, where)
      PROVE  /\ cmAt' \in [Migrations -> MigrationPlaces] /\ cmSaid' = cmSaid
             /\ cmAt'[m] = where /\ \A n \in Migrations \ {m} : cmAt'[n] = cmAt[n]
  BY <1>a DEF MigrationGoes, MigrationInv, MigrationTypeOK
<1>b. ASSUME NEW m \in Migrations, NEW what \in Endings, MigrationEnds(m, what)
      PROVE  /\ cmAt' \in [Migrations -> MigrationPlaces] /\ cmSaid' \in [Migrations -> Endings]
             /\ cmAt'[m] = "ended" /\ \A n \in Migrations \ {m} : cmAt'[n] = cmAt[n]
             /\ cmSaid'[m] = what /\ \A n \in Migrations \ {m} : cmSaid'[n] = cmSaid[n]
  BY <1>b DEF MigrationEnds, MigrationInv, MigrationTypeOK, MigrationPlaces
<1> USE <1>a, <1>b DEF MigrationInv, MigrationTypeOK, MigrationPlaces, Endings, Ahead, OneGoesAhead,
        MissingIsBackedUp, NoTextInTheGap, BundledStays, MigrationAt, CatalogStays, World, Contents
<1>1. ASSUME NEW m \in Migrations, Consent(m)
      PROVE  MigrationInv'
  BY <1>1 DEF Consent
<1>2. ASSUME NEW m \in Migrations, StageFile(m)
      PROVE  MigrationInv'
  BY <1>2 DEF StageFile
<1>3. ASSUME NEW m \in Migrations, PublishBackup(m)
      PROVE  MigrationInv'
  BY <1>3 DEF PublishBackup
<1>4. ASSUME NEW m \in Migrations, RecheckSource(m)
      PROVE  MigrationInv'
  BY <1>4 DEF RecheckSource
<1>5. ASSUME NEW m \in Migrations, RemoveCatalog(m)
      PROVE  MigrationInv'
  BY <1>5 DEF RemoveCatalog
<1>6. ASSUME NEW m \in Migrations, PublishReplacement(m)
      PROVE  MigrationInv'
  BY <1>6 DEF PublishReplacement
<1>7. ASSUME NEW m \in Migrations, RestoreCatalog(m)
      PROVE  MigrationInv'
  BY <1>7 DEF RestoreCatalog
<1>8. ASSUME NEW m \in Migrations, RemoveStages(m)
      PROVE  MigrationInv'
  BY <1>8 DEF RemoveStages
<1>9. ASSUME NEW m \in Migrations, MigrationDies(m)
      PROVE  MigrationInv'
  BY <1>9 DEF MigrationDies
<1>10. ASSUME EditCatalog
       PROVE  MigrationInv'
  BY <1>10 DEF EditCatalog
<1>11. ASSUME UNCHANGED migrationVars
       PROVE  MigrationInv'
  BY <1>11 DEF migrationVars
<1> QED
  BY <1>1, <1>2, <1>3, <1>4, <1>5, <1>6, <1>7, <1>8, <1>9, <1>10, <1>11
     DEF MigrationNext, Migrate

\* A saved model preference and a project's catalog are not lost by an update
\* of them, wherever the commands that update them interleave, fail or die
\* (crates/nh-cli/src/private_state.rs, crates/nh-cli/src/cmd_catalog.rs).
THEOREM SavedValuesSurvive == PrivateSpec /\ MigrationSpec => []SavedValueSurvives
<1>1. ASSUME PrivateInit
      PROVE  PrivateInv
  <2>1. PrivateTypeOK
    <3>1. psFile \in Int /\ psPrevious \in [Runs -> Int]
      BY <1>1 DEF PrivateInit, NoText, Earlier
    <3>2. /\ psStale \in BOOLEAN /\ psAt \in [Runs -> PrivatePlaces]
          /\ psCommand \in [Runs -> {"none", "set", "clear", "select"}]
      BY <1>1 DEF PrivateInit, PrivatePlaces
    <3> QED BY <3>1, <3>2 DEF PrivateTypeOK
  <2>2. \A p \in Runs : psCommand[p] = "none"
    BY <1>1 DEF PrivateInit
  <2>3. psSaved = psFile
    BY <1>1 DEF PrivateInit
  <2>4. OldTextStaged
    BY <2>2 DEF OldTextStaged, ProcessAt
  <2>5. MissingIsInHand /\ SavedIsInHand
    BY <2>3 DEF MissingIsInHand, SavedIsInHand
  <2> QED
    BY <2>1, <2>4, <2>5 DEF PrivateInv
<1>2. PrivateInv => PreferenceSurvives
  BY DEF PrivateInv, MissingIsInHand, SavedIsInHand, InHand, HoldsRestore, StageOf,
         PreferenceSurvives
<1>3. MigrationInit => MigrationInv
  BY DEF MigrationInit, MigrationInv, MigrationTypeOK, MigrationPlaces, Endings, Ahead, OneGoesAhead, MissingIsBackedUp,
         NoTextInTheGap, BundledStays
<1>4. MigrationInv => CatalogSurvives
  BY DEF MigrationInv, MissingIsBackedUp, NoTextInTheGap, BundledStays, CatalogSurvives, Accepted
<1>5. PreferenceSurvives /\ CatalogSurvives => SavedValueSurvives
  BY DEF SavedValueSurvives
<1> QED
  BY <1>1, <1>2, <1>3, <1>4, <1>5, PrivateStep, MigrationStep, PTL DEF PrivateSpec, MigrationSpec

----------------------------------------------------------------------------
(* Recorder.                                                               *)

LogRecord ==
  [task : Nat, kind : {"start"}] \cup [task : Nat, kind : {"context", "request"}, seq : Nat]
    \cup [task : Nat, kind : {"tool"}, seq : Nat, same : Nat, errors : Nat]
    \cup [task : Nat, kind : {"task"}, turns : Nat, tools : Nat, dropped : Nat]
Measures == {"start", "context", "request", "tool"}
ToolCall == [call : Calls, error : BOOLEAN]
TaskState == [requests : Nat, tools : Nat, dropped : Nat, warned : BOOLEAN,
              previous : Calls \cup {NoCall}, same : Nat, errors : Nat]

RecorderTypeOK ==
  /\ rcAt \in {"off", "asking", "sent", "working"} /\ rcTask \in Nat /\ rcContexts \in BOOLEAN
  /\ rcState \in TaskState /\ rcLog \in Seq(LogRecord)
  /\ rcCalls \in Seq(ToolCall)
  /\ rcReceipt \in [turns : Nat, calls : Nat] /\ rcMissed \in Nat
  /\ rcAt # "off" => rcSlot = rcTask

\* The last k of the first n calls are the same one, or errors, and no more
SameRun(calls, n, k) ==
  /\ k \in 1 .. n
  /\ \A i \in n + 1 - k .. n : calls[i].call = calls[n].call
  /\ k < n => calls[n - k].call # calls[n].call
FaultRun(calls, n, k) ==
  /\ k \in 0 .. n
  /\ \A i \in n + 1 - k .. n : calls[i].error
  /\ k < n => ~calls[n - k].error

\* The repetition state is that of the calls so far, recorded or not.
Streaks(calls, state) ==
  /\ Len(calls) = state.tools
  /\ IF calls = << >>
     THEN state.previous = NoCall /\ state.same = 0
     ELSE state.previous = calls[state.tools].call /\ SameRun(calls, state.tools, state.same)
  /\ FaultRun(calls, state.tools, state.errors)

\* What a record in the log says is true, and not ahead of the task.
Truthful(log, calls, requests, contexts, task) ==
  \A p \in DOMAIN log :
    /\ log[p].task = task
    /\ log[p].kind = "start" => p = 1
    /\ log[p].kind = "request" => log[p].seq <= requests
    /\ log[p].kind = "context" => log[p].seq <= contexts
    /\ log[p].kind = "tool" =>
         /\ log[p].seq \in 1 .. Len(calls)
         /\ SameRun(calls, log[p].seq, log[p].same)
         /\ FaultRun(calls, log[p].seq, log[p].errors)

InSequence(log) ==
  \A i, j \in DOMAIN log :
    i < j /\ log[i].kind = log[j].kind /\ log[j].kind \in {"context", "request", "tool"}
      => log[i].seq < log[j].seq

\* A record is written for the start, each request, each plan and each tool
\* call, or counted as dropped.
Due(planned, requests, tools, plans) == 1 + requests + (IF planned THEN plans ELSE 0) + tools
Plans == IF rcAt = "sent" THEN rcState.requests + 1 ELSE rcState.requests
Balanced ==
  rcAt # "off" =>
    /\ Len(rcLog) + rcState.dropped = Due(rcContexts, rcState.requests, rcState.tools, Plans)
    /\ \A p \in DOMAIN rcLog : rcLog[p].kind # "task"
Summed(log, planned, missed) ==
  \A p \in DOMAIN log :
    log[p].kind = "task" =>
      /\ p = Len(log) /\ \A i \in 1 .. p - 1 : log[i].kind # "task"
      /\ p - 1 + log[p].dropped + missed
           = Due(planned, log[p].turns, log[p].tools, log[p].turns)
\* The receipt counts what was asked, and the calls that reached a tool or missed one.
Receipted ==
  rcAt # "off" => rcReceipt.turns = Plans /\ rcReceipt.calls = rcState.tools + rcMissed

Warned(state) == state.warned <=> state.dropped > 0

RecorderInv ==
  /\ RecorderTypeOK
  /\ Streaks(rcCalls, rcState)
  /\ Truthful(rcLog, rcCalls, rcState.requests, Plans, rcTask)
  /\ InSequence(rcLog)
  /\ Balanced /\ Receipted
  /\ Summed(rcLog, rcContexts, rcMissed)
  /\ Warned(rcState)

\* The state of a task keeps its type when it counts a loss or a call.
LEMMA LossTypes ==
  ASSUME NEW state \in TaskState, NEW n \in Nat
  PROVE  [state EXCEPT !.dropped = n, !.warned = TRUE] \in TaskState
<1>1. [state EXCEPT !.dropped = n] \in TaskState
  BY DEF TaskState
<1>2. \A other \in TaskState : [other EXCEPT !.warned = TRUE] \in TaskState
  BY DEF TaskState
<1>3. [state EXCEPT !.dropped = n, !.warned = TRUE] = [[state EXCEPT !.dropped = n] EXCEPT !.warned = TRUE]
  BY DEF TaskState
<1> QED BY <1>1, <1>2, <1>3

LEMMA CallTypes ==
  ASSUME NEW state \in TaskState, NEW n \in Nat, NEW m \in Nat, NEW k \in Nat, NEW call \in Calls
  PROVE  [[state EXCEPT !.errors = n, !.previous = call, !.same = m] EXCEPT !.tools = k] \in TaskState
<1>1. [state EXCEPT !.errors = n, !.previous = call, !.same = m] \in TaskState
  BY DEF TaskState
<1>2. \A other \in TaskState : [other EXCEPT !.tools = k] \in TaskState
  BY DEF TaskState
<1> QED BY <1>1, <1>2

LEMMA Elements == ASSUME NEW S, NEW s \in Seq(S), NEW i \in DOMAIN s PROVE s[i] \in S
  OBVIOUS

\* A record is written behind the others, or dropped with a warning.
LEMMA RecordsOne ==
  ASSUME NEW log \in Seq(LogRecord), NEW state \in TaskState, NEW record \in LogRecord,
         Records(log, state, record), Warned(state)
  PROVE  /\ rcState' \in TaskState /\ rcLog' \in Seq(LogRecord)
         /\ rcState'.requests = state.requests /\ rcState'.tools = state.tools
         /\ rcState'.previous = state.previous /\ rcState'.same = state.same
         /\ rcState'.errors = state.errors
         /\ Warned(rcState')
         /\ \/ rcLog' = log /\ rcState'.dropped = state.dropped + 1
            \/ rcLog' = Append(log, record) /\ rcState'.dropped = state.dropped
<1>1. CASE rcOther \/ rcLines >= MaxLogLines
  <2>1. rcState' = [state EXCEPT !.dropped = @ + 1, !.warned = TRUE] /\ rcLog' = log
    BY <1>1 DEF Records
  <2>2. /\ state.requests \in Nat /\ state.tools \in Nat /\ state.dropped \in Nat
        /\ state.previous \in Calls \cup {NoCall} /\ state.same \in Nat /\ state.errors \in Nat
    BY DEF TaskState
  <2>3. /\ rcState'.requests = state.requests /\ rcState'.tools = state.tools
        /\ rcState'.previous = state.previous /\ rcState'.same = state.same
        /\ rcState'.errors = state.errors
        /\ rcState'.dropped = state.dropped + 1
    BY <2>1 DEF TaskState
  <2>4. rcState'.warned
    BY <2>1 DEF TaskState
  <2>5. rcState' \in TaskState
    <3>1. state.dropped + 1 \in Nat
      BY <2>2
    <3>2. rcState' = [state EXCEPT !.dropped = state.dropped + 1, !.warned = TRUE]
      BY <2>1
    <3> QED BY <3>1, <3>2, LossTypes
  <2>6. Warned(rcState')
    <3>1. rcState'.dropped > 0
      BY <2>2, <2>3
    <3> QED BY <2>4, <3>1 DEF Warned
  <2> QED BY <2>1, <2>3, <2>5, <2>6
<1>2. CASE ~(rcOther \/ rcLines >= MaxLogLines)
  <2>1. rcState' = state /\ rcLog' = Append(log, record)
    BY <1>2 DEF Records
  <2> QED BY <2>1 DEF TaskState
<1> QED BY <1>1, <1>2

\* What a record behind the others has to say for the log to stay true.
LEMMA LogStaysTrue ==
  ASSUME NEW log \in Seq(LogRecord), NEW record \in LogRecord, NEW calls, NEW requests, NEW contexts,
         NEW task, Truthful(log, calls, requests, contexts, task), InSequence(log),
         Truthful(<< record >>, calls, requests, contexts, task),
         record.kind = "start" => log = << >>,
         \A i \in DOMAIN log : log[i].kind = record.kind
            /\ record.kind \in {"context", "request", "tool"} => log[i].seq < record.seq
  PROVE  Truthful(Append(log, record), calls, requests, contexts, task) /\ InSequence(Append(log, record))
<1> DEFINE after == Append(log, record)
<1>1. /\ DOMAIN log = 1 .. Len(log) /\ DOMAIN after = 1 .. Len(log) + 1 /\ Len(log) \in Nat
      /\ after[Len(log) + 1] = record
      /\ \A p \in 1 .. Len(log) : after[p] = log[p]
  OBVIOUS
<1>2. /\ record.task = task
      /\ record.kind = "request" => record.seq <= requests
      /\ record.kind = "context" => record.seq <= contexts
      /\ record.kind = "tool" =>
           /\ record.seq \in 1 .. Len(calls)
           /\ SameRun(calls, record.seq, record.same)
           /\ FaultRun(calls, record.seq, record.errors)
  <2>1. DOMAIN << record >> = {1} /\ << record >>[1] = record
    OBVIOUS
  <2> QED BY <2>1 DEF Truthful
<1>3. log = << >> => Len(log) = 0
  OBVIOUS
<1> HIDE DEF after
<1>4. Truthful(after, calls, requests, contexts, task)
  <2> SUFFICES ASSUME NEW p \in DOMAIN after
               PROVE  /\ after[p].task = task
                      /\ after[p].kind = "start" => p = 1
                      /\ after[p].kind = "request" => after[p].seq <= requests
                      /\ after[p].kind = "context" => after[p].seq <= contexts
                      /\ after[p].kind = "tool" =>
                           /\ after[p].seq \in 1 .. Len(calls)
                           /\ SameRun(calls, after[p].seq, after[p].same)
                           /\ FaultRun(calls, after[p].seq, after[p].errors)
    BY DEF Truthful
  <2>1. CASE p \in 1 .. Len(log)
    BY <1>1, <2>1 DEF Truthful
  <2>2. CASE p = Len(log) + 1
    BY <1>1, <1>2, <1>3, <2>2
  <2> QED BY <1>1, <2>1, <2>2
<1>5. InSequence(after)
  <2> SUFFICES ASSUME NEW i \in DOMAIN after, NEW j \in DOMAIN after, i < j,
                      after[i].kind = after[j].kind, after[j].kind \in {"context", "request", "tool"}
               PROVE  after[i].seq < after[j].seq
    BY DEF InSequence
  <2>1. i \in 1 .. Len(log) /\ (j \in 1 .. Len(log) \/ j = Len(log) + 1)
    BY <1>1
  <2> QED BY <1>1, <2>1 DEF InSequence
<1> QED BY <1>4, <1>5 DEF after

\* Written or dropped, a true record leaves a true log.
LEMMA RecordsStayTrue ==
  ASSUME NEW log \in Seq(LogRecord), NEW state \in TaskState, NEW record \in LogRecord,
         Records(log, state, record), Warned(state),
         NEW calls, NEW requests, NEW contexts, NEW task,
         Truthful(log, calls, requests, contexts, task), InSequence(log),
         Truthful(<< record >>, calls, requests, contexts, task),
         record.kind = "start" => log = << >>,
         \A i \in DOMAIN log : log[i].kind = record.kind
            /\ record.kind \in {"context", "request", "tool"} => log[i].seq < record.seq
  PROVE  Truthful(rcLog', calls, requests, contexts, task) /\ InSequence(rcLog')
<1>1. rcLog' = log \/ rcLog' = Append(log, record)
  BY RecordsOne
<1>2. Truthful(Append(log, record), calls, requests, contexts, task) /\ InSequence(Append(log, record))
  BY LogStaysTrue
<1> QED BY <1>1, <1>2

\* A record about the task in a log that has no summary yet adds one to the balance.
LEMMA RecordsBalance ==
  ASSUME NEW log \in Seq(LogRecord), NEW state \in TaskState, NEW record \in LogRecord,
         Records(log, state, record), Warned(state),
         record.kind # "task", \A p \in DOMAIN log : log[p].kind # "task"
  PROVE  /\ Len(rcLog') + rcState'.dropped = Len(log) + state.dropped + 1
         /\ \A p \in DOMAIN rcLog' : rcLog'[p].kind # "task"
<1> DEFINE after == Append(log, record)
<1>1. \/ rcLog' = log /\ rcState'.dropped = state.dropped + 1
      \/ rcLog' = after /\ rcState'.dropped = state.dropped
  BY RecordsOne
<1>2. /\ Len(after) = Len(log) + 1 /\ Len(log) \in Nat /\ state.dropped \in Nat
      /\ DOMAIN log = 1 .. Len(log) /\ DOMAIN after = 1 .. Len(log) + 1
      /\ after[Len(log) + 1] = record
      /\ \A p \in 1 .. Len(log) : after[p] = log[p]
  BY DEF TaskState
<1> HIDE DEF after
<1>3. \A p \in DOMAIN after : after[p].kind # "task"
  <2> SUFFICES ASSUME NEW p \in DOMAIN after PROVE after[p].kind # "task"
    OBVIOUS
  <2>1. p \in 1 .. Len(log) \/ p = Len(log) + 1
    BY <1>2
  <2> QED BY <1>2, <2>1
<1>4. CASE rcLog' = log /\ rcState'.dropped = state.dropped + 1
  BY <1>2, <1>4
<1>5. CASE rcLog' = after /\ rcState'.dropped = state.dropped
  BY <1>2, <1>3, <1>5
<1> QED BY <1>1, <1>4, <1>5

\* A log that was true stays so while its task goes on.
LEMMA TruthLasts ==
  ASSUME NEW log \in Seq(LogRecord), NEW calls, NEW task,
         NEW r \in Nat, NEW s \in Nat, NEW c \in Nat, NEW d \in Nat, r <= s, c <= d,
         Truthful(log, calls, r, c, task)
  PROVE  Truthful(log, calls, s, d, task)
<1>1. ASSUME NEW p \in DOMAIN log, log[p].kind \in {"request", "context"}
      PROVE  log[p].seq \in Nat
  BY <1>1 DEF LogRecord
<1> SUFFICES ASSUME NEW p \in DOMAIN log
             PROVE  /\ log[p].kind = "request" => log[p].seq <= s
                    /\ log[p].kind = "context" => log[p].seq <= d
  BY DEF Truthful
<1> QED BY <1>1 DEF Truthful

\* A call more does not change what was said of the ones before.
LEMMA RunsLast ==
  ASSUME NEW calls \in Seq(ToolCall), NEW c \in ToolCall,
         NEW n \in Nat, n <= Len(calls), NEW k \in Nat
  PROVE  /\ n > 0 /\ SameRun(calls, n, k) => SameRun(Append(calls, c), n, k)
         /\ FaultRun(calls, n, k) => FaultRun(Append(calls, c), n, k)
<1>1. \A i \in 1 .. Len(calls) : Append(calls, c)[i] = calls[i]
  OBVIOUS
<1>2. Len(calls) \in Nat
  OBVIOUS
<1>3. ASSUME n > 0, SameRun(calls, n, k) PROVE SameRun(Append(calls, c), n, k)
  BY <1>1, <1>2, <1>3 DEF SameRun
<1>4. ASSUME FaultRun(calls, n, k) PROVE FaultRun(Append(calls, c), n, k)
  <2>1. k \in 0 .. n /\ \A i \in n + 1 - k .. n : i \in 1 .. Len(calls)
    BY <1>2, <1>4 DEF FaultRun
  <2>2. \A i \in n + 1 - k .. n : Append(calls, c)[i].error
    BY <1>1, <1>4, <2>1, Zenon DEF FaultRun
  <2>3. k < n => n - k \in 1 .. Len(calls)
    BY <1>2, <2>1
  <2>4. k < n => ~Append(calls, c)[n - k].error
    BY <1>1, <1>4, <2>3, Zenon DEF FaultRun
  <2> QED BY <2>1, <2>2, <2>4, Zenon DEF FaultRun
<1> QED BY <1>3, <1>4

LEMMA TruthHasMoreCalls ==
  ASSUME NEW calls \in Seq(ToolCall), NEW c \in ToolCall,
         NEW log \in Seq(LogRecord), NEW task, NEW r, NEW d,
         Truthful(log, calls, r, d, task)
  PROVE  Truthful(log, Append(calls, c), r, d, task)
<1>1. Len(Append(calls, c)) = Len(calls) + 1 /\ Len(calls) \in Nat
  OBVIOUS
<1>2. ASSUME NEW p \in DOMAIN log, log[p].kind = "tool"
      PROVE  /\ log[p].seq \in 1 .. Len(Append(calls, c))
             /\ SameRun(Append(calls, c), log[p].seq, log[p].same)
             /\ FaultRun(Append(calls, c), log[p].seq, log[p].errors)
  <2>1. log[p].seq \in 1 .. Len(calls) /\ log[p].same \in Nat /\ log[p].errors \in Nat
    BY <1>2 DEF Truthful, LogRecord
  <2>2. SameRun(calls, log[p].seq, log[p].same) /\ FaultRun(calls, log[p].seq, log[p].errors)
    BY <1>2 DEF Truthful
  <2>3. log[p].seq \in Nat /\ log[p].seq <= Len(calls) /\ log[p].seq > 0
    BY <1>1, <2>1
  <2>4. /\ SameRun(Append(calls, c), log[p].seq, log[p].same)
        /\ FaultRun(Append(calls, c), log[p].seq, log[p].errors)
    BY <2>1, <2>2, <2>3, RunsLast
  <2> QED BY <1>1, <2>1, <2>4
<1> QED BY <1>2 DEF Truthful

AfterCall(state, call, error) == [Repeated(state, call, error) EXCEPT !.tools = @ + 1]
MoreCalls(calls, call, error) == Append(calls, [call |-> call, error |-> error])

\* The state after a call counts the runs that end with it.
LEMMA CallStreaks ==
  ASSUME NEW calls \in Seq(ToolCall), NEW state \in TaskState, Streaks(calls, state),
         NEW call \in Calls, NEW error \in BOOLEAN
  PROVE  /\ AfterCall(state, call, error) \in TaskState
         /\ Streaks(MoreCalls(calls, call, error), AfterCall(state, call, error))
         /\ AfterCall(state, call, error).requests = state.requests
         /\ AfterCall(state, call, error).tools = state.tools + 1
         /\ AfterCall(state, call, error).dropped = state.dropped
         /\ AfterCall(state, call, error).warned = state.warned
<1> DEFINE after == AfterCall(state, call, error)
           more == MoreCalls(calls, call, error)
           c == [call |-> call, error |-> error]
           n == Len(calls)
<1>1. /\ state.requests \in Nat /\ state.tools \in Nat /\ state.dropped \in Nat
      /\ state.previous \in Calls \cup {NoCall} /\ state.same \in Nat /\ state.errors \in Nat
      /\ state.warned \in BOOLEAN
  BY DEF TaskState
<1>2. /\ after.requests = state.requests /\ after.tools = state.tools + 1
      /\ after.dropped = state.dropped /\ after.warned = state.warned
      /\ after.previous = call
      /\ after.same = IF state.previous = call THEN state.same + 1 ELSE 1
      /\ after.errors = IF error THEN state.errors + 1 ELSE 0
  BY DEF TaskState, AfterCall, Repeated, ErrorRun
<1>3. after \in TaskState
  <2> DEFINE e == IF error THEN state.errors + 1 ELSE 0
             r == IF state.previous = call THEN state.same + 1 ELSE 1
             t == state.tools + 1
  <2>1. e \in Nat /\ r \in Nat /\ t \in Nat
    BY <1>1
  <2>2. after = [[state EXCEPT !.errors = e, !.previous = call, !.same = r] EXCEPT !.tools = t]
    BY DEF TaskState, AfterCall, Repeated, ErrorRun
  <2> HIDE DEF after, e, r, t
  <2> QED BY <2>1, <2>2, CallTypes
<1>4. /\ n \in Nat /\ Len(more) = n + 1 /\ more[n + 1] = c /\ more # << >>
      /\ \A i \in 1 .. n : more[i] = calls[i]
  <2>1. c \in ToolCall
    BY DEF ToolCall
  <2> QED BY <2>1 DEF MoreCalls
<1>5. n = state.tools /\ c.call = call /\ c.error = error
  BY DEF Streaks
<1>6. calls = << >> <=> n = 0
  OBVIOUS
<1>7. \A i \in 1 .. n : calls[i].call \in Calls
  <2> SUFFICES ASSUME NEW i \in 1 .. n PROVE calls[i].call \in Calls
    OBVIOUS
  <2>1. calls[i] \in ToolCall
    BY Elements
  <2> QED BY <2>1 DEF ToolCall
<1> HIDE DEF after, more, c
<1>8. FaultRun(more, n + 1, after.errors)
  <2>1. FaultRun(calls, n, state.errors)
    BY <1>5 DEF Streaks
  <2>2. CASE error
    <3>1. after.errors = state.errors + 1 /\ state.errors \in 0 .. n
      BY <1>2, <2>1, <2>2 DEF FaultRun
    <3>2. ASSUME NEW i \in (n + 1) + 1 - after.errors .. n + 1 PROVE more[i].error
      <4>1. i = n + 1 \/ (i \in n + 1 - state.errors .. n /\ i \in 1 .. n)
        BY <1>4, <3>1
      <4>2. CASE i = n + 1
        BY <1>4, <1>5, <2>2, <4>2
      <4>3. CASE i \in n + 1 - state.errors .. n /\ i \in 1 .. n
        <5>1. more[i] = calls[i]
          BY <1>4, <4>3
        <5>2. calls[i].error
          BY <2>1, <4>3 DEF FaultRun
        <5> QED BY <5>1, <5>2
      <4> QED BY <4>1, <4>2, <4>3
    <3>3. ASSUME after.errors < n + 1 PROVE ~more[(n + 1) - after.errors].error
      <4>1. (n + 1) - after.errors = n - state.errors /\ state.errors < n /\ n - state.errors \in 1 .. n
        BY <1>4, <3>1, <3>3
      <4>2. ~calls[n - state.errors].error
        BY <2>1, <4>1 DEF FaultRun
      <4>3. more[n - state.errors] = calls[n - state.errors]
        <5> DEFINE last == n - state.errors
        <5>1. last \in 1 .. n
          BY <4>1
        <5>2. \A i \in 1 .. n : more[i] = calls[i]
          BY <1>4
        <5> HIDE DEF last
        <5>3. more[last] = calls[last]
          BY <5>1, <5>2, Zenon
        <5> QED BY <5>3 DEF last
      <4> QED BY <4>1, <4>2, <4>3
    <3>4. after.errors \in 0 .. n + 1
      BY <1>4, <3>1
    <3> QED BY <3>2, <3>3, <3>4, Zenon DEF FaultRun
  <2>3. CASE ~error
    BY <1>1, <1>2, <1>4, <1>5, <2>3 DEF FaultRun
  <2> QED BY <2>2, <2>3
<1>9. SameRun(more, n + 1, after.same)
  <2>1. CASE n = 0
    <3>1. state.previous = NoCall /\ state.same = 0
      BY <1>6, <2>1 DEF Streaks
    <3>2. after.same = 1
      BY <1>2, <3>1
    <3> QED BY <1>4, <2>1, <3>2 DEF SameRun
  <2>2. CASE n # 0
    <3>1. state.previous = calls[n].call /\ SameRun(calls, n, state.same)
      BY <1>5, <1>6, <2>2 DEF Streaks
    <3>2. CASE state.previous = call
      <4>1. after.same = state.same + 1 /\ state.same \in 1 .. n
        BY <1>2, <3>1, <3>2 DEF SameRun
      <4>2. ASSUME NEW i \in (n + 1) + 1 - after.same .. n + 1 PROVE more[i].call = call
        <5>1. i = n + 1 \/ (i \in n + 1 - state.same .. n /\ i \in 1 .. n)
          BY <1>4, <4>1
        <5>2. CASE i = n + 1
          BY <1>4, <1>5, <5>2
        <5>3. CASE i \in n + 1 - state.same .. n /\ i \in 1 .. n
          <6>1. more[i] = calls[i]
            BY <1>4, <5>3
          <6>2. calls[i].call = call
            BY <3>1, <3>2, <5>3 DEF SameRun
          <6> QED BY <6>1, <6>2
        <5> QED BY <5>1, <5>2, <5>3
      <4>3. ASSUME after.same < n + 1 PROVE more[(n + 1) - after.same].call # call
        <5>1. (n + 1) - after.same = n - state.same /\ state.same < n /\ n - state.same \in 1 .. n
          BY <1>4, <4>1, <4>3
        <5>2. calls[n - state.same].call # call
          BY <3>1, <3>2, <5>1 DEF SameRun
        <5>3. more[n - state.same] = calls[n - state.same]
          <6> DEFINE last == n - state.same
          <6>1. last \in 1 .. n
            BY <5>1
          <6>2. \A i \in 1 .. n : more[i] = calls[i]
            BY <1>4
          <6> HIDE DEF last
          <6>3. more[last] = calls[last]
            BY <6>1, <6>2, Zenon
          <6> QED BY <6>3 DEF last
        <5> QED BY <5>1, <5>2, <5>3
      <4>4. after.same \in 1 .. n + 1
        BY <1>4, <4>1
      <4>5. more[n + 1].call = call
        BY <1>4, <1>5
      <4> QED BY <4>2, <4>3, <4>4, <4>5, Zenon DEF SameRun
    <3>3. CASE state.previous # call
      <4>1. after.same = 1
        BY <1>2, <3>3
      <4>2. more[n].call # call /\ more[n + 1].call = call
        BY <1>4, <1>5, <2>2, <3>1, <3>3
      <4>3. 1 \in 1 .. n + 1 /\ n + 1 - 1 = n /\ (n + 1) + 1 - 1 = n + 1
        BY <1>4
      <4>4. \A i \in n + 1 .. n + 1 : i = n + 1
        BY <1>4
      <4> QED BY <4>1, <4>2, <4>3, <4>4 DEF SameRun
    <3> QED BY <3>2, <3>3
  <2> QED BY <2>1, <2>2
<1>10. Streaks(more, after)
  BY <1>2, <1>4, <1>5, <1>8, <1>9 DEF Streaks
<1> QED BY <1>2, <1>3, <1>5, <1>8, <1>9, <1>10 DEF after, more

\* There is one place where a run can begin, and counting from it gives its length.
LEMMA SameRunIsCounted ==
  ASSUME NEW n \in Nat, NEW k \in Nat, SameRun(rcCalls, n, k)
  PROVE  RunUpTo(n, LAMBDA c : c.call = rcCalls[n].call) = k
<1> DEFINE Begins(first) == /\ \A i \in first .. n : rcCalls[i].call = rcCalls[n].call
                            /\ first > 1 => rcCalls[first - 1].call # rcCalls[n].call
           f == CHOOSE first \in 1 .. n + 1 : Begins(first)
           w == n + 1 - k
<1>1. RunUpTo(n, LAMBDA c : c.call = rcCalls[n].call) = n + 1 - f
  BY DEF RunUpTo
<1>2. w \in 1 .. n + 1 /\ k \in 1 .. n /\ n + 1 - w = k
  BY DEF SameRun
<1>3. Begins(w)
  <2>1. \A i \in w .. n : rcCalls[i].call = rcCalls[n].call
    BY DEF SameRun
  <2>2. w > 1 => k < n /\ w - 1 = n - k
    BY <1>2
  <2> QED BY <2>1, <2>2 DEF SameRun
<1> HIDE DEF w
<1>4. f \in 1 .. n + 1 /\ Begins(f)
  BY <1>2, <1>3
<1> HIDE DEF f
<1>5. ~(f < w)
  <2> SUFFICES ASSUME f < w PROVE FALSE
    OBVIOUS
  <2>1. w > 1 /\ w - 1 \in f .. n
    BY <1>2, <1>4
  <2> QED BY <1>3, <1>4, <2>1
<1>6. ~(w < f)
  <2> SUFFICES ASSUME w < f PROVE FALSE
    OBVIOUS
  <2>1. f > 1 /\ f - 1 \in w .. n
    BY <1>2, <1>4
  <2> QED BY <1>3, <1>4, <2>1
<1>7. f = w
  BY <1>2, <1>4, <1>5, <1>6
<1> QED BY <1>1, <1>2, <1>7

LEMMA FaultRunIsCounted ==
  ASSUME NEW n \in Nat, NEW k \in Nat, FaultRun(rcCalls, n, k)
  PROVE  RunUpTo(n, LAMBDA c : c.error) = k
<1> DEFINE Begins(first) == /\ \A i \in first .. n : rcCalls[i].error
                            /\ first > 1 => ~rcCalls[first - 1].error
           f == CHOOSE first \in 1 .. n + 1 : Begins(first)
           w == n + 1 - k
<1>1. RunUpTo(n, LAMBDA c : c.error) = n + 1 - f
  BY DEF RunUpTo
<1>2. w \in 1 .. n + 1 /\ k \in 0 .. n /\ n + 1 - w = k
  BY DEF FaultRun
<1>3. Begins(w)
  <2>1. \A i \in w .. n : rcCalls[i].error
    BY Zenon DEF FaultRun
  <2>2. w > 1 => k < n /\ w - 1 = n - k
    BY <1>2
  <2>3. k < n => ~rcCalls[n - k].error
    BY Zenon DEF FaultRun
  <2> QED BY <2>1, <2>2, <2>3
<1> HIDE DEF w
<1>4. f \in 1 .. n + 1 /\ Begins(f)
  BY <1>2, <1>3
<1> HIDE DEF f
<1>5. ~(f < w)
  <2> SUFFICES ASSUME f < w PROVE FALSE
    OBVIOUS
  <2>1. w > 1 /\ w - 1 \in f .. n
    BY <1>2, <1>4
  <2> QED BY <1>3, <1>4, <2>1
<1>6. ~(w < f)
  <2> SUFFICES ASSUME w < f PROVE FALSE
    OBVIOUS
  <2>1. f > 1 /\ f - 1 \in w .. n
    BY <1>2, <1>4
  <2> QED BY <1>3, <1>4, <2>1
<1>7. f = w
  BY <1>2, <1>4, <1>5, <1>6
<1> QED BY <1>1, <1>2, <1>7

LEMMA StreaksLast ==
  ASSUME NEW calls, NEW state, NEW later, Streaks(calls, state),
         later.tools = state.tools, later.previous = state.previous,
         later.same = state.same, later.errors = state.errors
  PROVE  Streaks(calls, later)
<1> QED BY DEF Streaks

\* What is written is a record.
LEMMA RecordTypes ==
  ASSUME NEW task \in Nat, NEW seq \in Nat, NEW same \in Nat, NEW errors \in Nat, NEW dropped \in Nat
  PROVE  /\ [task |-> task, kind |-> "start"] \in LogRecord
         /\ [task |-> task, kind |-> "context", seq |-> seq] \in LogRecord
         /\ [task |-> task, kind |-> "request", seq |-> seq] \in LogRecord
         /\ [task |-> task, kind |-> "tool", seq |-> seq, same |-> same, errors |-> errors] \in LogRecord
         /\ [task |-> task, kind |-> "task", turns |-> seq, tools |-> same, dropped |-> dropped] \in LogRecord
<1> QED BY DEF LogRecord

\* A record that is alone in the log says only what it says.
LEMMA TruthOfOne ==
  ASSUME NEW record, NEW calls, NEW requests, NEW contexts, NEW task, record.task = task,
         record.kind = "request" => record.seq <= requests,
         record.kind = "context" => record.seq <= contexts,
         record.kind = "tool" =>
           /\ record.seq \in 1 .. Len(calls)
           /\ SameRun(calls, record.seq, record.same)
           /\ FaultRun(calls, record.seq, record.errors)
  PROVE  Truthful(<< record >>, calls, requests, contexts, task)
<1>1. DOMAIN << record >> = {1} /\ << record >>[1] = record
  OBVIOUS
<1> QED BY <1>1 DEF Truthful

LEMMA StartAccounts ==
  ASSUME RecorderInv, StartTask
  PROVE  RecorderInv'
<1> DEFINE record == [task |-> rcTask + 1, kind |-> "start"]
<1>1. /\ rcTask' = rcTask + 1 /\ rcTask \in Nat /\ rcCalls' = << >> /\ rcContexts' = rcContexts
      /\ rcContexts \in BOOLEAN
      /\ Records(<< >>, NewState, record)
      /\ (rcAt' = "asking" /\ rcSlot' = rcTask + 1) \/ rcAt' = "off"
      /\ rcReceipt' = NewReceipt /\ rcMissed' = 0
  BY DEF StartTask, RecorderInv, RecorderTypeOK
<1>2. /\ NewState \in TaskState /\ NewState.requests = 0 /\ NewState.tools = 0 /\ NewState.dropped = 0
      /\ NewState.previous = NoCall /\ NewState.same = 0 /\ NewState.errors = 0
      /\ Warned(NewState)
  BY DEF NewState, TaskState, Warned
<1>3. << >> \in Seq(LogRecord) /\ DOMAIN << >> = {} /\ Len(<< >>) = 0 /\ << >> \in Seq(ToolCall)
  OBVIOUS
<1>4. record \in LogRecord /\ record.kind = "start" /\ record.task = rcTask + 1
  BY <1>1 DEF LogRecord
<1> HIDE DEF record
<1>5. /\ rcState' \in TaskState /\ rcLog' \in Seq(LogRecord)
      /\ rcState'.requests = 0 /\ rcState'.tools = 0
      /\ rcState'.previous = NoCall /\ rcState'.same = 0 /\ rcState'.errors = 0
      /\ Warned(rcState')
  BY <1>1, <1>2, <1>3, <1>4, RecordsOne
<1>6. Truthful(rcLog', << >>, 0, 0, rcTask + 1) /\ InSequence(rcLog')
  <2>1. Truthful(<< >>, << >>, 0, 0, rcTask + 1) /\ InSequence(<< >>)
    BY <1>3 DEF Truthful, InSequence
  <2>2. Truthful(<< record >>, << >>, 0, 0, rcTask + 1)
    BY <1>4, TruthOfOne
  <2> HIDE <1>5
  <2> QED BY <1>1, <1>2, <1>3, <1>4, <2>1, <2>2, RecordsStayTrue
<1>7. Len(rcLog') + rcState'.dropped = 1 /\ \A p \in DOMAIN rcLog' : rcLog'[p].kind # "task"
  <2>1. \A p \in DOMAIN << >> : << >>[p].kind # "task"
    BY <1>3
  <2>2. record.kind # "task"
    BY <1>4
  <2>3. /\ Len(rcLog') + rcState'.dropped = Len(<< >>) + NewState.dropped + 1
        /\ \A p \in DOMAIN rcLog' : rcLog'[p].kind # "task"
    <3> HIDE <1>5
    <3> QED BY <1>1, <1>2, <1>3, <1>4, <2>1, <2>2, RecordsBalance
  <2> QED BY <1>2, <1>3, <2>3
<1>8. Streaks(rcCalls', rcState')
  BY <1>1, <1>3, <1>5 DEF Streaks, FaultRun
<1>9. Plans' = 0 /\ rcState'.requests = 0
  BY <1>1, <1>5 DEF Plans
<1>10. RecorderTypeOK'
  BY <1>1, <1>3, <1>5 DEF RecorderTypeOK, NewReceipt
<1>11. Balanced' /\ Receipted'
  <2>1. Balanced'
    BY <1>1, <1>5, <1>7, <1>9 DEF Balanced, Due
  <2>2. Receipted'
    BY <1>1, <1>5, <1>9 DEF Receipted, NewReceipt
  <2> QED BY <2>1, <2>2
<1>12. Summed(rcLog', rcContexts', rcMissed')
  BY <1>7 DEF Summed
<1>13. Truthful(rcLog', rcCalls', rcState'.requests, Plans', rcTask')
  BY <1>1, <1>6, <1>9
<1> QED BY <1>5, <1>6, <1>8, <1>10, <1>11, <1>12, <1>13 DEF RecorderInv

LEMMA SendAccounts ==
  ASSUME RecorderInv, SendRequest
  PROVE  RecorderInv'
<1> DEFINE n == rcState.requests + 1
           record == [task |-> rcSlot, kind |-> "context", seq |-> n]
<1>1. /\ rcTask' = rcTask /\ rcTask \in Nat /\ rcCalls' = rcCalls /\ rcContexts' = rcContexts
      /\ rcContexts \in BOOLEAN /\ rcSlot' = rcSlot /\ rcAt = "asking" /\ rcAt' = "sent" /\ rcSlot = rcTask
      /\ rcLog \in Seq(LogRecord) /\ rcState \in TaskState /\ rcCalls \in Seq(ToolCall)
      /\ Streaks(rcCalls, rcState) /\ InSequence(rcLog)
      /\ Warned(rcState)
      /\ Truthful(rcLog, rcCalls, rcState.requests, rcState.requests, rcTask)
      /\ rcReceipt \in [turns : Nat, calls : Nat] /\ rcReceipt' = [rcReceipt EXCEPT !.turns = @ + 1]
      /\ rcMissed' = rcMissed /\ rcMissed \in Nat
      /\ rcReceipt.turns = rcState.requests /\ rcReceipt.calls = rcState.tools + rcMissed
  BY DEF SendRequest, RecorderInv, RecorderTypeOK, Plans, Receipted
<1>2. /\ rcState.requests \in Nat /\ n \in Nat /\ rcState.tools \in Nat /\ rcState.dropped \in Nat
      /\ Len(rcLog) \in Nat
  BY <1>1 DEF TaskState
<1>3. /\ Len(rcLog) + rcState.dropped = Due(rcContexts, rcState.requests, rcState.tools, rcState.requests)
      /\ \A p \in DOMAIN rcLog : rcLog[p].kind # "task"
  BY <1>1 DEF RecorderInv, Balanced, Plans
<1>4. record \in LogRecord /\ record.kind = "context" /\ record.task = rcTask /\ record.seq = n
  BY <1>1, <1>2 DEF LogRecord
<1>5. Truthful(rcLog, rcCalls, rcState.requests, n, rcTask)
  BY <1>1, <1>2, TruthLasts
<1> HIDE DEF record
<1>6. /\ rcState' \in TaskState /\ rcLog' \in Seq(LogRecord)
      /\ rcState'.requests = rcState.requests /\ rcState'.tools = rcState.tools
      /\ rcState'.previous = rcState.previous /\ rcState'.same = rcState.same
      /\ rcState'.errors = rcState.errors
      /\ Warned(rcState')
      /\ Truthful(rcLog', rcCalls, rcState.requests, n, rcTask) /\ InSequence(rcLog')
      /\ Len(rcLog') + rcState'.dropped = Due(rcContexts, rcState.requests, rcState.tools, n)
      /\ \A p \in DOMAIN rcLog' : rcLog'[p].kind # "task"
  <2>1. CASE rcContexts
    <3>1. Records(rcLog, rcState, record)
      BY <2>1 DEF SendRequest, record
    <3>2. Truthful(<< record >>, rcCalls, rcState.requests, n, rcTask)
      <4>1. n <= n
        BY <1>2
      <4> HIDE DEF n
      <4> QED BY <1>4, <4>1, TruthOfOne
    <3>3. \A i \in DOMAIN rcLog : rcLog[i].kind = record.kind => rcLog[i].seq < record.seq
      <4> SUFFICES ASSUME NEW i \in DOMAIN rcLog, rcLog[i].kind = "context" PROVE rcLog[i].seq < n
        BY <1>4
      <4>1. rcLog[i].seq \in Nat
        BY <1>1 DEF LogRecord
      <4>2. rcLog[i].seq <= rcState.requests
        BY <1>1 DEF Truthful
      <4> QED BY <1>2, <4>1, <4>2
    <3>4. Truthful(rcLog', rcCalls, rcState.requests, n, rcTask) /\ InSequence(rcLog')
      BY <1>1, <1>4, <1>5, <3>1, <3>2, <3>3, RecordsStayTrue
    <3>5. /\ Len(rcLog') + rcState'.dropped = Len(rcLog) + rcState.dropped + 1
          /\ \A p \in DOMAIN rcLog' : rcLog'[p].kind # "task"
      BY <1>1, <1>3, <1>4, <3>1, RecordsBalance
    <3>6. Due(rcContexts, rcState.requests, rcState.tools, n) = Due(rcContexts, rcState.requests, rcState.tools, rcState.requests) + 1
      BY <1>2, <2>1 DEF Due
    <3>7. /\ rcState' \in TaskState /\ rcLog' \in Seq(LogRecord)
          /\ rcState'.requests = rcState.requests /\ rcState'.tools = rcState.tools
          /\ rcState'.previous = rcState.previous /\ rcState'.same = rcState.same
          /\ rcState'.errors = rcState.errors
          /\ Warned(rcState')
      BY <1>1, <1>4, <3>1, RecordsOne
    <3> QED BY <1>3, <3>4, <3>5, <3>6, <3>7
  <2>2. CASE ~rcContexts
    <3>1. rcState' = rcState /\ rcLog' = rcLog
      BY <2>2 DEF SendRequest
    <3>2. Due(rcContexts, rcState.requests, rcState.tools, n) = Due(rcContexts, rcState.requests, rcState.tools, rcState.requests)
      BY <1>2, <2>2 DEF Due
    <3> QED BY <1>1, <1>3, <1>5, <3>1, <3>2
  <2> QED BY <2>1, <2>2
<1>7. Plans' = n /\ Receipted'
  <2>1. Plans' = n
    BY <1>1, <1>6 DEF Plans
  <2>2. rcReceipt'.turns = n /\ rcReceipt'.calls = rcState'.tools + rcMissed'
    BY <1>1, <1>6
  <2> QED BY <2>1, <2>2 DEF Receipted
<1> HIDE DEF n
<1>8. Streaks(rcCalls', rcState')
  BY <1>1, <1>6, StreaksLast
<1>9. RecorderTypeOK'
  BY <1>1, <1>6 DEF RecorderTypeOK
<1>10. Balanced'
  BY <1>1, <1>6, <1>7 DEF Balanced, Due
<1>11. Summed(rcLog', rcContexts', rcMissed')
  BY <1>6 DEF Summed
<1> QED BY <1>1, <1>6, <1>7, <1>8, <1>9, <1>10, <1>11 DEF RecorderInv

LEMMA RequestAccounts ==
  ASSUME RecorderInv, RequestDone
  PROVE  RecorderInv'
<1> DEFINE n == rcState.requests + 1
           state == [rcState EXCEPT !.requests = n]
           record == [task |-> rcSlot, kind |-> "request", seq |-> n]
<1>1. /\ rcTask' = rcTask /\ rcTask \in Nat /\ rcCalls' = rcCalls /\ rcContexts' = rcContexts
      /\ rcContexts \in BOOLEAN /\ rcSlot' = rcSlot /\ rcAt = "sent" /\ rcAt' = "working" /\ rcSlot = rcTask
      /\ rcLog \in Seq(LogRecord) /\ rcState \in TaskState /\ rcCalls \in Seq(ToolCall)
      /\ Streaks(rcCalls, rcState) /\ InSequence(rcLog) /\ Warned(rcState)
      /\ Truthful(rcLog, rcCalls, rcState.requests, n, rcTask)
      /\ Records(rcLog, state, record)
      /\ rcReceipt \in [turns : Nat, calls : Nat] /\ rcReceipt' = rcReceipt
      /\ rcMissed' = rcMissed /\ rcMissed \in Nat
      /\ rcReceipt.turns = n /\ rcReceipt.calls = rcState.tools + rcMissed
  BY DEF RequestDone, RecorderInv, RecorderTypeOK, Plans, Receipted
<1>2. /\ rcState.requests \in Nat /\ n \in Nat /\ rcState.tools \in Nat /\ rcState.dropped \in Nat
      /\ Len(rcLog) \in Nat
  BY <1>1 DEF TaskState
<1>3. /\ Len(rcLog) + rcState.dropped = Due(rcContexts, rcState.requests, rcState.tools, n)
      /\ \A p \in DOMAIN rcLog : rcLog[p].kind # "task"
  BY <1>1 DEF RecorderInv, Balanced, Plans
<1>4. record \in LogRecord /\ record.kind = "request" /\ record.task = rcTask /\ record.seq = n
  BY <1>1, <1>2 DEF LogRecord
<1>5. /\ state \in TaskState /\ state.requests = n /\ state.tools = rcState.tools
      /\ state.dropped = rcState.dropped /\ state.previous = rcState.previous
      /\ state.same = rcState.same /\ state.errors = rcState.errors
  BY <1>1, <1>2 DEF TaskState
<1>6. Warned(state)
  <2>1. state.warned = rcState.warned
    BY <1>1 DEF TaskState
  <2> QED BY <1>1, <1>5, <2>1 DEF Warned
<1>7. Truthful(rcLog, rcCalls, n, n, rcTask)
  <2>1. rcState.requests <= n /\ n <= n
    BY <1>2
  <2> HIDE DEF n, record, state
  <2> QED BY <1>1, <1>2, <2>1, TruthLasts
<1>8. \A i \in DOMAIN rcLog : rcLog[i].kind = record.kind => rcLog[i].seq < record.seq
  <2> SUFFICES ASSUME NEW i \in DOMAIN rcLog, rcLog[i].kind = "request" PROVE rcLog[i].seq < n
    BY <1>4
  <2>1. rcLog[i].seq \in Nat
    BY <1>1 DEF LogRecord
  <2>2. rcLog[i].seq <= rcState.requests
    BY <1>1 DEF Truthful
  <2> QED BY <1>2, <2>1, <2>2
<1>9. Truthful(<< record >>, rcCalls, n, n, rcTask)
  <2>1. n <= n
    BY <1>2
  <2> HIDE DEF n, record
  <2> QED BY <1>4, <2>1, TruthOfOne
<1>10. Due(rcContexts, n, rcState.tools, n) = Due(rcContexts, rcState.requests, rcState.tools, n) + 1
  <2> DEFINE planned == IF rcContexts THEN n ELSE 0
             q == rcState.requests
             tools == rcState.tools
  <2>1. planned \in Nat /\ q \in Nat /\ tools \in Nat /\ n = q + 1
    BY <1>2
  <2> HIDE DEF planned, n, q, tools
  <2>2. 1 + n + planned + tools = (1 + q + planned + tools) + 1
    BY <2>1
  <2> QED BY <2>2 DEF Due, planned, q, tools
<1> HIDE DEF n, state, record
<1>11. Truthful(rcLog', rcCalls, n, n, rcTask) /\ InSequence(rcLog')
  BY <1>1, <1>4, <1>5, <1>6, <1>7, <1>8, <1>9, RecordsStayTrue
<1>12. /\ Len(rcLog') + rcState'.dropped = Due(rcContexts, n, rcState.tools, n)
       /\ \A p \in DOMAIN rcLog' : rcLog'[p].kind # "task"
  <2>1. /\ Len(rcLog') + rcState'.dropped = Len(rcLog) + state.dropped + 1
        /\ \A p \in DOMAIN rcLog' : rcLog'[p].kind # "task"
    BY <1>1, <1>3, <1>4, <1>5, <1>6, RecordsBalance
  <2> QED BY <1>3, <1>5, <1>10, <2>1
<1>13. /\ rcState' \in TaskState /\ rcLog' \in Seq(LogRecord)
       /\ rcState'.requests = n /\ rcState'.tools = rcState.tools
       /\ rcState'.previous = rcState.previous /\ rcState'.same = rcState.same
       /\ rcState'.errors = rcState.errors /\ Warned(rcState')
  BY <1>1, <1>4, <1>5, <1>6, RecordsOne
<1>14. Plans' = n /\ Receipted'
  BY <1>1, <1>13 DEF Plans, Receipted
<1>15. Streaks(rcCalls', rcState')
  BY <1>1, <1>13, StreaksLast
<1>16. RecorderTypeOK'
  BY <1>1, <1>13 DEF RecorderTypeOK
<1>17. Balanced'
  BY <1>1, <1>12, <1>13, <1>14 DEF Balanced
<1>18. Summed(rcLog', rcContexts', rcMissed')
  BY <1>12 DEF Summed
<1> QED BY <1>1, <1>11, <1>13, <1>14, <1>15, <1>16, <1>17, <1>18 DEF RecorderInv

LEMMA ToolAccounts ==
  ASSUME RecorderInv, MeasuredTool
  PROVE  RecorderInv'
<1>1. PICK call \in Calls, error \in BOOLEAN :
        LET after == [Repeated(rcState, call, error) EXCEPT !.tools = @ + 1] IN
          /\ Records(rcLog, after, [task |-> rcSlot, kind |-> "tool", seq |-> after.tools,
                                    same |-> after.same, errors |-> after.errors])
          /\ rcCalls' = Append(rcCalls, [call |-> call, error |-> error])
  BY DEF MeasuredTool
<1> DEFINE state == AfterCall(rcState, call, error)
           record == [task |-> rcSlot, kind |-> "tool", seq |-> state.tools,
                      same |-> state.same, errors |-> state.errors]
           c == [call |-> call, error |-> error]
           calls == MoreCalls(rcCalls, call, error)
           n == rcState.requests
<1>2. /\ rcTask' = rcTask /\ rcTask \in Nat /\ rcContexts' = rcContexts
      /\ rcContexts \in BOOLEAN /\ rcSlot' = rcSlot /\ rcAt = "working" /\ rcAt' \in {"asking", "working"}
      /\ rcSlot = rcTask
      /\ rcLog \in Seq(LogRecord) /\ rcState \in TaskState /\ rcCalls \in Seq(ToolCall)
      /\ Streaks(rcCalls, rcState) /\ InSequence(rcLog) /\ Warned(rcState)
      /\ Truthful(rcLog, rcCalls, n, n, rcTask)
      /\ rcReceipt \in [turns : Nat, calls : Nat] /\ rcReceipt' = [rcReceipt EXCEPT !.calls = @ + 1]
      /\ rcMissed' = rcMissed /\ rcMissed \in Nat
      /\ rcReceipt.turns = n /\ rcReceipt.calls = rcState.tools + rcMissed
  BY DEF MeasuredTool, RecorderInv, RecorderTypeOK, Plans, Receipted
<1>3. Records(rcLog, state, record) /\ rcCalls' = calls
  BY <1>1 DEF AfterCall, MoreCalls
<1>4. /\ n \in Nat /\ rcState.tools \in Nat /\ rcState.dropped \in Nat
      /\ Len(rcLog) \in Nat /\ Len(rcCalls) = rcState.tools /\ Len(calls) = rcState.tools + 1
      /\ c \in ToolCall /\ calls \in Seq(ToolCall)
  BY <1>2 DEF TaskState, Streaks, ToolCall, MoreCalls
<1>5. /\ Len(rcLog) + rcState.dropped = Due(rcContexts, n, rcState.tools, n)
      /\ \A p \in DOMAIN rcLog : rcLog[p].kind # "task"
  BY <1>2 DEF RecorderInv, Balanced, Plans
<1>6. /\ state \in TaskState /\ Streaks(calls, state)
      /\ state.requests = n /\ state.tools = rcState.tools + 1
      /\ state.dropped = rcState.dropped /\ state.warned = rcState.warned
  <2>1. rcState \in TaskState /\ Streaks(rcCalls, rcState) /\ rcCalls \in Seq(ToolCall)
    BY <1>2
  <2>2. call \in Calls /\ error \in BOOLEAN
    BY <1>1
  <2> QED BY <2>1, <2>2, CallStreaks
<1> HIDE DEF state
<1>7. state.tools \in Nat /\ state.same \in Nat /\ state.errors \in Nat
  BY <1>6 DEF TaskState
<1>8. /\ record \in LogRecord /\ record.kind = "tool" /\ record.task = rcTask
      /\ record.seq = state.tools /\ record.same = state.same /\ record.errors = state.errors
  BY <1>2, <1>7 DEF LogRecord
<1> HIDE DEF record
<1>9. Warned(state)
  BY <1>2, <1>6 DEF Warned
<1>10. Truthful(rcLog, calls, n, n, rcTask)
  <2> HIDE DEF n, c
  <2>1. Truthful(rcLog, Append(rcCalls, c), n, n, rcTask)
    BY <1>2, <1>4, TruthHasMoreCalls
  <2> QED BY <2>1 DEF MoreCalls, c
<1>11. \A i \in DOMAIN rcLog : rcLog[i].kind = record.kind => rcLog[i].seq < record.seq
  <2> SUFFICES ASSUME NEW i \in DOMAIN rcLog, rcLog[i].kind = "tool" PROVE rcLog[i].seq < state.tools
    BY <1>8
  <2>1. rcLog[i].seq \in 1 .. Len(rcCalls)
    BY <1>2 DEF Truthful
  <2> QED BY <1>4, <1>6, <2>1
<1>12. Truthful(<< record >>, calls, n, n, rcTask)
  <2>1. state.tools \in 1 .. Len(calls)
    BY <1>4, <1>6
  <2>2. calls # << >>
    BY <1>4
  <2>3. SameRun(calls, state.tools, state.same) /\ FaultRun(calls, state.tools, state.errors)
    BY <1>6, <2>2 DEF Streaks
  <2> HIDE DEF n, calls
  <2> QED BY <1>8, <2>1, <2>3, TruthOfOne
<1>13. Due(rcContexts, n, state.tools, n) = Due(rcContexts, n, rcState.tools, n) + 1
  <2>1. state.tools = rcState.tools + 1 /\ rcState.tools \in Nat /\ n \in Nat
    BY <1>4, <1>6
  <2> QED BY <2>1 DEF Due
<1> HIDE DEF n, calls
<1>14. Truthful(rcLog', calls, n, n, rcTask) /\ InSequence(rcLog')
  BY <1>2, <1>3, <1>6, <1>8, <1>9, <1>10, <1>11, <1>12, RecordsStayTrue
<1>15. /\ Len(rcLog') + rcState'.dropped = Due(rcContexts, n, state.tools, n)
       /\ \A p \in DOMAIN rcLog' : rcLog'[p].kind # "task"
  <2>1. /\ Len(rcLog') + rcState'.dropped = Len(rcLog) + state.dropped + 1
        /\ \A p \in DOMAIN rcLog' : rcLog'[p].kind # "task"
    BY <1>2, <1>3, <1>5, <1>6, <1>8, <1>9, RecordsBalance
  <2> QED BY <1>5, <1>6, <1>13, <2>1
<1>16. /\ rcState' \in TaskState /\ rcLog' \in Seq(LogRecord)
       /\ rcState'.requests = n /\ rcState'.tools = state.tools
       /\ rcState'.previous = state.previous /\ rcState'.same = state.same
       /\ rcState'.errors = state.errors /\ Warned(rcState')
  BY <1>2, <1>3, <1>6, <1>8, <1>9, RecordsOne
<1>17. Plans' = n /\ Receipted'
  <2>1. Plans' = n
    BY <1>2, <1>16 DEF Plans
  <2>2. rcReceipt'.turns = n /\ rcReceipt'.calls = (rcState.tools + 1) + rcMissed'
    BY <1>2, <1>4
  <2>3. rcState'.tools = rcState.tools + 1
    BY <1>6, <1>16
  <2> QED BY <2>1, <2>2, <2>3 DEF Receipted
<1>18. Streaks(rcCalls', rcState')
  BY <1>3, <1>6, <1>16, StreaksLast
<1>19. RecorderTypeOK'
  <2>1. rcReceipt' \in [turns : Nat, calls : Nat]
    BY <1>2
  <2>2. rcCalls' \in Seq(ToolCall)
    BY <1>3, <1>4
  <2> QED BY <1>2, <1>16, <2>1, <2>2 DEF RecorderTypeOK
<1>20. Balanced'
  BY <1>2, <1>15, <1>16, <1>17 DEF Balanced
<1>21. Summed(rcLog', rcContexts', rcMissed')
  BY <1>15 DEF Summed
<1> QED BY <1>2, <1>3, <1>14, <1>16, <1>17, <1>18, <1>19, <1>20, <1>21 DEF RecorderInv

LEMMA EndAccounts ==
  ASSUME RecorderInv, EndTask
  PROVE  RecorderInv'
<1> DEFINE n == rcState.requests
           record == [task |-> rcSlot, kind |-> "task", turns |-> rcReceipt.turns,
                      tools |-> rcReceipt.calls, dropped |-> rcState.dropped]
           after == Append(rcLog, record)
<1>1. /\ rcTask' = rcTask /\ rcTask \in Nat /\ rcCalls' = rcCalls /\ rcContexts' = rcContexts
      /\ rcContexts \in BOOLEAN /\ rcAt \in {"asking", "working"} /\ rcAt' = "off" /\ rcSlot = rcTask
      /\ rcLog \in Seq(LogRecord) /\ rcState \in TaskState /\ rcCalls \in Seq(ToolCall)
      /\ Streaks(rcCalls, rcState) /\ InSequence(rcLog) /\ Warned(rcState)
      /\ Truthful(rcLog, rcCalls, n, n, rcTask)
      /\ Records(rcLog, rcState, record) \/ (rcState' = rcState /\ rcLog' = rcLog)
      /\ rcReceipt \in [turns : Nat, calls : Nat] /\ rcReceipt' = rcReceipt
      /\ rcMissed' = rcMissed /\ rcMissed \in Nat
      /\ rcReceipt.turns = n /\ rcReceipt.calls = rcState.tools + rcMissed
  BY DEF EndTask, RecorderInv, RecorderTypeOK, Plans, Receipted
<1>2. /\ n \in Nat /\ rcState.tools \in Nat /\ rcState.dropped \in Nat /\ Len(rcLog) \in Nat
  BY <1>1 DEF TaskState
<1>3. /\ Len(rcLog) + rcState.dropped = Due(rcContexts, n, rcState.tools, n)
      /\ \A p \in DOMAIN rcLog : rcLog[p].kind # "task"
  BY <1>1 DEF RecorderInv, Balanced, Plans
<1>4. /\ record \in LogRecord /\ record.kind = "task" /\ record.task = rcTask
      /\ record.turns = n /\ record.tools = rcState.tools + rcMissed
      /\ record.dropped = rcState.dropped
  BY <1>1, <1>2 DEF LogRecord
<1> HIDE DEF record
<1>5. Truthful(<< record >>, rcCalls, n, n, rcTask)
  BY <1>4, TruthOfOne
<1>6. Summed(rcLog, rcContexts, rcMissed)
  BY <1>3 DEF Summed
<1>7. Summed(after, rcContexts, rcMissed)
  <2>1. /\ Len(after) = Len(rcLog) + 1 /\ DOMAIN after = 1 .. Len(rcLog) + 1
        /\ after[Len(rcLog) + 1] = record /\ DOMAIN rcLog = 1 .. Len(rcLog)
        /\ \A p \in 1 .. Len(rcLog) : after[p] = rcLog[p]
    BY <1>1, <1>4
  <2> HIDE DEF after, n
  <2> SUFFICES ASSUME NEW p \in DOMAIN after, after[p].kind = "task"
               PROVE  /\ p = Len(after) /\ \A i \in 1 .. p - 1 : after[i].kind # "task"
                      /\ p - 1 + after[p].dropped + rcMissed
                           = Due(rcContexts, after[p].turns, after[p].tools, after[p].turns)
    BY DEF Summed
  <2>2. p = Len(rcLog) + 1
    BY <1>2, <1>3, <2>1
  <2>3. p - 1 = Len(rcLog)
    BY <1>2, <2>2
  <2>4. after[p] = record /\ p = Len(after) /\ \A i \in 1 .. p - 1 : after[i].kind # "task"
    BY <1>3, <2>1, <2>2, <2>3
  <2>5. p - 1 + record.dropped + rcMissed = Due(rcContexts, record.turns, record.tools, record.turns)
    <3>1. p - 1 + record.dropped = Due(rcContexts, n, rcState.tools, n)
      BY <1>3, <1>4, <2>3
    <3>2. Due(rcContexts, n, rcState.tools + rcMissed, n) = Due(rcContexts, n, rcState.tools, n) + rcMissed
      BY <1>1, <1>2 DEF Due
    <3> QED BY <1>4, <3>1, <3>2
  <2> QED BY <2>4, <2>5
<1> HIDE DEF n, after
<1>8. /\ rcState' \in TaskState /\ rcLog' \in Seq(LogRecord)
      /\ rcState'.requests = rcState.requests /\ rcState'.tools = rcState.tools
      /\ rcState'.previous = rcState.previous /\ rcState'.same = rcState.same
      /\ rcState'.errors = rcState.errors /\ Warned(rcState')
      /\ rcLog' = rcLog \/ rcLog' = after
      /\ Truthful(rcLog', rcCalls, n, n, rcTask) /\ InSequence(rcLog')
  <2>1. CASE Records(rcLog, rcState, record)
    <3>1. Truthful(rcLog', rcCalls, n, n, rcTask) /\ InSequence(rcLog')
      BY <1>1, <1>4, <1>5, <2>1, RecordsStayTrue
    <3>2. /\ rcState' \in TaskState /\ rcLog' \in Seq(LogRecord)
          /\ rcState'.requests = rcState.requests /\ rcState'.tools = rcState.tools
          /\ rcState'.previous = rcState.previous /\ rcState'.same = rcState.same
          /\ rcState'.errors = rcState.errors /\ Warned(rcState')
          /\ rcLog' = rcLog \/ rcLog' = after
      BY <1>1, <1>4, <2>1, RecordsOne DEF after
    <3> QED BY <3>1, <3>2
  <2>2. CASE rcState' = rcState /\ rcLog' = rcLog
    BY <1>1, <2>2
  <2> QED BY <1>1, <2>1, <2>2
<1>9. Plans' = n /\ rcState'.requests = n
  BY <1>1, <1>8 DEF Plans, n
<1>10. Streaks(rcCalls', rcState')
  BY <1>1, <1>8, StreaksLast
<1>11. RecorderTypeOK'
  BY <1>1, <1>8 DEF RecorderTypeOK
<1>12. Balanced' /\ Receipted'
  BY <1>1 DEF Balanced, Receipted
<1>13. Summed(rcLog', rcContexts', rcMissed')
  BY <1>1, <1>6, <1>7, <1>8
<1>14. Truthful(rcLog', rcCalls', rcState'.requests, Plans', rcTask')
  BY <1>1, <1>8, <1>9
<1> QED BY <1>8, <1>10, <1>11, <1>12, <1>13, <1>14 DEF RecorderInv

\* A call that reaches no tool is counted and leaves the log as it is.
LEMMA MissedAccounts ==
  ASSUME RecorderInv, UnmeasuredCall
  PROVE  RecorderInv'
<1>1. /\ UNCHANGED << rcTask, rcContexts, rcState, rcSlot, rcLog, rcCalls >>
      /\ rcAt = "working" /\ rcAt' \in {"asking", "working"}
      /\ rcReceipt \in [turns : Nat, calls : Nat] /\ rcReceipt' = [rcReceipt EXCEPT !.calls = @ + 1]
      /\ rcMissed' = rcMissed + 1 /\ rcMissed \in Nat
      /\ rcReceipt.turns = rcState.requests /\ rcReceipt.calls = rcState.tools + rcMissed
      /\ rcState \in TaskState
  BY DEF UnmeasuredCall, RecorderInv, RecorderTypeOK, Receipted, Plans
<1>2. Plans' = Plans /\ Plans = rcState.requests
  BY <1>1 DEF Plans
<1>3. RecorderTypeOK' /\ Balanced'
  BY <1>1, <1>2 DEF RecorderInv, RecorderTypeOK, Balanced
<1>4. Receipted'
  <2>1. rcState.tools \in Nat
    BY <1>1 DEF TaskState
  <2> QED BY <1>1, <1>2, <2>1 DEF Receipted
<1>5. Summed(rcLog', rcContexts', rcMissed')
  BY <1>1 DEF RecorderInv, Balanced, Summed
<1> QED BY <1>1, <1>2, <1>3, <1>4, <1>5 DEF RecorderInv

\* Another process in the way changes what the log takes, not what it says.
LEMMA OthersAccount ==
  ASSUME RecorderInv,
         UNCHANGED << rcAt, rcTask, rcContexts, rcState, rcSlot, rcLog, rcReceipt, rcCalls, rcMissed >>
  PROVE  RecorderInv'
<1>1. Plans' = Plans /\ RecorderTypeOK' /\ Balanced' /\ Receipted'
  BY DEF RecorderInv, RecorderTypeOK, Balanced, Receipted, Plans
<1> QED BY <1>1 DEF RecorderInv

LEMMA RecorderStarts == ASSUME RecorderInit PROVE RecorderInv
<1>1. RecorderTypeOK
  BY DEF RecorderInit, RecorderTypeOK, NewState, TaskState, NewReceipt
<1>2. Streaks(rcCalls, rcState)
  BY DEF RecorderInit, Streaks, FaultRun, NewState
<1>3. rcLog = << >> /\ DOMAIN << >> = {}
  BY DEF RecorderInit
<1>4. Truthful(rcLog, rcCalls, rcState.requests, Plans, rcTask) /\ InSequence(rcLog) /\ Summed(rcLog, rcContexts, rcMissed)
  BY <1>3 DEF Truthful, InSequence, Summed
<1>5. Balanced /\ Receipted
  BY DEF RecorderInit, Balanced, Receipted
<1>6. Warned(rcState)
  BY DEF RecorderInit, NewState, Warned
<1> QED BY <1>1, <1>2, <1>4, <1>5, <1>6 DEF RecorderInv

LEMMA RecorderStep ==
  ASSUME RecorderInv, [RecorderNext]_recorderVars
  PROVE  RecorderInv'
<1>1. CASE StartTask
  BY <1>1, StartAccounts
<1>2. CASE SendRequest
  BY <1>2, SendAccounts
<1>3. CASE RequestDone
  BY <1>3, RequestAccounts
<1>4. CASE MeasuredTool
  BY <1>4, ToolAccounts
<1>5. CASE EndTask
  BY <1>5, EndAccounts
<1>7. CASE UnmeasuredCall
  BY <1>7, MissedAccounts
<1>6. CASE OtherLocks \/ OtherUnlocks \/ UNCHANGED recorderVars
  BY <1>6, OthersAccount DEF OtherLocks, OtherUnlocks, recorderVars
<1> QED BY <1>1, <1>2, <1>3, <1>4, <1>5, <1>6, <1>7 DEF RecorderNext

\* Everything before the summary was recorded about the task.
LEMMA BeforeCounts ==
  ASSUME NEW p \in DOMAIN rcLog, rcLog \in Seq(LogRecord), \A i \in 1 .. p - 1 : rcLog[i].kind # "task"
  PROVE  Cardinality(Before(p, Measures)) = p - 1
<1>1. p \in 1 .. Len(rcLog) /\ Len(rcLog) \in Nat
  BY LenProperties
<1>2. \A i \in 1 .. p - 1 : rcLog[i].kind \in Measures
  <2> SUFFICES ASSUME NEW i \in 1 .. p - 1 PROVE rcLog[i].kind \in Measures
    OBVIOUS
  <2>1. i \in DOMAIN rcLog
    BY <1>1
  <2>2. rcLog[i] \in LogRecord
    BY <2>1, Elements
  <2>3. rcLog[i].kind \in {"start", "context", "request", "tool", "task"}
    BY <2>2 DEF LogRecord
  <2> QED BY <2>3 DEF Measures
<1>3. Before(p, Measures) = 1 .. p - 1
  BY <1>2 DEF Before
<1>4. p - 1 \in Nat
  BY <1>1
<1>5. Cardinality(1 .. p - 1) = p - 1
  <2> DEFINE last == p - 1
  <2>1. last \in Nat
    BY <1>4
  <2> HIDE DEF last
  <2>2. Cardinality(1 .. last) = last
    BY <2>1, FS_Interval
  <2> QED BY <2>2 DEF last
<1> QED BY <1>3, <1>5

LEMMA AccountsFollow == ASSUME RecorderInv PROVE MeasurementsAccount
<1>1. /\ rcLog \in Seq(LogRecord) /\ rcContexts \in BOOLEAN /\ InSequence(rcLog) /\ Warned(rcState)
      /\ Truthful(rcLog, rcCalls, rcState.requests, Plans, rcTask) /\ Summed(rcLog, rcContexts, rcMissed)
      /\ rcMissed \in Nat
  BY DEF RecorderInv, RecorderTypeOK
<1>2. ASSUME NEW p \in DOMAIN rcLog PROVE rcLog[p] \in LogRecord
  BY <1>1, Elements
<1>3. ASSUME NEW p \in DOMAIN rcLog, rcLog[p].kind = "task"
      PROVE  (1 + rcLog[p].turns * (IF rcContexts THEN 2 ELSE 1) + rcLog[p].tools) - rcMissed
               = Cardinality(Before(p, Measures)) + rcLog[p].dropped
  <2>1. /\ \A i \in 1 .. p - 1 : rcLog[i].kind # "task"
        /\ p - 1 + rcLog[p].dropped + rcMissed
             = Due(rcContexts, rcLog[p].turns, rcLog[p].tools, rcLog[p].turns)
    BY <1>1, <1>3 DEF Summed
  <2>2. Cardinality(Before(p, Measures)) = p - 1
    BY <1>1, <2>1, BeforeCounts
  <2>3. rcLog[p].turns \in Nat /\ rcLog[p].tools \in Nat /\ rcLog[p].dropped \in Nat
    BY <1>2, <1>3 DEF LogRecord
  <2>4. Due(rcContexts, rcLog[p].turns, rcLog[p].tools, rcLog[p].turns)
          = 1 + rcLog[p].turns * (IF rcContexts THEN 2 ELSE 1) + rcLog[p].tools
    BY <2>3 DEF Due
  <2> DEFINE due == 1 + rcLog[p].turns * (IF rcContexts THEN 2 ELSE 1) + rcLog[p].tools
  <2>5. due \in Int
    <3>1. (IF rcContexts THEN 2 ELSE 1) \in Int
      BY <1>1
    <3> QED BY <2>3, <3>1
  <2>6. p - 1 \in Int
    BY <1>1
  <2>7. p - 1 + rcLog[p].dropped + rcMissed = due
    BY <2>1, <2>4
  <2> HIDE DEF due
  <2>8. due - rcMissed = (p - 1) + rcLog[p].dropped
    BY <1>1, <2>3, <2>5, <2>6, <2>7
  <2> QED BY <2>2, <2>8 DEF due
<1>4. ASSUME NEW p \in DOMAIN rcLog, rcLog[p].kind \in {"request", "tool", "context"},
             NEW i \in Before(p, {rcLog[p].kind})
      PROVE  rcLog[i].seq < rcLog[p].seq
  <2>1. p \in 1 .. Len(rcLog) /\ Len(rcLog) \in Nat /\ i \in 1 .. p - 1 /\ rcLog[i].kind = rcLog[p].kind
    BY <1>1, <1>4 DEF Before
  <2>2. i \in DOMAIN rcLog /\ i < p
    BY <1>1, <2>1
  <2> QED BY <1>1, <1>4, <2>1, <2>2 DEF InSequence
<1>5. ASSUME NEW p \in DOMAIN rcLog, rcLog[p].kind \notin {"task", "request", "tool", "context"}
      PROVE  p = 1
  <2>1. rcLog[p].kind = "start"
    BY <1>2, <1>5 DEF LogRecord
  <2> QED BY <1>1, <2>1 DEF Truthful
<1>6. ASSUME NEW p \in DOMAIN rcLog PROVE rcLog[p].task = rcTask
  BY <1>1 DEF Truthful
<1>7. ASSUME NEW p \in DOMAIN rcLog, rcLog[p].kind = "tool"
      PROVE  /\ rcLog[p].same = RunUpTo(rcLog[p].seq, LAMBDA c : c.call = rcCalls[rcLog[p].seq].call)
             /\ rcLog[p].errors = RunUpTo(rcLog[p].seq, LAMBDA c : c.error)
  <2>1. rcLog[p].seq \in Nat /\ rcLog[p].same \in Nat /\ rcLog[p].errors \in Nat
    BY <1>2, <1>7 DEF LogRecord
  <2>2. SameRun(rcCalls, rcLog[p].seq, rcLog[p].same) /\ FaultRun(rcCalls, rcLog[p].seq, rcLog[p].errors)
    BY <1>1, <1>7 DEF Truthful
  <2>3. RunUpTo(rcLog[p].seq, LAMBDA c : c.call = rcCalls[rcLog[p].seq].call) = rcLog[p].same
    BY <2>1, <2>2, SameRunIsCounted
  <2>4. RunUpTo(rcLog[p].seq, LAMBDA c : c.error) = rcLog[p].errors
    BY <2>1, <2>2, FaultRunIsCounted
  <2> QED BY <2>3, <2>4
<1>8. rcState.warned <=> rcState.dropped > 0
  BY <1>1 DEF Warned
<1> QED BY <1>3, <1>4, <1>5, <1>6, <1>7, <1>8 DEF MeasurementsAccount, Measures

\* A task's summary, less the calls that reached no tool, and what the log has of
\* the task add up, the records follow what they measure, and the streaks they
\* report are true, however often another process was in the way or the log was
\* full.  (record_task, record, MeasuredTool)
THEOREM MeasurementsAddUp == RecorderSpec => []MeasurementsAccount
<1>1. RecorderInit => RecorderInv
  BY RecorderStarts
<1>2. RecorderInv /\ [RecorderNext]_recorderVars => RecorderInv'
  BY RecorderStep
<1>3. RecorderInv => MeasurementsAccount
  BY AccountsFollow
<1> QED BY <1>1, <1>2, <1>3, PTL DEF RecorderSpec

----------------------------------------------------------------------------
(* ContextArchive: messages have no common set, a history is a sequence of *)
(* something.                                                              *)

Listed(h) == \E S : h \in Seq(S)

\* A sequence has its places from one on.
LEMMA ListedPlaces ==
  ASSUME NEW h, Listed(h)
  PROVE  Len(h) \in Nat /\ DOMAIN h = 1 .. Len(h)
BY LenProperties DEF Listed

\* A function on the numbers up to n is a sequence of that length.
LEMMA FunctionIsListed ==
  ASSUME NEW S, NEW n \in Nat, NEW f \in [1 .. n -> S]
  PROVE  Listed(f) /\ Len(f) = n
<1>1. f \in Seq(S)
  BY SeqDef
<1> QED BY <1>1, LenProperties DEF Listed

\* What appending does, place by place.
LEMMA AppendPlaces ==
  ASSUME NEW h, Listed(h), NEW m
  PROVE  /\ Listed(Append(h, m)) /\ Len(Append(h, m)) = Len(h) + 1
         /\ Append(h, m)[Len(h) + 1] = m
         /\ \A i \in 1 .. Len(h) : Append(h, m)[i] = h[i]
<1>1. PICK S : h \in Seq(S)
  BY DEF Listed
<1>2. h \in Seq(S \cup {m}) /\ m \in S \cup {m}
  BY <1>1, SeqMonotonic
<1> QED BY <1>2, AppendProperties, LenProperties DEF Listed

\* What a part of a sequence is, place by place.
LEMMA PartPlaces ==
  ASSUME NEW S, NEW h \in Seq(S), NEW a \in 1 .. Len(h) + 1, NEW b \in a - 1 .. Len(h)
  PROVE  /\ SubSeq(h, a, b) \in Seq(S) /\ Len(SubSeq(h, a, b)) = b - a + 1
         /\ \A i \in 1 .. b - a + 1 : SubSeq(h, a, b)[i] = h[a + i - 1]
<1>1. Len(h) \in Nat /\ a \in Int /\ b \in Int
  BY LenProperties
<1>2. \A i \in a .. b : h[i] \in S
  BY <1>1, ElementOfSeq
<1>3. /\ SubSeq(h, a, b) \in Seq(S)
      /\ Len(SubSeq(h, a, b)) = IF a <= b THEN b - a + 1 ELSE 0
      /\ \A i \in 1 .. b - a + 1 : SubSeq(h, a, b)[i] = h[a + i - 1]
  BY <1>1, <1>2, SubSeqProperties
<1>4. Len(SubSeq(h, a, b)) = b - a + 1
  BY <1>1, <1>3
<1> QED BY <1>3, <1>4

\* A sequence that has another as a prefix continues it.
LEMMA PrefixIsContinued ==
  ASSUME NEW g, NEW h, Listed(g), Listed(h), IsPrefix(g, h)
  PROVE  Len(g) <= Len(h) /\ \A i \in 1 .. Len(g) : h[i] = g[i]
<1>1. PICK S : g \in Seq(S)
  BY DEF Listed
<1>2. PICK T : h \in Seq(T)
  BY DEF Listed
<1> DEFINE p == SubSeq(g, 1, Len(g))
           q == SubSeq(h, 1, Len(g))
<1>3. Len(g) \in Nat /\ Len(h) \in Nat /\ Len(g) <= Len(h) /\ p = q
  BY <1>1, <1>2, LenProperties DEF IsPrefix
<1>4. /\ 1 \in 1 .. Len(g) + 1 /\ Len(g) \in 1 - 1 .. Len(g)
      /\ 1 \in 1 .. Len(h) + 1 /\ Len(g) \in 1 - 1 .. Len(h)
      /\ Len(g) - 1 + 1 = Len(g) /\ \A i \in 1 .. Len(g) : 1 + i - 1 = i
  BY <1>3
<1>5. \A i \in 1 .. Len(g) - 1 + 1 : p[i] = g[1 + i - 1]
  BY <1>1, <1>4, PartPlaces
<1>6. \A i \in 1 .. Len(g) - 1 + 1 : q[i] = h[1 + i - 1]
  BY <1>2, <1>4, PartPlaces
<1> HIDE DEF p, q
<1> QED BY <1>3, <1>4, <1>5, <1>6

\* What inserting does, place by place.
LEMMA InsertedPlaces ==
  ASSUME NEW h, Listed(h), NEW n \in 0 .. Len(h), NEW m
  PROVE  LET whole == InsertAt(h, n + 1, m)
         IN  /\ Listed(whole) /\ Len(whole) = Len(h) + 1
             /\ \A i \in 1 .. n : whole[i] = h[i]
             /\ whole[n + 1] = m
             /\ \A i \in n + 1 .. Len(h) : whole[i + 1] = h[i]
<1> DEFINE front == SubSeq(h, 1, n)
           back  == SubSeq(h, n + 1, Len(h))
           start == front \o << m >>
           whole == start \o back
<1>1. PICK S : h \in Seq(S)
  BY DEF Listed
<1>2. Len(h) \in Nat /\ h \in Seq(S \cup {m})
  BY <1>1, LenProperties, SeqMonotonic
<1>3. /\ 1 \in 1 .. Len(h) + 1 /\ n \in 1 - 1 .. Len(h) /\ n - 1 + 1 = n
      /\ n + 1 \in 1 .. Len(h) + 1 /\ Len(h) \in (n + 1) - 1 .. Len(h) /\ Len(h) - (n + 1) + 1 = Len(h) - n
      /\ \A i \in 1 .. n : 1 + i - 1 = i
      /\ \A i \in 1 .. Len(h) - n : (n + 1) + i - 1 = n + i
  BY <1>2
<1>4. front \in Seq(S \cup {m}) /\ Len(front) = n /\ \A i \in 1 .. n : front[i] = h[i]
  <2>1. /\ front \in Seq(S \cup {m}) /\ Len(front) = n - 1 + 1
        /\ \A i \in 1 .. n - 1 + 1 : front[i] = h[1 + i - 1]
    <3>1. 1 \in 1 .. Len(h) + 1 /\ n \in 1 - 1 .. Len(h)
      BY <1>3
    <3> QED BY <1>2, <3>1, PartPlaces, Zenon
  <2> HIDE DEF front
  <2> QED BY <1>3, <2>1, Zenon
<1>5. /\ back \in Seq(S \cup {m}) /\ Len(back) = Len(h) - n
      /\ \A i \in 1 .. Len(h) - n : back[i] = h[n + i]
  <2>1. /\ back \in Seq(S \cup {m}) /\ Len(back) = Len(h) - (n + 1) + 1
        /\ \A i \in 1 .. Len(h) - (n + 1) + 1 : back[i] = h[(n + 1) + i - 1]
    <3>1. n + 1 \in 1 .. Len(h) + 1 /\ Len(h) \in (n + 1) - 1 .. Len(h)
      BY <1>3
    <3> QED BY <1>2, <3>1, PartPlaces, Zenon
  <2>2. Len(h) - (n + 1) + 1 = Len(h) - n
    BY <1>3
  <2>3. ASSUME NEW i \in 1 .. Len(h) - n PROVE back[i] = h[n + i]
    <3>1. back[i] = h[(n + 1) + i - 1]
      BY <2>1, <2>2, Zenon
    <3>2. (n + 1) + i - 1 = n + i
      BY <1>3
    <3> QED BY <3>1, <3>2, Zenon
  <2> HIDE DEF back
  <2> QED BY <2>1, <2>2, <2>3, Zenon
<1>6. InsertAt(h, n + 1, m) = whole
  <2>1. (n + 1) - 1 = n
    BY <1>2
  <2>2. InsertAt(h, n + 1, m) = (SubSeq(h, 1, (n + 1) - 1) \o << m >>) \o back
    BY DEF InsertAt
  <2> QED BY <2>1, <2>2
<1> HIDE DEF front, back
<1>7. << m >> \in Seq(S \cup {m}) /\ Len(<< m >>) = 1 /\ << m >>[1] = m
  OBVIOUS
<1>8. /\ start \in Seq(S \cup {m}) /\ Len(start) = n + 1
      /\ \A i \in 1 .. n + 1 : start[i] = IF i <= n THEN front[i] ELSE << m >>[i - n]
  BY <1>4, <1>7, ConcatProperties
<1>9. (\A i \in 1 .. n : start[i] = h[i]) /\ start[n + 1] = m
  <2>1. n \in Nat /\ n + 1 \in 1 .. n + 1 /\ ~(n + 1 <= n) /\ (n + 1) - n = 1
    BY <1>2
  <2>2. start[n + 1] = m
    BY <1>7, <1>8, <2>1
  <2>3. \A i \in 1 .. n : start[i] = h[i]
    BY <1>4, <1>8, <2>1
  <2> QED BY <2>2, <2>3
<1> HIDE DEF start
<1>10. /\ whole \in Seq(S \cup {m}) /\ Len(whole) = (n + 1) + (Len(h) - n)
       /\ \A i \in 1 .. (n + 1) + (Len(h) - n) :
            whole[i] = IF i <= n + 1 THEN start[i] ELSE back[i - (n + 1)]
  <2>1. start \in Seq(S \cup {m}) /\ back \in Seq(S \cup {m})
    BY <1>5, <1>8
  <2>2. /\ whole \in Seq(S \cup {m}) /\ Len(whole) = Len(start) + Len(back)
        /\ \A i \in 1 .. Len(start) + Len(back) :
             whole[i] = IF i <= Len(start) THEN start[i] ELSE back[i - Len(start)]
    BY <2>1, ConcatProperties
  <2> HIDE DEF whole
  <2> QED BY <1>5, <1>8, <2>2
<1> HIDE DEF whole
<1>11. Len(whole) = Len(h) + 1
  BY <1>2, <1>10
<1>12. \A i \in 1 .. n : whole[i] = h[i]
  BY <1>2, <1>9, <1>10
<1>13. whole[n + 1] = m
  BY <1>2, <1>9, <1>10
<1>14. ASSUME NEW i \in n + 1 .. Len(h)
       PROVE  whole[i + 1] = h[i]
  <2>1. /\ i + 1 \in 1 .. (n + 1) + (Len(h) - n) /\ ~(i + 1 <= n + 1)
        /\ (i + 1) - (n + 1) = i - n /\ i - n \in 1 .. Len(h) - n /\ n + (i - n) = i
    BY <1>2
  <2>2. whole[i + 1] = back[i - n]
    BY <1>10, <2>1
  <2> QED BY <1>5, <2>1, <2>2
<1>15. Listed(whole)
  BY <1>10 DEF Listed
<1> QED BY <1>6, <1>11, <1>12, <1>13, <1>14, <1>15

\* A set of numbers has a least one.
LEMMA LeastOne ==
  ASSUME NEW T \in SUBSET Nat, T # {}
  PROVE  \E i \in T : \A j \in T : i <= j
<1> DEFINE less == {p \in Nat \X Nat : p[1] < p[2]}
<1>1. IsWellFoundedOn(less, Nat)
  BY NatLessThanWellFounded DEF OpToRel
<1>2. \A i, j \in Nat : << j, i >> \in less <=> j < i
  OBVIOUS
<1> HIDE DEF less
<1>3. PICK i \in T : \A j \in T : ~(<< j, i >> \in less)
  BY <1>1, WFMin
<1>4. \A j \in T : i \in Nat /\ j \in Nat /\ ~(j < i)
  BY <1>2, <1>3
<1> QED BY <1>4

\* Places are counted one by one.
LEMMA PlacesCount ==
  ASSUME NEW n \in Nat, NEW P \in SUBSET (1 .. n)
  PROVE  /\ IsFiniteSet(P) /\ Cardinality(P) \in Nat
         /\ \A i \in 0 .. n : IsFiniteSet(UpTo(P, i)) /\ Cardinality(UpTo(P, i)) \in Nat
         /\ Cardinality(UpTo(P, 0)) = 0
         /\ UpTo(P, n) = P
         /\ \A i \in 1 .. n : Cardinality(UpTo(P, i)) =
              Cardinality(UpTo(P, i - 1)) + IF i \in P THEN 1 ELSE 0
<1>1. \A j : j \in P => j \in 1 .. n /\ j \in Int
  OBVIOUS
<1>2. IsFiniteSet(P)
  <2>1. IsFiniteSet(1 .. n)
    BY FS_Interval
  <2> QED BY <2>1, FS_Subset
<1>3. \A i \in 0 .. n : IsFiniteSet(UpTo(P, i)) /\ Cardinality(UpTo(P, i)) \in Nat
  <2> SUFFICES ASSUME NEW i \in 0 .. n
               PROVE  IsFiniteSet(UpTo(P, i)) /\ Cardinality(UpTo(P, i)) \in Nat
    OBVIOUS
  <2>1. UpTo(P, i) \in SUBSET P
    BY DEF UpTo
  <2>2. IsFiniteSet(UpTo(P, i))
    BY <1>2, <2>1, FS_Subset
  <2> QED BY <2>2, FS_CardinalityType
<1>4. Cardinality(UpTo(P, 0)) = 0
  <2>1. UpTo(P, 0) = {}
    BY <1>1 DEF UpTo
  <2> QED BY <2>1, FS_EmptySet
<1>5. UpTo(P, n) = P
  BY <1>1 DEF UpTo
<1>6. ASSUME NEW i \in 1 .. n
      PROVE  Cardinality(UpTo(P, i)) = Cardinality(UpTo(P, i - 1)) + IF i \in P THEN 1 ELSE 0
  <2>1. CASE i \in P
    <3>1. UpTo(P, i) = UpTo(P, i - 1) \cup {i} /\ i \notin UpTo(P, i - 1)
      BY <1>1, <2>1 DEF UpTo
    <3>2. i - 1 \in 0 .. n
      OBVIOUS
    <3>3. IsFiniteSet(UpTo(P, i - 1))
      BY <1>3, <3>2
    <3>4. Cardinality(UpTo(P, i - 1) \cup {i}) = Cardinality(UpTo(P, i - 1)) + 1
      BY <3>1, <3>3, FS_AddElement
    <3> QED BY <2>1, <3>1, <3>4
  <2>2. CASE i \notin P
    <3>1. UpTo(P, i) = UpTo(P, i - 1)
      <4>1. \A j : j \in P => (j <= i <=> j <= i - 1)
        BY <1>1, <2>2
      <4> QED BY <4>1 DEF UpTo
    <3>2. Cardinality(UpTo(P, i - 1)) \in Nat
      <4>1. i - 1 \in 0 .. n
        OBVIOUS
      <4> QED BY <1>3, <4>1
    <3> QED BY <2>2, <3>1, <3>2
  <2> QED BY <2>1, <2>2
<1> QED BY <1>2, <1>3, <1>4, <1>5, <1>6, FS_CardinalityType

\* Every number up to their count is that of a place.
LEMMA PlaceFound ==
  ASSUME NEW n \in Nat, NEW P \in SUBSET (1 .. n), NEW k \in 1 .. Cardinality(P)
  PROVE  \E i \in P : Cardinality(UpTo(P, i)) = k
<1> DEFINE count(i) == Cardinality(UpTo(P, i))
           far == {i \in 0 .. n : count(i) >= k}
<1>1. /\ Cardinality(P) \in Nat /\ UpTo(P, n) = P /\ count(0) = 0
      /\ \A i \in 0 .. n : count(i) \in Nat
      /\ \A i \in 1 .. n : count(i) = count(i - 1) + IF i \in P THEN 1 ELSE 0
  BY PlacesCount
<1>2. count(n) >= k /\ n \in 0 .. n
  BY <1>1
<1>3. far \in SUBSET Nat /\ far # {}
  BY <1>2
<1>4. PICK i \in far : \A j \in far : i <= j
  BY <1>3, LeastOne
<1> HIDE DEF count
<1>5. i # 0 /\ i \in 1 .. n
  BY <1>1, <1>4
<1>6. i - 1 \in 0 .. n /\ ~(i <= i - 1)
  BY <1>5
<1>7. ~(count(i - 1) >= k)
  BY <1>4, <1>6
<1>8. count(i) \in Nat /\ count(i - 1) \in Nat /\ count(i) >= k
  BY <1>1, <1>4, <1>6
<1>9. i \in P /\ count(i) = k
  BY <1>1, <1>5, <1>7, <1>8
<1> QED BY <1>9 DEF count

\* What is left of a history is a sequence of messages of the history.
LEMMA LeftIsListed ==
  ASSUME NEW h, Listed(h), NEW places
  PROVE  /\ Listed(Without(h, places))
         /\ \A k \in 1 .. Len(Without(h, places)) : \E i \in 1 .. Len(h) : Without(h, places)[k] = h[i]
<1> DEFINE left == DOMAIN h \ places
           place(k) == CHOOSE i \in left : Cardinality(UpTo(left, i)) = k
           f == [k \in 1 .. Cardinality(left) |-> h[place(k)]]
<1>1. Len(h) \in Nat /\ DOMAIN h = 1 .. Len(h)
  BY ListedPlaces
<1>2. left \in SUBSET (1 .. Len(h))
  BY <1>1
<1>3. Cardinality(left) \in Nat
  BY <1>1, <1>2, PlacesCount
<1>4. ASSUME NEW k \in 1 .. Cardinality(left)
      PROVE  place(k) \in 1 .. Len(h)
  <2>1. \E i \in left : Cardinality(UpTo(left, i)) = k
    <3> HIDE DEF left
    <3> QED BY <1>1, <1>2, PlaceFound
  <2>2. place(k) \in left
    BY <2>1
  <2> QED BY <1>2, <2>2
<1>5. Without(h, places) = f
  BY DEF Without
<1> HIDE DEF left, place
<1>6. f \in [1 .. Cardinality(left) -> {h[i] : i \in 1 .. Len(h)}]
  BY <1>4
<1>7. \A k \in 1 .. Cardinality(left) : f[k] = h[place(k)]
  OBVIOUS
<1> HIDE DEF f
<1>8. Listed(f) /\ Len(f) = Cardinality(left)
  BY <1>3, <1>6, FunctionIsListed
<1> QED BY <1>4, <1>5, <1>7, <1>8

\* Without a message that was inserted, a sequence is what it was.
LEMMA LeftOfInserted ==
  ASSUME NEW h, Listed(h), NEW n \in 0 .. Len(h), NEW m
  PROVE  Without(InsertAt(h, n + 1, m), {n + 1}) = h
<1> DEFINE whole == InsertAt(h, n + 1, m)
           left  == DOMAIN whole \ {n + 1}
           place(k) == CHOOSE i \in left : Cardinality(UpTo(left, i)) = k
           f == [k \in 1 .. Cardinality(left) |-> whole[place(k)]]
<1>1. /\ Listed(whole) /\ Len(whole) = Len(h) + 1
      /\ \A i \in 1 .. n : whole[i] = h[i]
      /\ \A i \in n + 1 .. Len(h) : whole[i + 1] = h[i]
  BY InsertedPlaces
<1>2. f = Without(whole, {n + 1})
  BY DEF Without
<1> HIDE DEF whole
<1>3. Len(h) \in Nat /\ DOMAIN h = 1 .. Len(h) /\ DOMAIN whole = 1 .. Len(h) + 1
  BY <1>1, ListedPlaces
<1>4. /\ IsFiniteSet(1 .. Len(h) + 1) /\ Cardinality(1 .. Len(h) + 1) = Len(h) + 1
  BY <1>3, FS_Interval
<1>5. Cardinality(left) = Len(h)
  <2>1. n + 1 \in 1 .. Len(h) + 1
    BY <1>3
  <2>2. Cardinality((1 .. Len(h) + 1) \ {n + 1}) = (Len(h) + 1) - 1
    BY <1>4, <2>1, FS_RemoveElement
  <2> QED BY <1>3, <2>2
<1>6. ASSUME NEW i \in left
      PROVE  Cardinality(UpTo(left, i)) = IF i <= n THEN i ELSE i - 1
  <2>1. i \in 1 .. Len(h) + 1 /\ i # n + 1
    BY <1>3
  <2>2. CASE i <= n
    <3>1. UpTo(left, i) = 1 .. i
      BY <1>3, <2>1, <2>2 DEF UpTo
    <3>2. Cardinality(1 .. i) = i
      BY <2>1, FS_Interval
    <3> QED BY <2>2, <3>1, <3>2
  <2>3. CASE ~(i <= n)
    <3>1. UpTo(left, i) = (1 .. i) \ {n + 1} /\ n + 1 \in 1 .. i
      BY <1>3, <2>1, <2>3 DEF UpTo
    <3>2. IsFiniteSet(1 .. i) /\ Cardinality(1 .. i) = i
      BY <2>1, FS_Interval
    <3>3. Cardinality((1 .. i) \ {n + 1}) = i - 1
      BY <3>1, <3>2, FS_RemoveElement
    <3> QED BY <2>3, <3>1, <3>3
  <2> QED BY <2>2, <2>3
<1>7. ASSUME NEW k \in 1 .. Len(h)
      PROVE  whole[place(k)] = h[k]
  <2> DEFINE there == IF k <= n THEN k ELSE k + 1
  <2>1. there \in left /\ there \in Int
    BY <1>3
  <2>2. (IF there <= n THEN there ELSE there - 1) = k
    BY <1>3
  <2>3. ASSUME NEW i \in left, Cardinality(UpTo(left, i)) = k
        PROVE  i = there
    <3>1. (IF i <= n THEN i ELSE i - 1) = k
      BY <1>6, <2>3
    <3>2. i \in Int /\ i # n + 1
      BY <1>3
    <3> QED BY <3>1, <3>2
  <2>4. whole[there] = h[k]
    BY <1>1, <1>3
  <2> HIDE DEF there
  <2>5. Cardinality(UpTo(left, there)) = k
    BY <1>6, <2>1, <2>2
  <2> HIDE DEF left
  <2>6. place(k) = there
    BY <2>1, <2>3, <2>5
  <2> QED BY <2>4, <2>6
<1>8. f = [k \in 1 .. Len(h) |-> h[k]]
  <2> HIDE DEF left, place
  <2> QED BY <1>5, <1>7
<1>9. h = [k \in 1 .. Len(h) |-> h[k]]
  <2>1. PICK S : h \in Seq(S)
    BY DEF Listed
  <2> QED BY <2>1
<1> QED BY <1>2, <1>8, <1>9 DEF whole

\* The roles of the messages that may open a history
Leading == {"system", "marker"}

\* There is a place behind the messages that open a sequence.
LEMMA FrontEnds ==
  ASSUME NEW h, Listed(h)
  PROVE  \E n \in 0 .. Len(h) : /\ \A k \in 1 .. n : h[k].role \in Leading
                                /\ n < Len(h) => h[n + 1].role \notin Leading
<1> DEFINE other == {k \in 1 .. Len(h) + 1 : k = Len(h) + 1 \/ h[k].role \notin Leading}
<1>1. Len(h) \in Nat
  BY ListedPlaces
<1>2. other \in SUBSET Nat /\ Len(h) + 1 \in other
  BY <1>1
<1>3. PICK k \in other : \A j \in other : k <= j
  BY <1>2, LeastOne
<1>4. k - 1 \in 0 .. Len(h) /\ (k - 1) + 1 = k
  BY <1>1
<1>5. \A j \in 1 .. k - 1 : h[j].role \in Leading
  <2> SUFFICES ASSUME NEW j \in 1 .. k - 1 PROVE h[j].role \in Leading
    OBVIOUS
  <2>1. j \in 1 .. Len(h) + 1 /\ ~(k <= j)
    BY <1>1
  <2> QED BY <1>3, <2>1
<1>6. k - 1 < Len(h) => h[k].role \notin Leading
  BY <1>1
<1> QED BY <1>4, <1>5, <1>6

AllOrdinary(h) == \A i \in 1 .. Len(h) : Ordinary(h[i])

----------------------------------------------------------------------------
(* Compaction of a history.                                                *)

\* What joining does, place by place.
LEMMA JoinedPlaces ==
  ASSUME NEW g, NEW h, Listed(g), Listed(h)
  PROVE  /\ Listed(g \o h) /\ Len(g \o h) = Len(g) + Len(h)
         /\ \A i \in 1 .. Len(g) : (g \o h)[i] = g[i]
         /\ \A i \in 1 .. Len(h) : (g \o h)[Len(g) + i] = h[i]
<1>1. PICK S : g \in Seq(S)
  BY DEF Listed
<1>2. PICK T : h \in Seq(T)
  BY DEF Listed
<1>3. g \in Seq(S \cup T) /\ h \in Seq(S \cup T)
  BY <1>1, <1>2, SeqMonotonic
<1>4. Len(g) \in Nat /\ Len(h) \in Nat
  BY <1>3, LenProperties
<1>5. /\ g \o h \in Seq(S \cup T) /\ Len(g \o h) = Len(g) + Len(h)
      /\ \A i \in 1 .. Len(g) + Len(h) : (g \o h)[i] = IF i <= Len(g) THEN g[i] ELSE h[i - Len(g)]
  BY <1>3, ConcatProperties
<1>6. ASSUME NEW i \in 1 .. Len(h)
      PROVE  (g \o h)[Len(g) + i] = h[i]
  <2>1. Len(g) + i \in 1 .. Len(g) + Len(h) /\ ~(Len(g) + i <= Len(g)) /\ (Len(g) + i) - Len(g) = i
    BY <1>4
  <2> QED BY <1>5, <2>1
<1>7. \A i \in 1 .. Len(g) : (g \o h)[i] = g[i]
  BY <1>4, <1>5
<1> QED BY <1>5, <1>6, <1>7 DEF Listed

\* Corrections finds system messages of the history.
LEMMA CorrectionsAreThere ==
  ASSUME NEW h, Listed(h)
  PROVE  /\ Listed(Corrections(h))
         /\ \A k \in 1 .. Len(Corrections(h)) : \E i \in 1 .. Len(h) :
              h[i].role = "system" /\ Corrections(h)[k] = h[i]
<1> DEFINE n == Len(h)
           P == {i \in 1 .. n : h[i].role = "system"}
           total == Cardinality(SystemUpTo(h, n))
           at(k) == CHOOSE i \in DOMAIN h : /\ h[i].role = "system"
                                            /\ Cardinality(SystemUpTo(h, i)) = k
           f == [k \in 1 .. total |-> h[at(k)]]
<1>1. n \in Nat /\ DOMAIN h = 1 .. n /\ P \in SUBSET (1 .. n)
  BY ListedPlaces
<1>2. \A i \in 1 .. n : SystemUpTo(h, i) = UpTo(P, i)
  BY <1>1 DEF SystemUpTo, UpTo
<1>3. SystemUpTo(h, n) = P
  BY <1>1 DEF SystemUpTo
<1>4. total \in Nat /\ total = Cardinality(P)
  BY <1>1, <1>3, PlacesCount
<1>5. ASSUME NEW k \in 1 .. total
      PROVE  at(k) \in 1 .. n /\ h[at(k)].role = "system"
  <2>1. \E i \in P : Cardinality(UpTo(P, i)) = k
    <3> HIDE DEF P, total
    <3> QED BY <1>1, <1>4, PlaceFound
  <2>2. \E i \in DOMAIN h : h[i].role = "system" /\ Cardinality(SystemUpTo(h, i)) = k
    BY <1>1, <1>2, <2>1
  <2> QED BY <1>1, <2>2
<1>6. Corrections(h) = f
  BY DEF Corrections
<1> HIDE DEF at, total, P
<1>7. f \in [1 .. total -> {h[i] : i \in 1 .. n}] /\ \A k \in 1 .. total : f[k] = h[at(k)]
  BY <1>5
<1> HIDE DEF f
<1>8. Listed(f) /\ Len(f) = total
  BY <1>4, <1>7, FunctionIsListed
<1> QED BY <1>5, <1>6, <1>7, <1>8

\* The user message a compaction cuts at is there.
LEMMA CutIsUser ==
  ASSUME NEW h, Listed(h), NEW limit, CanCompact(h, limit)
  PROVE  CompactStart(h, limit) \in 3 .. Len(h) /\ h[CompactStart(h, limit)].role = "user"
<1> DEFINE users    == UserAt(h)
           required == RequiredStart(h)
           fitting  == {i \in users : i > 2 /\ i <= required /\ FitsFrom(h, i, limit)}
<1>1. Len(h) \in Nat /\ users \in SUBSET (1 .. Len(h)) /\ \A i \in users : h[i].role = "user"
  BY ListedPlaces DEF UserAt
<1>2. Cardinality(users) > 2 /\ CompactStart(h, limit) > 2
  BY DEF CanCompact, KeepRecent
<1>3. CompactStart(h, limit) = IF fitting = {} THEN required
                               ELSE CHOOSE i \in fitting : \A j \in fitting : i <= j
  BY DEF CompactStart
<1>4. required = CHOOSE i \in users : Cardinality({j \in users : j >= i}) = 2
  BY DEF RequiredStart, KeepRecent
<1> HIDE DEF users, required
<1>5. IsFiniteSet(users) /\ Cardinality(users) \in Nat
  BY <1>1, PlacesCount
<1>6. PICK i \in users : Cardinality(UpTo(users, i)) = Cardinality(users) - 1
  <2>1. Cardinality(users) - 1 \in 1 .. Cardinality(users)
    BY <1>2, <1>5
  <2> QED BY <1>1, <2>1, PlaceFound
<1>7. Cardinality({j \in users : j >= i}) = 2
  <2> DEFINE before == UpTo(users, i)
             after  == users \ before
  <2>1. IsFiniteSet(before) /\ IsFiniteSet(after) /\ before \in SUBSET users
    <3>1. before \in SUBSET users /\ after \in SUBSET users
      BY DEF UpTo
    <3> HIDE DEF before, after
    <3> QED BY <1>5, <3>1, FS_Subset
  <2>2. Cardinality(after) = Cardinality(users) - Cardinality(before)
    <3>1. before \cap users = before /\ users \cap before = before
      BY <2>1
    <3> HIDE DEF before
    <3> QED BY <1>5, <2>1, <3>1, FS_Difference
  <2>3. {j \in users : j >= i} = after \cup {i} /\ i \notin after
    <3>1. \A j \in users : j \in Int /\ i \in Int
      BY <1>1
    <3> QED BY <3>1 DEF UpTo
  <2>4. Cardinality(after) = 1
    BY <1>2, <1>5, <1>6, <2>2
  <2> HIDE DEF after
  <2> QED BY <2>1, <2>3, <2>4, FS_AddElement
<1>8. required \in users
  BY <1>4, <1>7
<1>9. CompactStart(h, limit) \in users
  <2>1. CASE fitting = {}
    BY <1>3, <1>8, <2>1
  <2>2. CASE fitting # {}
    <3>2. fitting \in SUBSET users
      OBVIOUS
    <3> HIDE DEF fitting
    <3>1. fitting \in SUBSET Nat
      BY <1>1, <3>2
    <3>3. \E k \in fitting : \A j \in fitting : k <= j
      BY <2>2, <3>1, LeastOne
    <3> QED BY <1>3, <2>2, <3>2, <3>3
  <2> QED BY <2>1, <2>2
<1>10. CompactStart(h, limit) \in 1 .. Len(h) /\ h[CompactStart(h, limit)].role = "user"
  BY <1>1, <1>9
<1> QED BY <1>1, <1>2, <1>10

\* A compaction leaves the first message, system messages and notices, and the history
\* from the cut on.
LEMMA CompactedPlaces ==
  ASSUME NEW h, Listed(h), AllOrdinary(h), Len(h) >= 1, h[1].role = "system", NEW limit,
         CanCompact(h, limit)
  PROVE  LET g     == Compacted(h, limit)
             start == CompactStart(h, limit)
         IN  /\ Listed(g)
             /\ \E n \in Nat :
                  /\ n >= 1 /\ g[1] = h[1] /\ Len(g) = n + (Len(h) - start + 1)
                  /\ \A i \in 1 .. n : g[i].role \in {"system", "marker"} /\ Ordinary(g[i])
                  /\ \A i \in 1 .. Len(h) - start + 1 : g[n + i] = h[start + i - 1]
<1> DEFINE start   == CompactStart(h, limit)
           dropped == SubSeq(h, 2, start - 1)
           notice  == Marker(Elided(dropped) + Cardinality(Dialogue(dropped)))
           opening == << h[1], notice >>
           said    == Corrections(dropped)
           kept    == SubSeq(h, start, Len(h))
           front   == opening \o said
           g       == front \o kept
<1>1. Len(h) \in Nat
  BY ListedPlaces
<1>2. start \in 3 .. Len(h)
  BY CutIsUser
<1>3. Compacted(h, limit) = g
  BY DEF Compacted
<1> HIDE DEF start
<1>4. PICK S : h \in Seq(S)
  BY DEF Listed
<1>5. /\ 2 \in 1 .. Len(h) + 1 /\ start - 1 \in 2 - 1 .. Len(h)
      /\ start \in 1 .. Len(h) + 1 /\ Len(h) \in start - 1 .. Len(h)
  BY <1>1, <1>2
<1>6. /\ dropped \in Seq(S) /\ Len(dropped) = (start - 1) - 2 + 1
      /\ \A i \in 1 .. (start - 1) - 2 + 1 : dropped[i] = h[2 + i - 1]
  BY <1>4, <1>5, PartPlaces
<1>7. /\ kept \in Seq(S) /\ Len(kept) = Len(h) - start + 1
      /\ \A i \in 1 .. Len(h) - start + 1 : kept[i] = h[start + i - 1]
  BY <1>4, <1>5, PartPlaces
<1>8. \A i \in 1 .. Len(dropped) : Ordinary(dropped[i])
  <2>1. \A i \in 1 .. Len(dropped) : 2 + i - 1 \in 1 .. Len(h)
    BY <1>1, <1>2, <1>6
  <2> QED BY <1>6, <2>1 DEF AllOrdinary
<1>9. opening \in Seq({h[1], notice}) /\ Len(opening) = 2 /\ opening[1] = h[1] /\ opening[2] = notice
  OBVIOUS
<1>10. notice.role = "marker" /\ Ordinary(notice)
  BY DEF Marker, Ordinary
<1>11. Ordinary(h[1])
  BY <1>1 DEF AllOrdinary
<1> HIDE DEF dropped, kept, opening, notice
<1>12. /\ Listed(said)
       /\ \A k \in 1 .. Len(said) : said[k].role = "system" /\ Ordinary(said[k])
  <2>1. Listed(dropped)
    BY <1>6 DEF Listed
  <2>2. /\ Listed(said)
        /\ \A k \in 1 .. Len(said) : \E i \in 1 .. Len(dropped) :
             dropped[i].role = "system" /\ said[k] = dropped[i]
    BY <2>1, CorrectionsAreThere
  <2> QED BY <1>8, <2>2
<1> HIDE DEF said
<1>13. Len(said) \in Nat
  BY <1>12, ListedPlaces
<1>14. Listed(opening) /\ Listed(kept)
  BY <1>7, <1>9 DEF Listed
<1>15. /\ Listed(front) /\ Len(front) = 2 + Len(said)
       /\ \A i \in 1 .. 2 : front[i] = opening[i]
       /\ \A i \in 1 .. Len(said) : front[2 + i] = said[i]
  <2>1. /\ Listed(front) /\ Len(front) = Len(opening) + Len(said)
        /\ \A i \in 1 .. Len(opening) : front[i] = opening[i]
        /\ \A i \in 1 .. Len(said) : front[Len(opening) + i] = said[i]
    BY <1>12, <1>14, JoinedPlaces
  <2> HIDE DEF front
  <2> QED BY <1>9, <2>1
<1>16. \A i \in 1 .. Len(front) : front[i].role \in {"system", "marker"} /\ Ordinary(front[i])
  <2> SUFFICES ASSUME NEW i \in 1 .. Len(front)
               PROVE  front[i].role \in {"system", "marker"} /\ Ordinary(front[i])
    OBVIOUS
  <2>1. CASE i \in 1 .. 2
    <3>1. i = 1 \/ i = 2
      BY <2>1
    <3> QED BY <1>9, <1>10, <1>11, <1>15, <2>1, <3>1
  <2>2. CASE i \notin 1 .. 2
    <3>1. i - 2 \in 1 .. Len(said) /\ 2 + (i - 2) = i
      BY <1>13, <1>15, <2>2
    <3> QED BY <1>12, <1>15, <3>1
  <2> QED BY <2>1, <2>2
<1>17. front[1] = h[1]
  BY <1>9, <1>15
<1>18. /\ Listed(g) /\ Len(g) = Len(front) + Len(kept)
       /\ \A i \in 1 .. Len(front) : g[i] = front[i]
       /\ \A i \in 1 .. Len(kept) : g[Len(front) + i] = kept[i]
  <2>1. Listed(front) /\ Listed(kept)
    BY <1>14, <1>15
  <2> HIDE DEF front
  <2> QED BY <2>1, JoinedPlaces
<1> HIDE DEF front, g
<1>19. Len(front) \in Nat /\ Len(front) >= 1 /\ 1 \in 1 .. Len(front)
  BY <1>13, <1>15
<1>20. /\ g[1] = h[1] /\ Len(g) = Len(front) + (Len(h) - start + 1)
       /\ \A i \in 1 .. Len(front) : g[i].role \in {"system", "marker"} /\ Ordinary(g[i])
       /\ \A i \in 1 .. Len(h) - start + 1 : g[Len(front) + i] = h[start + i - 1]
  BY <1>7, <1>16, <1>17, <1>18, <1>19
<1> QED BY <1>3, <1>18, <1>19, <1>20 DEF start

\* A history in order: it opens with a system message, and calls and results are paired.
InOrder(h) ==
  Listed(h) /\ AllOrdinary(h) /\ Len(h) >= 1 /\ h[1].role = "system" /\ Paired(h)

\* The calls of a message are counted.
LEMMA CallsCount ==
  ASSUME NEW m, Ordinary(m), m.role = "assistant"
  PROVE  /\ Len(m.calls) \in Nat /\ DOMAIN m.calls = 1 .. Len(m.calls)
         /\ Len(m.calls) = Len(m.args) /\ m.calls = [k \in DOMAIN m.args |-> k]
<1>1. Len(m.args) \in Nat /\ DOMAIN m.args = 1 .. Len(m.args) /\ m = Speaks(m.turn, m.args)
  BY DEF Ordinary
<1>2. m.calls = [k \in DOMAIN m.args |-> k]
  BY <1>1 DEF Speaks
<1> DEFINE n == Len(m.args)
           f == [k \in 1 .. n |-> k]
<1>3. f \in [1 .. n -> 1 .. n]
  OBVIOUS
<1>4. m.calls = f
  BY <1>1, <1>2
<1>5. n \in Nat
  BY <1>1
<1> HIDE DEF n, f
<1>6. Len(f) = n
  BY <1>3, <1>5, FunctionIsListed
<1> QED BY <1>2, <1>3, <1>4, <1>5, <1>6 DEF n

\* A compaction keeps a history in order, and no call is left to answer.
LEMMA CompactKeepsOrder ==
  ASSUME NEW h, InOrder(h), Closed(h)
  PROVE  InOrder(Compact(h)) /\ Closed(Compact(h))
<1>1. CASE Compact(h) = h
  BY <1>1
<1>2. CASE Compact(h) # h
  <2> DEFINE g     == Compact(h)
             start == CompactStart(h, ContextLimit)
  <2>1. g = Compacted(h, ContextLimit) /\ CanCompact(h, ContextLimit)
    BY <1>2 DEF Compact
  <2>2. Listed(h) /\ AllOrdinary(h) /\ Len(h) >= 1 /\ h[1].role = "system" /\ Paired(h) /\ Len(h) \in Nat
    BY ListedPlaces DEF InOrder
  <2>3. start \in 3 .. Len(h) /\ h[start].role = "user"
    BY <2>1, <2>2, CutIsUser
  <2>4. Listed(g)
    BY <2>1, <2>2, CompactedPlaces
  <2>5. PICK n \in Nat :
          /\ n >= 1 /\ g[1] = h[1] /\ Len(g) = n + (Len(h) - start + 1)
          /\ \A i \in 1 .. n : g[i].role \in {"system", "marker"} /\ Ordinary(g[i])
          /\ \A i \in 1 .. Len(h) - start + 1 : g[n + i] = h[start + i - 1]
    BY <2>1, <2>2, CompactedPlaces
  <2> HIDE DEF g, start
  <2> DEFINE old(i) == i - n + start - 1
  <2>6. ASSUME NEW i \in 1 .. Len(g), i > n
        PROVE  old(i) \in start .. Len(h) /\ g[i] = h[old(i)]
    <3>1. i - n \in 1 .. Len(h) - start + 1 /\ n + (i - n) = i /\ start + (i - n) - 1 = old(i)
      BY <2>2, <2>3, <2>5, <2>6
    <3>2. g[n + (i - n)] = h[start + (i - n) - 1]
      BY <2>5, <3>1
    <3>3. old(i) \in start .. Len(h)
      BY <2>2, <2>3, <2>5, <2>6
    <3> QED BY <3>1, <3>2, <3>3
  <2>7. \A i \in 1 .. Len(g) : g[i].role \notin {"system", "marker"} => i > n
    BY <2>2, <2>3, <2>5
  <2>8. AllOrdinary(g)
    <3> SUFFICES ASSUME NEW i \in 1 .. Len(g) PROVE Ordinary(g[i])
      BY DEF AllOrdinary
    <3>1. CASE i > n
      <4>1. old(i) \in 1 .. Len(h) /\ g[i] = h[old(i)]
        BY <2>2, <2>3, <2>6, <3>1
      <4> QED BY <2>2, <4>1 DEF AllOrdinary
    <3>2. CASE ~(i > n)
      <4>1. i \in 1 .. n
        BY <2>5, <3>2
      <4> QED BY <2>5, <4>1
    <3> QED BY <3>1, <3>2
  <2>9. ASSUME NEW i \in 1 .. Len(h), h[i].role = "assistant"
        PROVE  Len(h[i].calls) \in Nat
    BY <2>2, <2>9, CallsCount DEF AllOrdinary
  <2>10. ASSUME NEW i \in 1 .. Len(g), g[i].role = "assistant"
         PROVE  /\ i > n /\ old(i) \in start .. Len(h) /\ g[i] = h[old(i)]
                /\ Len(g[i].calls) \in Nat /\ old(i) + Len(g[i].calls) <= Len(h)
    <3>1. i > n
      BY <2>7, <2>10
    <3>2. old(i) \in start .. Len(h) /\ g[i] = h[old(i)] /\ old(i) \in 1 .. Len(h)
      BY <2>2, <2>3, <2>6, <3>1
    <3> QED BY <2>9, <2>10, <3>1, <3>2 DEF Closed
  <2>11. Closed(g)
    <3> SUFFICES ASSUME NEW i \in 1 .. Len(g), g[i].role = "assistant"
                 PROVE  i + Len(g[i].calls) <= Len(g)
      BY DEF Closed
    <3>1. Len(g[i].calls) \in Nat /\ old(i) + Len(g[i].calls) <= Len(h)
      BY <2>10
    <3>2. /\ i \in Nat /\ start \in Nat /\ Len(h) \in Nat
          /\ Len(g) = n + (Len(h) - start + 1)
      BY <2>2, <2>3, <2>5
    <3>3. \A c \in Nat : old(i) + c <= Len(h) => i + c <= Len(g)
      BY <3>2
    <3> QED BY <3>1, <3>3
  <2>12. ASSUME NEW i \in 1 .. Len(g), NEW j \in 1 .. Len(g), AnsweredAt(g, i, j)
         PROVE  g[j].role = "tool"
    <3>1. /\ i > n /\ old(i) \in 1 .. Len(h) /\ g[i] = h[old(i)] /\ Len(g[i].calls) \in Nat
          /\ g[i].role = "assistant" /\ i < j /\ j <= i + Len(g[i].calls)
      <4>1. g[i].role = "assistant" /\ i < j /\ j <= i + Len(g[i].calls)
        BY <2>12 DEF AnsweredAt
      <4>2. i > n /\ old(i) \in start .. Len(h) /\ g[i] = h[old(i)] /\ Len(g[i].calls) \in Nat
        BY <2>10, <4>1
      <4>3. \A k \in start .. Len(h) : k \in 1 .. Len(h)
        BY <2>2, <2>3
      <4> QED BY <4>1, <4>2, <4>3
    <3>2. j > n /\ old(j) \in 1 .. Len(h) /\ g[j] = h[old(j)]
      BY <2>2, <2>3, <2>6, <3>1
    <3>3. old(i) < old(j) /\ old(j) <= old(i) + Len(g[i].calls)
      <4>1. start \in Nat /\ i \in Nat /\ j \in Nat
        BY <2>3
      <4>2. \A c \in Nat : i < j /\ j <= i + c => old(i) < old(j) /\ old(j) <= old(i) + c
        BY <4>1
      <4> QED BY <3>1, <4>2
    <3> HIDE DEF old
    <3>4. AnsweredAt(h, old(i), old(j))
      BY <3>1, <3>3 DEF AnsweredAt
    <3> QED BY <2>2, <3>1, <3>2, <3>4 DEF Paired
  <2>13. ASSUME NEW j \in 1 .. Len(g), g[j].role = "tool"
         PROVE  \E i \in 1 .. Len(g) : AnsweredAt(g, i, j)
    <3>1. j > n /\ old(j) \in start .. Len(h) /\ old(j) \in 1 .. Len(h) /\ h[old(j)].role = "tool"
      BY <2>2, <2>3, <2>6, <2>7, <2>13
    <3>2. PICK k \in 1 .. Len(h) : AnsweredAt(h, k, old(j))
      BY <2>2, <3>1 DEF Paired
    <3>3. h[k].role = "assistant" /\ k < old(j) /\ old(j) <= k + Len(h[k].calls) /\ Len(h[k].calls) \in Nat
      BY <2>9, <3>2 DEF AnsweredAt
    <3>4. ~(k < start)
      <4> SUFFICES ASSUME k < start PROVE FALSE
        OBVIOUS
      <4>1. start <= k + Len(h[k].calls)
        BY <2>3, <3>1, <3>3
      <4>2. AnsweredAt(h, k, start)
        BY <3>3, <4>1 DEF AnsweredAt
      <4>3. start \in 1 .. Len(h)
        BY <2>3
      <4> QED BY <2>2, <2>3, <4>2, <4>3 DEF Paired
    <3> DEFINE i == k - start + 1 + n
    <3>5. i \in 1 .. Len(g) /\ i > n /\ old(i) = k
      BY <2>2, <2>3, <2>5, <3>4
    <3>6. g[i] = h[k]
      <4> HIDE DEF i
      <4> QED BY <2>6, <3>5
    <3>7. i < j /\ j <= i + Len(h[k].calls)
      <4>1. start \in Nat /\ k \in Nat /\ j \in Nat
        BY <2>3
      <4>2. \A c \in Nat : k < old(j) /\ old(j) <= k + c => i < j /\ j <= i + c
        BY <4>1
      <4> QED BY <3>3, <4>2
    <3> HIDE DEF i
    <3> QED BY <3>3, <3>5, <3>6, <3>7 DEF AnsweredAt
  <2>14. Paired(g)
    BY <2>12, <2>13 DEF Paired
  <2>15. Len(g) >= 1 /\ g[1].role = "system"
    BY <2>2, <2>3, <2>5
  <2> QED BY <2>4, <2>8, <2>11, <2>14, <2>15 DEF InOrder, g
<1> QED BY <1>1, <1>2

\* A history that has grown from another, in which no call was left to answer
GrownFrom(h, p) ==
  Len(p) <= Len(h) /\ (\A i \in 1 .. Len(p) : h[i] = p[i]) /\ Closed(p)

\* What comes behind a history in which no call was left to answer is not a result.
LEMMA NothingPending ==
  ASSUME NEW h, NEW p, InOrder(h), Listed(p), GrownFrom(h, p), Len(p) < Len(h)
  PROVE  h[Len(p) + 1].role # "tool"
<1>1. Listed(h) /\ AllOrdinary(h) /\ Paired(h) /\ Len(h) \in Nat /\ Len(p) \in Nat
  BY ListedPlaces DEF InOrder
<1> SUFFICES ASSUME h[Len(p) + 1].role = "tool" PROVE FALSE
  OBVIOUS
<1>2. Len(p) + 1 \in 1 .. Len(h)
  BY <1>1
<1>3. PICK i \in 1 .. Len(h) : AnsweredAt(h, i, Len(p) + 1)
  BY <1>1, <1>2 DEF Paired
<1>4. h[i].role = "assistant" /\ i < Len(p) + 1 /\ Len(p) + 1 <= i + Len(h[i].calls)
  BY <1>3 DEF AnsweredAt
<1>5. Len(h[i].calls) \in Nat
  BY <1>1, <1>4, CallsCount DEF AllOrdinary
<1>6. i \in 1 .. Len(p)
  BY <1>1, <1>4
<1>7. i + Len(h[i].calls) <= Len(p)
  BY <1>4, <1>6 DEF GrownFrom, Closed
<1> QED BY <1>1, <1>4, <1>5, <1>7

\* Two groups have no message in common.
LEMMA GroupsApart ==
  ASSUME NEW h, Listed(h), AllOrdinary(h), NEW i \in Groups(h), NEW j \in Groups(h),
         Members(h, i) \cap Members(h, j) # {}
  PROVE  i = j
<1>1. Len(h) \in Nat /\ DOMAIN h = 1 .. Len(h)
  BY ListedPlaces
<1>2. ASSUME NEW a \in Groups(h)
      PROVE  /\ a \in 1 .. Len(h) /\ h[a].role = "assistant" /\ Len(h[a].calls) \in Nat
             /\ \A b \in Members(h, a) : b \in Int /\ a <= b /\ (b # a => h[b].role = "tool")
  <2>1. a \in 1 .. Len(h) /\ h[a].role = "assistant" /\ \A k \in DOMAIN h[a].calls : h[a + k].role = "tool"
    BY <1>1 DEF Groups, IsGroup
  <2>2. Len(h[a].calls) \in Nat /\ DOMAIN h[a].calls = 1 .. Len(h[a].calls)
    BY <2>1, CallsCount DEF AllOrdinary
  <2>3. ASSUME NEW b \in Members(h, a)
        PROVE  b \in Int /\ a <= b /\ (b # a => h[b].role = "tool")
    <3>1. b \in a .. a + Len(h[a].calls)
      BY DEF Members
    <3>2. CASE b = a
      BY <2>1, <3>2
    <3>3. CASE b # a
      <4>1. b - a \in 1 .. Len(h[a].calls) /\ a + (b - a) = b /\ b \in Int /\ a <= b
        BY <2>1, <2>2, <3>1, <3>3
      <4>2. h[a + (b - a)].role = "tool"
        BY <2>1, <2>2, <4>1
      <4> QED BY <4>1, <4>2
    <3> QED BY <3>2, <3>3
  <2> QED BY <2>1, <2>2, <2>3
<1>3. PICK b : b \in Members(h, i) /\ b \in Members(h, j)
  OBVIOUS
<1>4. CASE i < j
  <2>1. j \in Members(h, i)
    BY <1>2, <1>3, <1>4 DEF Members
  <2>2. h[j].role = "tool"
    BY <1>2, <1>4, <2>1
  <2> QED BY <1>2, <2>2
<1>5. CASE j < i
  <2>1. i \in Members(h, j)
    BY <1>2, <1>3, <1>5 DEF Members
  <2>2. h[i].role = "tool"
    BY <1>2, <1>5, <2>1
  <2> QED BY <1>2, <2>2
<1>6. i \in Int /\ j \in Int
  BY <1>2
<1> QED BY <1>4, <1>5, <1>6

\* A group stays one while the history grows behind it.
LEMMA GroupStays ==
  ASSUME NEW h, NEW p, InOrder(h), Listed(p), GrownFrom(h, p), NEW i \in Groups(p)
  PROVE  /\ i \in Groups(h) /\ Members(h, i) = Members(p, i)
         /\ \A b \in Members(p, i) : b \in 1 .. Len(p) /\ h[b].role \in {"assistant", "tool"}
<1>1. /\ Len(h) \in Nat /\ DOMAIN h = 1 .. Len(h)
      /\ Len(p) \in Nat /\ DOMAIN p = 1 .. Len(p) /\ Len(p) <= Len(h)
      /\ \A k \in 1 .. Len(p) : h[k] = p[k]
      /\ AllOrdinary(h)
  BY ListedPlaces DEF GrownFrom, InOrder
<1> DEFINE asked == h[i].calls
           n     == Len(asked)
<1>2. /\ i \in 1 .. Len(p) /\ h[i] = p[i] /\ h[i].role = "assistant" /\ asked # << >>
      /\ i + n <= Len(p) /\ IsInjective(asked)
      /\ \A k \in DOMAIN asked : p[i + k].role = "tool"
      /\ {p[i + k].call : k \in DOMAIN asked} = ToSet(asked)
      /\ i + n < Len(p) => p[i + n + 1].role # "tool"
  BY <1>1 DEF Groups, IsGroup
<1>3. n \in Nat /\ DOMAIN asked = 1 .. n
  <2>1. i \in 1 .. Len(h)
    BY <1>1, <1>2
  <2> QED BY <1>1, <1>2, <2>1, CallsCount DEF AllOrdinary
<1> HIDE DEF n, asked
<1>4. \A k \in DOMAIN asked : i + k \in 1 .. Len(p) /\ h[i + k] = p[i + k]
  BY <1>1, <1>2, <1>3
<1>5. i + n < Len(h) => h[i + n + 1].role # "tool"
  <2>1. CASE i + n < Len(p)
    <3>1. i + n + 1 \in 1 .. Len(p)
      BY <1>1, <1>2, <1>3, <2>1
    <3> QED BY <1>1, <1>2, <2>1, <3>1
  <2>2. CASE ~(i + n < Len(p))
    <3>1. i \in Int /\ n \in Nat /\ Len(p) \in Nat /\ i + n <= Len(p)
      BY <1>1, <1>2, <1>3
    <3>2. i + n = Len(p)
      BY <2>2, <3>1
    <3> QED BY <3>2, NothingPending
  <2> QED BY <2>1, <2>2
<1>6. i \in Groups(h)
  <2>1. i \in DOMAIN h /\ i + n <= Len(h)
    BY <1>1, <1>2, <1>3
  <2>2. \A k \in DOMAIN asked : h[i + k].role = "tool"
    BY <1>2, <1>4
  <2>3. {h[i + k].call : k \in DOMAIN asked} = ToSet(asked)
    <3>1. {h[i + k].call : k \in DOMAIN asked} = {p[i + k].call : k \in DOMAIN asked}
      BY <1>4
    <3> QED BY <1>2, <3>1
  <2>4. IsGroup(h, i)
    BY <1>2, <1>5, <2>1, <2>2, <2>3 DEF IsGroup, asked, n
  <2> QED BY <2>1, <2>4 DEF Groups
<1>7. Members(h, i) = Members(p, i)
  BY <1>2 DEF Members
<1>8. ASSUME NEW b \in Members(p, i)
      PROVE  b \in 1 .. Len(p) /\ h[b].role \in {"assistant", "tool"}
  <2>1. b \in i .. i + n
    BY <1>2 DEF Members, asked, n
  <2>2. CASE b = i
    BY <1>2, <2>2
  <2>3. CASE b # i
    <3>1. i \in Int /\ n \in Nat /\ b \in i .. i + n
      BY <1>1, <1>2, <1>3, <2>1
    <3>2. b - i \in 1 .. n /\ i + (b - i) = b
      BY <2>3, <3>1
    <3>3. b - i \in DOMAIN asked /\ i + (b - i) = b
      BY <1>3, <3>2
    <3>4. h[i + (b - i)] = p[i + (b - i)] /\ p[i + (b - i)].role = "tool" /\ i + (b - i) \in 1 .. Len(p)
      BY <1>2, <1>4, <3>3
    <3> QED BY <3>3, <3>4
  <2> QED BY <2>2, <2>3
<1> QED BY <1>6, <1>7, <1>8

\* What was a candidate before the history grew is made of whole groups that are not
\* recent.
LEMMA CandidateHolds ==
  ASSUME NEW h, NEW p, InOrder(h), Listed(p), GrownFrom(h, p)
  PROVE  /\ \A b \in Candidate(p) : b \in 1 .. Len(p) /\ h[b].role \in {"assistant", "tool"}
         /\ \A i \in Groups(h) :
              /\ Cardinality({j \in Groups(h) : j > i}) < KeepRecentGroups =>
                   Members(h, i) \cap Candidate(p) = {}
              /\ Members(h, i) \cap Candidate(p) \in {{}, Members(h, i)}
<1> DEFINE later(g, i) == {j \in Groups(g) : j > i}
<1>1. ASSUME NEW b \in Candidate(p)
      PROVE  \E i \in Groups(p) : b \in Members(p, i) /\ Cardinality(later(p, i)) >= KeepRecentGroups
  BY DEF Candidate
<1>2. \A b \in Candidate(p) : b \in 1 .. Len(p) /\ h[b].role \in {"assistant", "tool"}
  BY <1>1, GroupStays
<1>3. ASSUME NEW i \in Groups(h), NEW b \in Members(h, i) \cap Candidate(p)
      PROVE  /\ i \in Groups(p) /\ Members(h, i) = Members(p, i)
             /\ Cardinality(later(p, i)) >= KeepRecentGroups
  <2>1. PICK j \in Groups(p) : b \in Members(p, j) /\ Cardinality(later(p, j)) >= KeepRecentGroups
    BY <1>1
  <2>2. j \in Groups(h) /\ Members(h, j) = Members(p, j)
    BY GroupStays
  <2>3. i = j
    BY <2>1, <2>2, GroupsApart DEF InOrder
  <2> QED BY <2>1, <2>2, <2>3
<1>4. ASSUME NEW i \in Groups(h), Members(h, i) \cap Candidate(p) # {}
      PROVE  /\ ~(Cardinality(later(h, i)) < KeepRecentGroups)
             /\ Members(h, i) \cap Candidate(p) = Members(h, i)
  <2>1. PICK b : b \in Members(h, i) \cap Candidate(p)
    BY <1>4
  <2>2. /\ i \in Groups(p) /\ Members(h, i) = Members(p, i)
        /\ Cardinality(later(p, i)) >= KeepRecentGroups
    BY <1>3, <2>1
  <2>3. later(p, i) \in SUBSET later(h, i)
    BY GroupStays
  <2>4. /\ IsFiniteSet(later(h, i)) /\ Cardinality(later(h, i)) \in Nat
        /\ Cardinality(later(p, i)) \in Nat
        /\ Cardinality(later(p, i)) <= Cardinality(later(h, i))
    <3>1. later(h, i) \in SUBSET (1 .. Len(h)) /\ Len(h) \in Nat
      BY ListedPlaces DEF Groups, InOrder
    <3>2. IsFiniteSet(1 .. Len(h))
      BY <3>1, FS_Interval
    <3> HIDE DEF later
    <3>3. IsFiniteSet(later(h, i))
      BY <3>1, <3>2, FS_Subset
    <3>4. IsFiniteSet(later(p, i)) /\ Cardinality(later(p, i)) <= Cardinality(later(h, i))
      BY <2>3, <3>3, FS_Subset
    <3> QED BY <3>3, <3>4, FS_CardinalityType
  <2>5. Members(h, i) \in SUBSET Candidate(p)
    BY <2>2 DEF Candidate
  <2> HIDE DEF later
  <2>6. ~(Cardinality(later(h, i)) < KeepRecentGroups)
    BY <2>2, <2>4 DEF KeepRecentGroups
  <2> QED BY <2>5, <2>6
<1> QED BY <1>2, <1>4

Notices(s) == {k \in DOMAIN s : s[k].role = "system" /\ s[k].says = "archive"}

\* A request without an archive is the history.
LEMMA PlainRequest ==
  ASSUME NEW h, Listed(h), AllOrdinary(h)
  PROVE  Apply(h, NoArchive) = h /\ Notices(h) = {}
<1>1. Apply(h, NoArchive) = h
  BY DEF Apply
<1>2. Notices(h) = {}
  BY ListedPlaces DEF Notices, AllOrdinary, Ordinary
<1> QED BY <1>1, <1>2

\* A request with an archive has its notice, and apart from that what is left of the
\* history.
LEMMA NoticeIsGiven ==
  ASSUME NEW h, Listed(h), AllOrdinary(h), NEW archive, archive # NoArchive
  PROVE  LET sent == Apply(h, archive)
         IN  /\ \E k \in DOMAIN sent : sent[k] = Notice(archive.handle)
             /\ Without(sent, Notices(sent)) = Without(h, archive.removed)
<1> DEFINE left   == Without(h, archive.removed)
           notice == Notice(archive.handle)
           n      == CHOOSE n \in 0 .. Len(left) :
                       /\ \A k \in 1 .. n : left[k].role \in {"system", "marker"}
                       /\ n < Len(left) => left[n + 1].role \notin {"system", "marker"}
           sent   == InsertAt(left, n + 1, notice)
<1>1. Listed(left) /\ \A k \in 1 .. Len(left) : \E i \in 1 .. Len(h) : left[k] = h[i]
  BY LeftIsListed
<1>2. Apply(h, archive) = sent
  BY DEF Apply
<1>3. notice.role = "system" /\ notice.says = "archive"
  BY DEF Notice
<1> HIDE DEF left, notice
<1>4. n \in 0 .. Len(left)
  BY <1>1, FrontEnds DEF Leading
<1> HIDE DEF n
<1>5. /\ Listed(sent) /\ Len(sent) = Len(left) + 1 /\ sent[n + 1] = notice
      /\ \A i \in 1 .. n : sent[i] = left[i]
      /\ \A i \in n + 1 .. Len(left) : sent[i + 1] = left[i]
  BY <1>1, <1>4, InsertedPlaces
<1>6. Without(sent, {n + 1}) = left
  BY <1>1, <1>4, LeftOfInserted
<1> HIDE DEF sent
<1>7. Len(left) \in Nat /\ DOMAIN sent = 1 .. Len(left) + 1
  BY <1>1, <1>5, ListedPlaces
<1>8. n + 1 \in Notices(sent)
  BY <1>3, <1>4, <1>5, <1>7 DEF Notices
<1>9. ASSUME NEW k \in Notices(sent), k # n + 1
      PROVE  FALSE
  <2>1. k \in 1 .. Len(left) + 1 /\ sent[k].role = "system" /\ sent[k].says = "archive"
    BY <1>7 DEF Notices
  <2>2. \E j \in 1 .. Len(left) : sent[k] = left[j]
    <3>1. CASE k <= n
      <4>1. k \in 1 .. n /\ k \in 1 .. Len(left)
        BY <1>4, <1>7, <2>1, <3>1
      <4> QED BY <1>5, <4>1
    <3>2. CASE ~(k <= n)
      <4>1. k - 1 \in n + 1 .. Len(left) /\ k - 1 \in 1 .. Len(left) /\ (k - 1) + 1 = k
        BY <1>4, <1>7, <1>9, <2>1, <3>2
      <4>2. sent[(k - 1) + 1] = left[k - 1]
        BY <1>5, <4>1
      <4> QED BY <4>1, <4>2
    <3> QED BY <3>1, <3>2
  <2>3. \E i \in 1 .. Len(h) : sent[k] = h[i]
    BY <1>1, <2>2
  <2> QED BY <2>1, <2>3 DEF AllOrdinary, Ordinary
<1>10. Notices(sent) = {n + 1}
  BY <1>8, <1>9
<1>11. n + 1 \in DOMAIN sent
  BY <1>4, <1>7
<1> QED BY <1>2, <1>5, <1>6, <1>10, <1>11 DEF left, notice

----------------------------------------------------------------------------
(* What holds throughout a run with archives.                              *)

\* An answer of which some calls, the last of the history, are left to run
Pending(h, todo) ==
  /\ Listed(todo) /\ Len(todo) >= 1
  /\ \E i \in 1 .. Len(h) :
       /\ h[i].role = "assistant" /\ i + Len(h[i].calls) = Len(h) + Len(todo)
       /\ \A k \in 1 .. Len(h) : h[k].role = "assistant" /\ k # i => k + Len(h[k].calls) <= Len(h)

\* The history of the run
HistoryHolds ==
  /\ cxAt \in {"ready", "sent", "tools", "over", "left", "closed"}
  /\ InOrder(cxHistory)
  /\ cxAt \in {"ready", "sent"} => Closed(cxHistory)
  /\ cxAt = "tools" => Pending(cxHistory, cxToDo)

\* The files of the session: one more than entries only if the session keeps no more
FilesHold ==
  /\ DOMAIN obEntries \subseteq DOMAIN obFiles
  /\ DOMAIN obFiles \subseteq 1 .. MaxItems + 1
  /\ ~obDisabled /\ ~obClosed => DOMAIN obFiles = DOMAIN obEntries
  /\ Cardinality(DOMAIN obFiles) <= MaxItems

\* The archive in use: its entry is what was removed of a history, that of a request or
\* one it has grown from.
ArchiveHolds ==
  cxActive # NoArchive =>
    /\ Listed(cxActive.prefix) /\ Closed(cxActive.prefix)
    /\ cxActive.removed = Candidate(cxActive.prefix)
    /\ cxAt = "sent" => GrownFrom(cxHistory, cxActive.prefix)
    /\ cxAt # "closed" =>
         /\ cxActive.handle \in DOMAIN obEntries
         /\ obEntries[cxActive.handle] = Taken(cxActive.prefix, cxActive.removed)

ArchiveInv ==
  /\ HistoryHolds /\ FilesHold /\ ArchiveHolds
  /\ cxAt = "sent" => cxSent = Apply(cxHistory, cxActive)
  /\ cxAt = "closed" => obClosed

\* What has an entry or a file keeps it.
EntriesStay ==
  /\ DOMAIN obEntries \subseteq DOMAIN obEntries'
  /\ \A h \in DOMAIN obEntries : obEntries'[h] = obEntries[h]

\* A handle is left as long as the session has room.
LEMMA HandleIsNew ==
  ASSUME FilesHold
  PROVE  NewHandle \in 1 .. MaxItems + 1 /\ NewHandle \notin DOMAIN obFiles /\ NewHandle \notin DOMAIN obEntries
<1>1. DOMAIN obEntries \cup DOMAIN obFiles = DOMAIN obFiles
  BY DEF FilesHold
<1>2. \E h \in 1 .. MaxItems + 1 : h \notin DOMAIN obFiles
  <2> SUFFICES ASSUME \A h \in 1 .. MaxItems + 1 : h \in DOMAIN obFiles PROVE FALSE
    OBVIOUS
  <2>1. DOMAIN obFiles = 1 .. MaxItems + 1
    BY DEF FilesHold
  <2>2. Cardinality(1 .. MaxItems + 1) = MaxItems + 1
    <3>1. MaxItems + 1 \in Nat
      BY ArchiveAssumption
    <3> QED BY <3>1, FS_Interval
  <2>3. MaxItems + 1 <= MaxItems
    BY <2>1, <2>2 DEF FilesHold
  <2> QED BY <2>3, ArchiveAssumption
<1>3. NewHandle \in 1 .. MaxItems + 1 /\ NewHandle \notin DOMAIN obEntries \cup DOMAIN obFiles
  BY <1>1, <1>2 DEF NewHandle
<1> QED BY <1>1, <1>3

\* One more entry or file leaves the others.
LEMMA OneMore ==
  ASSUME NEW f, NEW x, x \notin DOMAIN f, NEW c
  PROVE  LET g == Entered(f, x, c)
         IN  DOMAIN g = DOMAIN f \cup {x} /\ g[x] = c /\ \A y \in DOMAIN f : g[y] = f[y]
BY DEF Entered

\* There is room for one more file while the session keeps what it is given.
LEMMA OneMoreFits ==
  ASSUME FilesHold, NEW content, ~NoRoom(content), NEW files, files = DOMAIN obFiles \cup {NewHandle}
  PROVE  files \subseteq 1 .. MaxItems + 1 /\ Cardinality(files) <= MaxItems
<1>1. /\ DOMAIN obFiles = DOMAIN obEntries
      /\ ~(Cardinality(DOMAIN obEntries) >= MaxItems)
  BY DEF NoRoom, FilesHold
<1>2. IsFiniteSet(DOMAIN obFiles) /\ Cardinality(DOMAIN obFiles) \in Nat
  <2>1. MaxItems + 1 \in Int
    BY ArchiveAssumption
  <2>2. IsFiniteSet(1 .. MaxItems + 1)
    BY <2>1, FS_Interval
  <2>3. IsFiniteSet(DOMAIN obFiles)
    BY <2>2, FS_Subset DEF FilesHold
  <2> QED BY <2>3, FS_CardinalityType
<1>3. Cardinality(files) = Cardinality(DOMAIN obFiles) + 1
  BY <1>2, HandleIsNew, FS_AddElement
<1>4. Cardinality(files) <= MaxItems
  BY <1>1, <1>2, <1>3, ArchiveAssumption
<1> QED BY <1>4, HandleIsNew DEF FilesHold

\* What is retained has an entry and a file; the others stay.
LEMMA RetainingHolds ==
  ASSUME FilesHold, NEW content, ~NoRoom(content),
         obEntries' = Entered(obEntries, NewHandle, content),
         obFiles' = Entered(obFiles, NewHandle, content),
         UNCHANGED << obDisabled, obClosed >>
  PROVE  /\ FilesHold' /\ EntriesStay
         /\ NewHandle \in DOMAIN obEntries' /\ obEntries'[NewHandle] = content
<1>1. /\ DOMAIN obEntries' = DOMAIN obEntries \cup {NewHandle} /\ obEntries'[NewHandle] = content
      /\ \A h \in DOMAIN obEntries : obEntries'[h] = obEntries[h]
      /\ DOMAIN obFiles' = DOMAIN obFiles \cup {NewHandle}
  <2>1. NewHandle \notin DOMAIN obEntries /\ NewHandle \notin DOMAIN obFiles
    BY HandleIsNew
  <2>2. /\ DOMAIN obEntries' = DOMAIN obEntries \cup {NewHandle} /\ obEntries'[NewHandle] = content
        /\ \A h \in DOMAIN obEntries : obEntries'[h] = obEntries[h]
    <3>1. obEntries' = [h \in DOMAIN obEntries \cup {NewHandle} |->
                          IF h = NewHandle THEN content ELSE obEntries[h]]
      BY DEF Entered
    <3> QED BY <2>1, <3>1
  <2>3. DOMAIN obFiles' = DOMAIN obFiles \cup {NewHandle}
    BY <2>1, OneMore
  <2> QED BY <2>2, <2>3
<1>2. DOMAIN obFiles' \subseteq 1 .. MaxItems + 1 /\ Cardinality(DOMAIN obFiles') <= MaxItems
  BY <1>1, OneMoreFits
<1>3. DOMAIN obEntries' \subseteq DOMAIN obFiles' /\ DOMAIN obFiles' = DOMAIN obEntries'
  BY <1>1 DEF NoRoom, FilesHold
<1> QED BY <1>1, <1>2, <1>3 DEF FilesHold, EntriesStay

\* What cannot be retained leaves the entries, and at most one file.
LEMMA FailingHolds ==
  ASSUME FilesHold, NEW content, ~NoRoom(content), NotStored
  PROVE  FilesHold' /\ EntriesStay
<1>1. CASE UNCHANGED sessionVars
  BY <1>1 DEF sessionVars, FilesHold, EntriesStay
<1>2. CASE ~(UNCHANGED sessionVars)
  <2>1. /\ obFiles' = Entered(obFiles, NewHandle, Changed) /\ obDisabled' = TRUE
        /\ UNCHANGED << obEntries, obClosed >>
    BY <1>2 DEF NotStored
  <2>2. DOMAIN obFiles' = DOMAIN obFiles \cup {NewHandle}
    BY <2>1, HandleIsNew, OneMore
  <2>3. DOMAIN obFiles' \subseteq 1 .. MaxItems + 1 /\ Cardinality(DOMAIN obFiles') <= MaxItems
    BY <2>2, OneMoreFits
  <2> QED BY <2>1, <2>2, <2>3 DEF FilesHold, EntriesStay
<1> QED BY <1>1, <1>2

LEMMA ArchiveStarts == ASSUME ArchiveInit PROVE ArchiveInv
<1>1. HistoryHolds
  <2>1. cxAt = "ready" /\ cxHistory \in Openings
    BY DEF ArchiveInit
  <2> DEFINE h == cxHistory
             S == {h[i] : i \in 1 .. Len(h)}
             n == Len(h)
             f == [i \in 1 .. n |-> h[i]]
  <2>2. /\ n \in Nat /\ n >= 1 /\ h = f /\ h[1].role = "system"
        /\ \A i \in 1 .. n : Ordinary(h[i])
        /\ Paired(h) /\ Closed(h)
    BY <2>1, ArchiveAssumption
  <2>3. f \in [1 .. n -> S]
    OBVIOUS
  <2>4. Listed(h)
    <3> HIDE DEF f, n, S
    <3>1. Listed(f)
      BY <2>2, <2>3, FunctionIsListed
    <3> QED BY <2>2, <3>1
  <2> QED BY <2>1, <2>2, <2>4 DEF HistoryHolds, InOrder, AllOrdinary
<1>2. FilesHold
  <2>1. DOMAIN obEntries = {} /\ DOMAIN obFiles = {}
    BY DEF ArchiveInit
  <2>2. Cardinality(DOMAIN obFiles) = 0
    BY <2>1, FS_EmptySet
  <2> QED BY <2>1, <2>2, ArchiveAssumption DEF FilesHold
<1>3. cxActive = NoArchive /\ cxAt = "ready"
  BY DEF ArchiveInit
<1> QED BY <1>1, <1>2, <1>3 DEF ArchiveInv, ArchiveHolds

\* While its entry stays, an archive holds; a request has to be one it is of.
LEMMA ArchiveStays ==
  ASSUME ArchiveHolds, EntriesStay, cxActive' = cxActive,
         cxAt' = "sent" => cxAt = "sent" /\ cxHistory' = cxHistory,
         cxAt' # "closed" => cxAt # "closed"
  PROVE  ArchiveHolds'
<1> SUFFICES ASSUME cxActive # NoArchive
             PROVE  /\ Listed(cxActive.prefix) /\ Closed(cxActive.prefix)
                    /\ cxActive.removed = Candidate(cxActive.prefix)
                    /\ cxAt' = "sent" => GrownFrom(cxHistory', cxActive.prefix)
                    /\ cxAt' # "closed" =>
                         /\ cxActive.handle \in DOMAIN obEntries'
                         /\ obEntries'[cxActive.handle] = Taken(cxActive.prefix, cxActive.removed)
  BY DEF ArchiveHolds
<1>1. /\ Listed(cxActive.prefix) /\ Closed(cxActive.prefix)
      /\ cxActive.removed = Candidate(cxActive.prefix)
      /\ cxAt = "sent" => GrownFrom(cxHistory, cxActive.prefix)
      /\ cxAt # "closed" =>
           /\ cxActive.handle \in DOMAIN obEntries
           /\ obEntries[cxActive.handle] = Taken(cxActive.prefix, cxActive.removed)
  BY DEF ArchiveHolds
<1>2. cxAt' # "closed" =>
        /\ cxActive.handle \in DOMAIN obEntries'
        /\ obEntries'[cxActive.handle] = Taken(cxActive.prefix, cxActive.removed)
  BY <1>1 DEF EntriesStay
<1>3. cxAt' = "sent" => GrownFrom(cxHistory', cxActive.prefix)
  BY <1>1
<1> QED BY <1>1, <1>2, <1>3

\* A message with calls, or a result that is due, keeps a history in order.
LEMMA OrderGrows ==
  ASSUME NEW h, InOrder(h), NEW m, Ordinary(m), m.role \in {"assistant", "tool"},
         m.role = "tool" <=> \E i \in 1 .. Len(h) : AnsweredAt(h, i, Len(h) + 1)
  PROVE  LET g == Append(h, m)
         IN  /\ InOrder(g) /\ Len(g) = Len(h) + 1 /\ g[Len(h) + 1] = m
             /\ \A i \in 1 .. Len(h) : g[i] = h[i]
<1> DEFINE g == Append(h, m)
           n == Len(h)
<1>1. Listed(h) /\ AllOrdinary(h) /\ n \in Nat /\ n >= 1 /\ h[1].role = "system" /\ Paired(h)
  BY ListedPlaces DEF InOrder
<1>2. Listed(g) /\ Len(g) = n + 1 /\ g[n + 1] = m /\ \A i \in 1 .. n : g[i] = h[i]
  BY <1>1, AppendPlaces
<1> HIDE DEF g
<1>3. \A i \in 1 .. Len(g) : i \in 1 .. n \/ i = n + 1
  BY <1>1, <1>2
<1>4. AllOrdinary(g)
  BY <1>1, <1>2, <1>3 DEF AllOrdinary
<1>5. ASSUME NEW i \in 1 .. n, NEW j \in 1 .. n + 1
      PROVE  AnsweredAt(g, i, j) <=> AnsweredAt(h, i, j)
  BY <1>2 DEF AnsweredAt
<1>6. ASSUME NEW j \in 1 .. n + 1
      PROVE  ~AnsweredAt(g, n + 1, j)
  <2>1. ~(n + 1 < j)
    BY <1>1
  <2> QED BY <2>1 DEF AnsweredAt
<1>7. ASSUME NEW j \in 1 .. n + 1
      PROVE  g[j].role = "tool" <=> \E i \in 1 .. n : AnsweredAt(h, i, j)
  <2>1. CASE j \in 1 .. n
    BY <1>1, <1>2, <2>1 DEF Paired
  <2>2. CASE j = n + 1
    BY <1>2, <2>2
  <2> QED BY <1>1, <2>1, <2>2
<1>8. Paired(g)
  <2> SUFFICES ASSUME NEW j \in 1 .. n + 1
               PROVE  g[j].role = "tool" <=> \E i \in 1 .. n + 1 : AnsweredAt(g, i, j)
    BY <1>2 DEF Paired
  <2>1. ASSUME NEW i \in 1 .. n + 1, AnsweredAt(g, i, j) PROVE \E k \in 1 .. n : AnsweredAt(h, k, j)
    <3>1. i \in 1 .. n
      BY <1>2, <1>3, <1>6, <2>1
    <3> QED BY <1>5, <2>1, <3>1
  <2>2. ASSUME NEW k \in 1 .. n, AnsweredAt(h, k, j) PROVE \E i \in 1 .. n + 1 : AnsweredAt(g, i, j)
    <3>1. k \in 1 .. n + 1
      BY <1>1
    <3> QED BY <1>5, <2>2, <3>1
  <2> QED BY <1>7, <2>1, <2>2
<1>9. 1 \in 1 .. n /\ Len(g) >= 1
  BY <1>1, <1>2
<1>10. InOrder(g)
  BY <1>1, <1>2, <1>4, <1>8, <1>9 DEF InOrder
<1> QED BY <1>2, <1>10 DEF g

\* An answer with calls opens an exchange.
LEMMA ExchangeOpens ==
  ASSUME NEW h, InOrder(h), Closed(h), NEW m, Ordinary(m), m.role = "assistant",
         Len(m.calls) >= 1, Listed(m.calls)
  PROVE  InOrder(Append(h, m)) /\ Pending(Append(h, m), m.calls)
<1> DEFINE g == Append(h, m)
           n == Len(h)
<1>1. n \in Nat /\ AllOrdinary(h)
  BY ListedPlaces DEF InOrder
<1>2. Len(m.calls) \in Nat
  BY CallsCount
<1>3. ASSUME NEW i \in 1 .. n, AnsweredAt(h, i, n + 1) PROVE FALSE
  <2>1. h[i].role = "assistant" /\ n + 1 <= i + Len(h[i].calls)
    BY <1>3 DEF AnsweredAt
  <2>2. i + Len(h[i].calls) <= n /\ Len(h[i].calls) \in Nat
    BY <1>1, <2>1, CallsCount DEF Closed, AllOrdinary
  <2> QED BY <1>1, <2>1, <2>2
<1>4. InOrder(g) /\ Len(g) = n + 1 /\ g[n + 1] = m /\ \A i \in 1 .. n : g[i] = h[i]
  BY <1>3, OrderGrows
<1> HIDE DEF g
<1>5. n + 1 \in 1 .. Len(g) /\ (n + 1) + Len(m.calls) = Len(g) + Len(m.calls)
  BY <1>1, <1>4
<1>6. ASSUME NEW k \in 1 .. Len(g), g[k].role = "assistant", k # n + 1
      PROVE  k + Len(g[k].calls) <= Len(g)
  <2>1. k \in 1 .. n
    BY <1>1, <1>4, <1>6
  <2>2. k + Len(h[k].calls) <= n /\ Len(h[k].calls) \in Nat /\ g[k] = h[k]
    BY <1>1, <1>4, <1>6, <2>1, CallsCount DEF Closed, AllOrdinary
  <2> QED BY <1>1, <1>4, <2>1, <2>2
<1>7. Pending(g, m.calls)
  BY <1>4, <1>5, <1>6 DEF Pending
<1> QED BY <1>4, <1>7 DEF g

\* A result answers the next call; behind the last one no call is left.
LEMMA ExchangeGoesOn ==
  ASSUME NEW h, InOrder(h), NEW todo, Pending(h, todo), NEW m, Ordinary(m), m.role = "tool"
  PROVE  /\ InOrder(Append(h, m))
         /\ Len(todo) = 1 => Closed(Append(h, m))
         /\ Len(todo) # 1 => Pending(Append(h, m), Tail(todo))
<1> DEFINE g == Append(h, m)
           n == Len(h)
<1>1. n \in Nat /\ AllOrdinary(h) /\ Listed(todo) /\ Len(todo) \in Nat /\ Len(todo) >= 1
  BY ListedPlaces DEF InOrder, Pending
<1>2. PICK i \in 1 .. n :
        /\ h[i].role = "assistant" /\ i + Len(h[i].calls) = n + Len(todo)
        /\ \A k \in 1 .. n : h[k].role = "assistant" /\ k # i => k + Len(h[k].calls) <= n
  BY DEF Pending
<1>3. AnsweredAt(h, i, n + 1)
  BY <1>1, <1>2 DEF AnsweredAt
<1>4. InOrder(g) /\ Len(g) = n + 1 /\ g[n + 1] = m /\ \A k \in 1 .. n : g[k] = h[k]
  BY <1>3, OrderGrows
<1> HIDE DEF g
<1>5. ASSUME NEW k \in 1 .. Len(g), g[k].role = "assistant"
      PROVE  k \in 1 .. n /\ g[k] = h[k] /\ Len(g[k].calls) \in Nat
  <2>1. k \in 1 .. n
    BY <1>1, <1>4, <1>5
  <2>2. g[k] = h[k] /\ Ordinary(h[k])
    BY <1>1, <1>4, <2>1 DEF AllOrdinary
  <2> QED BY <1>5, <2>1, <2>2, CallsCount
<1>6. ASSUME NEW k \in 1 .. Len(g), g[k].role = "assistant", k # i
      PROVE  k + Len(g[k].calls) <= Len(g)
  <2>1. k + Len(g[k].calls) <= n
    BY <1>2, <1>5, <1>6
  <2> QED BY <1>1, <1>4, <1>5, <1>6, <2>1
<1>7. i \in 1 .. Len(g) /\ g[i].role = "assistant" /\ i + Len(g[i].calls) = n + Len(todo)
  BY <1>1, <1>2, <1>4
<1>8. ASSUME Len(todo) = 1 PROVE Closed(g)
  BY <1>1, <1>4, <1>6, <1>7, <1>8 DEF Closed
<1>9. ASSUME Len(todo) # 1 PROVE Pending(g, Tail(todo))
  <2>1. PICK S : todo \in Seq(S)
    BY <1>1 DEF Listed
  <2>2. todo # << >>
    BY <1>1
  <2>3. Tail(todo) \in Seq(S) /\ Len(Tail(todo)) = Len(todo) - 1
    BY <2>1, <2>2, HeadTailProperties
  <2>4. Listed(Tail(todo))
    BY <2>3 DEF Listed
  <2>5. Len(Tail(todo)) >= 1 /\ i + Len(g[i].calls) = Len(g) + Len(Tail(todo))
    BY <1>1, <1>4, <1>7, <1>9, <2>3
  <2> QED BY <1>6, <1>7, <2>4, <2>5 DEF Pending
<1> QED BY <1>4, <1>8, <1>9 DEF g

\* A request is prepared with the archive in use, or with a new one of what is put away.
LEMMA PreparedHolds ==
  ASSUME ArchiveInv, PrepareSend
  PROVE  ArchiveInv'
<1> DEFINE h       == Compact(cxHistory)
           active  == Valid(h, cxActive)
           content == Taken(h, Candidate(h))
           fresh   == [handle |-> NewHandle, removed |-> Candidate(h), prefix |-> h]
<1>1. /\ cxAt = "ready" /\ cxAt' = "sent"
      /\ HistoryHolds /\ FilesHold /\ ArchiveHolds
  BY DEF PrepareSend, ArchiveInv
<1>2. InOrder(h) /\ Closed(h) /\ Listed(h)
  <2>1. InOrder(h) /\ Closed(h)
    BY <1>1, CompactKeepsOrder DEF HistoryHolds
  <2> QED BY <2>1 DEF InOrder
<1>3. \/ /\ SendWith(h, active)
         /\ UNCHANGED sessionVars \/ (~NoRoom(content) /\ NotStored)
      \/ ~NoRoom(content) /\ Stored(content) /\ SendWith(h, fresh)
  BY DEF PrepareSend
<1>4. \/ active = NoArchive
      \/ active = cxActive /\ Listed(active.prefix) /\ GrownFrom(h, active.prefix)
  <2> SUFFICES ASSUME active # NoArchive
               PROVE  active = cxActive /\ Listed(active.prefix) /\ GrownFrom(h, active.prefix)
    OBVIOUS
  <2>1. active = cxActive /\ IsPrefix(cxActive.prefix, h)
    BY DEF Valid
  <2>2. Listed(cxActive.prefix) /\ Closed(cxActive.prefix)
    BY <1>1, <2>1 DEF ArchiveHolds
  <2> QED BY <1>2, <2>1, <2>2, PrefixIsContinued DEF GrownFrom
<1>5. ASSUME FilesHold', EntriesStay, SendWith(h, active) PROVE ArchiveInv'
  <2> HIDE DEF h, active
  <2>1. cxHistory' = h /\ cxActive' = active /\ cxSent' = Apply(h, active)
    BY <1>5 DEF SendWith
  <2>2. HistoryHolds'
    BY <1>1, <1>2, <2>1 DEF HistoryHolds
  <2>3. ASSUME active # NoArchive PROVE ArchiveHolds'
    <3>1. active = cxActive /\ Listed(active.prefix) /\ GrownFrom(h, active.prefix)
      BY <1>4, <2>3
    <3>2. /\ Closed(active.prefix) /\ active.removed = Candidate(active.prefix)
          /\ active.handle \in DOMAIN obEntries
          /\ obEntries[active.handle] = Taken(active.prefix, active.removed)
      BY <1>1, <2>3, <3>1 DEF ArchiveHolds
    <3>3. /\ active.handle \in DOMAIN obEntries'
          /\ obEntries'[active.handle] = Taken(active.prefix, active.removed)
      BY <1>5, <3>2 DEF EntriesStay
    <3> QED BY <2>1, <3>1, <3>2, <3>3 DEF ArchiveHolds
  <2>4. ArchiveHolds'
    BY <2>1, <2>3 DEF ArchiveHolds
  <2> QED BY <1>1, <1>5, <2>1, <2>2, <2>4 DEF ArchiveInv
<1>6. CASE SendWith(h, active) /\ (UNCHANGED sessionVars \/ (~NoRoom(content) /\ NotStored))
  <2>1. CASE UNCHANGED sessionVars
    <3>1. FilesHold' /\ EntriesStay
      BY <1>1, <2>1 DEF FilesHold, EntriesStay, sessionVars
    <3> QED BY <1>5, <1>6, <3>1
  <2>2. CASE ~NoRoom(content) /\ NotStored
    <3>1. FilesHold' /\ EntriesStay
      <4> HIDE DEF content
      <4> QED BY <1>1, <2>2, FailingHolds
    <3> QED BY <1>5, <1>6, <3>1
  <2> QED BY <1>6, <2>1, <2>2
<1>7. CASE ~NoRoom(content) /\ Stored(content) /\ SendWith(h, fresh)
  <2>1. /\ FilesHold' /\ NewHandle \in DOMAIN obEntries' /\ obEntries'[NewHandle] = content
    <3> HIDE DEF content
    <3> QED BY <1>1, <1>7, RetainingHolds DEF Stored
  <2> HIDE DEF h
  <2>2. cxHistory' = h /\ cxActive' = fresh /\ cxSent' = Apply(h, fresh)
    BY <1>7 DEF SendWith
  <2>3. GrownFrom(h, h)
    BY <1>2, ListedPlaces DEF GrownFrom
  <2>4. HistoryHolds'
    BY <1>1, <1>2, <2>2 DEF HistoryHolds
  <2>5. ArchiveHolds'
    BY <1>1, <1>2, <2>1, <2>2, <2>3 DEF ArchiveHolds
  <2> QED BY <1>1, <2>1, <2>2, <2>4, <2>5 DEF ArchiveInv
<1> QED BY <1>3, <1>6, <1>7

LEMMA ArchiveStep ==
  ASSUME ArchiveInv, [ArchiveNext]_archiveVars
  PROVE  ArchiveInv'
<1>1. HistoryHolds /\ FilesHold /\ ArchiveHolds
  BY DEF ArchiveInv
<1>2. CASE PrepareSend
  BY <1>2, PreparedHolds
<1>3. CASE CallsAnswered
  <2>1. /\ cxAt = "sent" /\ cxAt' = "tools" /\ cxActive' = cxActive
        /\ UNCHANGED << obEntries, obFiles, obDisabled, obClosed >>
    BY <1>3 DEF CallsAnswered, planVars, sessionVars
  <2>2. PICK args \in {<< "plain" >>, << "secret", "broken" >>} :
          /\ cxToDo' = [k \in DOMAIN args |-> k]
          /\ cxHistory' = Append(cxHistory, Speaks(cxTurn, args))
    BY <1>3 DEF CallsAnswered
  <2> DEFINE m == Speaks(cxTurn, args)
  <2>3. Len(args) \in Nat /\ Len(args) >= 1 /\ DOMAIN args = 1 .. Len(args)
    OBVIOUS
  <2>4. m.role = "assistant" /\ m.turn = cxTurn /\ m.args = args /\ m.calls = [k \in DOMAIN args |-> k]
    BY DEF Speaks
  <2>5. Ordinary(m)
    BY <2>3, <2>4 DEF Ordinary
  <2>6. cxHistory' = Append(cxHistory, m) /\ cxToDo' = m.calls
    BY <2>2, <2>4
  <2> HIDE DEF m
  <2>7. Len(m.calls) = Len(args) /\ Listed(m.calls)
    <3>1. Len(m.calls) = Len(m.args)
      BY <2>4, <2>5, CallsCount
    <3> DEFINE n == Len(args)
               f == [k \in 1 .. n |-> k]
    <3>2. f \in [1 .. n -> 1 .. n] /\ n \in Nat /\ m.calls = f
      BY <2>3, <2>4
    <3> HIDE DEF f, n
    <3>3. Listed(f)
      BY <3>2, FunctionIsListed
    <3> QED BY <2>4, <3>1, <3>2, <3>3
  <2>8. FilesHold' /\ EntriesStay
    BY <1>1, <2>1 DEF FilesHold, EntriesStay
  <2>9. HistoryHolds'
    <3>1. InOrder(cxHistory') /\ Pending(cxHistory', cxToDo')
      BY <1>1, <2>1, <2>3, <2>4, <2>5, <2>6, <2>7, ExchangeOpens DEF HistoryHolds
    <3> QED BY <2>1, <3>1 DEF HistoryHolds
  <2>10. ArchiveHolds'
    BY <1>1, <2>1, <2>8, ArchiveStays
  <2> QED BY <2>1, <2>8, <2>9, <2>10 DEF ArchiveInv
<1>4. CASE RunTool
  <2> DEFINE m == ToolResult(1, cxTurn, Head(cxToDo), "ran")
  <2>1. /\ cxAt = "tools" /\ cxAt' = (IF Len(cxToDo) = 1 THEN "ready" ELSE "tools")
        /\ cxActive' = cxActive
        /\ cxHistory' = Append(cxHistory, m) /\ cxToDo' = Tail(cxToDo)
        /\ \/ UNCHANGED << sessionVars, cxSpent >>
           \/ /\ ~NoRoom(<< m >>)
              /\ obEntries' = Entered(obEntries, NewHandle, << m >>)
              /\ obFiles' = Entered(obFiles, NewHandle, << m >>)
              /\ UNCHANGED << obDisabled, obClosed >>
           \/ ~NoRoom(<< m >>) /\ NotStored
    BY <1>4 DEF RunTool, planVars
  <2>2. Ordinary(m) /\ m.role = "tool"
    BY DEF Ordinary, ToolResult
  <2> HIDE DEF m
  <2>3. FilesHold' /\ EntriesStay
    <3> DEFINE content == << m >>
    <3>1. CASE UNCHANGED << sessionVars, cxSpent >>
      BY <1>1, <3>1 DEF FilesHold, EntriesStay, sessionVars
    <3>2. CASE /\ ~NoRoom(content)
               /\ obEntries' = Entered(obEntries, NewHandle, content)
               /\ obFiles' = Entered(obFiles, NewHandle, content)
               /\ UNCHANGED << obDisabled, obClosed >>
      <4> HIDE DEF content
      <4> QED BY <1>1, <3>2, RetainingHolds
    <3>3. CASE ~NoRoom(content) /\ NotStored
      <4> HIDE DEF content
      <4> QED BY <1>1, <3>3, FailingHolds
    <3> QED BY <2>1, <3>1, <3>2, <3>3
  <2>4. HistoryHolds'
    <3>1. InOrder(cxHistory) /\ Pending(cxHistory, cxToDo)
      BY <1>1, <2>1 DEF HistoryHolds
    <3>2. /\ InOrder(cxHistory')
          /\ Len(cxToDo) = 1 => Closed(cxHistory')
          /\ Len(cxToDo) # 1 => Pending(cxHistory', cxToDo')
      BY <2>1, <2>2, <3>1, ExchangeGoesOn
    <3> QED BY <2>1, <3>2 DEF HistoryHolds
  <2>5. ArchiveHolds'
    BY <1>1, <2>1, <2>3, ArchiveStays
  <2> QED BY <2>1, <2>3, <2>4, <2>5 DEF ArchiveInv
<1>5. CASE RunOver \/ CleanUpFails \/ UserStops \/ UNCHANGED archiveVars
  <2>1. /\ UNCHANGED << cxHistory, cxToDo, cxActive, cxSent, sessionVars >>
        /\ cxAt' = cxAt \/ (cxAt' \in {"over", "left"} /\ cxAt # "closed")
    BY <1>5 DEF RunOver, CleanUpFails, UserStops, archiveVars, planVars
  <2>2. FilesHold' /\ EntriesStay /\ obClosed' = obClosed
    BY <1>1, <2>1 DEF FilesHold, EntriesStay, sessionVars
  <2>3. ArchiveHolds'
    BY <1>1, <2>1, <2>2, ArchiveStays
  <2>4. HistoryHolds'
    BY <1>1, <2>1 DEF HistoryHolds
  <2> QED BY <2>1, <2>2, <2>3, <2>4 DEF ArchiveInv
<1>6. CASE Tamper
  <2>1. /\ UNCHANGED << cxAt, cxHistory, cxToDo, cxActive, cxSent, obEntries, obDisabled, obClosed >>
        /\ \E h \in DOMAIN obEntries : obFiles' = [obFiles EXCEPT ![h] = Changed]
    BY <1>6 DEF Tamper, planVars
  <2>2. DOMAIN obFiles' = DOMAIN obFiles
    BY <2>1
  <2>3. FilesHold' /\ EntriesStay
    BY <1>1, <2>1, <2>2 DEF FilesHold, EntriesStay
  <2>4. ArchiveHolds'
    BY <1>1, <2>1, <2>3, ArchiveStays
  <2>5. HistoryHolds'
    BY <1>1, <2>1 DEF HistoryHolds
  <2> QED BY <2>1, <2>3, <2>4, <2>5 DEF ArchiveInv
<1>7. CASE CleanUp
  <2>1. /\ cxAt' = "closed" /\ obClosed' = TRUE /\ obEntries' = << >>
        /\ DOMAIN obFiles' \subseteq DOMAIN obFiles
        /\ UNCHANGED << cxHistory, cxActive, cxSent, obDisabled >>
    BY <1>7 DEF CleanUp, planVars
  <2>2. DOMAIN obEntries' = {}
    BY <2>1
  <2>3. FilesHold'
    <3>1. DOMAIN obFiles \subseteq 1 .. MaxItems + 1 /\ IsFiniteSet(1 .. MaxItems + 1)
      <4>1. MaxItems + 1 \in Int
        BY ArchiveAssumption
      <4> QED BY <1>1, <4>1, FS_Interval DEF FilesHold
    <3>2. IsFiniteSet(DOMAIN obFiles)
      BY <3>1, FS_Subset
    <3>3. Cardinality(DOMAIN obFiles') <= Cardinality(DOMAIN obFiles)
      BY <2>1, <3>2, FS_Subset
    <3>4. Cardinality(DOMAIN obFiles') \in Nat /\ Cardinality(DOMAIN obFiles) \in Nat
      BY <2>1, <3>2, FS_Subset, FS_CardinalityType
    <3>5. Cardinality(DOMAIN obFiles') <= MaxItems
      BY <1>1, <3>3, <3>4, ArchiveAssumption DEF FilesHold
    <3> QED BY <2>1, <2>2, <3>1, <3>5 DEF FilesHold
  <2>4. ArchiveHolds'
    <3>1. "closed" # "sent"
      OBVIOUS
    <3> QED BY <1>1, <2>1, <3>1 DEF ArchiveHolds
  <2>5. HistoryHolds'
    BY <1>1, <2>1 DEF HistoryHolds
  <2> QED BY <2>1, <2>3, <2>4, <2>5 DEF ArchiveInv
<1> QED BY <1>2, <1>3, <1>4, <1>5, <1>6, <1>7 DEF ArchiveNext

\* What is archived of a message is that message, but for what the scrubber changes.
LEMMA ArchivedIsSame ==
  ASSUME NEW m, Ordinary(m), m.role \in {"assistant", "tool"} PROVE Same(Archived(m), m)
<1>1. CASE m.role # "assistant"
  BY <1>1 DEF Archived, Same
<1>2. CASE m.role = "assistant"
  <2> DEFINE kept == [k \in DOMAIN m.args |-> ScrubbedArg(m.args[k])]
  <2>1. Archived(m) = Speaks(m.turn, kept)
    BY <1>2 DEF Archived
  <2>2. DOMAIN kept = DOMAIN m.args /\ m.calls = [k \in DOMAIN m.args |-> k]
    BY <1>2, CallsCount
  <2>3. ASSUME NEW k \in DOMAIN m.args
        PROVE  kept[k] # "secret" /\ (m.args[k] = "plain" => kept[k] = "plain")
    BY DEF ScrubbedArg
  <2> HIDE DEF kept
  <2>4. /\ Speaks(m.turn, kept).role = "assistant" /\ Speaks(m.turn, kept).turn = m.turn
        /\ Speaks(m.turn, kept).args = kept /\ Speaks(m.turn, kept).calls = m.calls
    BY <2>2 DEF Speaks
  <2> QED BY <1>2, <2>1, <2>3, <2>4 DEF Same
<1> QED BY <1>1, <1>2

LEMMA ArchiveAnswers == ASSUME ArchiveInv PROVE ArchiveHoldsTheRest
<1> DEFINE content   == IF cxActive = NoArchive THEN << >> ELSE obEntries[cxActive.handle]
           recent(i) == Cardinality({j \in Groups(cxHistory) : j > i}) < KeepRecentGroups
<1>1. /\ HistoryHolds /\ FilesHold /\ ArchiveHolds
      /\ InOrder(cxHistory) /\ Listed(cxHistory) /\ AllOrdinary(cxHistory)
      /\ cxAt = "sent" => cxSent = Apply(cxHistory, cxActive)
      /\ cxAt = "closed" => obClosed
  BY DEF ArchiveInv, HistoryHolds, InOrder
<1>2. Cardinality(DOMAIN obFiles) <= MaxItems
  BY <1>1 DEF FilesHold
<1>3. cxAt = "closed" => \A h \in 1 .. MaxItems : Retrieve(h) = Refusal
  BY <1>1 DEF Retrieve
<1>4. ASSUME cxAt = "sent"
      PROVE  /\ cxActive # NoArchive =>
                  /\ cxActive.handle \in DOMAIN obEntries
                  /\ Retrieve(cxActive.handle) \in {content, Refusal}
                  /\ \E k \in DOMAIN cxSent : cxSent[k] = Notice(cxActive.handle)
             /\ DOMAIN content \subseteq DOMAIN cxHistory
             /\ \A i \in DOMAIN content :
                  cxHistory[i].role \in {"assistant", "tool"} /\ Same(content[i], cxHistory[i])
             /\ Without(cxSent, Notices(cxSent)) = Without(cxHistory, DOMAIN content)
             /\ \A i \in Groups(cxHistory) :
                  /\ recent(i) => Members(cxHistory, i) \cap DOMAIN content = {}
                  /\ Members(cxHistory, i) \cap DOMAIN content \in {{}, Members(cxHistory, i)}
  <2>1. CASE cxActive = NoArchive
    <3>1. content = << >> /\ DOMAIN content = {}
      BY <2>1
    <3>2. cxSent = cxHistory /\ Notices(cxSent) = {}
      BY <1>1, <1>4, <2>1, PlainRequest
    <3> HIDE DEF content
    <3> QED BY <2>1, <3>1, <3>2
  <2>2. CASE cxActive # NoArchive
    <3> DEFINE p == cxActive.prefix
    <3>1. /\ Listed(p) /\ GrownFrom(cxHistory, p) /\ cxActive.removed = Candidate(p)
          /\ cxActive.handle \in DOMAIN obEntries
          /\ obEntries[cxActive.handle] = Taken(p, Candidate(p))
      BY <1>1, <1>4, <2>2 DEF ArchiveHolds
    <3> HIDE DEF p
    <3>2. content = [i \in Candidate(p) |-> Archived(p[i])] /\ DOMAIN content = Candidate(p)
      BY <2>2, <3>1 DEF Taken
    <3>3. /\ \A b \in Candidate(p) : b \in 1 .. Len(p) /\ cxHistory[b].role \in {"assistant", "tool"}
          /\ \A i \in Groups(cxHistory) :
               /\ recent(i) => Members(cxHistory, i) \cap Candidate(p) = {}
               /\ Members(cxHistory, i) \cap Candidate(p) \in {{}, Members(cxHistory, i)}
      BY <1>1, <3>1, CandidateHolds
    <3>4. \A b \in 1 .. Len(p) : b \in DOMAIN cxHistory /\ cxHistory[b] = p[b]
      <4>1. Len(p) \in Nat /\ Len(cxHistory) \in Nat /\ DOMAIN cxHistory = 1 .. Len(cxHistory)
        BY <1>1, <3>1, ListedPlaces
      <4>2. Len(p) <= Len(cxHistory) /\ \A b \in 1 .. Len(p) : cxHistory[b] = p[b]
        BY <3>1 DEF GrownFrom
      <4> QED BY <4>1, <4>2
    <3>5. /\ \E k \in DOMAIN cxSent : cxSent[k] = Notice(cxActive.handle)
          /\ Without(cxSent, Notices(cxSent)) = Without(cxHistory, Candidate(p))
      BY <1>1, <1>4, <2>2, <3>1, NoticeIsGiven
    <3>6. Retrieve(cxActive.handle) \in {content, Refusal}
      BY <2>2, <3>1 DEF Retrieve
    <3> HIDE DEF content, recent
    <3>7. ASSUME NEW i \in DOMAIN content
          PROVE  /\ i \in DOMAIN cxHistory /\ cxHistory[i].role \in {"assistant", "tool"}
                 /\ Same(content[i], cxHistory[i])
      <4>1. i \in Candidate(p) /\ content[i] = Archived(p[i])
        BY <3>2
      <4>2. /\ i \in DOMAIN cxHistory /\ cxHistory[i] = p[i]
            /\ cxHistory[i].role \in {"assistant", "tool"}
        BY <3>3, <3>4, <4>1
      <4>3. Ordinary(cxHistory[i])
        BY <1>1, <4>2, ListedPlaces DEF AllOrdinary
      <4> QED BY <4>1, <4>2, <4>3, ArchivedIsSame
    <3> QED BY <3>1, <3>2, <3>3, <3>5, <3>6, <3>7
  <2> QED BY <2>1, <2>2
<1>5. cxAt = "left" /\ cxActive # NoArchive => cxActive.handle \in DOMAIN obEntries
  BY <1>1 DEF ArchiveHolds
<1> QED BY <1>2, <1>3, <1>4, <1>5 DEF ArchiveHoldsTheRest, Notices

\* What a request lacks of the history, scrubbed, can be read back under the handle it
\* names or is refused; recent and incomplete exchanges stay whole, also when the history
\* was compacted after an archive was made of it.  (prepare_request, archive_payload,
\* retrieve)
THEOREM RequestsLackOnlyArchived == ArchiveSpec => []ArchiveHoldsTheRest
<1>1. ArchiveInit => ArchiveInv
  BY ArchiveStarts
<1>2. ArchiveInv /\ [ArchiveNext]_archiveVars => ArchiveInv'
  BY ArchiveStep
<1>3. ArchiveInv => ArchiveHoldsTheRest
  BY ArchiveAnswers
<1> QED BY <1>1, <1>2, <1>3, PTL DEF ArchiveSpec
=============================================================================
