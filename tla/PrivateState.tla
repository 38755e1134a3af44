---------------------------- MODULE PrivateState ----------------------------
(***************************************************************************)
(* ~/.nosis/model: `nh model set`, `nh model clear` and the commands that  *)
(* select a model, as processes that share one directory.  An update       *)
(* stages the new and the old text, removes the file, links the new text   *)
(* into its place and removes its stages; a process may die anywhere.      *)
(***************************************************************************)
EXTENDS Integers, FiniteSets

CONSTANTS
  MaxCommands,   \* bound: commands, each a process of its own
  MaxTogether,   \* bound: commands under way at once
  MaxDeaths      \* bound: commands that die halfway

VARIABLES
  psFile,      \* the text of the file, or NoText
  psStages,    \* the staging files: whose, which of the two, and the text
  psCommand,   \* what each process was started for
  psAt,        \* how far it is
  psPrevious,  \* the text it read before its update
  psSaid,      \* how it ended
  psSaved,     \* ghost: the text linked last by an update, NoText after a clear
  psStale,     \* ghost: an update removed another text than the one it had compared
  psDeaths

privateVars == <<psFile, psStages, psCommand, psAt, psPrevious, psSaid, psSaved, psStale, psDeaths>>

\* A saved text is known by the command that saved it
NoText == -1
Earlier == 0
Runs == 1..MaxCommands
StageOf(p, kind, text) == [by |-> p, kind |-> kind, text |-> text]
Mine(p, kind) == {s \in psStages : s.by = p /\ s.kind = kind}
Updating(p) == psPrevious[p] # NoText

PrivateInit ==
  /\ psFile \in {NoText, Earlier}
  /\ psSaved = psFile /\ psStale = FALSE
  /\ psStages = {}
  /\ psCommand = [p \in Runs |-> "none"]
  /\ psAt = [p \in Runs |-> "new"]
  /\ psPrevious = [p \in Runs |-> NoText]
  /\ psSaid = [p \in Runs |-> "nothing"]
  /\ psDeaths = 0

ProcessAt(p, command, where) == psCommand[p] = command /\ psAt[p] = where
Advance(p, where) == psAt' = [psAt EXCEPT ![p] = where] /\ UNCHANGED psSaid
End(p, what) ==
  psAt' = [psAt EXCEPT ![p] = "ended"] /\ psSaid' = [psSaid EXCEPT ![p] = what]
Ghosts == UNCHANGED <<psSaved, psStale, psDeaths>>
Decides == UNCHANGED <<psFile, psStages, psCommand, psPrevious>> /\ Ghosts

\* What the guarded read finds is remembered as the value to compare with
Start(p, command) ==
  /\ psAt[p] = "new" /\ (p > 1 => psAt[p - 1] # "new")
  /\ Cardinality({q \in Runs : psAt[q] \notin {"new", "ended"}}) < MaxTogether
  /\ psCommand' = [psCommand EXCEPT ![p] = command]
  /\ psPrevious' = [psPrevious EXCEPT ![p] = psFile]
  /\ Advance(p, "read")
  /\ UNCHANGED <<psFile, psStages>> /\ Ghosts

----------------------------------------------------------------------------
(* set_with_home: publish_with(previous, replacement).                     *)

\* Unlinking one's own stage, whose failure nobody looks at
Unstage(p, kind) ==
  \/ psStages' = psStages \ Mine(p, kind)
  \/ UNCHANGED psStages

AddStage(p, kind, text) == psStages' = psStages \cup {StageOf(p, kind, text)}

StageNew(p) ==
  /\ ProcessAt(p, "set", "read")
  /\ \/ AddStage(p, "new", p) /\ Advance(p, "staged")
     \/ End(p, "error") /\ UNCHANGED psStages
  /\ UNCHANGED <<psFile, psCommand, psPrevious>> /\ Ghosts

StageRestore(p) ==
  /\ ProcessAt(p, "set", "staged")
  /\ IF ~Updating(p) THEN Advance(p, "both") /\ UNCHANGED psStages
     ELSE \/ AddStage(p, "restore", psPrevious[p]) /\ Advance(p, "both")
          \/ Unstage(p, "new") /\ End(p, "error")
  /\ UNCHANGED <<psFile, psCommand, psPrevious>> /\ Ghosts

\* A hard link that cannot be made here gives up before anything is changed
Probe(p) ==
  /\ ProcessAt(p, "set", "both")
  /\ \/ Advance(p, "probed")
     \/ Advance(p, "cleanError")
  /\ Decides

Compare(p) ==
  /\ ProcessAt(p, "set", "probed")
  /\ Advance(p, IF ~Updating(p) THEN "removed"
           ELSE IF psFile = psPrevious[p] THEN "compared" ELSE "cleanError")
  /\ Decides

\* Whatever is there by now goes
RemoveOld(p) ==
  /\ ProcessAt(p, "set", "compared")
  /\ \/ /\ psFile # NoText /\ psFile' = NoText
        /\ psStale' = (psStale \/ psFile # psPrevious[p])
        /\ Advance(p, "removed")
     \/ Advance(p, "cleanError") /\ UNCHANGED <<psFile, psStale>>
  /\ UNCHANGED <<psStages, psCommand, psPrevious, psSaved, psDeaths>>

\* hard_link never replaces a file
LinkNew(p) ==
  /\ ProcessAt(p, "set", "removed")
  /\ \/ /\ psFile = NoText /\ psFile' = p
        /\ psSaved' = p
        /\ Advance(p, "cleanSaved")
     \/ Advance(p, "failed") /\ UNCHANGED <<psFile, psSaved>>
  /\ UNCHANGED <<psStages, psCommand, psPrevious, psStale, psDeaths>>

MUT_RollbackDropsRestore(p) ==
  /\ ProcessAt(p, "set", "failed")
  /\ \/ psFile = NoText /\ psFile' = psPrevious[p] /\ Advance(p, "cleanError")
     \/ Advance(p, "cleanError") /\ UNCHANGED psFile
  /\ UNCHANGED <<psStages, psCommand, psPrevious>> /\ Ghosts

\* rollback_after_failure: the restore stage stays when it could not be linked back
Rollback(p) ==
  /\ ProcessAt(p, "set", "failed")
  /\ \/ /\ Updating(p) /\ psFile = NoText
        /\ psFile' = psPrevious[p] /\ Advance(p, "cleanError")
     \/ /\ Advance(p, IF Updating(p) THEN "cleanKeeping" ELSE "cleanError")
        /\ UNCHANGED psFile
  /\ UNCHANGED <<psStages, psCommand, psPrevious>> /\ Ghosts

\* cleanup_stages: the replacement and then the restore stage
CleanNew(p) ==
  /\ psAt[p] \in {"cleanSaved", "cleanError", "cleanKeeping"}
  /\ Unstage(p, "new")
  /\ IF psAt[p] = "cleanKeeping" THEN End(p, "error")
     ELSE Advance(p, IF psAt[p] = "cleanSaved" THEN "halfSaved" ELSE "halfError")
  /\ UNCHANGED <<psFile, psCommand, psPrevious>> /\ Ghosts

CleanRestore(p) ==
  /\ psAt[p] \in {"halfSaved", "halfError"}
  /\ Unstage(p, "restore")
  /\ End(p, IF psAt[p] = "halfSaved" THEN "saved" ELSE "error")
  /\ UNCHANGED <<psFile, psCommand, psPrevious>> /\ Ghosts

----------------------------------------------------------------------------
(* clear_with_home: absent and interrupted are both nothing to clear.      *)

CompareToClear(p) ==
  /\ ProcessAt(p, "clear", "read")
  /\ IF ~Updating(p) THEN End(p, "nothing_to_clear")
     ELSE IF psFile = psPrevious[p] THEN Advance(p, "compared") ELSE End(p, "error")
  /\ Decides

RemoveForGood(p) ==
  /\ ProcessAt(p, "clear", "compared")
  /\ \/ /\ psFile # NoText /\ psFile' = NoText /\ psSaved' = NoText
        /\ End(p, "cleared")
     \/ End(p, "error") /\ UNCHANGED <<psFile, psSaved>>
  /\ UNCHANGED <<psStages, psCommand, psPrevious, psStale, psDeaths>>

----------------------------------------------------------------------------
(* read_preference: a file that is absent, and then the directory listing. *)

Select(p) ==
  /\ ProcessAt(p, "select", "read")
  /\ End(p, IF Updating(p) THEN "selected"
            ELSE IF psStages # {} THEN "interrupted" ELSE "default")
  /\ Decides

----------------------------------------------------------------------------
Die(p) ==
  /\ psAt[p] \notin {"new", "ended"} /\ psDeaths < MaxDeaths
  /\ psDeaths' = psDeaths + 1
  /\ End(p, "died")
  /\ UNCHANGED <<psFile, psStages, psCommand, psPrevious, psSaved, psStale>>

Run(p) ==
  \/ \E command \in {"set", "clear", "select"} : Start(p, command)
  \/ StageNew(p) \/ StageRestore(p) \/ Probe(p) \/ Compare(p) \/ RemoveOld(p)
  \/ LinkNew(p) \/ Rollback(p) \/ CleanNew(p) \/ CleanRestore(p)
  \/ CompareToClear(p) \/ RemoveForGood(p) \/ Select(p) \/ Die(p)

PrivateNext == \E p \in Runs : Run(p)

PrivateSpec == PrivateInit /\ [][PrivateNext]_privateVars

----------------------------------------------------------------------------
(* Properties.                                                             *)

(* The value saved last and not cleared since is in the file, or an update *)
(* that has it in hand, or died or failed with it, has left it in its      *)
(* restore stage.  That is lost when two updates overlap so that one of    *)
(* them removes a text it never compared: its rollback may put an older    *)
(* value back, or its own death leave only that.  Even then no saved value *)
(* goes without a trace: while there is no file there is a stage, and the  *)
(* code takes the two together for an interrupted update.                  *)
PreferenceSurvives ==
  /\ psSaved # NoText /\ ~psStale =>
       psFile = psSaved \/ \E s \in psStages : s.kind = "restore" /\ s.text = psSaved
  /\ psSaved # NoText /\ psFile = NoText => psStages # {}

(* docs/CONFIGURATION.md: "Clearing it restores the built-in default."     *)
(* Nothing refuses to select a model for an interrupted update when the    *)
(* preference was cleared and no update is under way.                      *)
NoUpdate == \A p \in Runs : psCommand[p] = "set" => psAt[p] = "ended"
ClearingRestoresDefault ==
  psSaved = NoText /\ NoUpdate /\ (\E p \in Runs : psSaid[p] = "cleared")
    => \A p \in Runs : psSaid[p] # "interrupted"
============================================================================
