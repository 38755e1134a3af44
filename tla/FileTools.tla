----------------------------- MODULE FileTools -----------------------------
(***************************************************************************)
(* One write_file or edit_file call on one path, while another program     *)
(* writes, creates and removes the same file.  Both tools stage the new    *)
(* text beside the target; write_file publishes it with a hard link, which *)
(* never replaces, edit_file compares the target with what it read and     *)
(* then renames over it.                                                   *)
(***************************************************************************)
EXTENDS Naturals

CONSTANT MaxForeign   \* bound: what the other program does to the file

VARIABLES
  fiTool,      \* write_file or edit_file
  fiPhase,     \* how far the call is
  fiFile,      \* the target: its text and modification stamp, or Absent
  fiStamp,     \* the stamp of the metadata edit_file took
  fiText,      \* the text it read
  fiHeld,      \* the file it has open: its text, and whether the path still leads there
  fiStage,     \* the staging file exists
  fiCancel,    \* ctx.cancel
  fiRaced,     \* the file was touched after the last look at it
  fiResult,    \* what the call answered, and whether its audit says published
  fiWrote,     \* ghost: what the publication replaced
  fiForeign    \* what the other program has done so far

fileVars == <<fiTool, fiPhase, fiFile, fiStamp, fiText, fiHeld, fiStage, fiCancel, fiRaced,
              fiResult, fiWrote, fiForeign>>
seenVars == <<fiStamp, fiText, fiHeld>>
outsideVars == <<fiTool, fiCancel, fiForeign>>

Absent == [text |-> "absent", stamp |-> 0]
Texts == {"base", "other"}
Exists == fiFile # Absent
Unanswered == [say |-> "none", published |-> FALSE]
Nought == [text |-> "none", stamp |-> 0]
NotHeld == [text |-> "none", here |-> FALSE]

FileInit ==
  /\ fiTool \in {"write_file", "edit_file"}
  /\ fiPhase = "called"
  /\ fiFile \in {Absent, [text |-> "base", stamp |-> 1]}
  /\ fiStamp = 0 /\ fiText = "none" /\ fiHeld = NotHeld
  /\ fiStage = FALSE /\ fiCancel = FALSE /\ fiRaced = FALSE
  /\ fiResult = Unanswered /\ fiWrote = Nought
  /\ fiForeign = 0

FileAt(tool, phase) == fiTool = tool /\ fiPhase = phase
Enter(phase) == fiPhase' = phase /\ UNCHANGED fiResult
Say(what) == fiPhase' = "done" /\ fiResult' = [say |-> what, published |-> FALSE]
Published(what) == fiPhase' = "done" /\ fiResult' = [say |-> what, published |-> TRUE]
Decide == UNCHANGED <<fiFile, seenVars, fiStage, fiRaced, fiWrote, outsideVars>>

----------------------------------------------------------------------------
(* Before anything is staged.                                              *)

\* cancelled_before, checked on entry, after the approval and once the text is staged
Cancelled ==
  /\ fiPhase \in {"called", "approved"} /\ fiCancel
  /\ Say("cancelled") /\ Decide

\* Arguments or a path outside the working directory
BadCall == fiPhase = "called" /\ ~fiCancel /\ Say("error") /\ Decide

\* The law is asked first, then the target is looked at, then the user is asked
AskToWrite ==
  /\ FileAt("write_file", "called") /\ ~fiCancel
  /\ \/ Say("blocked")
     \/ Exists /\ Say("exists")
     \/ ~Exists /\ (Say("no_parent") \/ Enter("asking") \/ Enter("approved"))
  /\ Decide

\* edit_file asks for the path before it opens the file
AskToEdit ==
  /\ FileAt("edit_file", "called") /\ ~fiCancel
  /\ Say("blocked") \/ Enter("asking") \/ Enter("approved")
  /\ Decide

UserAllows ==
  /\ fiPhase = "asking"
  /\ Say("denied") \/ Enter("approved")
  /\ Decide

Open ==
  /\ FileAt("edit_file", "approved") /\ ~fiCancel
  /\ \/ ~Exists /\ Say("error") /\ UNCHANGED <<fiStamp, fiHeld>>
     \/ /\ Exists /\ Enter("opened") /\ fiStamp' = fiFile.stamp
        /\ fiHeld' = [text |-> fiFile.text, here |-> TRUE]
  /\ UNCHANGED <<fiFile, fiText, fiStage, fiRaced, fiWrote, outsideVars>>

\* It reads the file it opened, which may have lost its name meanwhile; only
\* the text "base" has the old string exactly once
ReadAndLocate ==
  /\ FileAt("edit_file", "opened") /\ fiHeld' = NotHeld
  /\ \/ /\ fiHeld.text = "base"
        /\ Enter("located") /\ fiText' = fiHeld.text
     \/ Say("error") /\ UNCHANGED fiText
  /\ UNCHANGED <<fiFile, fiStamp, fiStage, fiRaced, fiWrote, outsideVars>>

----------------------------------------------------------------------------
(* Staging.                                                                *)

ToStage ==
  \/ FileAt("write_file", "approved") /\ ~fiCancel
  \/ FileAt("edit_file", "located")

Stage ==
  /\ ToStage
  /\ \/ Enter("staged") /\ fiStage' = TRUE
     \/ Say("error") /\ UNCHANGED fiStage
  /\ UNCHANGED <<fiFile, seenVars, fiRaced, fiWrote, outsideVars>>

\* A failed write or a cancellation removes the stage and does not look whether it went
Abandon(what) ==
  /\ Say(what) /\ fiStage' \in BOOLEAN
  /\ UNCHANGED <<fiFile, seenVars, fiRaced, fiWrote, outsideVars>>

FillStage ==
  /\ fiPhase = "staged"
  /\ \/ ~fiCancel /\ Enter("filled") /\ Decide
     \/ fiCancel /\ Abandon("cancelled")
     \/ Abandon("error")

----------------------------------------------------------------------------
(* Publication.                                                            *)

\* remove_staged_file: its failure turns the answer into an error that says so
Clean(what) ==
  /\ \/ fiStage' = FALSE /\ Say(what)
     \/ UNCHANGED fiStage /\ Say("error_stage_left")
  /\ UNCHANGED <<fiFile, seenVars, fiRaced, fiWrote, outsideVars>>

MUT_RenameIntoPlace ==
  /\ FileAt("write_file", "filled")
  /\ fiFile' = [text |-> "ours", stamp |-> fiForeign + 2]
  /\ fiWrote' = fiFile /\ fiStage' = FALSE
  /\ Published("created")
  /\ UNCHANGED <<seenVars, fiRaced, outsideVars>>

HardLink ==
  /\ FileAt("write_file", "filled")
  /\ \/ /\ ~Exists
        /\ fiFile' = [text |-> "ours", stamp |-> fiForeign + 2]
        /\ fiWrote' = fiFile
        /\ Enter("linked")
        /\ UNCHANGED <<fiStage, seenVars, fiRaced, outsideVars>>
     \/ Exists /\ Clean("exists")
     \/ ~Exists /\ Clean("error")

\* A created file stays created when its stage cannot be removed
CleanLinked ==
  /\ FileAt("write_file", "linked")
  /\ \/ fiStage' = FALSE /\ Published("created")
     \/ UNCHANGED fiStage /\ Published("created_stage_left")
  /\ UNCHANGED <<fiFile, seenVars, fiRaced, fiWrote, outsideVars>>

\* edit_target_still_matches: the metadata ...
MUT_StatSkipped ==
  /\ FileAt("edit_file", "filled")
  /\ Enter("reread") /\ fiRaced' = FALSE
  /\ UNCHANGED <<fiFile, seenVars, fiStage, fiWrote, outsideVars>>
Restat ==
  /\ FileAt("edit_file", "filled")
  /\ \/ Exists /\ fiFile.stamp = fiStamp /\ Enter("restatted") /\ Decide
     \/ ~(Exists /\ fiFile.stamp = fiStamp) /\ Clean("conflict")

\* ... and then the text
Reread ==
  /\ FileAt("edit_file", "restatted")
  /\ \/ /\ Exists /\ fiFile.text = fiText
        /\ Enter("reread") /\ fiRaced' = FALSE
        /\ UNCHANGED <<fiFile, seenVars, fiStage, fiWrote, outsideVars>>
     \/ ~Exists /\ Clean("error")
     \/ Exists /\ fiFile.text # fiText /\ Clean("conflict")

\* The cancellation is looked at once more; from here an external writer can be lost
Rename ==
  /\ FileAt("edit_file", "reread")
  /\ \/ fiCancel /\ Clean("cancelled")
     \/ /\ ~fiCancel
        /\ fiFile' = [text |-> "ours", stamp |-> fiForeign + 2]
        /\ fiWrote' = fiFile /\ fiStage' = FALSE
        /\ Published("edited")
        /\ UNCHANGED <<seenVars, fiRaced, outsideVars>>
     \/ ~fiCancel /\ Clean("error")

----------------------------------------------------------------------------
(* The other program, and the user.                                        *)

\* It writes the file in place, puts another one there, or removes it
ForeignWrite ==
  /\ fiForeign < MaxForeign /\ fiForeign' = fiForeign + 1
  /\ \/ \E text \in Texts :
          /\ fiFile' = [text |-> text, stamp |-> fiForeign + 2]
          /\ \/ Exists /\ fiHeld' = IF fiHeld.here THEN [fiHeld EXCEPT !.text = text] ELSE fiHeld
             \/ fiHeld' = [fiHeld EXCEPT !.here = FALSE]
     \/ Exists /\ fiFile' = Absent /\ fiHeld' = [fiHeld EXCEPT !.here = FALSE]
  /\ fiRaced' = TRUE
  /\ UNCHANGED <<fiTool, fiPhase, fiStamp, fiText, fiStage, fiCancel, fiResult, fiWrote>>

UserCancels ==
  /\ ~fiCancel /\ fiCancel' = TRUE
  /\ UNCHANGED <<fiTool, fiPhase, fiFile, seenVars, fiStage, fiRaced, fiResult, fiWrote, fiForeign>>

FileCall ==
  \/ Cancelled \/ BadCall \/ AskToWrite \/ AskToEdit \/ UserAllows \/ Open \/ ReadAndLocate
  \/ Stage \/ FillStage \/ HardLink \/ CleanLinked \/ Restat \/ Reread \/ Rename

FileNext == FileCall \/ ForeignWrite \/ UserCancels

FileSpec == FileInit /\ [][FileNext]_fileVars

----------------------------------------------------------------------------
(* Properties.                                                             *)

(* A call that says it published has replaced what it was meant to: a new  *)
(* file nothing at all, an edit the very text it read, unless the other    *)
(* program wrote after the last look; and a call that does not say so has  *)
(* changed nothing.                                                        *)
PublicationIsExact ==
  fiPhase = "done" =>
    /\ fiResult.published <=> fiWrote # Nought
    /\ fiResult.published /\ fiTool = "write_file" => fiWrote = Absent
    /\ fiResult.published /\ fiTool = "edit_file" /\ ~fiRaced =>
         fiWrote.text = fiText

(* The staging file is gone when the answer does not say it was left; only *)
(* an abandoned write may leave it without a word.                         *)
StagesAreAccounted ==
  fiPhase = "done" /\ fiStage =>
    \/ fiResult.say \in {"error_stage_left", "created_stage_left"}
    \/ fiResult.say \in {"error", "cancelled"} /\ ~fiResult.published

(* An answer tells what became of the file and of its stage.               *)
AnswersMatchFiles == PublicationIsExact /\ StagesAreAccounted
============================================================================
