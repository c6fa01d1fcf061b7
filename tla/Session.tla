-------------------------------- MODULE Session --------------------------------
(* main, for one input and one output: the backup is opened, its media is used  *)
(* by the exports that were asked for, and it is written.  A second run opens   *)
(* what the first one left on disk.                                             *)
EXTENDS ExportToFile

VARIABLES task,      \* "open", "dumping", "htmling", "output": main's order
          todo,      \* the attachments the task has yet to come to
          run,       \* 1: the input is open; 2: the output is
          original   \* history: what run 1 had in memory when it exported

dumpmedia == command.dumpmedia
exporthtml == command.exporthtml

taskVars == <<task, todo, run, original>>

vars == <<loadVars, exportVars, taskVars>>

(* What run 1 exports, and whether it did. *)
Content ==
  [written       |-> stage = "written",
   statements    |-> d_database,
   attachments   |-> [i \in DOMAIN d_attachments |-> d_attachments[i].frame],
   stickers      |-> [i \in DOMAIN d_stickers |-> d_stickers[i].frame],
   avatars       |-> [i \in DOMAIN d_avatars |-> d_avatars[i].frame],
   sharedprefs   |-> d_sharedpreferenceframes,
   keyvalues     |-> d_keyvalueframes,
   skipped       |-> skipped]

-----------------------------------------------------------------------------
SessionInit ==
  /\ Init
  /\ out = <<>> /\ e_counter = 0 /\ laundered = {}
  /\ stage = "idle" /\ next = 1 /\ skipped = {}
  /\ task = "open" /\ todo = {} /\ run = 1 /\ original = Content

Load == LoadNext /\ UNCHANGED <<exportVars, taskVars>>

(* The end of the load: main stops unless ok(), and goes to its first task.     *)
Opened ==
  /\ stage = "idle" /\ pc = "done" /\ d_ok

StartTask ==
  /\ Opened /\ todo = {} /\ task # "output"
  /\ task' = CASE task = "open"    -> "dumping"
               [] task = "dumping" -> "htmling"
               [] task = "htmling" -> "output"
  /\ todo' = IF (task = "open" /\ dumpmedia) \/ (task = "dumping" /\ exporthtml)
             THEN DOMAIN d_attachments ELSE {}
  /\ UNCHANGED <<loadVars, exportVars, run, original>>

(* Both tasks hand the data to ofstream::write as it comes, null or not.  With  *)
(* a null pointer that crashes or fails, as the size and the system have it.    *)
WritesNull(k, reading) == k.frame.size # "none" /\ reading.data = "none"

(* Mutant: the task does not move on.                                           *)
Use_Again(s, i, att) ==
  /\ stage = "idle" /\ task = s /\ i \in todo
  /\ d_attachments' = [d_attachments EXCEPT ![i].att = att]
  /\ UNCHANGED <<restVars, d_stickers, d_avatars, encryptorVars, next, skipped>>
  /\ UNCHANGED taskVars

Use(s, i, att) ==
  /\ stage = "idle" /\ task = s /\ i \in todo
  /\ todo' = todo \ {i}
  /\ d_attachments' = [d_attachments EXCEPT ![i].att = att]
  /\ UNCHANGED <<restVars, d_stickers, d_avatars, encryptorVars, next, skipped>>
  /\ UNCHANGED <<task, run, original>>

(* dumpMedia drops the data whether or not it could be written.                 *)
DumpMedia(i) ==
  \E result \in Results(d_attachments[i]) :
    LET reading == attachmentData(d_attachments[i].att, result)
    IN  /\ Use("dumping", i, clearData(reading.att))
        /\ \/ WritesNull(d_attachments[i], reading) /\ stage' = "crashed"
           \/ ClearIsDefined(reading.att) /\ stage' = "idle"
           \/ ~ClearIsDefined(reading.att) /\ stage' = "crashed"

(* HTMLwriteAttachment returns early when the write fails: the data is kept.    *)
HTMLwriteAttachment(i) ==
  \E result \in Results(d_attachments[i]) :
    LET reading == attachmentData(d_attachments[i].att, result)
    IN  \/ /\ Use("htmling", i, reading.att)
           /\ stage' \in IF WritesNull(d_attachments[i], reading) THEN {"idle", "crashed"} ELSE {"idle"}
        \/ /\ ~WritesNull(d_attachments[i], reading)
           /\ Use("htmling", i, clearData(reading.att))
           /\ stage' = IF ClearIsDefined(reading.att) THEN "idle" ELSE "crashed"

(* Its message was not asked for, or no file could be opened for it.            *)
PassOver(i) ==
  /\ Use(task, i, d_attachments[i].att)
  /\ UNCHANGED stage

UseMedia == \E i \in todo : DumpMedia(i) \/ HTMLwriteAttachment(i) \/ PassOver(i)

Output ==
  /\ task = "output"
  /\ ExportStep
  /\ UNCHANGED taskVars

(* The second run is given what the first one left under the output's name, and *)
(* the passphrase it was written with.                                          *)
Reopen ==
  /\ run = 1 /\ run' = 2
  /\ stage \in {"written", "failed"} /\ out # <<>> /\ out[1].damage = "none"
  /\ original' = Content
  /\ file' = out /\ command' = [command EXCEPT !.keyok = TRUE]
  /\ pos' = 1 /\ aligned' = TRUE
  /\ d_counter' = FirstCounter /\ d_framecount' = 1
  /\ d_badmac' = FALSE /\ d_headerframe' = TRUE
  /\ frame' = <<>>
  /\ pc' = "get" /\ d_ok' = FALSE /\ transaction' = TRUE
  /\ d_database' = <<>> /\ d_avatars' = <<>>
  /\ d_attachments' = <<>> /\ d_stickers' = <<>>
  /\ d_sharedpreferenceframes' = <<>> /\ d_keyvalueframes' = <<>>
  /\ d_databaseversion' = FALSE /\ d_header' = FALSE
  /\ d_endframe' = "none"
  /\ d_badattachments' = {}
  /\ delivered' = <<>>
  /\ UNCHANGED <<exportVars, task, todo>>

SessionNext == Load \/ StartTask \/ UseMedia \/ Output \/ Reopen

SessionSpec == SessionInit /\ [][SessionNext]_vars /\ WF_vars(SessionNext)
-----------------------------------------------------------------------------
(* Properties *)

(* The types of the exporter's and the session's own state; what is on disk is  *)
(* always a file the decryptor can be pointed at.                               *)
SessionTypeOK ==
  /\ TypeOK
  /\ out \in Seq(Blocks(Ids)) /\ e_counter \in Nat
  /\ laundered \subseteq 1 .. Len(out)
  /\ stage \in Stages /\ next \in Nat \ {0}
  /\ skipped \subseteq Stages \X Nat
  /\ task \in {"open", "dumping", "htmling", "output"}
  /\ todo \subseteq DOMAIN d_attachments /\ run \in {1, 2}

(* What is written can be read back: every block has its place, and the value   *)
(* of the counter it is encrypted with is the one the decryptor will have.      *)
OutputWellFormed == WellFormed(out, FirstCounter) /\ (stage = "written" => out # <<>>)

(* Data that does not verify is not given a new, valid MAC.                     *)
OnlyVerifiedData == laundered = {}

(* Nor does dumping the media give it one, or keeping the data in memory.       *)
DumpKeepsVerified == ~exporthtml => OnlyVerifiedData

(* With the wrong passphrase nothing is written that passes for a backup.       *)
WrongKeyWritesNothing == stage = "written" => keyok

Reloaded == run = 2 /\ pc = "done"

FramesOf(map) == {map[i].frame : i \in DOMAIN map}

(* Of a list the elements that were written, and the frames of the rows that    *)
(* were, of a table.                                                            *)
NotSkipped(s, list) == {list[n] : n \in {m \in DOMAIN list : <<s, m>> \notin original.skipped}}

OfRows(s, rows, frames) ==
  {frames[id] : id \in NotSkipped(s, original.statements) \cap rows \cap DOMAIN frames}

(* If the second run reads an end frame, what it has is what was exported: only *)
(* the frames left out because their data is corrupt and the attachments and    *)
(* stickers without a row are missing.  A failed export never shows as whole,   *)
(* and one reported as done does, but for what its last flush lost.             *)
RoundTrip ==
  /\ Reloaded /\ original.written /\ ~FlushMayFail => d_endframe = "read"
  /\ Reloaded /\ d_endframe = "read" =>
     /\ original.written
     /\ d_database = original.statements
     /\ d_sharedpreferenceframes = original.sharedprefs
     /\ d_keyvalueframes = original.keyvalues
     /\ FramesOf(d_attachments) =
          {Sized(f) : f \in OfRows("attachment", PartRows, original.attachments)}
     /\ FramesOf(d_stickers) =
          {Sized(f) : f \in OfRows("sticker", StickerRows, original.stickers)}
     /\ FramesOf(d_avatars) = {Sized(f) : f \in NotSkipped("avatars", original.avatars)}

(* What the second run has can be read without error.                           *)
OutputReadable ==
  Reloaded /\ d_endframe = "read" =>
     \A map \in {d_attachments, d_stickers, d_avatars} :
        \A i \in DOMAIN map : map[i].frame.size # "none" => Results(map[i]) = {"OK"}

(* Every session ends: main returns, or the program crashes.                    *)
Stopped ==
  \/ pc = "crashed" \/ stage = "crashed"
  \/ pc = "done" /\ ~d_ok
  \/ run = 2 /\ pc = "done"
  \/ stage \in {"written", "failed"} /\ (out = <<>> \/ out[1].damage # "none")

SessionEnds == <>Stopped
=============================================================================
