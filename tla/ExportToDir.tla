------------------------------- MODULE ExportToDir -------------------------------
(* SignalBackup::exportBackupToDir: a backup is unpacked into a directory, which *)
(* may hold another one that is cleared first.  A step that fails is remembered  *)
(* and the next one taken; the database comes last.                              *)
EXTENDS UnpackedBackup, TLC

CONSTANTS Backups,     \* the backups that may be in memory
          OldBackups,  \* those that may have been unpacked into the directory before
          Commands     \* the command lines the program may be called with

VARIABLES dir,       \* the output directory: the content of each file, by name
          backup,    \* what is in memory
          command,   \* the options of the command line
          stage,     \* what is written next, or how it ended
          next,      \* the index within what is being written
          exportok,
          full       \* the disk is, and stays, full

(* What is in memory: attachments and stickers are in maps by their ids, avatars *)
(* and preferences in vectors.                                                  *)
MediaSet == [id : Nat, uniqueid : Nat, data : STRING, good : BOOLEAN]

IsBackup(b) ==
  /\ b.version \in BOOLEAN
  /\ b.rows \in [DOMAIN b.rows -> STRING]
  /\ b.attachments \in Seq(MediaSet) /\ b.avatars \in Seq(MediaSet) /\ b.stickers \in Seq(MediaSet)
  /\ b.sharedprefs \in Seq(Seq(STRING)) /\ b.keyvalues \in Seq(Seq(STRING))
  /\ \A i, j \in DOMAIN b.attachments :
       AttachmentKey(b.attachments[i].id, b.attachments[i].uniqueid)
         = AttachmentKey(b.attachments[j].id, b.attachments[j].uniqueid) => i = j
  /\ \A i, j \in DOMAIN b.stickers : b.stickers[i].id = b.stickers[j].id => i = j

ASSUME BackupsAssumption == \A b \in Backups \cup OldBackups : IsBackup(b)

ASSUME CommandsAssumption ==
  Commands \subseteq [overwrite : BOOLEAN, onlydb : BOOLEAN, inputinside : BOOLEAN]

vars == <<dir, backup, command, stage, next, exportok, full>>

overwrite == command.overwrite
onlydb == command.onlydb

(* The input lies in the output directory; main asks only whether the two are   *)
(* the same.                                                                    *)
inputinside == command.inputinside

(* Mutant: the database is written before the media.                            *)
Order_DatabaseFirst == <<"header", "version", "database", "filling", "attachments", "avatars",
                         "sharedprefs", "keyvalues", "stickers", "end", "done">>

Order == <<"header", "version", "attachments", "avatars", "sharedprefs", "keyvalues",
           "stickers", "end", "database", "filling", "done">>

Final == {"done", "refused", "crashed"}

Exporting == stage \notin Final

-----------------------------------------------------------------------------
(* The directory a backup unpacks to *)

File(name, content) == [name |-> name, content |-> content]

NumberedFiles(kind, list) ==
  {File(Name(kind, <<i>>, "sbf"), list[i]) : i \in DOMAIN list}

MediaFiles(kind, keys, list) ==
  UNION {{File(Name(kind, keys[i], "sbf"), <<MediaFrame(list[i])>>),
          File(Name(kind, keys[i], "bin"), list[i].data)} : i \in DOMAIN list}

AttachmentKeys(b) ==
  [i \in DOMAIN b.attachments |-> AttachmentKey(b.attachments[i].id, b.attachments[i].uniqueid)]

AvatarKeys(b) == [i \in DOMAIN b.avatars |-> AvatarKey(i, Len(b.avatars), b.avatars[i].id)]

StickerKeys(b) == [i \in DOMAIN b.stickers |-> <<i, b.stickers[i].id>>]

Files(b) ==
  {File(Single("Header"), <<"header">>), File(Single("DatabaseVersion"), <<"version">>),
   File(Single("End"), <<"END">>), File(Database, b.rows)}
  \cup MediaFiles("Attachment", AttachmentKeys(b), b.attachments)
  \cup MediaFiles("Avatar", AvatarKeys(b), b.avatars)
  \cup NumberedFiles("SharedPreference", b.sharedprefs)
  \cup NumberedFiles("KeyValue", b.keyvalues)
  \cup MediaFiles("Sticker", StickerKeys(b), b.stickers)

Unpacked(b) ==
  [n \in {f.name : f \in Files(b)} |-> (CHOOSE f \in Files(b) : f.name = n).content]

With(d, name, content) == [n \in DOMAIN d \cup {name} |-> IF n = name THEN content ELSE d[n]]

Init ==
  /\ backup \in Backups /\ command \in Commands
  /\ \E earlier \in {<<>>} \cup {Unpacked(b) : b \in OldBackups} :
       dir = IF inputinside THEN With(earlier, Input, <<>>) ELSE earlier
  /\ stage = "prepare" /\ next = 1 /\ exportok = TRUE /\ full = FALSE

-----------------------------------------------------------------------------
(* prepareOutputDirectory *)

FirstStage == IF onlydb THEN "database" ELSE "header"

(* Mutant: a directory that may be overwritten is not cleared.                  *)
Prepare_NotCleared ==
  /\ stage = "prepare"
  /\ stage' = IF dir = <<>> \/ overwrite THEN FirstStage ELSE "refused"
  /\ UNCHANGED <<dir, backup, command, next, exportok, full>>

Prepare ==
  /\ stage = "prepare"
  /\ stage' = CASE dir = <<>> -> FirstStage
                [] dir # <<>> /\ overwrite -> "clearing"
                [] OTHER -> "refused"
  /\ UNCHANGED <<dir, backup, command, next, exportok, full>>

(* The directory cannot be made, or is none. *)
RefuseDirectory ==
  /\ stage = "prepare" /\ dir = <<>>
  /\ stage' = "refused"
  /\ UNCHANGED <<dir, backup, command, next, exportok, full>>

(* clearDirectory, in the order the directory happens to have.                  *)
Clear ==
  /\ stage = "clearing"
  /\ \E name \in DOMAIN dir : dir' = [n \in DOMAIN dir \ {name} |-> dir[n]]
  /\ stage' = IF dir' = <<>> THEN FirstStage ELSE "clearing"
  /\ UNCHANGED <<backup, command, next, exportok, full>>

ClearFails ==
  /\ stage = "clearing"
  /\ stage' = "refused"
  /\ UNCHANGED <<dir, backup, command, next, exportok, full>>

-----------------------------------------------------------------------------
(* Writing *)

(* A file is written: what becomes of the directory, and what the program is    *)
(* told.  On a full disk the file is not made, or stays blank, which a small    *)
(* one does unnoticed: it is flushed after it was asked whether all is well.    *)
Written(d, name, content, blank) ==
  IF ~full THEN {[dir |-> With(d, name, content), ok |-> TRUE]}
  ELSE {[dir |-> d, ok |-> FALSE]}
       \cup {[dir |-> With(d, name, blank), ok |-> told] : told \in BOOLEAN}

After(s) == Order[1 + CHOOSE i \in DOMAIN Order : Order[i] = s]

(* One frame after the other, then the next stage. *)
Advance(count) ==
  IF next < count
  THEN stage' = stage /\ next' = next + 1
  ELSE stage' = After(stage) /\ next' = 1

PassOver(list) ==
  /\ list = <<>>
  /\ stage' = After(stage) /\ next' = 1
  /\ UNCHANGED <<dir, exportok>>

(* writeRawFrameDataToFile for the one frame of its kind, if there is one.      *)
WriteSingle(s, kind, text, present) ==
  /\ stage = s
  /\ IF present
     THEN \E w \in Written(dir, Single(kind), text, <<>>) :
            dir' = w.dir /\ exportok' = (exportok /\ w.ok)
     ELSE exportok' = FALSE /\ UNCHANGED dir
  /\ Advance(1)
  /\ UNCHANGED <<backup, command, full>>

WriteHeader == WriteSingle("header", "Header", <<"header">>, TRUE)

WriteVersion == WriteSingle("version", "DatabaseVersion", <<"version">>, backup.version)

WriteEnd == WriteSingle("end", "End", <<"END">>, TRUE)

WriteNumbered(s, kind, list) ==
  /\ stage = s
  /\ \/ PassOver(list)
     \/ /\ next \in DOMAIN list
        /\ \E w \in Written(dir, Name(kind, <<next>>, "sbf"), list[next], <<>>) :
             dir' = w.dir /\ exportok' = (exportok /\ w.ok)
        /\ Advance(Len(list))
  /\ UNCHANGED <<backup, command, full>>

WriteSharedPrefs == WriteNumbered("sharedprefs", "SharedPreference", backup.sharedprefs)

WriteKeyValues == WriteNumbered("keyvalues", "KeyValue", backup.keyvalues)

(* attachmentData: no data where its MAC is wrong, where there is none and no   *)
(* reader either, or where the input is gone.                                   *)
HasData(m) ==
  /\ m.good /\ m.data # ""
  /\ inputinside => Input \in DOMAIN dir

Failed(outcomes) == {[w EXCEPT !.ok = FALSE] : w \in outcomes}

(* What comes of a .bin.  That there is no data fails for an attachment; for an *)
(* avatar or sticker it is not asked, and no bytes at all are no failure.       *)
DataWritten(kind, m, d, bin) ==
  IF HasData(m) \/ (kind # "Attachment" /\ m.data = "")
  THEN Written(d, bin, m.data, "")
  ELSE Failed(Written(d, bin, "", ""))

(* A frame whose .sbf could not be written goes without its .bin.               *)
WriteMedia(kind, key, m) ==
  \E w \in Written(dir, Name(kind, key, "sbf"), <<MediaFrame(m)>>, <<>>) :
    \E d \in IF w.ok THEN DataWritten(kind, m, w.dir, Name(kind, key, "bin")) ELSE {w} :
      dir' = d.dir /\ exportok' = (exportok /\ d.ok)

WriteMediaFrames(s, kind, keys, list) ==
  /\ stage = s
  /\ \/ PassOver(list)
     \/ /\ next \in DOMAIN list
        /\ WriteMedia(kind, keys[next], list[next])
        /\ Advance(Len(list))
  /\ UNCHANGED <<backup, command, full>>

(* The data is dropped again once it is written; it has a reader then.          *)
WriteAttachment ==
  WriteMediaFrames("attachments", "Attachment", AttachmentKeys(backup), backup.attachments)

WriteAvatar == WriteMediaFrames("avatars", "Avatar", AvatarKeys(backup), backup.avatars)

WriteSticker == WriteMediaFrames("stickers", "Sticker", StickerKeys(backup), backup.stickers)

(* A null pointer is written: the write fails, or the program crashes with it,  *)
(* as the size and the system have it.                                          *)
CrashOnNull(s, list) ==
  /\ stage = s /\ next \in DOMAIN list
  /\ list[next].data # "" /\ ~HasData(list[next])
  /\ stage' = "crashed"
  /\ UNCHANGED <<dir, backup, command, next, exportok, full>>

Crash == CrashOnNull("avatars", backup.avatars) \/ CrashOnNull("stickers", backup.stickers)

(* saveToFile: opening the database makes an empty file, which is a database    *)
(* without tables; on a full disk perhaps none.                                 *)
OpenDatabase ==
  /\ stage = "database"
  /\ \/ full /\ UNCHANGED dir
     \/ dir' = With(dir, Database, <<>>)
  /\ stage' = After(stage) /\ next' = 1
  /\ UNCHANGED <<backup, command, exportok, full>>

(* copyDb fills it in one transaction, whose result is looked at.  One that is  *)
(* broken off is rolled back.                                                   *)
FillDatabase ==
  /\ stage = "filling"
  /\ IF full
     THEN exportok' = FALSE /\ UNCHANGED dir
     ELSE dir' = With(dir, Database, backup.rows) /\ UNCHANGED exportok
  /\ stage' = After(stage) /\ next' = 1
  /\ UNCHANGED <<backup, command, full>>

DiskFills ==
  /\ Exporting /\ stage \notin {"prepare", "clearing"} /\ ~full
  /\ full' = TRUE
  /\ UNCHANGED <<dir, backup, command, stage, next, exportok>>

-----------------------------------------------------------------------------
(* The user puts a .new file beside the data of an attachment, for the next run *)
(* with --replaceattachments.                                                   *)
AddNew ==
  /\ stage = "done"
  /\ \E n \in Frames(dir, "Attachment"), metadata \in {"fine", "unknown", "huge"} :
       /\ New(n) \notin DOMAIN dir
       /\ dir' = With(dir, New(n), [data |-> "new", metadata |-> metadata])
  /\ UNCHANGED <<backup, command, stage, next, exportok, full>>

Next ==
  \/ Prepare \/ RefuseDirectory \/ Clear \/ ClearFails
  \/ WriteHeader \/ WriteVersion \/ WriteAttachment \/ WriteAvatar \/ WriteSharedPrefs
  \/ WriteKeyValues \/ WriteSticker \/ WriteEnd \/ OpenDatabase \/ FillDatabase \/ Crash
  \/ DiskFills \/ AddNew

Spec == Init /\ [][Next]_vars
-----------------------------------------------------------------------------
(* Properties *)

Offered == Load(dir, FALSE, FALSE)

(* What opening a whole copy of b gives. *)
Loaded(m) == WithData(MediaFrame(m), m.data)

Whole(b) ==
  [ok          |-> TRUE,
   rows        |-> b.rows,
   sharedprefs |-> b.sharedprefs,
   keyvalues   |-> b.keyvalues,
   avatars     |-> [i \in DOMAIN b.avatars |-> Loaded(b.avatars[i])],
   attachments |-> {Loaded(b.attachments[i]) : i \in DOMAIN b.attachments},
   stickers    |-> {Loaded(b.stickers[i]) : i \in DOMAIN b.stickers}]

(* Data that could not be had is short: the file is blank, or there is none.    *)
SameOrShort(m, n) == m = n \/ \E data \in {"", "missing"} : m = [n EXCEPT !.data = data]

SomeOf(S, T) == \A m \in S : \E n \in T : SameOrShort(m, n)

(* s is t with some elements left out. *)
Thinned(s, t) ==
  \E at \in [DOMAIN s -> DOMAIN t] :
    /\ \A i, j \in DOMAIN s : i < j => at[i] < at[j]
    /\ \A i \in DOMAIN s : SameOrShort(s[i], t[at[i]])

PartOf(a, b) ==
  \/ ~a.ok
  \/ /\ b.ok /\ a.rows = b.rows
     /\ IsPrefix(a.sharedprefs, b.sharedprefs) /\ IsPrefix(a.keyvalues, b.keyvalues)
     /\ Thinned(a.avatars, b.avatars)
     /\ SomeOf(a.attachments, b.attachments) /\ SomeOf(a.stickers, b.stickers)

NoRows(a) == ~a.ok \/ a.rows = <<>>

(* What an export that failed may leave: nothing that opens, a backup without a *)
(* database, or one of which no more than some data is missing.                 *)
MayBeLeft(a, b) ==
  \/ NoRows(a)
  \/ /\ PartOf(a, b)
     /\ a.sharedprefs = b.sharedprefs /\ a.keyvalues = b.keyvalues
     /\ Len(a.avatars) = Len(b.avatars)
     /\ Cardinality(a.attachments) = Cardinality(b.attachments)
     /\ Cardinality(a.stickers) = Cardinality(b.stickers)

(* exportBackupToDir: stopped at any step, or crashed by one, it leaves nothing *)
(* that can be opened, though every frame may be there; but for a stop within   *)
(* saveToFile, after which initFromDir opens the frames with a database that    *)
(* has no rows.                                                                 *)
NotOpenedHalfway ==
  stage \notin {"prepare", "clearing", "refused", "done"} =>
    \/ ~Offered.ok
    \/ stage = "filling" /\ Offered.rows = <<>>

(* exportBackupToDir, initFromDir: an export that said it is ok can be opened   *)
(* again and gives what was in memory, each frame with its own data, avatars    *)
(* and preferences in their order, whatever the disk did and was there before.  *)
UnpackedIsWhole ==
  stage = "done" /\ exportok /\ ~onlydb => Offered = Whole(backup)

(* What is supposed of a backup: that its preferences have no line breaks in     *)
(* them; and that no two attachments share an id, and a row tells of the data   *)
(* the attachment has.                                                          *)
WithoutBreaks(b) ==
  /\ \A i \in DOMAIN b.sharedprefs : OneLine(b.sharedprefs[i])
  /\ \A i \in DOMAIN b.keyvalues : OneLine(b.keyvalues[i])

RowsTell(b) ==
  \A i \in DOMAIN b.attachments :
    LET m == b.attachments[i]
    IN  /\ m.id \in DOMAIN b.rows => b.rows[m.id] = m.data
        /\ \A j \in DOMAIN b.attachments : b.attachments[j].id = m.id => j = i

(* initFromDir with --replaceattachments: whichever data an attachment gets, the *)
(* length its frame has and what its row in the database says are those of it.   *)
ReplacedAlike ==
  stage = "done" /\ exportok =>
    \A huge \in BOOLEAN :
      LET loaded == Load(dir, TRUE, huge)
      IN  \A a \in loaded.attachments :
            /\ a.length = a.data
            /\ a.id \in DOMAIN loaded.rows => loaded.rows[a.id] = a.data

Status ==
  CASE stage = "prepare" -> "before"
    [] stage = "refused" -> "refused"
    [] stage = "crashed" -> "broken"
    [] stage = "filling" -> "begun"
    [] stage = "done"    -> IF exportok /\ ~onlydb THEN "complete" ELSE "broken"
    [] OTHER             -> "replacing"

Offer == INSTANCE OfferedBackup WITH
  offered <- Offered, new <- Whole(backup), status <- Status, Part <- PartOf, Left <- MayBeLeft,
  Blank <- NoRows

(* exportBackupToDir: whenever it is stopped, the directory opens as the old    *)
(* backup, as parts of it, or not at all, until the last file is made, with a   *)
(* blank database while that is filled, and then as the new one; it never opens *)
(* as a mixture of the two.                                                     *)
ImplementsOffer == Offer!OfferedSpec
=============================================================================
