------------------------------ MODULE ExportToFile ------------------------------
(* SignalBackup::exportBackupToFile and writeEncryptedFrame: the backup in      *)
(* memory is written in one pass, a call of writeEncryptedFrame per action.     *)
EXTENDS InitFromFile, FileEncryptor

CONSTANTS PartRows,     \* statements that fill a row of the attachment table
          StickerRows   \* statements that fill a row of the sticker table

ASSUME ExportAssumption ==
  /\ PartRows \subseteq Ids /\ StickerRows \subseteq Ids
  /\ PartRows \cap StickerRows = {}

VARIABLES stage,   \* what is written next; "idle" before, "written" or "failed" after
          next,    \* the index within the list that is being written
          skipped  \* history: where frames were left out, as their data is corrupted

keepattachmentdatainmemory == command.keepattachmentdatainmemory
FlushMayFail == command.FlushMayFail

exportVars == <<encryptorVars, stage, next, skipped>>

Stages == {"idle", "version", "rows", "attachment", "sticker", "sharedprefs",
           "keyvalues", "avatars", "end", "written", "failed", "crashed"}

Plain(type, id) == [type |-> type, id |-> id, size |-> "none"]

AnyId == CHOOSE i \in Ids : TRUE

(* The content of the SignalBackup, but for what its attachments hold.          *)
restVars == <<file, command, decryptorVars, pc, d_ok, transaction, d_database,
              d_sharedpreferenceframes, d_keyvalueframes, d_databaseversion,
              d_header, d_endframe, d_badattachments, delivered>>

keptVars == <<d_attachments, d_stickers, d_avatars>>

Goto(s, n) == stage' = s /\ next' = n

(* Mutant: the next list starts at index 0.                                     *)
AfterList_FromZero(s, list, t) ==
  IF next < Len(list) THEN Goto(s, next + 1) ELSE Goto(t, 0)

(* A list was written to its end: the next one starts at its first element.     *)
AfterList(s, list, t) ==
  IF next < Len(list) THEN Goto(s, next + 1) ELSE Goto(t, 1)

StartExport ==
  /\ stage = "idle" /\ pc = "done" /\ d_ok /\ d_header
  /\ OpenEncryptor(file[1].frame, FirstCounter)
  /\ skipped' = {}
  /\ Goto("version", 1)
  /\ UNCHANGED <<restVars, keptVars>>

(* No passphrase, a file that may not be overwritten, a header that is missing. *)
RefuseExport ==
  /\ stage = "idle" /\ pc = "done"
  /\ Goto("failed", 1)
  /\ UNCHANGED <<restVars, keptVars, encryptorVars, skipped>>

(* Mutant: it is not asked whether a version frame was read.                    *)
WriteVersion_Unasked ==
  /\ stage = "version"
  /\ EncryptFrame(Plain("DATABASEVERSION", AnyId))
  /\ IF d_database = <<>> THEN Goto("sharedprefs", 1) ELSE Goto("rows", 1)
  /\ UNCHANGED <<restVars, keptVars, skipped>>

WriteVersion ==
  /\ stage = "version"
  /\ IF d_databaseversion
     THEN /\ EncryptFrame(Plain("DATABASEVERSION", AnyId))
          /\ IF d_database = <<>> THEN Goto("sharedprefs", 1) ELSE Goto("rows", 1)
     ELSE /\ Goto("failed", 1) /\ UNCHANGED encryptorVars
  /\ UNCHANGED <<restVars, keptVars, skipped>>

(* The statements that rebuild the database.  Behind a row of the attachment or *)
(* sticker table comes the frame with its data, where there is one.             *)
RowId == d_database[next]

NextRow == AfterList("rows", d_database, "sharedprefs")

(* Mutant: the sticker table is written like any other.                         *)
WriteRow_NoStickers ==
  /\ stage = "rows"
  /\ EncryptFrame(Plain("SQLSTATEMENT", RowId))
  /\ IF RowId \in PartRows /\ RowId \in DOMAIN d_attachments
     THEN Goto("attachment", next) ELSE NextRow
  /\ UNCHANGED <<restVars, keptVars, skipped>>

WriteRow ==
  /\ stage = "rows"
  /\ EncryptFrame(Plain("SQLSTATEMENT", RowId))
  /\ CASE RowId \in PartRows /\ RowId \in DOMAIN d_attachments -> Goto("attachment", next)
       [] RowId \in StickerRows /\ RowId \in DOMAIN d_stickers -> Goto("sticker", next)
       [] OTHER -> NextRow
  /\ UNCHANGED <<restVars, keptVars, skipped>>

(* writeEncryptedFrame for a frame that may have data: what it writes.          *)
WritesPlain(k) ==
  /\ k.frame.size = "none"
  /\ EncryptFrame(k.frame)
  /\ UNCHANGED skipped

WritesData(k, reading) ==
  /\ k.frame.size # "none" /\ reading.data # "none"
  /\ EncryptWithAttachment(k.frame, reading.data)
  /\ UNCHANGED skipped

Skips(k, reading) ==
  /\ k.frame.size # "none" /\ reading.data = "none" /\ reading.badmac
  /\ skipped' = skipped \cup {<<stage, next>>}
  /\ UNCHANGED encryptorVars

Writes(k, reading) == WritesPlain(k) \/ WritesData(k, reading) \/ Skips(k, reading)

FailsToRead(k, reading) ==
  /\ k.frame.size # "none" /\ reading.data = "none" /\ ~reading.badmac
  /\ UNCHANGED <<encryptorVars, skipped>>

(* The cache it leaves; the data is not asked for where there is none.          *)
CacheAfter(k, reading) == IF k.frame.size = "none" THEN k.att ELSE reading.att

(* A row's frame is written and what it cached is dropped, through its reader.  *)
WriteKept(k, att) ==
  \E result \in Results(k) :
    LET reading == attachmentData(k.att, result)
        cache   == CacheAfter(k, reading)
    IN  \/ /\ Writes(k, reading)
           /\ \/ /\ keepattachmentdatainmemory
                 /\ att = cache /\ NextRow
              \/ /\ ~keepattachmentdatainmemory /\ ClearIsDefined(cache)
                 /\ att = clearData(cache) /\ NextRow
              \/ /\ ~keepattachmentdatainmemory /\ ~ClearIsDefined(cache)
                 /\ att = cache /\ Goto("crashed", 1)
        \/ /\ FailsToRead(k, reading)
           /\ att = cache /\ Goto("failed", 1)

WriteAttachment ==
  /\ stage = "attachment"
  /\ \E att \in Attachments :
       /\ WriteKept(d_attachments[RowId], att)
       /\ d_attachments' = [d_attachments EXCEPT ![RowId].att = att]
  /\ UNCHANGED <<restVars, d_stickers, d_avatars>>

WriteSticker ==
  /\ stage = "sticker"
  /\ \E att \in Attachments :
       /\ WriteKept(d_stickers[RowId], att)
       /\ d_stickers' = [d_stickers EXCEPT ![RowId].att = att]
  /\ UNCHANGED <<restVars, d_attachments, d_avatars>>

WriteSharedPref ==
  /\ stage = "sharedprefs"
  /\ IF next <= Len(d_sharedpreferenceframes)
     THEN /\ EncryptFrame(Plain("SHAREDPREFERENCE", d_sharedpreferenceframes[next]))
          /\ Goto(stage, next + 1)
     ELSE UNCHANGED encryptorVars /\ Goto("keyvalues", 1)
  /\ UNCHANGED <<restVars, keptVars, skipped>>

WriteKeyValue ==
  /\ stage = "keyvalues"
  /\ IF next <= Len(d_keyvalueframes)
     THEN /\ EncryptFrame(Plain("KEYVALUE", d_keyvalueframes[next]))
          /\ Goto(stage, next + 1)
     ELSE UNCHANGED encryptorVars /\ Goto("avatars", 1)
  /\ UNCHANGED <<restVars, keptVars, skipped>>

(* Mutant: the result of writeEncryptedFrame is not looked at.                  *)
WriteAvatar_Unchecked ==
  /\ stage = "avatars" /\ next <= Len(d_avatars)
  /\ \E result \in Results(d_avatars[next]) :
       LET k == d_avatars[next]
           reading == attachmentData(k.att, result)
       IN  /\ Writes(k, reading) \/ FailsToRead(k, reading)
           /\ Goto(stage, next + 1)
           /\ d_avatars' = [d_avatars EXCEPT ![next].att = CacheAfter(k, reading)]
  /\ UNCHANGED <<restVars, d_attachments, d_stickers>>

(* An avatar's data stays cached after it was written.                          *)
WriteAvatar ==
  /\ stage = "avatars" /\ next <= Len(d_avatars)
  /\ \E result \in Results(d_avatars[next]) :
       LET k == d_avatars[next]
           reading == attachmentData(k.att, result)
       IN  /\ \/ Writes(k, reading) /\ Goto(stage, next + 1)
              \/ FailsToRead(k, reading) /\ Goto("failed", 1)
           /\ d_avatars' = [d_avatars EXCEPT ![next].att = CacheAfter(k, reading)]
  /\ UNCHANGED <<restVars, d_attachments, d_stickers>>

AvatarsWritten ==
  /\ stage = "avatars" /\ next > Len(d_avatars)
  /\ Goto("end", 1)
  /\ UNCHANGED <<restVars, keptVars, encryptorVars, skipped>>

WriteEnd ==
  /\ stage = "end"
  /\ EncryptFrame(Plain("END", AnyId))
  /\ Goto("written", 1)
  /\ UNCHANGED <<restVars, keptVars, skipped>>

(* Whether the last flush succeeds is not asked.                                *)
FlushFails ==
  /\ FlushMayFail
  /\ stage = "end"
  /\ WriteFails
  /\ Goto("written", 1)
  /\ UNCHANGED <<restVars, keptVars, skipped>>

Writing == stage \notin {"idle", "written", "failed", "crashed"}

(* The disk is full.  Nothing is rolled back: the file stays under its name.    *)
DiskFull ==
  /\ Writing
  /\ WriteFails
  /\ Goto("failed", 1)
  /\ UNCHANGED <<restVars, keptVars, skipped>>

ExportStep ==
  \/ StartExport \/ RefuseExport \/ WriteVersion \/ WriteRow \/ WriteAttachment \/ WriteSticker
  \/ WriteSharedPref \/ WriteKeyValue \/ WriteAvatar \/ AvatarsWritten \/ WriteEnd
  \/ FlushFails \/ DiskFull
=============================================================================
