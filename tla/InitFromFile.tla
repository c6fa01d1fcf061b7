------------------------------ MODULE InitFromFile ------------------------------
(* SignalBackup::initFromFile: the loop that takes the decryptor's frames one   *)
(* by one and builds the backup in memory from them.                            *)
EXTENDS FileDecryptor, FrameWithAttachment

CONSTANTS FirstCounter,   \* the counter in the header's iv
          Files           \* the files that may be opened

ASSUME LoadAssumption ==
  /\ FirstCounter \in Nat
  /\ \A b \in Files : /\ b \in Seq(Blocks(Ids)) /\ Len(b) > 0
                      /\ WellFormed(b, FirstCounter)

(* Nothing lies behind the block a file is cut in.                              *)
EndsAtCut(b) == \A k \in 1 .. Len(b) - 1 : b[k].damage \notin {"cut", "cutmac"}

ASSUME CutAssumption == \A b \in Files : EndsAtCut(b)

VARIABLES
  pc,                 \* "get": about to call getFrame; "handle": it returned
  d_ok,
  transaction,        \* BEGIN TRANSACTION ran, COMMIT did not
  d_database,         \* ids of the statements executed, in order
  d_attachments,      \* id -> a kept frame
  d_stickers,
  d_avatars,          \* in the order they were read
  d_sharedpreferenceframes,
  d_keyvalueframes,
  d_databaseversion,  \* d_databaseversionframe is set
  d_header,           \* d_headerframe of the SignalBackup is set
  d_endframe,         \* "none", "read" or "added"
  d_badattachments,
  delivered           \* history: the frames handled, with the blocks of their data

contentVars == <<d_database, d_attachments, d_stickers, d_avatars,
                 d_sharedpreferenceframes, d_keyvalueframes, d_databaseversion,
                 d_header, d_endframe, d_badattachments>>

loadVars == <<file, command, decryptorVars, pc, d_ok, transaction, contentVars, delivered>>

d_fulldecode == command.d_fulldecode

(* A frame of WithAttachment as it is kept: its cache and its place on disk.    *)
Kept(r) == [att   |-> IF r.data # 0 THEN Backed ELSE Unread,
            frame |-> r.frame, block |-> r.data, iv |-> r.iv]

(* std::map::emplace leaves an entry that is already there.                     *)
Emplace(map, id, value) ==
  IF id \in DOMAIN map THEN map
  ELSE [i \in DOMAIN map \cup {id} |-> IF i = id THEN value ELSE map[i]]

(* The results reading the data of a kept frame may have.                       *)
Results(k) ==
  IF ~k.att.reader \/ k.block > Len(file) THEN {"ERROR"}
  ELSE LET b == file[k.block]
       IN  CASE b.damage \in {"cut", "cutmac"} -> {"ERROR"}
             [] b.damage = "none" /\ b.iv = k.iv /\ k.frame.size = "fits" -> {"OK"}
             [] OTHER -> {"BADMAC", "ERROR"}

-----------------------------------------------------------------------------
(* A SignalBackup whose constructor has opened the file.                        *)
StartLoad ==
  /\ OpenFile(FirstCounter)
  /\ pc = "get" /\ d_ok = FALSE /\ transaction = TRUE
  /\ d_database = <<>> /\ d_avatars = <<>>
  /\ d_attachments = <<>> /\ d_stickers = <<>>
  /\ d_sharedpreferenceframes = <<>> /\ d_keyvalueframes = <<>>
  /\ d_databaseversion = FALSE /\ d_header = FALSE
  /\ d_endframe = "none"
  /\ d_badattachments = {}
  /\ delivered = <<>>

Init == file \in Files /\ command \in Commands /\ StartLoad

CallGetFrame ==
  /\ pc = "get"
  /\ getFrame
  /\ pc' = "handle"
  /\ UNCHANGED <<file, command, d_ok, transaction, contentVars, delivered>>

(* The loop's first test: a frame that was returned although its MAC is bad.    *)
StopsOnBadMac == d_badmac /\ d_stoponerror

(* --fulldecode asks for the data and throws it away again, through a reader    *)
(* that a frame returned in spite of its MAC does not have.                     *)
FullDecodeIsDefined(r) ==
  d_fulldecode /\ r.frame.type \in WithAttachment => ClearIsDefined(Kept(r).att)

(* A statement whose table or row is there already fails, with a warning.       *)
Executes(f) ==
  f.type = "SQLSTATEMENT" /\ \A i \in DOMAIN d_database : d_database[i] # f.id

(* The frame goes where its type says.                                          *)
Dispatch(r) ==
  LET f == r.frame IN
  /\ d_database' = IF Executes(f) THEN Append(d_database, f.id) ELSE d_database
  /\ d_attachments' = IF f.type = "ATTACHMENT"
                      THEN Emplace(d_attachments, f.id, Kept(r)) ELSE d_attachments
  /\ d_stickers' = IF f.type = "STICKER" THEN Emplace(d_stickers, f.id, Kept(r)) ELSE d_stickers
  /\ d_avatars' = IF f.type = "AVATAR" THEN Append(d_avatars, Kept(r)) ELSE d_avatars
  /\ d_sharedpreferenceframes' = IF f.type = "SHAREDPREFERENCE"
        THEN Append(d_sharedpreferenceframes, f.id) ELSE d_sharedpreferenceframes
  /\ d_keyvalueframes' = IF f.type = "KEYVALUE"
        THEN Append(d_keyvalueframes, f.id) ELSE d_keyvalueframes
  /\ d_header' = (d_header \/ f.type = "HEADER")
  /\ d_databaseversion' = (d_databaseversion \/ f.type = "DATABASEVERSION")
  /\ d_endframe' = IF f.type = "END" THEN "read" ELSE d_endframe

(* One pass of the loop: a frame returned although its MAC is bad is reported   *)
(* by dumpInfoOnBadFrame, and with --stoponerror ends the load there: no        *)
(* COMMIT, not ok.                                                              *)
HandleFrame ==
  /\ pc = "handle" /\ frame # <<>>
  /\ d_badattachments' = IF d_badmac /\ frame[1].frame.type = "ATTACHMENT"
                         THEN d_badattachments \cup {frame[1].frame.id} ELSE d_badattachments
  /\ IF StopsOnBadMac
     THEN /\ pc' = "done"
          /\ UNCHANGED <<d_database, d_attachments, d_stickers, d_avatars,
                         d_sharedpreferenceframes, d_keyvalueframes, d_databaseversion,
                         d_header, d_endframe, delivered>>
     ELSE /\ FullDecodeIsDefined(frame[1])
          /\ pc' = "get"
          /\ Dispatch(frame[1])
          /\ delivered' = Append(delivered, frame[1])
  /\ UNCHANGED <<file, command, decryptorVars, d_ok, transaction>>

HandleCrash ==
  /\ pc = "handle" /\ frame # <<>>
  /\ ~StopsOnBadMac /\ ~FullDecodeIsDefined(frame[1])
  /\ pc' = "crashed"
  /\ UNCHANGED <<file, command, decryptorVars, d_ok, transaction, contentVars, delivered>>

(* Mutant: the end of the file does not end the loop.                           *)
Finish_NotAtEof ==
  /\ pc = "handle" /\ frame = <<>>
  /\ pc' = IF Eof THEN "get" ELSE "done"
  /\ UNCHANGED <<file, command, decryptorVars, d_ok, transaction, contentVars, delivered>>

(* nullptr ended the loop.                                                      *)
Finish ==
  /\ pc = "handle" /\ frame = <<>>
  /\ transaction' = FALSE
  /\ IF StopsOnBadMac THEN UNCHANGED <<d_endframe, d_ok>>
     ELSE /\ d_endframe' = IF d_endframe = "none" THEN "added" ELSE d_endframe
          /\ d_ok' = TRUE
  /\ pc' = "done"
  /\ UNCHANGED <<file, command, decryptorVars, delivered, d_database, d_attachments, d_stickers,
                 d_avatars, d_sharedpreferenceframes, d_keyvalueframes,
                 d_databaseversion, d_header, d_badattachments>>

LoadNext == CallGetFrame \/ HandleFrame \/ HandleCrash \/ Finish

Spec == Init /\ [][LoadNext]_loadVars /\ WF_loadVars(LoadNext)
-----------------------------------------------------------------------------
(* Types *)

Returnable == [frame : Frames(Ids), number : Nat, at : Nat, data : Nat, iv : 0 .. IvSpace - 1]

FileTypeOK ==
  /\ file \in Seq(Blocks(Ids)) /\ Len(file) > 0
  /\ WellFormed(file, FirstCounter)

FrameTypeOK == frame \in Seq(Returnable) /\ Len(frame) <= 1

StreamTypeOK ==
  /\ pos \in Nat \ {0} /\ aligned \in BOOLEAN
  /\ d_counter \in Nat /\ d_framecount \in Nat
  /\ d_badmac \in BOOLEAN /\ d_headerframe \in BOOLEAN
  /\ FrameTypeOK

(* The type of every variable that steers the load; the file is never changed   *)
(* and what the decryptor returns is a frame it was asked for.                  *)
TypeOK ==
  /\ FileTypeOK /\ command \in CommandLines
  /\ StreamTypeOK
  /\ pc \in {"get", "handle", "done", "crashed"}
  /\ d_ok \in BOOLEAN /\ transaction \in BOOLEAN
  /\ delivered \in Seq(Returnable)

-----------------------------------------------------------------------------
(* Properties *)

(* The loads that never search.                                                 *)
NoSearch == d_backupfileversion = 1 \/ d_stoponerror

NoGap(r, s) == s.at = r.at + (IF CarriesData(r.frame) THEN 2 ELSE 1)

(* In a version 1 file, and in a version 0 file with --stoponerror, no frame is *)
(* skipped, repeated or moved: whatever was damaged, the frames handled are     *)
(* those of the file from the first on.                                         *)
Unbroken ==
  /\ \A i \in 1 .. Len(delivered) : delivered[i].at <= Len(file)
  /\ Len(delivered) > 0 => delivered[1].at = 1
  /\ \A i \in 1 .. Len(delivered) - 1 : NoGap(delivered[i], delivered[i + 1])

DeliversPrefix == NoSearch => Unbroken

(* A search after damage never goes back: frames are handled in the order they  *)
(* have in the file, each once, and their numbers rise.                         *)
DeliversInOrder ==
  \A i, j \in 1 .. Len(delivered) :
     i < j => /\ delivered[i].at < delivered[j].at
              /\ delivered[i].number < delivered[j].number

(* A frame's reader gets the block behind that frame, and the iv that block was *)
(* encrypted with, also after a search that had to find the counter again.      *)
ReadsOwnData ==
  \A i \in 1 .. Len(delivered) :
     LET r == delivered[i]
     IN  r.data # 0 /\ r.data <= Len(file) =>
           /\ file[r.data].kind = "data" /\ file[r.data].frame = r.frame
           /\ file[r.data].iv = r.iv

(* In a version 1 file an end frame is read only if every frame before it was   *)
(* handled as it was written.                                                   *)
EndMeansComplete ==
  d_backupfileversion = 1 /\ d_endframe = "read" =>
     \A k \in 1 .. Len(file) :
        file[k].kind = "frame" /\ Instantiates(file[k].frame) =>
           \E i \in 1 .. Len(delivered) : delivered[i].at = k /\ delivered[i].frame = file[k].frame

Delivered(k) == \E i \in 1 .. Len(delivered) : delivered[i].at = k

HasItsData(k) == CarriesData(file[k].frame) => k < Len(file) /\ file[k + 1].damage # "cut"

(* What comes before the first damage is never lost.                            *)
DeliversUntouched ==
  pc = "done" /\ keyok =>
     \A k \in 1 .. Len(file) :
        /\ file[k].kind = "frame" /\ HasItsData(k)
        /\ \A j \in 1 .. k : file[j].damage = "none" /\ file[j].frame.size # "misfit"
        => Delivered(k)

(* A frame the search knows again.                                              *)
StillWhole(k) ==
  /\ file[k].kind = "frame" /\ file[k].damage = "none" /\ HasItsData(k)
  /\ Instantiates(file[k].frame)
  /\ file[k].frame.type = "AVATAR" => file[k].frame.id \notin NameAvatars

RightSizes == \A k \in 1 .. Len(file) : file[k].frame.size # "misfit"

(* A frame before k was taken with a length that is not its own.                *)
Overshot(k) ==
  \E i \in 1 .. Len(delivered) :
     delivered[i].at \in 2 .. k - 1 /\ file[delivered[i].at].damage = "length"

(* Of a version 0 file whose sizes are right everything that is still whole is  *)
(* recovered as it was written, whatever was damaged before it, but for what is *)
(* behind a frame that was returned although its length was damaged; and        *)
(* avatars keyed by name, which validate refuses, are found only if nothing     *)
(* before them was damaged.                                                     *)
Recovers ==
  pc = "done" /\ keyok /\ ~NoSearch /\ RightSizes =>
     \A k \in 1 .. Len(file) :
        StillWhole(k) /\ ~Overshot(k) =>
           \E i \in 1 .. Len(delivered) : delivered[i].at = k /\ delivered[i].frame = file[k].frame

(* Loading comes to an end, whatever the file holds.                            *)
Terminates == <>(pc \in {"done", "crashed"})
=============================================================================
