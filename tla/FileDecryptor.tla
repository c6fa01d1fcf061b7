----------------------------- MODULE FileDecryptor -----------------------------
(* FileDecryptor: one call of getFrame() per action, for both layouts of the    *)
(* file.  In a version 1 file a frame's length is encrypted, so nothing after a *)
(* block that does not verify can be found again; in a version 0 file it is     *)
(* plain, and after damage the decryptor searches for the next frame that       *)
(* verifies and then for the counter value that decrypts it.                    *)
EXTENDS BackupFile

CONSTANTS Ids,         \* what tells two frames of one type apart
          Commands,    \* the command lines the program may be run with
          NameAvatars  \* ids of the avatars keyed by NAME, as old backups do

(* What a command line says, and what is true of the files it names.            *)
CommandLines ==
  [keyok               : BOOLEAN,  \* the passphrase is the one the file was written with
   d_backupfileversion : {0, 1},   \* 0: plain lengths, 1: encrypted lengths
   d_stoponerror       : BOOLEAN,  \* --stoponerror
   d_fulldecode        : BOOLEAN,  \* --fulldecode: read every attachment while loading
   keepattachmentdatainmemory : BOOLEAN,
   dumpmedia           : BOOLEAN,
   exporthtml          : BOOLEAN,
   FlushMayFail        : BOOLEAN]  \* the disk may fill up while the last buffer is flushed

ASSUME DecryptorAssumption ==
  /\ Commands \subseteq CommandLines
  /\ NameAvatars \subseteq Ids /\ Ids # {}

VARIABLES
  file,           \* the blocks on disk
  command,        \* one of Commands
  pos,            \* the block the stream stands at, or stands in
  aligned,        \* the stream stands at the first byte of that block
  d_counter,
  d_framecount,
  d_badmac,
  d_headerframe,  \* read by the constructor, not yet returned
  frame           \* what the last call returned: <<>> is nullptr

keyok == command.keyok
d_backupfileversion == command.d_backupfileversion
d_stoponerror == command.d_stoponerror

decryptorVars == <<pos, aligned, d_counter, d_framecount, d_badmac, d_headerframe, frame>>

(* A returned frame, its number and the block it was read at.  Its reader has   *)
(* the block of the data and the iv to read it with; block 0 is no reader.      *)
Returned(f, n, k) == <<[frame |-> f, number |-> n, at |-> k, data |-> 0, iv |-> 0]>>

(* Mutant: the counter goes into the iv unreduced.                              *)
ReturnedWithReader_WideIv(f, n, k, counter) ==
  <<[frame |-> f, number |-> n, at |-> k, data |-> k + 1, iv |-> counter]>>

ReturnedWithReader(f, n, k, counter) ==
  <<[frame |-> f, number |-> n, at |-> k, data |-> k + 1, iv |-> uintToFourBytes(counter)]>>

InvalidFrame == [type |-> "INVALID", id |-> CHOOSE i \in Ids : TRUE, size |-> "none"]

(* initBackupFrame: nullptr for a field number no frame class is registered for *)
Instantiates(f) == f.type # "UNKNOWN"

(* BackupFrame::validate, asked only of a frame found by brute force.           *)
Validates(f, k) ==
  /\ f.type = "AVATAR" => f.id \notin NameAvatars
  /\ CarriesData(f) => k < Len(file) /\ file[k + 1].damage # "cut"

-----------------------------------------------------------------------------
(* The constructor: the header is read and its counter taken.                   *)
OpenFile(first) ==
  /\ pos = 1 /\ aligned = TRUE
  /\ d_counter = first
  /\ d_framecount = 1
  /\ d_badmac = FALSE
  /\ d_headerframe = TRUE
  /\ frame = <<>>

Eof == pos > Len(file)

(* The four bytes at the stream are the length of the block they belong to.     *)
LengthIsRight == aligned /\ file[pos].kind = "frame" /\ file[pos].damage # "length"

CutShort == file[pos].damage \in {"cut", "cutmac"}

(* The file may end before four bytes are read.                                 *)
MayEndHere == CutShort \/ (~aligned /\ pos = Len(file))

(* In a version 1 file the length is right only if it decrypts to itself.       *)
Decrypts == keyok /\ file[pos].iv = uintToFourBytes(d_counter)

(* Mutant: the value that encrypts the data is not counted.                     *)
GiveFrame_DataNotCounted(f, n, k, counter) ==
  /\ frame' = IF CarriesData(f) THEN ReturnedWithReader(f, n, k, counter + 1) ELSE Returned(f, n, k)
  /\ d_counter' = counter + 1
  /\ pos' = IF CarriesData(f) THEN k + 2 ELSE k + 1
  /\ aligned' = (CarriesData(f) => f.size = "fits")

(* Mutant: the data is read with the iv of its frame.                           *)
GiveFrame_FrameIv(f, n, k, counter) ==
  /\ frame' = IF CarriesData(f) THEN ReturnedWithReader(f, n, k, counter) ELSE Returned(f, n, k)
  /\ d_counter' = IF CarriesData(f) THEN counter + 2 ELSE counter + 1
  /\ pos' = IF CarriesData(f) THEN k + 2 ELSE k + 1
  /\ aligned' = (CarriesData(f) => f.size = "fits")

(* The frame of block k is returned, decrypted with counter: it is given its    *)
(* reader, and the stream steps over its data.                                  *)
GiveFrame(f, n, k, counter) ==
  IF CarriesData(f)
  THEN /\ frame' = ReturnedWithReader(f, n, k, counter + 1)
       /\ d_counter' = counter + 2
       /\ IF f.size = "fits"
          THEN pos' = k + 2 /\ aligned' = TRUE
          ELSE pos' \in {k + 1, k + 2} /\ aligned' = FALSE
  ELSE /\ frame' = Returned(f, n, k)
       /\ d_counter' = counter + 1
       /\ pos' = k + 1 /\ aligned' = TRUE

(* The end of getFrame.  The size of the data is compared with the end of the   *)
(* file, the MAC behind the data is not.                                        *)
TakeData(f, n) ==
  \/ /\ CarriesData(f) => /\ pos < Len(file)
                          /\ f.size = "fits" => file[pos + 1].damage # "cut"
     /\ GiveFrame(f, n, pos, d_counter)
  \/ /\ CarriesData(f)
     /\ pos < Len(file) /\ f.size = "fits" => file[pos + 1].damage = "cut"
     /\ frame' = <<>>
     /\ pos' = pos + 1 /\ aligned' = TRUE
     /\ d_counter' = d_counter + 1

(* getFrame and getFrameOld begin alike.                                        *)
GetEof ==
  /\ Eof
  /\ frame' = <<>>
  /\ UNCHANGED <<pos, aligned, d_counter, d_framecount, d_badmac, d_headerframe>>

GetHeader ==
  /\ ~Eof /\ d_headerframe
  /\ frame' = Returned(file[1].frame, 0, 1)
  /\ d_headerframe' = FALSE
  /\ pos' = 2 /\ aligned' = TRUE
  /\ UNCHANGED <<d_counter, d_framecount, d_badmac>>

-----------------------------------------------------------------------------
(* Version 1.                                                                   *)
GetFrame ==
  /\ ~Eof /\ ~d_headerframe
  /\ LengthIsRight /\ Decrypts /\ file[pos].damage = "none"
  /\ d_framecount' = d_framecount + 1
  /\ LET f == IF Instantiates(file[pos].frame) THEN file[pos].frame ELSE InvalidFrame
     IN  TakeData(f, d_framecount)
  /\ UNCHANGED <<d_badmac, d_headerframe>>

(* Mutant: a frame that does not verify is passed over.                         *)
GetFrameBadMac_PassedOver ==
  /\ ~Eof /\ ~d_headerframe
  /\ LengthIsRight /\ Decrypts /\ file[pos].damage = "body"
  /\ d_counter' = d_counter + 1
  /\ d_badmac' = TRUE
  /\ frame' = Returned(InvalidFrame, d_framecount, pos)
  /\ pos' = pos + 1
  /\ UNCHANGED <<aligned, d_framecount, d_headerframe>>

(* The length decrypts and the MAC does not verify: nullptr, and badMac().      *)
GetFrameBadMac ==
  /\ ~Eof /\ ~d_headerframe
  /\ LengthIsRight /\ Decrypts /\ file[pos].damage = "body"
  /\ d_counter' = d_counter + 1
  /\ d_badmac' = TRUE
  /\ frame' = <<>>
  /\ UNCHANGED <<pos, aligned, d_framecount, d_headerframe>>

(* Any other length is noise: out of range, or past the end of the file, or it  *)
(* frames bytes whose MAC does not verify.  A file that ends inside the four    *)
(* bytes leaves the counter alone.                                              *)
GetFrameNoise ==
  /\ ~Eof /\ ~d_headerframe
  /\ ~(LengthIsRight /\ Decrypts /\ file[pos].damage \in {"none", "body"})
  /\ \/ d_counter' = d_counter + 1 /\ d_badmac' \in {d_badmac, TRUE}
     \/ MayEndHere /\ UNCHANGED <<d_counter, d_badmac>>
  /\ frame' = <<>>
  /\ UNCHANGED <<pos, aligned, d_framecount, d_headerframe>>

getFrame1 == GetFrame \/ GetFrameBadMac \/ GetFrameNoise

-----------------------------------------------------------------------------
(* Version 0: bruteForceFrom, getFrameBrute.                                    *)

(* Trying one byte further at a time, the search meets the frames after the     *)
(* stream in order; the data of an attachment does not verify as a frame.       *)
VerifiesAt(k) == keyok /\ file[k].kind = "frame" /\ file[k].damage = "none"

(* The counter value that decrypts block k is s values on.                      *)
SkipsTo(k, counter, s) == file[k].iv = uintToFourBytes(counter + s)

(* A value is tried for every ten bytes from the stream to block k: at least    *)
(* one for every block that lies whole between them.                            *)
Tried(k) == IF aligned THEN k - pos ELSE k - pos - 1

Acceptable(k) ==
  LET f == file[k].frame
  IN  /\ Instantiates(f) /\ Validates(f, k)
      /\ f.type # "HEADER"
      /\ f.type = "END" => k = Len(file)

IsFound(k, counter) ==
  VerifiesAt(k) /\ Acceptable(k) /\ \E t \in 0 .. Tried(k) : SkipsTo(k, counter, t)

(* The frame the search returns, with the values it needed.  Long blocks allow  *)
(* more of them than Tried; more than the file has blocks, or a whole turn of   *)
(* the counter, would take a file of 40 GB.                                     *)
Found(counter, k, s) ==
  /\ k \in pos + 1 .. Len(file) /\ VerifiesAt(k) /\ Acceptable(k)
  /\ s \in 0 .. Len(file) /\ SkipsTo(k, counter, s)
  /\ \A j \in pos + 1 .. k - 1 : ~IsFound(j, counter)
  /\ \A t \in 0 .. s - 1 : ~SkipsTo(k, counter, t)

(* Mutant: the frames skipped are not counted.                                  *)
Finds_SkippedNotCounted(counter, count) ==
  \E k \in pos + 1 .. Len(file), s \in 0 .. Len(file) :
     /\ Found(counter, k, s)
     /\ d_badmac' = FALSE
     /\ d_framecount' = count
     /\ GiveFrame(file[k].frame, count + s, k, counter + s)

(* Mutant: the counter that decrypted the frame is not kept.                    *)
Finds_CounterNotKept(counter, count) ==
  \E k \in pos + 1 .. Len(file), s \in 0 .. Len(file) :
     /\ Found(counter, k, s)
     /\ d_badmac' = FALSE
     /\ d_framecount' = count + s + 1
     /\ GiveFrame(file[k].frame, count + s, k, counter)

Finds(counter, count) ==
  \E k \in pos + 1 .. Len(file), s \in 0 .. Len(file) :
     /\ Found(counter, k, s)
     /\ d_badmac' = FALSE
     /\ d_framecount' = count + s + 1
     /\ GiveFrame(file[k].frame, count + s, k, counter + s)

(* A frame with a good MAC that is not accepted clears d_badmac all the same.   *)
FindsNothing(counter, count, badmac) ==
  /\ \A k \in pos + 1 .. Len(file) : ~IsFound(k, counter)
  /\ d_badmac' = (badmac /\ ~\E k \in pos + 1 .. Len(file) : VerifiesAt(k))
  /\ frame' = <<>>
  /\ pos' = Len(file) + 1 /\ aligned' = TRUE
  /\ d_counter' = counter /\ d_framecount' = count

(* bruteForceFrom with the counter and frame count the caller leaves.           *)
BruteForce(counter, count, badmac) ==
  Finds(counter, count) \/ FindsNothing(counter, count, badmac)

Verifies == LengthIsRight /\ keyok /\ file[pos].damage = "none"

GetFrameOld ==
  /\ ~Eof /\ ~d_headerframe /\ Verifies
  /\ d_badmac' = FALSE
  /\ d_framecount' = d_framecount + 1
  /\ LET f == IF Decrypts /\ Instantiates(file[pos].frame)
              THEN file[pos].frame ELSE InvalidFrame
     IN  TakeData(f, d_framecount)
  /\ UNCHANGED d_headerframe

(* A length out of range, or a block that ends after the file does.             *)
GetFrameOldNoise ==
  /\ ~Eof /\ ~d_headerframe
  /\ ~LengthIsRight \/ CutShort
  /\ \/ /\ d_stoponerror \/ MayEndHere
        /\ frame' = <<>>
        /\ UNCHANGED <<pos, aligned, d_counter, d_framecount, d_badmac>>
     \/ /\ ~d_stoponerror
        /\ BruteForce(d_counter, d_framecount, d_badmac)
  /\ UNCHANGED d_headerframe

(* Mutant: --stoponerror is not asked for.                                      *)
GetFrameOldBadMac_NeverStops ==
  /\ ~Eof /\ ~d_headerframe
  /\ ~Verifies /\ ~(LengthIsRight /\ CutShort)
  /\ BruteForce(d_counter + 1, d_framecount + 1, TRUE)
  /\ UNCHANGED d_headerframe

(* Behind a frame that is returned in spite of its MAC.  Bytes that follow it   *)
(* are not looked at, so a length that was damaged is taken if it became        *)
(* larger, and the stream is left wherever it ends: inside a later block, or    *)
(* where one ends.                                                              *)
Overshoots ==
  IF file[pos].damage = "length"
  THEN /\ pos < Len(file)
       /\ \/ pos' \in pos + 1 .. Len(file) /\ aligned' = FALSE
          \/ pos' \in pos + 2 .. Len(file) + 1 /\ aligned' = TRUE
  ELSE pos' = pos + 1 /\ aligned' = TRUE

(* The MAC does not verify.  Without --stoponerror the bytes are decoded all    *)
(* the same: what was damaged may be the MAC or a byte the frame does not       *)
(* depend on, and then the frame is returned, with badMac() and without reader. *)
GetFrameOldBadMac ==
  /\ ~Eof /\ ~d_headerframe
  /\ ~Verifies /\ ~(LengthIsRight /\ CutShort)
  /\ IF d_stoponerror
     THEN /\ frame' = <<>> /\ d_badmac' = TRUE
          /\ UNCHANGED <<pos, aligned, d_counter, d_framecount>>
     ELSE \/ /\ aligned /\ file[pos].kind = "frame" /\ Decrypts
             /\ Instantiates(file[pos].frame)
             /\ frame' = Returned(file[pos].frame, d_framecount, pos)
             /\ d_badmac' = TRUE
             /\ Overshoots
             /\ d_counter' = d_counter + 1
             /\ d_framecount' = d_framecount + 1
          \/ BruteForce(d_counter + 1, d_framecount + 1, TRUE)
  /\ UNCHANGED d_headerframe

getFrameOld == GetFrameOld \/ GetFrameOldNoise \/ GetFrameOldBadMac

getFrame ==
  \/ GetEof
  \/ GetHeader
  \/ d_backupfileversion = 1 /\ getFrame1
  \/ d_backupfileversion = 0 /\ getFrameOld
=============================================================================
