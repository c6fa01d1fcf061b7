---------------------------- MODULE UnpackedBackup ----------------------------
(* A backup as a directory: a file of text for every frame (.sbf), one with the *)
(* data of an attachment, avatar or sticker (.bin, or .new where the user wants *)
(* it replaced), and the database.  initFromDir is the operator Load: nothing   *)
(* else touches the directory while it reads, and what it would give for the    *)
(* directory of any moment is what a crash at that moment leaves.               *)
EXTENDS Integers, FiniteSets, SequencesExt

CONSTANT Base    \* how many digits a count is written with

ASSUME BaseAssumption == Base \in Nat \ {0, 1}

-----------------------------------------------------------------------------
(* Names of files, and what is in them *)

Name(kind, key, ext) == <<kind, key, ext>>

Single(kind) == Name(kind, <<>>, "sbf")
Database == Name("database", <<>>, "sqlite")

(* The input the backup is made from, where it lies in the output directory.    *)
Input == Name("input", <<>>, "backup")

(* Base ^ w, which the provers know nothing of. *)
Power[w \in Nat] == IF w = 0 THEN 1 ELSE Base * Power[w - 1]

numDigits(n) == CHOOSE w \in 1 .. n + 1 : n < Power[w] /\ (w = 1 \/ Power[w - 1] <= n)

(* n in w digits, with zeros in front. *)
Digits(n, w) == [i \in 1 .. w |-> (n \div Power[w - i]) % Base]

(* '_' sorts behind every digit. *)
Underscore == Base

(* Mutant: counts are written as long as they are.                              *)
AvatarKey_Unpadded(count, size, recipient) ==
  Digits(count, numDigits(count)) \o <<Underscore, recipient>>

AvatarKey(count, size, recipient) ==
  Digits(count, numDigits(size)) \o <<Underscore, recipient>>

AttachmentKey(rowid, uniqueid) == <<rowid, IF uniqueid = 0 THEN -1 ELSE uniqueid>>

Before(a, b) ==
  \E k \in 0 .. Len(b) - 1 :
    /\ k <= Len(a) /\ \A i \in 1 .. k : a[i] = b[i]
    /\ k = Len(a) \/ a[k + 1] < b[k + 1]

(* A frame is written as lines of text, a string in it as it is: what comes     *)
(* behind a line break in a string stands on a line of its own.  A value is the *)
(* sequence of its lines.                                                       *)
OneLine(value) == Len(value) = 1

(* setFrameFromLine: an empty line is passed over, one that is no field fails.  *)
Readable(text) == \A i \in 2 .. Len(text) : text[i] = ""

(* What is read back; a file that was left blank is a frame without fields.     *)
ReadBack(text) == IF text = <<>> THEN <<>> ELSE <<Head(text)>>

(* The frame of an attachment, avatar or sticker is one line here: its ids and  *)
(* the length of its data, for which the data itself stands.                    *)
MediaFrame(m) == [id |-> m.id, uniqueid |-> m.uniqueid, length |-> m.data]

Blank == [id |-> 0, uniqueid |-> 0, length |-> ""]

-----------------------------------------------------------------------------
(* initFromDir *)

Reads(dir, name) == name \in DOMAIN dir /\ Readable(dir[name])

(* Shared preferences and key values are read from 1 up to the first that is    *)
(* not there, or is not understood.                                             *)
Numbered(dir, kind) ==
  LET name(n) == Name(kind, <<n>>, "sbf")
      last == CHOOSE n \in 0 .. Cardinality(DOMAIN dir) :
                (\A i \in 1 .. n : Reads(dir, name(i))) /\ ~Reads(dir, name(n + 1))
  IN  [i \in 1 .. last |-> ReadBack(dir[name(i)])]

Frames(dir, kind) == {n \in DOMAIN dir : n[1] = kind /\ n[3] = "sbf"}

FrameIn(dir, name) == IF dir[name] = <<>> THEN Blank ELSE dir[name][1]

(* RawFileAttachmentReader: the file is read when its data is asked for, and    *)
(* taken as it is.                                                              *)
DataOf(dir, name) ==
  LET bin == Name(name[1], name[2], "bin")
  IN  IF bin \in DOMAIN dir THEN dir[bin] ELSE "missing"

WithData(frame, data) ==
  [id |-> frame.id, uniqueid |-> frame.uniqueid, length |-> frame.length, data |-> data]

Media(dir, name) == WithData(FrameIn(dir, name), DataOf(dir, name))

Sorted(names) ==
  CHOOSE s \in [1 .. Cardinality(names) -> names] :
    \A i, j \in 1 .. Cardinality(names) : i < j => Before(s[i][2], s[j][2])

(* Avatars keep their order: their names are sorted before they are read.       *)
Avatars(dir) ==
  LET sorted == Sorted(Frames(dir, "Avatar"))
  IN  [i \in DOMAIN sorted |-> Media(dir, sorted[i])]

(* A .new file: its data, and what getAttachmentMetaData makes of it.           *)
New(name) == Name(name[1], name[2], "new")

ReplacedBy(dir, name, replace) == replace /\ New(name) \in DOMAIN dir

Refused(dir, name, huge) ==
  /\ dir[New(name)].metadata # "unknown"
  /\ \/ dir[New(name)].metadata = "huge" /\ ~huge
     \/ FrameIn(dir, name).id \notin DOMAIN dir[Database]

(* Mutant: the reader stays with the new file.                                  *)
Attachment_NotUndone(dir, name, replace) ==
  CASE ~ReplacedBy(dir, name, replace) -> Media(dir, name)
    [] dir[New(name)].metadata = "unknown" -> WithData(FrameIn(dir, name), dir[New(name)].data)
    [] OTHER -> WithData([FrameIn(dir, name) EXCEPT !.length = dir[New(name)].data],
                         dir[New(name)].data)

(* A replacement whose metadata cannot be had is undone.                        *)
Attachment(dir, name, replace) ==
  IF ReplacedBy(dir, name, replace) /\ dir[New(name)].metadata # "unknown"
  THEN WithData([FrameIn(dir, name) EXCEPT !.length = dir[New(name)].data], dir[New(name)].data)
  ELSE Media(dir, name)

(* d_attachments and d_stickers are maps: of two frames with one key the first  *)
(* is kept, in the order the directory happens to have.                         *)
OneOfEach(frames) ==
  {CHOOSE f \in frames : f.id = k.id /\ f.uniqueid = k.uniqueid : k \in frames}

(* updatePartTableForReplace: what a row says of its data follows the data.     *)
RowsAfter(dir, replace) ==
  LET new == {n \in Frames(dir, "Attachment") :
                ReplacedBy(dir, n, replace) /\ dir[New(n)].metadata # "unknown"}
  IN  [r \in DOMAIN dir[Database] |->
         IF \E n \in new : FrameIn(dir, n).id = r
         THEN dir[New(CHOOSE n \in new : FrameIn(dir, n).id = r)].data
         ELSE dir[Database][r]]

Nothing == [ok |-> FALSE, rows |-> <<>>, sharedprefs |-> <<>>, keyvalues |-> <<>>,
            avatars |-> <<>>, attachments |-> {}, stickers |-> {}]

(* The database, header and version have to be there; an end frame is added     *)
(* where there is none.                                                         *)
Load(dir, replace, huge) ==
  LET attachments == Frames(dir, "Attachment")
  IN  IF /\ {Database, Single("Header"), Single("DatabaseVersion")} \subseteq DOMAIN dir
         /\ \A n \in attachments : ReplacedBy(dir, n, replace) => ~Refused(dir, n, huge)
      THEN [ok          |-> TRUE,
            rows        |-> RowsAfter(dir, replace),
            sharedprefs |-> Numbered(dir, "SharedPreference"),
            keyvalues   |-> Numbered(dir, "KeyValue"),
            avatars     |-> Avatars(dir),
            attachments |-> OneOfEach({Attachment(dir, n, replace) : n \in attachments}),
            stickers    |-> OneOfEach({Media(dir, n) : n \in Frames(dir, "Sticker")})]
      ELSE Nothing
=============================================================================
