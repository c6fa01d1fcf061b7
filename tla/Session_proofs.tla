----------------------------- MODULE Session_proofs -----------------------------
(* What a session writes, for files of any length and any damage to them: its   *)
(* output is always a file that can be opened, nothing is written with a wrong  *)
(* passphrase, no data that failed to verify is written as if it had not, and   *)
(* what the second run has read can be used.                                    *)
EXTENDS Session, Load_proofs

(* A frame of some type that was kept.                                          *)
KeptFrames(t) ==
  [att : Attachments, frame : {f \in Frames(Ids) : f.type = t}, block : Nat, iv : 0 .. IvSpace - 1]

KeptMap(map, t) == DOMAIN map \subseteq Ids /\ map \in [DOMAIN map -> KeptFrames(t)]

(* What the load has put together.                                              *)
ContentOK ==
  /\ KeptMap(d_attachments, "ATTACHMENT") /\ KeptMap(d_stickers, "STICKER")
  /\ d_avatars \in Seq(KeptFrames("AVATAR"))
  /\ d_database \in Seq(Ids)
  /\ d_sharedpreferenceframes \in Seq(Ids) /\ d_keyvalueframes \in Seq(Ids)

(* Another block can be appended to what was written.                           *)
Continues ==
  /\ out # <<>>
  /\ e_counter + 1 = FirstCounter + Len(out)
  /\ out[Len(out)].kind = "frame" => ~CarriesData(out[Len(out)].frame)
  /\ \A k \in 1 .. Len(out) : out[k].frame.type # "END"

OutputOK ==
  /\ out \in Seq(Blocks(Ids)) /\ e_counter \in Nat
  /\ laundered \subseteq 1 .. Len(out)
  /\ WellFormed(out, FirstCounter)
  /\ stage = "written" => out # <<>>
  /\ Writing => Continues

(* Where the session stands, and what has been done by then.                    *)
PlaceOK ==
  /\ stage \in Stages /\ next \in Nat \ {0}
  /\ skipped \subseteq Stages \X Nat
  /\ task \in {"open", "dumping", "htmling", "output"}
  /\ todo \subseteq DOMAIN d_attachments /\ run \in {1, 2}
  /\ task = "output" => todo = {}
  /\ stage \notin {"idle", "crashed"} => task = "output"
  /\ Writing => pc = "done"
  /\ run = 2 => stage \in {"written", "failed"}

(* The row that is being written is one of the database's, and has what is      *)
(* written behind it.                                                           *)
RowOK ==
  /\ stage \in {"rows", "attachment", "sticker"} => next \in 1 .. Len(d_database)
  /\ stage = "attachment" => RowId \in DOMAIN d_attachments
  /\ stage = "sticker" => RowId \in DOMAIN d_stickers

SessionInv == TypeOK /\ ContentOK /\ OutputOK /\ PlaceOK /\ RowOK

(* With the wrong passphrase no version is read, and none is written.           *)
NoVersion ==
  /\ ~d_databaseversion
  /\ stage \in {"idle", "version", "failed", "crashed"}
  /\ pc = "handle" /\ frame # <<>> => frame[1].frame.type # "DATABASEVERSION"

NoVersionWithoutKey == ~keyok => NoVersion

(* What is yet to be written does not hold data that failed to verify.          *)
Clean(k) == k.att.data # "corrupt" /\ ~k.att.noclear

RowsDistinct == \A i, j \in DOMAIN d_database : d_database[i] = d_database[j] => i = j

CleanRow(id) ==
  /\ id \in DOMAIN d_attachments => Clean(d_attachments[id])
  /\ id \in DOMAIN d_stickers => Clean(d_stickers[id])

CleanSoFar ==
  /\ laundered = {}
  /\ task = "htmling" => todo = {}
  /\ stage \in {"idle", "version"} => \A id \in Ids : CleanRow(id)
  /\ stage \in {"rows", "attachment", "sticker"} =>
       \A m \in next .. Len(d_database) : CleanRow(d_database[m])
  /\ stage \notin {"avatars", "end", "written", "failed", "crashed"} =>
       \A m \in DOMAIN d_avatars : Clean(d_avatars[m])
  /\ stage = "avatars" => \A m \in next .. Len(d_avatars) : Clean(d_avatars[m])

CleanWithoutHtml == RowsDistinct /\ (~exporthtml => CleanSoFar)

(* Every frame handed on is one of the file's, or stands for one, and is read   *)
(* without reader only if it was damaged.                                       *)
FromFile(r) ==
  r.frame = InvalidFrame \/
    /\ r.at \in 1 .. Len(file) /\ file[r.at].kind = "frame" /\ r.frame = file[r.at].frame
    /\ CarriesData(r.frame) => r.data = r.at + 1 \/ file[r.at].damage # "none"

Traced ==
  /\ \A i \in 1 .. Len(delivered) : FromFile(delivered[i])
  /\ pc = "handle" /\ frame # <<>> => FromFile(frame[1])
  /\ d_endframe = "read" => \E i \in 1 .. Len(delivered) : delivered[i].frame.type = "END"

(* What was written has its right sizes, and only its last block may be damaged. *)
Sound(blocks) ==
  /\ \A k \in 1 .. Len(blocks) : blocks[k].frame.size # "misfit"
  /\ \A k \in 1 .. Len(blocks) - 1 : blocks[k].damage = "none"

SoundOutput ==
  /\ Sound(out)
  /\ Writing => out[Len(out)].damage = "none"

KeptAsRead(k) == \E i \in 1 .. Len(delivered) : k = Kept(delivered[i])

SecondRun ==
  run = 2 =>
    /\ Sound(file)
    /\ \A i \in DOMAIN d_attachments : KeptAsRead(d_attachments[i])
    /\ \A i \in DOMAIN d_stickers : KeptAsRead(d_stickers[i])
    /\ \A i \in DOMAIN d_avatars : KeptAsRead(d_avatars[i])

Readable == Traced /\ SoundOutput /\ SecondRun
-----------------------------------------------------------------------------
(* Appending to the output *)

(* A block in its place behind a file that has not come to its end.             *)
LEMMA AppendBlock ==
  ASSUME NEW s \in Seq(Blocks(Ids)), s # <<>>, WellFormed(s, FirstCounter),
         \A k \in 1 .. Len(s) : s[k].frame.type # "END",
         NEW b \in Blocks(Ids), b.frame.type # "HEADER",
         b.iv = uintToFourBytes(FirstCounter + (Len(s) - 1)),
         b.kind = "data" <=> s[Len(s)].kind = "frame" /\ CarriesData(s[Len(s)].frame),
         b.kind = "data" => b.frame = s[Len(s)].frame
  PROVE  /\ WellFormed(Append(s, b), FirstCounter)
         /\ Append(s, b) \in Seq(Blocks(Ids)) /\ Append(s, b) # <<>>
         /\ Len(Append(s, b)) = Len(s) + 1 /\ Append(s, b)[Len(s) + 1] = b
         /\ \A k \in 1 .. Len(s) : Append(s, b)[k] = s[k]
<1> DEFINE t == Append(s, b)
           n == Len(s)
<1>1. n \in Nat \ {0} /\ t \in Seq(Blocks(Ids)) /\ Len(t) = n + 1 /\ t # <<>>
  OBVIOUS
<1>2. t[n + 1] = b /\ \A k \in 1 .. n : t[k] = s[k]
  OBVIOUS
<1> HIDE DEF t
<1>3. t[1].kind = "frame" /\ t[1].frame.type = "HEADER" /\ t[1].frame.size = "none"
  BY <1>1, <1>2 DEF WellFormed
<1>4. ASSUME NEW k \in 2 .. Len(t)
      PROVE  /\ t[k].iv = uintToFourBytes(FirstCounter + (k - 2))
             /\ t[k].kind = "data" <=> /\ t[k - 1].kind = "frame"
                                       /\ CarriesData(t[k - 1].frame)
             /\ t[k].kind = "data" => t[k].frame = t[k - 1].frame
             /\ t[k].frame.type # "HEADER"
             /\ t[k].frame.type = "END" => k = Len(t)
  <2>1. CASE k \in 2 .. n
    <3>1. t[k] = s[k] /\ t[k - 1] = s[k - 1] /\ k \in 1 .. n
      BY <1>1, <1>2, <2>1
    <3>2. /\ s[k].iv = uintToFourBytes(FirstCounter + (k - 2))
          /\ s[k].kind = "data" <=> /\ s[k - 1].kind = "frame"
                                    /\ CarriesData(s[k - 1].frame)
          /\ s[k].kind = "data" => s[k].frame = s[k - 1].frame
          /\ s[k].frame.type # "HEADER"
      BY <2>1 DEF WellFormed
    <3> QED
      BY <3>1, <3>2
  <2>2. CASE k = n + 1
    <3>1. t[k] = b /\ t[k - 1] = s[n] /\ k - 2 = n - 1
      BY <1>1, <1>2, <2>2
    <3> QED
      BY <1>1, <2>2, <3>1
  <2> QED
    BY <1>1, <2>1, <2>2
<1>5. WellFormed(t, FirstCounter)
  BY <1>3, <1>4 DEF WellFormed
<1> QED
  BY <1>1, <1>2, <1>5 DEF t

(* What one value of the encryptor's counter makes.                             *)
LEMMA BlockType ==
  ASSUME NEW kind \in {"frame", "data"}, NEW f \in Frames(Ids), NEW c \in Nat
  PROVE  /\ Block(kind, f, c) \in Blocks(Ids)
         /\ Block(kind, f, c).kind = kind /\ Block(kind, f, c).frame = f
         /\ Block(kind, f, c).iv = uintToFourBytes(c)
         /\ Block(kind, f, c).damage = "none"
<1>1. uintToFourBytes(c) \in 0 .. IvSpace - 1
  BY IvType
<1> QED
  BY <1>1 DEF Block, Blocks, Damage

(* encryptFrame, for a frame without data.                                      *)
LEMMA EncryptsFrame ==
  ASSUME OutputOK, Continues, NEW f \in Frames(Ids), f.type # "HEADER", ~CarriesData(f),
         EncryptFrame(f)
  PROVE  /\ out' \in Seq(Blocks(Ids)) /\ e_counter' \in Nat
         /\ laundered' \subseteq 1 .. Len(out')
         /\ WellFormed(out', FirstCounter) /\ out' # <<>>
         /\ f.type # "END" => Continues'
<1> DEFINE n == Len(out)
           b == Block("frame", f, e_counter)
<1>1. /\ out \in Seq(Blocks(Ids)) /\ out # <<>> /\ WellFormed(out, FirstCounter)
      /\ \A k \in 1 .. n : out[k].frame.type # "END"
      /\ n \in Nat \ {0} /\ e_counter \in Nat
  BY DEF OutputOK, Continues
<1>2. FirstCounter \in Nat /\ e_counter = FirstCounter + (n - 1)
  BY <1>1, LoadAssumption DEF Continues
<1>3. b \in Blocks(Ids) /\ b.kind = "frame" /\ b.frame = f /\ b.iv = uintToFourBytes(e_counter)
  BY <1>1, BlockType
<1>4. out' = Append(out, b) /\ e_counter' = e_counter + 1 /\ laundered' = laundered
  BY DEF EncryptFrame
<1>5. ~(out[n].kind = "frame" /\ CarriesData(out[n].frame))
  BY DEF Continues
<1> HIDE DEF b
<1>6. /\ WellFormed(out', FirstCounter) /\ out' \in Seq(Blocks(Ids)) /\ out' # <<>>
      /\ Len(out') = n + 1 /\ out'[n + 1] = b
      /\ \A k \in 1 .. n : out'[k] = out[k]
  BY <1>1, <1>2, <1>3, <1>4, <1>5, AppendBlock
<1>7. e_counter' \in Nat /\ laundered' \subseteq 1 .. Len(out')
  BY <1>1, <1>4, <1>6 DEF OutputOK
<1>8. f.type # "END" => Continues'
  BY <1>1, <1>2, <1>3, <1>4, <1>6 DEF Continues
<1> QED
  BY <1>6, <1>7, <1>8

(* The frame of some data has the data's size.                                  *)
LEMMA SizedType ==
  ASSUME NEW f \in Frames(Ids), f.size # "none"
  PROVE  /\ Sized(f) \in Frames(Ids) /\ Sized(f).size = "fits"
         /\ Sized(f).type = f.type /\ Sized(f).id = f.id
BY DEF Frames, Sized, Sizes

(* encryptFrame and encryptAttachment, for one that has data.                   *)
LEMMA EncryptsWithAttachment ==
  ASSUME OutputOK, Continues, NEW f \in Frames(Ids), f.type \in WithAttachment, f.size # "none",
         NEW data, EncryptWithAttachment(f, data)
  PROVE  /\ out' \in Seq(Blocks(Ids)) /\ e_counter' \in Nat
         /\ laundered' \subseteq 1 .. Len(out')
         /\ WellFormed(out', FirstCounter) /\ Continues'
<1> DEFINE n == Len(out)
           g == Sized(f)
           a == Block("frame", g, e_counter)
           b == Block("data", g, e_counter + 1)
           s == Append(out, a)
<1>1. /\ out \in Seq(Blocks(Ids)) /\ out # <<>> /\ WellFormed(out, FirstCounter)
      /\ \A k \in 1 .. n : out[k].frame.type # "END"
      /\ n \in Nat \ {0} /\ e_counter \in Nat /\ e_counter + 1 \in Nat
  BY DEF OutputOK, Continues
<1>2. FirstCounter \in Nat /\ e_counter = FirstCounter + (n - 1)
  <2>1. e_counter + 1 = FirstCounter + n
    BY DEF Continues
  <2>2. FirstCounter \in Nat
    BY LoadAssumption
  <2> QED
    BY <1>1, <2>1, <2>2
<1>g. g \in Frames(Ids) /\ CarriesData(g) /\ g.type \notin {"HEADER", "END"}
  BY SizedType DEF CarriesData, WithAttachment
<1>3. /\ a \in Blocks(Ids) /\ a.kind = "frame" /\ a.frame = g /\ a.iv = uintToFourBytes(e_counter)
      /\ b \in Blocks(Ids) /\ b.kind = "data" /\ b.frame = g
      /\ b.iv = uintToFourBytes(e_counter + 1)
  BY <1>1, <1>g, BlockType
<1>4. /\ out' = out \o <<a, b>> /\ e_counter' = e_counter + 2
      /\ laundered' = laundered \/ laundered' = laundered \cup {Len(out) + 2}
  BY Zenon DEF EncryptWithAttachment
<1>5. ~(out[n].kind = "frame" /\ CarriesData(out[n].frame))
  BY DEF Continues
<1> HIDE DEF a, b, g
<1>6. out' = Append(s, b)
  BY <1>1, <1>3, <1>4
<1> HIDE DEF s
<1>7. /\ WellFormed(s, FirstCounter) /\ s \in Seq(Blocks(Ids)) /\ s # <<>>
      /\ Len(s) = n + 1 /\ s[n + 1] = a
      /\ \A k \in 1 .. n : s[k] = out[k]
  BY <1>1, <1>2, <1>3, <1>5, <1>g, AppendBlock DEF s
<1>8. \A k \in 1 .. Len(s) : s[k].frame.type # "END"
  BY <1>1, <1>3, <1>7, <1>g
<1>9. e_counter + 1 = FirstCounter + (Len(s) - 1)
  BY <1>1, <1>2, <1>7
<1>10. /\ WellFormed(out', FirstCounter) /\ out' \in Seq(Blocks(Ids)) /\ out' # <<>>
       /\ Len(out') = Len(s) + 1 /\ out'[Len(s) + 1] = b
       /\ \A k \in 1 .. Len(s) : out'[k] = s[k]
  BY <1>3, <1>6, <1>7, <1>8, <1>9, <1>g, AppendBlock
<1>11. e_counter' \in Nat /\ laundered' \subseteq 1 .. Len(out')
  <2>1. Len(out') = n + 2 /\ laundered \subseteq 1 .. n
    BY <1>1, <1>7, <1>10 DEF OutputOK
  <2>2. laundered' \subseteq laundered \cup {n + 2}
    BY <1>4
  <2>3. laundered' \subseteq 1 .. n + 2
    BY <1>1, <2>1, <2>2
  <2> QED
    BY <1>1, <1>4, <2>1, <2>3
<1>12. Continues'
  <2>1. Len(out') = n + 2 /\ out'[Len(out')] = b
    BY <1>1, <1>7, <1>10
  <2>2. e_counter' + 1 = FirstCounter + Len(out')
    BY <1>1, <1>2, <1>4, <2>1
  <2>3. \A k \in 1 .. Len(out') : out'[k].frame.type # "END"
    BY <1>1, <1>3, <1>7, <1>8, <1>10, <1>g, <2>1
  <2> QED
    BY <1>3, <1>10, <2>1, <2>2, <2>3 DEF Continues
<1> QED
  BY <1>10, <1>11, <1>12

(* What a failed write leaves of a file that had not come to its end.           *)
LEMMA FailedWriteLeaves ==
  ASSUME OutputOK, Continues, WriteFails
  PROVE  /\ out' \in Seq(Blocks(Ids)) /\ e_counter' \in Nat
         /\ laundered' \subseteq 1 .. Len(out')
         /\ WellFormed(out', FirstCounter) /\ out' # <<>>
<1>1. /\ out \in Seq(Blocks(Ids)) /\ WellFormed(out, FirstCounter) /\ e_counter \in Nat
      /\ \A k \in 1 .. Len(out) : out[k].frame.type # "END"
  BY DEF OutputOK, Continues
<1>2. PICK k \in 1 .. Len(out), d \in {"none", "cut", "cutmac"} :
             /\ out' = [SubSeq(out, 1, k) EXCEPT ![k].damage = d]
             /\ laundered' = laundered \cap (1 .. k) /\ e_counter' = e_counter
  BY Zenon DEF WriteFails
<1> DEFINE s == SubSeq(out, 1, k)
<1>3. /\ s \in Seq(Blocks(Ids)) /\ Len(s) = k /\ k \in Nat \ {0}
      /\ \A j \in 1 .. k : s[j] = out[j] /\ out[j] \in Blocks(Ids)
  BY <1>1
<1> HIDE DEF s
<1>4. out' = [s EXCEPT ![k] = [s[k] EXCEPT !.damage = d]]
  BY <1>2 DEF s
<1> DEFINE b == [out[k] EXCEPT !.damage = d]
<1>5. /\ b \in Blocks(Ids)
      /\ b.kind = out[k].kind /\ b.frame = out[k].frame /\ b.iv = out[k].iv
  BY <1>3 DEF Blocks, Damage
<1>6. /\ out' \in Seq(Blocks(Ids)) /\ Len(out') = k /\ out' # <<>>
      /\ \A j \in 1 .. k : out'[j] = IF j = k THEN b ELSE out[j]
  <2>0. [s[k] EXCEPT !.damage = d] = b
    BY <1>3
  <2> HIDE DEF b
  <2>1. out' = [s EXCEPT ![k] = b]
    BY <1>4, <2>0
  <2> QED
    BY <1>3, <1>5, <2>1
<1>7. \A j \in 1 .. k : /\ out'[j].kind = out[j].kind /\ out'[j].frame = out[j].frame
                        /\ out'[j].iv = out[j].iv
  BY <1>5, <1>6
<1>8. WellFormed(out', FirstCounter)
  <2>1. out'[1].kind = "frame" /\ out'[1].frame.type = "HEADER" /\ out'[1].frame.size = "none"
    BY <1>1, <1>3, <1>7 DEF WellFormed
  <2>2. ASSUME NEW j \in 2 .. Len(out')
        PROVE  /\ out'[j].iv = uintToFourBytes(FirstCounter + (j - 2))
               /\ out'[j].kind = "data" <=> /\ out'[j - 1].kind = "frame"
                                            /\ CarriesData(out'[j - 1].frame)
               /\ out'[j].kind = "data" => out'[j].frame = out'[j - 1].frame
               /\ out'[j].frame.type # "HEADER"
               /\ out'[j].frame.type = "END" => j = Len(out')
    <3>1. j \in 1 .. k /\ j - 1 \in 1 .. k /\ j \in 2 .. Len(out) /\ j \in 1 .. Len(out)
      BY <1>1, <1>6, <2>2
    <3>2. /\ out'[j].kind = out[j].kind /\ out'[j].frame = out[j].frame /\ out'[j].iv = out[j].iv
          /\ out'[j - 1].kind = out[j - 1].kind /\ out'[j - 1].frame = out[j - 1].frame
      BY <1>7, <3>1
    <3> QED
      BY <1>1, <3>1, <3>2 DEF WellFormed
  <2> QED
    BY <2>1, <2>2 DEF WellFormed
<1>9. laundered' \subseteq 1 .. Len(out')
  BY <1>2, <1>6
<1> QED
  BY <1>1, <1>2, <1>6, <1>8, <1>9

-----------------------------------------------------------------------------
(* What is kept *)

LEMMA KeptType ==
  ASSUME NEW r \in Returnable
  PROVE  /\ Kept(r) \in KeptFrames(r.frame.type)
         /\ Kept(r).att = Backed \/ Kept(r).att = Unread
         /\ Kept(r).frame = r.frame /\ Kept(r).block = r.data /\ Kept(r).iv = r.iv
<1>1. r.frame \in {f \in Frames(Ids) : f.type = r.frame.type} /\ r.data \in Nat
      /\ r.iv \in 0 .. IvSpace - 1
  BY DEF Returnable
<1>2. Backed \in Attachments /\ Unread \in Attachments
  BY DEF Backed, Unread, Attachments, Contents
<1> QED
  BY <1>1, <1>2 DEF Kept, KeptFrames

LEMMA EmplaceType ==
  ASSUME NEW map, NEW t, KeptMap(map, t), NEW id \in Ids, NEW v \in KeptFrames(t)
  PROVE  /\ KeptMap(Emplace(map, id, v), t)
         /\ DOMAIN Emplace(map, id, v) = DOMAIN map \cup {id}
         /\ \A i \in DOMAIN Emplace(map, id, v) :
               Emplace(map, id, v)[i] = IF i \in DOMAIN map THEN map[i] ELSE v
BY DEF Emplace, KeptMap

(* The frames of what is kept.                                                  *)
LEMMA KeptMapType ==
  ASSUME NEW map, NEW t, KeptMap(map, t), NEW i \in DOMAIN map
  PROVE  /\ map[i] \in KeptFrames(t) /\ map[i].att \in Attachments
         /\ map[i].frame \in Frames(Ids) /\ map[i].frame.type = t
<1>1. map[i] \in KeptFrames(t)
  BY DEF KeptMap
<1> QED
  BY <1>1 DEF KeptFrames

(* Another state of its cache leaves a kept frame what it is.                   *)
LEMMA CacheType ==
  ASSUME NEW map, NEW t, KeptMap(map, t), NEW i \in DOMAIN map, NEW att \in Attachments
  PROVE  /\ KeptMap([map EXCEPT ![i].att = att], t)
         /\ DOMAIN [map EXCEPT ![i].att = att] = DOMAIN map
<1> DEFINE k == [map[i] EXCEPT !.att = att]
<1>1. k \in KeptFrames(t)
  BY KeptMapType DEF KeptFrames
<1>2. [map EXCEPT ![i].att = att] = [map EXCEPT ![i] = k]
  OBVIOUS
<1> HIDE DEF k
<1> QED
  BY <1>1, <1>2 DEF KeptMap

(* ... and the others alone.                                                    *)
LEMMA CachedAt ==
  ASSUME NEW map, NEW t, KeptMap(map, t), NEW i \in DOMAIN map, NEW att
  PROVE  /\ DOMAIN [map EXCEPT ![i].att = att] = DOMAIN map
         /\ [map EXCEPT ![i].att = att][i].att = att
         /\ [map EXCEPT ![i].att = att][i].frame = map[i].frame
         /\ \A j \in DOMAIN map : j # i => [map EXCEPT ![i].att = att][j] = map[j]
<1> DEFINE k == [map[i] EXCEPT !.att = att]
<1>1. map[i] \in KeptFrames(t)
  BY KeptMapType
<1>2. k.att = att /\ k.frame = map[i].frame
  BY <1>1 DEF KeptFrames
<1>3. [map EXCEPT ![i].att = att] = [map EXCEPT ![i] = k]
  OBVIOUS
<1> HIDE DEF k
<1> QED
  BY <1>2, <1>3 DEF KeptMap

LEMMA ContentStarts == StartLoad => ContentOK
<1> SUFFICES ASSUME StartLoad
             PROVE  ContentOK
  OBVIOUS
<1>1. /\ d_database = <<>> /\ d_avatars = <<>> /\ d_attachments = <<>> /\ d_stickers = <<>>
      /\ d_sharedpreferenceframes = <<>> /\ d_keyvalueframes = <<>>
  BY DEF StartLoad
<1>2. \A t : KeptMap(<<>>, t)
  BY DEF KeptMap
<1> QED
  BY <1>1, <1>2 DEF ContentOK

(* Handling a frame keeps it where its type says.                               *)
LEMMA DispatchType ==
  ASSUME ContentOK, NEW r \in Returnable, Dispatch(r)
  PROVE  ContentOK' /\ DOMAIN d_attachments \subseteq DOMAIN d_attachments'
<1> DEFINE f == r.frame
<1>f. f \in Frames(Ids) /\ f.id \in Ids
  BY DEF Returnable, Frames
<1>k. Kept(r) \in KeptFrames(f.type)
  BY KeptType
<1>1. KeptMap(d_attachments', "ATTACHMENT") /\ DOMAIN d_attachments \subseteq DOMAIN d_attachments'
  <2>1. KeptMap(d_attachments, "ATTACHMENT")
    BY DEF ContentOK
  <2>2. d_attachments' = IF f.type = "ATTACHMENT"
                         THEN Emplace(d_attachments, f.id, Kept(r)) ELSE d_attachments
    BY DEF Dispatch
  <2>3. CASE f.type = "ATTACHMENT"
    <3>1. Kept(r) \in KeptFrames("ATTACHMENT") /\ d_attachments' = Emplace(d_attachments, f.id, Kept(r))
      BY <1>k, <2>2, <2>3
    <3> HIDE DEF f
    <3>2. KeptMap(d_attachments', "ATTACHMENT")
      BY <1>f, <2>1, <3>1, EmplaceType
    <3>3. DOMAIN d_attachments \subseteq DOMAIN d_attachments'
      BY <3>1 DEF Emplace
    <3> QED
      BY <3>2, <3>3
  <2>4. CASE f.type # "ATTACHMENT"
    BY <2>1, <2>2, <2>4
  <2> QED
    BY <2>3, <2>4
<1>2. KeptMap(d_stickers', "STICKER")
  <2>1. KeptMap(d_stickers, "STICKER")
    BY DEF ContentOK
  <2>2. d_stickers' = IF f.type = "STICKER"
                      THEN Emplace(d_stickers, f.id, Kept(r)) ELSE d_stickers
    BY DEF Dispatch
  <2>3. CASE f.type = "STICKER"
    <3>1. Kept(r) \in KeptFrames("STICKER") /\ d_stickers' = Emplace(d_stickers, f.id, Kept(r))
      BY <1>k, <2>2, <2>3
    <3> HIDE DEF f
    <3> QED
      BY <1>f, <2>1, <3>1, EmplaceType
  <2>4. CASE f.type # "STICKER"
    BY <2>1, <2>2, <2>4
  <2> QED
    BY <2>3, <2>4
<1>3. d_avatars' \in Seq(KeptFrames("AVATAR"))
  <2>1. d_avatars \in Seq(KeptFrames("AVATAR"))
    BY DEF ContentOK
  <2>2. d_avatars' = d_avatars \/ (f.type = "AVATAR" /\ d_avatars' = Append(d_avatars, Kept(r)))
    BY Zenon DEF Dispatch
  <2> QED
    BY <1>k, <2>1, <2>2
<1>4. d_database' \in Seq(Ids)
  <2>1. d_database' = d_database \/ d_database' = Append(d_database, f.id)
    BY Zenon DEF Dispatch
  <2>2. d_database \in Seq(Ids)
    BY DEF ContentOK
  <2> HIDE DEF f
  <2> QED
    BY <1>f, <2>1, <2>2
<1>5. d_sharedpreferenceframes' \in Seq(Ids)
  <2>1. \/ d_sharedpreferenceframes' = d_sharedpreferenceframes
        \/ d_sharedpreferenceframes' = Append(d_sharedpreferenceframes, f.id)
    BY Zenon DEF Dispatch
  <2>2. d_sharedpreferenceframes \in Seq(Ids)
    BY DEF ContentOK
  <2> HIDE DEF f
  <2> QED
    BY <1>f, <2>1, <2>2
<1>6. d_keyvalueframes' \in Seq(Ids)
  <2>1. d_keyvalueframes' = d_keyvalueframes \/ d_keyvalueframes' = Append(d_keyvalueframes, f.id)
    BY Zenon DEF Dispatch
  <2>2. d_keyvalueframes \in Seq(Ids)
    BY DEF ContentOK
  <2> HIDE DEF f
  <2> QED
    BY <1>f, <2>1, <2>2
<1> QED
  BY <1>1, <1>2, <1>3, <1>4, <1>5, <1>6 DEF ContentOK

(* A step of the load: it handles a frame, or keeps nothing new.                *)
LEMMA LoadKeeps ==
  ASSUME TypeOK, ContentOK, LoadNext
  PROVE  ContentOK' /\ DOMAIN d_attachments \subseteq DOMAIN d_attachments'
<1>1. CASE UNCHANGED <<d_attachments, d_stickers, d_avatars, d_database,
                       d_sharedpreferenceframes, d_keyvalueframes>>
  BY <1>1 DEF ContentOK, KeptMap
<1>2. CASE HandleFrame /\ ~StopsOnBadMac
  <2>1. Dispatch(frame[1]) /\ frame # <<>>
    BY <1>2, Zenon DEF HandleFrame
  <2>2. frame[1] \in Returnable
    BY <2>1, ElementTypes
  <2> QED
    BY <2>1, <2>2, DispatchType
<1> QED
  BY <1>1, <1>2, Zenon DEF LoadNext, CallGetFrame, HandleFrame, HandleCrash, Finish, contentVars

-----------------------------------------------------------------------------
(* The caches *)

LEMMA ReadingType ==
  ASSUME NEW att \in Attachments, NEW result \in ReturnCode
  PROVE  /\ attachmentData(att, result).att \in Attachments
         /\ attachmentData(att, result).att.noclear = att.noclear
         /\ attachmentData(att, result).data \in Contents
         /\ attachmentData(att, result).data = "corrupt" => att.data = "corrupt"
<1>1. getAttachment(att, result) \in Attachments
      /\ getAttachment(att, result).noclear = att.noclear
  BY DEF getAttachment, Attachments, Contents, ReturnCode
<1> QED
  BY <1>1 DEF attachmentData, Reading, Attachments, Contents

LEMMA ClearedType ==
  ASSUME NEW att \in Attachments
  PROVE  /\ clearData(att) \in Attachments
         /\ clearData(att).noclear = att.noclear
         /\ ~att.noclear => clearData(att).data = "none"
BY Zenon, SMT DEF clearData, Attachments, Contents

LEMMA ResultsType == \A k : Results(k) \subseteq ReturnCode
BY DEF Results, ReturnCode

-----------------------------------------------------------------------------
(* The inductive invariant *)

(* What no action but those of the load and Reopen change.                      *)
LEMMA RestKeepsType == TypeOK /\ UNCHANGED restVars => TypeOK'
<1> SUFFICES ASSUME TypeOK, UNCHANGED restVars
             PROVE  TypeOK'
  OBVIOUS
<1>1. /\ UNCHANGED <<file, command, pc, d_ok, transaction, delivered>>
      /\ UNCHANGED <<pos, aligned, d_counter, d_framecount, d_badmac, d_headerframe, frame>>
  BY DEF restVars, decryptorVars
<1>2. FileTypeOK' /\ command' \in CommandLines
  BY <1>1 DEF TypeOK, FileTypeOK
<1>3. StreamTypeOK'
  BY <1>1, Zenon DEF TypeOK, StreamTypeOK, FrameTypeOK
<1>4. /\ pc' \in {"get", "handle", "done", "crashed"}
      /\ d_ok' \in BOOLEAN /\ transaction' \in BOOLEAN
      /\ delivered' \in Seq(Returnable)
  BY <1>1, Zenon DEF TypeOK
<1> QED
  BY <1>2, <1>3, <1>4 DEF TypeOK

LEMMA SessionStarts == SessionInit => SessionInv
<1> SUFFICES ASSUME SessionInit
             PROVE  SessionInv
  OBVIOUS
<1>1. /\ Init /\ out = <<>> /\ e_counter = 0 /\ laundered = {}
      /\ stage = "idle" /\ next = 1 /\ skipped = {}
      /\ task = "open" /\ todo = {} /\ run = 1
  BY DEF SessionInit
<1>2. FileTypeOK /\ command \in CommandLines /\ StartLoad
  BY <1>1, InitialFiles
<1>3. TypeOK /\ ContentOK
  BY <1>2, LoadStarts, ContentStarts
<1>4. OutputOK
  BY <1>1 DEF OutputOK, WellFormed, Writing
<1>5. PlaceOK
  BY <1>1 DEF PlaceOK, Stages, Writing
<1>6. RowOK
  BY <1>1 DEF RowOK
<1> QED
  BY <1>3, <1>4, <1>5, <1>6 DEF SessionInv

LEMMA LoadPreserves == SessionInv /\ Load => SessionInv'
<1> SUFFICES ASSUME SessionInv, Load
             PROVE  SessionInv'
  OBVIOUS
<1>1. LoadNext /\ UNCHANGED <<out, e_counter, laundered, stage, next, skipped>>
      /\ UNCHANGED <<task, todo, run>>
  BY DEF Load, exportVars, encryptorVars, taskVars
<1>2. TypeOK /\ ContentOK /\ OutputOK /\ PlaceOK
  BY DEF SessionInv
<1>3. TypeOK'
  BY <1>1, <1>2, TypeInductive
<1>4. ContentOK' /\ DOMAIN d_attachments \subseteq DOMAIN d_attachments'
  BY <1>1, <1>2, LoadKeeps
<1>5. ~Writing /\ ~Writing'
  <2>1. pc # "done"
    BY <1>1, Zenon DEF LoadNext, CallGetFrame, HandleFrame, HandleCrash, Finish
  <2> QED
    BY <1>1, <1>2, <2>1 DEF PlaceOK, Writing
<1>6. OutputOK'
  BY <1>1, <1>2, <1>5 DEF OutputOK
<1>7. PlaceOK'
  BY <1>1, <1>2, <1>4, <1>5 DEF PlaceOK
<1>8. RowOK'
  BY <1>5 DEF RowOK, Writing
<1> QED
  BY <1>3, <1>4, <1>6, <1>7, <1>8 DEF SessionInv

(* The tasks of main before the output.                                         *)
LEMMA StartTaskPreserves == SessionInv /\ StartTask => SessionInv'
<1> SUFFICES ASSUME SessionInv, StartTask
             PROVE  SessionInv'
  OBVIOUS
<1>1. TypeOK /\ ContentOK /\ OutputOK /\ PlaceOK
  BY DEF SessionInv
<1>2. /\ stage = "idle" /\ todo = {} /\ task # "output"
      /\ UNCHANGED <<loadVars, exportVars, run>>
  BY Zenon DEF StartTask, Opened
<1>3. /\ task' \in {"dumping", "htmling", "output"}
      /\ task' = "output" => todo' = {}
      /\ todo' \subseteq DOMAIN d_attachments
  <2>1. /\ task' = CASE task = "open"    -> "dumping"
                     [] task = "dumping" -> "htmling"
                     [] task = "htmling" -> "output"
        /\ todo' = IF (task = "open" /\ dumpmedia) \/ (task = "dumping" /\ exporthtml)
                   THEN DOMAIN d_attachments ELSE {}
        /\ task \in {"open", "dumping", "htmling"}
    BY <1>1, <1>2 DEF StartTask, PlaceOK
  <2> QED
    BY <2>1
<1>4. /\ UNCHANGED <<out, e_counter, laundered, stage, next, skipped, pc>>
      /\ UNCHANGED <<d_attachments, d_stickers, d_avatars, d_database,
                     d_sharedpreferenceframes, d_keyvalueframes>>
      /\ UNCHANGED restVars
  BY <1>2 DEF loadVars, exportVars, encryptorVars, contentVars, restVars
<1>5. TypeOK' /\ ContentOK' /\ OutputOK'
  BY <1>1, <1>4, RestKeepsType DEF ContentOK, KeptMap, OutputOK, Continues, Writing
<1>6. PlaceOK'
  BY <1>1, <1>2, <1>3, <1>4 DEF PlaceOK, Writing
<1>7. RowOK'
  BY <1>2, <1>4 DEF RowOK
<1> QED
  BY <1>5, <1>6, <1>7 DEF SessionInv

(* One attachment is dumped, or shown: its cache is what has changed.           *)
LEMMA UsePreserves ==
  ASSUME SessionInv, NEW s, NEW i, NEW att \in Attachments, Use(s, i, att),
         stage' \in {"idle", "crashed"}
  PROVE  SessionInv'
<1>1. TypeOK /\ ContentOK /\ OutputOK /\ PlaceOK
  BY DEF SessionInv
<1>2. /\ stage = "idle" /\ i \in todo /\ todo' = todo \ {i}
      /\ d_attachments' = [d_attachments EXCEPT ![i].att = att]
      /\ UNCHANGED <<restVars, d_stickers, d_avatars, next, skipped>>
      /\ UNCHANGED <<out, e_counter, laundered>>
      /\ UNCHANGED <<task, run>>
  BY DEF Use, encryptorVars
<1>3. TypeOK'
  BY <1>1, <1>2, RestKeepsType
<1>4. KeptMap(d_attachments', "ATTACHMENT") /\ DOMAIN d_attachments' = DOMAIN d_attachments
  <2>1. KeptMap(d_attachments, "ATTACHMENT") /\ i \in DOMAIN d_attachments
    BY <1>1, <1>2 DEF ContentOK, PlaceOK
  <2> QED
    BY <1>2, <2>1, CacheType
<1>5. ContentOK'
  <2>1. UNCHANGED <<d_database, d_sharedpreferenceframes, d_keyvalueframes, d_stickers, d_avatars>>
    BY <1>2 DEF restVars
  <2> QED
    BY <1>1, <1>4, <2>1 DEF ContentOK, KeptMap
<1>6. OutputOK'
  BY <1>1, <1>2 DEF OutputOK, Writing
<1>7. PlaceOK'
  BY <1>1, <1>2, <1>4 DEF PlaceOK, Writing, Stages
<1>8. RowOK'
  BY DEF RowOK
<1> QED
  BY <1>3, <1>5, <1>6, <1>7, <1>8 DEF SessionInv

LEMMA UseMediaPreserves == SessionInv /\ UseMedia => SessionInv'
<1> SUFFICES ASSUME SessionInv, NEW i \in todo,
                    DumpMedia(i) \/ HTMLwriteAttachment(i) \/ PassOver(i)
             PROVE  SessionInv'
  BY DEF UseMedia
<1>1. d_attachments[i].att \in Attachments
  BY KeptMapType DEF SessionInv, ContentOK, PlaceOK
<1>2. CASE PassOver(i)
  <2>1. Use(task, i, d_attachments[i].att) /\ stage' \in {"idle", "crashed"}
    BY <1>2 DEF PassOver, Use
  <2> QED
    BY <1>1, <2>1, UsePreserves
<1>3. CASE DumpMedia(i) \/ HTMLwriteAttachment(i)
  <2>1. PICK result \in Results(d_attachments[i]), s \in {"dumping", "htmling"} :
           LET reading == attachmentData(d_attachments[i].att, result)
           IN  /\ Use(s, i, reading.att) \/ Use(s, i, clearData(reading.att))
               /\ stage' \in {"idle", "crashed"}
    BY <1>3, Zenon DEF DumpMedia, HTMLwriteAttachment
  <2>2. result \in ReturnCode
    BY ResultsType
  <2> DEFINE att == attachmentData(d_attachments[i].att, result).att
  <2>3. att \in Attachments
    BY <1>1, <2>2, ReadingType
  <2>4. clearData(att) \in Attachments
    BY <2>3, ClearedType
  <2> QED
    BY <2>1, <2>3, <2>4, UsePreserves, Zenon
<1> QED
  BY <1>2, <1>3

(* A step of the export: the content keeps its place, the output its order.     *)
LEMMA Exported ==
  ASSUME SessionInv, task = "output", UNCHANGED <<restVars, taskVars>>, pc = "done",
         stage \notin {"written", "failed"},
         stage' \in Stages, next' \in Nat \ {0}, skipped' \subseteq Stages \X Nat,
         ContentOK', DOMAIN d_attachments' = DOMAIN d_attachments, OutputOK', RowOK'
  PROVE  SessionInv'
<1>1. TypeOK'
  BY RestKeepsType DEF SessionInv
<1>2. PlaceOK'
  <2>1. UNCHANGED <<task, todo, run, pc>>
    BY DEF taskVars, restVars
  <2> QED
    BY <2>1 DEF SessionInv, PlaceOK
<1> QED
  BY <1>1, <1>2 DEF SessionInv

(* ... of which the frames kept have no part.                                   *)
LEMMA ContentStays ==
  ASSUME ContentOK, UNCHANGED <<restVars, keptVars>>
  PROVE  /\ ContentOK' /\ DOMAIN d_attachments' = DOMAIN d_attachments
         /\ UNCHANGED <<pc, d_database, d_attachments, d_stickers, d_avatars,
                        d_sharedpreferenceframes, d_keyvalueframes, d_databaseversion>>
BY DEF restVars, keptVars, ContentOK, KeptMap

(* The frames that are made while writing.                                      *)
LEMMA PlainType ==
  ASSUME NEW t \in FRAMETYPE, NEW id \in Ids
  PROVE  /\ Plain(t, id) \in Frames(Ids) /\ Plain(t, id).type = t
         /\ Plain(t, id).size = "none" /\ ~CarriesData(Plain(t, id))
BY DEF Plain, Frames, Sizes, CarriesData

LEMMA AnyIdType == AnyId \in Ids
BY DecryptorAssumption DEF AnyId

(* A plain frame is written, and the stage that follows is one to write in.     *)
LEMMA PlainWritten ==
  ASSUME SessionInv, Writing, NEW t \in FRAMETYPE \ {"HEADER", "END"}, NEW id \in Ids,
         EncryptFrame(Plain(t, id)), stage' # "written"
  PROVE  OutputOK'
<1>1. OutputOK /\ Continues
  BY DEF SessionInv, OutputOK
<1>2. /\ Plain(t, id) \in Frames(Ids) /\ Plain(t, id).type = t /\ ~CarriesData(Plain(t, id))
  BY PlainType
<1>3. /\ out' \in Seq(Blocks(Ids)) /\ e_counter' \in Nat
      /\ laundered' \subseteq 1 .. Len(out')
      /\ WellFormed(out', FirstCounter) /\ out' # <<>> /\ Continues'
  BY <1>1, <1>2, EncryptsFrame
<1> QED
  BY <1>3 DEF OutputOK

LEMMA AfterListPlace ==
  ASSUME next \in Nat \ {0}, NEW S, NEW list \in Seq(S), NEW s, NEW t, AfterList(s, list, t)
  PROVE  /\ next' \in Nat \ {0} /\ stage' \in {s, t}
         /\ stage' = s /\ s # t => next' \in 1 .. Len(list)
         /\ stage' = s /\ s # t => next' = next + 1
<1>1. CASE next < Len(list)
  <2>1. stage' = s /\ next' = next + 1 /\ Len(list) \in Nat
    BY <1>1 DEF AfterList, Goto
  <2> QED
    BY <1>1, <2>1
<1>2. CASE ~(next < Len(list))
  BY <1>2 DEF AfterList, Goto
<1> QED
  BY <1>1, <1>2

(* writeEncryptedFrame for a frame that was kept.                               *)
LEMMA WritesType ==
  ASSUME OutputOK, Continues, NEW t \in WithAttachment, NEW k \in KeptFrames(t), NEW reading,
         Writes(k, reading) \/ FailsToRead(k, reading),
         stage \in Stages, next \in Nat, skipped \subseteq Stages \X Nat
  PROVE  /\ out' \in Seq(Blocks(Ids)) /\ e_counter' \in Nat
         /\ laundered' \subseteq 1 .. Len(out')
         /\ WellFormed(out', FirstCounter) /\ out' # <<>> /\ Continues'
         /\ skipped' \subseteq Stages \X Nat
<1>k. k.frame \in Frames(Ids) /\ k.frame.type = t /\ t \notin {"HEADER", "END"}
  BY DEF KeptFrames, WithAttachment
<1>1. CASE WritesPlain(k)
  <2>1. k.frame.size = "none" /\ EncryptFrame(k.frame) /\ skipped' = skipped
    BY <1>1 DEF WritesPlain
  <2>2. ~CarriesData(k.frame)
    BY <2>1 DEF CarriesData
  <2> QED
    BY <1>k, <2>1, <2>2, EncryptsFrame
<1>2. CASE WritesData(k, reading)
  <2>1. k.frame.size # "none" /\ EncryptWithAttachment(k.frame, reading.data) /\ skipped' = skipped
    BY <1>2 DEF WritesData
  <2>2. /\ out' \in Seq(Blocks(Ids)) /\ e_counter' \in Nat
        /\ laundered' \subseteq 1 .. Len(out')
        /\ WellFormed(out', FirstCounter) /\ Continues'
    BY <1>k, <2>1, EncryptsWithAttachment
  <2> QED
    BY <2>1, <2>2 DEF Continues
<1>3. CASE Skips(k, reading) \/ FailsToRead(k, reading)
  <2>1. /\ UNCHANGED <<out, e_counter, laundered>>
        /\ skipped' = skipped \/ skipped' = skipped \cup {<<stage, next>>}
    BY <1>3 DEF Skips, FailsToRead, encryptorVars
  <2> QED
    BY <1>k, <2>1 DEF OutputOK, Continues
<1> QED
  BY <1>1, <1>2, <1>3 DEF Writes

LEMMA CacheAfterType ==
  ASSUME NEW k, k.att \in Attachments, NEW result \in ReturnCode
  PROVE  /\ CacheAfter(k, attachmentData(k.att, result)) \in Attachments
         /\ CacheAfter(k, attachmentData(k.att, result)).noclear = k.att.noclear
BY ReadingType DEF CacheAfter

(* The first step, and the last ones before the output is given up.             *)
LEMMA StartExportPreserves ==
  ASSUME SessionInv, task = "output", UNCHANGED taskVars, StartExport \/ RefuseExport
  PROVE  SessionInv'
<1>1. TypeOK /\ ContentOK /\ OutputOK /\ PlaceOK
  BY DEF SessionInv
<1>2. /\ stage = "idle" /\ pc = "done" /\ UNCHANGED <<restVars, keptVars>>
      /\ stage' \in {"version", "failed"} /\ next' = 1
      /\ skipped' = {} \/ skipped' = skipped
  BY DEF StartExport, RefuseExport, Goto
<1>3. ContentOK' /\ DOMAIN d_attachments' = DOMAIN d_attachments
  BY <1>1, <1>2, ContentStays
<1>4. OutputOK'
  <2>1. CASE StartExport
    <3>1. /\ out' = <<Block("frame", file[1].frame, 0)>>
          /\ e_counter' = FirstCounter /\ laundered' = {} /\ FirstCounter \in Nat
      BY <2>1, LoadAssumption DEF StartExport, OpenEncryptor
    <3>2. /\ file[1].frame \in Frames(Ids) /\ file[1].frame.type = "HEADER"
          /\ file[1].frame.size = "none"
      <4>1. file \in Seq(Blocks(Ids)) /\ Len(file) > 0 /\ WellFormed(file, FirstCounter)
        BY <1>1 DEF TypeOK, FileTypeOK
      <4>2. file[1] \in Blocks(Ids)
        BY <4>1
      <4> QED
        BY <4>1, <4>2 DEF WellFormed, Blocks
    <3>3. /\ Block("frame", file[1].frame, 0) \in Blocks(Ids)
          /\ Block("frame", file[1].frame, 0).kind = "frame"
          /\ Block("frame", file[1].frame, 0).frame = file[1].frame
      BY <3>2, BlockType
    <3> DEFINE b == Block("frame", file[1].frame, 0)
    <3>4. out' = <<b>> /\ b \in Blocks(Ids) /\ b.kind = "frame" /\ b.frame.type = "HEADER"
          /\ b.frame.size = "none"
      BY <3>1, <3>2, <3>3
    <3> HIDE DEF b
    <3>5. out' \in Seq(Blocks(Ids)) /\ Len(out') = 1 /\ out'[1] = b /\ out' # <<>>
      BY <3>4
    <3>6. WellFormed(out', FirstCounter)
      BY <3>4, <3>5 DEF WellFormed
    <3>7. Continues'
      BY <3>1, <3>4, <3>5 DEF Continues, CarriesData
    <3> QED
      BY <3>1, <3>5, <3>6, <3>7 DEF OutputOK
  <2>2. CASE RefuseExport
    <3>1. UNCHANGED <<out, e_counter, laundered>> /\ stage' = "failed"
      BY <2>2 DEF RefuseExport, encryptorVars, Goto
    <3> QED
      BY <1>1, <3>1 DEF OutputOK, Writing
  <2> QED
    BY <2>1, <2>2
<1>5. RowOK'
  BY <1>2 DEF RowOK
<1>6. stage' \in Stages /\ next' \in Nat \ {0} /\ skipped' \subseteq Stages \X Nat
  BY <1>1, <1>2 DEF Stages, PlaceOK
<1> QED
  BY <1>2, <1>3, <1>4, <1>5, <1>6, Exported

(* The frames that go out as they are made.                                     *)
LEMMA PlainPreserves ==
  ASSUME SessionInv, task = "output", UNCHANGED taskVars,
         WriteVersion \/ WriteRow \/ WriteSharedPref \/ WriteKeyValue \/ AvatarsWritten
  PROVE  SessionInv'
<1>1. TypeOK /\ ContentOK /\ OutputOK /\ PlaceOK /\ RowOK
  BY DEF SessionInv
<1>2. /\ Writing /\ UNCHANGED <<restVars, keptVars, skipped>>
      /\ stage \in {"version", "rows", "sharedprefs", "keyvalues", "avatars"}
  BY DEF WriteVersion, WriteRow, WriteSharedPref, WriteKeyValue, AvatarsWritten, Writing
<1>3. /\ ContentOK' /\ DOMAIN d_attachments' = DOMAIN d_attachments
      /\ UNCHANGED <<pc, d_database, d_attachments, d_stickers, d_avatars,
                     d_sharedpreferenceframes, d_keyvalueframes, d_databaseversion>>
  BY <1>1, <1>2, ContentStays
<1>4. pc = "done" /\ skipped' \subseteq Stages \X Nat /\ next \in Nat \ {0}
  BY <1>1, <1>2 DEF PlaceOK
<1>5. ASSUME UNCHANGED encryptorVars, stage' # "written"
      PROVE  OutputOK'
  BY <1>1, <1>2, <1>5 DEF OutputOK, Continues, encryptorVars
<1>6. CASE WriteVersion
  <2>1. /\ next' = 1 /\ stage' \in {"rows", "sharedprefs", "failed"}
        /\ stage' = "rows" => d_database # <<>>
    BY <1>6, Zenon DEF WriteVersion, Goto
  <2>2. OutputOK'
    <3>1. UNCHANGED encryptorVars \/ EncryptFrame(Plain("DATABASEVERSION", AnyId))
      BY <1>6 DEF WriteVersion
    <3>2. "DATABASEVERSION" \in FRAMETYPE \ {"HEADER", "END"}
      BY DEF FRAMETYPE
    <3> QED
      BY <1>2, <1>5, <2>1, <3>1, <3>2, PlainWritten, AnyIdType
  <2>3. RowOK'
    BY <1>1, <1>3, <2>1 DEF RowOK, ContentOK
  <2>4. stage' \in Stages /\ next' \in Nat \ {0}
    BY <2>1 DEF Stages
  <2> QED
    BY <1>2, <1>3, <1>4, <2>2, <2>3, <2>4, Exported
<1>7. CASE WriteRow
  <2>0. /\ stage = "rows" /\ EncryptFrame(Plain("SQLSTATEMENT", RowId))
        /\ \/ RowId \in DOMAIN d_attachments /\ Goto("attachment", next)
           \/ RowId \in DOMAIN d_stickers /\ Goto("sticker", next)
           \/ NextRow
    BY <1>7 DEF WriteRow
  <2>1. next \in 1 .. Len(d_database) /\ d_database \in Seq(Ids) /\ RowId \in Ids
    BY <1>1, <2>0 DEF RowOK, ContentOK, RowId
  <2>2. NextRow => /\ next' \in Nat \ {0} /\ stage' \in {"rows", "sharedprefs"}
                   /\ stage' = "rows" => next' \in 1 .. Len(d_database)
    BY <1>4, <2>1, AfterListPlace DEF NextRow
  <2>3. OutputOK'
    <3>1. "SQLSTATEMENT" \in FRAMETYPE \ {"HEADER", "END"}
      BY DEF FRAMETYPE
    <3>2. stage' # "written"
      BY <2>0, <2>2 DEF Goto
    <3> QED
      BY <1>2, <2>0, <2>1, <3>1, <3>2, PlainWritten
  <2>4. RowOK'
    BY <1>3, <2>0, <2>1, <2>2 DEF RowOK, RowId, Goto
  <2>5. stage' \in Stages /\ next' \in Nat \ {0}
    BY <1>4, <2>0, <2>2 DEF Stages, Goto
  <2> QED
    BY <1>2, <1>3, <1>4, <2>3, <2>4, <2>5, Exported
<1>8. CASE WriteSharedPref
  <2>1. \/ /\ next <= Len(d_sharedpreferenceframes) /\ Goto("sharedprefs", next + 1)
           /\ EncryptFrame(Plain("SHAREDPREFERENCE", d_sharedpreferenceframes[next]))
        \/ UNCHANGED encryptorVars /\ Goto("keyvalues", 1)
    BY <1>8 DEF WriteSharedPref, Goto
  <2>2. next <= Len(d_sharedpreferenceframes) => d_sharedpreferenceframes[next] \in Ids
    BY <1>1, <1>4 DEF ContentOK
  <2>3. /\ stage' \in {"sharedprefs", "keyvalues"} /\ next' \in Nat \ {0}
    BY <1>4, <2>1 DEF Goto
  <2>4. OutputOK'
    <3>1. "SHAREDPREFERENCE" \in FRAMETYPE \ {"HEADER", "END"}
      BY DEF FRAMETYPE
    <3> QED
      BY <1>2, <1>5, <2>1, <2>2, <2>3, <3>1, PlainWritten
  <2>5. RowOK' /\ stage' \in Stages
    BY <2>3 DEF RowOK, Stages
  <2> QED
    BY <1>2, <1>3, <1>4, <2>3, <2>4, <2>5, Exported
<1>9. CASE WriteKeyValue
  <2>1. \/ /\ next <= Len(d_keyvalueframes) /\ Goto("keyvalues", next + 1)
           /\ EncryptFrame(Plain("KEYVALUE", d_keyvalueframes[next]))
        \/ UNCHANGED encryptorVars /\ Goto("avatars", 1)
    BY <1>9 DEF WriteKeyValue, Goto
  <2>2. next <= Len(d_keyvalueframes) => d_keyvalueframes[next] \in Ids
    BY <1>1, <1>4 DEF ContentOK
  <2>3. /\ stage' \in {"keyvalues", "avatars"} /\ next' \in Nat \ {0}
    BY <1>4, <2>1 DEF Goto
  <2>4. OutputOK'
    <3>1. "KEYVALUE" \in FRAMETYPE \ {"HEADER", "END"}
      BY DEF FRAMETYPE
    <3> QED
      BY <1>2, <1>5, <2>1, <2>2, <2>3, <3>1, PlainWritten
  <2>5. RowOK' /\ stage' \in Stages
    BY <2>3 DEF RowOK, Stages
  <2> QED
    BY <1>2, <1>3, <1>4, <2>3, <2>4, <2>5, Exported
<1>10. CASE AvatarsWritten
  <2>1. UNCHANGED encryptorVars /\ stage' = "end" /\ next' = 1
    BY <1>10 DEF AvatarsWritten, Goto
  <2>2. OutputOK' /\ RowOK' /\ stage' \in Stages /\ next' \in Nat \ {0}
    BY <1>5, <2>1 DEF RowOK, Stages
  <2> QED
    BY <1>2, <1>3, <1>4, <2>2, Exported
<1> QED
  BY <1>6, <1>7, <1>8, <1>9, <1>10

(* The last frame, and a write that fails: nothing is appended after either.    *)
LEMMA LastPreserves ==
  ASSUME SessionInv, task = "output", UNCHANGED taskVars, WriteEnd \/ FlushFails \/ DiskFull
  PROVE  SessionInv'
<1>1. OutputOK /\ PlaceOK /\ ContentOK
  BY DEF SessionInv
<1>2. /\ Writing /\ UNCHANGED <<restVars, keptVars, skipped>>
      /\ stage' \in {"written", "failed"} /\ next' = 1
      /\ EncryptFrame(Plain("END", AnyId)) \/ WriteFails
  BY DEF WriteEnd, FlushFails, DiskFull, Writing, Goto
<1>3. ContentOK' /\ DOMAIN d_attachments' = DOMAIN d_attachments
  BY <1>1, <1>2, ContentStays
<1>4. /\ Plain("END", AnyId) \in Frames(Ids) /\ Plain("END", AnyId).type = "END"
      /\ ~CarriesData(Plain("END", AnyId))
  BY PlainType, AnyIdType DEF FRAMETYPE
<1>5. OutputOK /\ Continues
  BY <1>1, <1>2 DEF OutputOK
<1>6. /\ out' \in Seq(Blocks(Ids)) /\ e_counter' \in Nat
      /\ laundered' \subseteq 1 .. Len(out')
      /\ WellFormed(out', FirstCounter) /\ out' # <<>>
  BY <1>2, <1>4, <1>5, EncryptsFrame, FailedWriteLeaves
<1>7. OutputOK'
  BY <1>2, <1>6 DEF OutputOK, Writing
<1>8. RowOK'
  BY <1>2 DEF RowOK
<1>9. /\ pc = "done" /\ stage \notin {"written", "failed"}
      /\ stage' \in Stages /\ next' \in Nat \ {0} /\ skipped' \subseteq Stages \X Nat
  BY <1>1, <1>2 DEF PlaceOK, Stages, Writing
<1> QED
  BY <1>2, <1>3, <1>7, <1>8, <1>9, Exported

(* A frame with its data behind a row, and an avatar.                           *)
LEMMA RowKept ==
  ASSUME SessionInv, Writing, NEW t \in WithAttachment, NEW k \in KeptFrames(t),
         NEW att \in Attachments, WriteKept(k, att)
  PROVE  /\ OutputOK' /\ skipped' \subseteq Stages \X Nat
         /\ next' \in Nat \ {0} /\ stage' \in {"rows", "sharedprefs", "crashed", "failed"}
         /\ stage' = "rows" => next' \in 1 .. Len(d_database)
<1>1. OutputOK /\ Continues /\ skipped \subseteq Stages \X Nat /\ next \in Nat \ {0}
      /\ stage \in Stages /\ next \in Nat /\ d_database \in Seq(Ids)
  BY DEF SessionInv, OutputOK, PlaceOK, ContentOK
<1>2. PICK result \in Results(k) :
         LET reading == attachmentData(k.att, result)
         IN  /\ Writes(k, reading) \/ FailsToRead(k, reading)
             /\ NextRow \/ Goto("crashed", 1) \/ Goto("failed", 1)
  BY Zenon DEF WriteKept
<1> DEFINE reading == attachmentData(k.att, result)
<1>3. Writes(k, reading) \/ FailsToRead(k, reading)
  BY <1>2
<1> HIDE DEF reading
<1>4. /\ out' \in Seq(Blocks(Ids)) /\ e_counter' \in Nat
      /\ laundered' \subseteq 1 .. Len(out')
      /\ WellFormed(out', FirstCounter) /\ out' # <<>> /\ Continues'
      /\ skipped' \subseteq Stages \X Nat
  BY <1>1, <1>3, WritesType
<1>5. OutputOK'
  BY <1>4 DEF OutputOK
<1>6. NextRow => /\ next' \in Nat \ {0} /\ stage' \in {"rows", "sharedprefs"}
                 /\ stage' = "rows" => next' \in 1 .. Len(d_database)
  BY <1>1, AfterListPlace DEF NextRow
<1> QED
  BY <1>2, <1>4, <1>5, <1>6 DEF Goto

LEMMA AttachmentPreserves ==
  ASSUME SessionInv, task = "output", UNCHANGED taskVars, WriteAttachment \/ WriteSticker
  PROVE  SessionInv'
<1>1. OutputOK /\ PlaceOK /\ ContentOK /\ RowOK
  BY DEF SessionInv
<1>2. Writing /\ UNCHANGED restVars /\ pc = "done" /\ stage \notin {"written", "failed"}
      /\ UNCHANGED <<d_database, d_avatars, d_sharedpreferenceframes, d_keyvalueframes>>
  BY <1>1 DEF WriteAttachment, WriteSticker, Writing, restVars, PlaceOK
<1>3. CASE WriteAttachment
  <2>1. PICK att \in Attachments :
           /\ WriteKept(d_attachments[RowId], att)
           /\ d_attachments' = [d_attachments EXCEPT ![RowId].att = att]
           /\ d_stickers' = d_stickers
    BY <1>3, Zenon DEF WriteAttachment
  <2>2. RowId \in DOMAIN d_attachments /\ KeptMap(d_attachments, "ATTACHMENT")
    BY <1>1, <1>3 DEF WriteAttachment, RowOK, ContentOK
  <2>3. d_attachments[RowId] \in KeptFrames("ATTACHMENT") /\ "ATTACHMENT" \in WithAttachment
    BY <2>2, KeptMapType DEF WithAttachment
  <2>4. /\ OutputOK' /\ skipped' \subseteq Stages \X Nat
        /\ next' \in Nat \ {0} /\ stage' \in {"rows", "sharedprefs", "crashed", "failed"}
        /\ stage' = "rows" => next' \in 1 .. Len(d_database)
    BY <1>2, <2>1, <2>3, RowKept
  <2>5. KeptMap(d_attachments', "ATTACHMENT") /\ DOMAIN d_attachments' = DOMAIN d_attachments
    BY <2>1, <2>2, CacheType
  <2>6. ContentOK'
    BY <1>1, <1>2, <2>1, <2>5 DEF ContentOK, KeptMap
  <2>7. RowOK' /\ stage' \in Stages
    BY <1>2, <2>4 DEF RowOK, Stages
  <2> QED
    BY <1>2, <2>4, <2>5, <2>6, <2>7, Exported
<1>4. CASE WriteSticker
  <2>1. PICK att \in Attachments :
           /\ WriteKept(d_stickers[RowId], att)
           /\ d_stickers' = [d_stickers EXCEPT ![RowId].att = att]
           /\ d_attachments' = d_attachments
    BY <1>4, Zenon DEF WriteSticker
  <2>2. RowId \in DOMAIN d_stickers /\ KeptMap(d_stickers, "STICKER")
    BY <1>1, <1>4 DEF WriteSticker, RowOK, ContentOK
  <2>3. d_stickers[RowId] \in KeptFrames("STICKER") /\ "STICKER" \in WithAttachment
    BY <2>2, KeptMapType DEF WithAttachment
  <2>4. /\ OutputOK' /\ skipped' \subseteq Stages \X Nat
        /\ next' \in Nat \ {0} /\ stage' \in {"rows", "sharedprefs", "crashed", "failed"}
        /\ stage' = "rows" => next' \in 1 .. Len(d_database)
    BY <1>2, <2>1, <2>3, RowKept
  <2>5. KeptMap(d_stickers', "STICKER")
    BY <2>1, <2>2, CacheType
  <2>6. ContentOK'
    BY <1>1, <1>2, <2>1, <2>5 DEF ContentOK, KeptMap
  <2>7. RowOK' /\ stage' \in Stages
    BY <1>2, <2>4 DEF RowOK, Stages
  <2> QED
    BY <1>2, <2>1, <2>4, <2>6, <2>7, Exported
<1> QED
  BY <1>3, <1>4

LEMMA AvatarPreserves ==
  ASSUME SessionInv, task = "output", UNCHANGED taskVars, WriteAvatar
  PROVE  SessionInv'
<1>1. OutputOK /\ PlaceOK /\ ContentOK /\ Continues /\ pc = "done"
      /\ stage \notin {"written", "failed"} /\ next \in Nat \ {0} /\ skipped \subseteq Stages \X Nat
      /\ stage \in Stages /\ next \in Nat
  BY DEF SessionInv, WriteAvatar, OutputOK, PlaceOK, Writing
<1> DEFINE k == d_avatars[next]
<1>2. PICK result \in Results(k) :
         LET reading == attachmentData(k.att, result)
         IN  /\ Writes(k, reading) \/ FailsToRead(k, reading)
             /\ Goto("avatars", next + 1) \/ Goto("failed", 1)
             /\ d_avatars' = [d_avatars EXCEPT ![next].att = CacheAfter(k, reading)]
  BY Zenon DEF WriteAvatar
<1>3. /\ next \in DOMAIN d_avatars /\ d_avatars \in Seq(KeptFrames("AVATAR"))
      /\ k \in KeptFrames("AVATAR") /\ k.att \in Attachments /\ "AVATAR" \in WithAttachment
  <2>1. next <= Len(d_avatars) /\ d_avatars \in Seq(KeptFrames("AVATAR"))
    BY <1>1 DEF WriteAvatar, ContentOK
  <2>2. next \in DOMAIN d_avatars /\ k \in KeptFrames("AVATAR")
    BY <1>1, <2>1
  <2> QED
    BY <2>1, <2>2 DEF KeptFrames, WithAttachment
<1>4. result \in ReturnCode
  BY ResultsType
<1> DEFINE reading == attachmentData(k.att, result)
           cache == CacheAfter(k, reading)
           kept == [k EXCEPT !.att = cache]
<1>5. cache \in Attachments
  BY <1>3, <1>4, CacheAfterType
<1>6. /\ Writes(k, reading) \/ FailsToRead(k, reading)
      /\ Goto("avatars", next + 1) \/ Goto("failed", 1)
      /\ d_avatars' = [d_avatars EXCEPT ![next].att = cache]
  BY <1>2
<1> HIDE DEF k, reading, cache
<1>7. /\ out' \in Seq(Blocks(Ids)) /\ e_counter' \in Nat
      /\ laundered' \subseteq 1 .. Len(out')
      /\ WellFormed(out', FirstCounter) /\ out' # <<>> /\ Continues'
      /\ skipped' \subseteq Stages \X Nat
  BY <1>1, <1>3, <1>6, WritesType
<1>8. stage' \in {"avatars", "failed"} /\ next' \in Nat \ {0}
  BY <1>1, <1>6 DEF Goto
<1>9. d_avatars' \in Seq(KeptFrames("AVATAR"))
  <2>1. kept \in KeptFrames("AVATAR")
    BY <1>3, <1>5 DEF KeptFrames
  <2>2. d_avatars' = [d_avatars EXCEPT ![next] = kept]
    BY <1>6 DEF k
  <2> HIDE DEF kept
  <2> QED
    BY <1>3, <2>1, <2>2
<1>10. UNCHANGED <<restVars, d_attachments, d_stickers>>
  BY DEF WriteAvatar
<1>11. ContentOK'
  BY <1>1, <1>9, <1>10 DEF ContentOK, KeptMap, restVars
<1>12. OutputOK' /\ RowOK' /\ stage' \in Stages
  BY <1>7, <1>8 DEF OutputOK, RowOK, Stages
<1> QED
  BY <1>1, <1>7, <1>8, <1>10, <1>11, <1>12, Exported

LEMMA OutputPreserves == SessionInv /\ Output => SessionInv'
<1> SUFFICES ASSUME SessionInv, Output
             PROVE  SessionInv'
  OBVIOUS
<1>1. task = "output" /\ UNCHANGED taskVars /\ ExportStep
  BY DEF Output
<1> QED
  BY <1>1, StartExportPreserves, PlainPreserves, AttachmentPreserves, AvatarPreserves,
     LastPreserves DEF ExportStep

(* What the first run left is a file as any other.                              *)
LEMMA ReopenPreserves == SessionInv /\ Reopen => SessionInv'
<1> SUFFICES ASSUME SessionInv, Reopen
             PROVE  SessionInv'
  OBVIOUS
<1>1. TypeOK /\ OutputOK /\ PlaceOK
  BY DEF SessionInv
<1>2. /\ stage \in {"written", "failed"} /\ out # <<>>
      /\ file' = out /\ command' = [command EXCEPT !.keyok = TRUE]
      /\ run' = 2 /\ UNCHANGED <<task, todo, out, e_counter, laundered, stage, next, skipped>>
  BY DEF Reopen, exportVars, encryptorVars
<1>3. StartLoad'
  <2>1. OpenFile(FirstCounter)'
    BY DEF Reopen, OpenFile
  <2> QED
    BY <2>1 DEF Reopen, StartLoad
<1>4. FileTypeOK' /\ command' \in CommandLines
  <2>1. Len(out) > 0
    BY <1>1, <1>2 DEF OutputOK
  <2>2. command' \in CommandLines
    BY <1>1, <1>2 DEF TypeOK, CommandLines
  <2> QED
    BY <1>1, <1>2, <2>1, <2>2 DEF FileTypeOK, OutputOK
<1>5. TypeOK'
  <2>1. (FileTypeOK /\ command \in CommandLines /\ StartLoad)'
    BY <1>3, <1>4
  <2> QED
    BY <2>1, LoadStarts, PTL
<1>6. ContentOK'
  BY <1>3, ContentStarts, PTL
<1>7. ~Writing /\ ~Writing' /\ todo = {}
  BY <1>1, <1>2 DEF Writing, PlaceOK
<1>8. OutputOK'
  BY <1>1, <1>2, <1>7 DEF OutputOK
<1>9. PlaceOK'
  BY <1>1, <1>2, <1>7 DEF PlaceOK
<1>10. RowOK'
  BY <1>2 DEF RowOK
<1> QED
  BY <1>5, <1>6, <1>8, <1>9, <1>10 DEF SessionInv

LEMMA SessionInductive == SessionInv /\ [SessionNext]_vars => SessionInv'
<1> SUFFICES ASSUME SessionInv, [SessionNext]_vars
             PROVE  SessionInv'
  OBVIOUS
<1>1. CASE UNCHANGED vars
  <2>1. /\ UNCHANGED <<restVars, keptVars, exportVars, task, todo, run>>
    BY <1>1 DEF vars, loadVars, contentVars, restVars, keptVars, taskVars
  <2>2. TypeOK' /\ ContentOK' /\ UNCHANGED <<d_database, d_attachments, d_stickers, pc>>
    BY <2>1, RestKeepsType, ContentStays DEF SessionInv
  <2>3. OutputOK' /\ PlaceOK' /\ RowOK'
    BY <2>1, <2>2 DEF SessionInv, OutputOK, Continues, PlaceOK, RowOK, RowId, Writing,
                     exportVars, encryptorVars
  <2> QED
    BY <2>2, <2>3 DEF SessionInv
<1> QED
  BY <1>1, LoadPreserves, StartTaskPreserves, UseMediaPreserves, OutputPreserves, ReopenPreserves
     DEF SessionNext

(* Whatever the file holds, the exporter's state has its types.                 *)
THEOREM SessionTypeCorrect == SessionSpec => []SessionTypeOK
<1>1. SessionInv => SessionTypeOK
  BY DEF SessionInv, SessionTypeOK, OutputOK, PlaceOK
<1> QED
  BY <1>1, SessionStarts, SessionInductive, PTL DEF SessionSpec

(* At every moment, also after a write that failed, what is on disk is in the   *)
(* order the decryptor expects, each block under the counter value it will      *)
(* have come to.                                                                *)
THEOREM OutputAlwaysWellFormed == SessionSpec => []OutputWellFormed
<1>1. SessionInv => OutputWellFormed
  BY DEF SessionInv, OutputOK, OutputWellFormed
<1> QED
  BY <1>1, SessionStarts, SessionInductive, PTL DEF SessionSpec

-----------------------------------------------------------------------------
(* With the wrong passphrase *)

(* ... a call returns the header or an InvalidFrame, or nothing.                *)
LEMMA GetsNoVersion ==
  ASSUME TypeOK, ~keyok, getFrame, frame' # <<>>
  PROVE  frame'[1].frame.type # "DATABASEVERSION"
<1>1. CASE GetHeader
  <2>1. frame' = Returned(file[1].frame, 0, 1)
    BY <1>1, Zenon DEF GetHeader
  <2>2. file[1].frame.type = "HEADER"
    BY FileType DEF TypeOK, FileTypeOK, WellFormed
  <2> QED
    BY <2>1, <2>2 DEF Returned
<1>2. ASSUME NEW f, NEW n, NEW k, NEW c, Reads(f, n, k, c)
      PROVE  frame'[1].frame.type # "DATABASEVERSION"
  <2>1. k \in pos .. Len(file) /\ GiveFrame(f, n, k, c) /\ f = InvalidFrame
    BY <1>2, Zenon DEF Reads
  <2>2. k \in Nat
    BY <2>1 DEF TypeOK, StreamTypeOK
  <2> QED
    BY <2>1, <2>2, Gives DEF InvalidFrame
<1>3. ~ReadsDamaged
  BY DEF ReadsDamaged
<1> QED
  BY <1>1, <1>2, <1>3, Outcome, Zenon

LEMMA NoVersionLoads ==
  ASSUME TypeOK, ~keyok, NoVersion, Load
  PROVE  NoVersion'
<1>1. LoadNext /\ stage' = stage
  BY DEF Load, exportVars
<1>2. CASE CallGetFrame
  <2>1. getFrame /\ d_databaseversion' = d_databaseversion
    BY <1>2, Zenon DEF CallGetFrame, contentVars
  <2> QED
    BY <1>1, <2>1, GetsNoVersion DEF NoVersion
<1>3. CASE HandleFrame
  <2>1. /\ pc = "handle" /\ frame # <<>> /\ pc' # "handle"
        /\ \/ d_databaseversion' = d_databaseversion
           \/ d_databaseversion' = (d_databaseversion \/ frame[1].frame.type = "DATABASEVERSION")
    BY <1>3, Zenon DEF HandleFrame, Dispatch
  <2>2. ~d_databaseversion /\ frame[1].frame.type # "DATABASEVERSION"
    BY <2>1, Zenon DEF NoVersion
  <2>3. ~d_databaseversion'
    BY <2>1, <2>2, Zenon
  <2> QED
    BY <1>1, <2>1, <2>3, Zenon DEF NoVersion
<1>4. CASE HandleCrash \/ Finish
  <2>1. pc' # "handle" /\ d_databaseversion' = d_databaseversion
    BY <1>4, Zenon DEF HandleCrash, Finish, contentVars
  <2> QED
    BY <1>1, <2>1 DEF NoVersion
<1> QED
  BY <1>1, <1>2, <1>3, <1>4 DEF LoadNext

LEMMA NoVersionInductive ==
  SessionInv /\ NoVersionWithoutKey /\ [SessionNext]_vars => NoVersionWithoutKey'
<1> SUFFICES ASSUME SessionInv, NoVersionWithoutKey, [SessionNext]_vars, ~keyok'
             PROVE  NoVersion'
  BY DEF NoVersionWithoutKey
<1>1. CASE Load
  <2>1. command' = command
    BY <1>1, Zenon DEF Load, LoadNext, CallGetFrame, HandleFrame, HandleCrash, Finish
  <2> QED
    BY <1>1, <2>1, NoVersionLoads DEF keyok, NoVersionWithoutKey, SessionInv
<1>2. ASSUME UNCHANGED restVars, stage' \in {stage, "idle", "version", "failed", "crashed"}
      PROVE  NoVersion'
  <2>1. UNCHANGED <<command, d_databaseversion, pc, frame>>
    BY <1>2 DEF restVars, decryptorVars
  <2> QED
    BY <1>2, <2>1 DEF NoVersionWithoutKey, NoVersion, keyok
<1>3. CASE StartTask \/ UNCHANGED vars
  <2>1. UNCHANGED restVars /\ stage' = stage
    BY <1>3 DEF StartTask, vars, loadVars, exportVars, contentVars, restVars
  <2> QED
    BY <1>2, <2>1
<1>4. CASE UseMedia
  <2>1. UNCHANGED restVars /\ stage' \in {stage, "idle", "crashed"}
    BY <1>4, Zenon DEF UseMedia, DumpMedia, HTMLwriteAttachment, PassOver, Use
  <2> QED
    BY <1>2, <2>1
<1>5. CASE Output
  <2>1. ExportStep /\ UNCHANGED restVars
    BY <1>5 DEF Output, ExportStep, StartExport, RefuseExport, WriteVersion, WriteRow,
       WriteAttachment, WriteSticker, WriteSharedPref, WriteKeyValue, WriteAvatar,
       AvatarsWritten, WriteEnd, FlushFails, DiskFull
  <2>2. ~d_databaseversion /\ stage \in {"idle", "version", "failed", "crashed"}
    <3>1. command' = command
      BY <2>1 DEF restVars
    <3> QED
      BY <3>1, Zenon DEF NoVersionWithoutKey, NoVersion, keyok
  <2>3. StartExport \/ RefuseExport \/ WriteVersion \/ DiskFull
    BY <2>1, <2>2 DEF ExportStep, WriteRow, WriteAttachment, WriteSticker, WriteSharedPref,
       WriteKeyValue, WriteAvatar, AvatarsWritten, WriteEnd, FlushFails
  <2>4. stage' \in {"version", "failed"}
    BY <2>2, <2>3 DEF StartExport, RefuseExport, WriteVersion, DiskFull, Goto
  <2> QED
    BY <1>2, <2>1, <2>4
<1>6. CASE Reopen
  <2>1. keyok'
    BY <1>6 DEF Reopen, keyok, SessionInv, TypeOK, CommandLines
  <2> QED
    BY <2>1
<1> QED
  BY <1>1, <1>3, <1>4, <1>5, <1>6 DEF SessionNext

(* Without the right passphrase no session ends with a backup written: there is *)
(* no version frame to begin one with, whatever the damage to the file.         *)
THEOREM NothingWrittenWithoutKey == SessionSpec => []WrongKeyWritesNothing
<1>1. SessionInit => NoVersionWithoutKey
  BY DEF SessionInit, Init, StartLoad, NoVersionWithoutKey, NoVersion
<1>2. NoVersionWithoutKey => WrongKeyWritesNothing
  BY DEF NoVersionWithoutKey, NoVersion, WrongKeyWritesNothing
<1> QED
  BY <1>1, <1>2, SessionStarts, SessionInductive, NoVersionInductive, PTL DEF SessionSpec

-----------------------------------------------------------------------------
(* Data that failed to verify *)

LEMMA KeptIsClean ==
  ASSUME NEW r \in Returnable
  PROVE  Clean(Kept(r))
BY KeptType DEF Clean, Backed, Unread

(* A statement is executed once.                                                *)
LEMMA RowsStayDistinct ==
  ASSUME SessionInv, RowsDistinct, [SessionNext]_vars
  PROVE  RowsDistinct'
<1>1. CASE d_database' = d_database
  BY <1>1 DEF RowsDistinct
<1>2. CASE HandleFrame /\ ~StopsOnBadMac
  <2>1. frame # <<>> /\ Dispatch(frame[1])
    BY <1>2, Zenon DEF HandleFrame
  <2> DEFINE f == frame[1].frame
  <2>2. d_database' = IF Executes(f) THEN Append(d_database, f.id) ELSE d_database
    BY <2>1 DEF Dispatch
  <2>3. d_database \in Seq(Ids)
    BY DEF SessionInv, ContentOK
  <2>4. Executes(f) => \A i \in DOMAIN d_database : d_database[i] # f.id
    BY DEF Executes
  <2> DEFINE n == Len(d_database)
             id == f.id
  <2>5. CASE Executes(f)
    <3>1. d_database' = Append(d_database, id) /\ \A i \in 1 .. n : d_database[i] # id
      BY <2>2, <2>3, <2>4, <2>5
    <3>i. id \in Ids
      BY <2>1, ElementTypes DEF SessionInv, Returnable, Frames
    <3> HIDE DEF f, id
    <3>2. /\ DOMAIN d_database' = 1 .. n + 1 /\ d_database'[n + 1] = id
          /\ \A i \in 1 .. n : d_database'[i] = d_database[i]
          /\ n \in Nat /\ DOMAIN d_database = 1 .. n
      BY <2>3, <3>1, <3>i
    <3>3. ASSUME NEW i \in DOMAIN d_database', NEW j \in DOMAIN d_database',
                 d_database'[i] = d_database'[j]
          PROVE  i = j
      <4> HIDE DEF n
      <4>1. CASE i \in 1 .. n /\ j \in 1 .. n
        BY <3>2, <3>3, <4>1 DEF RowsDistinct
      <4>2. CASE i = n + 1 \/ j = n + 1
        BY <3>1, <3>2, <3>3, <4>2
      <4> QED
        BY <3>2, <3>3, <4>1, <4>2
    <3> QED
      BY <3>3 DEF RowsDistinct
  <2> QED
    BY <1>1, <2>2, <2>5
<1>3. CASE Reopen
  <2>1. d_database' = <<>>
    BY <1>3 DEF Reopen
  <2> QED
    BY <2>1 DEF RowsDistinct
<1>4. CASE Load
  BY <1>1, <1>2, <1>4, Zenon DEF Load, LoadNext, CallGetFrame, HandleFrame, HandleCrash, Finish,
     contentVars
<1>5. CASE UseMedia
  BY <1>1, <1>5, Zenon DEF UseMedia, DumpMedia, HTMLwriteAttachment, PassOver, Use, restVars
<1>6. CASE StartTask \/ Output \/ UNCHANGED vars
  BY <1>1, <1>6 DEF StartTask, Output, ExportStep, StartExport, RefuseExport, WriteVersion,
     WriteRow, WriteAttachment, WriteSticker, WriteSharedPref, WriteKeyValue, WriteAvatar,
     AvatarsWritten, WriteEnd, FlushFails, DiskFull, restVars, vars, loadVars, contentVars
<1> QED
  BY <1>3, <1>4, <1>5, <1>6 DEF SessionNext

(* What has just been read from the file holds nothing yet.                     *)
LEMMA CleanLoads ==
  ASSUME SessionInv, CleanSoFar, Load
  PROVE  CleanSoFar'
<1>1. LoadNext /\ UNCHANGED <<laundered, stage, next, task, todo>>
  BY DEF Load, exportVars, encryptorVars, taskVars
<1>2. stage \in {"idle", "written", "failed", "crashed"}
  <2>1. pc # "done"
    BY <1>1, Zenon DEF LoadNext, CallGetFrame, HandleFrame, HandleCrash, Finish
  <2> QED
    BY <2>1 DEF SessionInv, PlaceOK, Writing
<1>3. CASE stage # "idle"
  BY <1>1, <1>2, <1>3 DEF CleanSoFar
<1>4. CASE stage = "idle"
  <2>1. /\ \A id \in Ids : CleanRow(id)
        /\ \A m \in DOMAIN d_avatars : Clean(d_avatars[m])
    BY <1>4 DEF CleanSoFar
  <2>2. CASE UNCHANGED keptVars
    BY <1>1, <1>4, <2>1, <2>2 DEF CleanSoFar, CleanRow, keptVars
  <2>3. CASE HandleFrame /\ ~StopsOnBadMac
    <3>1. frame # <<>> /\ Dispatch(frame[1])
      BY <2>3, Zenon DEF HandleFrame
    <3> DEFINE r == frame[1]
               f == r.frame
    <3>2. r \in Returnable /\ f.id \in Ids
      BY <3>1, ElementTypes DEF SessionInv, Returnable, Frames
    <3>3. /\ d_attachments' = d_attachments \/ d_attachments' = Emplace(d_attachments, f.id, Kept(r))
          /\ d_stickers' = d_stickers \/ d_stickers' = Emplace(d_stickers, f.id, Kept(r))
          /\ d_avatars' = d_avatars \/ (d_avatars' = Append(d_avatars, Kept(r)) /\ f.type = "AVATAR")
      BY <3>1, Zenon DEF Dispatch
    <3>4. Clean(Kept(r))
      BY <3>2, KeptIsClean
    <3>5. ASSUME NEW id \in Ids
          PROVE  CleanRow(id)'
      <4>1. CleanRow(id)
        BY <2>1
      <4>2. id \in DOMAIN d_attachments' =>
              d_attachments'[id] = Kept(r) \/ (id \in DOMAIN d_attachments
                                                /\ d_attachments'[id] = d_attachments[id])
        BY <3>3 DEF Emplace
      <4>3. id \in DOMAIN d_stickers' =>
              d_stickers'[id] = Kept(r) \/ (id \in DOMAIN d_stickers
                                             /\ d_stickers'[id] = d_stickers[id])
        BY <3>3 DEF Emplace
      <4> QED
        BY <3>4, <4>1, <4>2, <4>3 DEF CleanRow
    <3>6. ASSUME NEW m \in DOMAIN d_avatars'
          PROVE  Clean(d_avatars'[m])
      <4>1. d_avatars \in Seq(KeptFrames("AVATAR"))
        BY DEF SessionInv, ContentOK
      <4>2. Kept(r) \in KeptFrames(f.type)
        BY <3>2, KeptType
      <4>3. d_avatars'[m] = Kept(r) \/ (m \in DOMAIN d_avatars /\ d_avatars'[m] = d_avatars[m])
        BY <3>3, <3>6, <4>1, <4>2
      <4> QED
        BY <2>1, <3>4, <4>3
    <3> QED
      BY <1>1, <1>4, <3>5, <3>6 DEF CleanSoFar
  <2> QED
    BY <1>1, <2>2, <2>3, Zenon DEF LoadNext, CallGetFrame, HandleFrame, HandleCrash, Finish,
       contentVars, keptVars
<1> QED
  BY <1>3, <1>4

(* Dumping an attachment leaves nothing of it in memory.                        *)
LEMMA CleanUses ==
  ASSUME SessionInv, ~exporthtml, CleanSoFar, UseMedia
  PROVE  CleanSoFar'
<1>1. PICK i \in todo : DumpMedia(i) \/ HTMLwriteAttachment(i) \/ PassOver(i)
  BY DEF UseMedia
<1>2. PICK s, att : Use(s, i, att) /\ stage' \in {"idle", "crashed"}
                    /\ \/ att = d_attachments[i].att
                       \/ \E result \in Results(d_attachments[i]) :
                            att = clearData(attachmentData(d_attachments[i].att, result).att)
  <2>1. CASE DumpMedia(i)
    BY <2>1, Zenon DEF DumpMedia
  <2>2. ~HTMLwriteAttachment(i)
    BY Zenon DEF HTMLwriteAttachment, Use, CleanSoFar
  <2>3. CASE PassOver(i)
    BY <2>3 DEF PassOver, Use
  <2> QED
    BY <1>1, <2>1, <2>2, <2>3
<1>3. /\ stage = "idle" /\ task = s /\ todo' \subseteq todo /\ task' = task
      /\ d_attachments' = [d_attachments EXCEPT ![i].att = att]
      /\ UNCHANGED <<d_stickers, d_avatars, laundered, next>>
  BY <1>2 DEF Use, encryptorVars
<1>4. /\ \A id \in Ids : CleanRow(id)
      /\ \A m \in DOMAIN d_avatars : Clean(d_avatars[m])
      /\ laundered = {} /\ task # "htmling"
  BY <1>3 DEF CleanSoFar
<1>5. i \in DOMAIN d_attachments /\ i \in Ids /\ KeptMap(d_attachments, "ATTACHMENT")
      /\ d_attachments[i].att \in Attachments
  BY KeptMapType DEF SessionInv, PlaceOK, ContentOK, KeptMap
<1>6. att.data # "corrupt" /\ ~att.noclear
  <2>1. Clean(d_attachments[i])
    BY <1>4, <1>5 DEF CleanRow
  <2>2. CASE att = d_attachments[i].att
    BY <2>1, <2>2 DEF Clean
  <2>3. ASSUME NEW result \in Results(d_attachments[i]),
               att = clearData(attachmentData(d_attachments[i].att, result).att)
        PROVE  att.data # "corrupt" /\ ~att.noclear
    <3> DEFINE read == attachmentData(d_attachments[i].att, result).att
    <3>1. read \in Attachments /\ ~read.noclear
      BY <1>5, <2>1, ResultsType, ReadingType DEF Clean
    <3> HIDE DEF read
    <3>2. att.data = "none" /\ ~att.noclear
      BY <2>3, <3>1, ClearedType DEF read
    <3> QED
      BY <3>2
  <2> QED
    BY <1>2, <2>2, <2>3
<1>7. ASSUME NEW id \in Ids
      PROVE  CleanRow(id)'
  <2>1. /\ DOMAIN d_attachments' = DOMAIN d_attachments
        /\ d_attachments'[i].att = att
        /\ id \in DOMAIN d_attachments /\ id # i => d_attachments'[id] = d_attachments[id]
    BY <1>3, <1>5, CachedAt
  <2>2. CleanRow(id)
    BY <1>4
  <2> QED
    BY <1>3, <1>6, <2>1, <2>2 DEF CleanRow, Clean
<1> QED
  BY <1>2, <1>3, <1>4, <1>7 DEF CleanSoFar

(* Data that verified, or is still on disk, is written as what it is.           *)
LEMMA LaundersNothing ==
  ASSUME NEW k, k.att \in Attachments, Clean(k), NEW result \in ReturnCode,
         \/ Writes(k, attachmentData(k.att, result))
         \/ FailsToRead(k, attachmentData(k.att, result))
  PROVE  laundered' = laundered
<1> DEFINE reading == attachmentData(k.att, result)
<1>1. reading.data # "corrupt"
  BY ReadingType DEF Clean
<1> HIDE DEF reading
<1>2. Writes(k, reading) \/ FailsToRead(k, reading)
  BY DEF reading
<1> QED
  BY <1>1, <1>2 DEF Writes, WritesPlain, WritesData, Skips, FailsToRead, EncryptFrame,
     EncryptWithAttachment, encryptorVars

(* A row's frame: only its own cache has changed, and the next row is another.  *)
LEMMA CleanRowKept ==
  ASSUME SessionInv, RowsDistinct, CleanSoFar, task = "output", task' = task,
         WriteAttachment \/ WriteSticker
  PROVE  CleanSoFar'
<1>1. /\ stage \in {"attachment", "sticker"} /\ next \in 1 .. Len(d_database)
      /\ UNCHANGED <<d_database, d_avatars>> /\ d_database \in Seq(Ids)
  BY DEF WriteAttachment, WriteSticker, SessionInv, RowOK, ContentOK, restVars
<1>2. /\ laundered = {} /\ CleanRow(RowId)
      /\ \A m \in next .. Len(d_database) : CleanRow(d_database[m])
      /\ \A m \in DOMAIN d_avatars : Clean(d_avatars[m])
  BY <1>1 DEF CleanSoFar, RowId
<1>3. ASSUME NEW k, NEW t, k \in KeptFrames(t), Clean(k), NEW att, WriteKept(k, att)
      PROVE  /\ laundered' = laundered
             /\ stage' \in {"rows", "sharedprefs", "failed", "crashed"}
             /\ stage' = "rows" => next' = next + 1
  <2>1. PICK result \in Results(k) :
           LET reading == attachmentData(k.att, result)
           IN  /\ Writes(k, reading) \/ FailsToRead(k, reading)
               /\ NextRow \/ Goto("crashed", 1) \/ Goto("failed", 1)
    BY <1>3, Zenon DEF WriteKept
  <2>2. k.att \in Attachments /\ result \in ReturnCode
    BY <1>3, ResultsType DEF KeptFrames
  <2>3. laundered' = laundered
    BY <1>3, <2>1, <2>2, LaundersNothing
  <2>4. NextRow => /\ stage' \in {"rows", "sharedprefs"}
                   /\ stage' = "rows" => next' = next + 1
    BY <1>1, AfterListPlace DEF NextRow
  <2> QED
    BY <2>1, <2>3, <2>4 DEF Goto
<1>4. /\ laundered' = laundered
      /\ stage' \in {"rows", "sharedprefs", "failed", "crashed"}
      /\ stage' = "rows" => next' = next + 1
  <2>1. CASE WriteAttachment
    <3>1. RowId \in DOMAIN d_attachments /\ KeptMap(d_attachments, "ATTACHMENT")
      BY <2>1 DEF SessionInv, RowOK, ContentOK, WriteAttachment
    <3>2. d_attachments[RowId] \in KeptFrames("ATTACHMENT") /\ Clean(d_attachments[RowId])
      BY <1>2, <3>1, KeptMapType DEF CleanRow
    <3>3. \E att : WriteKept(d_attachments[RowId], att)
      BY <2>1, Zenon DEF WriteAttachment
    <3> QED
      BY <1>3, <3>2, <3>3
  <2>2. CASE WriteSticker
    <3>1. RowId \in DOMAIN d_stickers /\ KeptMap(d_stickers, "STICKER")
      BY <2>2 DEF SessionInv, RowOK, ContentOK, WriteSticker
    <3>2. d_stickers[RowId] \in KeptFrames("STICKER") /\ Clean(d_stickers[RowId])
      BY <1>2, <3>1, KeptMapType DEF CleanRow
    <3>3. \E att : WriteKept(d_stickers[RowId], att)
      BY <2>2, Zenon DEF WriteSticker
    <3> QED
      BY <1>3, <3>2, <3>3
  <2> QED
    BY <2>1, <2>2
<1>5. ASSUME NEW m \in next + 1 .. Len(d_database)
      PROVE  CleanRow(d_database[m])'
  <2> DEFINE id == d_database[m]
  <2>1. m \in next .. Len(d_database) /\ m \in DOMAIN d_database /\ next \in DOMAIN d_database
        /\ m # next
    BY <1>1
  <2>2. id # RowId /\ CleanRow(id) /\ d_database'[m] = id
    BY <1>1, <1>2, <2>1 DEF RowsDistinct, RowId
  <2> HIDE DEF id
  <2>3. /\ d_attachments' = d_attachments
           \/ \E att : d_attachments' = [d_attachments EXCEPT ![RowId].att = att]
        /\ d_stickers' = d_stickers
           \/ \E att : d_stickers' = [d_stickers EXCEPT ![RowId].att = att]
    BY Zenon DEF WriteAttachment, WriteSticker
  <2>4. /\ DOMAIN d_attachments' = DOMAIN d_attachments
        /\ id \in DOMAIN d_attachments => d_attachments'[id] = d_attachments[id]
    BY <2>2, <2>3
  <2>5. /\ DOMAIN d_stickers' = DOMAIN d_stickers
        /\ id \in DOMAIN d_stickers => d_stickers'[id] = d_stickers[id]
    BY <2>2, <2>3
  <2> QED
    BY <2>2, <2>4, <2>5 DEF CleanRow
<1>6. stage' = "rows" => \A m \in next' .. Len(d_database') : CleanRow(d_database[m])'
  BY <1>1, <1>4, <1>5
<1> QED
  BY <1>1, <1>2, <1>4, <1>6 DEF CleanSoFar

(* An avatar: only its own cache has changed, and it is not written again.      *)
LEMMA CleanAvatarKept ==
  ASSUME SessionInv, CleanSoFar, task = "output", task' = task, WriteAvatar
  PROVE  CleanSoFar'
<1>1. /\ stage = "avatars" /\ next \in 1 .. Len(d_avatars)
      /\ d_avatars \in Seq(KeptFrames("AVATAR"))
  BY DEF WriteAvatar, SessionInv, PlaceOK, ContentOK
<1> DEFINE k == d_avatars[next]
<1>2. /\ laundered = {} /\ k.att \in Attachments /\ Clean(k)
      /\ \A m \in next .. Len(d_avatars) : Clean(d_avatars[m])
  <2>1. \A m \in next .. Len(d_avatars) : Clean(d_avatars[m])
    BY <1>1 DEF CleanSoFar
  <2>2. k \in KeptFrames("AVATAR") /\ next \in next .. Len(d_avatars)
    BY <1>1
  <2>3. k.att \in Attachments
    BY <2>2 DEF KeptFrames
  <2> QED
    BY <2>1, <2>2, <2>3 DEF CleanSoFar
<1>3. PICK result \in Results(k) :
         LET reading == attachmentData(k.att, result)
         IN  /\ Writes(k, reading) \/ FailsToRead(k, reading)
             /\ Goto("avatars", next + 1) \/ Goto("failed", 1)
             /\ d_avatars' = [d_avatars EXCEPT ![next].att = CacheAfter(k, reading)]
  BY <1>1, Zenon DEF WriteAvatar
<1>4. laundered' = laundered
  BY <1>2, <1>3, ResultsType, LaundersNothing
<1>5. stage' = "failed" \/ (stage' = "avatars" /\ next' = next + 1)
  BY <1>3 DEF Goto
<1>6. /\ Len(d_avatars') = Len(d_avatars)
      /\ \A m \in next + 1 .. Len(d_avatars) : d_avatars'[m] = d_avatars[m]
  BY <1>1, <1>3
<1>7. stage' = "avatars" => \A m \in next' .. Len(d_avatars') : Clean(d_avatars'[m])
  BY <1>1, <1>2, <1>5, <1>6
<1> QED
  BY <1>2, <1>4, <1>5, <1>7 DEF CleanSoFar

LEMMA CleanExports ==
  ASSUME SessionInv, RowsDistinct, CleanSoFar, Output
  PROVE  CleanSoFar'
<1>1. /\ task = "output" /\ task' = task /\ ExportStep
      /\ laundered = {} /\ next \in Nat \ {0}
      /\ d_database \in Seq(Ids)
  BY DEF Output, taskVars, CleanSoFar, SessionInv, PlaceOK, ContentOK
<1>2. ASSUME UNCHANGED <<restVars, keptVars>>
      PROVE  /\ UNCHANGED <<d_database, d_avatars>>
             /\ \A id \in Ids : CleanRow(id)' = CleanRow(id)
  BY <1>2 DEF restVars, keptVars, CleanRow
<1>3. EncryptFrame(Plain("DATABASEVERSION", AnyId)) => laundered' = {}
  BY <1>1 DEF EncryptFrame
<1>4. CASE StartExport \/ RefuseExport \/ WriteVersion
  <2>1. UNCHANGED <<restVars, keptVars>> /\ laundered' = {} /\ stage \in {"idle", "version"}
    BY <1>1, <1>4 DEF StartExport, RefuseExport, WriteVersion, OpenEncryptor, EncryptFrame,
       encryptorVars
  <2>2. /\ \A id \in Ids : CleanRow(id)
        /\ \A m \in DOMAIN d_avatars : Clean(d_avatars[m])
    BY <2>1 DEF CleanSoFar
  <2>3. stage' \in {"version", "failed", "rows", "sharedprefs"} /\ next' = 1
    BY <1>4, Zenon DEF StartExport, RefuseExport, WriteVersion, Goto
  <2>4. \A m \in 1 .. Len(d_database) : CleanRow(d_database[m])
    BY <1>1, <2>2
  <2>5. /\ \A id \in Ids : CleanRow(id)'
        /\ \A m \in DOMAIN d_avatars' : Clean(d_avatars'[m])
        /\ \A m \in 1 .. Len(d_database') : CleanRow(d_database[m])'
    BY <1>1, <1>2, <2>1, <2>2, <2>4
  <2> QED
    BY <1>1, <2>1, <2>3, <2>5 DEF CleanSoFar
<1>5. CASE WriteRow
  <2>1. /\ UNCHANGED <<restVars, keptVars>> /\ laundered' = {} /\ stage = "rows"
        /\ \/ Goto("attachment", next) \/ Goto("sticker", next) \/ NextRow
    BY <1>1, <1>5 DEF WriteRow, EncryptFrame
  <2>2. /\ \A m \in next .. Len(d_database) : CleanRow(d_database[m])
        /\ \A m \in DOMAIN d_avatars : Clean(d_avatars[m])
    BY <2>1 DEF CleanSoFar
  <2>3. NextRow => /\ stage' \in {"rows", "sharedprefs"}
                   /\ stage' = "rows" => next' = next + 1
    BY <1>1, AfterListPlace DEF NextRow
  <2>4. /\ stage' \in {"attachment", "sticker", "rows", "sharedprefs"}
        /\ stage' # "sharedprefs" => next' \in {next, next + 1}
    BY <2>1, <2>3 DEF Goto
  <2>5. \A m \in next .. Len(d_database) : CleanRow(d_database[m])'
    <3>1. \A m \in next .. Len(d_database) : d_database[m] \in Ids
      BY <1>1
    <3> QED
      BY <1>2, <2>1, <2>2, <3>1
  <2>6. stage' # "sharedprefs" => \A m \in next' .. Len(d_database') : CleanRow(d_database[m])'
    BY <1>1, <1>2, <2>1, <2>4, <2>5
  <2> QED
    BY <1>1, <1>2, <2>1, <2>2, <2>4, <2>6 DEF CleanSoFar
<1>6. CASE WriteSharedPref \/ WriteKeyValue \/ AvatarsWritten
  <2>1. /\ UNCHANGED <<restVars, keptVars>> /\ laundered' = {}
        /\ \/ stage \in {"sharedprefs", "keyvalues"}
              /\ stage' \in {"sharedprefs", "keyvalues", "avatars"}
           \/ stage' = "end"
    BY <1>1, <1>6 DEF WriteSharedPref, WriteKeyValue, AvatarsWritten, EncryptFrame, encryptorVars,
       Goto
  <2>2. stage' = "avatars" => next' = 1
    BY <1>6 DEF WriteSharedPref, WriteKeyValue, AvatarsWritten, Goto
  <2>3. UNCHANGED <<d_database, d_avatars>>
    BY <1>2, <2>1
  <2> QED
    BY <1>1, <2>1, <2>2, <2>3 DEF CleanSoFar
<1>7. CASE WriteEnd \/ FlushFails \/ DiskFull
  <2>1. laundered' = {} /\ stage' \in {"written", "failed"}
    BY <1>1, <1>7 DEF WriteEnd, FlushFails, DiskFull, EncryptFrame, WriteFails, Goto
  <2> QED
    BY <1>1, <2>1 DEF CleanSoFar
<1> QED
  BY <1>1, <1>4, <1>5, <1>6, <1>7, CleanRowKept, CleanAvatarKept DEF ExportStep

LEMMA CleanInductive ==
  SessionInv /\ CleanWithoutHtml /\ [SessionNext]_vars => CleanWithoutHtml'
<1> SUFFICES ASSUME SessionInv, CleanWithoutHtml, [SessionNext]_vars
             PROVE  CleanWithoutHtml'
  OBVIOUS
<1>1. RowsDistinct'
  BY RowsStayDistinct DEF CleanWithoutHtml
<1> SUFFICES ASSUME ~exporthtml'
             PROVE  CleanSoFar'
  BY <1>1 DEF CleanWithoutHtml
<1>2. ~exporthtml
  <2>1. command' = command \/ command' = [command EXCEPT !.keyok = TRUE]
    <3>1. CASE Reopen
      BY <3>1 DEF Reopen
    <3>2. CASE Load
      BY <3>2, Zenon DEF Load, LoadNext, CallGetFrame, HandleFrame, HandleCrash, Finish
    <3>3. CASE UseMedia
      BY <3>3, Zenon DEF UseMedia, DumpMedia, HTMLwriteAttachment, PassOver, Use, restVars
    <3>4. CASE StartTask \/ Output \/ UNCHANGED vars
      BY <3>4 DEF StartTask, Output, ExportStep, StartExport, RefuseExport, WriteVersion,
         WriteRow, WriteAttachment, WriteSticker, WriteSharedPref, WriteKeyValue, WriteAvatar,
         AvatarsWritten, WriteEnd, FlushFails, DiskFull, restVars, vars, loadVars
    <3> QED
      BY <3>1, <3>2, <3>3, <3>4 DEF SessionNext
  <2> QED
    BY <2>1 DEF exporthtml, SessionInv, TypeOK, CommandLines
<1>3. RowsDistinct /\ CleanSoFar
  BY <1>2 DEF CleanWithoutHtml
<1>4. CASE StartTask
  <2>1. /\ UNCHANGED <<loadVars, exportVars>>
        /\ task' = "htmling" => todo' = {}
    BY <1>2, <1>4 DEF StartTask
  <2> QED
    BY <1>3, <2>1 DEF CleanSoFar, CleanRow, loadVars, contentVars, exportVars, encryptorVars
<1>5. CASE Reopen
  BY <1>3, <1>5 DEF Reopen, CleanSoFar, exportVars, encryptorVars
<1>6. CASE UNCHANGED vars
  BY <1>3, <1>6 DEF CleanSoFar, CleanRow, vars, loadVars, contentVars, exportVars,
     encryptorVars, taskVars
<1> QED
  BY <1>2, <1>3, <1>4, <1>5, <1>6, CleanLoads, CleanUses, CleanExports DEF SessionNext

(* Without an export to HTML no data that failed to verify is given a valid MAC *)
(* of its own, also when the media was dumped and when it is all kept in memory. *)
THEOREM OnlyVerifiedIsWritten == SessionSpec => []DumpKeepsVerified
<1>1. SessionInit => CleanWithoutHtml
  <2> SUFFICES ASSUME SessionInit
               PROVE  CleanWithoutHtml
    OBVIOUS
  <2>1. /\ d_database = <<>> /\ d_attachments = <<>> /\ d_stickers = <<>> /\ d_avatars = <<>>
        /\ laundered = {} /\ stage = "idle" /\ task = "open" /\ todo = {}
    BY DEF SessionInit, Init, StartLoad
  <2> QED
    BY <2>1 DEF CleanWithoutHtml, RowsDistinct, CleanSoFar, CleanRow
<1>2. CleanWithoutHtml => DumpKeepsVerified
  BY DEF CleanWithoutHtml, CleanSoFar, DumpKeepsVerified, OnlyVerifiedData
<1> QED
  BY <1>1, <1>2, SessionStarts, SessionInductive, CleanInductive, PTL DEF SessionSpec

-----------------------------------------------------------------------------
(* What the second run has *)

LEMMA TracedStutter ==
  ASSUME Traced, UNCHANGED <<file, decryptorVars, delivered, d_endframe>>,
         pc' = pc \/ pc' = "done" \/ pc' = "crashed" \/ pc' = "get"
  PROVE  Traced'
<1>1. frame' = frame /\ delivered' = delivered /\ d_endframe' = d_endframe
      /\ \A r : FromFile(r)' = FromFile(r)
  BY DEF FromFile, decryptorVars
<1> QED
  BY <1>1 DEF Traced

LEMMA TracedStarts == StartLoad => Traced
BY DEF StartLoad, Traced

(* What getFrame returns is a frame of the file.                                *)
LEMMA GetsTraced ==
  ASSUME TypeOK, getFrame, file' = file, frame' # <<>>
  PROVE  FromFile(frame[1])'
<1>t. Len(file) \in Nat \ {0} /\ pos \in Nat \ {0}
  BY FileType DEF TypeOK, StreamTypeOK
<1>1. CASE GetHeader
  <2>1. frame' = Returned(file[1].frame, 0, 1)
    BY <1>1, Zenon DEF GetHeader
  <2>2. file[1].kind = "frame" /\ file[1].frame.size = "none"
    BY <1>t DEF TypeOK, FileTypeOK, WellFormed
  <2>3. frame'[1].at = 1 /\ frame'[1].frame = file[1].frame /\ 1 \in 1 .. Len(file)
    BY <1>t, <2>1 DEF Returned
  <2> QED
    BY <2>2, <2>3 DEF FromFile, CarriesData
<1>2. ASSUME NEW f, NEW n, NEW k, NEW c, Reads(f, n, k, c)
      PROVE  FromFile(frame[1])'
  <2>1. /\ k \in pos .. Len(file) /\ file[k].kind = "frame" /\ GiveFrame(f, n, k, c)
        /\ f = InvalidFrame \/ f = file[k].frame
    BY <1>2, Zenon DEF Reads
  <2>2. k \in Nat /\ k \in 1 .. Len(file)
    BY <1>t, <2>1
  <2>3. /\ frame'[1].frame = f /\ frame'[1].at = k
        /\ CarriesData(f) => frame'[1].data = k + 1
    BY <2>1, <2>2, Gives
  <2>4. InvalidFrame' = InvalidFrame
    BY DEF InvalidFrame
  <2> QED
    BY <2>1, <2>2, <2>3, <2>4 DEF FromFile
<1>3. CASE ReadsDamaged
  <2>1. /\ pos <= Len(file) /\ file[pos].kind = "frame" /\ file[pos].damage # "none"
        /\ frame'[1].frame = file[pos].frame /\ frame'[1].at = pos
    BY <1>3 DEF ReadsDamaged, Returned
  <2>2. pos \in 1 .. Len(file)
    BY <1>t, <2>1
  <2> QED
    BY <2>1, <2>2 DEF FromFile
<1> QED
  BY <1>1, <1>2, <1>3, Outcome, Zenon

LEMMA TracedInductive == TypeOK /\ Traced /\ [LoadNext]_loadVars => Traced'
<1> SUFFICES ASSUME TypeOK, Traced, [LoadNext]_loadVars
             PROVE  Traced'
  OBVIOUS
<1>1. CASE CallGetFrame
  <2>1. getFrame /\ UNCHANGED <<file, delivered, d_endframe>>
    BY <1>1, Zenon DEF CallGetFrame, contentVars
  <2>2. frame' # <<>> => FromFile(frame[1])'
    BY <2>1, GetsTraced
  <2>3. \A i \in 1 .. Len(delivered) : FromFile(delivered[i])'
    BY <2>1 DEF Traced, FromFile
  <2> QED
    BY <2>1, <2>2, <2>3 DEF Traced
<1>2. CASE HandleFrame
  <2>0. frame # <<>> /\ pc = "handle"
    BY <1>2, Zenon DEF HandleFrame
  <2>1. CASE pc' = "done" /\ UNCHANGED <<file, decryptorVars, delivered, d_endframe>>
    BY <2>1, TracedStutter
  <2>2. CASE /\ pc' = "get" /\ delivered' = Append(delivered, frame[1]) /\ file' = file
             /\ d_endframe' = IF frame[1].frame.type = "END" THEN "read" ELSE d_endframe
    <3>1. /\ Len(delivered) \in Nat /\ Len(delivered') = Len(delivered) + 1
          /\ delivered'[Len(delivered) + 1] = frame[1]
          /\ \A i \in 1 .. Len(delivered) : delivered'[i] = delivered[i]
      BY <2>0, <2>2, Appended
    <3>2. FromFile(frame[1]) /\ \A i \in 1 .. Len(delivered) : FromFile(delivered[i])
      BY <2>0 DEF Traced
    <3>4. ASSUME NEW i \in 1 .. Len(delivered')
          PROVE  FromFile(delivered[i])'
      <4>1. delivered'[i] = frame[1] \/ (i \in 1 .. Len(delivered) /\ delivered'[i] = delivered[i])
        BY <3>1
      <4> QED
        BY <2>2, <3>2, <4>1 DEF FromFile
    <3>5. d_endframe' = "read" => \E i \in 1 .. Len(delivered') : delivered'[i].frame.type = "END"
      <4>1. CASE frame[1].frame.type = "END"
        BY <3>1, <4>1
      <4>2. CASE d_endframe = "read"
        <5>1. PICK i \in 1 .. Len(delivered) : delivered[i].frame.type = "END"
          BY <4>2 DEF Traced
        <5>2. i \in 1 .. Len(delivered') /\ delivered'[i].frame.type = "END"
          BY <3>1, <5>1
        <5> QED
          BY <5>2
      <4> QED
        BY <2>2, <4>1, <4>2
    <3> QED
      BY <2>2, <3>4, <3>5 DEF Traced
  <2> QED
    BY <1>2, <2>1, <2>2, Handles, Zenon
<1>3. CASE HandleCrash
  BY <1>3, TracedStutter, Zenon DEF HandleCrash, contentVars
<1>4. CASE Finish
  <2>1. /\ UNCHANGED <<file, decryptorVars, delivered>> /\ pc' = "done"
        /\ d_endframe' = d_endframe \/ d_endframe' = "added"
    BY <1>4, Zenon DEF Finish
  <2>2. frame' = frame /\ \A r : FromFile(r)' = FromFile(r)
    BY <2>1 DEF FromFile, decryptorVars
  <2> QED
    BY <2>1, <2>2 DEF Traced
<1>5. CASE UNCHANGED loadVars
  BY <1>5, TracedStutter, Zenon DEF loadVars, contentVars
<1> QED
  BY <1>1, <1>2, <1>3, <1>4, <1>5 DEF LoadNext

(* Nothing that is written has a wrong size or is damaged while the write goes on. *)
LEMMA SoundAppends ==
  ASSUME NEW s, NEW S, s \in Seq(S), s # <<>>, Sound(s), s[Len(s)].damage = "none",
         NEW b \in S, b.damage = "none", b.frame.size # "misfit"
  PROVE  Sound(Append(s, b)) /\ Append(s, b)[Len(Append(s, b))].damage = "none"
         /\ Append(s, b) \in Seq(S) /\ Append(s, b) # <<>>
<1> DEFINE t == Append(s, b)
           n == Len(s)
<1>1. /\ t \in Seq(S) /\ Len(t) = n + 1 /\ t[n + 1] = b /\ n \in Nat \ {0} /\ t # <<>>
      /\ \A k \in 1 .. n : t[k] = s[k]
  OBVIOUS
<1> HIDE DEF t
<1>2. \A k \in 1 .. n : s[k].damage = "none" /\ s[k].frame.size # "misfit"
  <2>1. \A k \in 1 .. n : k = n \/ k \in 1 .. n - 1
    BY <1>1
  <2> QED
    BY <2>1 DEF Sound
<1>3. \A k \in 1 .. n + 1 : t[k].damage = "none" /\ t[k].frame.size # "misfit"
  <2>1. \A k \in 1 .. n + 1 : k = n + 1 \/ k \in 1 .. n
    BY <1>1
  <2> QED
    BY <1>1, <1>2, <2>1
<1>4. \A k \in 1 .. Len(t) - 1 : k \in 1 .. n + 1
  BY <1>1
<1> QED
  BY <1>1, <1>3, <1>4 DEF Sound, t

LEMMA SoundFrame ==
  ASSUME SessionInv, SoundOutput, Writing, NEW f \in Frames(Ids), f.size = "none", EncryptFrame(f)
  PROVE  SoundOutput'
<1>1. /\ out \in Seq(Blocks(Ids)) /\ out # <<>> /\ Sound(out)
      /\ out[Len(out)].damage = "none" /\ e_counter \in Nat
  BY DEF SessionInv, OutputOK, Continues, SoundOutput
<1> DEFINE b == Block("frame", f, e_counter)
<1>2. b \in Blocks(Ids) /\ b.damage = "none" /\ b.frame = f
  BY <1>1, BlockType
<1>3. out' = Append(out, b)
  BY DEF EncryptFrame
<1> HIDE DEF b
<1>4. Sound(Append(out, b)) /\ Append(out, b)[Len(Append(out, b))].damage = "none"
  BY <1>1, <1>2, SoundAppends
<1> QED
  BY <1>3, <1>4 DEF SoundOutput, Sound

LEMMA SoundData ==
  ASSUME SessionInv, SoundOutput, Writing, NEW f \in Frames(Ids), f.size # "none",
         NEW data, EncryptWithAttachment(f, data)
  PROVE  SoundOutput'
<1>1. /\ out \in Seq(Blocks(Ids)) /\ out # <<>> /\ Sound(out)
      /\ out[Len(out)].damage = "none" /\ e_counter \in Nat /\ e_counter + 1 \in Nat
  BY DEF SessionInv, OutputOK, Continues, SoundOutput
<1> DEFINE g == Sized(f)
           a == Block("frame", g, e_counter)
           b == Block("data", g, e_counter + 1)
           s == Append(out, a)
<1>g. g \in Frames(Ids) /\ g.size = "fits"
  BY SizedType
<1>2. /\ a \in Blocks(Ids) /\ a.damage = "none" /\ a.frame = g
      /\ b \in Blocks(Ids) /\ b.damage = "none" /\ b.frame = g
  BY <1>1, <1>g, BlockType
<1>3. out' = out \o <<a, b>>
  BY DEF EncryptWithAttachment
<1> HIDE DEF a, b, g
<1>4. out' = Append(s, b)
  BY <1>1, <1>2, <1>3
<1> HIDE DEF s
<1>5. Sound(s) /\ s[Len(s)].damage = "none" /\ s \in Seq(Blocks(Ids)) /\ s # <<>>
  BY <1>1, <1>2, <1>g, SoundAppends DEF s
<1>6. Sound(Append(s, b)) /\ Append(s, b)[Len(Append(s, b))].damage = "none"
  BY <1>2, <1>5, <1>g, SoundAppends
<1> QED
  BY <1>4, <1>6 DEF SoundOutput, Sound

LEMMA SoundFailed ==
  ASSUME SessionInv, SoundOutput, WriteFails, ~Writing'
  PROVE  SoundOutput'
<1>1. out \in Seq(Blocks(Ids)) /\ Sound(out)
  BY DEF SessionInv, OutputOK, SoundOutput
<1>2. PICK k \in 1 .. Len(out), d \in {"none", "cut", "cutmac"} :
             out' = [SubSeq(out, 1, k) EXCEPT ![k].damage = d]
  BY Zenon DEF WriteFails
<1> DEFINE s == SubSeq(out, 1, k)
           b == [out[k] EXCEPT !.damage = d]
<1>3. /\ s \in Seq(Blocks(Ids)) /\ Len(s) = k /\ k \in Nat \ {0} /\ Len(out) \in Nat
      /\ \A j \in 1 .. k : s[j] = out[j] /\ out[j] \in Blocks(Ids)
  BY <1>1
<1> HIDE DEF s
<1>4. out' = [s EXCEPT ![k] = [s[k] EXCEPT !.damage = d]]
  BY <1>2 DEF s
<1>5. b \in Blocks(Ids) /\ b.frame = out[k].frame
  BY <1>3 DEF Blocks, Damage
<1>6. [s[k] EXCEPT !.damage = d] = b
  BY <1>3
<1> HIDE DEF b
<1>7. out' = [s EXCEPT ![k] = b]
  BY <1>4, <1>6
<1>8. /\ Len(out') = k
      /\ \A j \in 1 .. k : out'[j] = IF j = k THEN b ELSE out[j]
  BY <1>3, <1>5, <1>7
<1>9. \A j \in 1 .. k : out'[j].frame.size # "misfit"
  <2>1. \A j \in 1 .. k : out[j].frame.size # "misfit"
    BY <1>1, <1>3 DEF Sound
  <2> QED
    BY <1>3, <1>5, <1>8, <2>1
<1>10. \A j \in 1 .. k - 1 : out'[j].damage = "none"
  <2>1. \A j \in 1 .. k - 1 : j \in 1 .. Len(out) - 1 /\ j \in 1 .. k /\ j # k
    BY <1>3
  <2> QED
    BY <1>1, <1>8, <2>1 DEF Sound
<1> QED
  BY <1>8, <1>9, <1>10 DEF SoundOutput, Sound

(* The frames of kept data, with it or without.                                 *)
LEMMA SoundKept ==
  ASSUME SessionInv, SoundOutput, Writing, NEW k, k.frame \in Frames(Ids), NEW reading,
         Writes(k, reading) \/ FailsToRead(k, reading)
  PROVE  SoundOutput' \/ out' = out
<1>1. CASE WritesPlain(k)
  BY <1>1, SoundFrame DEF WritesPlain
<1>2. CASE WritesData(k, reading)
  BY <1>2, SoundData DEF WritesData
<1>3. CASE Skips(k, reading) \/ FailsToRead(k, reading)
  BY <1>3 DEF Skips, FailsToRead, encryptorVars
<1> QED
  BY <1>1, <1>2, <1>3 DEF Writes

LEMMA SoundStays ==
  ASSUME SoundOutput, out' = out, Writing' => Writing
  PROVE  SoundOutput'
BY DEF SoundOutput, Sound

LEMMA SoundExports ==
  ASSUME SessionInv, SoundOutput, Output
  PROVE  SoundOutput'
<1>1. CASE StartExport
  <2>1. out' = <<Block("frame", file[1].frame, 0)>>
    BY <1>1 DEF StartExport, OpenEncryptor
  <2>2. file[1].frame.size = "none"
    BY FileType DEF SessionInv, TypeOK, FileTypeOK, WellFormed
  <2> DEFINE b == Block("frame", file[1].frame, 0)
  <2>3. b.damage = "none" /\ b.frame.size = "none"
    BY <2>2 DEF Block
  <2> HIDE DEF b
  <2>4. Len(out') = 1 /\ out'[1] = b
    BY <2>1 DEF b
  <2> QED
    BY <2>3, <2>4 DEF SoundOutput, Sound
<1>2. CASE RefuseExport \/ AvatarsWritten
  <2>1. out' = out /\ (Writing' => Writing)
    BY <1>2 DEF RefuseExport, AvatarsWritten, encryptorVars, Goto, Writing
  <2> QED
    BY <2>1, SoundStays
<1>3. CASE WriteVersion \/ WriteRow \/ WriteSharedPref \/ WriteKeyValue \/ WriteEnd
  <2>1. /\ Writing
        /\ UNCHANGED encryptorVars
           \/ \E t \in FRAMETYPE, id \in Ids : EncryptFrame(Plain(t, id))
    <3>1. /\ Writing /\ next \in Nat \ {0} /\ d_database \in Seq(Ids)
          /\ d_sharedpreferenceframes \in Seq(Ids) /\ d_keyvalueframes \in Seq(Ids)
      BY <1>3 DEF WriteVersion, WriteRow, WriteSharedPref, WriteKeyValue, WriteEnd, Writing,
         SessionInv, PlaceOK, ContentOK
    <3>2. {"DATABASEVERSION", "SQLSTATEMENT", "SHAREDPREFERENCE", "KEYVALUE", "END"} \subseteq FRAMETYPE
      BY DEF FRAMETYPE
    <3>3. CASE WriteVersion \/ WriteEnd
      BY <3>1, <3>2, <3>3, AnyIdType DEF WriteVersion, WriteEnd
    <3>4. CASE WriteRow
      <4>1. RowId \in Ids
        BY <3>1, <3>4 DEF WriteRow, SessionInv, RowOK, RowId
      <4> QED
        BY <3>1, <3>2, <3>4, <4>1 DEF WriteRow
    <3>5. CASE WriteSharedPref
      <4>1. next <= Len(d_sharedpreferenceframes) => d_sharedpreferenceframes[next] \in Ids
        BY <3>1
      <4> QED
        BY <3>1, <3>2, <3>5, <4>1 DEF WriteSharedPref
    <3>6. CASE WriteKeyValue
      <4>1. next <= Len(d_keyvalueframes) => d_keyvalueframes[next] \in Ids
        BY <3>1
      <4> QED
        BY <3>1, <3>2, <3>6, <4>1 DEF WriteKeyValue
    <3> QED
      BY <1>3, <3>3, <3>4, <3>5, <3>6
  <2>2. CASE UNCHANGED encryptorVars
    BY <2>1, <2>2, SoundStays DEF encryptorVars
  <2> QED
    BY <2>1, <2>2, PlainType, SoundFrame
<1>4. ASSUME Writing, NEW t, NEW k \in KeptFrames(t), NEW att, WriteKept(k, att)
      PROVE  SoundOutput'
  <2>1. k.frame \in Frames(Ids)
    BY <1>4 DEF KeptFrames
  <2>2. \E reading : Writes(k, reading) \/ FailsToRead(k, reading)
    BY <1>4, Zenon DEF WriteKept
  <2> QED
    BY <1>4, <2>1, <2>2, SoundKept, SoundStays
<1>5. CASE WriteAttachment
  <2>1. d_attachments[RowId] \in KeptFrames("ATTACHMENT") /\ Writing
    BY <1>5, KeptMapType DEF SessionInv, RowOK, ContentOK, WriteAttachment, Writing
  <2>2. \E att : WriteKept(d_attachments[RowId], att)
    BY <1>5, Zenon DEF WriteAttachment
  <2> QED
    BY <1>4, <2>1, <2>2
<1>6. CASE WriteSticker
  <2>1. d_stickers[RowId] \in KeptFrames("STICKER") /\ Writing
    BY <1>6, KeptMapType DEF SessionInv, RowOK, ContentOK, WriteSticker, Writing
  <2>2. \E att : WriteKept(d_stickers[RowId], att)
    BY <1>6, Zenon DEF WriteSticker
  <2> QED
    BY <1>4, <2>1, <2>2
<1>7. CASE WriteAvatar
  <2>1. /\ next \in 1 .. Len(d_avatars) /\ Writing
        /\ d_avatars \in Seq(KeptFrames("AVATAR"))
    BY <1>7 DEF WriteAvatar, SessionInv, PlaceOK, ContentOK, Writing
  <2>2. d_avatars[next] \in KeptFrames("AVATAR")
    BY <2>1
  <2>3. d_avatars[next].frame \in Frames(Ids)
    BY <2>2 DEF KeptFrames
  <2>4. \E reading : Writes(d_avatars[next], reading) \/ FailsToRead(d_avatars[next], reading)
    BY <1>7, Zenon DEF WriteAvatar
  <2> QED
    BY <2>1, <2>3, <2>4, SoundKept, SoundStays
<1>8. CASE FlushFails \/ DiskFull
  <2>1. WriteFails /\ ~Writing'
    BY <1>8 DEF FlushFails, DiskFull, Goto, Writing
  <2> QED
    BY <2>1, SoundFailed
<1> QED
  BY <1>1, <1>2, <1>3, <1>5, <1>6, <1>7, <1>8 DEF Output, ExportStep

(* In the second run only the load does anything.                               *)
LEMMA OnlyLoads ==
  ASSUME SessionInv, run = 2, SessionNext
  PROVE  Load
<1>1. stage \in {"written", "failed"}
  BY DEF SessionInv, PlaceOK
<1>2. ~StartTask
  BY <1>1 DEF StartTask, Opened
<1>3. ~UseMedia
  BY <1>1, Zenon DEF UseMedia, DumpMedia, HTMLwriteAttachment, PassOver, Use
<1>4. ~Output
  BY <1>1 DEF Output, ExportStep, StartExport, RefuseExport, WriteVersion, WriteRow,
     WriteAttachment, WriteSticker, WriteSharedPref, WriteKeyValue, WriteAvatar,
     AvatarsWritten, WriteEnd, FlushFails, DiskFull, Writing
<1>5. ~Reopen
  BY DEF Reopen
<1> QED
  BY <1>2, <1>3, <1>4, <1>5 DEF SessionNext

(* What it keeps is what it was handed.                                         *)
LEMMA SecondRunLoads ==
  ASSUME SessionInv, SecondRun, run = 2, Load
  PROVE  SecondRun'
<1>1. LoadNext /\ run' = run
  BY DEF Load, taskVars
<1>2. file' = file
  BY <1>1, Zenon DEF LoadNext, CallGetFrame, HandleFrame, HandleCrash, Finish
<1>3. /\ Sound(file')
      /\ \A i \in DOMAIN d_attachments : KeptAsRead(d_attachments[i])
      /\ \A i \in DOMAIN d_stickers : KeptAsRead(d_stickers[i])
      /\ \A i \in DOMAIN d_avatars : KeptAsRead(d_avatars[i])
  BY <1>2 DEF SecondRun
<1>4. CASE UNCHANGED <<d_attachments, d_stickers, d_avatars, delivered>>
  BY <1>1, <1>3, <1>4 DEF SecondRun, KeptAsRead
<1>5. CASE HandleFrame /\ ~StopsOnBadMac
  <2>1. frame # <<>> /\ Dispatch(frame[1]) /\ delivered' = Append(delivered, frame[1])
    BY <1>5, Zenon DEF HandleFrame
  <2> DEFINE r == frame[1]
             f == r.frame
  <2>2. /\ d_attachments' = d_attachments \/ d_attachments' = Emplace(d_attachments, f.id, Kept(r))
        /\ d_stickers' = d_stickers \/ d_stickers' = Emplace(d_stickers, f.id, Kept(r))
        /\ d_avatars' = d_avatars \/ (d_avatars' = Append(d_avatars, Kept(r)) /\ f.type = "AVATAR")
    BY <2>1, Zenon DEF Dispatch
  <2>3. /\ Len(delivered) \in Nat /\ Len(delivered') = Len(delivered) + 1
        /\ delivered'[Len(delivered) + 1] = r
        /\ \A i \in 1 .. Len(delivered) : delivered'[i] = delivered[i]
    BY <2>1, Appended DEF SessionInv
  <2>4. ASSUME NEW k, k = Kept(r) \/ KeptAsRead(k)
        PROVE  KeptAsRead(k)'
    <3>1. \E i \in 1 .. Len(delivered') : k = Kept(delivered'[i])
      <4>1. CASE k = Kept(r)
        BY <2>3, <4>1
      <4>2. CASE KeptAsRead(k)
        <5>1. PICK i \in 1 .. Len(delivered) : k = Kept(delivered[i])
          BY <4>2 DEF KeptAsRead
        <5>2. i \in 1 .. Len(delivered') /\ delivered'[i] = delivered[i]
          BY <2>3, <5>1
        <5> QED
          BY <5>1, <5>2
      <4> QED
        BY <2>4, <4>1, <4>2
    <3> QED
      BY <3>1 DEF KeptAsRead
  <2>5. ASSUME NEW i \in DOMAIN d_attachments'
        PROVE  KeptAsRead(d_attachments[i])'
    <3>1. d_attachments'[i] = Kept(r) \/ KeptAsRead(d_attachments'[i])
      BY <1>3, <2>2, <2>5 DEF Emplace
    <3> QED
      BY <2>4, <3>1 DEF KeptAsRead
  <2>6. ASSUME NEW i \in DOMAIN d_stickers'
        PROVE  KeptAsRead(d_stickers[i])'
    <3>1. d_stickers'[i] = Kept(r) \/ KeptAsRead(d_stickers'[i])
      BY <1>3, <2>2, <2>6 DEF Emplace
    <3> QED
      BY <2>4, <3>1 DEF KeptAsRead
  <2>7. ASSUME NEW i \in DOMAIN d_avatars'
        PROVE  KeptAsRead(d_avatars[i])'
    <3>1. d_avatars \in Seq(KeptFrames("AVATAR")) /\ Kept(r) \in KeptFrames(f.type)
      BY <2>1, ElementTypes, KeptType DEF SessionInv, ContentOK
    <3>2. d_avatars'[i] = Kept(r) \/ (i \in DOMAIN d_avatars /\ d_avatars'[i] = d_avatars[i])
      BY <2>2, <2>7, <3>1
    <3> QED
      BY <1>3, <2>4, <3>2 DEF KeptAsRead
  <2> QED
    BY <1>1, <1>3, <2>5, <2>6, <2>7 DEF SecondRun
<1> QED
  BY <1>1, <1>4, <1>5, Zenon DEF LoadNext, CallGetFrame, HandleFrame, HandleCrash, Finish,
     contentVars

LEMMA ReadableInductive ==
  SessionInv /\ OwnData /\ Readable /\ [SessionNext]_vars => OwnData' /\ Readable'
<1> SUFFICES ASSUME SessionInv, OwnData, Traced, SoundOutput, SecondRun, [SessionNext]_vars
             PROVE  OwnData' /\ Traced' /\ SoundOutput' /\ SecondRun'
  BY DEF Readable
<1>1. CASE Load
  <2>1. LoadNext /\ TypeOK /\ UNCHANGED <<out, stage, run>>
    BY <1>1 DEF Load, SessionInv, exportVars, encryptorVars, taskVars
  <2>2. OwnData' /\ Traced'
    BY <2>1, OwnDataInductive, TracedInductive
  <2>3. SoundOutput'
    BY <2>1, SoundStays DEF Writing
  <2>4. run = 2 => SecondRun'
    BY <1>1, SecondRunLoads
  <2> QED
    BY <2>1, <2>2, <2>3, <2>4 DEF SecondRun
<1>2. CASE Reopen
  <2>1. StartLoad' /\ run' = 2 /\ file' = out /\ out' = out /\ stage' = stage
    <3>1. OpenFile(FirstCounter)'
      BY <1>2 DEF Reopen, OpenFile
    <3> QED
      BY <1>2, <3>1 DEF Reopen, StartLoad, exportVars, encryptorVars
  <2>2. OwnData' /\ Traced'
    BY <2>1, OwnDataStarts, TracedStarts, PTL
  <2>3. SoundOutput'
    BY <2>1, SoundStays DEF Writing
  <2>4. SecondRun'
    <3>1. d_attachments' = <<>> /\ d_stickers' = <<>> /\ d_avatars' = <<>>
      BY <2>1 DEF StartLoad
    <3>2. Sound(file')
      BY <2>1 DEF SoundOutput, Sound
    <3> QED
      BY <3>1, <3>2 DEF SecondRun
  <2> QED
    BY <2>2, <2>3, <2>4
<1>3. CASE StartTask \/ UseMedia \/ Output \/ UNCHANGED vars
  <2>1. UNCHANGED restVars /\ run' = run
    <3>1. CASE StartTask \/ UNCHANGED vars
      BY <3>1 DEF StartTask, vars, loadVars, contentVars, restVars, taskVars
    <3>2. CASE UseMedia
      BY <3>2, Zenon DEF UseMedia, DumpMedia, HTMLwriteAttachment, PassOver, Use
    <3>3. CASE Output
      BY <3>3 DEF Output, ExportStep, StartExport, RefuseExport, WriteVersion,
         WriteRow, WriteAttachment, WriteSticker, WriteSharedPref, WriteKeyValue, WriteAvatar,
         AvatarsWritten, WriteEnd, FlushFails, DiskFull, taskVars
    <3> QED
      BY <1>3, <3>1, <3>2, <3>3
  <2>2. UNCHANGED <<file, decryptorVars, delivered, d_endframe, pc>>
    BY <2>1 DEF restVars
  <2>3. OwnData' /\ Traced'
    BY <2>2, OwnDataStutter, TracedStutter
  <2>4. SoundOutput'
    <3>1. CASE StartTask \/ UNCHANGED vars
      BY <3>1, SoundStays DEF StartTask, vars, exportVars, encryptorVars, Writing
    <3>2. CASE UseMedia
      <4>1. out' = out /\ stage' \in {stage, "idle", "crashed"}
        BY <3>2, Zenon DEF UseMedia, DumpMedia, HTMLwriteAttachment, PassOver, Use, encryptorVars
      <4> QED
        BY <4>1, SoundStays DEF Writing
    <3> QED
      BY <1>3, <3>1, <3>2, SoundExports
  <2>5. SecondRun'
    <3>1. CASE run = 2
      <4>1. UNCHANGED vars
        <5>1. CASE SessionNext
          <6>1. LoadNext
            BY <3>1, <5>1, OnlyLoads DEF Load
          <6>2. pc' # pc
            BY <6>1, Zenon DEF LoadNext, CallGetFrame, HandleFrame, HandleCrash, Finish
          <6> QED
            BY <2>2, <6>2
        <5> QED
          BY <5>1
      <4>2. UNCHANGED <<d_attachments, d_stickers, d_avatars>>
        BY <4>1 DEF vars, loadVars, contentVars
      <4> QED
        BY <2>1, <2>2, <4>2 DEF SecondRun, Sound, KeptAsRead
    <3>2. CASE run # 2
      BY <2>1, <3>2 DEF SecondRun
    <3> QED
      BY <3>1, <3>2
  <2> QED
    BY <2>3, <2>4, <2>5
<1> QED
  BY <1>1, <1>2, <1>3 DEF SessionNext

(* Once the end was read, a frame that has data is followed by it, undamaged.   *)
LEMMA ReadWithoutError ==
  ASSUME TypeOK, OwnData, Traced, Sound(file), d_endframe = "read",
         NEW i \in 1 .. Len(delivered), CarriesData(delivered[i].frame)
  PROVE  Results(Kept(delivered[i])) = {"OK"}
<1> DEFINE r == delivered[i]
           n == Len(file)
<1>1. /\ FileTypeOK /\ WellFormed(file, FirstCounter) /\ n \in Nat \ {0}
      /\ \A k \in 1 .. n : file[k].frame \in Frames(Ids)
  <2>1. FileTypeOK /\ WellFormed(file, FirstCounter) /\ n \in Nat \ {0} /\ file \in Seq(Blocks(Ids))
    BY FileType DEF TypeOK, FileTypeOK
  <2>2. \A k \in 1 .. n : file[k] \in Blocks(Ids)
    BY <2>1
  <2> QED
    BY <2>1, <2>2 DEF Blocks
<1>2. \A k \in 1 .. n : file[k].frame.type = "END" => k = n
  <2>1. file[1].frame.type = "HEADER" /\ \A k \in 2 .. n : file[k].frame.type = "END" => k = n
    BY <1>1 DEF WellFormed
  <2> QED
    BY <1>1, <2>1
<1>3. file[n].frame.type = "END"
  <2>1. PICK e \in 1 .. Len(delivered) : delivered[e].frame.type = "END"
    BY DEF Traced
  <2>2. FromFile(delivered[e]) /\ delivered[e].frame # InvalidFrame
    BY <2>1 DEF Traced, InvalidFrame
  <2>3. delivered[e].at \in 1 .. n /\ file[delivered[e].at].frame.type = "END"
    BY <2>1, <2>2 DEF FromFile
  <2> QED
    BY <1>2, <2>3
<1> DEFINE at == r.at
<1>4. /\ at \in 1 .. n /\ file[at].kind = "frame" /\ r.frame = file[at].frame
      /\ r.data = at + 1 \/ file[at].damage # "none"
  BY InvalidFrameType DEF Traced, FromFile
<1> HIDE DEF at
<1>5. file[at].frame.type # "END" /\ at # n /\ at \in 1 .. n - 1
  <2>1. file[at].frame.type # "END"
    BY <1>4 DEF CarriesData, WithAttachment
  <2> QED
    BY <1>1, <1>3, <1>4, <2>1
<1>6. file[at].damage = "none" /\ r.data = at + 1
  BY <1>4, <1>5 DEF Sound
<1>7. file[at + 1].kind = "data" /\ file[at + 1].frame = file[at].frame /\ at + 1 <= n
  BY <1>1, <1>4, <1>5, DataBehind
<1>8. at + 1 \in 1 .. n - 1
  BY <1>1, <1>3, <1>5, <1>7
<1>9. file[at + 1].damage = "none"
  BY <1>8 DEF Sound
<1>10. file[at + 1].iv = r.iv
  <2>1. Own(r) /\ r.data # 0 /\ r.data <= n
    BY <1>4, <1>6, <1>7 DEF OwnData
  <2> QED
    BY <1>6, <2>1 DEF Own
<1>11. r.frame.size = "fits"
  <2>1. file[at].frame.size # "misfit" /\ file[at].frame \in Frames(Ids)
    BY <1>1, <1>4 DEF Sound
  <2> QED
    BY <1>4, <2>1 DEF CarriesData, Frames, Sizes
<1>12. /\ Kept(r).att = Backed /\ Kept(r).block = at + 1 /\ Kept(r).iv = r.iv
       /\ Kept(r).frame = r.frame
  BY <1>4, <1>6 DEF Kept
<1> HIDE DEF r
<1> DEFINE k == Kept(r)
<1>13. k.att.reader /\ ~(k.block > n) /\ k.block = at + 1
  BY <1>1, <1>7, <1>12, <1>8 DEF Backed
<1>14. file[k.block].damage = "none" /\ file[k.block].iv = k.iv /\ k.frame.size = "fits"
  BY <1>9, <1>10, <1>11, <1>12
<1> HIDE DEF k
<1>15. Results(k) = {"OK"}
  BY <1>13, <1>14 DEF Results
<1> QED
  BY <1>15 DEF k, r

(* Once the second run has read an end frame, all the data it has the frames of *)
(* can be read: each under its own counter value and with its right size.       *)
THEOREM ReopenedIsReadable == SessionSpec => []OutputReadable
<1>1. SessionInit => OwnData /\ Readable
  <2> SUFFICES ASSUME SessionInit
               PROVE  OwnData /\ Readable
    OBVIOUS
  <2>1. StartLoad /\ out = <<>> /\ stage = "idle" /\ run = 1
    BY DEF SessionInit, Init
  <2>2. OwnData /\ Traced
    BY <2>1, OwnDataStarts, TracedStarts
  <2> QED
    BY <2>1, <2>2 DEF Readable, SoundOutput, Sound, SecondRun, Writing
<1>2. SessionInv /\ OwnData /\ Readable => OutputReadable
  <2> SUFFICES ASSUME SessionInv, OwnData, Readable, run = 2, d_endframe = "read",
                      NEW map \in {d_attachments, d_stickers, d_avatars},
                      NEW i \in DOMAIN map, map[i].frame.size # "none"
               PROVE  Results(map[i]) = {"OK"}
    BY DEF OutputReadable, Reloaded
  <2>1. TypeOK /\ Traced /\ Sound(file)
    BY DEF SessionInv, Readable, SecondRun
  <2>2. KeptAsRead(map[i])
    BY DEF Readable, SecondRun
  <2>3. PICK j \in 1 .. Len(delivered) : map[i] = Kept(delivered[j])
    BY <2>2 DEF KeptAsRead
  <2>4. map[i].frame.type \in WithAttachment
    <3>1. CASE map = d_attachments \/ map = d_stickers
      <4>1. PICK t \in WithAttachment : KeptMap(map, t)
        BY <3>1 DEF SessionInv, ContentOK, WithAttachment
      <4> QED
        BY <4>1, KeptMapType
    <3>2. CASE map = d_avatars
      <4>1. map[i] \in KeptFrames("AVATAR")
        BY <3>2 DEF SessionInv, ContentOK
      <4> QED
        BY <4>1 DEF KeptFrames, WithAttachment
    <3> QED
      BY <3>1, <3>2
  <2>5. map[i].frame = delivered[j].frame
    <3>1. delivered[j] \in Returnable
      BY <2>1, ElementTypes
    <3> QED
      BY <2>3, <3>1, KeptType
  <2>6. CarriesData(delivered[j].frame)
    BY <2>4, <2>5 DEF CarriesData
  <2> QED
    BY <2>1, <2>3, <2>6, ReadWithoutError
<1> QED
  BY <1>1, <1>2, SessionStarts, SessionInductive, ReadableInductive, PTL DEF SessionSpec
=============================================================================
