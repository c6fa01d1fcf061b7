---------------------------- MODULE ExportToDir_proofs ----------------------------
(* exportBackupToDir and initFromDir, for any backups, directories and lists of  *)
(* any length, however many steps fail: what a half-way export leaves is not     *)
(* opened, or has no rows, what a finished one leaves gives back what was in     *)
(* memory, and every step is one of OfferedBackup.                               *)
(*                                                                               *)
(* IInv says where a database is, HeldInv what the directory holds of the backup *)
(* at each stage, DirInv what a directory is at any time, whatever failed.       *)
EXTENDS ExportToDir, Induction, TLAPS

-----------------------------------------------------------------------------
(* The stages an export goes through before there is a database, or dies in.    *)
Halfway == {"header", "version", "attachments", "avatars", "sharedprefs", "keyvalues",
            "stickers", "end", "database", "crashed"}

IInv ==
  /\ stage \in Halfway \cup {"prepare", "clearing", "refused", "filling", "done"}
  /\ stage \in Halfway => Database \notin DOMAIN dir
  /\ stage = "filling" /\ Database \in DOMAIN dir => dir[Database] = <<>>

-----------------------------------------------------------------------------
(* The order of the stages: the database is the last. *)
LEMMA StageOrder ==
  /\ \A s \in Halfway \ {"crashed", "database"} : After(s) \in Halfway
  /\ After("database") = "filling" /\ After("filling") = "done"
<1>1. DOMAIN Order = 1 .. 11
  BY DEF Order
<1>2. /\ Order[1] = "header" /\ Order[2] = "version" /\ Order[3] = "attachments"
      /\ Order[4] = "avatars" /\ Order[5] = "sharedprefs" /\ Order[6] = "keyvalues"
      /\ Order[7] = "stickers" /\ Order[8] = "end" /\ Order[9] = "database"
      /\ Order[10] = "filling" /\ Order[11] = "done"
  BY DEF Order
<1>3. ASSUME NEW i \in 1 .. 10
      PROVE  After(Order[i]) = Order[i + 1]
  <2>1. \A j \in DOMAIN Order : Order[j] = Order[i] => j = i
    BY <1>1, <1>2
  <2>2. (CHOOSE j \in DOMAIN Order : Order[j] = Order[i]) = i
    BY <1>1, <2>1
  <2>3. After(Order[i]) = Order[1 + (CHOOSE j \in DOMAIN Order : Order[j] = Order[i])]
    BY DEF After
  <2>4. 1 + i = i + 1
    OBVIOUS
  <2> QED BY <2>2, <2>3, <2>4
<1>4. /\ After("header") = "version" /\ After("version") = "attachments"
      /\ After("attachments") = "avatars" /\ After("avatars") = "sharedprefs"
      /\ After("sharedprefs") = "keyvalues" /\ After("keyvalues") = "stickers"
      /\ After("stickers") = "end" /\ After("end") = "database"
      /\ After("database") = "filling" /\ After("filling") = "done"
  BY <1>2, <1>3
<1> QED BY <1>4 DEF Halfway

(* An action that goes on with the next frame, or the next stage.               *)
LEMMA AdvanceStaysHalfway ==
  ASSUME NEW count, Advance(count), stage \in Halfway \ {"crashed", "database"}
  PROVE  stage' \in Halfway
BY StageOrder DEF Advance, Halfway

LEMMA PassOverStaysHalfway ==
  ASSUME NEW list, PassOver(list), stage \in Halfway \ {"crashed", "database"}
  PROVE  stage' \in Halfway /\ dir' = dir
BY StageOrder DEF PassOver, Halfway

-----------------------------------------------------------------------------
(* A file adds its own name to the directory and no other.                      *)
LEMMA WrittenNames ==
  ASSUME NEW d, NEW name, NEW content, NEW blank,
         name # Database, Database \notin DOMAIN d,
         NEW w \in Written(d, name, content, blank)
  PROVE  Database \notin DOMAIN w.dir
<1>1. \A c : DOMAIN With(d, name, c) = DOMAIN d \cup {name}
  BY DEF With
<1>2. w.dir = d \/ \E c : w.dir = With(d, name, c)
  BY DEF Written
<1> QED BY <1>1, <1>2

LEMMA FrameNames ==
  ASSUME NEW kind, NEW key, kind # "database"
  PROVE  /\ Name(kind, key, "sbf") # Database /\ Name(kind, key, "bin") # Database
         /\ Single(kind) # Database
BY DEF Name, Database, Single

LEMMA SingleKeeps ==
  ASSUME NEW s, NEW kind, NEW text, NEW present, kind # "database",
         s \in Halfway \ {"crashed", "database"}, IInv, WriteSingle(s, kind, text, present)
  PROVE  IInv'
<1>1. stage = s /\ Database \notin DOMAIN dir
  BY DEF WriteSingle, IInv
<1>2. stage' \in Halfway
  BY <1>1, AdvanceStaysHalfway DEF WriteSingle
<1>3. Database \notin DOMAIN dir'
  <2>1. CASE ~present
    BY <1>1, <2>1 DEF WriteSingle
  <2>2. CASE present
    <3>1. PICK w \in Written(dir, Single(kind), text, <<>>) : dir' = w.dir
      BY <2>2 DEF WriteSingle
    <3> QED BY <1>1, <3>1, FrameNames, WrittenNames
  <2> QED BY <2>1, <2>2
<1> QED BY <1>2, <1>3 DEF IInv, Halfway

LEMMA NumberedKeeps ==
  ASSUME NEW s, NEW kind, NEW list, kind # "database",
         s \in Halfway \ {"crashed", "database"}, IInv, WriteNumbered(s, kind, list)
  PROVE  IInv'
<1>1. stage = s /\ Database \notin DOMAIN dir
  BY DEF WriteNumbered, IInv
<1>2. CASE PassOver(list)
  BY <1>1, <1>2, PassOverStaysHalfway DEF IInv, Halfway
<1>3. CASE ~PassOver(list)
  <2>1. stage' \in Halfway
    BY <1>1, <1>3, AdvanceStaysHalfway DEF WriteNumbered
  <2>2. PICK w \in Written(dir, Name(kind, <<next>>, "sbf"), list[next], <<>>) : dir' = w.dir
    BY <1>3 DEF WriteNumbered
  <2>3. Database \notin DOMAIN dir'
    BY <1>1, <2>2, FrameNames, WrittenNames
  <2> QED BY <2>1, <2>3 DEF IInv, Halfway
<1> QED BY <1>2, <1>3

(* The frame of an attachment, avatar or sticker, and its data.                 *)
LEMMA MediaNames ==
  ASSUME NEW kind, NEW key, NEW m, kind # "database",
         Database \notin DOMAIN dir, WriteMedia(kind, key, m)
  PROVE  Database \notin DOMAIN dir'
<1> DEFINE sbf == Name(kind, key, "sbf")
           bin == Name(kind, key, "bin")
<1>1. PICK w \in Written(dir, sbf, <<MediaFrame(m)>>, <<>>) :
        \E d \in IF w.ok THEN DataWritten(kind, m, w.dir, bin) ELSE {w} : dir' = d.dir
  BY DEF WriteMedia
<1>2. Database \notin DOMAIN w.dir
  BY <1>1, FrameNames, WrittenNames
<1>3. PICK d \in IF w.ok THEN DataWritten(kind, m, w.dir, bin) ELSE {w} : dir' = d.dir
  BY <1>1
<1>4. CASE ~w.ok
  BY <1>2, <1>3, <1>4
<1>5. CASE w.ok
  <2>1. d \in DataWritten(kind, m, w.dir, bin)
    BY <1>3, <1>5
  <2>2. \E c : \E e \in Written(w.dir, bin, c, "") : d.dir = e.dir
    <3>1. CASE d \in Written(w.dir, bin, m.data, "")
      BY <3>1
    <3>2. CASE d \in Failed(Written(w.dir, bin, "", ""))
      <4>1. PICK e \in Written(w.dir, bin, "", "") : d = [e EXCEPT !.ok = FALSE]
        BY <3>2 DEF Failed
      <4>2. \E x, y : e = [dir |-> x, ok |-> y]
        BY <4>1 DEF Written
      <4>3. d.dir = e.dir
        BY <4>1, <4>2
      <4> QED BY <4>1, <4>3
    <3> QED BY <2>1, <3>1, <3>2 DEF DataWritten
  <2> QED BY <1>2, <1>3, <2>2, FrameNames, WrittenNames
<1> QED BY <1>4, <1>5

-----------------------------------------------------------------------------
LEMMA MediaFramesKeep ==
  ASSUME NEW s, NEW kind, NEW keys, NEW list, kind # "database",
         s \in Halfway \ {"crashed", "database"}, IInv, WriteMediaFrames(s, kind, keys, list)
  PROVE  IInv'
<1>1. stage = s /\ Database \notin DOMAIN dir
  BY DEF WriteMediaFrames, IInv
<1>2. CASE PassOver(list)
  BY <1>1, <1>2, PassOverStaysHalfway DEF IInv, Halfway
<1>3. CASE ~PassOver(list)
  <2>1. stage' \in Halfway
    BY <1>1, <1>3, AdvanceStaysHalfway DEF WriteMediaFrames
  <2>2. WriteMedia(kind, keys[next], list[next])
    BY <1>3 DEF WriteMediaFrames
  <2> QED BY <1>1, <2>1, <2>2, MediaNames DEF IInv, Halfway
<1> QED BY <1>2, <1>3

(* The first stage is entered with an empty directory.                          *)
LEMMA ClearedIsEmpty ==
  ASSUME IInv, Prepare \/ Clear
  PROVE  IInv'
<1>1. FirstStage \in Halfway
  BY DEF FirstStage, Halfway
<1>2. \A d : d = <<>> => Database \notin DOMAIN d
  OBVIOUS
<1>3. CASE Prepare
  BY <1>1, <1>2, <1>3 DEF Prepare, IInv, Halfway
<1>4. CASE Clear
  BY <1>1, <1>2, <1>4 DEF Clear, IInv, Halfway
<1> QED BY <1>3, <1>4

(* The database is blank until it is filled.                                    *)
LEMMA OpenedIsBlank ==
  ASSUME IInv, OpenDatabase \/ FillDatabase
  PROVE  IInv'
<1>1. CASE OpenDatabase
  <2>1. stage = "database" /\ stage' = "filling"
    BY <1>1, StageOrder DEF OpenDatabase
  <2>2. Database \notin DOMAIN dir
    BY <2>1 DEF IInv, Halfway
  <2>3. dir' = dir \/ dir' = With(dir, Database, <<>>)
    BY <1>1 DEF OpenDatabase
  <2>4. With(dir, Database, <<>>)[Database] = <<>>
    BY DEF With
  <2> QED BY <2>1, <2>2, <2>3, <2>4 DEF IInv, Halfway
<1>2. CASE FillDatabase
  BY <1>2, StageOrder DEF FillDatabase, IInv, Halfway
<1> QED BY <1>1, <1>2

(* IInv is inductive.                                                           *)
LEMMA IInvInductive == IInv /\ [Next]_vars => IInv'
<1> SUFFICES ASSUME IInv, [Next]_vars PROVE IInv'
  OBVIOUS
<1>1. CASE Prepare \/ Clear
  BY <1>1, ClearedIsEmpty
<1>2. CASE RefuseDirectory \/ ClearFails
  BY <1>2 DEF RefuseDirectory, ClearFails, IInv, Halfway
<1>3. CASE WriteHeader
  BY <1>3, SingleKeeps DEF WriteHeader, Halfway
<1>4. CASE WriteVersion
  BY <1>4, SingleKeeps DEF WriteVersion, Halfway
<1>5. CASE WriteEnd
  BY <1>5, SingleKeeps DEF WriteEnd, Halfway
<1>6. CASE WriteSharedPrefs
  BY <1>6, NumberedKeeps DEF WriteSharedPrefs, Halfway
<1>7. CASE WriteKeyValues
  BY <1>7, NumberedKeeps DEF WriteKeyValues, Halfway
<1>8. CASE WriteAttachment \/ WriteAvatar \/ WriteSticker
  BY <1>8, MediaFramesKeep DEF WriteAttachment, WriteAvatar, WriteSticker, Halfway
<1>9. CASE OpenDatabase \/ FillDatabase
  BY <1>9, OpenedIsBlank
<1>10. CASE Crash
  BY <1>10 DEF Crash, CrashOnNull, IInv, Halfway
<1>11. CASE DiskFills
  BY <1>11 DEF DiskFills, IInv
<1>12. CASE AddNew
  BY <1>12 DEF AddNew, IInv, Halfway
<1>13. CASE UNCHANGED vars
  BY <1>13 DEF vars, IInv
<1> QED
  BY <1>1, <1>2, <1>3, <1>4, <1>5, <1>6, <1>7, <1>8, <1>9, <1>10, <1>11, <1>12, <1>13 DEF Next

(* Without a database initFromDir gives nothing, and no rows with a blank one.  *)
LEMMA NothingWithoutDatabase ==
  ASSUME NEW d, Database \notin DOMAIN d
  PROVE  ~Load(d, FALSE, FALSE).ok
BY DEF Load, Nothing

LEMMA BlankGivesNoRows ==
  ASSUME NEW d, Database \in DOMAIN d => d[Database] = <<>>
  PROVE  NoRows(Load(d, FALSE, FALSE))
<1>1. CASE Load(d, FALSE, FALSE).ok
  <2>1. Database \in DOMAIN d /\ Load(d, FALSE, FALSE).rows = RowsAfter(d, FALSE)
    BY <1>1 DEF Load, Nothing
  <2>2. RowsAfter(d, FALSE) = <<>>
    BY <2>1 DEF RowsAfter
  <2> QED BY <2>1, <2>2 DEF NoRows
<1>2. CASE ~Load(d, FALSE, FALSE).ok
  BY <1>2 DEF NoRows
<1> QED BY <1>1, <1>2

LEMMA HalfwayIsNothing ==
  ASSUME IInv
  PROVE  NotOpenedHalfway
<1>1. CASE stage \in Halfway
  BY <1>1, NothingWithoutDatabase DEF IInv, Offered, NotOpenedHalfway
<1>2. CASE stage = "filling"
  <2>1. NoRows(Offered)
    BY <1>2, BlankGivesNoRows DEF IInv, Offered
  <2> QED BY <1>2, <2>1 DEF NotOpenedHalfway, NoRows
<1>3. CASE stage \in {"prepare", "clearing", "refused", "done"}
  BY <1>3 DEF NotOpenedHalfway
<1> QED BY <1>1, <1>2, <1>3 DEF IInv

(* exportBackupToDir, for every backup, every directory and any failures of the *)
(* disk: stopped half-way it leaves nothing that initFromDir would open, or,     *)
(* stopped while the database is filled, at most a backup without any rows.     *)
THEOREM OpensOnlyAtTheEnd == Spec => []NotOpenedHalfway
<1>1. Init => IInv
  BY DEF Init, IInv, Halfway
<1>2. Spec => []IInv
  BY <1>1, IInvInductive, PTL DEF Spec
<1> QED BY <1>2, HalfwayIsNothing, PTL

-----------------------------------------------------------------------------
(* How many numbers there are up to n. *)
LEMMA UpTo ==
  ASSUME NEW n \in Nat
  PROVE  IsFiniteSet(1 .. n) /\ Cardinality(1 .. n) = n
BY FS_Interval

(* Division with a rest is unique. *)
LEMMA DivisionIs ==
  ASSUME NEW n \in Nat, NEW d \in Nat \ {0}, NEW q \in Nat, NEW r \in Nat, r < d, n = d * q + r
  PROVE  n \div d = q /\ n % d = r
OBVIOUS

LEMMA Division ==
  ASSUME NEW n \in Nat, NEW d \in Nat \ {0}
  PROVE  /\ n \div d \in Nat /\ n % d \in Nat
         /\ n % d < d /\ n = d * (n \div d) + (n % d)
<1>1. n % d \in 0 .. d - 1
  OBVIOUS
<1>2. n \div d \in Int
  OBVIOUS
<1>3. n = d * (n \div d) + (n % d)
  OBVIOUS
<1>4. n \div d >= 0
  <2> DEFINE q == n \div d
             r == n % d
  <2>1. q \in Int /\ r \in 0 .. d - 1 /\ n = d * q + r
    BY <1>1, <1>2, <1>3
  <2> HIDE DEF q, r
  <2>2. ASSUME q <= -1 PROVE FALSE
    <3>1. d * q <= d * (-1)
      BY <2>1, <2>2
    <3> QED BY <2>1, <3>1
  <2>3. q >= 0
    BY <2>1, <2>2
  <2> QED BY <2>3 DEF q
<1> QED BY <1>1, <1>2, <1>3, <1>4

LEMMA DivisionTwice ==
  ASSUME NEW n \in Nat, NEW a \in Nat \ {0}, NEW b \in Nat \ {0}
  PROVE  (n \div a) \div b = n \div (b * a)
<1> DEFINE q == n \div a
           s == q \div b
           t == q % b
           r == n % a
<1>1. q \in Nat /\ r \in Nat /\ r < a /\ n = a * q + r
  BY Division
<1>2. s \in Nat /\ t \in Nat /\ t < b /\ q = b * s + t
  BY <1>1, Division
<1> HIDE DEF q, s, t, r
<1>3. b * a \in Nat \ {0}
  OBVIOUS
<1>4. n = (b * a) * s + (a * t + r)
  BY <1>1, <1>2
<1>5. a * t + r \in Nat /\ a * t + r < b * a
  <2>1. t + 1 <= b
    BY <1>2
  <2>2. a * (t + 1) <= a * b
    BY <2>1, <1>2
  <2>3. a * (t + 1) = a * t + a
    BY <1>2
  <2> QED BY <2>2, <2>3, <1>1, <1>2
<1>6. n \div (b * a) = s
  BY <1>2, <1>3, <1>4, <1>5, DivisionIs
<1> QED BY <1>6 DEF s, q

LEMMA DivisionOrder ==
  ASSUME NEW m \in Nat, NEW n \in Nat, NEW d \in Nat \ {0}, m < n, m \div d # n \div d
  PROVE  m \div d < n \div d
<1> DEFINE q == m \div d
           p == n \div d
<1>1. q \in Nat /\ m % d \in Nat /\ m = d * q + (m % d)
  BY Division
<1>2. p \in Nat /\ n % d \in Nat /\ n % d < d /\ n = d * p + (n % d)
  BY Division
<1> HIDE DEF q, p
<1>3. ASSUME p < q PROVE FALSE
  <2>1. d * (p + 1) <= d * q
    BY <1>1, <1>2, <1>3
  <2>2. d * (p + 1) = d * p + d
    BY <1>2
  <2>3. n < d * q
    <3>1. d * p \in Int /\ d * q \in Int
      BY <1>1, <1>2
    <3>2. n < d * p + d
      <4> DEFINE v == d * p
                 r == n % d
      <4>1. v \in Int /\ r \in Nat /\ r < d /\ n = v + r
        BY <1>2, <3>1
      <4>2. n < v + d
        <5> HIDE DEF v, r
        <5> QED BY <4>1
      <4> QED BY <4>2
    <3> QED BY <2>1, <2>2, <3>1, <3>2
  <2>4. d * q <= m
    <3>1. d * q \in Int
      BY <1>1
    <3> QED BY <1>1, <3>1
  <2>5. d * q \in Int
    BY <1>1
  <2> QED BY <2>3, <2>4, <2>5
<1> QED BY <1>1, <1>2, <1>3 DEF p, q

LEMMA RestOrder ==
  ASSUME NEW m \in Nat, NEW n \in Nat, NEW d \in Nat \ {0}, m < n, m \div d = n \div d
  PROVE  m % d < n % d
<1> DEFINE q == m \div d
<1>1. q \in Nat /\ m % d \in Nat /\ m = d * q + (m % d)
  BY Division
<1>2. n % d \in Nat /\ n = d * q + (n % d)
  BY Division
<1> HIDE DEF q
<1> QED BY <1>1, <1>2

-----------------------------------------------------------------------------
LEMMA PowerIs ==
  /\ Power[0] = 1
  /\ \A w \in Nat : Power[w] \in Nat \ {0} /\ Power[w + 1] = Base * Power[w]
<1> DEFINE S == Nat \ {0}
           F == [x \in S |-> Base * x]
           Eq(f) == f = [w \in Nat |-> IF w = 0 THEN 1 ELSE Base * f[w - 1]]
<1>1. Base \in Nat /\ Base > 1
  BY BaseAssumption
<1>2. 1 \in S /\ F \in [S -> S]
  <2>1. ASSUME NEW x \in S PROVE Base * x \in S
    BY <1>1
  <2> QED BY <2>1
<1>3. PICK h \in [Nat -> S] : Iterated(h, 1, F)
  <2> HIDE DEF F, S
  <2> QED BY <1>2, Iterates
<1>4. Eq(h)
  <2>1. ASSUME NEW w \in Nat PROVE h[w] = IF w = 0 THEN 1 ELSE Base * h[w - 1]
    <3>1. CASE w = 0
      BY <1>3, <3>1 DEF Iterated
    <3>2. CASE w # 0
      <4>1. w - 1 \in Nat /\ (w - 1) + 1 = w
        BY <3>2
      <4>2. h[(w - 1) + 1] = F[h[w - 1]]
        BY <1>3, <4>1 DEF Iterated
      <4> QED BY <3>2, <4>1, <4>2
    <3> QED BY <3>1, <3>2
  <2> QED BY <2>1
<1>5. Power = CHOOSE f : Eq(f)
  BY DEF Power
<1>6. Eq(Power)
  <2> HIDE DEF Eq
  <2> QED BY <1>4, <1>5
<1>7. Power[0] = 1
  BY <1>6
<1>8. ASSUME NEW w \in Nat PROVE Power[w + 1] = Base * Power[w]
  <2>1. w + 1 \in Nat /\ w + 1 # 0 /\ (w + 1) - 1 = w
    OBVIOUS
  <2> QED BY <1>6, <2>1
<1> DEFINE P == {w \in Nat : Power[w] \in S}
<1>9. Nat \subseteq P
  <2>1. 0 \in P
    BY <1>7
  <2>2. ASSUME NEW w \in Nat, w \in P PROVE w + 1 \in P
    BY <1>1, <1>8, <2>2
  <2> HIDE DEF P
  <2> QED BY <2>1, <2>2, SetInduction
<1> QED BY <1>7, <1>8, <1>9

(* A count has as many digits as it takes.                                      *)
LEMMA NumDigitsIs ==
  ASSUME NEW n \in Nat
  PROVE  numDigits(n) \in Nat \ {0} /\ n < Power[numDigits(n)]
<1> DEFINE P == {m \in Nat : m < Power[m + 1]}
<1>0. Base \in Nat /\ Base >= 2
  BY BaseAssumption
<1>1. Nat \subseteq P
  <2>1. 0 \in P
    BY PowerIs
  <2>2. ASSUME NEW m \in Nat, m \in P PROVE m + 1 \in P
    <3>1. Power[(m + 1) + 1] = Base * Power[m + 1] /\ Power[m + 1] \in Nat
      BY PowerIs
    <3>2. \A x \in Nat : Base * x >= 2 * x
      BY <1>0
    <3>3. Base * Power[m + 1] >= 2 * Power[m + 1] /\ Power[m + 1] >= m + 1
      BY <2>2, <3>1, <3>2
    <3>4. Base * Power[m + 1] \in Nat
      BY <1>0, <3>1
    <3> QED BY <3>1, <3>3, <3>4
  <2> HIDE DEF P
  <2> QED BY <2>1, <2>2, SetInduction
<1> DEFINE T == {w \in Nat \ {0} : n < Power[w]}
<1>2. n + 1 \in T
  BY <1>1
<1>3. PICK w \in T : \A v \in T : w <= v
  BY <1>2, LeastElement
<1>4. w \in 1 .. n + 1
  BY <1>2, <1>3
<1>5. ASSUME w # 1 PROVE Power[w - 1] <= n
  <2>1. w - 1 \in Nat \ {0} /\ w - 1 \notin T
    BY <1>3, <1>5
  <2>2. Power[w - 1] \in Nat
    BY <2>1, PowerIs
  <2> QED BY <2>1, <2>2
<1> QED BY <1>3, <1>4, <1>5 DEF numDigits

(* What is left of a number when its last digits are dropped.                   *)
LEMMA DigitsOrder ==
  ASSUME NEW m \in Nat, NEW n \in Nat, NEW w \in Nat \ {0}, m < n, n < Power[w]
  PROVE  \E p \in 1 .. w : /\ Digits(m, w)[p] < Digits(n, w)[p]
                            /\ \A q \in 1 .. p - 1 : Digits(m, w)[q] = Digits(n, w)[q]
<1> DEFINE Top(k, p) == k \div Power[w - p]
           T == {p \in 1 .. w : Top(m, p) # Top(n, p)}
<1>0. Base \in Nat \ {0}
  BY BaseAssumption
<1>1. \A p \in 0 .. w : Power[w - p] \in Nat \ {0}
  BY PowerIs
<1>2. w \in T
  <2>1. Power[w - w] = 1
    BY PowerIs
  <2>2. Top(m, w) = m /\ Top(n, w) = n
    BY <2>1
  <2> QED BY <2>2
<1>3. T \subseteq Nat /\ T # {}
  BY <1>2
<1>4. PICK p \in T : \A q \in T : p <= q
  <2> HIDE DEF T
  <2> QED BY <1>3, LeastElement
<1>5. p \in 1 .. w /\ Top(m, p) # Top(n, p)
  BY <1>4
<1>6. \A q \in 1 .. p - 1 : Top(m, q) = Top(n, q)
  BY <1>4, <1>5
<1>7. \A q \in 1 .. w : Digits(m, w)[q] = Top(m, q) % Base /\ Digits(n, w)[q] = Top(n, q) % Base
  BY DEF Digits
<1>8. \A q \in 1 .. p - 1 : Digits(m, w)[q] = Digits(n, w)[q]
  BY <1>5, <1>6, <1>7
<1> DEFINE d == Power[w - p]
           x == Top(m, p)
           y == Top(n, p)
<1>9. d \in Nat \ {0}
  BY <1>1, <1>5
<1>10. x \in Nat /\ y \in Nat /\ x < y
  <2>1. m \div d # n \div d
    BY <1>5
  <2> HIDE DEF d
  <2>2. m \div d < n \div d
    BY <1>9, <2>1, DivisionOrder
  <2> QED BY <1>9, <2>2, Division DEF d
<1>11. \A k \in Nat : Top(k, p) \div Base = k \div (Base * d)
  <2> HIDE DEF d
  <2>1. \A k \in Nat : (k \div d) \div Base = k \div (Base * d)
    BY <1>0, <1>9, DivisionTwice
  <2> QED BY <2>1 DEF d
<1>12. Power[(w - p) + 1] = Base * d
  BY <1>5, PowerIs
<1>13. x \div Base = y \div Base
  <2>1. CASE p = 1
    <3>1. Power[w] = Base * d
      BY <1>12, <2>1
    <3>2. m < Base * d /\ n < Base * d /\ Base * d \in Nat \ {0}
      <4>1. Power[w] \in Nat \ {0}
        BY PowerIs
      <4> QED BY <3>1, <4>1
    <3> DEFINE bd == Base * d
    <3>3. m \div bd = 0 /\ n \div bd = 0
      <4>1. m = bd * 0 + m /\ n = bd * 0 + n
        <5>1. bd \in Nat
          BY <3>2
        <5> HIDE DEF bd
        <5> QED BY <5>1
      <4>2. bd \in Nat \ {0} /\ m < bd /\ n < bd
        BY <3>2
      <4> HIDE DEF bd
      <4>3. m \div bd = 0
        BY <4>1, <4>2, DivisionIs
      <4>4. n \div bd = 0
        BY <4>1, <4>2, DivisionIs
      <4> QED BY <4>3, <4>4
    <3> QED BY <1>11, <3>3
  <2>2. CASE p # 1
    <3>1. p - 1 \in 1 .. p - 1 /\ w - (p - 1) = (w - p) + 1
      BY <1>5, <2>2
    <3>2. Top(m, p - 1) = Top(n, p - 1)
      BY <1>6, <3>1
    <3>3. Power[w - (p - 1)] = Base * d
      BY <1>12, <3>1
    <3> QED BY <1>11, <3>2, <3>3
  <2> QED BY <2>1, <2>2
<1>14. x % Base < y % Base
  <2> HIDE DEF x, y
  <2> QED BY <1>0, <1>10, <1>13, RestOrder
<1> QED BY <1>5, <1>7, <1>8, <1>14

-----------------------------------------------------------------------------
(* The names of avatars sort in the order the avatars were written in.          *)
LEMMA BeforeIsStrict ==
  ASSUME NEW a \in Seq(Int), NEW b \in Seq(Int), Before(a, b), Before(b, a)
  PROVE  FALSE
<1>1. Len(a) \in Nat /\ Len(b) \in Nat
  OBVIOUS
<1>2. PICK k \in 0 .. Len(b) - 1 : /\ k <= Len(a) /\ \A i \in 1 .. k : a[i] = b[i]
                                   /\ k = Len(a) \/ a[k + 1] < b[k + 1]
  BY DEF Before
<1>3. PICK l \in 0 .. Len(a) - 1 : /\ l <= Len(b) /\ \A i \in 1 .. l : b[i] = a[i]
                                   /\ l = Len(b) \/ b[l + 1] < a[l + 1]
  BY DEF Before
<1>4. l < Len(a) /\ k < Len(b) /\ l + 1 \in 1 .. Len(a) /\ k + 1 \in 1 .. Len(b)
  BY <1>1, <1>2, <1>3
<1>5. CASE k < l
  <2>1. k # Len(a) /\ k + 1 \in 1 .. l
    BY <1>1, <1>2, <1>3, <1>4, <1>5
  <2>2. a[k + 1] < b[k + 1]
    BY <1>2, <2>1
  <2>3. b[k + 1] = a[k + 1]
    <3>1. \A i \in 1 .. l : b[i] = a[i]
      BY <1>3
    <3>2. k + 1 \in 1 .. l
      BY <2>1
    <3> QED BY ONLY <3>1, <3>2
  <2>4. b[k + 1] \in Int
    BY <1>4
  <2> QED BY <2>2, <2>3, <2>4
<1>6. CASE l < k
  <2>1. l # Len(b) /\ l + 1 \in 1 .. k
    BY <1>1, <1>2, <1>3, <1>4, <1>6
  <2>2. b[l + 1] < a[l + 1]
    BY <1>3, <2>1
  <2>3. b[l + 1] = a[l + 1]
    <3>1. \A i \in 1 .. k : a[i] = b[i]
      BY <1>2
    <3>2. l + 1 \in 1 .. k
      BY <2>1
    <3>3. a[l + 1] = b[l + 1]
      BY ONLY <3>1, <3>2
    <3> QED BY <3>3
  <2>4. a[l + 1] \in Int
    BY <1>4
  <2> QED BY <2>2, <2>3, <2>4
<1>7. CASE l = k
  <2>1. k # Len(a) /\ l # Len(b)
    BY <1>1, <1>4, <1>7
  <2>2. a[k + 1] < b[k + 1] /\ b[k + 1] < a[k + 1] /\ a[k + 1] \in Int /\ b[k + 1] \in Int
    BY <1>2, <1>3, <1>4, <1>7, <2>1
  <2> QED BY <2>2
<1> QED BY <1>1, <1>2, <1>3, <1>5, <1>6, <1>7

LEMMA AvatarKeyIs ==
  ASSUME NEW i \in Nat, NEW n \in Nat, NEW r \in Nat
  PROVE  /\ AvatarKey(i, n, r) \in Seq(Int)
         /\ Len(AvatarKey(i, n, r)) = numDigits(n) + 2
         /\ \A p \in 1 .. numDigits(n) : AvatarKey(i, n, r)[p] = Digits(i, numDigits(n))[p]
         /\ \A p \in 1 .. numDigits(n) : AvatarKey(i, n, r)[p] \in Int
<1> DEFINE w == numDigits(n)
           d == Digits(i, w)
           t == <<Underscore, r>>
<1>1. w \in Nat \ {0}
  BY NumDigitsIs
<1>2. d \in Seq(Int) /\ Len(d) = w
  <2>1. Base \in Nat \ {0}
    BY BaseAssumption
  <2>2. ASSUME NEW p \in 1 .. w PROVE (i \div Power[w - p]) % Base \in Int
    <3>1. w - p \in Nat
      BY <1>1
    <3>2. Power[w - p] \in Nat \ {0}
      BY <3>1, PowerIs
    <3>3. i \div Power[w - p] \in Nat
      BY <3>2, Division
    <3> QED BY <2>1, <3>3, Division
  <2>3. d = [p \in 1 .. w |-> (i \div Power[w - p]) % Base]
    BY DEF Digits
  <2> HIDE DEF d, w
  <2>4. d \in [1 .. w -> Int]
    BY <2>2, <2>3
  <2> QED BY <1>1, <2>4
<1>3. t \in Seq(Int) /\ Len(t) = 2
  BY BaseAssumption DEF Underscore
<1>4. AvatarKey(i, n, r) = d \o t
  BY DEF AvatarKey
<1> HIDE DEF d, t
<1>5. /\ d \o t \in Seq(Int) /\ Len(d \o t) = w + 2
      /\ \A p \in 1 .. w : (d \o t)[p] = d[p]
  <2> HIDE DEF w
  <2>1. d \o t \in Seq(Int)
    BY <1>2, <1>3
  <2>2. Len(d \o t) = w + 2
    <3>1. d \in Seq(Int) /\ t \in Seq(Int)
      BY <1>2, <1>3
    <3>2. Len(d \o t) = Len(d) + Len(t)
      BY ONLY <3>1
    <3> QED BY <1>2, <1>3, <3>2
  <2>3. ASSUME NEW p \in 1 .. w PROVE (d \o t)[p] = d[p]
    BY <1>1, <1>2, <1>3
  <2> QED BY <2>1, <2>2, <2>3
<1>6. \A p \in 1 .. w : (d \o t)[p] \in Int
  <2> HIDE DEF w
  <2> QED BY <1>1, <1>2, <1>5
<1> QED BY <1>4, <1>5, <1>6 DEF d

LEMMA AvatarKeysInOrder ==
  ASSUME NEW n \in Nat, NEW j \in 1 .. n, NEW i \in 1 .. j - 1, NEW r \in Nat, NEW s \in Nat
  PROVE  Before(AvatarKey(i, n, r), AvatarKey(j, n, s))
<1> DEFINE w == numDigits(n)
           a == AvatarKey(i, n, r)
           b == AvatarKey(j, n, s)
<1>1. w \in Nat \ {0} /\ n < Power[w] /\ Power[w] \in Nat
  BY NumDigitsIs, PowerIs
<1>2. i \in Nat /\ j \in Nat /\ i < j /\ j < Power[w]
  BY <1>1
<1>3. PICK p \in 1 .. w : /\ Digits(i, w)[p] < Digits(j, w)[p]
                          /\ \A q \in 1 .. p - 1 : Digits(i, w)[q] = Digits(j, w)[q]
  <2> HIDE DEF w
  <2> QED BY <1>1, <1>2, DigitsOrder
<1>4. /\ Len(a) = w + 2 /\ \A q \in 1 .. w : a[q] = Digits(i, w)[q]
      /\ Len(b) = w + 2 /\ \A q \in 1 .. w : b[q] = Digits(j, w)[q]
  <2>1. Len(a) = w + 2 /\ \A q \in 1 .. w : a[q] = Digits(i, w)[q]
    BY <1>2, AvatarKeyIs
  <2>2. Len(b) = w + 2 /\ \A q \in 1 .. w : b[q] = Digits(j, w)[q]
    BY <1>2, AvatarKeyIs
  <2> HIDE DEF a, b, w
  <2> QED BY <2>1, <2>2
<1> HIDE DEF a, b, w
<1>5. p - 1 \in 0 .. Len(b) - 1 /\ p - 1 <= Len(a) /\ (p - 1) + 1 = p
  BY <1>1, <1>3, <1>4
<1>6. \A q \in 1 .. p - 1 : a[q] = b[q]
  <2>1. \A q \in 1 .. p - 1 : q \in 1 .. w
    BY <1>1, <1>3
  <2> QED BY <1>3, <1>4, <2>1
<1>7. a[p] < b[p]
  BY <1>3, <1>4
<1>8. Before(a, b)
  BY <1>5, <1>6, <1>7 DEF Before
<1> QED BY <1>8 DEF a, b

(* A sorted sequence of all the names is the one sorting gives.                 *)
LEMMA SortedIs ==
  ASSUME NEW S, NEW n \in Nat, NEW t \in [1 .. n -> S], \A x \in S : \E i \in 1 .. n : x = t[i],
         \A i, j \in 1 .. n : i < j => Before(t[i][2], t[j][2]),
         \A x, y \in S : ~(Before(x[2], y[2]) /\ Before(y[2], x[2]))
  PROVE  IsFiniteSet(S) /\ Cardinality(S) = n /\ Sorted(S) = t
<1>1. \A f \in [1 .. n -> S] : (\A i, j \in 1 .. n : i < j => Before(f[i][2], f[j][2])) =>
                                \A i, j \in 1 .. n : f[i] = f[j] => i = j
  <2> SUFFICES ASSUME NEW f \in [1 .. n -> S],
                      \A i, j \in 1 .. n : i < j => Before(f[i][2], f[j][2])
               PROVE  \A i, j \in 1 .. n : f[i] = f[j] => i = j
    OBVIOUS
  <2>1. ASSUME NEW i \in 1 .. n, NEW j \in 1 .. n, f[i] = f[j], i < j
        PROVE  FALSE
    <3>1. Before(f[i][2], f[j][2])
      BY <2>1
    <3>2. f[i] \in S
      OBVIOUS
    <3> QED BY <2>1, <3>1, <3>2
  <2>2. ASSUME NEW i \in 1 .. n, NEW j \in 1 .. n, f[i] = f[j] PROVE i = j
    <3>1. ~(i < j) /\ ~(j < i)
      BY <2>1, <2>2
    <3> QED BY <3>1
  <2> QED BY <2>2
<1>2. t \in Bijection(1 .. n, S)
  BY <1>1 DEF Bijection, Injection, Surjection, IsInjective
<1>3. IsFiniteSet(S) /\ Cardinality(S) = n
  BY <1>2, FS_CountingElements, FS_NatBijection DEF ExistsBijection
<1> DEFINE Fits(s) == s \in [1 .. n -> S] /\ \A i, j \in 1 .. n : i < j => Before(s[i][2], s[j][2])
<1>4. Fits(t)
  OBVIOUS
<1>5. Sorted(S) = CHOOSE s : Fits(s)
  <2>1. Sorted(S) = CHOOSE s \in [1 .. n -> S] :
                      \A i, j \in 1 .. n : i < j => Before(s[i][2], s[j][2])
    BY <1>3 DEF Sorted
  <2> QED BY <2>1
<1>6. ASSUME NEW s, Fits(s) PROVE s = t
  <2>1. SUFFICES ASSUME s # t PROVE FALSE
    OBVIOUS
  <2> DEFINE T == {i \in 1 .. n : s[i] # t[i]}
  <2>2. T # {} /\ T \subseteq Nat
    <3>1. DOMAIN s = 1 .. n /\ DOMAIN t = 1 .. n
      BY <1>6
    <3>2. s = [i \in 1 .. n |-> s[i]] /\ t = [i \in 1 .. n |-> t[i]]
      BY <1>6
    <3>3. ASSUME \A i \in 1 .. n : s[i] = t[i] PROVE FALSE
      BY <2>1, <3>2, <3>3
    <3> QED BY <3>3
  <2>3. PICK i \in T : \A j \in T : i <= j
    <3> HIDE DEF T
    <3> QED BY <2>2, LeastElement
  <2>4. i \in 1 .. n /\ s[i] # t[i] /\ \A j \in 1 .. n : j < i => s[j] = t[j]
    BY <2>3
  <2>5. \A j, k \in 1 .. n : s[j] = s[k] => j = k
    BY <1>1, <1>6
  <2>6. \E l \in 1 .. n : s[l] = t[i]
    <3>1. IsFiniteSet(1 .. n) /\ Cardinality(1 .. n) = n
      BY UpTo
    <3>2. s \in Injection(1 .. n, S)
      BY <1>6, <2>5 DEF Injection, IsInjective
    <3>3. s \in Surjection(1 .. n, S)
      BY <1>3, <3>1, <3>2, FS_Injection
    <3> QED BY <2>4, <3>3 DEF Surjection
  <2>7. PICK l \in 1 .. n : s[l] = t[i]
    BY <2>6
  <2>8. PICK k \in 1 .. n : s[i] = t[k]
    BY <1>6, <2>4
  <2>9. l > i
    <3>1. ASSUME l < i PROVE FALSE
      <4>1. s[l] = t[l]
        BY <2>4, <3>1
      <4> QED BY <1>1, <2>4, <2>7, <3>1, <4>1
    <3> QED BY <2>4, <2>7, <3>1
  <2>10. k > i
    <3>1. ASSUME k < i PROVE FALSE
      <4>1. s[k] = t[k]
        BY <2>4, <3>1
      <4> QED BY <2>4, <2>5, <2>8, <3>1, <4>1
    <3> QED BY <2>4, <2>8, <3>1
  <2>11. Before(s[i][2], s[l][2]) /\ Before(t[i][2], t[k][2])
    BY <1>6, <2>4, <2>9, <2>10
  <2>12. s[i] \in S /\ t[i] \in S
    BY <1>6, <2>4
  <2> QED BY <2>7, <2>8, <2>11, <2>12
<1>7. Sorted(S) = t
  <2> HIDE DEF Fits
  <2> QED BY <1>4, <1>5, <1>6
<1> QED BY <1>3, <1>7

-----------------------------------------------------------------------------
(* A file that is written *)

LEMMA NameParts ==
  /\ \A kind, key, ext : /\ Name(kind, key, ext)[1] = kind
                         /\ Name(kind, key, ext)[2] = key
                         /\ Name(kind, key, ext)[3] = ext
  /\ \A kind, key, ext, kind2, key2, ext2 :
       Name(kind, key, ext) = Name(kind2, key2, ext2) => kind = kind2 /\ key = key2 /\ ext = ext2
BY DEF Name

IsWith(e, d, name, content) ==
  /\ DOMAIN e = DOMAIN d \cup {name}
  /\ e[name] = content
  /\ \A n \in DOMAIN d : n # name => e[n] = d[n]

LEMMA WithIs == \A d, name, content : IsWith(With(d, name, content), d, name, content)
BY DEF With, IsWith

(* e is d with more or other files of the kind. *)
Extends(d, e, kind) ==
  /\ IsFiniteSet(DOMAIN e)
  /\ DOMAIN d \subseteq DOMAIN e
  /\ \A n \in DOMAIN e : n[1] # kind => n \in DOMAIN d /\ e[n] = d[n]

LEMMA WithExtends ==
  ASSUME NEW d, NEW name, NEW content, NEW e, e = With(d, name, content), IsFiniteSet(DOMAIN d)
  PROVE  Extends(d, e, name[1])
<1>1. IsFiniteSet(DOMAIN d \cup {name})
  BY FS_AddElement
<1>2. IsWith(e, d, name, content)
  BY WithIs
<1> QED BY <1>1, <1>2 DEF Extends, IsWith

LEMMA ExtendsTwice ==
  ASSUME NEW d, NEW e, NEW f, NEW kind, Extends(d, e, kind), Extends(e, f, kind)
  PROVE  Extends(d, f, kind)
BY DEF Extends

(* The first n of a list of numbered frames are in the directory, and no other. *)
NumbersIn(d, kind, list, n) ==
  /\ n \in 0 .. Len(list)
  /\ \A i \in 1 .. n : /\ Name(kind, <<i>>, "sbf") \in DOMAIN d
                       /\ d[Name(kind, <<i>>, "sbf")] = list[i]
  /\ \A i \in Nat : Name(kind, <<i>>, "sbf") \in DOMAIN d => i \in 1 .. n

(* The first n of a list of attachments, avatars or stickers are there, and no   *)
(* frame of another; the data is short only where the export has failed.        *)
MediaIn(d, kind, list, keys, n, lost) ==
  /\ n \in 0 .. Len(list)
  /\ \A i \in 1 .. n :
       /\ Name(kind, keys[i], "sbf") \in DOMAIN d
       /\ d[Name(kind, keys[i], "sbf")] = <<MediaFrame(list[i])>>
       /\ Name(kind, keys[i], "bin") \in DOMAIN d
       /\ d[Name(kind, keys[i], "bin")] \in {list[i].data} \cup lost
  /\ \A name \in Frames(d, kind) : \E i \in 1 .. n : name = Name(kind, keys[i], "sbf")

LEMMA OtherNumbers ==
  ASSUME NEW d, NEW e, NEW kind, NEW other, kind # other, Extends(d, e, other),
         NEW list, NEW n, NumbersIn(d, kind, list, n)
  PROVE  NumbersIn(e, kind, list, n)
BY NameParts DEF Extends, NumbersIn

LEMMA OtherMedia ==
  ASSUME NEW d, NEW e, NEW kind, NEW other, kind # other, Extends(d, e, other),
         NEW list, NEW keys, NEW n, NEW lost, NEW more, lost \subseteq more,
         MediaIn(d, kind, list, keys, n, lost)
  PROVE  MediaIn(e, kind, list, keys, n, more)
<1>1. \A name \in Frames(e, kind) : name \in Frames(d, kind)
  BY DEF Frames, Extends
<1>2. ASSUME NEW i \in 1 .. n, NEW ext \in {"sbf", "bin"}
      PROVE  /\ Name(kind, keys[i], ext) \in DOMAIN e
             /\ e[Name(kind, keys[i], ext)] = d[Name(kind, keys[i], ext)]
  <2>1. Name(kind, keys[i], ext) \in DOMAIN d
    BY DEF MediaIn
  <2>2. Name(kind, keys[i], ext)[1] # other
    BY NameParts
  <2> QED BY <2>1, <2>2 DEF Extends
<1>3. n \in 0 .. Len(list)
  BY DEF MediaIn
<1>4. ASSUME NEW i \in 1 .. n
      PROVE  /\ Name(kind, keys[i], "sbf") \in DOMAIN e
             /\ e[Name(kind, keys[i], "sbf")] = <<MediaFrame(list[i])>>
             /\ Name(kind, keys[i], "bin") \in DOMAIN e
             /\ e[Name(kind, keys[i], "bin")] \in {list[i].data} \cup more
  BY <1>2 DEF MediaIn
<1>5. \A name \in Frames(e, kind) : \E i \in 1 .. n : name = Name(kind, keys[i], "sbf")
  BY <1>1 DEF MediaIn
<1> QED BY <1>3, <1>4, <1>5 DEF MediaIn

LEMMA NextNumber ==
  ASSUME NEW d, NEW kind, NEW list, NEW n \in Nat, n < Len(list), Len(list) \in Nat,
         NumbersIn(d, kind, list, n)
  PROVE  NumbersIn(With(d, Name(kind, <<n + 1>>, "sbf"), list[n + 1]), kind, list, n + 1)
<1> DEFINE name == Name(kind, <<n + 1>>, "sbf")
<1>0. PICK e : e = With(d, name, list[n + 1])
  OBVIOUS
<1>1. IsWith(e, d, name, list[n + 1])
  BY <1>0, WithIs
<1>3. \A i \in Nat : Name(kind, <<i>>, "sbf") = name => i = n + 1
  <2>1. \A i \in Nat : <<i>> = <<n + 1>> => i = n + 1
    OBVIOUS
  <2> QED BY <2>1, NameParts
<1>4. ASSUME NEW i \in 1 .. n + 1
      PROVE  Name(kind, <<i>>, "sbf") \in DOMAIN e /\ e[Name(kind, <<i>>, "sbf")] = list[i]
  <2>1. CASE i = n + 1
    BY <1>1, <2>1 DEF IsWith
  <2>2. CASE i # n + 1
    <3>1. i \in 1 .. n
      BY <2>2
    <3>2. Name(kind, <<i>>, "sbf") \in DOMAIN d /\ d[Name(kind, <<i>>, "sbf")] = list[i]
      BY <3>1 DEF NumbersIn
    <3> QED BY <1>1, <1>3, <2>2, <3>2 DEF IsWith
  <2> QED BY <2>1, <2>2
<1>5. ASSUME NEW i \in Nat, Name(kind, <<i>>, "sbf") \in DOMAIN e PROVE i \in 1 .. n + 1
  BY <1>1, <1>3, <1>5 DEF NumbersIn, IsWith
<1>6. n + 1 \in 0 .. Len(list)
  OBVIOUS
<1>7. NumbersIn(e, kind, list, n + 1)
  BY <1>4, <1>5, <1>6 DEF NumbersIn
<1> QED BY <1>0, <1>7

WithMedia(d, kind, key, m, data) ==
  With(With(d, Name(kind, key, "sbf"), <<MediaFrame(m)>>), Name(kind, key, "bin"), data)

IsWithMedia(e, d, sbf, bin, m, data) ==
  /\ DOMAIN e = DOMAIN d \cup {sbf, bin}
  /\ e[sbf] = <<MediaFrame(m)>> /\ e[bin] = data
  /\ \A n \in DOMAIN d : n # sbf /\ n # bin => e[n] = d[n]

LEMMA WithMediaIs ==
  ASSUME NEW d, NEW kind, NEW key, NEW m, NEW data,
         NEW e, e = WithMedia(d, kind, key, m, data),
         NEW sbf, sbf = Name(kind, key, "sbf"), NEW bin, bin = Name(kind, key, "bin")
  PROVE  /\ IsWithMedia(e, d, sbf, bin, m, data)
         /\ IsFiniteSet(DOMAIN d) => Extends(d, e, kind)
<1>0. PICK f : f = With(d, sbf, <<MediaFrame(m)>>)
  OBVIOUS
<1>1. sbf # bin /\ sbf[1] = kind /\ bin[1] = kind
  BY NameParts
<1>2. IsWith(f, d, sbf, <<MediaFrame(m)>>)
  BY <1>0, WithIs
<1>4. e = With(f, bin, data)
  BY <1>0 DEF WithMedia
<1>5. IsWith(e, f, bin, data)
  BY <1>4, WithIs
<1>7. ASSUME IsFiniteSet(DOMAIN d) PROVE Extends(d, e, kind)
  <2>1. Extends(d, f, kind)
    BY <1>0, <1>1, <1>7, WithExtends
  <2>2. IsFiniteSet(DOMAIN f)
    BY <2>1 DEF Extends
  <2>3. Extends(f, e, kind)
    BY <1>1, <1>4, <2>2, WithExtends
  <2> QED BY <2>1, <2>3, ExtendsTwice
<1>8. IsWithMedia(e, d, sbf, bin, m, data)
  BY <1>1, <1>2, <1>5 DEF IsWith, IsWithMedia
<1> QED BY <1>7, <1>8

(* No two frames of a list have the same name. *)
Distinct(keys) == \A i, j \in DOMAIN keys : keys[i] = keys[j] => i = j

LEMMA NextMedia ==
  ASSUME NEW d, NEW kind, NEW list, NEW keys, NEW n \in Nat, n < Len(list), Len(list) \in Nat,
         DOMAIN keys = 1 .. Len(list), Distinct(keys), NEW lost, NEW more, lost \subseteq more,
         MediaIn(d, kind, list, keys, n, lost),
         NEW data, data \in {list[n + 1].data} \cup more
  PROVE  MediaIn(WithMedia(d, kind, keys[n + 1], list[n + 1], data), kind, list, keys, n + 1, more)
<1>01. PICK e : e = WithMedia(d, kind, keys[n + 1], list[n + 1], data)
  OBVIOUS
<1>02. PICK sbf : sbf = Name(kind, keys[n + 1], "sbf")
  OBVIOUS
<1>03. PICK bin : bin = Name(kind, keys[n + 1], "bin")
  OBVIOUS
<1>1. IsWithMedia(e, d, sbf, bin, list[n + 1], data)
  BY <1>01, <1>02, <1>03, WithMediaIs
<1>2. n + 1 \in 0 .. Len(list) /\ n + 1 \in DOMAIN keys
  OBVIOUS
<1>3. ASSUME NEW i \in 1 .. n
      PROVE  /\ Name(kind, keys[i], "sbf") \in DOMAIN e
             /\ e[Name(kind, keys[i], "sbf")] = <<MediaFrame(list[i])>>
             /\ Name(kind, keys[i], "bin") \in DOMAIN e
             /\ e[Name(kind, keys[i], "bin")] \in {list[i].data} \cup more
  <2>1. keys[i] # keys[n + 1]
    <3>1. i \in DOMAIN keys /\ i # n + 1
      OBVIOUS
    <3> QED BY <1>2, <3>1 DEF Distinct
  <2>2. /\ Name(kind, keys[i], "sbf") # sbf /\ Name(kind, keys[i], "sbf") # bin
        /\ Name(kind, keys[i], "bin") # sbf /\ Name(kind, keys[i], "bin") # bin
    BY <2>1, <1>02, <1>03, NameParts
  <2> QED BY <1>1, <2>2 DEF MediaIn, IsWithMedia
<1>4. ASSUME NEW i \in 1 .. n + 1
      PROVE  /\ Name(kind, keys[i], "sbf") \in DOMAIN e
             /\ e[Name(kind, keys[i], "sbf")] = <<MediaFrame(list[i])>>
             /\ Name(kind, keys[i], "bin") \in DOMAIN e
             /\ e[Name(kind, keys[i], "bin")] \in {list[i].data} \cup more
  <2>1. CASE i = n + 1
    BY <1>01, <1>02, <1>03, <1>1, <2>1 DEF IsWithMedia
  <2>2. CASE i # n + 1
    <3>1. i \in 1 .. n
      BY <2>2
    <3> QED BY <1>3, <3>1
  <2> QED BY <2>1, <2>2
<1>5. ASSUME NEW name \in Frames(e, kind)
      PROVE  \E i \in 1 .. n + 1 : name = Name(kind, keys[i], "sbf")
  <2>1. CASE name = sbf
    BY <1>02, <2>1
  <2>2. CASE name # sbf
    <3>1. name \in Frames(d, kind)
      <4>1. bin \notin Frames(e, kind)
        BY <1>03, NameParts DEF Frames
      <4> QED BY <1>1, <1>5, <2>2, <4>1 DEF Frames, IsWithMedia
    <3>2. PICK i \in 1 .. n : name = Name(kind, keys[i], "sbf")
      BY <3>1 DEF MediaIn
    <3> QED BY <3>2
  <2> QED BY <2>1, <2>2
<1>6. MediaIn(e, kind, list, keys, n + 1, more)
  BY <1>2, <1>4, <1>5 DEF MediaIn
<1> QED BY <1>01, <1>6

-----------------------------------------------------------------------------
(* The stages and the lists that are written in them *)

Place(s) == CHOOSE i \in DOMAIN Order : Order[i] = s

LEMMA PlaceIs ==
  /\ Place("header") = 1 /\ Place("version") = 2 /\ Place("attachments") = 3
  /\ Place("avatars") = 4 /\ Place("sharedprefs") = 5 /\ Place("keyvalues") = 6
  /\ Place("stickers") = 7 /\ Place("end") = 8 /\ Place("database") = 9
  /\ Place("filling") = 10 /\ Place("done") = 11
<1>1. DOMAIN Order = 1 .. 11
  BY DEF Order
<1>2. /\ Order[1] = "header" /\ Order[2] = "version" /\ Order[3] = "attachments"
      /\ Order[4] = "avatars" /\ Order[5] = "sharedprefs" /\ Order[6] = "keyvalues"
      /\ Order[7] = "stickers" /\ Order[8] = "end" /\ Order[9] = "database"
      /\ Order[10] = "filling" /\ Order[11] = "done"
  BY DEF Order
<1>3. ASSUME NEW i \in 1 .. 11 PROVE Place(Order[i]) = i
  <2>1. \A j \in DOMAIN Order : Order[j] = Order[i] => j = i
    BY <1>1, <1>2
  <2> QED BY <1>1, <2>1 DEF Place
<1> QED BY <1>2, <1>3

LEMMA AfterIs ==
  /\ After("header") = "version" /\ After("version") = "attachments"
  /\ After("attachments") = "avatars" /\ After("avatars") = "sharedprefs"
  /\ After("sharedprefs") = "keyvalues" /\ After("keyvalues") = "stickers"
  /\ After("stickers") = "end" /\ After("end") = "database"
  /\ After("database") = "filling" /\ After("filling") = "done"
<1>1. Order[2] = "version" /\ Order[3] = "attachments" /\ Order[4] = "avatars"
      /\ Order[5] = "sharedprefs" /\ Order[6] = "keyvalues" /\ Order[7] = "stickers"
      /\ Order[8] = "end" /\ Order[9] = "database" /\ Order[10] = "filling"
      /\ Order[11] = "done"
  BY DEF Order
<1>2. \A s : After(s) = Order[1 + Place(s)]
  BY DEF After, Place
<1> QED BY <1>1, <1>2, PlaceIs

MediaStages == {"attachments", "avatars", "stickers"}
NumberStages == {"sharedprefs", "keyvalues"}
ListStages == MediaStages \cup NumberStages
Saving == {"database", "filling"}
Writing == ListStages \cup {"header", "version", "end"} \cup Saving

LEMMA AfterPlace ==
  ASSUME NEW s \in Writing
  PROVE  /\ After(s) \in Writing \cup {"done"} /\ Place(After(s)) = Place(s) + 1
         /\ Place(s) \in 1 .. 10
BY PlaceIs, AfterIs DEF Writing, Saving, ListStages, MediaStages, NumberStages

LEMMA PlacesDiffer ==
  ASSUME NEW s \in Writing \cup {"done"}, NEW t \in Writing \cup {"done"}, Place(s) = Place(t)
  PROVE  s = t
BY PlaceIs DEF Writing, Saving, ListStages, MediaStages, NumberStages

KindOf(t) ==
  IF t = "attachments" THEN "Attachment"
  ELSE IF t = "avatars" THEN "Avatar"
  ELSE IF t = "stickers" THEN "Sticker"
  ELSE IF t = "sharedprefs" THEN "SharedPreference" ELSE "KeyValue"

MediaList(b, t) ==
  IF t = "attachments" THEN b.attachments
  ELSE IF t = "avatars" THEN b.avatars ELSE b.stickers

KeysOf(b, t) ==
  IF t = "attachments" THEN AttachmentKeys(b)
  ELSE IF t = "avatars" THEN AvatarKeys(b) ELSE StickerKeys(b)

NumberList(b, t) == IF t = "sharedprefs" THEN b.sharedprefs ELSE b.keyvalues

LEMMA KindsDiffer ==
  /\ \A s, t \in ListStages : KindOf(s) = KindOf(t) => s = t
  /\ \A t \in ListStages : KindOf(t) \notin {"Header", "DatabaseVersion", "End", "database"}
BY DEF KindOf, ListStages, MediaStages, NumberStages

(* How many of the list of stage t are written when it is the turn of the frame *)
(* nx of stage s.                                                               *)
Count(s, first, nx, t, list) ==
  IF first = "database" THEN 0
  ELSE IF Place(t) < Place(s) THEN Len(list)
  ELSE IF s = t THEN nx - 1 ELSE 0

LEMMA CountOfOthers ==
  ASSUME NEW s \in Writing, NEW t \in ListStages, s # t, NEW first, NEW nx, NEW list,
         NEW s2, NEW nx2, s2 = s \/ (s2 = After(s) /\ nx2 = 1)
  PROVE  Count(s2, first, nx2, t, list) = Count(s, first, nx, t, list)
<1>1. Place(t) \in 1 .. 10 /\ Place(s) \in 1 .. 10 /\ t \in Writing
  BY AfterPlace DEF Writing, Saving
<1>2. CASE s2 = s
  BY <1>2 DEF Count
<1>3. CASE s2 = After(s) /\ nx2 = 1
  <2>1. Place(s2) = Place(s) + 1 /\ s2 \in Writing \cup {"done"}
    BY <1>3, AfterPlace
  <2>2. Place(s) # Place(t)
    BY <1>1, PlacesDiffer
  <2>3. Place(t) < Place(s2) <=> Place(t) < Place(s)
    BY <1>1, <2>1, <2>2
  <2> QED BY <1>3, <2>3 DEF Count
<1> QED BY <1>2, <1>3

LEMMA CountOfOwn ==
  ASSUME NEW s \in ListStages, NEW first, first # "database", NEW nx, NEW list
  PROVE  /\ Count(s, first, nx, s, list) = nx - 1
         /\ Count(After(s), first, 1, s, list) = Len(list)
<1>1. Place(s) \in 1 .. 10 /\ Place(After(s)) = Place(s) + 1
  BY AfterPlace DEF Writing, Saving
<1>2. ~(Place(s) < Place(s)) /\ Place(s) < Place(After(s))
  BY <1>1
<1> QED BY <1>2 DEF Count

(* What is in the directory when nothing but the end of the export is left to   *)
(* come, at stage s.                                                            *)
ContentsAt(d, b, s, first, nx, lost) ==
  /\ IsFiniteSet(DOMAIN d)
  /\ \A t \in MediaStages :
       MediaIn(d, KindOf(t), MediaList(b, t), KeysOf(b, t),
               Count(s, first, nx, t, MediaList(b, t)), lost)
  /\ \A t \in NumberStages :
       NumbersIn(d, KindOf(t), NumberList(b, t), Count(s, first, nx, t, NumberList(b, t)))

(* A step that adds to the directory, and goes on to s2 and nx2.                *)
LEMMA ContentsStep ==
  ASSUME NEW d, NEW e, NEW b, NEW s \in Writing, NEW first, NEW nx, NEW lost, NEW more,
         lost \subseteq more, NEW s2, NEW nx2, s2 = s \/ (s2 = After(s) /\ nx2 = 1),
         ContentsAt(d, b, s, first, nx, lost),
         NEW kind, Extends(d, e, kind), \A t \in ListStages : t # s => KindOf(t) # kind,
         s \in MediaStages =>
           MediaIn(e, KindOf(s), MediaList(b, s), KeysOf(b, s),
                   Count(s2, first, nx2, s, MediaList(b, s)), more),
         s \in NumberStages =>
           NumbersIn(e, KindOf(s), NumberList(b, s), Count(s2, first, nx2, s, NumberList(b, s)))
  PROVE  ContentsAt(e, b, s2, first, nx2, more)
<1>1. ASSUME NEW t \in MediaStages
      PROVE  MediaIn(e, KindOf(t), MediaList(b, t), KeysOf(b, t),
                     Count(s2, first, nx2, t, MediaList(b, t)), more)
  <2>1. CASE t = s
    BY <2>1
  <2>2. CASE t # s
    <3>1. Count(s2, first, nx2, t, MediaList(b, t)) = Count(s, first, nx, t, MediaList(b, t))
      BY <2>2, CountOfOthers DEF ListStages
    <3>2. PICK n : n = Count(s, first, nx, t, MediaList(b, t))
      OBVIOUS
    <3>3. MediaIn(d, KindOf(t), MediaList(b, t), KeysOf(b, t), n, lost)
      BY <3>2 DEF ContentsAt
    <3>4. KindOf(t) # kind
      BY <2>2 DEF ListStages
    <3>5. MediaIn(e, KindOf(t), MediaList(b, t), KeysOf(b, t), n, more)
      BY <3>3, <3>4, OtherMedia
    <3> QED BY <3>1, <3>2, <3>5
  <2> QED BY <2>1, <2>2
<1>2. ASSUME NEW t \in NumberStages
      PROVE  NumbersIn(e, KindOf(t), NumberList(b, t),
                       Count(s2, first, nx2, t, NumberList(b, t)))
  <2>1. CASE t = s
    BY <2>1
  <2>2. CASE t # s
    <3>1. Count(s2, first, nx2, t, NumberList(b, t)) = Count(s, first, nx, t, NumberList(b, t))
      BY <2>2, CountOfOthers DEF ListStages
    <3>2. PICK n : n = Count(s, first, nx, t, NumberList(b, t))
      OBVIOUS
    <3>3. NumbersIn(d, KindOf(t), NumberList(b, t), n)
      BY <3>2 DEF ContentsAt
    <3>4. KindOf(t) # kind
      BY <2>2 DEF ListStages
    <3>5. NumbersIn(e, KindOf(t), NumberList(b, t), n)
      BY <3>3, <3>4, OtherNumbers
    <3> QED BY <3>1, <3>2, <3>5
  <2> QED BY <2>1, <2>2
<1>3. IsFiniteSet(DOMAIN e)
  BY DEF Extends
<1> QED BY <1>1, <1>2, <1>3 DEF ContentsAt

(* Nothing is in an empty directory. *)
LEMMA ContentsOfEmpty ==
  ASSUME NEW d, d = <<>>, NEW b, IsBackup(b), NEW first \in {"header", "database"}, NEW lost
  PROVE  ContentsAt(d, b, first, first, 1, lost)
<1>1. DOMAIN d = {} /\ IsFiniteSet(DOMAIN d)
  BY FS_EmptySet
<1>2. \A list : \A t \in ListStages : Count(first, first, 1, t, list) = 0
  <2>1. \A t \in ListStages : ~(Place(t) < Place("header")) /\ t # "header"
    BY PlaceIs DEF ListStages, MediaStages, NumberStages
  <2> QED BY <2>1 DEF Count
<1>3. \A kind, keys, list : Len(list) \in Nat => MediaIn(d, kind, list, keys, 0, lost)
  BY <1>1 DEF MediaIn, Frames
<1>4. \A kind, list : Len(list) \in Nat => NumbersIn(d, kind, list, 0)
  BY <1>1 DEF NumbersIn
<1>5. \A t \in MediaStages : Len(MediaList(b, t)) \in Nat
  BY DEF MediaList, IsBackup
<1>6. \A t \in NumberStages : Len(NumberList(b, t)) \in Nat
  BY DEF NumberList, IsBackup
<1> QED BY <1>1, <1>2, <1>3, <1>4, <1>5, <1>6 DEF ContentsAt, ListStages

-----------------------------------------------------------------------------
(* The steps of the export *)

(* Data may be short once the export has failed.                                *)
Lost(ok) == IF ok THEN {} ELSE {""}

FirstFrames ==
  /\ Place(stage) > 1 => Single("Header") \in DOMAIN dir
  /\ Place(stage) > 2 /\ exportok => Single("DatabaseVersion") \in DOMAIN dir

(* What the directory holds while the disk is not full. *)
Held ==
  /\ ContentsAt(dir, backup, stage, FirstStage, next, Lost(exportok))
  /\ FirstStage = "header" => FirstFrames
  /\ stage = "done" => Database \in DOMAIN dir /\ dir[Database] = backup.rows

TypeOK ==
  /\ backup \in Backups /\ command \in Commands
  /\ next \in Nat \ {0} /\ exportok \in BOOLEAN /\ full \in BOOLEAN
  /\ stage \in Writing \cup {"prepare", "clearing", "refused", "crashed", "done"}
  /\ stage \in {"prepare", "clearing"} => next = 1 /\ exportok

HeldInv ==
  /\ TypeOK
  /\ FirstStage = "database" =>
       stage \in {"prepare", "clearing", "refused", "crashed", "done"} \cup Saving
  /\ stage = "done" /\ full => ~exportok
  /\ stage \in Writing \cup {"done"} /\ ~full => Held

LEMMA FirstStageIs == FirstStage \in {"header", "database"}
BY DEF FirstStage

LEMMA BackupIs == TypeOK => IsBackup(backup)
BY BackupsAssumption DEF TypeOK

(* The names of the avatars are in the order of the avatars. *)
LEMMA AvatarKeysAre ==
  ASSUME NEW b, IsBackup(b), NEW n, n = Len(b.avatars), NEW k, k = AvatarKeys(b)
  PROVE  /\ n \in Nat /\ DOMAIN k = 1 .. n
         /\ \A i \in 1 .. n : k[i] \in Seq(Int)
         /\ \A i, j \in 1 .. n : i < j => Before(k[i], k[j])
<1>2. n \in Nat /\ DOMAIN k = 1 .. n
  BY DEF AvatarKeys, IsBackup
<1>3. \A i \in 1 .. n : k[i] = AvatarKey(i, n, b.avatars[i].id) /\ b.avatars[i].id \in Nat
  <2>1. b.avatars \in Seq(MediaSet) /\ DOMAIN b.avatars = 1 .. n
    BY DEF IsBackup
  <2>2. \A i \in 1 .. n : b.avatars[i] \in MediaSet
    BY <2>1
  <2>3. \A i \in 1 .. n : b.avatars[i].id \in Nat
    BY <2>2 DEF MediaSet
  <2>4. \A i \in 1 .. n : k[i] = AvatarKey(i, n, b.avatars[i].id)
    BY <2>1 DEF AvatarKeys
  <2> QED BY <2>3, <2>4
<1>4. \A i \in 1 .. n : k[i] \in Seq(Int)
  <2> TAKE i \in 1 .. n
  <2>1. PICK id \in Nat : k[i] = AvatarKey(i, n, id)
    BY <1>3
  <2>2. i \in Nat
    BY <1>2
  <2>3. n \in Nat
    BY <1>2
  <2>4. AvatarKey(i, n, id) \in Seq(Int)
    BY ONLY <2>2, <2>3, id \in Nat, AvatarKeyIs
  <2> QED BY <2>1, <2>4
<1>5. \A i, j \in 1 .. n : i < j => Before(k[i], k[j])
  <2> TAKE i, j \in 1 .. n
  <2> HAVE i < j
  <2>1. PICK r \in Nat : k[i] = AvatarKey(i, n, r)
    BY <1>3
  <2>2. PICK s \in Nat : k[j] = AvatarKey(j, n, s)
    BY <1>3
  <2>3. i \in 1 .. j - 1
    BY <1>2
  <2> QED BY <1>2, <2>1, <2>2, <2>3, AvatarKeysInOrder
<1> QED BY <1>2, <1>4, <1>5

LEMMA KeysAreDistinct ==
  ASSUME NEW b, IsBackup(b), NEW t \in MediaStages
  PROVE  /\ Len(MediaList(b, t)) \in Nat
         /\ DOMAIN KeysOf(b, t) = 1 .. Len(MediaList(b, t))
         /\ DOMAIN MediaList(b, t) = 1 .. Len(MediaList(b, t))
         /\ Distinct(KeysOf(b, t))
<1>1. /\ Len(MediaList(b, t)) \in Nat
      /\ DOMAIN MediaList(b, t) = 1 .. Len(MediaList(b, t))
  BY DEF MediaList, IsBackup
<1>2. DOMAIN KeysOf(b, t) = DOMAIN MediaList(b, t)
  BY DEF KeysOf, MediaList, AttachmentKeys, AvatarKeys, StickerKeys, MediaStages
<1>3. CASE t = "attachments"
  <2>1. KeysOf(b, t) = AttachmentKeys(b)
    BY <1>3 DEF KeysOf
  <2>2. Distinct(AttachmentKeys(b))
    BY DEF AttachmentKeys, Distinct, IsBackup
  <2> QED BY <1>1, <1>2, <2>1, <2>2
<1>4. CASE t = "avatars"
  <2>1. KeysOf(b, t) = AvatarKeys(b)
    BY <1>4 DEF KeysOf
  <2>2. PICK n : n = Len(b.avatars)
    OBVIOUS
  <2>3. PICK k : k = AvatarKeys(b)
    OBVIOUS
  <2>4. /\ n \in Nat /\ DOMAIN k = 1 .. n
        /\ \A i \in 1 .. n : k[i] \in Seq(Int)
    BY <2>2, <2>3, AvatarKeysAre
  <2>5. \A i, j \in 1 .. n : i < j => Before(k[i], k[j])
    BY <2>2, <2>3, AvatarKeysAre
  <2>6. \A i, j \in 1 .. n : i < j => k[i] # k[j]
    BY <2>4, <2>5, BeforeIsStrict
  <2>7. Distinct(k)
    <3> SUFFICES ASSUME NEW i \in 1 .. n, NEW j \in 1 .. n, k[i] = k[j] PROVE i = j
      BY <2>4 DEF Distinct
    <3>1. ~(i < j) /\ ~(j < i)
      BY <2>6
    <3> QED BY <2>4, <3>1
  <2> QED BY <1>1, <1>2, <2>1, <2>3, <2>7
<1>5. CASE t = "stickers"
  <2>1. KeysOf(b, t) = StickerKeys(b)
    BY <1>5 DEF KeysOf
  <2>2. Distinct(StickerKeys(b))
    BY DEF StickerKeys, Distinct
  <2> QED BY <1>1, <1>2, <2>1, <2>2
<1> QED BY <1>3, <1>4, <1>5 DEF MediaStages

(* What a frame with its data writes where the disk is not full.                *)
LEMMA MediaWritten ==
  ASSUME ~full, exportok \in BOOLEAN, NEW kind, NEW key, NEW m, WriteMedia(kind, key, m)
  PROVE  /\ exportok' \in BOOLEAN
         /\ \E data : /\ dir' = WithMedia(dir, kind, key, m, data)
                      /\ data \in {m.data} \cup Lost(exportok')
         /\ Lost(exportok) \subseteq Lost(exportok')
<1> DEFINE sbf == Name(kind, key, "sbf")
           bin == Name(kind, key, "bin")
           f == With(dir, sbf, <<MediaFrame(m)>>)
<1>1. \A d, name, content, blank :
        Written(d, name, content, blank) = {[dir |-> With(d, name, content), ok |-> TRUE]}
  BY DEF Written
<1>2. PICK w \in Written(dir, sbf, <<MediaFrame(m)>>, <<>>) :
        \E d \in IF w.ok THEN DataWritten(kind, m, w.dir, bin) ELSE {w} :
          dir' = d.dir /\ exportok' = (exportok /\ d.ok)
  BY DEF WriteMedia
<1>3. w = [dir |-> f, ok |-> TRUE]
  BY <1>1, <1>2
<1>4. w.dir = f /\ w.ok = TRUE
  BY <1>3
<1>5. PICK d \in DataWritten(kind, m, f, bin) : dir' = d.dir /\ exportok' = (exportok /\ d.ok)
  BY <1>2, <1>4
<1>6. \/ d = [dir |-> With(f, bin, m.data), ok |-> TRUE]
      \/ d = [[dir |-> With(f, bin, ""), ok |-> TRUE] EXCEPT !.ok = FALSE]
  <2>1. Written(f, bin, m.data, "") = {[dir |-> With(f, bin, m.data), ok |-> TRUE]}
    BY <1>1
  <2>2. Failed(Written(f, bin, "", ""))
          = {[[dir |-> With(f, bin, ""), ok |-> TRUE] EXCEPT !.ok = FALSE]}
    BY <1>1 DEF Failed
  <2> QED BY <1>5, <2>1, <2>2 DEF DataWritten
<1>7. CASE d = [dir |-> With(f, bin, m.data), ok |-> TRUE]
  <2>1. dir' = With(f, bin, m.data) /\ d.ok = TRUE
    BY <1>5, <1>7
  <2>2. exportok' = exportok
    BY <1>5, <2>1
  <2>3. dir' = WithMedia(dir, kind, key, m, m.data)
    BY <2>1 DEF WithMedia
  <2> QED BY <2>2, <2>3
<1>8. CASE d = [[dir |-> With(f, bin, ""), ok |-> TRUE] EXCEPT !.ok = FALSE]
  <2>1. dir' = With(f, bin, "") /\ d.ok = FALSE
    BY <1>5, <1>8
  <2>2. exportok' = FALSE
    BY <1>5, <2>1
  <2>3. dir' = WithMedia(dir, kind, key, m, "")
    BY <2>1 DEF WithMedia
  <2>4. Lost(exportok') = {""} /\ Lost(exportok) \subseteq {""}
    BY <2>2 DEF Lost
  <2> QED BY <2>2, <2>3, <2>4
<1> QED BY <1>6, <1>7, <1>8

LEMMA AdvanceGoes ==
  ASSUME stage \in Writing \ Saving, next \in Nat \ {0}, NEW count \in Nat, Advance(count)
  PROVE  /\ stage' \in Writing /\ next' \in Nat \ {0}
         /\ stage' = stage \/ (stage' = After(stage) /\ next' = 1)
BY AfterIs DEF Advance, Writing, Saving, ListStages, MediaStages, NumberStages

(* The frames that no opening does without stay.                                *)
LEMMA FirstFramesStay ==
  ASSUME stage \in Writing \ {"header", "version"}, exportok \in BOOLEAN, FirstFrames,
         DOMAIN dir \subseteq DOMAIN dir', exportok' => exportok
  PROVE  FirstFrames'
<1>1. Place(stage) > 2 /\ Place(stage) > 1
  BY PlaceIs DEF Writing, Saving, ListStages, MediaStages, NumberStages
<1>2. Single("Header") \in DOMAIN dir'
  BY <1>1 DEF FirstFrames
<1>3. exportok' => Single("DatabaseVersion") \in DOMAIN dir'
  BY <1>1 DEF FirstFrames
<1> QED BY <1>2, <1>3 DEF FirstFrames

LEMMA LostIs ==
  \A ok, then \in BOOLEAN : Lost(ok) \subseteq Lost(then) => (then => ok)
BY DEF Lost

LEMMA FirstStageStays == command' = command => FirstStage' = FirstStage
BY DEF FirstStage, onlydb

LEMMA HeaderFirst ==
  ASSUME HeldInv, stage \in Writing \ Saving
  PROVE  FirstStage = "header"
<1>1. stage \notin {"prepare", "clearing", "refused", "crashed", "done"} \cup Saving
  BY DEF Writing, Saving, ListStages, MediaStages, NumberStages
<1>2. FirstStage # "database"
  BY <1>1 DEF HeldInv
<1> QED BY <1>2, FirstStageIs

(* Nothing is written of an empty list. *)
LEMMA PassOverHolds ==
  ASSUME HeldInv, NEW list, PassOver(list), UNCHANGED <<backup, command, full>>,
         stage \in ListStages,
         stage \in MediaStages => list = MediaList(backup, stage),
         stage \in NumberStages => list = NumberList(backup, stage)
  PROVE  HeldInv'
<1>1. /\ stage' = After(stage) /\ next' = 1 /\ dir' = dir /\ exportok' = exportok /\ list = <<>>
      /\ backup' = backup /\ command' = command /\ full' = full
  BY DEF PassOver
<1>2. stage' \in Writing
  BY <1>1, AfterIs DEF Writing, Saving, ListStages, MediaStages, NumberStages
<1>3. TypeOK'
  BY <1>1, <1>2 DEF HeldInv, TypeOK, Writing, Saving, ListStages, MediaStages, NumberStages
<1>4. FirstStage' = FirstStage /\ FirstStage = "header"
  <2>1. stage \in Writing \ Saving
    BY DEF Writing, Saving, ListStages, MediaStages, NumberStages
  <2>2. FirstStage' = FirstStage
    BY <1>1, FirstStageStays
  <2> QED BY <2>1, <2>2, HeaderFirst
<1>5. ASSUME ~full PROVE Held'
  <2>1. Held
    BY <1>5 DEF HeldInv, Writing, Saving
  <2>2. Extends(dir, dir, KindOf(stage))
    BY <2>1 DEF Held, ContentsAt, Extends
  <2>3. \A t \in ListStages : t # stage => KindOf(t) # KindOf(stage)
    BY KindsDiffer
  <2> DEFINE lost == Lost(exportok)
             nx == next
             first == FirstStage
             e == dir
  <2>4. ContentsAt(e, backup, stage, first, nx, lost)
    BY <2>1 DEF Held
  <2>5. Len(list) = 0
    BY <1>1
  <2>6. /\ Count(stage, first, nx, stage, list) = nx - 1
        /\ Count(After(stage), first, 1, stage, list) = 0
    <3>1. first # "database"
      BY <1>4
    <3> HIDE DEF first, nx
    <3>2. Count(stage, first, nx, stage, list) = nx - 1
      BY <3>1, CountOfOwn
    <3>3. Count(After(stage), first, 1, stage, list) = Len(list)
      BY <3>1, CountOfOwn
    <3> QED BY <2>5, <3>2, <3>3
  <2>7. ASSUME stage \in MediaStages
        PROVE  MediaIn(e, KindOf(stage), list, KeysOf(backup, stage), 0, lost)
    <3>1. MediaIn(e, KindOf(stage), list, KeysOf(backup, stage), nx - 1, lost)
      BY <2>4, <2>6, <2>7 DEF ContentsAt
    <3>2. nx - 1 = 0
      BY <2>5, <3>1 DEF MediaIn
    <3> QED BY <3>1, <3>2
  <2>8. ASSUME stage \in NumberStages PROVE NumbersIn(e, KindOf(stage), list, 0)
    <3>1. NumbersIn(e, KindOf(stage), list, nx - 1)
      BY <2>4, <2>6, <2>8 DEF ContentsAt
    <3>2. nx - 1 = 0
      BY <2>5, <3>1 DEF NumbersIn
    <3> QED BY <3>1, <3>2
  <2> HIDE DEF lost, nx, first, e
  <2>9. ContentsAt(e, backup, After(stage), first, 1, lost)
    <3>1. stage \in Writing
      BY DEF Writing, Saving
    <3>2. Extends(e, e, KindOf(stage))
      BY <2>2 DEF e
    <3> QED BY <2>3, <2>4, <2>6, <2>7, <2>8, <3>1, <3>2, ContentsStep
  <2>10. ContentsAt(dir', backup', stage', FirstStage', next', Lost(exportok'))
    BY <1>1, <1>4, <2>9 DEF e, first, lost
  <2>11. FirstFrames'
    <3>1. stage \in Writing \ {"header", "version"} /\ exportok \in BOOLEAN /\ FirstFrames
      BY <1>4, <2>1 DEF Held, HeldInv, TypeOK, Writing, Saving, ListStages, MediaStages, NumberStages
    <3> QED BY <1>1, <3>1, FirstFramesStay
  <2>12. stage' # "done"
    BY <1>2 DEF Writing, Saving, ListStages, MediaStages, NumberStages
  <2> QED BY <2>10, <2>11, <2>12 DEF Held
<1>6. stage' # "done"
  BY <1>2 DEF Writing, Saving, ListStages, MediaStages, NumberStages
<1> QED BY <1>1, <1>3, <1>4, <1>5, <1>6 DEF HeldInv

-----------------------------------------------------------------------------
(* What is left to show of a step that writes a file, when the disk is full.    *)
LEMMA FullHolds ==
  ASSUME HeldInv, full, stage \in Writing \ Saving, stage' \in Writing,
         next' \in Nat \ {0}, exportok' \in BOOLEAN, UNCHANGED <<backup, command, full>>
  PROVE  HeldInv'
<1>1. backup' = backup /\ command' = command /\ full' = full
  OBVIOUS
<1>2. stage' \notin {"prepare", "clearing", "done"}
  BY DEF Writing, Saving, ListStages, MediaStages, NumberStages
<1>3. TypeOK'
  BY <1>1, <1>2 DEF HeldInv, TypeOK
<1>4. FirstStage' = "header"
  BY <1>1, FirstStageStays, HeaderFirst
<1> QED BY <1>1, <1>2, <1>3, <1>4 DEF HeldInv

LEMMA NotFullHolds ==
  ASSUME HeldInv, ~full, stage \in Writing \ Saving, stage' \in Writing,
         next' \in Nat \ {0}, exportok' \in BOOLEAN, UNCHANGED <<backup, command, full>>,
         ContentsAt(dir', backup, stage', FirstStage, next', Lost(exportok')), FirstFrames'
  PROVE  HeldInv'
<1>1. backup' = backup /\ command' = command /\ full' = full
  OBVIOUS
<1>2. stage' \notin {"prepare", "clearing", "done"}
  BY DEF Writing, Saving, ListStages, MediaStages, NumberStages
<1>3. TypeOK'
  BY <1>1, <1>2 DEF HeldInv, TypeOK
<1>4. FirstStage' = "header" /\ FirstStage' = FirstStage
  BY <1>1, FirstStageStays, HeaderFirst
<1>5. ContentsAt(dir', backup', stage', FirstStage', next', Lost(exportok'))
  BY <1>1, <1>4
<1>6. Held'
  BY <1>2, <1>5 DEF Held
<1> QED BY <1>1, <1>2, <1>3, <1>4, <1>6 DEF HeldInv

LEMMA MediaOkType ==
  ASSUME exportok \in BOOLEAN, NEW kind, NEW key, NEW m, WriteMedia(kind, key, m)
  PROVE  exportok' \in BOOLEAN
<1>1. \E x : exportok' = (exportok /\ x)
  BY DEF WriteMedia
<1> QED BY <1>1

LEMMA MediaFramesHold ==
  ASSUME HeldInv, NEW s \in MediaStages,
         WriteMediaFrames(s, KindOf(s), KeysOf(backup, s), MediaList(backup, s))
  PROVE  HeldInv'
<1> DEFINE kind == KindOf(s)
           keys == KeysOf(backup, s)
           list == MediaList(backup, s)
<1>1. /\ stage = s /\ stage \in Writing \ Saving /\ stage \in ListStages
      /\ stage \notin NumberStages
  BY DEF WriteMediaFrames, Writing, Saving, ListStages, MediaStages, NumberStages
<1>2. UNCHANGED <<backup, command, full>>
  BY DEF WriteMediaFrames
<1>3. CASE PassOver(list)
  BY <1>1, <1>2, <1>3, PassOverHolds
<1>4. CASE ~PassOver(list)
  <2>1. next \in DOMAIN list /\ WriteMedia(kind, keys[next], list[next]) /\ Advance(Len(list))
    BY <1>4 DEF WriteMediaFrames
  <2>2. TypeOK /\ exportok \in BOOLEAN /\ next \in Nat \ {0} /\ IsBackup(backup)
    BY BackupIs DEF HeldInv, TypeOK
  <2>3. /\ Len(list) \in Nat /\ DOMAIN keys = 1 .. Len(list) /\ DOMAIN list = 1 .. Len(list)
        /\ Distinct(keys)
    BY <2>2, KeysAreDistinct
  <2>4. /\ stage' \in Writing /\ next' \in Nat \ {0}
        /\ stage' = stage \/ (stage' = After(stage) /\ next' = 1)
    <3> HIDE DEF list
    <3> QED BY <1>1, <2>1, <2>2, <2>3, AdvanceGoes
  <2>5. exportok' \in BOOLEAN
    BY <2>1, <2>2, MediaOkType
  <2>6. CASE full
    BY <1>1, <1>2, <2>4, <2>5, <2>6, FullHolds
  <2>7. CASE ~full
    <3>1. Held
      BY <1>1, <2>7 DEF HeldInv
    <3>2. PICK n \in Nat : n = next - 1
      BY <2>2
    <3>3. n + 1 = next /\ n < Len(list)
      BY <2>1, <2>2, <2>3, <3>2
    <3>4. PICK data : /\ dir' = WithMedia(dir, kind, keys[next], list[next], data)
                      /\ data \in {list[next].data} \cup Lost(exportok')
      <4> HIDE DEF kind, keys, list
      <4> QED BY <2>1, <2>2, <2>7, MediaWritten
    <3>5. Lost(exportok) \subseteq Lost(exportok')
      <4> HIDE DEF kind, keys, list
      <4> QED BY <2>1, <2>2, <2>7, MediaWritten
    <3>6. FirstStage = "header"
      BY <1>1, HeaderFirst
    <3> DEFINE d == dir
               lost == Lost(exportok)
               first == FirstStage
               nx == next
               b == backup
    <3>7. ContentsAt(d, b, s, first, nx, lost)
      BY <1>1, <3>1 DEF Held
    <3>8. Count(s, first, nx, s, list) = n
      <4>1. first # "database" /\ s \in ListStages
        BY <1>1, <3>6
      <4>2. Count(s, first, nx, s, list) = nx - 1
        <5> HIDE DEF first, nx, list
        <5> QED BY <4>1, CountOfOwn
      <4> QED BY <4>2, <3>2
    <3>9. MediaIn(d, kind, list, keys, n, lost)
      BY <3>7, <3>8 DEF ContentsAt
    <3>10. PICK more : more = Lost(exportok')
      OBVIOUS
    <3>11. PICK e : e = WithMedia(d, kind, keys[n + 1], list[n + 1], data)
      OBVIOUS
    <3>12. lost \subseteq more /\ data \in {list[n + 1].data} \cup more
      BY <3>3, <3>4, <3>5, <3>10
    <3>13. MediaIn(e, kind, list, keys, n + 1, more)
      <4> HIDE DEF d, kind, list, keys, lost
      <4> QED BY <2>3, <3>3, <3>9, <3>11, <3>12, NextMedia
    <3>14. IsFiniteSet(DOMAIN d)
      BY <3>7 DEF ContentsAt
    <3>15. Extends(d, e, kind)
      <4> HIDE DEF d, kind, list, keys
      <4> QED BY <3>11, <3>14, WithMediaIs
    <3>16. PICK s2, nx2 : s2 = stage' /\ nx2 = next'
      OBVIOUS
    <3>17. s2 = s \/ (s2 = After(s) /\ nx2 = 1)
      BY <1>1, <2>4, <3>16
    <3>18. Count(s2, first, nx2, s, list) = n + 1
      <4>1. first # "database" /\ s \in ListStages
        BY <1>1, <3>6
      <4>2. CASE next < Len(list)
        <5>1. s2 = s /\ nx2 = next + 1
          BY <1>1, <2>1, <3>16, <4>2 DEF Advance
        <5>2. Count(s, first, nx2, s, list) = nx2 - 1
          <6> HIDE DEF first, list
          <6> QED BY <4>1, CountOfOwn
        <5> QED BY <2>2, <3>3, <5>1, <5>2
      <4>3. CASE ~(next < Len(list))
        <5>1. s2 = After(s) /\ nx2 = 1
          BY <1>1, <2>1, <3>16, <4>3 DEF Advance
        <5>2. Count(After(s), first, 1, s, list) = Len(list)
          <6> HIDE DEF first, list
          <6> QED BY <4>1, CountOfOwn
        <5>3. next = Len(list)
          <6> HIDE DEF list
          <6> QED BY <2>1, <2>2, <2>3, <4>3
        <5> QED BY <3>3, <5>1, <5>2, <5>3
      <4> QED BY <4>2, <4>3
    <3>19. \A t \in ListStages : t # s => KindOf(t) # kind
      BY <1>1, KindsDiffer
    <3>20. MediaIn(e, KindOf(s), MediaList(b, s), KeysOf(b, s),
                   Count(s2, first, nx2, s, MediaList(b, s)), more)
      BY <3>13, <3>18
    <3>21. s \in Writing /\ s \notin NumberStages
      BY <1>1
    <3>22. ContentsAt(e, b, s2, first, nx2, more)
      <4> HIDE DEF d, b, first, lost, kind, nx
      <4> QED BY <3>7, <3>12, <3>15, <3>17, <3>19, <3>20, <3>21, ContentsStep
    <3>23. dir' = e
      BY <3>3, <3>4, <3>11
    <3>24. ContentsAt(dir', backup, stage', FirstStage, next', Lost(exportok'))
      BY <3>10, <3>16, <3>22, <3>23
    <3>25. FirstFrames'
      <4>1. FirstFrames
        BY <3>1, <3>6 DEF Held
      <4>2. DOMAIN dir \subseteq DOMAIN dir'
        BY <3>15, <3>23 DEF Extends
      <4>3. exportok' => exportok
        BY <2>2, <2>5, <3>5, LostIs
      <4>4. stage \in Writing \ {"header", "version"}
        BY <1>1 DEF MediaStages
      <4> QED BY <2>2, <4>1, <4>2, <4>3, <4>4, FirstFramesStay
    <3> QED BY <1>1, <1>2, <2>4, <2>5, <2>7, <3>24, <3>25, NotFullHolds
  <2> QED BY <2>6, <2>7
<1> QED BY <1>3, <1>4

-----------------------------------------------------------------------------
(* Where the disk is not full, a file is as it was meant. *)
LEMMA WrittenWhole ==
  ASSUME ~full, NEW d, NEW name, NEW content, NEW blank, NEW w \in Written(d, name, content, blank)
  PROVE  w.dir = With(d, name, content) /\ w.ok = TRUE
<1>1. w = [dir |-> With(d, name, content), ok |-> TRUE]
  BY DEF Written
<1> QED BY <1>1

LEMMA NumberedHolds ==
  ASSUME HeldInv, NEW s \in NumberStages, WriteNumbered(s, KindOf(s), NumberList(backup, s))
  PROVE  HeldInv'
<1> DEFINE kind == KindOf(s)
           list == NumberList(backup, s)
<1>1. /\ stage = s /\ stage \in Writing \ Saving /\ stage \in ListStages
      /\ stage \notin MediaStages
  BY DEF WriteNumbered, Writing, Saving, ListStages, MediaStages, NumberStages
<1>2. UNCHANGED <<backup, command, full>>
  BY DEF WriteNumbered
<1>3. CASE PassOver(list)
  BY <1>1, <1>2, <1>3, PassOverHolds
<1>4. CASE ~PassOver(list)
  <2>1. next \in DOMAIN list /\ Advance(Len(list))
    BY <1>4 DEF WriteNumbered
  <2>2. PICK w \in Written(dir, Name(kind, <<next>>, "sbf"), list[next], <<>>) :
          dir' = w.dir /\ exportok' = (exportok /\ w.ok)
    BY <1>4 DEF WriteNumbered
  <2>3. TypeOK /\ exportok \in BOOLEAN /\ next \in Nat \ {0} /\ IsBackup(backup)
    BY BackupIs DEF HeldInv, TypeOK
  <2>4. Len(list) \in Nat /\ DOMAIN list = 1 .. Len(list)
    BY <2>3 DEF NumberList, IsBackup
  <2>5. /\ stage' \in Writing /\ next' \in Nat \ {0}
        /\ stage' = stage \/ (stage' = After(stage) /\ next' = 1)
    <3> HIDE DEF list
    <3> QED BY <1>1, <2>1, <2>3, <2>4, AdvanceGoes
  <2>6. exportok' \in BOOLEAN
    BY <2>2, <2>3
  <2>7. CASE full
    BY <1>1, <1>2, <2>5, <2>6, <2>7, FullHolds
  <2>8. CASE ~full
    <3>1. Held
      BY <1>1, <2>8 DEF HeldInv
    <3>2. PICK n \in Nat : n = next - 1
      BY <2>3
    <3>3. n + 1 = next /\ n < Len(list)
      BY <2>1, <2>3, <2>4, <3>2
    <3>4. dir' = With(dir, Name(kind, <<next>>, "sbf"), list[next]) /\ exportok' = exportok
      <4>1. w.dir = With(dir, Name(kind, <<next>>, "sbf"), list[next]) /\ w.ok = TRUE
        <5> HIDE DEF kind, list
        <5> QED BY <2>2, <2>8, WrittenWhole
      <4> QED BY <2>2, <2>3, <4>1
    <3>5. FirstStage = "header"
      BY <1>1, HeaderFirst
    <3> DEFINE d == dir
               lost == Lost(exportok)
               first == FirstStage
               nx == next
               b == backup
    <3>6. ContentsAt(d, b, s, first, nx, lost)
      BY <1>1, <3>1 DEF Held
    <3>7. Count(s, first, nx, s, list) = n
      <4>1. first # "database" /\ s \in ListStages
        BY <1>1, <3>5
      <4>2. Count(s, first, nx, s, list) = nx - 1
        <5> HIDE DEF first, nx, list
        <5> QED BY <4>1, CountOfOwn
      <4> QED BY <4>2, <3>2
    <3>8. NumbersIn(d, kind, list, n)
      BY <3>6, <3>7 DEF ContentsAt
    <3>9. PICK e : e = With(d, Name(kind, <<n + 1>>, "sbf"), list[n + 1])
      OBVIOUS
    <3>10. NumbersIn(e, kind, list, n + 1)
      <4> HIDE DEF d, kind, list
      <4> QED BY <2>4, <3>3, <3>8, <3>9, NextNumber
    <3>11. IsFiniteSet(DOMAIN d)
      BY <3>6 DEF ContentsAt
    <3>12. Extends(d, e, kind)
      <4>1. Extends(d, e, Name(kind, <<n + 1>>, "sbf")[1])
        <5> HIDE DEF d, kind, list
        <5> QED BY <3>9, <3>11, WithExtends
      <4> QED BY <4>1, NameParts
    <3>13. PICK s2, nx2 : s2 = stage' /\ nx2 = next'
      OBVIOUS
    <3>14. s2 = s \/ (s2 = After(s) /\ nx2 = 1)
      BY <1>1, <2>5, <3>13
    <3>15. Count(s2, first, nx2, s, list) = n + 1
      <4>1. first # "database" /\ s \in ListStages
        BY <1>1, <3>5
      <4>2. CASE next < Len(list)
        <5>1. s2 = s /\ nx2 = next + 1
          BY <1>1, <2>1, <3>13, <4>2 DEF Advance
        <5>2. Count(s, first, nx2, s, list) = nx2 - 1
          <6> HIDE DEF first, list
          <6> QED BY <4>1, CountOfOwn
        <5> QED BY <2>3, <3>3, <5>1, <5>2
      <4>3. CASE ~(next < Len(list))
        <5>1. s2 = After(s) /\ nx2 = 1
          BY <1>1, <2>1, <3>13, <4>3 DEF Advance
        <5>2. Count(After(s), first, 1, s, list) = Len(list)
          <6> HIDE DEF first, list
          <6> QED BY <4>1, CountOfOwn
        <5>3. next = Len(list)
          <6> HIDE DEF list
          <6> QED BY <2>1, <2>3, <2>4, <4>3
        <5> QED BY <3>3, <5>1, <5>2, <5>3
      <4> QED BY <4>2, <4>3
    <3>16. \A t \in ListStages : t # s => KindOf(t) # kind
      BY <1>1, KindsDiffer
    <3>17. NumbersIn(e, KindOf(s), NumberList(b, s), Count(s2, first, nx2, s, NumberList(b, s)))
      BY <3>10, <3>15
    <3>18. s \in Writing /\ s \notin MediaStages
      BY <1>1
    <3>19. ContentsAt(e, b, s2, first, nx2, lost)
      <4> HIDE DEF d, b, first, lost, kind, nx
      <4> QED BY <3>6, <3>12, <3>14, <3>16, <3>17, <3>18, ContentsStep
    <3>20. dir' = e
      BY <3>3, <3>4, <3>9
    <3>21. ContentsAt(dir', backup, stage', FirstStage, next', Lost(exportok'))
      BY <3>4, <3>13, <3>19, <3>20
    <3>22. FirstFrames'
      <4>1. FirstFrames
        BY <3>1, <3>5 DEF Held
      <4>2. DOMAIN dir \subseteq DOMAIN dir'
        BY <3>12, <3>20 DEF Extends
      <4>3. stage \in Writing \ {"header", "version"}
        BY <1>1 DEF NumberStages
      <4> QED BY <2>3, <3>4, <4>1, <4>2, <4>3, FirstFramesStay
    <3> QED BY <1>1, <1>2, <2>5, <2>6, <2>8, <3>21, <3>22, NotFullHolds
  <2> QED BY <2>7, <2>8
<1> QED BY <1>3, <1>4

(* What a step that writes none of the lists leaves to show. *)
LEMMA NoListContents ==
  ASSUME NEW d, NEW e, NEW b, NEW s \in Writing \ ListStages, NEW first, NEW nx, NEW lost, NEW more,
         lost \subseteq more, ContentsAt(d, b, s, first, nx, lost), NEW kind, Extends(d, e, kind),
         kind \in {"Header", "DatabaseVersion", "End", "database"}
  PROVE  ContentsAt(e, b, After(s), first, 1, more)
<1>1. \A t \in ListStages : KindOf(t) # kind
  BY KindsDiffer
<1>2. s \notin MediaStages /\ s \notin NumberStages
  BY DEF ListStages
<1> QED BY <1>1, <1>2, ContentsStep

LEMMA SingleHolds ==
  ASSUME HeldInv, NEW s, NEW kind, NEW text, NEW present \in BOOLEAN,
         <<s, kind>> \in {<<"header", "Header">>, <<"version", "DatabaseVersion">>,
                           <<"end", "End">>},
         s = "header" => present, WriteSingle(s, kind, text, present)
  PROVE  HeldInv'
<1>1. /\ stage = s /\ stage \in Writing \ Saving /\ stage \in Writing \ ListStages
      /\ kind \in {"Header", "DatabaseVersion", "End", "database"}
  BY DEF WriteSingle, Writing, Saving, ListStages, MediaStages, NumberStages
<1>2. UNCHANGED <<backup, command, full>>
  BY DEF WriteSingle
<1>3. TypeOK /\ exportok \in BOOLEAN /\ next \in Nat \ {0}
  BY DEF HeldInv, TypeOK
<1>4. stage' = After(stage) /\ next' = 1
  BY <1>1, <1>3 DEF WriteSingle, Advance
<1>5. stage' \in Writing
  BY <1>1, <1>4, AfterIs DEF Writing, Saving, ListStages, MediaStages, NumberStages
<1>6. exportok' \in BOOLEAN /\ (exportok' => exportok)
  BY <1>3 DEF WriteSingle
<1>7. CASE full
  BY <1>1, <1>2, <1>4, <1>5, <1>6, <1>7, FullHolds
<1>8. CASE ~full
  <2>1. Held /\ FirstStage = "header"
    BY <1>1, <1>8, HeaderFirst DEF HeldInv
  <2>2. /\ present => dir' = With(dir, Single(kind), text)
        /\ ~present => dir' = dir /\ exportok' = FALSE
    <3>1. CASE present
      <4>1. PICK w \in Written(dir, Single(kind), text, <<>>) : dir' = w.dir
        BY <3>1 DEF WriteSingle
      <4>2. w.dir = With(dir, Single(kind), text)
        BY <1>8, <4>1, WrittenWhole
      <4> QED BY <3>1, <4>1, <4>2
    <3>2. CASE ~present
      BY <3>2 DEF WriteSingle
    <3> QED BY <3>1, <3>2
  <2>3. IsFiniteSet(DOMAIN dir)
    BY <2>1 DEF Held, ContentsAt
  <2>4. Extends(dir, dir', kind) /\ (present => Single(kind) \in DOMAIN dir')
    <3>1. CASE present
      <4>1. dir' = With(dir, Single(kind), text)
        BY <2>2, <3>1
      <4>2. Extends(dir, dir', Single(kind)[1])
        BY <2>3, <4>1, WithExtends
      <4>3. Single(kind)[1] = kind
        BY NameParts DEF Single
      <4>4. IsWith(dir', dir, Single(kind), text)
        BY <4>1, WithIs
      <4> QED BY <4>2, <4>3, <4>4 DEF IsWith
    <3>2. CASE ~present
      BY <2>2, <2>3, <3>2 DEF Extends
    <3> QED BY <3>1, <3>2
  <2>5. Lost(exportok) \subseteq Lost(exportok')
    BY <1>3, <1>6 DEF Lost
  <2>6. ContentsAt(dir', backup, After(stage), FirstStage, 1, Lost(exportok'))
    <3> DEFINE d == dir
               lost == Lost(exportok)
               first == FirstStage
    <3>1. ContentsAt(d, backup, stage, first, next, lost)
      BY <2>1 DEF Held
    <3>2. PICK e, more : e = dir' /\ more = Lost(exportok')
      OBVIOUS
    <3>3. Extends(d, e, kind) /\ lost \subseteq more
      BY <2>4, <2>5, <3>2
    <3> HIDE DEF d, lost, first
    <3>4. ContentsAt(e, backup, After(stage), first, 1, more)
      BY <1>1, <3>1, <3>3, NoListContents
    <3> QED BY <3>2, <3>4 DEF first
  <2>7. DOMAIN dir \subseteq DOMAIN dir'
    BY <2>4 DEF Extends
  <2>8. FirstFrames
    BY <2>1 DEF Held
  <2>9. FirstFrames'
    <3>1. CASE s = "end"
      <4>1. stage \in Writing \ {"header", "version"}
        BY <1>1, <3>1
      <4> QED BY <1>3, <1>6, <2>7, <2>8, <4>1, FirstFramesStay
    <3>2. CASE s = "header"
      <4>1. Place(stage') = 2 /\ Single("Header") \in DOMAIN dir'
        BY <1>1, <1>4, <2>4, <3>2, AfterIs, PlaceIs
      <4> QED BY <4>1 DEF FirstFrames
    <3>3. CASE s = "version"
      <4>1. Place(stage) > 1
        BY <1>1, <3>3, PlaceIs
      <4>2. Single("Header") \in DOMAIN dir'
        BY <2>7, <2>8, <4>1 DEF FirstFrames
      <4>3. exportok' => Single("DatabaseVersion") \in DOMAIN dir'
        <5>1. exportok' => present
          BY <2>2
        <5>2. kind = "DatabaseVersion"
          BY <3>3
        <5> QED BY <2>4, <5>1, <5>2
      <4> QED BY <4>2, <4>3 DEF FirstFrames
    <3> QED BY <3>1, <3>2, <3>3
  <2> QED BY <1>1, <1>2, <1>4, <1>5, <1>6, <1>8, <2>6, <2>9, NotFullHolds
<1> QED BY <1>7, <1>8

-----------------------------------------------------------------------------
LEMMA PreparedHolds ==
  ASSUME HeldInv, Prepare \/ Clear
  PROVE  HeldInv'
<1>1. /\ stage \in {"prepare", "clearing"} /\ TypeOK /\ next = 1 /\ exportok = TRUE
      /\ UNCHANGED <<backup, command, next, exportok, full>>
  BY DEF HeldInv, TypeOK, Prepare, Clear
<1>2. FirstStage' = FirstStage
  BY <1>1, FirstStageStays
<1>3. \/ stage' \in {"clearing", "refused"}
      \/ stage' = FirstStage /\ dir' = <<>>
  BY DEF Prepare, Clear
<1>4. CASE stage' \in {"clearing", "refused"}
  <2>1. stage' \notin Writing /\ stage' # "done"
    BY <1>4 DEF Writing, Saving, ListStages, MediaStages, NumberStages
  <2>2. TypeOK'
    BY <1>1, <1>4, <2>1 DEF TypeOK
  <2> QED BY <1>1, <1>2, <1>4, <2>1, <2>2 DEF HeldInv
<1>5. CASE stage' = FirstStage /\ dir' = <<>>
  <2>1. stage' \in {"header", "database"} /\ FirstStage' = stage'
    BY <1>2, <1>5, FirstStageIs
  <2>2. TypeOK'
    BY <1>1, <2>1 DEF TypeOK, Writing, Saving
  <2>3. stage' # "done"
    BY <2>1
  <2>4. Held'
    <3>1. IsBackup(backup)
      BY <1>1, BackupIs
    <3>2. PICK d, first, lost : d = dir' /\ first = stage' /\ lost = Lost(exportok')
      OBVIOUS
    <3>3. ContentsAt(d, backup, first, first, 1, lost)
      BY <1>5, <2>1, <3>1, <3>2, ContentsOfEmpty
    <3>4. ContentsAt(dir', backup', stage', FirstStage', next', Lost(exportok'))
      BY <1>1, <2>1, <3>2, <3>3
    <3>5. FirstStage' = "header" => FirstFrames'
      <4>1. FirstStage' = "header" => Place(stage') = 1
        BY <2>1, PlaceIs
      <4> QED BY <4>1 DEF FirstFrames
    <3> QED BY <2>3, <3>4, <3>5 DEF Held
  <2>5. FirstStage' = "database" => stage' \in Saving
    BY <2>1 DEF Saving
  <2> QED BY <2>2, <2>3, <2>4, <2>5 DEF HeldInv
<1> QED BY <1>3, <1>4, <1>5

LEMMA EndedHolds ==
  ASSUME HeldInv, RefuseDirectory \/ ClearFails \/ Crash
  PROVE  HeldInv'
<1>1. stage' \in {"refused", "crashed"} /\ UNCHANGED <<backup, command, next, exportok, full>>
  BY DEF RefuseDirectory, ClearFails, Crash, CrashOnNull
<1>2. stage' \notin Writing /\ stage' # "done"
  BY <1>1 DEF Writing, Saving, ListStages, MediaStages, NumberStages
<1>3. TypeOK'
  BY <1>1 DEF HeldInv, TypeOK
<1> QED BY <1>1, <1>2, <1>3 DEF HeldInv

LEMMA DiskFillsHolds ==
  ASSUME HeldInv, DiskFills
  PROVE  HeldInv'
<1>1. full' = TRUE /\ UNCHANGED <<dir, backup, command, stage, next, exportok>> /\ stage # "done"
  BY DEF DiskFills, Exporting, Final
<1>2. FirstStage' = FirstStage
  BY <1>1, FirstStageStays
<1>3. TypeOK'
  BY <1>1 DEF HeldInv, TypeOK
<1> QED BY <1>1, <1>2, <1>3 DEF HeldInv

(* The database is not among the frames. *)
LEMMA DatabaseHolds ==
  ASSUME HeldInv, ~full, stage \in Saving, NEW rows, dir' = With(dir, Database, rows),
         stage' = After(stage), next' = 1, UNCHANGED <<backup, command, exportok>>
  PROVE  /\ ContentsAt(dir', backup', stage', FirstStage', next', Lost(exportok'))
         /\ FirstStage' = "header" => FirstFrames'
         /\ Database \in DOMAIN dir' /\ dir'[Database] = rows
<1>1. stage \in Writing \ ListStages /\ stage \in Writing \ {"header", "version"}
  BY DEF Writing, Saving, ListStages, MediaStages, NumberStages
<1>2. Held /\ exportok \in BOOLEAN
  BY <1>1 DEF HeldInv, TypeOK
<1>3. FirstStage' = FirstStage
  BY FirstStageStays
<1>4. Extends(dir, dir', "database")
  <2>1. IsFiniteSet(DOMAIN dir)
    BY <1>2 DEF Held, ContentsAt
  <2>2. Extends(dir, dir', Database[1])
    BY <2>1, WithExtends
  <2> QED BY <2>2, NameParts DEF Database
<1>5. IsWith(dir', dir, Database, rows)
  BY WithIs
<1>6. ContentsAt(dir', backup, After(stage), FirstStage, 1, Lost(exportok))
  <2> DEFINE d == dir
             lost == Lost(exportok)
             first == FirstStage
  <2>1. ContentsAt(d, backup, stage, first, next, lost)
    BY <1>2 DEF Held
  <2>2. PICK e : e = dir'
    OBVIOUS
  <2>3. Extends(d, e, "database")
    BY <1>4, <2>2
  <2> HIDE DEF d, lost, first
  <2>4. ContentsAt(e, backup, After(stage), first, 1, lost)
    BY <1>1, <2>1, <2>3, NoListContents
  <2> QED BY <2>2, <2>4 DEF first, lost
<1>7. FirstStage = "header" => FirstFrames'
  <2>1. DOMAIN dir \subseteq DOMAIN dir'
    BY <1>4 DEF Extends
  <2> QED BY <1>1, <1>2, <2>1, FirstFramesStay DEF Held
<1>8. Database \in DOMAIN dir' /\ dir'[Database] = rows
  BY <1>5 DEF IsWith
<1> QED BY <1>3, <1>6, <1>7, <1>8

LEMMA OpenHolds ==
  ASSUME HeldInv, OpenDatabase
  PROVE  HeldInv'
<1>1. /\ stage = "database" /\ stage' = "filling" /\ stage' = After(stage) /\ next' = 1
      /\ UNCHANGED <<backup, command, exportok, full>>
  BY AfterIs DEF OpenDatabase
<1>2. stage' \in Writing /\ stage \in Writing /\ stage \in Saving /\ stage' \in Saving
  BY <1>1 DEF Writing, Saving
<1>3. TypeOK'
  BY <1>1, <1>2 DEF HeldInv, TypeOK
<1>4. ASSUME ~full PROVE Held'
  <2>1. dir' = With(dir, Database, <<>>)
    BY <1>4 DEF OpenDatabase
  <2>2. PICK rows : rows = <<>>
    OBVIOUS
  <2> QED BY <1>1, <1>2, <1>4, <2>1, <2>2, DatabaseHolds DEF Held
<1> QED BY <1>1, <1>2, <1>3, <1>4 DEF HeldInv

LEMMA FillHolds ==
  ASSUME HeldInv, FillDatabase
  PROVE  HeldInv'
<1>1. /\ stage = "filling" /\ stage' = "done" /\ stage' = After(stage) /\ next' = 1
      /\ UNCHANGED <<backup, command, full>>
  BY AfterIs DEF FillDatabase
<1>2. stage \in Saving
  BY <1>1 DEF Saving
<1>3. TypeOK /\ exportok \in BOOLEAN
  BY DEF HeldInv, TypeOK
<1>4. full => exportok' = FALSE
  BY DEF FillDatabase
<1>5. ~full => dir' = With(dir, Database, backup.rows) /\ exportok' = exportok
  BY DEF FillDatabase
<1>6. TypeOK'
  <2>1. exportok' \in BOOLEAN
    <3>1. CASE full
      BY <1>4, <3>1
    <3>2. CASE ~full
      BY <1>3, <1>5, <3>2
    <3> QED BY <3>1, <3>2
  <2>2. stage' = "done" /\ next' \in Nat \ {0}
    BY <1>1
  <2>3. backup' = backup /\ command' = command /\ full' = full
    BY <1>1
  <2> QED BY <1>3, <2>1, <2>2, <2>3 DEF TypeOK
<1>7. ASSUME ~full PROVE Held'
  <2>1. PICK rows : rows = backup.rows
    OBVIOUS
  <2>2. /\ ContentsAt(dir', backup', stage', FirstStage', next', Lost(exportok'))
        /\ FirstStage' = "header" => FirstFrames'
        /\ Database \in DOMAIN dir' /\ dir'[Database] = rows
    BY <1>1, <1>2, <1>5, <1>7, <2>1, DatabaseHolds
  <2> QED BY <1>1, <2>1, <2>2 DEF Held
<1> QED BY <1>1, <1>4, <1>6, <1>7 DEF HeldInv

(* A .new file is beside the frames of attachments, not among them. *)
LEMMA AddNewHolds ==
  ASSUME HeldInv, AddNew
  PROVE  HeldInv'
<1>1. stage = "done" /\ UNCHANGED <<backup, command, stage, next, exportok, full>>
  BY DEF AddNew
<1>2. PICK n, x : /\ dir' = With(dir, New(n), x) /\ n \in Frames(dir, "Attachment")
                  /\ New(n) \notin DOMAIN dir
  BY DEF AddNew
<1>3. FirstStage' = FirstStage
  BY <1>1, FirstStageStays
<1>4. TypeOK'
  BY <1>1 DEF HeldInv, TypeOK
<1>5. ASSUME ~full PROVE Held'
  <2>1. Held
    BY <1>1, <1>5 DEF HeldInv
  <2>2. IsFiniteSet(DOMAIN dir)
    BY <2>1 DEF Held, ContentsAt
  <2>3. PICK name, e : name = New(n) /\ e = dir'
    OBVIOUS
  <2>4. IsWith(e, dir, name, x) /\ name \notin DOMAIN dir
    BY <1>2, <2>3, WithIs
  <2>5. name[1] = n[1] /\ name[3] = "new"
    BY <2>3, NameParts DEF New
  <2>6. n[1] = "Attachment"
    BY <1>2 DEF Frames
  <2>7. Extends(dir, e, "Attachment")
    <3>1. Extends(dir, e, name[1])
      BY <1>2, <2>2, <2>3, WithExtends
    <3> QED BY <2>5, <2>6, <3>1
  <2> DEFINE d == dir
             b == backup
             lost == Lost(exportok)
             first == FirstStage
             nx == next
  <2>8. ContentsAt(d, b, "done", first, nx, lost)
    BY <1>1, <2>1 DEF Held
  <2>9. ASSUME NEW t \in MediaStages, NEW count,
               MediaIn(d, KindOf(t), MediaList(b, t), KeysOf(b, t), count, lost)
        PROVE  MediaIn(e, KindOf(t), MediaList(b, t), KeysOf(b, t), count, lost)
    <3>1. \A m \in DOMAIN d : e[m] = d[m] /\ m \in DOMAIN e
      BY <2>4 DEF IsWith
    <3>2. Frames(e, KindOf(t)) = Frames(d, KindOf(t))
      BY <2>4, <2>5, <3>1 DEF Frames, IsWith
    <3> HIDE DEF d
    <3> QED BY <2>9, <3>1, <3>2 DEF MediaIn
  <2>10. ASSUME NEW t \in NumberStages, NEW count, NumbersIn(d, KindOf(t), NumberList(b, t), count)
        PROVE  NumbersIn(e, KindOf(t), NumberList(b, t), count)
    <3>1. KindOf(t) # "Attachment"
      BY DEF KindOf, NumberStages
    <3> HIDE DEF b
    <3> QED BY <2>7, <2>10, <3>1, OtherNumbers DEF d
  <2>11. ContentsAt(e, b, "done", first, nx, lost)
    <3>1. IsFiniteSet(DOMAIN e)
      BY <2>7 DEF Extends
    <3> HIDE DEF d, b, lost, first, nx
    <3> QED BY <2>8, <2>9, <2>10, <3>1 DEF ContentsAt
  <2>12. ContentsAt(dir', backup', stage', FirstStage', next', Lost(exportok'))
    BY <1>1, <1>3, <2>3, <2>11
  <2>13. DOMAIN dir \subseteq DOMAIN dir'
    BY <2>3, <2>7 DEF Extends
  <2>14. FirstStage' = "header" => FirstFrames'
    BY <1>1, <1>3, <2>1, <2>13 DEF Held, FirstFrames
  <2>15. Database \in DOMAIN dir' /\ dir'[Database] = backup'.rows
    <3>1. Database \in DOMAIN dir /\ dir[Database] = backup.rows
      BY <1>1, <2>1 DEF Held
    <3>2. Database # name
      BY <2>4, <3>1
    <3> QED BY <1>1, <2>3, <2>4, <3>1, <3>2 DEF IsWith
  <2> QED BY <2>12, <2>14, <2>15 DEF Held
<1> QED BY <1>1, <1>3, <1>4, <1>5 DEF HeldInv

LEMMA HeldInvInductive == HeldInv /\ [Next]_vars => HeldInv'
<1> SUFFICES ASSUME HeldInv, [Next]_vars PROVE HeldInv'
  OBVIOUS
<1>1. CASE Prepare \/ Clear
  BY <1>1, PreparedHolds
<1>2. CASE RefuseDirectory \/ ClearFails \/ Crash
  BY <1>2, EndedHolds
<1>3. CASE WriteHeader
  <2>1. WriteSingle("header", "Header", <<"header">>, TRUE)
    BY <1>3 DEF WriteHeader
  <2> QED BY <2>1, SingleHolds
<1>4. CASE WriteVersion
  <2>1. WriteSingle("version", "DatabaseVersion", <<"version">>, backup.version)
    BY <1>4 DEF WriteVersion
  <2>2. backup.version \in BOOLEAN
    BY BackupIs DEF HeldInv, IsBackup
  <2> QED BY <2>1, <2>2, SingleHolds
<1>5. CASE WriteEnd
  <2>1. WriteSingle("end", "End", <<"END">>, TRUE)
    BY <1>5 DEF WriteEnd
  <2> QED BY <2>1, SingleHolds
<1>6. CASE WriteSharedPrefs
  <2>1. "sharedprefs" \in NumberStages /\ KindOf("sharedprefs") = "SharedPreference"
        /\ NumberList(backup, "sharedprefs") = backup.sharedprefs
    BY DEF NumberStages, KindOf, NumberList
  <2> QED BY <1>6, <2>1, NumberedHolds DEF WriteSharedPrefs
<1>7. CASE WriteKeyValues
  <2>1. "keyvalues" \in NumberStages /\ KindOf("keyvalues") = "KeyValue"
        /\ NumberList(backup, "keyvalues") = backup.keyvalues
    BY DEF NumberStages, KindOf, NumberList
  <2> QED BY <1>7, <2>1, NumberedHolds DEF WriteKeyValues
<1>8. CASE WriteAttachment
  <2>1. "attachments" \in MediaStages /\ KindOf("attachments") = "Attachment"
        /\ MediaList(backup, "attachments") = backup.attachments
        /\ KeysOf(backup, "attachments") = AttachmentKeys(backup)
    BY DEF MediaStages, KindOf, MediaList, KeysOf
  <2> QED BY <1>8, <2>1, MediaFramesHold DEF WriteAttachment
<1>9. CASE WriteAvatar
  <2>1. "avatars" \in MediaStages /\ KindOf("avatars") = "Avatar"
        /\ MediaList(backup, "avatars") = backup.avatars
        /\ KeysOf(backup, "avatars") = AvatarKeys(backup)
    BY DEF MediaStages, KindOf, MediaList, KeysOf
  <2> QED BY <1>9, <2>1, MediaFramesHold DEF WriteAvatar
<1>10. CASE WriteSticker
  <2>1. "stickers" \in MediaStages /\ KindOf("stickers") = "Sticker"
        /\ MediaList(backup, "stickers") = backup.stickers
        /\ KeysOf(backup, "stickers") = StickerKeys(backup)
    BY DEF MediaStages, KindOf, MediaList, KeysOf
  <2> QED BY <1>10, <2>1, MediaFramesHold DEF WriteSticker
<1>11. CASE OpenDatabase \/ FillDatabase
  BY <1>11, OpenHolds, FillHolds
<1>12. CASE DiskFills
  BY <1>12, DiskFillsHolds
<1>13. CASE AddNew
  BY <1>13, AddNewHolds
<1>14. CASE UNCHANGED vars
  <2>1. UNCHANGED <<dir, backup, command, stage, next, exportok, full>>
    BY <1>14 DEF vars
  <2> QED BY <2>1 DEF HeldInv, TypeOK, Held, FirstFrames, FirstStage, onlydb
<1> QED
  BY <1>1, <1>2, <1>3, <1>4, <1>5, <1>6, <1>7, <1>8, <1>9, <1>10, <1>11, <1>12, <1>13, <1>14
  DEF Next

LEMMA InitHolds == Init => HeldInv
<1> SUFFICES ASSUME Init PROVE HeldInv
  OBVIOUS
<1>1. /\ backup \in Backups /\ command \in Commands
      /\ stage = "prepare" /\ next = 1 /\ exportok = TRUE /\ full = FALSE
  BY DEF Init
<1>2. stage \notin Writing /\ stage # "done"
  BY <1>1 DEF Writing, Saving, ListStages, MediaStages, NumberStages
<1>3. TypeOK
  <2>1. exportok \in BOOLEAN /\ full \in BOOLEAN /\ exportok
    BY <1>1
  <2>2. next \in Nat \ {0} /\ next = 1
    BY <1>1
  <2>3. stage \in Writing \cup {"prepare", "clearing", "refused", "crashed", "done"}
    BY <1>1
  <2> QED BY <1>1, <2>1, <2>2, <2>3 DEF TypeOK
<1> QED BY <1>1, <1>2, <1>3 DEF HeldInv

LEMMA AlwaysHeld == Spec => []HeldInv
BY InitHolds, HeldInvInductive, PTL DEF Spec

-----------------------------------------------------------------------------
(* What is read back *)

(* A frame that is in the directory with its data. *)
LEMMA MediaReadBack ==
  ASSUME NEW d, NEW kind, NEW list, NEW keys, NEW n, NEW lost, MediaIn(d, kind, list, keys, n, lost),
         NEW i \in 1 .. n, NEW name, name = Name(kind, keys[i], "sbf")
  PROVE  /\ name \in Frames(d, kind)
         /\ FrameIn(d, name) = MediaFrame(list[i])
         /\ DataOf(d, name) \in {list[i].data} \cup lost
<1>1. name \in DOMAIN d /\ d[name] = <<MediaFrame(list[i])>>
  BY DEF MediaIn
<1>2. name[1] = kind /\ name[2] = keys[i] /\ name[3] = "sbf"
  BY NameParts
<1>3. name \in Frames(d, kind)
  BY <1>1, <1>2 DEF Frames
<1>4. FrameIn(d, name) = MediaFrame(list[i])
  <2>1. \A x : <<x>> # <<>> /\ <<x>>[1] = x
    OBVIOUS
  <2> QED BY <1>1, <2>1 DEF FrameIn
<1>5. DataOf(d, name) \in {list[i].data} \cup lost
  <2>1. Name(name[1], name[2], "bin") = Name(kind, keys[i], "bin")
    BY <1>2
  <2>2. /\ Name(kind, keys[i], "bin") \in DOMAIN d
        /\ d[Name(kind, keys[i], "bin")] \in {list[i].data} \cup lost
    BY DEF MediaIn
  <2> QED BY <2>1, <2>2 DEF DataOf
<1> QED BY <1>3, <1>4, <1>5

(* What there is of an export that said it is ok.                               *)
LEMMA HeldInTheEnd ==
  ASSUME HeldInv, stage = "done", exportok
  PROVE  /\ Held /\ IsBackup(backup) /\ Lost(exportok) = {} /\ backup \in Backups
         /\ Database \in DOMAIN dir /\ dir[Database] = backup.rows
         /\ FirstStage = "header" =>
              Single("Header") \in DOMAIN dir /\ Single("DatabaseVersion") \in DOMAIN dir
<1>1. ~full
  BY DEF HeldInv
<1>2. Held /\ TypeOK
  BY <1>1 DEF HeldInv
<1>3. IsBackup(backup) /\ backup \in Backups
  BY <1>2, BackupIs DEF TypeOK
<1>4. Lost(exportok) = {}
  BY DEF Lost
<1>5. FirstStage = "header" =>
        Single("Header") \in DOMAIN dir /\ Single("DatabaseVersion") \in DOMAIN dir
  BY <1>2, PlaceIs DEF Held, FirstFrames
<1>6. Database \in DOMAIN dir /\ dir[Database] = backup.rows
  BY <1>2 DEF Held
<1> QED BY <1>2, <1>3, <1>4, <1>5, <1>6

LEMMA SomeOfEach ==
  ASSUME NEW frames, NEW f \in OneOfEach(frames)
  PROVE  f \in frames
<1>1. PICK k \in frames : f = CHOOSE g \in frames : g.id = k.id /\ g.uniqueid = k.uniqueid
  BY DEF OneOfEach
<1>2. k.id = k.id /\ k.uniqueid = k.uniqueid
  OBVIOUS
<1> QED BY <1>1, <1>2

LEMMA ReplacedInTheEnd ==
  ASSUME \A b \in Backups : RowsTell(b), HeldInv
  PROVE  ReplacedAlike
<1> SUFFICES ASSUME stage = "done", exportok, NEW huge \in BOOLEAN,
                    NEW a \in Load(dir, TRUE, huge).attachments
             PROVE  /\ a.length = a.data
                    /\ a.id \in DOMAIN Load(dir, TRUE, huge).rows =>
                         Load(dir, TRUE, huge).rows[a.id] = a.data
  BY DEF ReplacedAlike
<1> DEFINE frames == Frames(dir, "Attachment")
           list == backup.attachments
           keys == AttachmentKeys(backup)
           read == {Attachment(dir, f, TRUE) : f \in frames}
           new == {f \in frames : ReplacedBy(dir, f, TRUE) /\ dir[New(f)].metadata # "unknown"}
           rows == RowsAfter(dir, TRUE)
<1>1. a \in read /\ Load(dir, TRUE, huge).rows = rows
  <2>1. CASE Load(dir, TRUE, huge) = Nothing
    <3>1. Nothing.attachments = {}
      BY DEF Nothing
    <3>2. a \in {}
      BY <2>1, <3>1
    <3> QED BY <3>2
  <2>2. CASE Load(dir, TRUE, huge) # Nothing
    <3>1. /\ Load(dir, TRUE, huge).attachments = OneOfEach(read)
          /\ Load(dir, TRUE, huge).rows = rows
      BY <2>2 DEF Load
    <3>2. a \in OneOfEach(read)
      BY <3>1
    <3> HIDE DEF read
    <3>3. a \in read
      BY <3>2, SomeOfEach
    <3> QED BY <3>1, <3>3
  <2> QED BY <2>1, <2>2
<1>2. PICK f \in frames : a = Attachment(dir, f, TRUE)
  BY <1>1
<1>3. Held /\ Lost(exportok) = {} /\ dir[Database] = backup.rows /\ backup \in Backups
  BY HeldInTheEnd
<1>4. PICK n : MediaIn(dir, "Attachment", list, keys, n, {})
  <2>1. "attachments" \in MediaStages /\ KindOf("attachments") = "Attachment"
        /\ MediaList(backup, "attachments") = list /\ KeysOf(backup, "attachments") = keys
    BY DEF MediaStages, KindOf, MediaList, KeysOf
  <2> QED BY <1>3, <2>1 DEF Held, ContentsAt
<1>5. RowsTell(backup)
  BY <1>3
<1>6. IsBackup(backup) /\ DOMAIN list = 1 .. Len(list) /\ Len(list) \in Nat /\ n \in 0 .. Len(list)
  BY <1>4, HeldInTheEnd DEF MediaIn, IsBackup
<1> HIDE DEF list, keys
<1>7. \A g \in frames : \E i \in 1 .. n : /\ g = Name("Attachment", keys[i], "sbf")
                                         /\ FrameIn(dir, g) = MediaFrame(list[i])
                                         /\ DataOf(dir, g) = list[i].data
  <2> TAKE g \in frames
  <2>1. PICK i \in 1 .. n : g = Name("Attachment", keys[i], "sbf")
    BY <1>4 DEF MediaIn
  <2>2. FrameIn(dir, g) = MediaFrame(list[i]) /\ DataOf(dir, g) \in {list[i].data} \cup {}
    BY <1>4, <2>1, MediaReadBack
  <2> QED BY <2>1, <2>2
<1>8. PICK i \in 1 .. n : /\ f = Name("Attachment", keys[i], "sbf")
                         /\ FrameIn(dir, f) = MediaFrame(list[i])
                         /\ DataOf(dir, f) = list[i].data
  BY <1>7
<1>9. PICK m : m = list[i] /\ i \in DOMAIN list
  BY <1>6
<1>10. MediaFrame(m).id = m.id /\ MediaFrame(m).length = m.data
  BY DEF MediaFrame
<1>11. /\ m.id \in DOMAIN backup.rows => backup.rows[m.id] = m.data
       /\ \A j \in DOMAIN list : list[j].id = m.id => j = i
  BY <1>5, <1>9 DEF RowsTell, list
<1>12. ASSUME NEW g \in frames, FrameIn(dir, g).id = m.id PROVE g = f
  <2>1. PICK j \in 1 .. n : /\ g = Name("Attachment", keys[j], "sbf")
                            /\ FrameIn(dir, g) = MediaFrame(list[j])
    BY <1>7
  <2>2. list[j].id = m.id
    BY <1>12, <2>1 DEF MediaFrame
  <2>3. j = i
    BY <1>6, <1>11, <2>2
  <2> QED BY <1>8, <2>1, <2>3
<1>13. DOMAIN rows = DOMAIN backup.rows
  BY <1>3 DEF RowsAfter
<1>14. ASSUME NEW r \in DOMAIN backup.rows
       PROVE  rows[r] = IF \E g \in new : FrameIn(dir, g).id = r
                        THEN dir[New(CHOOSE g \in new : FrameIn(dir, g).id = r)].data
                        ELSE backup.rows[r]
  BY <1>3 DEF RowsAfter
<1>15. CASE f \in new
  <2>1. a = WithData([FrameIn(dir, f) EXCEPT !.length = dir[New(f)].data], dir[New(f)].data)
    BY <1>2, <1>15 DEF Attachment
  <2>2. a.length = dir[New(f)].data /\ a.data = dir[New(f)].data /\ a.id = m.id
    BY <1>8, <1>9, <1>10, <2>1 DEF WithData, MediaFrame
  <2>3. FrameIn(dir, f).id = m.id
    BY <1>8, <1>9, <1>10
  <2>4. (CHOOSE g \in new : FrameIn(dir, g).id = m.id) = f
    <3>1. \A g \in new : FrameIn(dir, g).id = m.id => g = f
      BY <1>12
    <3> HIDE DEF new
    <3> QED BY <1>15, <2>3, <3>1
  <2>5. m.id \in DOMAIN backup.rows => rows[m.id] = dir[New(f)].data
    <3> HIDE DEF new, rows
    <3> QED BY <1>14, <1>15, <2>3, <2>4
  <2> QED BY <1>1, <1>13, <2>2, <2>5
<1>16. CASE f \notin new
  <2>1. a = Media(dir, f)
    BY <1>2, <1>16 DEF Attachment
  <2>2. a.length = m.data /\ a.data = m.data /\ a.id = m.id
    BY <1>8, <1>9, <1>10, <2>1 DEF Media, WithData, MediaFrame
  <2>3. \A g \in new : FrameIn(dir, g).id # m.id
    BY <1>12, <1>16
  <2>4. m.id \in DOMAIN backup.rows => rows[m.id] = m.data
    <3> HIDE DEF new, rows
    <3> QED BY <1>11, <1>14, <2>3
  <2> QED BY <1>1, <1>13, <2>2, <2>4
<1> QED BY <1>15, <1>16

(* initFromDir with --replaceattachments, of an export that said it is ok: every *)
(* attachment that is loaded has the length of the data it gets, whichever that  *)
(* is, and so has its row, if no two attachments share an id and the rows told   *)
(* of the data in memory.                                                        *)
THEOREM ReplacedDataAlike ==
  ASSUME \A b \in Backups : RowsTell(b)
  PROVE  Spec => []ReplacedAlike
<1>1. HeldInv => ReplacedAlike
  BY ReplacedInTheEnd
<1> QED BY <1>1, AlwaysHeld, PTL

-----------------------------------------------------------------------------
(* What opening a directory reads *)

(* The first n numbered files of the kind are understood, and no more.          *)
Reading(d, kind, n) ==
  /\ \A i \in 1 .. n : Reads(d, Name(kind, <<i>>, "sbf"))
  /\ ~Reads(d, Name(kind, <<n + 1>>, "sbf"))

LEMMA NumberedIs ==
  ASSUME NEW d, NEW kind, IsFiniteSet(DOMAIN d)
  PROVE  \E n \in Nat : /\ Reading(d, kind, n)
                        /\ Numbered(d, kind)
                             = [i \in 1 .. n |-> ReadBack(d[Name(kind, <<i>>, "sbf")])]
<1> DEFINE c == Cardinality(DOMAIN d)
           name(i) == Name(kind, <<i>>, "sbf")
           T == {n \in Nat : ~Reads(d, name(n + 1))}
<1>1. c \in Nat
  BY FS_CardinalityType
<1>2. \E n \in T : n <= c
  <2>1. SUFFICES ASSUME \A i \in 0 .. c : Reads(d, name(i + 1)) PROVE FALSE
    BY <1>1
  <2>2. \A i \in 1 .. c + 1 : name(i) \in DOMAIN d
    <3> TAKE i \in 1 .. c + 1
    <3>1. i - 1 \in 0 .. c /\ (i - 1) + 1 = i
      BY <1>1
    <3> QED BY <2>1, <3>1 DEF Reads
  <2>3. \A i, j \in Nat : name(i) = name(j) => i = j
    <3>1. \A i, j \in Nat : <<i>> = <<j>> => i = j
      OBVIOUS
    <3> QED BY <3>1, NameParts
  <2> DEFINE f == [i \in 1 .. c + 1 |-> name(i)]
  <2>4. f \in Injection(1 .. c + 1, DOMAIN d)
    <3>1. \A i \in 1 .. c + 1 : i \in Nat
      BY <1>1
    <3> HIDE DEF c, name
    <3>2. f \in [1 .. c + 1 -> DOMAIN d]
      BY <2>2
    <3>3. \A i, j \in 1 .. c + 1 : f[i] = f[j] => i = j
      BY <2>3, <3>1
    <3> QED BY <3>2, <3>3 DEF Injection, IsInjective
  <2>5. Cardinality(1 .. c + 1) <= c
    BY <2>4, FS_Injection
  <2>6. Cardinality(1 .. c + 1) = c + 1
    <3>1. 1 \in Int /\ c + 1 \in Int /\ ~(1 > c + 1) /\ (c + 1) - 1 + 1 = c + 1
      BY <1>1
    <3> HIDE DEF c
    <3> QED BY <3>1, FS_Interval
  <2> QED BY <1>1, <2>5, <2>6
<1>3. PICK m \in T : \A n \in T : m <= n
  <2>1. T \subseteq Nat /\ T # {}
    BY <1>2
  <2> HIDE DEF T
  <2> QED BY <2>1, LeastElement
<1>4. m \in 0 .. c
  BY <1>1, <1>2, <1>3
<1>5. \A i \in 1 .. m : Reads(d, name(i))
  <2> TAKE i \in 1 .. m
  <2>1. i - 1 \in Nat /\ i - 1 < m /\ (i - 1) + 1 = i
    BY <1>4
  <2>2. i - 1 \notin T
    BY <1>3, <2>1
  <2> QED BY <2>1, <2>2
<1>6. \E n \in 0 .. c : (\A i \in 1 .. n : Reads(d, name(i))) /\ ~Reads(d, name(n + 1))
  BY <1>3, <1>4, <1>5
<1> DEFINE last == CHOOSE n \in 0 .. c :
                     (\A i \in 1 .. n : Reads(d, name(i))) /\ ~Reads(d, name(n + 1))
<1>7. /\ last \in 0 .. c
      /\ (\A i \in 1 .. last : Reads(d, name(i))) /\ ~Reads(d, name(last + 1))
  BY <1>6
<1>8. Numbered(d, kind) = [i \in 1 .. last |-> ReadBack(d[name(i)])]
  BY DEF Numbered
<1> HIDE DEF last
<1>9. last \in Nat /\ Reading(d, kind, last)
  BY <1>1, <1>7 DEF Reading
<1> QED BY <1>8, <1>9

(* What was a line of its own is read back as it was.                            *)
LEMMA ReadOneLine ==
  ASSUME NEW text \in Seq(STRING), OneLine(text)
  PROVE  Readable(text) /\ ReadBack(text) = text
BY DEF OneLine, Readable, ReadBack

(* A list that was written as a whole is read as it was.                         *)
LEMMA NumberedWhole ==
  ASSUME NEW d, IsFiniteSet(DOMAIN d), NEW kind, NEW list \in Seq(Seq(STRING)),
         \A i \in DOMAIN list : OneLine(list[i]), NumbersIn(d, kind, list, Len(list))
  PROVE  Numbered(d, kind) = list
<1>1. PICK n \in Nat : /\ Reading(d, kind, n)
                       /\ Numbered(d, kind)
                            = [i \in 1 .. n |-> ReadBack(d[Name(kind, <<i>>, "sbf")])]
  BY NumberedIs
<1>2. Len(list) \in Nat /\ DOMAIN list = 1 .. Len(list)
  OBVIOUS
<1>3. ASSUME NEW i \in 1 .. Len(list)
      PROVE  /\ Name(kind, <<i>>, "sbf") \in DOMAIN d
             /\ Readable(d[Name(kind, <<i>>, "sbf")])
             /\ ReadBack(d[Name(kind, <<i>>, "sbf")]) = list[i]
  <2>1. OneLine(list[i])
    BY <1>2
  <2>3. list[i] \in Seq(STRING)
    <3>1. PICK S : S = Seq(STRING)
      OBVIOUS
    <3>2. list \in Seq(S)
      BY <3>1
    <3>3. list[i] \in S
      BY <1>2, <3>2
    <3> QED BY <3>1, <3>3
  <2>2. Name(kind, <<i>>, "sbf") \in DOMAIN d /\ d[Name(kind, <<i>>, "sbf")] = list[i]
    BY DEF NumbersIn
  <2> QED BY <2>1, <2>2, <2>3, ReadOneLine
<1>4. n = Len(list)
  <2>1. ~(n < Len(list))
    <3>1. SUFFICES ASSUME n < Len(list) PROVE FALSE
      OBVIOUS
    <3>2. n + 1 \in 1 .. Len(list)
      BY <1>2, <3>1
    <3> QED BY <1>1, <1>3, <3>2 DEF Reading, Reads
  <2>2. ~(Len(list) < n)
    <3>1. SUFFICES ASSUME Len(list) < n PROVE FALSE
      OBVIOUS
    <3>2. Len(list) + 1 \in 1 .. n /\ Len(list) + 1 \in Nat /\ Len(list) + 1 \notin 1 .. Len(list)
      BY <1>2, <3>1
    <3>3. Name(kind, <<Len(list) + 1>>, "sbf") \in DOMAIN d
      BY <1>1, <3>2 DEF Reading, Reads
    <3> QED BY <3>2, <3>3 DEF NumbersIn
  <2>3. PICK l \in Nat : l = Len(list)
    BY <1>2
  <2> QED BY ONLY <2>1, <2>2, <2>3, n \in Nat
<1>5. Numbered(d, kind) = [i \in 1 .. Len(list) |-> list[i]]
  BY <1>1, <1>3, <1>4
<1> QED BY <1>2, <1>5

(* d is e with some files left out.                                              *)
Within(d, e) ==
  /\ IsFiniteSet(DOMAIN e) /\ DOMAIN d \subseteq DOMAIN e
  /\ \A n \in DOMAIN d : d[n] = e[n]

LEMMA FiniteWithin ==
  ASSUME NEW d, NEW e, Within(d, e)
  PROVE  IsFiniteSet(DOMAIN d)
BY FS_Subset DEF Within

LEMMA PrefixIs ==
  ASSUME NEW m \in Nat, NEW n \in Nat, m <= n, NEW S,
         NEW s \in [1 .. m -> S], NEW t \in [1 .. n -> S], \A i \in 1 .. m : s[i] = t[i]
  PROVE  IsPrefix(s, t)
<1>1. s \in Seq(S) /\ t \in Seq(S) /\ Len(s) = m /\ Len(t) = n
  OBVIOUS
<1>2. SubSeq(s, 1, m) = s
  BY <1>1
<1>3. SubSeq(t, 1, m) = s
  BY <1>1
<1> QED BY <1>1, <1>2, <1>3 DEF IsPrefix

(* Where files are left out, no more than the first of a list are read.          *)
LEMMA NumberedWithin ==
  ASSUME NEW d, NEW e, Within(d, e), NEW kind
  PROVE  IsPrefix(Numbered(d, kind), Numbered(e, kind))
<1> DEFINE name(i) == Name(kind, <<i>>, "sbf")
<1>1. PICK m \in Nat : /\ Reading(d, kind, m)
                       /\ Numbered(d, kind) = [i \in 1 .. m |-> ReadBack(d[name(i)])]
  BY FiniteWithin, NumberedIs
<1>2. PICK n \in Nat : /\ Reading(e, kind, n)
                       /\ Numbered(e, kind) = [i \in 1 .. n |-> ReadBack(e[name(i)])]
  BY NumberedIs DEF Within
<1>3. \A i \in 1 .. m : Reads(e, name(i)) /\ e[name(i)] = d[name(i)]
  BY <1>1 DEF Reading, Reads, Within
<1>4. m <= n
  <2>1. SUFFICES ASSUME n < m PROVE FALSE
    OBVIOUS
  <2>2. n + 1 \in 1 .. m
    BY <2>1
  <2> QED BY <1>2, <1>3, <2>2 DEF Reading
<1> DEFINE s == Numbered(d, kind)
           t == Numbered(e, kind)
<1> DEFINE S == {ReadBack(e[name(i)]) : i \in 1 .. n}
<1>5. s \in [1 .. m -> S] /\ t \in [1 .. n -> S] /\ \A i \in 1 .. m : s[i] = t[i]
  <2>1. \A i \in 1 .. m : i \in 1 .. n
    BY <1>4
  <2>2. \A i \in 1 .. m : d[name(i)] = e[name(i)]
    BY <1>3
  <2> HIDE DEF name
  <2> QED BY <1>1, <1>2, <2>1, <2>2
<1>6. \A u \in [1 .. m -> S], v \in [1 .. n -> S] :
        (\A i \in 1 .. m : u[i] = v[i]) => IsPrefix(u, v)
  <2> HIDE DEF S
  <2> QED BY <1>4, PrefixIs
<1> QED BY <1>5, <1>6

-----------------------------------------------------------------------------
(* Avatars *)

(* s takes the numbers of I in their order.                                     *)
Enumerates(s, m, I) ==
  /\ s \in [1 .. m -> I]
  /\ \A x \in I : \E j \in 1 .. m : s[j] = x
  /\ \A i, j \in 1 .. m : i < j => s[i] < s[j]

LEMMA Enumerated ==
  ASSUME NEW n \in Nat, NEW I \in SUBSET (1 .. n)
  PROVE  \E m \in Nat : \E s : Enumerates(s, m, I)
<1> DEFINE S == {k \in Nat : \A J \in SUBSET (1 .. k) : \E m \in Nat : \E s : Enumerates(s, m, J)}
<1>1. 0 \in S
  <2>1. ASSUME NEW J \in SUBSET (1 .. 0) PROVE Enumerates([i \in 1 .. 0 |-> i], 0, J)
    <3>1. J = {} /\ 1 .. 0 = {}
      OBVIOUS
    <3> QED BY <3>1 DEF Enumerates
  <2> QED BY <2>1
<1>2. ASSUME NEW k \in Nat, k \in S PROVE k + 1 \in S
  <2> SUFFICES ASSUME NEW J \in SUBSET (1 .. k + 1)
               PROVE  \E m \in Nat : \E s : Enumerates(s, m, J)
    OBVIOUS
  <2>1. J \ {k + 1} \in SUBSET (1 .. k)
    OBVIOUS
  <2>20. PICK m \in Nat : \E s : Enumerates(s, m, J \ {k + 1})
    BY <1>2, <2>1
  <2>2. PICK s : Enumerates(s, m, J \ {k + 1})
    BY <2>20
  <2>3. CASE k + 1 \notin J
    <3>1. J \ {k + 1} = J
      BY <2>3
    <3> QED BY <2>2, <3>1
  <2>4. CASE k + 1 \in J
    <3> DEFINE t == [i \in 1 .. m + 1 |-> IF i = m + 1 THEN k + 1 ELSE s[i]]
    <3>1. \A i \in 1 .. m : s[i] \in J \ {k + 1} /\ i \in 1 .. m + 1 /\ i # m + 1 /\ t[i] = s[i]
      BY <2>2 DEF Enumerates
    <3>2. m + 1 \in 1 .. m + 1 /\ t[m + 1] = k + 1
      OBVIOUS
    <3>3. \A i \in 1 .. m + 1 : i = m + 1 \/ i \in 1 .. m
      OBVIOUS
    <3>4. t \in [1 .. m + 1 -> J]
      <4>1. \A i \in 1 .. m + 1 : t[i] \in J
        BY <2>4, <3>1, <3>2, <3>3
      <4> QED BY <4>1
    <3>5. \A x \in J : \E j \in 1 .. m + 1 : t[j] = x
      <4> TAKE x \in J
      <4>1. CASE x = k + 1
        BY <3>2, <4>1
      <4>2. CASE x # k + 1
        <5>1. PICK j \in 1 .. m : s[j] = x
          BY <2>2, <4>2 DEF Enumerates
        <5> QED BY <3>1, <5>1
      <4> QED BY <4>1, <4>2
    <3>6. ASSUME NEW i \in 1 .. m + 1, NEW j \in 1 .. m + 1, i < j PROVE t[i] < t[j]
      <4>1. i \in 1 .. m
        BY <3>6
      <4>2. CASE j = m + 1
        <5>1. s[i] \in 1 .. k
          BY <2>1, <3>1, <4>1
        <5> QED BY <3>1, <3>2, <4>1, <4>2, <5>1
      <4>3. CASE j \in 1 .. m
        BY <2>2, <3>1, <3>6, <4>1, <4>3 DEF Enumerates
      <4> QED BY <3>3, <4>2, <4>3
    <3> HIDE DEF t
    <3>7. Enumerates(t, m + 1, J)
      BY <3>4, <3>5, <3>6 DEF Enumerates
    <3> QED BY <3>7
  <2> QED BY <2>3, <2>4
<1>3. n \in S
  <2> HIDE DEF S
  <2>1. Nat \subseteq S
    BY <1>1, <1>2, SetInduction
  <2> QED BY <2>1
<1> QED BY <1>3

NamesOf(kind, keys, I) == {Name(kind, keys[i], "sbf") : i \in I}

AvatarsAt(d, keys, s, m) == [k \in 1 .. m |-> Media(d, Name("Avatar", keys[s[k]], "sbf"))]

(* The avatars whose numbers are in I are read in the order of their numbers.   *)
LEMMA AvatarsAre ==
  ASSUME NEW d, NEW n \in Nat, NEW keys, NEW I \in SUBSET (1 .. n), NEW m \in Nat,
         NEW s, Enumerates(s, m, I),
         \A i \in 1 .. n : keys[i] \in Seq(Int),
         \A i, j \in 1 .. n : i < j => Before(keys[i], keys[j]),
         Frames(d, "Avatar") = NamesOf("Avatar", keys, I)
  PROVE  Avatars(d) = AvatarsAt(d, keys, s, m)
<1> DEFINE F == Frames(d, "Avatar")
           name(i) == Name("Avatar", keys[i], "sbf")
           t == [k \in 1 .. m |-> name(s[k])]
<1>0. F = {name(i) : i \in I}
  BY DEF NamesOf
<1>1. \A k \in 1 .. m : s[k] \in I /\ s[k] \in 1 .. n
  BY DEF Enumerates
<1>2. t \in [1 .. m -> F]
  <2>1. \A k \in 1 .. m : name(s[k]) \in F
    BY <1>0, <1>1
  <2> HIDE DEF F, name
  <2> QED BY <2>1
<1>3. \A x \in F : \E k \in 1 .. m : x = t[k]
  <2> TAKE x \in F
  <2>1. PICK i \in I : x = name(i)
    BY <1>0
  <2>2. PICK k \in 1 .. m : s[k] = i
    BY DEF Enumerates
  <2> QED BY <2>1, <2>2
<1>4. \A i : name(i)[2] = keys[i]
  BY NameParts
<1>5. ASSUME NEW i \in 1 .. m, NEW j \in 1 .. m, i < j PROVE Before(t[i][2], t[j][2])
  <2>1. s[i] < s[j] /\ s[i] \in 1 .. n /\ s[j] \in 1 .. n
    BY <1>1, <1>5 DEF Enumerates
  <2>2. Before(keys[s[i]], keys[s[j]])
    BY <2>1
  <2>3. t[i] = name(s[i]) /\ t[j] = name(s[j])
    OBVIOUS
  <2>4. t[i][2] = keys[s[i]] /\ t[j][2] = keys[s[j]]
    <3> HIDE DEF t, name
    <3> QED BY <1>4, <2>3
  <2> QED BY <2>2, <2>4
<1>6. \A x, y \in F : ~(Before(x[2], y[2]) /\ Before(y[2], x[2]))
  <2>1. \A x \in F : x[2] \in Seq(Int)
    <3> TAKE x \in F
    <3>1. PICK i \in I : x = name(i)
      BY <1>0
    <3>2. x[2] = keys[i]
      BY <1>4, <3>1
    <3> QED BY <3>2
  <2> QED BY <2>1, BeforeIsStrict
<1>7. PICK u : u = t
  OBVIOUS
<1>8. PICK G : G = F
  OBVIOUS
<1> HIDE DEF F, t
<1>9. u \in [1 .. m -> G] /\ \A x \in G : \E k \in 1 .. m : x = u[k]
  BY <1>2, <1>3, <1>7, <1>8
<1>10. \A i, j \in 1 .. m : i < j => Before(u[i][2], u[j][2])
  BY <1>5, <1>7
<1>11. \A x, y \in G : ~(Before(x[2], y[2]) /\ Before(y[2], x[2]))
  BY <1>6, <1>8
<1>12. Sorted(G) = u
  BY ONLY <1>9, <1>10, <1>11, m \in Nat, SortedIs
<1> QED BY <1>7, <1>8, <1>12 DEF Avatars, AvatarsAt, F, t

-----------------------------------------------------------------------------
(* Attachments and stickers *)

LEMMA OneOfEachIs ==
  ASSUME NEW frames, \A f, g \in frames : f.id = g.id /\ f.uniqueid = g.uniqueid => f = g
  PROVE  OneOfEach(frames) = frames
<1>1. ASSUME NEW k \in frames
      PROVE  (CHOOSE f \in frames : f.id = k.id /\ f.uniqueid = k.uniqueid) = k
  <2>1. \E f \in frames : f.id = k.id /\ f.uniqueid = k.uniqueid
    OBVIOUS
  <2> QED BY <2>1
<1> QED BY <1>1 DEF OneOfEach

LEMMA ManyOf ==
  ASSUME NEW n \in Nat, NEW f, DOMAIN f = 1 .. n, \A i, j \in 1 .. n : f[i] = f[j] => i = j
  PROVE  Cardinality({f[i] : i \in 1 .. n}) = n
<1> DEFINE S == {f[i] : i \in 1 .. n}
           g == [i \in 1 .. n |-> f[i]]
<1>1. g \in Bijection(1 .. n, S)
  BY DEF Bijection, Injection, Surjection, IsInjective
<1>2. ExistsBijection(1 .. n, S)
  BY <1>1 DEF ExistsBijection
<1> HIDE DEF S
<1> QED BY <1>2, FS_CountingElements DEF S

(* Of two attachments, or two stickers, the ids differ.                         *)
LEMMA IdsDiffer ==
  ASSUME NEW b, IsBackup(b), NEW t \in {"attachments", "stickers"},
         NEW i \in DOMAIN MediaList(b, t), NEW j \in DOMAIN MediaList(b, t),
         MediaList(b, t)[i].id = MediaList(b, t)[j].id,
         MediaList(b, t)[i].uniqueid = MediaList(b, t)[j].uniqueid
  PROVE  i = j
<1>1. CASE t = "attachments"
  <2>1. MediaList(b, t) = b.attachments
    BY <1>1 DEF MediaList
  <2> QED BY <2>1 DEF IsBackup
<1>2. CASE t = "stickers"
  <2>1. MediaList(b, t) = b.stickers
    BY <1>2 DEF MediaList
  <2> QED BY <2>1 DEF IsBackup
<1> QED BY <1>1, <1>2

LEMMA AttachmentUnreplaced ==
  ASSUME NEW d, NEW name
  PROVE  Attachment(d, name, FALSE) = Media(d, name)
BY DEF Attachment, ReplacedBy

-----------------------------------------------------------------------------
(* A directory that was written to the end *)

(* The attachments, avatars or stickers that are read, by their place in the list. *)
Got(d, kind, list, keys) == [i \in 1 .. Len(list) |-> Media(d, Name(kind, keys[i], "sbf"))]

Elements(got, n) == {got[i] : i \in 1 .. n}

(* They are those of the list, with their data or with less.                    *)
GotAre(got, n, list, lost) ==
  /\ got = [i \in 1 .. n |-> got[i]]
  /\ \A i \in 1 .. n : \E data \in {list[i].data} \cup lost :
       got[i] = WithData(MediaFrame(list[i]), data)

LEMMA GotIs ==
  ASSUME NEW d, NEW kind, NEW list, NEW keys, NEW lost, Len(list) \in Nat,
         MediaIn(d, kind, list, keys, Len(list), lost)
  PROVE  /\ GotAre(Got(d, kind, list, keys), Len(list), list, lost)
         /\ Frames(d, kind) = NamesOf(kind, keys, 1 .. Len(list))
         /\ {Media(d, n) : n \in Frames(d, kind)} = Elements(Got(d, kind, list, keys), Len(list))
<1> DEFINE n == Len(list)
           got == Got(d, kind, list, keys)
           name(i) == Name(kind, keys[i], "sbf")
<1>1. \A i \in 1 .. n : /\ name(i) \in Frames(d, kind)
                        /\ FrameIn(d, name(i)) = MediaFrame(list[i])
                        /\ DataOf(d, name(i)) \in {list[i].data} \cup lost
  BY MediaReadBack
<1>2. got = [i \in 1 .. n |-> got[i]] /\ \A i \in 1 .. n : got[i] = Media(d, name(i))
  BY DEF Got
<1>3. GotAre(got, n, list, lost)
  BY <1>1, <1>2 DEF GotAre, Media
<1>4. \A f \in Frames(d, kind) : \E i \in 1 .. n : f = name(i)
  BY DEF MediaIn
<1> HIDE DEF n, got, name
<1>5. Frames(d, kind) = {name(i) : i \in 1 .. n}
  BY <1>1, <1>4
<1>6. {Media(d, f) : f \in Frames(d, kind)} = {got[i] : i \in 1 .. n}
  BY <1>1, <1>2, <1>4
<1> QED BY <1>3, <1>5, <1>6 DEF n, got, name, NamesOf, Elements

LEMMA AvatarsGot ==
  ASSUME NEW d, NEW b, IsBackup(b), NEW list, list = b.avatars, NEW keys, keys = AvatarKeys(b),
         Frames(d, "Avatar") = NamesOf("Avatar", keys, 1 .. Len(list))
  PROVE  Avatars(d) = Got(d, "Avatar", list, keys)
<1>1. PICK n : n = Len(list)
  OBVIOUS
<1>2. /\ n \in Nat
      /\ \A i \in 1 .. n : keys[i] \in Seq(Int)
      /\ \A i, j \in 1 .. n : i < j => Before(keys[i], keys[j])
  BY <1>1, AvatarKeysAre
<1>3. PICK s : s = [i \in 1 .. n |-> i]
  OBVIOUS
<1>4. Enumerates(s, n, 1 .. n) /\ \A i \in 1 .. n : s[i] = i
  BY <1>3 DEF Enumerates
<1>5. PICK I : I = 1 .. n
  OBVIOUS
<1>6. Frames(d, "Avatar") = NamesOf("Avatar", keys, I)
  BY <1>1, <1>5
<1>7. Enumerates(s, n, I) /\ I \in SUBSET (1 .. n)
  BY <1>4, <1>5
<1>8. Avatars(d) = AvatarsAt(d, keys, s, n)
  BY <1>2, <1>6, <1>7, AvatarsAre
<1>9. Avatars(d) = [k \in 1 .. n |-> Media(d, Name("Avatar", keys[k], "sbf"))]
  BY <1>4, <1>8 DEF AvatarsAt
<1> QED BY <1>1, <1>9 DEF Got

(* Where the ids differ each of them is kept.                                    *)
LEMMA EachGot ==
  ASSUME NEW b, IsBackup(b), NEW t \in {"attachments", "stickers"},
         NEW list, list = MediaList(b, t), NEW lost, NEW got, GotAre(got, Len(list), list, lost)
  PROVE  /\ OneOfEach(Elements(got, Len(list))) = Elements(got, Len(list))
         /\ Cardinality(Elements(got, Len(list))) = Len(list)
<1>1. PICK n : n = Len(list)
  OBVIOUS
<1>2. n \in Nat /\ DOMAIN list = 1 .. n
  BY <1>1, KeysAreDistinct DEF MediaStages
<1>3. ASSUME NEW i \in 1 .. n
      PROVE  got[i].id = list[i].id /\ got[i].uniqueid = list[i].uniqueid
  <2>1. PICK data : got[i] = WithData(MediaFrame(list[i]), data)
    BY <1>1 DEF GotAre
  <2> QED BY <2>1 DEF WithData, MediaFrame
<1>4. ASSUME NEW i \in 1 .. n, NEW j \in 1 .. n,
             got[i].id = got[j].id, got[i].uniqueid = got[j].uniqueid
      PROVE  i = j
  <2>1. list[i].id = list[j].id /\ list[i].uniqueid = list[j].uniqueid
    BY <1>3, <1>4
  <2> QED BY <1>2, <2>1, IdsDiffer
<1> DEFINE S == {got[i] : i \in 1 .. n}
<1>5. \A f, g \in S : f.id = g.id /\ f.uniqueid = g.uniqueid => f = g
  <2> TAKE f, g \in S
  <2>1. PICK i \in 1 .. n : f = got[i]
    OBVIOUS
  <2>2. PICK j \in 1 .. n : g = got[j]
    OBVIOUS
  <2> QED BY <1>4, <2>1, <2>2
<1>6. OneOfEach(S) = S
  <2> HIDE DEF S
  <2> QED BY <1>5, OneOfEachIs
<1>7. Cardinality(S) = n
  <2>1. DOMAIN got = 1 .. n
    BY <1>1 DEF GotAre
  <2>2. \A i, j \in 1 .. n : got[i] = got[j] => i = j
    BY <1>4
  <2> QED BY <1>2, <2>1, <2>2, ManyOf
<1> QED BY <1>1, <1>6, <1>7 DEF Elements

LEMMA RowsRead ==
  ASSUME NEW d, NEW b, IsBackup(b), d[Database] = b.rows
  PROVE  RowsAfter(d, FALSE) = b.rows
<1>1. RowsAfter(d, FALSE) = [r \in DOMAIN d[Database] |-> d[Database][r]]
  BY DEF RowsAfter, ReplacedBy
<1>2. b.rows \in [DOMAIN b.rows -> STRING]
  BY DEF IsBackup
<1> QED BY <1>1, <1>2

(* What is opened is what the lists have.                                        *)
GivesBack(a, d, b) ==
  /\ a.ok = TRUE /\ a.rows = b.rows
  /\ a.sharedprefs = b.sharedprefs /\ a.keyvalues = b.keyvalues
  /\ a.avatars = Got(d, "Avatar", b.avatars, AvatarKeys(b))
  /\ a.attachments
       = Elements(Got(d, "Attachment", b.attachments, AttachmentKeys(b)), Len(b.attachments))
  /\ a.stickers = Elements(Got(d, "Sticker", b.stickers, StickerKeys(b)), Len(b.stickers))

(* All of a backup is in the directory, its data perhaps short.                  *)
AllIn(d, b, lost) ==
  /\ IsFiniteSet(DOMAIN d)
  /\ {Database, Single("Header"), Single("DatabaseVersion")} \subseteq DOMAIN d
  /\ d[Database] = b.rows
  /\ MediaIn(d, "Attachment", b.attachments, AttachmentKeys(b), Len(b.attachments), lost)
  /\ MediaIn(d, "Avatar", b.avatars, AvatarKeys(b), Len(b.avatars), lost)
  /\ MediaIn(d, "Sticker", b.stickers, StickerKeys(b), Len(b.stickers), lost)
  /\ NumbersIn(d, "SharedPreference", b.sharedprefs, Len(b.sharedprefs))
  /\ NumbersIn(d, "KeyValue", b.keyvalues, Len(b.keyvalues))

Gotten(d, b, lost) ==
  /\ GotAre(Got(d, "Attachment", b.attachments, AttachmentKeys(b)), Len(b.attachments),
            b.attachments, lost)
  /\ GotAre(Got(d, "Avatar", b.avatars, AvatarKeys(b)), Len(b.avatars), b.avatars, lost)
  /\ GotAre(Got(d, "Sticker", b.stickers, StickerKeys(b)), Len(b.stickers), b.stickers, lost)

LEMMA AllIsRead ==
  ASSUME NEW d, NEW b, IsBackup(b), WithoutBreaks(b), NEW lost, AllIn(d, b, lost)
  PROVE  GivesBack(Load(d, FALSE, FALSE), d, b) /\ Gotten(d, b, lost)
<1>1. Len(b.attachments) \in Nat /\ Len(b.avatars) \in Nat /\ Len(b.stickers) \in Nat
  BY DEF IsBackup
<1>2. /\ MediaList(b, "attachments") = b.attachments /\ MediaList(b, "stickers") = b.stickers
  BY DEF MediaList
<1>3. GotAre(Got(d, "Attachment", b.attachments, AttachmentKeys(b)), Len(b.attachments),
             b.attachments, lost)
  BY <1>1, GotIs DEF AllIn
<1>4. GotAre(Got(d, "Avatar", b.avatars, AvatarKeys(b)), Len(b.avatars), b.avatars, lost)
  BY <1>1, GotIs DEF AllIn
<1>5. GotAre(Got(d, "Sticker", b.stickers, StickerKeys(b)), Len(b.stickers), b.stickers, lost)
  BY <1>1, GotIs DEF AllIn
<1>6. /\ b.sharedprefs \in Seq(Seq(STRING)) /\ b.keyvalues \in Seq(Seq(STRING))
      /\ \A i \in DOMAIN b.sharedprefs : OneLine(b.sharedprefs[i])
      /\ \A i \in DOMAIN b.keyvalues : OneLine(b.keyvalues[i])
  BY DEF IsBackup, WithoutBreaks
<1>7. Numbered(d, "SharedPreference") = b.sharedprefs
  BY <1>6, NumberedWhole DEF AllIn
<1>8. Numbered(d, "KeyValue") = b.keyvalues
  BY <1>6, NumberedWhole DEF AllIn
<1>9. Avatars(d) = Got(d, "Avatar", b.avatars, AvatarKeys(b))
  <2>1. Frames(d, "Avatar") = NamesOf("Avatar", AvatarKeys(b), 1 .. Len(b.avatars))
    BY <1>1, GotIs DEF AllIn
  <2> QED BY <2>1, AvatarsGot
<1>10. OneOfEach({Attachment(d, n, FALSE) : n \in Frames(d, "Attachment")})
         = Elements(Got(d, "Attachment", b.attachments, AttachmentKeys(b)), Len(b.attachments))
  <2>1. {Attachment(d, n, FALSE) : n \in Frames(d, "Attachment")}
          = {Media(d, n) : n \in Frames(d, "Attachment")}
    BY AttachmentUnreplaced
  <2>2. PICK got : got = Got(d, "Attachment", b.attachments, AttachmentKeys(b))
    OBVIOUS
  <2>3. {Media(d, n) : n \in Frames(d, "Attachment")} = Elements(got, Len(b.attachments))
    BY <1>1, <2>2, GotIs DEF AllIn
  <2>4. OneOfEach(Elements(got, Len(b.attachments))) = Elements(got, Len(b.attachments))
    BY <1>2, <1>3, <2>2, EachGot
  <2> QED BY <2>1, <2>2, <2>3, <2>4
<1>11. OneOfEach({Media(d, n) : n \in Frames(d, "Sticker")})
         = Elements(Got(d, "Sticker", b.stickers, StickerKeys(b)), Len(b.stickers))
  <2>2. PICK got : got = Got(d, "Sticker", b.stickers, StickerKeys(b))
    OBVIOUS
  <2>3. {Media(d, n) : n \in Frames(d, "Sticker")} = Elements(got, Len(b.stickers))
    BY <1>1, <2>2, GotIs DEF AllIn
  <2>4. OneOfEach(Elements(got, Len(b.stickers))) = Elements(got, Len(b.stickers))
    BY <1>2, <1>5, <2>2, EachGot
  <2> QED BY <2>2, <2>3, <2>4
<1>12. RowsAfter(d, FALSE) = b.rows
  BY RowsRead DEF AllIn
<1>13. /\ {Database, Single("Header"), Single("DatabaseVersion")} \subseteq DOMAIN d
       /\ \A n \in Frames(d, "Attachment") : ReplacedBy(d, n, FALSE) => ~Refused(d, n, FALSE)
  BY DEF AllIn, ReplacedBy
<1> DEFINE attachments == OneOfEach({Attachment(d, n, FALSE) : n \in Frames(d, "Attachment")})
           stickers == OneOfEach({Media(d, n) : n \in Frames(d, "Sticker")})
<1>14. Load(d, FALSE, FALSE) =
         [ok          |-> TRUE,
          rows        |-> RowsAfter(d, FALSE),
          sharedprefs |-> Numbered(d, "SharedPreference"),
          keyvalues   |-> Numbered(d, "KeyValue"),
          avatars     |-> Avatars(d),
          attachments |-> attachments,
          stickers    |-> stickers]
  BY <1>13 DEF Load
<1>15. GivesBack(Load(d, FALSE, FALSE), d, b)
  <2>1. PICK a : a = Load(d, FALSE, FALSE)
    OBVIOUS
  <2>2. /\ a.ok = TRUE /\ a.rows = RowsAfter(d, FALSE)
        /\ a.sharedprefs = Numbered(d, "SharedPreference") /\ a.keyvalues = Numbered(d, "KeyValue")
        /\ a.avatars = Avatars(d)
        /\ a.attachments = attachments /\ a.stickers = stickers
    <3> HIDE DEF attachments, stickers
    <3>1. PICK rows, sharedprefs, keyvalues, avatars :
            /\ rows = RowsAfter(d, FALSE)
            /\ sharedprefs = Numbered(d, "SharedPreference")
            /\ keyvalues = Numbered(d, "KeyValue") /\ avatars = Avatars(d)
      OBVIOUS
    <3>2. a = [ok |-> TRUE, rows |-> rows, sharedprefs |-> sharedprefs, keyvalues |-> keyvalues,
               avatars |-> avatars, attachments |-> attachments, stickers |-> stickers]
      BY <1>14, <2>1, <3>1
    <3>3. /\ a.ok = TRUE /\ a.rows = rows /\ a.sharedprefs = sharedprefs /\ a.keyvalues = keyvalues
          /\ a.avatars = avatars /\ a.attachments = attachments /\ a.stickers = stickers
      BY ONLY <3>2
    <3> QED BY <3>1, <3>3
  <2>3. a.ok = TRUE /\ a.rows = b.rows /\ a.sharedprefs = b.sharedprefs /\ a.keyvalues = b.keyvalues
    BY <1>7, <1>8, <1>12, <2>2
  <2>4. a.avatars = Got(d, "Avatar", b.avatars, AvatarKeys(b))
    BY <1>9, <2>2
  <2>5. a.attachments
          = Elements(Got(d, "Attachment", b.attachments, AttachmentKeys(b)), Len(b.attachments))
    BY <1>10, <2>2
  <2>6. a.stickers = Elements(Got(d, "Sticker", b.stickers, StickerKeys(b)), Len(b.stickers))
    BY <1>11, <2>2
  <2>7. GivesBack(a, d, b)
    BY <2>3, <2>4, <2>5, <2>6 DEF GivesBack
  <2> QED BY <2>1, <2>7
<1> QED BY <1>3, <1>4, <1>5, <1>15 DEF Gotten

-----------------------------------------------------------------------------
LEMMA AllInTheEnd ==
  ASSUME HeldInv, stage = "done", ~full, FirstStage = "header",
         Single("DatabaseVersion") \in DOMAIN dir
  PROVE  IsBackup(backup) /\ backup \in Backups /\ AllIn(dir, backup, Lost(exportok))
<1>1. Held /\ TypeOK
  BY DEF HeldInv
<1>2. IsBackup(backup) /\ backup \in Backups
  BY <1>1, BackupIs DEF TypeOK
<1>3. Single("Header") \in DOMAIN dir
  BY <1>1, PlaceIs DEF Held, FirstFrames
<1>4. Database \in DOMAIN dir /\ dir[Database] = backup.rows
  BY <1>1 DEF Held
<1>5. ContentsAt(dir, backup, "done", "header", next, Lost(exportok))
  BY <1>1 DEF Held
<1>6. \A t \in ListStages : \A list : Count("done", "header", next, t, list) = Len(list)
  <2>1. \A t \in ListStages : Place(t) < Place("done")
    BY PlaceIs DEF ListStages, MediaStages, NumberStages
  <2> QED BY <2>1 DEF Count
<1>7. \A t \in MediaStages :
        MediaIn(dir, KindOf(t), MediaList(backup, t), KeysOf(backup, t),
                Len(MediaList(backup, t)), Lost(exportok))
  BY <1>5, <1>6 DEF ContentsAt, ListStages
<1>8. \A t \in NumberStages :
        NumbersIn(dir, KindOf(t), NumberList(backup, t), Len(NumberList(backup, t)))
  BY <1>5, <1>6 DEF ContentsAt, ListStages
<1>9. MediaIn(dir, "Attachment", backup.attachments, AttachmentKeys(backup),
              Len(backup.attachments), Lost(exportok))
  <2>1. /\ "attachments" \in MediaStages /\ KindOf("attachments") = "Attachment"
        /\ MediaList(backup, "attachments") = backup.attachments
        /\ KeysOf(backup, "attachments") = AttachmentKeys(backup)
    BY DEF MediaStages, KindOf, MediaList, KeysOf
  <2> QED BY <1>7, <2>1
<1>10. MediaIn(dir, "Avatar", backup.avatars, AvatarKeys(backup),
               Len(backup.avatars), Lost(exportok))
  <2>1. /\ "avatars" \in MediaStages /\ KindOf("avatars") = "Avatar"
        /\ MediaList(backup, "avatars") = backup.avatars
        /\ KeysOf(backup, "avatars") = AvatarKeys(backup)
    BY DEF MediaStages, KindOf, MediaList, KeysOf
  <2> QED BY <1>7, <2>1
<1>11. MediaIn(dir, "Sticker", backup.stickers, StickerKeys(backup),
               Len(backup.stickers), Lost(exportok))
  <2>1. /\ "stickers" \in MediaStages /\ KindOf("stickers") = "Sticker"
        /\ MediaList(backup, "stickers") = backup.stickers
        /\ KeysOf(backup, "stickers") = StickerKeys(backup)
    BY DEF MediaStages, KindOf, MediaList, KeysOf
  <2> QED BY <1>7, <2>1
<1>12. NumbersIn(dir, "SharedPreference", backup.sharedprefs, Len(backup.sharedprefs))
  <2>1. /\ "sharedprefs" \in NumberStages /\ KindOf("sharedprefs") = "SharedPreference"
        /\ NumberList(backup, "sharedprefs") = backup.sharedprefs
    BY DEF NumberStages, KindOf, NumberList
  <2> QED BY <1>8, <2>1
<1>13. NumbersIn(dir, "KeyValue", backup.keyvalues, Len(backup.keyvalues))
  <2>1. /\ "keyvalues" \in NumberStages /\ KindOf("keyvalues") = "KeyValue"
        /\ NumberList(backup, "keyvalues") = backup.keyvalues
    BY DEF NumberStages, KindOf, NumberList
  <2> QED BY <1>8, <2>1
<1>14. IsFiniteSet(DOMAIN dir)
  BY <1>5 DEF ContentsAt
<1>15. AllIn(dir, backup, Lost(exportok))
  BY <1>3, <1>4, <1>9, <1>10, <1>11, <1>12, <1>13, <1>14 DEF AllIn
<1> QED BY <1>2, <1>15

(* Nothing is lost of what was read whole. *)
LEMMA GotAll ==
  ASSUME NEW got, NEW list, Len(list) \in Nat, DOMAIN list = 1 .. Len(list),
         NEW d, NEW kind, NEW keys, got = Got(d, kind, list, keys), GotAre(got, Len(list), list, {})
  PROVE  /\ got = [i \in DOMAIN list |-> Loaded(list[i])]
         /\ Elements(got, Len(list)) = {Loaded(list[i]) : i \in DOMAIN list}
<1>1. \A i \in 1 .. Len(list) : got[i] = Loaded(list[i])
  <2> TAKE i \in 1 .. Len(list)
  <2>1. PICK data \in {list[i].data} \cup {} : got[i] = WithData(MediaFrame(list[i]), data)
    BY DEF GotAre
  <2>2. data = list[i].data
    OBVIOUS
  <2> QED BY <2>1, <2>2 DEF Loaded
<1>2. got = [i \in 1 .. Len(list) |-> got[i]]
  BY DEF Got
<1>3. got = [i \in DOMAIN list |-> Loaded(list[i])]
  BY <1>1, <1>2
<1>4. Elements(got, Len(list)) = {Loaded(list[i]) : i \in DOMAIN list}
  BY <1>1 DEF Elements
<1> QED BY <1>3, <1>4

Record(a) == a = [ok |-> a.ok, rows |-> a.rows, sharedprefs |-> a.sharedprefs,
                  keyvalues |-> a.keyvalues, avatars |-> a.avatars,
                  attachments |-> a.attachments, stickers |-> a.stickers]

LEMMA LoadIsRecord ==
  \A d : Record(Load(d, FALSE, FALSE)) /\ Load(d, FALSE, FALSE).ok \in BOOLEAN
<1>1. \A ok, rows, sharedprefs, keyvalues, avatars, attachments, stickers :
        Record([ok |-> ok, rows |-> rows, sharedprefs |-> sharedprefs, keyvalues |-> keyvalues,
                avatars |-> avatars, attachments |-> attachments, stickers |-> stickers])
  BY DEF Record
<1>2. \A ok, rows, sharedprefs, keyvalues, avatars, attachments, stickers :
        [ok |-> ok, rows |-> rows, sharedprefs |-> sharedprefs, keyvalues |-> keyvalues,
         avatars |-> avatars, attachments |-> attachments, stickers |-> stickers].ok = ok
  OBVIOUS
<1> QED BY <1>1, <1>2 DEF Load, Nothing

LEMMA WholeInTheEnd ==
  ASSUME \A b \in Backups : WithoutBreaks(b), HeldInv
  PROVE  UnpackedIsWhole
<1> SUFFICES ASSUME stage = "done", exportok, ~onlydb
             PROVE  Load(dir, FALSE, FALSE) = Whole(backup)
  BY DEF UnpackedIsWhole, Offered
<1>1. FirstStage = "header"
  BY DEF FirstStage
<1>2. ~full /\ Lost(exportok) = {}
  BY DEF HeldInv, Lost
<1>3. Single("DatabaseVersion") \in DOMAIN dir
  BY <1>1, HeldInTheEnd
<1>4. IsBackup(backup) /\ WithoutBreaks(backup) /\ AllIn(dir, backup, {})
  BY <1>1, <1>2, <1>3, AllInTheEnd
<1>5. GivesBack(Load(dir, FALSE, FALSE), dir, backup) /\ Gotten(dir, backup, {})
  BY <1>4, AllIsRead
<1>6. /\ Len(backup.attachments) \in Nat /\ DOMAIN backup.attachments = 1 .. Len(backup.attachments)
      /\ Len(backup.avatars) \in Nat /\ DOMAIN backup.avatars = 1 .. Len(backup.avatars)
      /\ Len(backup.stickers) \in Nat /\ DOMAIN backup.stickers = 1 .. Len(backup.stickers)
  BY <1>4 DEF IsBackup
<1>7. PICK attachments :
        attachments = {Loaded(backup.attachments[i]) : i \in DOMAIN backup.attachments}
  OBVIOUS
<1>8. PICK avatars : avatars = [i \in DOMAIN backup.avatars |-> Loaded(backup.avatars[i])]
  OBVIOUS
<1>9. PICK stickers : stickers = {Loaded(backup.stickers[i]) : i \in DOMAIN backup.stickers}
  OBVIOUS
<1>10. Elements(Got(dir, "Attachment", backup.attachments, AttachmentKeys(backup)),
                Len(backup.attachments)) = attachments
  BY <1>5, <1>6, <1>7, GotAll DEF Gotten
<1>11. Got(dir, "Avatar", backup.avatars, AvatarKeys(backup)) = avatars
  BY <1>5, <1>6, <1>8, GotAll DEF Gotten
<1>12. Elements(Got(dir, "Sticker", backup.stickers, StickerKeys(backup)),
                Len(backup.stickers)) = stickers
  BY <1>5, <1>6, <1>9, GotAll DEF Gotten
<1>13. Whole(backup) =
         [ok |-> TRUE, rows |-> backup.rows, sharedprefs |-> backup.sharedprefs,
          keyvalues |-> backup.keyvalues, avatars |-> avatars,
          attachments |-> attachments, stickers |-> stickers]
  BY <1>7, <1>8, <1>9 DEF Whole
<1>14. PICK a : a = Load(dir, FALSE, FALSE)
  OBVIOUS
<1>15. /\ a.ok = TRUE /\ a.rows = backup.rows
       /\ a.sharedprefs = backup.sharedprefs /\ a.keyvalues = backup.keyvalues
       /\ a.avatars = avatars /\ a.attachments = attachments /\ a.stickers = stickers
  BY <1>5, <1>10, <1>11, <1>12, <1>14 DEF GivesBack
<1>16. a = [ok |-> a.ok, rows |-> a.rows, sharedprefs |-> a.sharedprefs,
            keyvalues |-> a.keyvalues, avatars |-> a.avatars,
            attachments |-> a.attachments, stickers |-> a.stickers]
  BY <1>14, LoadIsRecord DEF Record
<1> QED BY <1>13, <1>14, <1>15, <1>16

(* exportBackupToDir, initFromDir: an export that said it is ok is read back as   *)
(* what was in memory, for lists of any length, each frame with its own data and *)
(* the avatars in their order, if no preference has a line break in it.           *)
THEOREM UnpackedWhole ==
  ASSUME \A b \in Backups : WithoutBreaks(b)
  PROVE  Spec => []UnpackedIsWhole
<1>1. HeldInv => UnpackedIsWhole
  BY WholeInTheEnd
<1> QED BY <1>1, AlwaysHeld, PTL

-----------------------------------------------------------------------------
(* A directory that is being cleared *)

MediaOf(d, kind) == {Media(d, n) : n \in Frames(d, kind)}

RowsOf(d) == [r \in DOMAIN d[Database] |-> d[Database][r]]

LEMMA LoadOk ==
  ASSUME NEW d
  PROVE  /\ Load(d, FALSE, FALSE).ok <=>
              {Database, Single("Header"), Single("DatabaseVersion")} \subseteq DOMAIN d
         /\ Load(d, FALSE, FALSE).ok =>
              /\ Load(d, FALSE, FALSE).rows = RowsOf(d)
              /\ Load(d, FALSE, FALSE).sharedprefs = Numbered(d, "SharedPreference")
              /\ Load(d, FALSE, FALSE).keyvalues = Numbered(d, "KeyValue")
              /\ Load(d, FALSE, FALSE).avatars = Avatars(d)
              /\ Load(d, FALSE, FALSE).attachments
                   = OneOfEach(MediaOf(d, "Attachment"))
              /\ Load(d, FALSE, FALSE).stickers
                   = OneOfEach(MediaOf(d, "Sticker"))
<1>1. {Attachment(d, n, FALSE) : n \in Frames(d, "Attachment")} = MediaOf(d, "Attachment")
  BY AttachmentUnreplaced DEF MediaOf
<1>2. RowsAfter(d, FALSE) = RowsOf(d)
  BY DEF RowsAfter, ReplacedBy, RowsOf
<1>3. PICK attachments : attachments = OneOfEach(MediaOf(d, "Attachment"))
  OBVIOUS
<1>4. PICK stickers : stickers = OneOfEach(MediaOf(d, "Sticker"))
  OBVIOUS
<1>5. PICK rows : rows = RowsOf(d)
  OBVIOUS
<1>6. CASE {Database, Single("Header"), Single("DatabaseVersion")} \subseteq DOMAIN d
  <2>1. \A n \in Frames(d, "Attachment") : ReplacedBy(d, n, FALSE) => ~Refused(d, n, FALSE)
    BY DEF ReplacedBy
  <2>2. PICK sharedprefs, keyvalues, avatars :
          /\ sharedprefs = Numbered(d, "SharedPreference")
          /\ keyvalues = Numbered(d, "KeyValue") /\ avatars = Avatars(d)
    OBVIOUS
  <2>3. PICK a : a = Load(d, FALSE, FALSE)
    OBVIOUS
  <2>4. a = [ok |-> TRUE, rows |-> rows, sharedprefs |-> sharedprefs, keyvalues |-> keyvalues,
             avatars |-> avatars, attachments |-> attachments, stickers |-> stickers]
    BY <1>1, <1>2, <1>3, <1>4, <1>5, <1>6, <2>1, <2>2, <2>3 DEF Load, MediaOf
  <2>5. /\ a.ok = TRUE /\ a.rows = rows /\ a.sharedprefs = sharedprefs /\ a.keyvalues = keyvalues
        /\ a.avatars = avatars /\ a.attachments = attachments /\ a.stickers = stickers
    BY ONLY <2>4
  <2>6. a.ok
    BY <2>5
  <2> QED BY <1>3, <1>4, <1>5, <1>6, <2>2, <2>3, <2>5, <2>6
<1>7. CASE ~({Database, Single("Header"), Single("DatabaseVersion")} \subseteq DOMAIN d)
  <2>1. Load(d, FALSE, FALSE) = Nothing
    BY <1>7 DEF Load
  <2>2. ~Nothing.ok
    BY DEF Nothing
  <2> QED BY <1>7, <2>1, <2>2
<1> QED BY <1>6, <1>7

LEMMA ShortMedia ==
  ASSUME NEW d, NEW e, Within(d, e), NEW x \in DOMAIN d
  PROVE  SameOrShort(Media(d, x), Media(e, x))
<1>1. FrameIn(d, x) = FrameIn(e, x)
  BY DEF FrameIn, Within
<1>2. DataOf(d, x) = DataOf(e, x) \/ DataOf(d, x) = "missing"
  BY DEF DataOf, Within
<1>3. PICK f : f = FrameIn(e, x)
  OBVIOUS
<1>4. \A data : WithData(f, "missing") = [WithData(f, data) EXCEPT !.data = "missing"]
  BY DEF WithData
<1>5. Media(d, x) = WithData(f, DataOf(d, x)) /\ Media(e, x) = WithData(f, DataOf(e, x))
  BY <1>1, <1>3 DEF Media
<1> QED BY <1>2, <1>4, <1>5 DEF SameOrShort

(* No two frames of the kind are of the same attachment, or sticker.            *)
Apart(d, kind) ==
  \A x, y \in Frames(d, kind) :
    FrameIn(d, x).id = FrameIn(d, y).id /\ FrameIn(d, x).uniqueid = FrameIn(d, y).uniqueid => x = y

LEMMA ApartAreKept ==
  ASSUME NEW d, NEW kind, Apart(d, kind)
  PROVE  OneOfEach(MediaOf(d, kind)) = MediaOf(d, kind)
<1> DEFINE S == {Media(d, n) : n \in Frames(d, kind)}
<1>1. \A n : Media(d, n).id = FrameIn(d, n).id /\ Media(d, n).uniqueid = FrameIn(d, n).uniqueid
  BY DEF Media, WithData
<1>2. \A f, g \in S : f.id = g.id /\ f.uniqueid = g.uniqueid => f = g
  <2> TAKE f, g \in S
  <2>1. PICK x \in Frames(d, kind) : f = Media(d, x)
    OBVIOUS
  <2>2. PICK y \in Frames(d, kind) : g = Media(d, y)
    OBVIOUS
  <2> QED BY <1>1, <2>1, <2>2 DEF Apart
<1> HIDE DEF S
<1> QED BY <1>2, OneOfEachIs DEF S, MediaOf

LEMMA SomeOfMedia ==
  ASSUME NEW d, NEW e, Within(d, e), NEW kind, Apart(e, kind)
  PROVE  SomeOf(OneOfEach(MediaOf(d, kind)),
                OneOfEach(MediaOf(e, kind)))
<1>1. PICK T : T = MediaOf(e, kind)
  OBVIOUS
<1>2. OneOfEach(MediaOf(e, kind)) = T
  BY <1>1, ApartAreKept
<1>3. ASSUME NEW m \in OneOfEach(MediaOf(d, kind))
      PROVE  \E n \in T : SameOrShort(m, n)
  <2>1. m \in MediaOf(d, kind)
    BY SomeOfEach
  <2>2. PICK x \in Frames(d, kind) : m = Media(d, x)
    BY <2>1 DEF MediaOf
  <2>3. x \in DOMAIN d /\ x \in Frames(e, kind)
    BY DEF Frames, Within
  <2>4. Media(e, x) \in T /\ SameOrShort(m, Media(e, x))
    BY <1>1, <2>2, <2>3, ShortMedia DEF MediaOf
  <2> QED BY <2>4
<1> QED BY <1>2, <1>3 DEF SomeOf

(* The avatars in the directory are of one list, and named in its order.        *)
InOrder(keys, n) ==
  /\ \A i \in 1 .. n : keys[i] \in Seq(Int)
  /\ \A i, j \in 1 .. n : i < j => Before(keys[i], keys[j])

OfOneList(d) ==
  \E n \in Nat : \E keys : InOrder(keys, n) /\
    \E I \in SUBSET (1 .. n) : Frames(d, "Avatar") = NamesOf("Avatar", keys, I)

LEMMA ThinnedAvatars ==
  ASSUME NEW d, NEW e, Within(d, e), OfOneList(e)
  PROVE  Thinned(Avatars(d), Avatars(e))
<1>1. PICK n \in Nat : \E keys : InOrder(keys, n) /\
        \E I \in SUBSET (1 .. n) : Frames(e, "Avatar") = NamesOf("Avatar", keys, I)
  BY DEF OfOneList
<1>2. PICK keys : InOrder(keys, n) /\
        \E I \in SUBSET (1 .. n) : Frames(e, "Avatar") = NamesOf("Avatar", keys, I)
  BY <1>1
<1>3. PICK I \in SUBSET (1 .. n) : Frames(e, "Avatar") = NamesOf("Avatar", keys, I)
  BY <1>2
<1>4. PICK J : J = {i \in I : Name("Avatar", keys[i], "sbf") \in DOMAIN d}
  OBVIOUS
<1>5. J \in SUBSET (1 .. n) /\ J \subseteq I
  BY <1>4
<1>6. Frames(d, "Avatar") = NamesOf("Avatar", keys, J)
  <2>1. Frames(d, "Avatar") = {x \in Frames(e, "Avatar") : x \in DOMAIN d}
    BY DEF Frames, Within
  <2>2. \A x : x \in NamesOf("Avatar", keys, J)
                 <=> x \in NamesOf("Avatar", keys, I) /\ x \in DOMAIN d
    BY <1>4 DEF NamesOf
  <2> QED BY <1>3, <2>1, <2>2
<1>7. PICK m \in Nat : \E s : Enumerates(s, m, I)
  BY Enumerated
<1>8. PICK s : Enumerates(s, m, I)
  BY <1>7
<1>9. PICK l \in Nat : \E t : Enumerates(t, l, J)
  BY <1>5, Enumerated
<1>10. PICK t : Enumerates(t, l, J)
  BY <1>9
<1>11. Avatars(e) = AvatarsAt(e, keys, s, m)
  BY <1>2, <1>3, <1>8, AvatarsAre DEF InOrder
<1>12. Avatars(d) = AvatarsAt(d, keys, t, l)
  BY <1>2, <1>5, <1>6, <1>10, AvatarsAre DEF InOrder
<1>13. PICK u : u = AvatarsAt(d, keys, t, l)
  OBVIOUS
<1>14. PICK v : v = AvatarsAt(e, keys, s, m)
  OBVIOUS
<1>15. DOMAIN u = 1 .. l /\ DOMAIN v = 1 .. m
  BY <1>13, <1>14 DEF AvatarsAt
<1> DEFINE at == [k \in 1 .. l |-> CHOOSE j \in 1 .. m : s[j] = t[k]]
<1>16. \A k \in 1 .. l : at[k] \in 1 .. m /\ s[at[k]] = t[k]
  <2> TAKE k \in 1 .. l
  <2>1. t[k] \in I
    BY <1>5, <1>10 DEF Enumerates
  <2>2. \E j \in 1 .. m : s[j] = t[k]
    BY <1>8, <2>1 DEF Enumerates
  <2> QED BY <2>2
<1>17. at \in [1 .. l -> 1 .. m]
  BY <1>16
<1> HIDE DEF at
<1>18. ASSUME NEW i \in 1 .. l, NEW j \in 1 .. l, i < j PROVE at[i] < at[j]
  <2>1. t[i] < t[j]
    BY <1>10, <1>18 DEF Enumerates
  <2>2. s[at[i]] < s[at[j]] /\ at[i] \in 1 .. m /\ at[j] \in 1 .. m
    BY <1>16, <2>1
  <2>3. \A p \in 1 .. m : s[p] \in 1 .. n
    BY <1>8 DEF Enumerates
  <2>4. ~(at[j] < at[i]) /\ at[j] # at[i]
    <3>1. s[at[i]] \in Int /\ s[at[j]] \in Int
      BY <2>2, <2>3
    <3>2. at[j] < at[i] => s[at[j]] < s[at[i]]
      BY <1>8, <2>2 DEF Enumerates
    <3> QED BY <2>2, <3>1, <3>2
  <2> QED BY <2>2, <2>4
<1>19. ASSUME NEW k \in 1 .. l PROVE SameOrShort(u[k], v[at[k]])
  <2>1. PICK x : x = Name("Avatar", keys[t[k]], "sbf")
    OBVIOUS
  <2>2. u[k] = Media(d, x)
    BY <1>13, <2>1 DEF AvatarsAt
  <2>3. v[at[k]] = Media(e, x)
    BY <1>14, <1>16, <2>1 DEF AvatarsAt
  <2>4. x \in DOMAIN d
    <3>1. t[k] \in J
      BY <1>10 DEF Enumerates
    <3> QED BY <1>4, <2>1, <3>1
  <2> QED BY <2>2, <2>3, <2>4, ShortMedia
<1>20. Thinned(u, v)
  BY <1>15, <1>17, <1>18, <1>19 DEF Thinned
<1> QED BY <1>11, <1>12, <1>13, <1>14, <1>20

(* What was in the directory before, or what the clearing left of it.           *)
Former(d) == Apart(d, "Attachment") /\ Apart(d, "Sticker") /\ OfOneList(d)

LEMMA PartWithin ==
  ASSUME NEW d, NEW e, Within(d, e), Former(e)
  PROVE  PartOf(Load(d, FALSE, FALSE), Load(e, FALSE, FALSE))
<1> SUFFICES ASSUME Load(d, FALSE, FALSE).ok
             PROVE  PartOf(Load(d, FALSE, FALSE), Load(e, FALSE, FALSE))
  BY DEF PartOf
<1>1. Load(e, FALSE, FALSE).ok /\ Database \in DOMAIN d
  BY LoadOk DEF Within
<1>2. PICK a : a = Load(d, FALSE, FALSE)
  OBVIOUS
<1>3. PICK b : b = Load(e, FALSE, FALSE)
  OBVIOUS
<1>4. a.rows = b.rows
  <2>1. d[Database] = e[Database]
    BY <1>1 DEF Within
  <2>2. RowsOf(d) = RowsOf(e)
    BY <2>1 DEF RowsOf
  <2> QED BY <1>1, <1>2, <1>3, <2>2, LoadOk
<1>5. IsPrefix(a.sharedprefs, b.sharedprefs) /\ IsPrefix(a.keyvalues, b.keyvalues)
  <2>1. /\ a.sharedprefs = Numbered(d, "SharedPreference") /\ a.keyvalues = Numbered(d, "KeyValue")
        /\ b.sharedprefs = Numbered(e, "SharedPreference") /\ b.keyvalues = Numbered(e, "KeyValue")
    BY <1>1, <1>2, <1>3, LoadOk
  <2> QED BY <2>1, NumberedWithin
<1>6. Thinned(a.avatars, b.avatars)
  <2>1. a.avatars = Avatars(d) /\ b.avatars = Avatars(e)
    BY <1>1, <1>2, <1>3, LoadOk
  <2> QED BY <2>1, ThinnedAvatars DEF Former
<1>7. SomeOf(a.attachments, b.attachments)
  <2>1. /\ a.attachments = OneOfEach(MediaOf(d, "Attachment"))
        /\ b.attachments = OneOfEach(MediaOf(e, "Attachment"))
    BY <1>1, <1>2, <1>3, LoadOk
  <2> QED BY <2>1, SomeOfMedia DEF Former
<1>8. SomeOf(a.stickers, b.stickers)
  <2>1. /\ a.stickers = OneOfEach(MediaOf(d, "Sticker"))
        /\ b.stickers = OneOfEach(MediaOf(e, "Sticker"))
    BY <1>1, <1>2, <1>3, LoadOk
  <2> QED BY <2>1, SomeOfMedia DEF Former
<1>9. PartOf(a, b)
  BY <1>1, <1>2, <1>3, <1>4, <1>5, <1>6, <1>7, <1>8 DEF PartOf
<1> QED BY <1>2, <1>3, <1>9

LEMMA FormerWithin ==
  ASSUME NEW d, NEW e, Within(d, e), Former(e)
  PROVE  Former(d)
<1>1. \A kind : \A x \in Frames(d, kind) : x \in Frames(e, kind) /\ FrameIn(d, x) = FrameIn(e, x)
  BY DEF Frames, FrameIn, Within
<1>2. Apart(d, "Attachment") /\ Apart(d, "Sticker")
  BY <1>1 DEF Former, Apart
<1>3. OfOneList(d)
  <2>1. PICK n \in Nat : \E keys : InOrder(keys, n) /\
          \E I \in SUBSET (1 .. n) : Frames(e, "Avatar") = NamesOf("Avatar", keys, I)
    BY DEF Former, OfOneList
  <2>2. PICK keys : InOrder(keys, n) /\
          \E I \in SUBSET (1 .. n) : Frames(e, "Avatar") = NamesOf("Avatar", keys, I)
    BY <2>1
  <2>3. PICK I \in SUBSET (1 .. n) : Frames(e, "Avatar") = NamesOf("Avatar", keys, I)
    BY <2>2
  <2>4. PICK J \in SUBSET (1 .. n) : J = {i \in I : Name("Avatar", keys[i], "sbf") \in DOMAIN d}
    OBVIOUS
  <2>5. Frames(d, "Avatar") = NamesOf("Avatar", keys, J)
    <3>1. Frames(d, "Avatar") = {x \in Frames(e, "Avatar") : x \in DOMAIN d}
      BY DEF Frames, Within
    <3>2. \A x : x \in NamesOf("Avatar", keys, J)
                   <=> x \in NamesOf("Avatar", keys, I) /\ x \in DOMAIN d
      BY <2>4 DEF NamesOf
    <3> QED BY <2>3, <3>1, <3>2
  <2> QED BY <2>2, <2>5 DEF OfOneList
<1> QED BY <1>2, <1>3 DEF Former

-----------------------------------------------------------------------------
(* What a failed export leaves *)

LEMMA SamePrefix ==
  ASSUME NEW S, NEW s \in Seq(S)
  PROVE  IsPrefix(s, s)
BY DEF IsPrefix

LEMMA ListsAre ==
  ASSUME NEW b, IsBackup(b)
  PROVE  /\ Len(b.avatars) \in Nat /\ DOMAIN b.avatars = 1 .. Len(b.avatars)
         /\ b.sharedprefs \in Seq(Seq(STRING)) /\ b.keyvalues \in Seq(Seq(STRING))
BY DEF IsBackup

(* Short data is short. *)
LEMMA GotShort ==
  ASSUME NEW got, NEW n, NEW list, NEW lost, lost \subseteq {""}, GotAre(got, n, list, lost),
         NEW i \in 1 .. n
  PROVE  SameOrShort(got[i], Loaded(list[i]))
<1>1. PICK data \in {list[i].data} \cup lost : got[i] = WithData(MediaFrame(list[i]), data)
  BY DEF GotAre
<1>2. PICK whole : whole = list[i].data
  OBVIOUS
<1>3. PICK f : f = MediaFrame(list[i])
  OBVIOUS
<1>4. WithData(f, data) = [WithData(f, whole) EXCEPT !.data = data]
  BY ONLY DEF WithData
<1>5. data = whole \/ data \in {"", "missing"}
  BY <1>2
<1>6. got[i] = WithData(f, data) /\ Loaded(list[i]) = WithData(f, whole)
  BY <1>1, <1>2, <1>3 DEF Loaded
<1> QED BY <1>4, <1>5, <1>6 DEF SameOrShort

LEMMA LengthIs ==
  ASSUME NEW n \in Nat, NEW u, u = [i \in 1 .. n |-> u[i]]
  PROVE  Len(u) = n
<1>1. PICK S : S = {u[i] : i \in 1 .. n}
  OBVIOUS
<1>2. \A i \in 1 .. n : u[i] \in S
  BY <1>1
<1>3. u \in [1 .. n -> S]
  BY <1>2
<1> QED BY ONLY <1>3, n \in Nat

LoadedList(list) == [i \in DOMAIN list |-> Loaded(list[i])]
LoadedSet(list) == {Loaded(list[i]) : i \in DOMAIN list}

LEMMA LoadedAre ==
  ASSUME NEW list, Len(list) \in Nat, DOMAIN list = 1 .. Len(list)
  PROVE  \E got : /\ GotAre(got, Len(list), list, {})
                  /\ got = LoadedList(list)
                  /\ Elements(got, Len(list)) = LoadedSet(list)
<1>1. PICK got : got = LoadedList(list)
  OBVIOUS
<1>2. got = [i \in 1 .. Len(list) |-> got[i]] /\ \A i \in 1 .. Len(list) : got[i] = Loaded(list[i])
  BY <1>1 DEF LoadedList
<1>3. GotAre(got, Len(list), list, {})
  BY <1>2 DEF GotAre, Loaded
<1>4. Elements(got, Len(list)) = LoadedSet(list)
  BY <1>2 DEF Elements, LoadedSet
<1> QED BY <1>1, <1>3, <1>4

(* The attachments or stickers that were got, and those there are.              *)
LEMMA SomeGot ==
  ASSUME NEW b, IsBackup(b), NEW t \in {"attachments", "stickers"},
         NEW list, list = MediaList(b, t), NEW lost, lost \subseteq {""},
         NEW got, GotAre(got, Len(list), list, lost)
  PROVE  /\ SomeOf(Elements(got, Len(list)), LoadedSet(list))
         /\ Cardinality(Elements(got, Len(list))) = Cardinality(LoadedSet(list))
<1>1. PICK n : n = Len(list)
  OBVIOUS
<1>2. n \in Nat /\ DOMAIN list = 1 .. n
  BY <1>1, KeysAreDistinct DEF MediaStages
<1>3. PICK T : T = LoadedSet(list)
  OBVIOUS
<1>4. PICK whole : GotAre(whole, n, list, {}) /\ Elements(whole, n) = T
  BY <1>1, <1>2, <1>3, LoadedAre
<1>5. Cardinality(T) = n /\ Cardinality(Elements(got, n)) = n
  BY <1>1, <1>4, EachGot
<1>6. SomeOf(Elements(got, n), T)
  <2>1. \A i \in 1 .. n : SameOrShort(got[i], Loaded(list[i])) /\ Loaded(list[i]) \in T
    BY <1>1, <1>2, <1>3, GotShort DEF LoadedSet
  <2> QED BY <2>1 DEF SomeOf, Elements
<1> QED BY <1>1, <1>3, <1>5, <1>6

LEMMA ThinnedGot ==
  ASSUME NEW list, NEW n \in Nat, n = Len(list), DOMAIN list = 1 .. n, NEW lost, lost \subseteq {""},
         NEW got, GotAre(got, n, list, lost)
  PROVE  /\ Thinned(got, LoadedList(list))
         /\ Len(got) = Len(LoadedList(list))
<1>1. PICK whole : whole = LoadedList(list)
  OBVIOUS
<1>2. DOMAIN got = 1 .. n /\ DOMAIN whole = 1 .. n
  BY <1>1 DEF GotAre, LoadedList
<1>3. PICK at : at = [i \in 1 .. n |-> i]
  OBVIOUS
<1>4. at \in [DOMAIN got -> DOMAIN whole] /\ \A i \in 1 .. n : at[i] = i
  BY <1>2, <1>3
<1>5. \A i \in DOMAIN got : SameOrShort(got[i], whole[at[i]])
  <2>1. \A i \in 1 .. n : SameOrShort(got[i], Loaded(list[i])) /\ whole[i] = Loaded(list[i])
    BY <1>1, GotShort DEF LoadedList
  <2> QED BY <1>2, <1>4, <2>1
<1>6. Thinned(got, whole)
  BY <1>2, <1>4, <1>5 DEF Thinned
<1>7. Len(got) = Len(whole)
  <2>1. got = [i \in 1 .. n |-> got[i]] /\ whole = [i \in 1 .. n |-> whole[i]]
    BY <1>1 DEF GotAre, LoadedList
  <2> QED BY <2>1, LengthIs
<1> QED BY <1>1, <1>6, <1>7

LEMMA LeftOfAll ==
  ASSUME NEW d, NEW b, IsBackup(b), WithoutBreaks(b), NEW lost, lost \subseteq {""}, AllIn(d, b, lost)
  PROVE  MayBeLeft(Load(d, FALSE, FALSE), Whole(b))
<1>1. PICK a : a = Load(d, FALSE, FALSE)
  OBVIOUS
<1>2. PICK w : w = Whole(b)
  OBVIOUS
<1>3. GivesBack(a, d, b) /\ Gotten(d, b, lost)
  BY <1>1, AllIsRead
<1>4. PICK n : n = Len(b.avatars)
  OBVIOUS
<1>5. /\ n \in Nat /\ DOMAIN b.avatars = 1 .. n
      /\ b.sharedprefs \in Seq(Seq(STRING)) /\ b.keyvalues \in Seq(Seq(STRING))
  BY <1>4, ListsAre
<1>6. /\ w.ok /\ w.rows = b.rows /\ w.sharedprefs = b.sharedprefs /\ w.keyvalues = b.keyvalues
      /\ w.avatars = LoadedList(b.avatars)
      /\ w.attachments = LoadedSet(b.attachments)
      /\ w.stickers = LoadedSet(b.stickers)
  <2>1. PICK avatars : avatars = LoadedList(b.avatars)
    OBVIOUS
  <2>2. PICK attachments : attachments = LoadedSet(b.attachments)
    OBVIOUS
  <2>3. PICK stickers : stickers = LoadedSet(b.stickers)
    OBVIOUS
  <2>4. w = [ok |-> TRUE, rows |-> b.rows, sharedprefs |-> b.sharedprefs,
             keyvalues |-> b.keyvalues, avatars |-> avatars,
             attachments |-> attachments, stickers |-> stickers]
    BY <1>2, <2>1, <2>2, <2>3 DEF Whole, LoadedList, LoadedSet
  <2>5. /\ w.ok = TRUE /\ w.rows = b.rows /\ w.sharedprefs = b.sharedprefs
        /\ w.keyvalues = b.keyvalues /\ w.avatars = avatars
        /\ w.attachments = attachments /\ w.stickers = stickers
    BY <2>4
  <2>6. w.ok
    BY <2>5
  <2> QED BY <2>1, <2>2, <2>3, <2>5, <2>6
<1>7. Thinned(a.avatars, w.avatars) /\ Len(a.avatars) = Len(w.avatars)
  <2>1. GotAre(a.avatars, n, b.avatars, lost)
    BY <1>3, <1>4 DEF GivesBack, Gotten
  <2>2. PICK list : list = b.avatars
    OBVIOUS
  <2>3. n = Len(list) /\ DOMAIN list = 1 .. n /\ GotAre(a.avatars, n, list, lost)
    BY <1>4, <1>5, <2>1, <2>2
  <2>4. Thinned(a.avatars, LoadedList(list)) /\ Len(a.avatars) = Len(LoadedList(list))
    BY <1>5, <2>3, ThinnedGot
  <2> QED BY <1>6, <2>2, <2>4
<1>8. SomeOf(a.attachments, w.attachments) /\ Cardinality(a.attachments) = Cardinality(w.attachments)
  <2>1. MediaList(b, "attachments") = b.attachments
    BY DEF MediaList
  <2>2. PICK got : got = Got(d, "Attachment", b.attachments, AttachmentKeys(b))
    OBVIOUS
  <2>3. GotAre(got, Len(b.attachments), b.attachments, lost)
    BY <1>3, <2>2 DEF Gotten
  <2>4. a.attachments = Elements(got, Len(b.attachments))
    BY <1>3, <2>2 DEF GivesBack
  <2>5. PICK list : list = b.attachments
    OBVIOUS
  <2>6. /\ SomeOf(Elements(got, Len(list)), LoadedSet(list))
        /\ Cardinality(Elements(got, Len(list))) = Cardinality(LoadedSet(list))
    BY <2>1, <2>3, <2>5, SomeGot
  <2> QED BY <1>6, <2>4, <2>5, <2>6
<1>9. SomeOf(a.stickers, w.stickers) /\ Cardinality(a.stickers) = Cardinality(w.stickers)
  <2>1. MediaList(b, "stickers") = b.stickers
    BY DEF MediaList
  <2>2. PICK got : got = Got(d, "Sticker", b.stickers, StickerKeys(b))
    OBVIOUS
  <2>3. GotAre(got, Len(b.stickers), b.stickers, lost)
    BY <1>3, <2>2 DEF Gotten
  <2>4. a.stickers = Elements(got, Len(b.stickers))
    BY <1>3, <2>2 DEF GivesBack
  <2>5. PICK list : list = b.stickers
    OBVIOUS
  <2>6. /\ SomeOf(Elements(got, Len(list)), LoadedSet(list))
        /\ Cardinality(Elements(got, Len(list))) = Cardinality(LoadedSet(list))
    BY <2>1, <2>3, <2>5, SomeGot
  <2> QED BY <1>6, <2>4, <2>5, <2>6
<1>10. a.rows = w.rows /\ a.sharedprefs = w.sharedprefs /\ a.keyvalues = w.keyvalues
  BY <1>3, <1>6 DEF GivesBack
<1>11. IsPrefix(a.sharedprefs, w.sharedprefs) /\ IsPrefix(a.keyvalues, w.keyvalues)
  BY <1>5, <1>6, <1>10, SamePrefix
<1>12. PartOf(a, w)
  BY <1>6, <1>7, <1>8, <1>9, <1>10, <1>11 DEF PartOf
<1>13. MayBeLeft(a, w)
  BY <1>7, <1>8, <1>9, <1>10, <1>12 DEF MayBeLeft
<1> QED BY <1>1, <1>2, <1>13

-----------------------------------------------------------------------------
(* A file that is put beside the others is not read *)

Beside(d, e) ==
  /\ IsFiniteSet(DOMAIN d) /\ IsFiniteSet(DOMAIN e)
  /\ \A n : n[3] # "new" => /\ n \in DOMAIN d <=> n \in DOMAIN e
                            /\ n \in DOMAIN d => d[n] = e[n]

LEMMA NumberedBeside ==
  ASSUME NEW d, NEW e, Beside(d, e), NEW kind
  PROVE  Numbered(d, kind) = Numbered(e, kind)
<1> DEFINE name(i) == Name(kind, <<i>>, "sbf")
<1>1. PICK m \in Nat : /\ Reading(d, kind, m)
                       /\ Numbered(d, kind) = [i \in 1 .. m |-> ReadBack(d[name(i)])]
  BY NumberedIs DEF Beside
<1>2. PICK n \in Nat : /\ Reading(e, kind, n)
                       /\ Numbered(e, kind) = [i \in 1 .. n |-> ReadBack(e[name(i)])]
  BY NumberedIs DEF Beside
<1>3. \A i : /\ Reads(d, name(i)) <=> Reads(e, name(i))
             /\ Reads(d, name(i)) => d[name(i)] = e[name(i)]
  <2>1. \A i : name(i)[3] # "new"
    BY NameParts
  <2> HIDE DEF name
  <2> QED BY <2>1 DEF Beside, Reads
<1>4. /\ \A i \in 1 .. m : Reads(d, name(i)) 
      /\ ~Reads(d, name(m + 1))
      /\ \A i \in 1 .. n : Reads(e, name(i))
      /\ ~Reads(e, name(n + 1))
  BY <1>1, <1>2 DEF Reading
<1> HIDE DEF name
<1>5. ~(m < n)
  <2>1. SUFFICES ASSUME m < n PROVE FALSE
    OBVIOUS
  <2>2. m + 1 \in 1 .. n
    BY <2>1
  <2> QED BY <1>3, <1>4, <2>2
<1>6. ~(n < m)
  <2>1. SUFFICES ASSUME n < m PROVE FALSE
    OBVIOUS
  <2>2. n + 1 \in 1 .. m
    BY <2>1
  <2> QED BY <1>3, <1>4, <2>2
<1>7. m = n
  BY <1>5, <1>6
<1>8. \A i \in 1 .. m : d[name(i)] = e[name(i)]
  BY <1>3, <1>4
<1> QED BY <1>1, <1>2, <1>7, <1>8

LEMMA MediaBeside ==
  ASSUME NEW d, NEW e, Beside(d, e), NEW kind
  PROVE  /\ Frames(d, kind) = Frames(e, kind)
         /\ \A n \in Frames(d, kind) : Media(d, n) = Media(e, n)
<1>1. Frames(d, kind) = Frames(e, kind)
  BY DEF Frames, Beside
<1>2. ASSUME NEW n \in Frames(d, kind) PROVE Media(d, n) = Media(e, n)
  <2>1. n[3] # "new" /\ n \in DOMAIN d
    BY DEF Frames
  <2>2. d[n] = e[n]
    BY <2>1 DEF Beside
  <2>3. PICK bin : bin = Name(n[1], n[2], "bin")
    OBVIOUS
  <2>4. bin[3] # "new"
    BY <2>3, NameParts
  <2>5. DataOf(d, n) = DataOf(e, n)
    BY <2>3, <2>4 DEF DataOf, Beside
  <2>6. FrameIn(d, n) = FrameIn(e, n)
    BY <2>2 DEF FrameIn
  <2> QED BY <2>5, <2>6 DEF Media
<1> QED BY <1>1, <1>2

LEMMA AvatarsBeside ==
  ASSUME NEW d, NEW e, Beside(d, e), OfOneList(d)
  PROVE  Avatars(d) = Avatars(e)
<1>1. PICK n \in Nat : \E keys : InOrder(keys, n) /\
        \E I \in SUBSET (1 .. n) : Frames(d, "Avatar") = NamesOf("Avatar", keys, I)
  BY DEF OfOneList
<1>2. PICK keys : InOrder(keys, n) /\
        \E I \in SUBSET (1 .. n) : Frames(d, "Avatar") = NamesOf("Avatar", keys, I)
  BY <1>1
<1>3. PICK I \in SUBSET (1 .. n) : Frames(d, "Avatar") = NamesOf("Avatar", keys, I)
  BY <1>2
<1>4. Frames(e, "Avatar") = NamesOf("Avatar", keys, I)
  BY <1>3, MediaBeside
<1>5. PICK m \in Nat : \E s : Enumerates(s, m, I)
  BY Enumerated
<1>6. PICK s : Enumerates(s, m, I)
  BY <1>5
<1>7. Avatars(d) = AvatarsAt(d, keys, s, m)
  BY <1>2, <1>3, <1>6, AvatarsAre DEF InOrder
<1>8. Avatars(e) = AvatarsAt(e, keys, s, m)
  BY <1>2, <1>4, <1>6, AvatarsAre DEF InOrder
<1>9. ASSUME NEW k \in 1 .. m
      PROVE  Media(d, Name("Avatar", keys[s[k]], "sbf"))
               = Media(e, Name("Avatar", keys[s[k]], "sbf"))
  <2>1. s[k] \in I
    BY <1>6 DEF Enumerates
  <2>2. Name("Avatar", keys[s[k]], "sbf") \in Frames(d, "Avatar")
    BY <1>3, <2>1 DEF NamesOf
  <2> QED BY <2>2, MediaBeside
<1> QED BY <1>7, <1>8, <1>9 DEF AvatarsAt

LEMMA LoadBeside ==
  ASSUME NEW d, NEW e, Beside(d, e), OfOneList(d)
  PROVE  Load(d, FALSE, FALSE) = Load(e, FALSE, FALSE)
<1>1. Database[3] # "new" /\ Single("Header")[3] # "new" /\ Single("DatabaseVersion")[3] # "new"
  BY NameParts DEF Database, Single
<1>2. /\ {Database, Single("Header"), Single("DatabaseVersion")} \subseteq DOMAIN d
           <=> {Database, Single("Header"), Single("DatabaseVersion")} \subseteq DOMAIN e
      /\ Database \in DOMAIN d => d[Database] = e[Database]
  BY <1>1 DEF Beside
<1>3. PICK a : a = Load(d, FALSE, FALSE)
  OBVIOUS
<1>4. PICK b : b = Load(e, FALSE, FALSE)
  OBVIOUS
<1>5. CASE {Database, Single("Header"), Single("DatabaseVersion")} \subseteq DOMAIN d
  <2>1. a.ok /\ b.ok
    BY <1>2, <1>3, <1>4, <1>5, LoadOk
  <2>2. a.rows = b.rows
    <3>1. RowsOf(d) = RowsOf(e)
      BY <1>2, <1>5 DEF RowsOf
    <3> QED BY <1>3, <1>4, <2>1, <3>1, LoadOk
  <2>3. a.sharedprefs = b.sharedprefs /\ a.keyvalues = b.keyvalues
    <3>1. \A kind : Numbered(d, kind) = Numbered(e, kind)
      BY NumberedBeside
    <3>2. /\ a.sharedprefs = Numbered(d, "SharedPreference") /\ a.keyvalues = Numbered(d, "KeyValue")
          /\ b.sharedprefs = Numbered(e, "SharedPreference") /\ b.keyvalues = Numbered(e, "KeyValue")
      BY <1>3, <1>4, <2>1, LoadOk
    <3> QED BY <3>1, <3>2
  <2>4. a.avatars = b.avatars
    BY <1>3, <1>4, <2>1, LoadOk, AvatarsBeside
  <2>5. /\ a.attachments = b.attachments /\ a.stickers = b.stickers
    <3>1. \A kind : MediaOf(d, kind) = MediaOf(e, kind)
      BY MediaBeside DEF MediaOf
    <3> QED BY <1>3, <1>4, <2>1, <3>1, LoadOk
  <2>6. a.ok = b.ok
    <3>1. Load(d, FALSE, FALSE).ok \in BOOLEAN /\ Load(e, FALSE, FALSE).ok \in BOOLEAN
      BY LoadIsRecord
    <3> QED BY <1>3, <1>4, <2>1, <3>1
  <2>7. Record(a) /\ Record(b)
    BY <1>3, <1>4, LoadIsRecord
  <2>8. a = b
    BY <2>2, <2>3, <2>4, <2>5, <2>6, <2>7 DEF Record
  <2> QED BY <1>3, <1>4, <2>8
<1>6. CASE ~({Database, Single("Header"), Single("DatabaseVersion")} \subseteq DOMAIN d)
  <2>1. Load(d, FALSE, FALSE) = Nothing
    BY <1>6 DEF Load
  <2>2. Load(e, FALSE, FALSE) = Nothing
    BY <1>2, <1>6 DEF Load
  <2> QED BY <2>1, <2>2
<1> QED BY <1>5, <1>6

-----------------------------------------------------------------------------
(* What is in the directory at any time *)

Listed(name, b) ==
  name[1] = "Avatar" /\ name[3] = "sbf" =>
    \E i \in DOMAIN b.avatars : name = Name("Avatar", AvatarKeys(b)[i], "sbf")

DirInv ==
  /\ IsFiniteSet(DOMAIN dir)
  /\ stage \in {"prepare", "clearing"} => Former(dir)
  /\ stage \in Halfway \cup {"filling", "done"} => \A name \in DOMAIN dir : Listed(name, backup)
  /\ stage \in Saving \cup {"done"} /\ FirstStage = "database" =>
       Single("Header") \notin DOMAIN dir
  /\ stage = "done" /\ full /\ Database \in DOMAIN dir => dir[Database] = <<>>

(* A step that adds no files but these two.                                     *)
Adds(a, b) == DOMAIN dir' \subseteq DOMAIN dir \cup {a, b}

(* A step from one frame to the next. *)
Goes == stage' \in Halfway \ {"crashed"} /\ backup' = backup /\ command' = command

LEMMA GrowingHolds ==
  ASSUME DirInv, HeldInv, stage \in Halfway \ {"crashed", "database"}, Goes,
         NEW a, NEW b, Adds(a, b), Listed(a, backup), Listed(b, backup)
  PROVE  DirInv'
<1>1. IsFiniteSet(DOMAIN dir')
  <2>1. IsFiniteSet(DOMAIN dir \cup {a})
    BY FS_AddElement DEF DirInv
  <2>2. IsFiniteSet((DOMAIN dir \cup {a}) \cup {b})
    BY <2>1, FS_AddElement
  <2>3. DOMAIN dir' \in SUBSET ((DOMAIN dir \cup {a}) \cup {b})
    BY DEF Adds
  <2> QED BY <2>2, <2>3, FS_Subset
<1>2. \A name \in DOMAIN dir' : Listed(name, backup)
  BY DEF DirInv, Adds
<1>3. FirstStage # "database" /\ FirstStage' = FirstStage
  <2>1. FirstStage # "database"
    BY DEF HeldInv, Halfway, Saving
  <2> QED BY <2>1, FirstStageStays DEF Goes
<1>4. stage' \notin {"prepare", "clearing", "filling", "done"} /\ backup' = backup
  BY DEF Goes, Halfway
<1> QED BY <1>1, <1>2, <1>3, <1>4 DEF DirInv

LEMMA WrittenAdds ==
  ASSUME NEW d, NEW name, NEW content, NEW blank, NEW w \in Written(d, name, content, blank)
  PROVE  DOMAIN w.dir \subseteq DOMAIN d \cup {name}
<1>1. \A c : DOMAIN With(d, name, c) = DOMAIN d \cup {name}
  BY DEF With
<1>2. w.dir = d \/ \E c : w.dir = With(d, name, c)
  BY DEF Written
<1> QED BY <1>1, <1>2

LEMMA OthersAreListed == \A kind, key, ext, b : kind # "Avatar" => Listed(Name(kind, key, ext), b)
BY NameParts DEF Listed

LEMMA AdvanceStays ==
  ASSUME NEW count, Advance(count), stage \in Halfway \ {"crashed", "database"}
  PROVE  stage' \in Halfway \ {"crashed"}
BY AfterIs DEF Advance, Halfway

LEMMA PassOverStays ==
  ASSUME NEW list, PassOver(list), stage \in Halfway \ {"crashed", "database"}
  PROVE  stage' \in Halfway \ {"crashed"} /\ dir' = dir
BY AfterIs DEF PassOver, Halfway

LEMMA SingleGrows ==
  ASSUME DirInv, HeldInv, NEW s \in Halfway \ {"crashed", "database"},
         NEW kind, kind # "Avatar", NEW text, NEW present, WriteSingle(s, kind, text, present)
  PROVE  DirInv' /\ Goes
<1>1. Goes /\ stage = s
  BY AdvanceStays DEF WriteSingle, Goes
<1>2. PICK a : a = Single(kind)
  OBVIOUS
<1>3. Listed(a, backup)
  BY <1>2, OthersAreListed DEF Single
<1>4. Adds(a, a)
  <2>1. CASE present
    <3>1. PICK w \in Written(dir, a, text, <<>>) : dir' = w.dir
      BY <1>2, <2>1 DEF WriteSingle
    <3> QED BY <3>1, WrittenAdds DEF Adds
  <2>2. CASE ~present
    BY <2>2 DEF WriteSingle, Adds
  <2> QED BY <2>1, <2>2
<1> QED BY <1>1, <1>3, <1>4, GrowingHolds

LEMMA NumberedGrows ==
  ASSUME DirInv, HeldInv, NEW s \in Halfway \ {"crashed", "database"},
         NEW kind, kind # "Avatar", NEW list, WriteNumbered(s, kind, list)
  PROVE  DirInv' /\ Goes
<1>1. stage = s /\ backup' = backup /\ command' = command
  BY DEF WriteNumbered
<1>2. PICK a : a = Name(kind, <<next>>, "sbf")
  OBVIOUS
<1>3. Listed(a, backup)
  BY <1>2, OthersAreListed
<1>4. CASE PassOver(list)
  <2>1. Goes /\ Adds(a, a)
    BY <1>1, <1>4, PassOverStays DEF Goes, Adds
  <2> QED BY <1>1, <1>3, <2>1, GrowingHolds
<1>5. CASE ~PassOver(list)
  <2>1. Goes
    BY <1>1, <1>5, AdvanceStays DEF WriteNumbered, Goes
  <2>2. PICK w \in Written(dir, a, list[next], <<>>) : dir' = w.dir
    BY <1>2, <1>5 DEF WriteNumbered
  <2>3. Adds(a, a)
    BY <2>2, WrittenAdds DEF Adds
  <2> QED BY <1>1, <1>3, <2>1, <2>3, GrowingHolds
<1> QED BY <1>4, <1>5

LEMMA MediaAdds ==
  ASSUME NEW kind, NEW key, NEW m, WriteMedia(kind, key, m)
  PROVE  Adds(Name(kind, key, "sbf"), Name(kind, key, "bin"))
<1> DEFINE sbf == Name(kind, key, "sbf")
           bin == Name(kind, key, "bin")
<1>1. PICK w \in Written(dir, sbf, <<MediaFrame(m)>>, <<>>) :
        \E d \in IF w.ok THEN DataWritten(kind, m, w.dir, bin) ELSE {w} : dir' = d.dir
  BY DEF WriteMedia
<1>2. DOMAIN w.dir \subseteq DOMAIN dir \cup {sbf}
  BY <1>1, WrittenAdds
<1>3. PICK d \in IF w.ok THEN DataWritten(kind, m, w.dir, bin) ELSE {w} : dir' = d.dir
  BY <1>1
<1>4. CASE ~w.ok
  BY <1>2, <1>3, <1>4 DEF Adds
<1>5. CASE w.ok
  <2>1. d \in DataWritten(kind, m, w.dir, bin)
    BY <1>3, <1>5
  <2>2. \E c : \E e \in Written(w.dir, bin, c, "") : d.dir = e.dir
    <3>1. CASE d \in Written(w.dir, bin, m.data, "")
      BY <3>1
    <3>2. CASE d \in Failed(Written(w.dir, bin, "", ""))
      <4>1. PICK e \in Written(w.dir, bin, "", "") : d = [e EXCEPT !.ok = FALSE]
        BY <3>2 DEF Failed
      <4>2. \E x, y : e = [dir |-> x, ok |-> y]
        BY <4>1 DEF Written
      <4>3. d.dir = e.dir
        BY <4>1, <4>2
      <4> QED BY <4>1, <4>3
    <3> QED BY <2>1, <3>1, <3>2 DEF DataWritten
  <2>3. PICK c : \E e \in Written(w.dir, bin, c, "") : d.dir = e.dir
    BY <2>2
  <2>4. DOMAIN d.dir \subseteq DOMAIN w.dir \cup {bin}
    BY <2>3, WrittenAdds
  <2> QED BY <1>2, <1>3, <2>4 DEF Adds
<1> QED BY <1>4, <1>5

LEMMA MediaGrow ==
  ASSUME DirInv, HeldInv, NEW s \in Halfway \ {"crashed", "database"},
         NEW kind, NEW keys, NEW list,
         kind = "Avatar" => keys = AvatarKeys(backup) /\ list = backup.avatars,
         WriteMediaFrames(s, kind, keys, list)
  PROVE  DirInv' /\ Goes
<1>1. stage = s /\ backup' = backup /\ command' = command
  BY DEF WriteMediaFrames
<1>2. CASE PassOver(list)
  <2>1. PICK a : a = Name("Header", <<>>, "sbf")
    OBVIOUS
  <2>2. Listed(a, backup)
    BY <2>1, OthersAreListed
  <2>3. Goes /\ Adds(a, a)
    BY <1>1, <1>2, PassOverStays DEF Goes, Adds
  <2> QED BY <1>1, <2>2, <2>3, GrowingHolds
<1>3. CASE ~PassOver(list)
  <2>1. Goes
    BY <1>1, <1>3, AdvanceStays DEF WriteMediaFrames, Goes
  <2>2. PICK a : a = Name(kind, keys[next], "sbf")
    OBVIOUS
  <2>3. PICK b : b = Name(kind, keys[next], "bin")
    OBVIOUS
  <2>4. Adds(a, b)
    BY <1>3, <2>2, <2>3, MediaAdds DEF WriteMediaFrames
  <2>5. Listed(b, backup)
    BY <2>3, NameParts DEF Listed
  <2>6. Listed(a, backup)
    <3>1. CASE kind = "Avatar"
      <4>1. next \in DOMAIN list
        BY <1>3 DEF WriteMediaFrames
      <4> QED BY <2>2, <3>1, <4>1 DEF Listed
    <3>2. CASE kind # "Avatar"
      BY <2>2, <3>2, OthersAreListed
    <3> QED BY <3>1, <3>2
  <2> QED BY <1>1, <2>1, <2>4, <2>5, <2>6, GrowingHolds
<1> QED BY <1>2, <1>3

(* The frames of which an export consists. *)
WriteFrame ==
  \/ WriteHeader \/ WriteVersion \/ WriteAttachment \/ WriteAvatar \/ WriteSharedPrefs
  \/ WriteKeyValues \/ WriteSticker \/ WriteEnd

LEMMA FrameGrows ==
  ASSUME DirInv, HeldInv, WriteFrame
  PROVE  DirInv' /\ Goes
<1>1. CASE WriteHeader
  <2>1. PICK present : present = TRUE
    OBVIOUS
  <2>2. WriteSingle("header", "Header", <<"header">>, present)
    BY <1>1, <2>1 DEF WriteHeader
  <2>3. "header" \in Halfway \ {"crashed", "database"}
    BY DEF Halfway
  <2> QED BY <2>2, <2>3, SingleGrows
<1>2. CASE WriteVersion
  <2>1. "version" \in Halfway \ {"crashed", "database"}
    BY DEF Halfway
  <2> QED BY <1>2, <2>1, SingleGrows DEF WriteVersion
<1>3. CASE WriteEnd
  <2>1. PICK present : present = TRUE
    OBVIOUS
  <2>2. WriteSingle("end", "End", <<"END">>, present)
    BY <1>3, <2>1 DEF WriteEnd
  <2>3. "end" \in Halfway \ {"crashed", "database"}
    BY DEF Halfway
  <2> QED BY <2>2, <2>3, SingleGrows
<1>4. CASE WriteSharedPrefs
  <2>1. "sharedprefs" \in Halfway \ {"crashed", "database"}
    BY DEF Halfway
  <2> QED BY <1>4, <2>1, NumberedGrows DEF WriteSharedPrefs
<1>5. CASE WriteKeyValues
  <2>1. "keyvalues" \in Halfway \ {"crashed", "database"}
    BY DEF Halfway
  <2> QED BY <1>5, <2>1, NumberedGrows DEF WriteKeyValues
<1>6. CASE WriteAttachment
  <2>1. "attachments" \in Halfway \ {"crashed", "database"}
    BY DEF Halfway
  <2> QED BY <1>6, <2>1, MediaGrow DEF WriteAttachment
<1>7. CASE WriteAvatar
  <2>1. "avatars" \in Halfway \ {"crashed", "database"}
    BY DEF Halfway
  <2> QED BY <1>7, <2>1, MediaGrow DEF WriteAvatar
<1>8. CASE WriteSticker
  <2>1. "stickers" \in Halfway \ {"crashed", "database"}
    BY DEF Halfway
  <2> QED BY <1>8, <2>1, MediaGrow DEF WriteSticker
<1> QED BY <1>1, <1>2, <1>3, <1>4, <1>5, <1>6, <1>7, <1>8 DEF WriteFrame

LEMMA ClearingHolds ==
  ASSUME DirInv, Prepare \/ Clear
  PROVE  DirInv'
<1>1. /\ stage \in {"prepare", "clearing"} /\ stage' \in {"clearing", "refused", FirstStage}
      /\ stage' \notin {"clearing", "refused"} => dir' = <<>>
      /\ UNCHANGED <<backup, command, next, exportok, full>>
  BY FirstStageIs DEF Prepare, Clear
<1>2. FirstStage' = FirstStage /\ FirstStage \in {"header", "database"}
  BY <1>1, FirstStageStays, FirstStageIs
<1>3. Within(dir', dir)
  <2>1. CASE Prepare
    BY <2>1 DEF Prepare, Within, DirInv
  <2>2. CASE Clear
    <3>1. PICK name \in DOMAIN dir : dir' = [n \in DOMAIN dir \ {name} |-> dir[n]]
      BY <2>2 DEF Clear
    <3> QED BY <3>1 DEF Within, DirInv
  <2> QED BY <2>1, <2>2
<1>4. Former(dir') /\ IsFiniteSet(DOMAIN dir')
  BY <1>1, <1>3, FormerWithin, FiniteWithin DEF DirInv
<1>5. dir' = <<>> => DOMAIN dir' = {}
  OBVIOUS
<1> QED BY <1>1, <1>2, <1>4, <1>5 DEF DirInv, Halfway, Saving

LEMMA DatabaseStays ==
  ASSUME DirInv, IInv, OpenDatabase \/ FillDatabase
  PROVE  DirInv'
<1>1. /\ stage \in Saving /\ stage' \in {"filling", "done"}
      /\ stage' = "done" => stage = "filling"
      /\ UNCHANGED <<backup, command, full>>
  BY AfterIs DEF OpenDatabase, FillDatabase, Saving
<1>2. FirstStage' = FirstStage
  BY <1>1, FirstStageStays
<1>3. DOMAIN dir' \subseteq DOMAIN dir \cup {Database}
  <2>1. dir' = dir \/ \E c : dir' = With(dir, Database, c)
    BY DEF OpenDatabase, FillDatabase
  <2> QED BY <2>1 DEF With
<1>4. IsFiniteSet(DOMAIN dir')
  <2>1. IsFiniteSet(DOMAIN dir \cup {Database})
    BY FS_AddElement DEF DirInv
  <2> QED BY <1>3, <2>1, FS_Subset
<1>5. Listed(Database, backup) /\ Database # Single("Header")
  BY OthersAreListed, NameParts DEF Database, Single
<1>6. \A name \in DOMAIN dir' : Listed(name, backup)
  BY <1>1, <1>3, <1>5 DEF DirInv, Halfway, Saving
<1>7. FirstStage = "database" => Single("Header") \notin DOMAIN dir'
  BY <1>1, <1>3, <1>5 DEF DirInv
<1>8. stage' = "done" /\ full /\ Database \in DOMAIN dir' => dir'[Database] = <<>>
  <2> SUFFICES ASSUME stage' = "done", full, Database \in DOMAIN dir'
               PROVE  dir'[Database] = <<>>
    OBVIOUS
  <2>1. stage = "filling"
    BY <1>1
  <2>2. dir' = dir
    BY <2>1 DEF OpenDatabase, FillDatabase
  <2> QED BY <2>1, <2>2 DEF IInv
<1>9. stage' \notin {"prepare", "clearing"} /\ backup' = backup /\ full' = full
  BY <1>1
<1> QED BY <1>2, <1>4, <1>6, <1>7, <1>8, <1>9 DEF DirInv

LEMMA AddNewStays ==
  ASSUME DirInv, AddNew
  PROVE  DirInv' /\ Beside(dir, dir')
<1>1. stage = "done" /\ UNCHANGED <<backup, command, stage, next, exportok, full>>
  BY DEF AddNew
<1>2. FirstStage' = FirstStage
  BY <1>1, FirstStageStays
<1>3. PICK name : name[3] = "new" /\ name \notin DOMAIN dir /\ \E c : dir' = With(dir, name, c)
  <2>1. \A n : New(n)[3] = "new"
    BY NameParts DEF New
  <2> QED BY <2>1 DEF AddNew
<1>4. PICK c : dir' = With(dir, name, c)
  BY <1>3
<1>5. IsWith(dir', dir, name, c)
  BY <1>4, WithIs
<1>6. IsFiniteSet(DOMAIN dir')
  BY <1>5, FS_AddElement DEF DirInv, IsWith
<1>7. Listed(name, backup)
  BY <1>3 DEF Listed
<1>8. name # Database /\ name # Single("Header")
  BY <1>3, NameParts DEF Database, Single
<1>9. Beside(dir, dir')
  BY <1>3, <1>5, <1>6 DEF Beside, IsWith, DirInv
<1>10. \A n \in DOMAIN dir' : Listed(n, backup)
  BY <1>1, <1>5, <1>7 DEF DirInv, IsWith
<1>11. FirstStage = "database" => Single("Header") \notin DOMAIN dir'
  BY <1>1, <1>5, <1>8 DEF DirInv, IsWith
<1>12. full /\ Database \in DOMAIN dir' => dir'[Database] = <<>>
  BY <1>1, <1>5, <1>8 DEF DirInv, IsWith
<1>13. DirInv'
  BY <1>1, <1>2, <1>6, <1>10, <1>11, <1>12 DEF DirInv
<1> QED BY <1>9, <1>13

LEMMA DirInvInductive == DirInv /\ IInv /\ HeldInv /\ [Next]_vars => DirInv'
<1> SUFFICES ASSUME DirInv, IInv, HeldInv, [Next]_vars PROVE DirInv'
  OBVIOUS
<1>1. CASE Prepare \/ Clear
  BY <1>1, ClearingHolds
<1>2. CASE RefuseDirectory \/ ClearFails
  BY <1>2 DEF RefuseDirectory, ClearFails, DirInv, Halfway, Saving
<1>3. CASE WriteFrame
  BY <1>3, FrameGrows
<1>4. CASE OpenDatabase \/ FillDatabase
  BY <1>4, DatabaseStays
<1>5. CASE Crash
  <2>1. stage' = "crashed" /\ stage \in {"avatars", "stickers"} /\ UNCHANGED <<dir, backup, command>>
    BY <1>5 DEF Crash, CrashOnNull
  <2> QED BY <2>1 DEF DirInv, Halfway, Saving
<1>6. CASE DiskFills
  <2>1. stage # "done" /\ UNCHANGED <<dir, backup, command, stage>>
    BY <1>6 DEF DiskFills, Exporting, Final
  <2>2. FirstStage' = FirstStage
    BY <2>1, FirstStageStays
  <2> QED BY <2>1, <2>2 DEF DirInv
<1>7. CASE AddNew
  BY <1>7, AddNewStays
<1>8. CASE UNCHANGED vars
  BY <1>8 DEF vars, DirInv, FirstStage, onlydb
<1> QED BY <1>1, <1>2, <1>3, <1>4, <1>5, <1>6, <1>7, <1>8 DEF Next, WriteFrame

-----------------------------------------------------------------------------
(* The directory an export begins with *)

NamesWith(kind, keys, I, ext) == {Name(kind, keys[i], ext) : i \in I}

LEMMA FiniteNames ==
  ASSUME NEW n \in Nat, NEW kind, NEW keys, NEW ext
  PROVE  IsFiniteSet(NamesWith(kind, keys, 1 .. n, ext))
<1> DEFINE T == NamesWith(kind, keys, 1 .. n, ext)
           f == [i \in 1 .. n |-> Name(kind, keys[i], ext)]
<1>1. f \in Surjection(1 .. n, T)
  BY DEF Surjection, NamesWith
<1>2. IsFiniteSet(1 .. n)
  BY FS_Interval
<1> HIDE DEF f, T
<1>3. IsFiniteSet(T)
  BY <1>1, <1>2, FS_Surjection
<1> QED BY <1>3 DEF T

(* The files of a list of attachments, avatars or stickers. *)
LEMMA MediaFilesAre ==
  ASSUME NEW kind, NEW keys, NEW list, NEW f \in MediaFiles(kind, keys, list)
  PROVE  \E i \in DOMAIN list :
           \/ f = File(Name(kind, keys[i], "sbf"), <<MediaFrame(list[i])>>)
           \/ f = File(Name(kind, keys[i], "bin"), list[i].data)
BY DEF MediaFiles

LEMMA NumberedFilesAre ==
  ASSUME NEW kind, NEW list, NEW f \in NumberedFiles(kind, list)
  PROVE  \E i \in DOMAIN list : f = File(Name(kind, <<i>>, "sbf"), list[i])
BY DEF NumberedFiles

LEMMA FileIs ==
  \A name, content : File(name, content).name = name /\ File(name, content).content = content
BY DEF File

(* Every file of a backup is one of these.                                       *)
LEMMA FilesAre ==
  ASSUME NEW b, NEW f \in Files(b)
  PROVE  \/ f.name \in {Single("Header"), Single("DatabaseVersion"), Single("End"), Database}
         \/ \E t \in MediaStages : f \in MediaFiles(KindOf(t), KeysOf(b, t), MediaList(b, t))
         \/ \E t \in NumberStages : f \in NumberedFiles(KindOf(t), NumberList(b, t))
<1>1. CASE f \in {File(Single("Header"), <<"header">>), File(Single("DatabaseVersion"), <<"version">>),
                  File(Single("End"), <<"END">>), File(Database, b.rows)}
  BY <1>1, FileIs
<1>2. CASE f \in MediaFiles("Attachment", AttachmentKeys(b), b.attachments)
  <2>1. /\ "attachments" \in MediaStages /\ KindOf("attachments") = "Attachment"
        /\ MediaList(b, "attachments") = b.attachments
        /\ KeysOf(b, "attachments") = AttachmentKeys(b)
    BY DEF MediaStages, KindOf, MediaList, KeysOf
  <2> QED BY <1>2, <2>1
<1>3. CASE f \in MediaFiles("Avatar", AvatarKeys(b), b.avatars)
  <2>1. /\ "avatars" \in MediaStages /\ KindOf("avatars") = "Avatar"
        /\ MediaList(b, "avatars") = b.avatars
        /\ KeysOf(b, "avatars") = AvatarKeys(b)
    BY DEF MediaStages, KindOf, MediaList, KeysOf
  <2> QED BY <1>3, <2>1
<1>4. CASE f \in MediaFiles("Sticker", StickerKeys(b), b.stickers)
  <2>1. /\ "stickers" \in MediaStages /\ KindOf("stickers") = "Sticker"
        /\ MediaList(b, "stickers") = b.stickers
        /\ KeysOf(b, "stickers") = StickerKeys(b)
    BY DEF MediaStages, KindOf, MediaList, KeysOf
  <2> QED BY <1>4, <2>1
<1>5. CASE f \in NumberedFiles("SharedPreference", b.sharedprefs)
  <2>1. /\ "sharedprefs" \in NumberStages /\ KindOf("sharedprefs") = "SharedPreference"
        /\ NumberList(b, "sharedprefs") = b.sharedprefs
    BY DEF NumberStages, KindOf, NumberList
  <2> QED BY <1>5, <2>1
<1>6. CASE f \in NumberedFiles("KeyValue", b.keyvalues)
  <2>1. /\ "keyvalues" \in NumberStages /\ KindOf("keyvalues") = "KeyValue"
        /\ NumberList(b, "keyvalues") = b.keyvalues
    BY DEF NumberStages, KindOf, NumberList
  <2> QED BY <1>6, <2>1
<1> QED BY <1>1, <1>2, <1>3, <1>4, <1>5, <1>6 DEF Files

LEMMA UnpackedIsFinite ==
  ASSUME NEW b, IsBackup(b)
  PROVE  IsFiniteSet(DOMAIN Unpacked(b))
<1> DEFINE M(t, ext) == NamesWith(KindOf(t), KeysOf(b, t), 1 .. Len(MediaList(b, t)), ext)
           one == [i \in Nat |-> <<i>>]
           N(t) == NamesWith(KindOf(t), one, 1 .. Len(NumberList(b, t)), "sbf")
           S == {Single("Header"), Single("DatabaseVersion"), Single("End"), Database}
<1>1. \A t \in MediaStages : /\ DOMAIN MediaList(b, t) = 1 .. Len(MediaList(b, t))
                             /\ Len(MediaList(b, t)) \in Nat
  BY KeysAreDistinct
<1>2. \A t \in NumberStages : /\ DOMAIN NumberList(b, t) = 1 .. Len(NumberList(b, t))
                              /\ Len(NumberList(b, t)) \in Nat
  BY DEF NumberList, IsBackup
<1>3. \A t \in MediaStages, ext \in {"sbf", "bin"} : IsFiniteSet(M(t, ext))
  BY <1>1, FiniteNames
<1>4. \A t \in NumberStages : IsFiniteSet(N(t))
  BY <1>2, FiniteNames
<1>5. IsFiniteSet(S)
  <2>1. S = ((({} \cup {Single("Header")}) \cup {Single("DatabaseVersion")}) \cup {Single("End")})
              \cup {Database}
    OBVIOUS
  <2> HIDE DEF S
  <2>2. IsFiniteSet({})
    BY FS_EmptySet
  <2>3. IsFiniteSet({} \cup {Single("Header")})
    BY <2>2, FS_AddElement
  <2>4. IsFiniteSet(({} \cup {Single("Header")}) \cup {Single("DatabaseVersion")})
    BY <2>3, FS_AddElement
  <2>5. IsFiniteSet((({} \cup {Single("Header")}) \cup {Single("DatabaseVersion")})
                      \cup {Single("End")})
    BY <2>4, FS_AddElement
  <2> QED BY <2>1, <2>5, FS_AddElement
<1>6. ASSUME NEW f \in Files(b)
      PROVE  \/ f.name \in S
             \/ \E t \in MediaStages, ext \in {"sbf", "bin"} : f.name \in M(t, ext)
             \/ \E t \in NumberStages : f.name \in N(t)
  <2>1. CASE f.name \in S
    BY <2>1
  <2>2. ASSUME NEW t \in MediaStages, f \in MediaFiles(KindOf(t), KeysOf(b, t), MediaList(b, t))
        PROVE  \E ext \in {"sbf", "bin"} : f.name \in M(t, ext)
    <3>1. PICK i \in DOMAIN MediaList(b, t) :
            \/ f = File(Name(KindOf(t), KeysOf(b, t)[i], "sbf"), <<MediaFrame(MediaList(b, t)[i])>>)
            \/ f = File(Name(KindOf(t), KeysOf(b, t)[i], "bin"), MediaList(b, t)[i].data)
      BY <2>2, MediaFilesAre
    <3>2. PICK ext \in {"sbf", "bin"} : f.name = Name(KindOf(t), KeysOf(b, t)[i], ext)
      BY <3>1, FileIs
    <3>3. f.name \in M(t, ext)
      BY <1>1, <3>2 DEF NamesWith
    <3> QED BY <3>3
  <2>3. ASSUME NEW t \in NumberStages, f \in NumberedFiles(KindOf(t), NumberList(b, t))
        PROVE  f.name \in N(t)
    <3>1. PICK i \in DOMAIN NumberList(b, t) :
            f = File(Name(KindOf(t), <<i>>, "sbf"), NumberList(b, t)[i])
      BY <2>3, NumberedFilesAre
    <3>2. i \in 1 .. Len(NumberList(b, t)) /\ i \in Nat
      BY <1>2
    <3>3. one[i] = <<i>>
      BY <3>2
    <3> QED BY <3>1, <3>2, <3>3, FileIs DEF NamesWith
  <2> HIDE DEF S, M, N
  <2>4. CASE \E t \in MediaStages : f \in MediaFiles(KindOf(t), KeysOf(b, t), MediaList(b, t))
    BY <2>2, <2>4
  <2>5. CASE \E t \in NumberStages : f \in NumberedFiles(KindOf(t), NumberList(b, t))
    BY <2>3, <2>5
  <2> QED BY <2>1, <2>4, <2>5, FilesAre DEF S
<1> HIDE DEF S, M, N
<1> DEFINE A == M("attachments", "sbf") \cup M("attachments", "bin")
           V == M("avatars", "sbf") \cup M("avatars", "bin")
           K == M("stickers", "sbf") \cup M("stickers", "bin")
           P == N("sharedprefs") \cup N("keyvalues")
<1>7. IsFiniteSet(A) /\ IsFiniteSet(V) /\ IsFiniteSet(K) /\ IsFiniteSet(P)
  BY <1>3, <1>4, FS_Union DEF MediaStages, NumberStages
<1>8. \A f \in Files(b) : f.name \in (S \cup A) \cup (V \cup (K \cup P))
  BY <1>6 DEF MediaStages, NumberStages
<1> HIDE DEF A, V, K, P
<1>9. IsFiniteSet((S \cup A) \cup (V \cup (K \cup P)))
  <2>1. IsFiniteSet(S \cup A) /\ IsFiniteSet(K \cup P)
    BY <1>5, <1>7, FS_Union
  <2>2. IsFiniteSet(V \cup (K \cup P))
    BY <1>7, <2>1, FS_Union
  <2> QED BY <2>1, <2>2, FS_Union
<1>10. DOMAIN Unpacked(b) \in SUBSET ((S \cup A) \cup (V \cup (K \cup P)))
  <2>1. DOMAIN Unpacked(b) = {f.name : f \in Files(b)}
    BY DEF Unpacked
  <2> QED BY <1>8, <2>1
<1> QED BY <1>9, <1>10, FS_Subset

(* The frames of a kind are those of its list.                                  *)
HasFrames(u, kind, keys, list) ==
  /\ Frames(u, kind) = NamesOf(kind, keys, 1 .. Len(list))
  /\ \A i \in 1 .. Len(list) : u[Name(kind, keys[i], "sbf")] = <<MediaFrame(list[i])>>

LEMMA UnpackedFrames ==
  ASSUME NEW b, IsBackup(b), NEW t \in MediaStages, NEW kind, kind = KindOf(t),
         NEW keys, keys = KeysOf(b, t), NEW list, list = MediaList(b, t), NEW u, u = Unpacked(b)
  PROVE  HasFrames(u, kind, keys, list)
<1>1. /\ DOMAIN u = {f.name : f \in Files(b)}
      /\ \A n \in DOMAIN u : u[n] = (CHOOSE f \in Files(b) : f.name = n).content
  BY DEF Unpacked
<1>2. /\ Len(list) \in Nat /\ DOMAIN list = 1 .. Len(list)
      /\ DOMAIN keys = 1 .. Len(list) /\ Distinct(keys)
  BY KeysAreDistinct
<1>3. ASSUME NEW f \in Files(b), f.name[1] = kind, f.name[3] = "sbf"
      PROVE  \E i \in 1 .. Len(list) : f = File(Name(kind, keys[i], "sbf"), <<MediaFrame(list[i])>>)
  <2>1. f.name \notin {Single("Header"), Single("DatabaseVersion"), Single("End"), Database}
    <3>1. kind \notin {"Header", "DatabaseVersion", "End", "database"}
      BY KindsDiffer DEF ListStages
    <3>2. /\ Single("Header")[1] = "Header" /\ Single("DatabaseVersion")[1] = "DatabaseVersion"
          /\ Single("End")[1] = "End" /\ Database[1] = "database"
      BY NameParts DEF Single, Database
    <3> QED BY <1>3, <3>1, <3>2
  <2>2. ASSUME NEW s \in NumberStages, f \in NumberedFiles(KindOf(s), NumberList(b, s)) PROVE FALSE
    <3>1. f.name[1] = KindOf(s)
      <4>1. PICK i : f = File(Name(KindOf(s), <<i>>, "sbf"), NumberList(b, s)[i])
        BY <2>2, NumberedFilesAre
      <4> QED BY <4>1, FileIs, NameParts
    <3>2. s \in ListStages /\ t \in ListStages /\ s # t
      BY DEF ListStages, MediaStages, NumberStages
    <3> QED BY <1>3, <3>1, <3>2, KindsDiffer
  <2>3. PICK s \in MediaStages : f \in MediaFiles(KindOf(s), KeysOf(b, s), MediaList(b, s))
    BY <2>1, <2>2, FilesAre
  <2>4. PICK i \in DOMAIN MediaList(b, s) :
          \/ f = File(Name(KindOf(s), KeysOf(b, s)[i], "sbf"), <<MediaFrame(MediaList(b, s)[i])>>)
          \/ f = File(Name(KindOf(s), KeysOf(b, s)[i], "bin"), MediaList(b, s)[i].data)
    BY <2>3, MediaFilesAre
  <2>5. f.name[1] = KindOf(s)
    BY <2>4, FileIs, NameParts
  <2>6. s = t
    BY <1>3, <2>5, KindsDiffer DEF ListStages
  <2>7. f = File(Name(kind, keys[i], "sbf"), <<MediaFrame(list[i])>>)
    <3>1. CASE f = File(Name(KindOf(s), KeysOf(b, s)[i], "bin"), MediaList(b, s)[i].data)
      <4>1. f.name[3] = "bin"
        BY <3>1, FileIs, NameParts
      <4> QED BY <1>3, <4>1
    <3> QED BY <2>4, <2>6, <3>1
  <2> QED BY <1>2, <2>4, <2>6, <2>7
<1>4. ASSUME NEW i \in 1 .. Len(list)
      PROVE  File(Name(kind, keys[i], "sbf"), <<MediaFrame(list[i])>>) \in Files(b)
  <2>1. File(Name(kind, keys[i], "sbf"), <<MediaFrame(list[i])>>) \in MediaFiles(kind, keys, list)
    BY <1>2 DEF MediaFiles
  <2>2. MediaFiles(kind, keys, list) \subseteq Files(b)
    <3>1. CASE t = "attachments"
      BY <3>1 DEF Files, KindOf, KeysOf, MediaList
    <3>2. CASE t = "avatars"
      BY <3>2 DEF Files, KindOf, KeysOf, MediaList
    <3>3. CASE t = "stickers"
      BY <3>3 DEF Files, KindOf, KeysOf, MediaList
    <3> QED BY <3>1, <3>2, <3>3 DEF MediaStages
  <2> QED BY <2>1, <2>2
<1>5. ASSUME NEW i \in 1 .. Len(list)
      PROVE  /\ Name(kind, keys[i], "sbf") \in Frames(u, kind)
             /\ u[Name(kind, keys[i], "sbf")] = <<MediaFrame(list[i])>>
  <2>1. PICK name : name = Name(kind, keys[i], "sbf")
    OBVIOUS
  <2>2. PICK g \in Files(b) : g = File(name, <<MediaFrame(list[i])>>)
    BY <1>4, <2>1
  <2>3. g.name = name /\ name[1] = kind /\ name[3] = "sbf"
    BY <2>1, <2>2, FileIs, NameParts
  <2>4. name \in DOMAIN u
    BY <1>1, <2>3
  <2>5. ASSUME NEW f \in Files(b), f.name = name PROVE f.content = <<MediaFrame(list[i])>>
    <3>1. PICK j \in 1 .. Len(list) : f = File(Name(kind, keys[j], "sbf"), <<MediaFrame(list[j])>>)
      BY <1>3, <2>3, <2>5
    <3>2. Name(kind, keys[j], "sbf") = Name(kind, keys[i], "sbf")
      BY <2>1, <2>5, <3>1, FileIs
    <3>3. keys[j] = keys[i]
      BY <3>2, NameParts
    <3>4. i = j
      BY <1>2, <3>3 DEF Distinct
    <3> QED BY <3>1, <3>4, FileIs
  <2>6. u[name] = <<MediaFrame(list[i])>>
    <3>1. \E f \in Files(b) : f.name = name
      BY <2>3
    <3> QED BY <1>1, <2>4, <2>5, <3>1
  <2> QED BY <2>1, <2>3, <2>4, <2>6 DEF Frames
<1>6. ASSUME NEW x \in Frames(u, kind) PROVE \E i \in 1 .. Len(list) : x = Name(kind, keys[i], "sbf")
  <2>1. PICK f \in Files(b) : f.name = x
    BY <1>1 DEF Frames
  <2>2. x[1] = kind /\ x[3] = "sbf"
    BY DEF Frames
  <2>3. PICK i \in 1 .. Len(list) : f = File(Name(kind, keys[i], "sbf"), <<MediaFrame(list[i])>>)
    BY <1>3, <2>1, <2>2
  <2> QED BY <2>1, <2>3, FileIs
<1> QED BY <1>5, <1>6 DEF NamesOf, HasFrames

LEMMA UnpackedApart ==
  ASSUME NEW b, IsBackup(b), NEW t \in {"attachments", "stickers"}
  PROVE  Apart(Unpacked(b), KindOf(t))
<1>1. PICK u : u = Unpacked(b)
  OBVIOUS
<1>2. PICK kind : kind = KindOf(t)
  OBVIOUS
<1>3. PICK keys : keys = KeysOf(b, t)
  OBVIOUS
<1>4. PICK list : list = MediaList(b, t)
  OBVIOUS
<1>5. t \in MediaStages
  BY DEF MediaStages
<1>6. /\ Frames(u, kind) = NamesOf(kind, keys, 1 .. Len(list))
      /\ \A i \in 1 .. Len(list) : u[Name(kind, keys[i], "sbf")] = <<MediaFrame(list[i])>>
  <2>1. HasFrames(u, kind, keys, list)
    BY <1>1, <1>2, <1>3, <1>4, <1>5, UnpackedFrames
  <2> QED BY <2>1 DEF HasFrames
<1>7. DOMAIN list = 1 .. Len(list)
  BY <1>4, <1>5, KeysAreDistinct
<1>8. \A x \in Frames(u, kind) : \E i \in 1 .. Len(list) :
        x = Name(kind, keys[i], "sbf") /\ FrameIn(u, x) = MediaFrame(list[i])
  <2> TAKE x \in Frames(u, kind)
  <2>1. PICK i \in 1 .. Len(list) : x = Name(kind, keys[i], "sbf")
    BY <1>6 DEF NamesOf
  <2>2. u[x] = <<MediaFrame(list[i])>>
    BY <1>6, <2>1
  <2>3. \A y : <<y>> # <<>> /\ <<y>>[1] = y
    OBVIOUS
  <2> QED BY <2>1, <2>2, <2>3 DEF FrameIn
<1>9. ASSUME NEW x \in Frames(u, kind), NEW y \in Frames(u, kind),
             FrameIn(u, x).id = FrameIn(u, y).id, FrameIn(u, x).uniqueid = FrameIn(u, y).uniqueid
      PROVE  x = y
  <2>1. PICK i \in 1 .. Len(list) :
          x = Name(kind, keys[i], "sbf") /\ FrameIn(u, x) = MediaFrame(list[i])
    BY <1>8
  <2>2. PICK j \in 1 .. Len(list) :
          y = Name(kind, keys[j], "sbf") /\ FrameIn(u, y) = MediaFrame(list[j])
    BY <1>8
  <2>3. list[i].id = list[j].id /\ list[i].uniqueid = list[j].uniqueid
    BY <1>9, <2>1, <2>2 DEF MediaFrame
  <2>4. i = j
    BY <1>4, <1>7, <2>3, IdsDiffer
  <2> QED BY <2>1, <2>2, <2>4
<1>10. Apart(u, kind)
  BY <1>9 DEF Apart
<1> QED BY <1>1, <1>2, <1>10

LEMMA UnpackedIsFormer ==
  ASSUME NEW b, IsBackup(b)
  PROVE  Former(Unpacked(b))
<1>1. /\ KindOf("attachments") = "Attachment" /\ KindOf("stickers") = "Sticker"
      /\ KindOf("avatars") = "Avatar"
  BY DEF KindOf
<1>2. Apart(Unpacked(b), "Attachment") /\ Apart(Unpacked(b), "Sticker")
  BY <1>1, UnpackedApart
<1>3. OfOneList(Unpacked(b))
  <2>1. PICK n : n = Len(b.avatars)
    OBVIOUS
  <2>2. PICK keys : keys = AvatarKeys(b)
    OBVIOUS
  <2>3. n \in Nat /\ InOrder(keys, n)
    BY <2>1, <2>2, AvatarKeysAre DEF InOrder
  <2>4. /\ "avatars" \in MediaStages /\ keys = KeysOf(b, "avatars")
        /\ MediaList(b, "avatars") = b.avatars
    BY <2>2 DEF MediaStages, KeysOf, MediaList
  <2>5. Frames(Unpacked(b), "Avatar") = NamesOf("Avatar", keys, 1 .. n)
    BY <1>1, <2>1, <2>4, UnpackedFrames DEF HasFrames
  <2>6. PICK I \in SUBSET (1 .. n) : I = 1 .. n
    OBVIOUS
  <2> QED BY <2>3, <2>5, <2>6 DEF OfOneList
<1> QED BY <1>2, <1>3 DEF Former

LEMMA NothingIsFormer == Former(<<>>)
<1>1. PICK d : d = <<>>
  OBVIOUS
<1>2. \A kind : Frames(d, kind) = {}
  BY <1>1 DEF Frames
<1>3. Apart(d, "Attachment") /\ Apart(d, "Sticker")
  BY <1>2 DEF Apart
<1>4. \A keys : InOrder(keys, 0) /\ NamesOf("Avatar", keys, {}) = {}
  BY DEF InOrder, NamesOf
<1>5. OfOneList(d)
  <2>1. 0 \in Nat /\ {} \in SUBSET (1 .. 0)
    OBVIOUS
  <2> QED BY <1>2, <1>4, <2>1 DEF OfOneList
<1> QED BY <1>1, <1>3, <1>5 DEF Former

LEMMA FormerBesideInput ==
  ASSUME NEW d, Former(d), IsFiniteSet(DOMAIN d), NEW e,
         DOMAIN e \subseteq DOMAIN d \cup {Input}, DOMAIN d \subseteq DOMAIN e,
         \A n \in DOMAIN d : n # Input => e[n] = d[n]
  PROVE  Former(e) /\ IsFiniteSet(DOMAIN e)
<1>1. Input[3] # "sbf"
  BY NameParts DEF Input
<1>2. \A kind : /\ Frames(e, kind) = Frames(d, kind)
                /\ \A x \in Frames(d, kind) : FrameIn(e, x) = FrameIn(d, x)
  BY <1>1 DEF Frames, FrameIn
<1>3. IsFiniteSet(DOMAIN e)
  <2>1. IsFiniteSet(DOMAIN d \cup {Input})
    BY FS_AddElement
  <2> QED BY <2>1, FS_Subset
<1>4. Apart(e, "Attachment") /\ Apart(e, "Sticker")
  BY <1>2 DEF Former, Apart
<1>5. OfOneList(e)
  BY <1>2 DEF Former, OfOneList
<1> QED BY <1>3, <1>4, <1>5 DEF Former

LEMMA DirInit == Init => DirInv
<1> SUFFICES ASSUME Init PROVE DirInv
  OBVIOUS
<1>1. stage = "prepare"
  BY DEF Init
<1>2. PICK earlier : /\ earlier \in {<<>>} \cup {Unpacked(b) : b \in OldBackups}
                     /\ dir = IF inputinside THEN With(earlier, Input, <<>>) ELSE earlier
  BY DEF Init
<1>3. Former(earlier) /\ IsFiniteSet(DOMAIN earlier)
  <2>1. CASE earlier = <<>>
    BY <2>1, NothingIsFormer, FS_EmptySet
  <2>2. CASE earlier # <<>>
    <3>1. PICK b \in OldBackups : earlier = Unpacked(b)
      BY <1>2, <2>2
    <3>2. IsBackup(b)
      BY BackupsAssumption
    <3> QED BY <3>1, <3>2, UnpackedIsFormer, UnpackedIsFinite
  <2> QED BY <2>1, <2>2
<1>4. DOMAIN dir \subseteq DOMAIN earlier \cup {Input} /\ DOMAIN earlier \subseteq DOMAIN dir
  BY <1>2 DEF With
<1>5. \A n \in DOMAIN earlier : n # Input => dir[n] = earlier[n]
  BY <1>2 DEF With
<1>6. Former(dir) /\ IsFiniteSet(DOMAIN dir)
  BY <1>3, <1>4, <1>5, FormerBesideInput
<1> QED BY <1>1, <1>6 DEF DirInv, Halfway, Saving

-----------------------------------------------------------------------------
LEMMA AlwaysDir == Spec => []DirInv
<1>1. Spec => [](HeldInv /\ IInv /\ DirInv)
  <2>1. Init => IInv
    BY DEF Init, IInv, Halfway
  <2> QED BY <2>1, DirInit, InitHolds, IInvInductive, HeldInvInductive, DirInvInductive, PTL DEF Spec
<1> QED BY <1>1, PTL

-----------------------------------------------------------------------------
(* What the end of an export leaves *)

EndInv ==
  stage = "done" =>
    /\ exportok /\ ~onlydb => Offered = Whole(backup)
    /\ ~(exportok /\ ~onlydb) => MayBeLeft(Offered, Whole(backup))

LEMMA LeftInTheEnd ==
  ASSUME \A b \in Backups : WithoutBreaks(b), HeldInv, DirInv, stage = "done"
  PROVE  MayBeLeft(Offered, Whole(backup))
<1>1. CASE full
  <2>1. Database \in DOMAIN dir => dir[Database] = <<>>
    BY <1>1 DEF DirInv
  <2> QED BY <2>1, BlankGivesNoRows DEF Offered, MayBeLeft
<1>2. CASE ~(Single("Header") \in DOMAIN dir /\ Single("DatabaseVersion") \in DOMAIN dir)
  <2>1. ~Load(dir, FALSE, FALSE).ok
    BY <1>2, LoadOk
  <2> QED BY <2>1 DEF Offered, MayBeLeft, NoRows
<1>3. CASE ~full /\ Single("Header") \in DOMAIN dir /\ Single("DatabaseVersion") \in DOMAIN dir
  <2>1. FirstStage = "header"
    BY <1>3, FirstStageIs DEF DirInv
  <2>2. IsBackup(backup) /\ backup \in Backups /\ AllIn(dir, backup, Lost(exportok))
    BY <1>3, <2>1, AllInTheEnd
  <2>3. WithoutBreaks(backup) /\ Lost(exportok) \subseteq {""}
    BY <2>2 DEF Lost
  <2> QED BY <2>2, <2>3, LeftOfAll DEF Offered
<1> QED BY <1>1, <1>2, <1>3

LEMMA EndIs ==
  ASSUME \A b \in Backups : WithoutBreaks(b), HeldInv, DirInv
  PROVE  EndInv
BY WholeInTheEnd, LeftInTheEnd DEF EndInv, UnpackedIsWhole

-----------------------------------------------------------------------------
(* Every step is one of an offered backup, or changes nothing of what is offered *)

LEMMA StatusIs ==
  /\ stage = "prepare" => Status = "before"
  /\ stage = "refused" => Status = "refused"
  /\ stage = "crashed" => Status = "broken"
  /\ stage = "filling" => Status = "begun"
  /\ stage = "done" /\ exportok /\ ~onlydb => Status = "complete"
  /\ stage = "done" /\ ~(exportok /\ ~onlydb) => Status = "broken"
  /\ stage \in (Halfway \ {"crashed"}) \cup {"clearing"} => Status = "replacing"
BY DEF Status, Halfway

LEMMA NotOk ==
  ASSUME IInv, stage \in Halfway
  PROVE  ~Offered.ok
BY NothingWithoutDatabase DEF IInv, Offered

LEMMA OfferedStays == dir' = dir => Offered' = Offered
BY DEF Offered

LEMMA WholeStays == backup' = backup => Whole(backup)' = Whole(backup)
OBVIOUS

OfferStep == [Offer!OfferedNext]_<<Offered, Whole(backup), Status>>

LEMMA Losing ==
  ASSUME Status \in {"before", "replacing"}, Status' = "replacing", backup' = backup,
         PartOf(Offered', Offered)
  PROVE  OfferStep
BY WholeStays DEF OfferStep, Offer!OfferedNext, Offer!Lose

LEMMA Refusing ==
  ASSUME Status \in {"before", "replacing"}, Status' = "refused", UNCHANGED <<dir, backup>>
  PROVE  OfferStep
BY WholeStays, OfferedStays DEF OfferStep, Offer!OfferedNext, Offer!Refuse

LEMMA Beginning ==
  ASSUME Status = "replacing", ~Offered.ok, Status' = "begun", NoRows(Offered'), backup' = backup
  PROVE  OfferStep
BY WholeStays DEF OfferStep, Offer!OfferedNext, Offer!Begin

LEMMA Completing ==
  ASSUME Status = "begun", Status' = "complete", Offered' = Whole(backup), backup' = backup
  PROVE  OfferStep
BY WholeStays DEF OfferStep, Offer!OfferedNext, Offer!Complete

LEMMA BreakingOff ==
  ASSUME Status = "begun" \/ (Status = "replacing" /\ ~Offered.ok),
         Status' = "broken", MayBeLeft(Offered', Whole(backup)), backup' = backup
  PROVE  OfferStep
BY WholeStays DEF OfferStep, Offer!OfferedNext, Offer!BreakOff

LEMMA NothingNew ==
  ASSUME Status' = Status, Offered' = Offered, backup' = backup
  PROVE  OfferStep
BY WholeStays DEF OfferStep

-----------------------------------------------------------------------------
LEMMA ClearingOffers ==
  ASSUME IInv, DirInv, Prepare \/ Clear
  PROVE  OfferStep
<1>1. /\ stage \in {"prepare", "clearing"} /\ stage' \in {"clearing", "refused", FirstStage}
      /\ backup' = backup
  BY FirstStageIs DEF Prepare, Clear
<1>2. Status \in {"before", "replacing"}
  BY <1>1, StatusIs
<1>3. CASE stage' = "refused"
  <2>1. Prepare /\ dir' = dir
    BY <1>3, FirstStageIs DEF Prepare, Clear
  <2>2. Status' = "refused"
    BY <1>3 DEF Status
  <2> QED BY <1>1, <1>2, <2>1, <2>2, Refusing
<1>4. CASE stage' \in {"clearing", FirstStage}
  <2>1. Status' = "replacing"
    BY <1>4, FirstStageIs DEF Status
  <2>2. Within(dir', dir)
    <3>1. CASE Prepare
      BY <3>1 DEF Prepare, Within, DirInv
    <3>2. CASE Clear
      <4>1. PICK name \in DOMAIN dir : dir' = [n \in DOMAIN dir \ {name} |-> dir[n]]
        BY <3>2 DEF Clear
      <4> QED BY <4>1 DEF Within, DirInv
    <3> QED BY <3>1, <3>2
  <2>3. Former(dir)
    BY <1>1 DEF DirInv
  <2>4. PICK e : e = dir'
    OBVIOUS
  <2>5. PartOf(Load(e, FALSE, FALSE), Load(dir, FALSE, FALSE))
    BY <2>2, <2>3, <2>4, PartWithin
  <2>6. PartOf(Offered', Offered)
    BY <2>4, <2>5 DEF Offered
  <2> QED BY <1>1, <1>2, <2>1, <2>6, Losing
<1> QED BY <1>1, <1>3, <1>4

LEMMA RefusalOffers ==
  ASSUME RefuseDirectory \/ ClearFails
  PROVE  OfferStep
<1>1. /\ stage \in {"prepare", "clearing"} /\ stage' = "refused" /\ UNCHANGED <<dir, backup>>
  BY DEF RefuseDirectory, ClearFails
<1>2. Status \in {"before", "replacing"} /\ Status' = "refused"
  BY <1>1 DEF Status
<1> QED BY <1>1, <1>2, Refusing

LEMMA FrameOffers ==
  ASSUME IInv', DirInv, HeldInv, WriteFrame
  PROVE  OfferStep
<1>1. Goes
  BY FrameGrows
<1>2. stage \in Halfway \ {"crashed"}
  BY DEF WriteFrame, WriteHeader, WriteVersion, WriteEnd, WriteSharedPrefs, WriteKeyValues,
     WriteAttachment, WriteAvatar, WriteSticker, WriteSingle, WriteNumbered, WriteMediaFrames,
     Halfway
<1>3. Status = "replacing" /\ Status' = "replacing"
  BY <1>1, <1>2 DEF Goes, Status, Halfway
<1>4. ~Offered'.ok
  <2>1. Database \notin DOMAIN dir'
    BY <1>1 DEF Goes, IInv
  <2>2. PICK e : e = dir'
    OBVIOUS
  <2>3. ~Load(e, FALSE, FALSE).ok
    BY <2>1, <2>2, LoadOk
  <2> QED BY <2>2, <2>3 DEF Offered
<1>5. PartOf(Offered', Offered)
  BY <1>4 DEF PartOf
<1> QED BY <1>1, <1>3, <1>5, Losing DEF Goes

LEMMA OpenOffers ==
  ASSUME IInv, IInv', OpenDatabase
  PROVE  OfferStep
<1>1. stage = "database" /\ stage' = "filling" /\ backup' = backup
  BY AfterIs DEF OpenDatabase
<1>2. Status = "replacing" /\ ~Offered.ok
  BY <1>1, NotOk DEF Status, Halfway
<1>3. Status' = "begun"
  BY <1>1 DEF Status
<1>4. NoRows(Offered')
  <2>1. Database \in DOMAIN dir' => dir'[Database] = <<>>
    BY <1>1 DEF IInv
  <2>2. PICK e : e = dir'
    OBVIOUS
  <2>3. NoRows(Load(e, FALSE, FALSE))
    BY <2>1, <2>2, BlankGivesNoRows
  <2> QED BY <2>2, <2>3 DEF Offered
<1> QED BY <1>1, <1>2, <1>3, <1>4, Beginning

LEMMA FillOffers ==
  ASSUME EndInv', FillDatabase
  PROVE  OfferStep
<1>1. stage = "filling" /\ stage' = "done" /\ UNCHANGED <<backup, command>>
  BY AfterIs DEF FillDatabase
<1>2. Status = "begun"
  BY <1>1 DEF Status
<1>3. CASE (exportok /\ ~onlydb)'
  <2>1. Status' = "complete"
    BY <1>1, <1>3 DEF Status
  <2>2. Offered' = Whole(backup)'
    BY <1>1, <1>3 DEF EndInv
  <2> QED BY <1>1, <1>2, <2>1, <2>2, WholeStays, Completing
<1>4. CASE ~(exportok /\ ~onlydb)'
  <2>1. Status' = "broken"
    BY <1>1, <1>4 DEF Status
  <2>2. MayBeLeft(Offered', Whole(backup)')
    BY <1>1, <1>4 DEF EndInv
  <2>3. MayBeLeft(Offered', Whole(backup))
    BY <1>1, <2>2, WholeStays
  <2> QED BY <1>1, <1>2, <2>1, <2>3, BreakingOff
<1> QED BY <1>3, <1>4

LEMMA CrashOffers ==
  ASSUME IInv, Crash
  PROVE  OfferStep
<1>1. stage \in {"avatars", "stickers"} /\ stage' = "crashed" /\ UNCHANGED <<dir, backup>>
  BY DEF Crash, CrashOnNull
<1>2. Status = "replacing" /\ ~Offered.ok /\ Status' = "broken"
  BY <1>1, NotOk DEF Status, Halfway
<1>3. MayBeLeft(Offered', Whole(backup))
  BY <1>1, <1>2, OfferedStays DEF MayBeLeft, NoRows
<1> QED BY <1>1, <1>2, <1>3, BreakingOff

LEMMA ListedAreOfOneList ==
  ASSUME NEW b, IsBackup(b), NEW d, \A name \in DOMAIN d : Listed(name, b)
  PROVE  OfOneList(d)
<1>1. PICK n : n = Len(b.avatars)
  OBVIOUS
<1>2. PICK keys : keys = AvatarKeys(b)
  OBVIOUS
<1>3. n \in Nat /\ InOrder(keys, n) /\ DOMAIN b.avatars = 1 .. n
  BY <1>1, <1>2, AvatarKeysAre, ListsAre DEF InOrder
<1>4. PICK I : I = {i \in 1 .. n : Name("Avatar", keys[i], "sbf") \in DOMAIN d}
  OBVIOUS
<1>5. I \in SUBSET (1 .. n)
  BY <1>4
<1>6. ASSUME NEW x \in Frames(d, "Avatar") PROVE \E i \in I : x = Name("Avatar", keys[i], "sbf")
  <2>1. x \in DOMAIN d /\ x[1] = "Avatar" /\ x[3] = "sbf" /\ Listed(x, b)
    BY DEF Frames
  <2> QED BY <1>2, <1>3, <1>4, <2>1 DEF Listed
<1>7. ASSUME NEW i \in I PROVE Name("Avatar", keys[i], "sbf") \in Frames(d, "Avatar")
  BY <1>4, NameParts DEF Frames
<1>8. Frames(d, "Avatar") = NamesOf("Avatar", keys, I)
  BY <1>6, <1>7 DEF NamesOf
<1> QED BY <1>3, <1>5, <1>8 DEF OfOneList

LEMMA AddNewOffers ==
  ASSUME HeldInv, DirInv, AddNew
  PROVE  OfferStep
<1>1. stage = "done" /\ UNCHANGED <<backup, command, stage, exportok>>
  BY DEF AddNew
<1>2. PICK e : e = dir'
  OBVIOUS
<1>3. Beside(dir, e)
  BY <1>2, AddNewStays
<1>4. OfOneList(dir)
  <2>1. IsBackup(backup)
    BY BackupIs DEF HeldInv
  <2>2. \A name \in DOMAIN dir : Listed(name, backup)
    BY <1>1 DEF DirInv
  <2> QED BY <2>1, <2>2, ListedAreOfOneList
<1>5. Load(dir, FALSE, FALSE) = Load(e, FALSE, FALSE)
  BY <1>3, <1>4, LoadBeside
<1>6. Offered' = Offered
  BY <1>2, <1>5 DEF Offered
<1>7. Status' = Status
  BY <1>1 DEF Status, onlydb
<1> QED BY <1>1, <1>6, <1>7, NothingNew

LEMMA EveryStepOffers ==
  ASSUME HeldInv, IInv, DirInv, IInv', EndInv', [Next]_vars
  PROVE  OfferStep
<1>1. CASE Prepare \/ Clear
  BY <1>1, ClearingOffers
<1>2. CASE RefuseDirectory \/ ClearFails
  BY <1>2, RefusalOffers
<1>3. CASE WriteFrame
  BY <1>3, FrameOffers
<1>4. CASE OpenDatabase \/ FillDatabase
  BY <1>4, OpenOffers, FillOffers
<1>5. CASE Crash
  BY <1>5, CrashOffers
<1>6. CASE AddNew
  BY <1>6, AddNewOffers
<1>7. CASE DiskFills \/ UNCHANGED vars
  <2>1. UNCHANGED <<dir, backup, command, stage, exportok>>
    BY <1>7 DEF DiskFills, vars
  <2>2. Status' = Status
    BY <2>1 DEF Status, onlydb
  <2> QED BY <2>1, <2>2, OfferedStays, NothingNew
<1> QED BY <1>1, <1>2, <1>3, <1>4, <1>5, <1>6, <1>7 DEF Next, WriteFrame

(* exportBackupToDir is an OfferedBackup: whenever it stops, the directory opens  *)
(* as the old backup, as parts of it or not at all, while the database is filled *)
(* at most as one without rows, and what is opened once it came to its end is    *)
(* the new backup, or what MayBeLeft allows of one that failed; if no preference *)
(* has a line break in it.                                                        *)
THEOREM OfferImplemented ==
  ASSUME \A b \in Backups : WithoutBreaks(b)
  PROVE  Spec => ImplementsOffer
<1>1. Init => Status = "before"
  BY DEF Init, Status
<1>2. HeldInv /\ DirInv => EndInv
  BY EndIs
<1>3. HeldInv /\ IInv /\ DirInv /\ IInv' /\ EndInv' /\ [Next]_vars => OfferStep
  BY EveryStepOffers
<1>4. Spec => []IInv
  <2>1. Init => IInv
    BY DEF Init, IInv, Halfway
  <2> QED BY <2>1, IInvInductive, PTL DEF Spec
<1>5. Spec => []EndInv
  BY <1>2, AlwaysHeld, AlwaysDir, PTL
<1>6. Spec => [][Offer!OfferedNext]_<<Offered, Whole(backup), Status>>
  BY <1>3, <1>4, <1>5, AlwaysHeld, AlwaysDir, PTL DEF Spec, OfferStep
<1> QED BY <1>1, <1>6, PTL DEF ImplementsOffer, Offer!OfferedSpec, Spec
=============================================================================
