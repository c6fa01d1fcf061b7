-------------------------- MODULE ImportThread_proofs --------------------------
(* What importing threads does to the _ids of rows, to avatars, the data of         *)
(* attachments and the order of messages, for every pair of backups; and to what   *)
(* rows refer to, for the pairs whose links the renumbering can keep.              *)
EXTENDS ImportThread, FiniteSetTheorems, TLAPS

Above(t) == \A i \in Ids(source, t), j \in Ids(target, t) : j < i

(* Closing a gap needs Above: the _id behind one in use must be free in the      *)
(* target too, which not being in use there would not give.                      *)
IInv ==
  /\ BackupOk(src) /\ BackupOk(source)
  /\ pc \notin {"reorder", "done"} => BackupOk(target)
  /\ at \in Nat \ {0} /\ compacting \in BOOLEAN
  /\ compacting => at <= Len(s_databaselinks)
  /\ \A t \in Tables : Renumbered(t) => Above(t)

-----------------------------------------------------------------------------
(* The list of links names every table.                                          *)
LEMMA LinkTables ==
  /\ Len(s_databaselinks) = 6 /\ DOMAIN s_databaselinks = 1 .. 6
  /\ \A i \in 1 .. 6 : s_databaselinks[i].table \in Tables /\ s_databaselinks[i].compact \in BOOLEAN
  /\ \A t \in Tables : \E i \in 1 .. 6 : s_databaselinks[i].table = t
<1>1. Len(s_databaselinks) = 6 /\ DOMAIN s_databaselinks = 1 .. 6
  BY DEF s_databaselinks
<1>2. /\ s_databaselinks[1].table = "thread" /\ s_databaselinks[1].compact = FALSE
      /\ s_databaselinks[2].table = "message" /\ s_databaselinks[2].compact = TRUE
      /\ s_databaselinks[3].table = "attachment" /\ s_databaselinks[3].compact = TRUE
      /\ s_databaselinks[4].table = "recipient" /\ s_databaselinks[4].compact = FALSE
      /\ s_databaselinks[5].table = "reaction" /\ s_databaselinks[5].compact = TRUE
      /\ s_databaselinks[6].table = "group_membership" /\ s_databaselinks[6].compact = TRUE
  BY DEF s_databaselinks
<1>3. \A i \in 1 .. 6 : i = 1 \/ i = 2 \/ i = 3 \/ i = 4 \/ i = 5 \/ i = 6
  OBVIOUS
<1>4. \A i \in 1 .. 6 : s_databaselinks[i].table \in Tables /\ s_databaselinks[i].compact \in BOOLEAN
  BY <1>2, <1>3 DEF Tables
<1>5. \A t \in Tables : \E i \in 1 .. 6 : s_databaselinks[i].table = t
  BY <1>2 DEF Tables
<1> QED BY <1>1, <1>4, <1>5

(* An UPDATE adds no rows.                                                       *)
LEMMA UpdateDomain ==
  ASSUME NEW t, NEW old, NEW new, DOMAIN new = DOMAIN old
  PROVE  DOMAIN Update(t, old, new) \subseteq DOMAIN old
BY DEF Update, Restrict

LEMMA ShiftedDomain ==
  ASSUME NEW t, NEW rows, NEW c, NEW offset
  PROVE  DOMAIN Shifted(t, rows, c, offset) \subseteq DOMAIN rows
<1> DEFINE once == WithColumn(rows, c.column, LAMBDA v : Moved(v, offset))
<1> DEFINE minus == WithColumn(rows, c.column, LAMBDA v : -v)
<1> DEFINE negative == Update(t, rows, minus)
<1> DEFINE plus == WithColumn(negative, c.column, LAMBDA v : Moved(-v, offset))
<1>1. DOMAIN once = DOMAIN rows /\ DOMAIN minus = DOMAIN rows
  BY DEF WithColumn
<1>2. DOMAIN plus = DOMAIN negative
  BY DEF WithColumn
<1>3. DOMAIN Update(t, rows, once) \subseteq DOMAIN rows
  BY <1>1, UpdateDomain
<1>4. DOMAIN negative \subseteq DOMAIN rows
  BY <1>1, UpdateDomain
<1>5. DOMAIN Update(t, negative, plus) \subseteq DOMAIN negative
  BY <1>2, UpdateDomain
<1> QED BY <1>3, <1>4, <1>5 DEF Shifted

LEMMA RedirectedDomain ==
  ASSUME NEW tables, NEW t, NEW new, NEW old
  PROVE  /\ DOMAIN Redirected(tables, t, new, old) = Tables
         /\ \A u \in Tables : DOMAIN Redirected(tables, t, new, old)[u] \subseteq DOMAIN tables[u]
<1> SUFFICES ASSUME NEW u \in Tables
             PROVE  DOMAIN Redirected(tables, t, new, old)[u] \subseteq DOMAIN tables[u]
  BY DEF Redirected
<1> DEFINE columns == {c.column : c \in {d \in ConnectionsTo(t) : d.table = u}}
<1> DEFINE column == CHOOSE c \in columns : TRUE
<1> DEFINE rows == WithColumn(tables[u], column, LAMBDA v : Renamed(v, new, old))
<1>1. DOMAIN rows = DOMAIN tables[u]
  BY DEF WithColumn
<1>2. DOMAIN Update(u, tables[u], rows) \subseteq DOMAIN tables[u]
  BY <1>1, UpdateDomain
<1> QED BY <1>2 DEF Redirected

(* Renumbering by way of the negative numbers meets no _id on the way, so it     *)
(* moves every row, and by the same distance.                                    *)
LEMMA MinimumIdDomain ==
  ASSUME NEW rows, NEW offset \in Int, DOMAIN rows \subseteq Nat \ {0},
         \A i \in DOMAIN rows : i + offset > 0
  PROVE  DOMAIN setMinimumId(rows, offset) = {i + offset : i \in DOMAIN rows}
<1> DEFINE negative == Rekey(rows, LAMBDA i : -i)
<1>1. DOMAIN negative = {-i : i \in DOMAIN rows}
  BY DEF Rekey
<1> HIDE DEF negative
<1>2. DOMAIN Rekey(negative, LAMBDA i : -i + offset) = {-i + offset : i \in DOMAIN negative}
  <2>1. ASSUME NEW i \in DOMAIN negative, NEW j \in DOMAIN negative, i < j,
               -i + offset = j \/ -i + offset = -j + offset
        PROVE  FALSE
    <3>1. PICK a \in DOMAIN rows : i = -a
      BY <1>1
    <3>2. PICK b \in DOMAIN rows : j = -b
      BY <1>1
    <3>3. a \in Nat /\ b \in Nat /\ a > 0 /\ b > 0 /\ a + offset > 0
      OBVIOUS
    <3> QED BY <2>1, <3>1, <3>2, <3>3
  <2>2. ~ \E i, j \in DOMAIN negative : i < j /\ -i + offset \in {j, -j + offset}
    BY <2>1
  <2> QED BY <2>2 DEF Rekey
<1>3. \A i \in DOMAIN rows : i \in Int /\ -(-i) + offset = i + offset
  OBVIOUS
<1>4. {-i + offset : i \in DOMAIN negative} = {i + offset : i \in DOMAIN rows}
  <2>1. {-i + offset : i \in DOMAIN negative} = {-(-i) + offset : i \in DOMAIN rows}
    BY <1>1
  <2> QED BY <1>3, <2>1
<1>5. CASE offset = 0
  <2>1. \A i \in DOMAIN rows : i + offset = i
    BY <1>5
  <2>2. DOMAIN rows = {i + offset : i \in DOMAIN rows}
    BY <2>1
  <2> QED BY <1>5, <2>2 DEF setMinimumId
<1>6. CASE offset # 0
  BY <1>2, <1>4, <1>6 DEF setMinimumId, negative
<1> QED BY <1>5, <1>6

-----------------------------------------------------------------------------
(* The renumbered table ends above the target, and the others lose rows at most. *)
LEMMA ShiftTableIds ==
  ASSUME IInv, pc = "unique", ShiftTable
  PROVE  /\ BackupOk(source)'
         /\ \A t \in Tables : \A i \in Ids(source, t)' :
              IF t = Link.table THEN \A j \in Ids(target, t) : j < i ELSE i \in Ids(source, t)
<1>1. at \in 1 .. 6 /\ Link.table \in Tables
  BY LinkTables DEF ShiftTable, IInv, Link
<1>2. BackupOk(source) /\ BackupOk(target)
  BY DEF IInv
<1>3. PICK max \in getMaxUsedId(Ids(target, Link.table)), min \in getMinUsedId(Ids(source, Link.table)) :
        source' = [d_database    |-> ShiftedTables(max + 1 - min),
                   d_attachments |-> ShiftedAttachments(max + 1 - min),
                   d_avatars     |-> updateAvatars(max + 1 - min)]
  BY DEF ShiftTable
<1> DEFINE offset == max + 1 - min
<1>4. /\ max \in Nat /\ \A j \in Ids(target, Link.table) : j \in Nat /\ j <= max
      /\ min \in Nat /\ \A i \in Ids(source, Link.table) : i \in Nat /\ min <= i
  <2>1. Ids(source, Link.table) # {}
    BY DEF ShiftTable
  <2> QED BY <1>1, <1>2, <1>3, <2>1 DEF BackupOk, getMaxUsedId, getMinUsedId
<1>5. offset \in Int /\ \A i \in Ids(source, Link.table) : i + offset > max
  BY <1>4
<1> HIDE DEF offset
<1>6. DOMAIN setMinimumId(Rows(source, Link.table), offset) = {i + offset : i \in Ids(source, Link.table)}
  <2>1. Ids(source, Link.table) \subseteq Nat \ {0} /\ Ids(source, Link.table) = DOMAIN Rows(source, Link.table)
    BY <1>1, <1>2 DEF BackupOk, Ids
  <2>2. \A i \in DOMAIN Rows(source, Link.table) : i + offset > 0
    BY <1>4, <1>5, <2>1
  <2> QED BY <1>5, <2>1, <2>2, MinimumIdDomain
<1> DEFINE rows(t) == IF t = Link.table THEN setMinimumId(Rows(source, t), offset) ELSE Rows(source, t)
<1>7. ASSUME NEW t \in Tables
      PROVE  DOMAIN ShiftedTables(offset)[t] \subseteq DOMAIN rows(t)
  <2> DEFINE column == CHOOSE c \in ConnectionIn(t) : TRUE
  <2>1. ShiftedTables(offset)[t]
          = IF ConnectionIn(t) = {} THEN rows(t) ELSE Shifted(t, rows(t), column, offset)
    BY DEF ShiftedTables
  <2> HIDE DEF rows, column
  <2>2. DOMAIN Shifted(t, rows(t), column, offset) \subseteq DOMAIN rows(t)
    BY ShiftedDomain
  <2> QED BY <2>1, <2>2
<1>8. /\ source' = [d_database |-> source'.d_database, d_attachments |-> source'.d_attachments,
                    d_avatars |-> source'.d_avatars]
      /\ source'.d_database = ShiftedTables(offset)
  BY <1>3 DEF offset
<1>9. ASSUME NEW t \in Tables, NEW i \in Ids(source, t)'
      PROVE  /\ i \in Nat \ {0}
             /\ IF t = Link.table THEN \A j \in Ids(target, t) : j < i ELSE i \in Ids(source, t)
  <2>1. i \in DOMAIN rows(t)
    BY <1>7, <1>8, <1>9 DEF Ids, Rows
  <2>2. CASE t = Link.table
    <3>1. PICK k \in Ids(source, t) : i = k + offset
      BY <1>6, <2>1, <2>2
    <3> QED BY <1>4, <1>5, <2>2, <3>1
  <2>3. CASE t # Link.table
    BY <1>2, <2>1, <2>3 DEF BackupOk, Ids
  <2> QED BY <2>2, <2>3
<1>10. DOMAIN source'.d_database = Tables
  BY <1>8 DEF ShiftedTables
<1> QED BY <1>8, <1>9, <1>10 DEF BackupOk

(* A gap is closed with an _id that comes right behind another one.              *)
LEMMA CloseGapIds ==
  ASSUME IInv, pc = "unique", CloseGap
  PROVE  /\ BackupOk(source)'
         /\ \A t \in Tables : \A i \in Ids(source, t)' :
              i \in Ids(source, t) \/ (t = Link.table /\ \E k \in Ids(source, t) : i = k + 1)
<1>1. at \in 1 .. 6 /\ Link.table \in Tables
  BY LinkTables DEF CloseGap, IInv, Link
<1>2. BackupOk(source)
  BY DEF IInv
<1>3. PICK g \in Gaps(Ids(source, Link.table)) :
        source' = [source EXCEPT !.d_database = CompactedTables(g[1], g[2]),
                                 !.d_attachments = CompactedAttachments(g[1], g[2])]
  BY DEF CloseGap
<1>4. PICK k \in Ids(source, Link.table) : g[1] = k + 1
  BY <1>3 DEF Gaps, FirstFree
<1> DEFINE rows == Rekey(Rows(source, Link.table), LAMBDA i : Renamed(i, g[1], g[2]))
<1> DEFINE tables == [source.d_database EXCEPT ![Link.table] = rows]
<1>5. DOMAIN rows \subseteq Ids(source, Link.table) \cup {g[1]}
  BY DEF Rekey, Renamed, Ids
<1>6. CompactedTables(g[1], g[2]) = Redirected(tables, Link.table, g[1], g[2])
  BY DEF CompactedTables
<1> HIDE DEF rows
<1>7. \A t \in Tables : tables[t] = IF t = Link.table THEN rows ELSE Rows(source, t)
  BY <1>1, <1>2 DEF BackupOk, Rows
<1> HIDE DEF tables
<1>8. /\ source' = [d_database |-> source'.d_database, d_attachments |-> source'.d_attachments,
                    d_avatars |-> source'.d_avatars]
      /\ source'.d_database = Redirected(tables, Link.table, g[1], g[2])
  BY <1>2, <1>3, <1>6 DEF BackupOk
<1>9. DOMAIN source'.d_database = Tables
      /\ \A t \in Tables : DOMAIN source'.d_database[t] \subseteq DOMAIN tables[t]
  BY <1>8, RedirectedDomain
<1>10. ASSUME NEW t \in Tables, NEW i \in Ids(source, t)'
       PROVE  /\ i \in Nat \ {0}
              /\ i \in Ids(source, t) \/ (t = Link.table /\ i = k + 1)
  <2>1. i \in DOMAIN tables[t]
    BY <1>9, <1>10 DEF Ids, Rows
  <2>2. i \in Ids(source, t) \/ (t = Link.table /\ i = k + 1)
    BY <1>4, <1>5, <1>7, <2>1 DEF Ids
  <2> QED BY <1>1, <1>2, <2>2 DEF BackupOk
<1> QED BY <1>8, <1>9, <1>10 DEF BackupOk

-----------------------------------------------------------------------------
(* Cropping, matching and dropping only take rows away.                          *)
Fewer(b, c) ==
  /\ BackupOk(b)
  /\ \A t \in Tables : Ids(b, t) \subseteq Ids(c, t)

LEMMA CropIds ==
  ASSUME NEW b, NEW t, BackupOk(b)
  PROVE  Fewer(CropToThread(b, t), b)
<1> DEFINE c == CropToThread(b, t)
<1>1. c = [d_database |-> c.d_database, d_attachments |-> c.d_attachments, d_avatars |-> c.d_avatars]
  BY DEF CropToThread
<1>2. DOMAIN c.d_database = Tables
  BY DEF CropToThread, Tables
<1>3. \A u \in Tables : Ids(c, u) \subseteq Ids(b, u)
  <2>1. Ids(c, "thread") \subseteq Ids(b, "thread")
    BY DEF CropToThread, Ids, Rows, Restrict
  <2>2. Ids(c, "message") \subseteq Ids(b, "message")
    BY DEF CropToThread, Ids, Rows, Restrict, Only
  <2>3. Ids(c, "attachment") \subseteq Ids(b, "attachment")
    BY DEF CropToThread, Ids, Rows, Restrict, Only
  <2>4. Ids(c, "recipient") \subseteq Ids(b, "recipient")
    BY DEF CropToThread, Ids, Rows, Restrict
  <2>5. Ids(c, "reaction") \subseteq Ids(b, "reaction")
    BY DEF CropToThread, Ids, Rows, Restrict, Only
  <2>6. Ids(c, "group_membership") \subseteq Ids(b, "group_membership")
    BY DEF CropToThread, Ids, Rows, Restrict, Only
  <2> QED BY <2>1, <2>2, <2>3, <2>4, <2>5, <2>6 DEF Tables
<1> QED BY <1>1, <1>2, <1>3 DEF Fewer, BackupOk

LEMMA DroppedIds ==
  ASSUME NEW b, NEW t \in Tables, NEW ids, BackupOk(b)
  PROVE  Fewer(Dropped(b, t, ids), b)
<1> DEFINE c == Dropped(b, t, ids)
<1>1. /\ c = [d_database |-> c.d_database, d_attachments |-> c.d_attachments, d_avatars |-> c.d_avatars]
      /\ c.d_database = [b.d_database EXCEPT ![t] = Restrict(b.d_database[t], DOMAIN b.d_database[t] \ ids)]
  BY DEF Dropped, BackupOk
<1>2. DOMAIN c.d_database = Tables
      /\ \A u \in Tables : DOMAIN c.d_database[u] \subseteq DOMAIN b.d_database[u]
  BY <1>1 DEF BackupOk, Restrict
<1> QED BY <1>1, <1>2 DEF Fewer, BackupOk, Ids, Rows

LEMMA WithRecipientIdIds ==
  ASSUME NEW b, NEW targetid, NEW doubles, BackupOk(b)
  PROVE  Fewer(WithRecipientId(b, targetid, doubles), b)
<1> DEFINE c == WithRecipientId(b, targetid, doubles)
<1>1. CASE Cardinality(doubles) # 1
  BY <1>1 DEF WithRecipientId, Fewer
<1>2. CASE Cardinality(doubles) = 1
  <2> DEFINE sourceid == CHOOSE i \in doubles : TRUE
  <2>1. /\ c = [d_database |-> c.d_database, d_attachments |-> c.d_attachments, d_avatars |-> c.d_avatars]
        /\ c.d_database = Redirected(b.d_database, "recipient", targetid, sourceid)
    BY <1>2 DEF WithRecipientId, BackupOk
  <2>2. DOMAIN c.d_database = Tables
        /\ \A u \in Tables : DOMAIN c.d_database[u] \subseteq DOMAIN b.d_database[u]
    BY <2>1, RedirectedDomain
  <2> QED BY <2>1, <2>2 DEF Fewer, BackupOk, Ids, Rows
<1> QED BY <1>1, <1>2

LEMMA FewerIsTransitive ==
  ASSUME NEW a, NEW b, NEW c, Fewer(a, b), Fewer(b, c)
  PROVE  Fewer(a, c)
BY DEF Fewer

LEMMA SetThreadIds ==
  ASSUME IInv, SetThread
  PROVE  Fewer(source', source)
<1>1. CASE targetthread = NULL
  BY <1>1 DEF SetThread, IInv, Fewer
<1>2. CASE targetthread # NULL
  <2> DEFINE old == source.d_database.message
  <2> DEFINE new == WithColumn(old, "thread_id", LAMBDA v : targetthread)
  <2>1. DOMAIN Update("message", old, new) \subseteq DOMAIN old
    <3>1. DOMAIN new = DOMAIN old
      BY DEF WithColumn
    <3> QED BY <3>1, UpdateDomain
  <2>2. source' = [source EXCEPT !.d_database.message = Update("message", old, new)]
    BY <1>2 DEF SetThread
  <2> HIDE DEF old, new
  <2>3. /\ source' = [d_database |-> source'.d_database, d_attachments |-> source'.d_attachments,
                      d_avatars |-> source'.d_avatars]
        /\ source'.d_database = [source.d_database EXCEPT !["message"] = Update("message", old, new)]
    BY <2>2 DEF IInv, BackupOk
  <2>4. DOMAIN source'.d_database = Tables
        /\ \A u \in Tables : DOMAIN source'.d_database[u] \subseteq DOMAIN source.d_database[u]
    BY <2>1, <2>3 DEF IInv, BackupOk, old
  <2> QED BY <2>3, <2>4 DEF Fewer, IInv, BackupOk, Ids, Rows
<1> QED BY <1>1, <1>2

LEMMA MatchRecipientIds ==
  ASSUME IInv, MatchRecipient
  PROVE  Fewer(source', source)
<1>1. PICK i \in getMinUsedId(todo) :
        LET doubles == Doubles(Rows(target, "recipient")[i])
            updated == WithRecipientId(source, i, doubles)
        IN  source' = IF targetthread = NULL THEN Dropped(updated, "recipient", doubles) ELSE updated
  BY DEF MatchRecipient
<1> DEFINE doubles == Doubles(Rows(target, "recipient")[i])
<1> DEFINE updated == WithRecipientId(source, i, doubles)
<1>2. source' = Dropped(updated, "recipient", doubles) \/ source' = updated
  BY <1>1
<1> HIDE DEF doubles
<1>3. Fewer(updated, source)
  BY WithRecipientIdIds DEF IInv
<1> HIDE DEF updated
<1>4. Fewer(Dropped(updated, "recipient", doubles), updated)
  BY <1>3, DroppedIds DEF Fewer, Tables
<1> QED BY <1>2, <1>3, <1>4, FewerIsTransitive

LEMMA DropExistingIds ==
  ASSUME IInv, DropExisting
  PROVE  Fewer(source', source)
<1>1. ASSUME NEW b, BackupOk(b)
      PROVE  Fewer(WithoutExisting(b), b)
  BY <1>1, DroppedIds DEF WithoutExisting, Tables
<1>2. ASSUME NEW b, BackupOk(b), NEW avatars
      PROVE  Fewer([b EXCEPT !.d_avatars = avatars], b)
  BY <1>2 DEF Fewer, BackupOk, Ids, Rows
<1> DEFINE kept == {a \in source.d_avatars : \A b \in target.d_avatars : a.recipient # b.recipient}
<1> DEFINE nothread == Dropped(source, "thread", Ids(source, "thread"))
<1> DEFINE doubles == UNION {Doubles(row) : row \in Contents(target, "recipient")}
<1> DEFINE norecipients == Dropped(nothread, "recipient", doubles)
<1> DEFINE new == [source EXCEPT !.d_avatars = kept]
<1> DEFINE old == [norecipients EXCEPT !.d_avatars = {}]
<1>3. source' = WithoutExisting(new) \/ source' = WithoutExisting(old)
  BY DEF DropExisting
<1> HIDE DEF doubles, kept
<1>4. BackupOk(source)
  BY DEF IInv
<1>5. Fewer(new, source)
  BY <1>2, <1>4
<1>6. Fewer(nothread, source)
  BY <1>4, DroppedIds DEF Tables
<1> HIDE DEF nothread, new
<1>7. Fewer(norecipients, nothread)
  BY <1>6, DroppedIds DEF Tables, Fewer
<1> HIDE DEF norecipients
<1>8. Fewer(old, norecipients)
  BY <1>2, <1>7 DEF Fewer
<1> HIDE DEF old
<1>9. Fewer(old, source)
  BY <1>6, <1>7, <1>8, FewerIsTransitive
<1>10. Fewer(WithoutExisting(new), new) /\ Fewer(WithoutExisting(old), old)
  BY <1>1, <1>5, <1>8 DEF Fewer
<1> QED BY <1>3, <1>5, <1>9, <1>10, FewerIsTransitive

-----------------------------------------------------------------------------
LEMMA Initially == Init => IInv
<1> SUFFICES ASSUME Init PROVE IInv
  OBVIOUS
<1>1. BackupOk(src) /\ BackupOk(source) /\ BackupOk(target)
  BY ImportAssumption DEF Init, InputOk
<1>2. \A t \in Tables : ~ Renumbered(t)
  BY DEF Init, Renumbered
<1>3. at \in Nat \ {0}
  BY DEF Init
<1>4. compacting \in BOOLEAN /\ ~ compacting
  BY DEF Init
<1> QED BY <1>1, <1>2, <1>3, <1>4 DEF IInv

(* A step of the renumbering: what was renumbered before it stays above.         *)
LEMMA MakeUniquePreserves == IInv /\ MakeUnique => IInv'
<1> SUFFICES ASSUME IInv, MakeUnique PROVE IInv'
  OBVIOUS
<1>1. /\ pc = "unique" /\ pc' = "unique" /\ src' = src /\ BackupOk(src)
      /\ BackupOk(source) /\ BackupOk(target)
      /\ at \in Nat \ {0} /\ compacting \in BOOLEAN
  BY DEF MakeUnique, mainVars, IInv
<1>2. CASE SkipTable
  <2>1. ASSUME NEW t \in Tables, Renumbered(t)'
        PROVE  Above(t)'
    <3>1. Renumbered(t) \/ t = Link.table
      BY <1>1, <1>2, <2>1 DEF SkipTable, Renumbered, Link
    <3>2. CASE Renumbered(t)
      BY <1>2, <3>2 DEF SkipTable, Above, IInv, Ids, Rows
    <3>3. CASE t = Link.table
      BY <1>2, <3>3 DEF SkipTable, Above, Ids, Rows
    <3> QED BY <3>1, <3>2, <3>3
  <2>2. BackupOk(source)' /\ BackupOk(target)' /\ BackupOk(src)'
    BY <1>1, <1>2 DEF SkipTable, BackupOk, Ids, Rows
  <2> QED BY <1>1, <1>2, <2>1, <2>2 DEF SkipTable, IInv
<1>3. CASE ShiftTable
  <2>1. /\ BackupOk(source)'
        /\ \A t \in Tables : \A i \in Ids(source, t)' :
             IF t = Link.table THEN \A j \in Ids(target, t) : j < i ELSE i \in Ids(source, t)
    BY <1>1, <1>3, ShiftTableIds
  <2>2. target' = target /\ at \in 1 .. 6 /\ Link.compact \in BOOLEAN
    BY <1>1, <1>3, LinkTables DEF ShiftTable, Link
  <2>3. ASSUME NEW t \in Tables, Renumbered(t)'
        PROVE  Above(t)'
    <3>1. Renumbered(t) \/ t = Link.table
      BY <1>1, <1>3, <2>2, <2>3 DEF ShiftTable, Renumbered, Link
    <3>2. CASE t = Link.table
      BY <2>1, <2>2, <3>2 DEF Above, Ids, Rows
    <3>3. CASE t # Link.table
      BY <2>1, <2>2, <3>1, <3>3 DEF Above, IInv, Ids, Rows
    <3> QED BY <3>2, <3>3
  <2>4. BackupOk(target)' /\ BackupOk(src)'
    BY <1>1, <2>2 DEF BackupOk, Ids, Rows
  <2>5. at' \in Nat \ {0} /\ compacting' \in BOOLEAN /\ (compacting' => at' <= Len(s_databaselinks))
    BY <1>1, <1>3, <2>2 DEF ShiftTable
  <2> QED BY <1>1, <2>1, <2>3, <2>4, <2>5 DEF IInv
<1>4. CASE CloseGap
  <2>1. /\ BackupOk(source)'
        /\ \A t \in Tables : \A i \in Ids(source, t)' :
             i \in Ids(source, t) \/ (t = Link.table /\ \E k \in Ids(source, t) : i = k + 1)
    BY <1>1, <1>4, CloseGapIds
  <2>2. target' = target /\ at' = at /\ compacting' = compacting
    BY <1>4 DEF CloseGap
  <2>3. ASSUME NEW t \in Tables, Renumbered(t)'
        PROVE  Above(t)'
    <3>1. Above(t)
      BY <1>1, <2>2, <2>3 DEF Renumbered, IInv
    <3>2. \A i \in Ids(source, t), j \in Ids(target, t) : i \in Nat /\ j \in Nat
      BY <1>1 DEF BackupOk
    <3>3. \A i \in Ids(source, t)', j \in Ids(target, t) : j < i
      BY <2>1, <3>1, <3>2 DEF Above
    <3> QED BY <2>2, <3>3 DEF Above, Ids, Rows
  <2>4. BackupOk(target)' /\ BackupOk(src)'
    BY <1>1, <2>2 DEF BackupOk, Ids, Rows
  <2> QED BY <1>1, <2>1, <2>2, <2>3, <2>4 DEF IInv
<1>5. CASE Compacted
  <2>1. ASSUME NEW t \in Tables, Renumbered(t)'
        PROVE  Above(t)'
    <3>1. Renumbered(t)
      BY <1>1, <1>5, <2>1, LinkTables DEF Compacted, Renumbered
    <3> QED BY <1>5, <3>1 DEF Compacted, Above, IInv, Ids, Rows
  <2>2. BackupOk(source)' /\ BackupOk(target)' /\ BackupOk(src)'
    BY <1>1, <1>5 DEF Compacted, BackupOk, Ids, Rows
  <2>3. at' \in Nat \ {0}
    BY <1>1, <1>5 DEF Compacted
  <2>4. compacting' \in BOOLEAN /\ ~ compacting'
    BY <1>5 DEF Compacted
  <2> QED BY <2>1, <2>2, <2>3, <2>4 DEF IInv
<1> QED BY <1>2, <1>3, <1>4, <1>5 DEF MakeUnique, makeIdsUnique

(* When all tables are renumbered all are above, and a step that only takes rows  *)
(* away keeps that.                                                              *)
LEMMA AllAbove == IInv /\ pc = "unique" /\ AllUnique => \A t \in Tables : Above(t)
<1> SUFFICES ASSUME IInv, pc = "unique", AllUnique, NEW t \in Tables PROVE Above(t)
  OBVIOUS
<1>1. PICK i \in 1 .. 6 : s_databaselinks[i].table = t
  BY LinkTables
<1>2. i \in DOMAIN s_databaselinks /\ i < at
  BY LinkTables DEF AllUnique, IInv
<1>3. Renumbered(t)
  BY <1>1, <1>2 DEF Renumbered
<1> QED BY <1>3 DEF IInv

LEMMA FewerPreserves ==
  ASSUME IInv, \A t \in Tables : Above(t),
         Fewer(source', source), pc \notin {"reorder", "done"}, pc' \notin {"reorder", "done"},
         UNCHANGED <<target, src, at, compacting>>
  PROVE  IInv'
<1>1. \A t \in Tables : Above(t)'
  BY DEF Fewer, Above, Ids, Rows
<1>2. BackupOk(source)' /\ BackupOk(target)' /\ BackupOk(src)'
  BY DEF IInv, Fewer, BackupOk, Ids, Rows
<1> QED BY <1>1, <1>2 DEF IInv

(* A step of main between two imports, or the reordering after them.             *)
LEMMA IdlePreserves ==
  ASSUME IInv, UNCHANGED <<source, src, at, compacting>>,
         pc' \notin {"unique", "recipients", "insert"},
         pc' \in {"reorder", "done"} \/ BackupOk(target)'
  PROVE  IInv'
<1>1. \A t \in Tables : ~ Renumbered(t)'
  BY DEF Renumbered
<1> QED BY <1>1 DEF IInv, BackupOk, Ids, Rows

LEMMA InsertPreserves == IInv /\ Insert => IInv'
<1> SUFFICES ASSUME IInv, Insert PROVE IInv'
  OBVIOUS
<1>1. BackupOk(source) /\ BackupOk(target)
  BY DEF IInv, Insert
<1>2. /\ target' = [d_database |-> target'.d_database, d_attachments |-> target'.d_attachments,
                    d_avatars |-> target'.d_avatars]
      /\ target'.d_database = [t \in Tables |-> Merged(t)]
  BY DEF Insert
<1>3. ASSUME NEW t \in Tables
      PROVE  DOMAIN Merged(t) \subseteq Ids(target, t) \cup Ids(source, t)
  BY DEF Merged, Accepted
<1>4. \A t \in Tables : Ids(target, t)' \subseteq Nat \ {0}
  BY <1>1, <1>2, <1>3 DEF BackupOk, Ids, Rows
<1>5. BackupOk(target)'
  BY <1>2, <1>4 DEF BackupOk
<1> QED BY <1>5, IdlePreserves DEF Insert

LEMMA Invariance == IInv /\ [Next]_vars => IInv'
<1> SUFFICES ASSUME IInv, [Next]_vars PROVE IInv'
  OBVIOUS
<1> USE DEF Return
<1>1. CASE Incompatible
  BY <1>1, IdlePreserves DEF Incompatible, idVars, IInv, BackupOk, Ids, Rows
<1>2. CASE SkipThread
  BY <1>2, IdlePreserves DEF SkipThread, idVars, IInv, BackupOk, Ids, Rows
<1>3. CASE Crop
  <2>1. Fewer(source', src) /\ UNCHANGED <<target, src>> /\ BackupOk(src) /\ BackupOk(target)
    BY <1>3, CropIds DEF Crop, IInv
  <2>2. BackupOk(source)' /\ BackupOk(target)' /\ BackupOk(src)'
    BY <2>1 DEF Fewer, BackupOk, Ids, Rows
  <2>3. \A t \in Tables : ~ Renumbered(t)'
    BY <1>3, LinkTables DEF Crop, Renumbered
  <2>4. at' \in Nat \ {0}
    BY <1>3 DEF Crop
  <2>5. compacting' \in BOOLEAN /\ ~ compacting'
    BY <1>3 DEF Crop
  <2> QED BY <2>2, <2>3, <2>4, <2>5 DEF IInv
<1>4. CASE MakeUnique
  BY <1>4, MakeUniquePreserves
<1>5. CASE SetThread
  BY <1>5, SetThreadIds, AllAbove, FewerPreserves DEF SetThread
<1>6. CASE MatchRecipient
  <2>1. \A t \in Tables : Above(t)
    BY <1>6 DEF MatchRecipient, IInv, Renumbered
  <2> QED BY <1>6, <2>1, MatchRecipientIds, FewerPreserves DEF MatchRecipient
<1>7. CASE DropExisting
  <2>1. \A t \in Tables : Above(t)
    BY <1>7 DEF DropExisting, IInv, Renumbered
  <2> QED BY <1>7, <2>1, DropExistingIds, FewerPreserves DEF DropExisting
<1>8. CASE Insert
  BY <1>8, InsertPreserves
<1>9. CASE checkDbIntegrity
  BY <1>9, IdlePreserves DEF checkDbIntegrity, idVars, IInv, BackupOk, Ids, Rows
<1>10. CASE ReorderDown
  BY <1>10, IdlePreserves DEF ReorderDown
<1>11. CASE ReorderUp
  BY <1>11, IdlePreserves DEF ReorderUp
<1>12. CASE UNCHANGED vars
  BY <1>12 DEF vars, idVars, mainVars, IInv, BackupOk, Ids, Rows, Renumbered, Above
<1> QED BY <1>1, <1>2, <1>3, <1>4, <1>5, <1>6, <1>7, <1>8, <1>9, <1>10, <1>11, <1>12 DEF Next

LEMMA AboveIsApart == IInv => IdsApart
BY DEF IInv, IdsApart, Above, BackupOk

(* For every pair of backups and every list of threads: from the moment a table  *)
(* is renumbered until its rows are inserted it shares no _id with the target, so *)
(* no INSERT is refused for its _id and no data goes to another attachment.      *)
THEOREM NoIdTaken == Spec => []IdsApart
<1>1. Spec => []IInv
  BY Initially, Invariance, PTL DEF Spec
<1> QED BY <1>1, AboveIsApart, PTL
-----------------------------------------------------------------------------
(* A backup whose messages are being reordered.                                   *)
OthersOk(b) ==
  /\ b = [d_database |-> b.d_database, d_attachments |-> b.d_attachments, d_avatars |-> b.d_avatars]
  /\ DOMAIN b.d_database = Tables
  /\ \A t \in Tables \ {"message"} : Ids(b, t) \subseteq Nat \ {0}

(* Distinct avatars stay distinct when a recipient is matched, as nobody has one  *)
(* under the _id of a recipient of the target that is yet to be matched.          *)
FramesInv ==
  /\ compacting => Link.compact
  /\ FramesOk(target) /\ FramesOk(source) /\ FramesOk(src)
  /\ pc = "unique" => HaveRows(source)
  /\ pc = "recipients" => \A a \in source.d_avatars : a.recipient \notin todo
  /\ pc = "recipients" => todo \subseteq Ids(target, "recipient")
  /\ pc = "insert" => \A a \in source.d_avatars, c \in target.d_avatars : a.recipient # c.recipient
  /\ OthersOk(target)

-----------------------------------------------------------------------------
(* The two tables that frames are named by have no UNIQUE columns: an UPDATE     *)
(* keeps their rows.                                                             *)
Named == {"attachment", "recipient"}

LEMMA UpdateKeeps ==
  ASSUME NEW t \in Named, NEW old, NEW new, DOMAIN new = DOMAIN old
  PROVE  DOMAIN Update(t, old, new) = DOMAIN old
<1>1. UniqueColumns(t) = {}
  BY DEF Named, UniqueColumns
<1>2. \A i, j : ~ Meets(t, old, new, i, j)
  BY <1>1 DEF Meets
<1>3. Displaced(t, old, new) = {}
  BY <1>2, Zenon DEF Displaced
<1> QED BY <1>3 DEF Update, Restrict

LEMMA ShiftedKeeps ==
  ASSUME NEW t \in Named, NEW rows, NEW c, NEW offset
  PROVE  DOMAIN Shifted(t, rows, c, offset) = DOMAIN rows
<1> DEFINE once == WithColumn(rows, c.column, LAMBDA v : Moved(v, offset))
<1> DEFINE minus == WithColumn(rows, c.column, LAMBDA v : -v)
<1> DEFINE negative == Update(t, rows, minus)
<1> DEFINE plus == WithColumn(negative, c.column, LAMBDA v : Moved(-v, offset))
<1>1. DOMAIN once = DOMAIN rows /\ DOMAIN minus = DOMAIN rows
  BY DEF WithColumn
<1>2. DOMAIN plus = DOMAIN negative
  BY DEF WithColumn
<1>3. DOMAIN Update(t, rows, once) = DOMAIN rows
  BY <1>1, UpdateKeeps
<1>4. DOMAIN negative = DOMAIN rows
  BY <1>1, UpdateKeeps
<1>5. DOMAIN Update(t, negative, plus) = DOMAIN negative
  BY <1>2, UpdateKeeps
<1> QED BY <1>3, <1>4, <1>5 DEF Shifted

LEMMA RedirectedKeeps ==
  ASSUME NEW tables, NEW t, NEW new, NEW old, NEW u \in Named
  PROVE  DOMAIN Redirected(tables, t, new, old)[u] = DOMAIN tables[u]
<1> DEFINE columns == {c.column : c \in {d \in ConnectionsTo(t) : d.table = u}}
<1> DEFINE column == CHOOSE c \in columns : TRUE
<1> DEFINE rows == WithColumn(tables[u], column, LAMBDA v : Renamed(v, new, old))
<1>1. DOMAIN rows = DOMAIN tables[u]
  BY DEF WithColumn
<1>2. DOMAIN Update(u, tables[u], rows) = DOMAIN tables[u]
  BY <1>1, UpdateKeeps
<1>3. u \in Tables
  BY DEF Named, Tables
<1> QED BY <1>2, <1>3 DEF Redirected

(* One distance for the rows of the table and for the frames named by them.       *)
LEMMA ShiftKeepsNamed ==
  ASSUME IInv, pc = "unique", ShiftTable
  PROVE  \E offset \in Int :
           /\ source' = [d_database    |-> ShiftedTables(offset),
                         d_attachments |-> ShiftedAttachments(offset),
                         d_avatars     |-> updateAvatars(offset)]
           /\ \A i \in Ids(source, Link.table) : i + offset \in Nat \ {0}
           /\ \A t \in Named : Ids(source', t) = IF t = Link.table THEN {i + offset : i \in Ids(source, t)}
                                                                  ELSE Ids(source, t)
<1>1. at \in 1 .. 6 /\ Link.table \in Tables
  BY LinkTables DEF ShiftTable, IInv, Link
<1>2. BackupOk(source) /\ BackupOk(target)
  BY DEF IInv
<1>3. PICK max \in getMaxUsedId(Ids(target, Link.table)), min \in getMinUsedId(Ids(source, Link.table)) :
        source' = [d_database    |-> ShiftedTables(max + 1 - min),
                   d_attachments |-> ShiftedAttachments(max + 1 - min),
                   d_avatars     |-> updateAvatars(max + 1 - min)]
  BY DEF ShiftTable
<1> DEFINE offset == max + 1 - min
<1>4. /\ max \in Nat
      /\ min \in Nat /\ \A i \in Ids(source, Link.table) : i \in Nat /\ min <= i
  <2>1. Ids(source, Link.table) # {}
    BY DEF ShiftTable
  <2> QED BY <1>1, <1>2, <1>3, <2>1 DEF BackupOk, getMaxUsedId, getMinUsedId
<1>5. offset \in Int /\ \A i \in Ids(source, Link.table) : i + offset \in Nat \ {0}
  BY <1>4
<1> HIDE DEF offset
<1>6. DOMAIN setMinimumId(Rows(source, Link.table), offset) = {i + offset : i \in Ids(source, Link.table)}
  <2>1. Ids(source, Link.table) \subseteq Nat \ {0} /\ Ids(source, Link.table) = DOMAIN Rows(source, Link.table)
    BY <1>1, <1>2 DEF BackupOk, Ids
  <2>2. \A i \in DOMAIN Rows(source, Link.table) : i + offset > 0
    BY <1>5, <2>1
  <2> QED BY <1>5, <2>1, <2>2, MinimumIdDomain
<1> DEFINE rows(t) == IF t = Link.table THEN setMinimumId(Rows(source, t), offset) ELSE Rows(source, t)
<1>7. ASSUME NEW t \in Named
      PROVE  DOMAIN ShiftedTables(offset)[t] = DOMAIN rows(t)
  <2> DEFINE column == CHOOSE c \in ConnectionIn(t) : TRUE
  <2>1. ShiftedTables(offset)[t]
          = IF ConnectionIn(t) = {} THEN rows(t) ELSE Shifted(t, rows(t), column, offset)
    BY DEF ShiftedTables, Named, Tables
  <2> HIDE DEF rows, column
  <2>2. DOMAIN Shifted(t, rows(t), column, offset) = DOMAIN rows(t)
    BY ShiftedKeeps
  <2> QED BY <2>1, <2>2
<1>8. source'.d_database = ShiftedTables(offset)
  BY <1>3 DEF offset
<1>9. \A t \in Named : Ids(source', t) = IF t = Link.table THEN {i + offset : i \in Ids(source, t)}
                                                           ELSE Ids(source, t)
  BY <1>6, <1>7, <1>8 DEF Ids, Rows
<1>10. source' = [d_database    |-> ShiftedTables(offset),
                  d_attachments |-> ShiftedAttachments(offset),
                  d_avatars     |-> updateAvatars(offset)]
  BY <1>3 DEF offset
<1> QED BY <1>5, <1>9, <1>10

-----------------------------------------------------------------------------
LEMMA ShiftTableFrames ==
  ASSUME IInv, pc = "unique", ShiftTable, FramesOk(source), HaveRows(source)
  PROVE  FramesOk(source') /\ HaveRows(source')
<1>1. PICK offset \in Int :
        /\ source' = [d_database    |-> ShiftedTables(offset),
                      d_attachments |-> ShiftedAttachments(offset),
                      d_avatars     |-> updateAvatars(offset)]
        /\ \A i \in Ids(source, Link.table) : i + offset \in Nat \ {0}
        /\ \A t \in Named : Ids(source', t) = IF t = Link.table THEN {i + offset : i \in Ids(source, t)}
                                                               ELSE Ids(source, t)
  BY ShiftKeepsNamed
<1>2. source'.d_attachments = ShiftedAttachments(offset) /\ source'.d_avatars = updateAvatars(offset)
  BY <1>1
<1>3. DOMAIN source'.d_attachments \subseteq Ids(source', "attachment")
      /\ DOMAIN source'.d_attachments \subseteq Nat \ {0}
  <2>1. CASE Link.table = "attachment"
    <3>1. DOMAIN source'.d_attachments = {j + offset : j \in DOMAIN source.d_attachments}
      BY <1>2, <2>1 DEF ShiftedAttachments
    <3>2. Ids(source', "attachment") = {i + offset : i \in Ids(source, "attachment")}
      BY <1>1, <2>1 DEF Named
    <3> QED BY <1>1, <2>1, <3>1, <3>2 DEF HaveRows
  <2>2. CASE Link.table # "attachment"
    <3>1. Ids(source', "attachment") = Ids(source, "attachment")
      BY <1>1, <2>2 DEF Named
    <3> QED BY <1>2, <2>2, <3>1 DEF HaveRows, FramesOk, ShiftedAttachments
  <2> QED BY <2>1, <2>2
<1>4. CASE Link.table # "recipient"
  <2>1. Ids(source', "recipient") = Ids(source, "recipient")
    BY <1>1, <1>4 DEF Named
  <2>2. source'.d_avatars = source.d_avatars
    BY <1>2, <1>4 DEF updateAvatars
  <2> QED BY <1>3, <2>1, <2>2 DEF FramesOk, HaveRows
<1>5. CASE Link.table = "recipient"
  <2>1. Ids(source', "recipient") = {i + offset : i \in Ids(source, "recipient")}
    BY <1>1, <1>5 DEF Named
  <2>2. source'.d_avatars = {[a EXCEPT !.recipient = @ + offset] : a \in source.d_avatars}
    BY <1>2, <1>5 DEF updateAvatars
  <2>3. \A a \in source.d_avatars :
           [a EXCEPT !.recipient = @ + offset] = [recipient |-> a.recipient + offset, picture |-> a.picture]
    BY DEF FramesOk
  <2>4. \A a \in source'.d_avatars : \E b \in source.d_avatars : a = [b EXCEPT !.recipient = @ + offset]
    BY <2>2
  <2>5. \A a \in source'.d_avatars : \E b \in source.d_avatars :
           /\ a = [recipient |-> b.recipient + offset, picture |-> b.picture]
           /\ b.recipient \in Ids(source, "recipient") /\ b.recipient \in Nat
           /\ b.recipient + offset \in Nat \ {0}
    <3> SUFFICES ASSUME NEW a \in source'.d_avatars
                 PROVE  \E b \in source.d_avatars :
                          /\ a = [recipient |-> b.recipient + offset, picture |-> b.picture]
                          /\ b.recipient \in Ids(source, "recipient") /\ b.recipient \in Nat
                          /\ b.recipient + offset \in Nat \ {0}
      OBVIOUS
    <3>1. PICK b \in source.d_avatars : a = [b EXCEPT !.recipient = @ + offset]
      BY <2>4
    <3>2. a = [recipient |-> b.recipient + offset, picture |-> b.picture]
      BY <2>3, <3>1
    <3>3. b.recipient \in Ids(source, "recipient") /\ b.recipient \in Nat
      BY DEF HaveRows, FramesOk
    <3>4. b.recipient + offset \in Nat \ {0}
      BY <1>1, <1>5, <3>3
    <3> QED BY <3>2, <3>3, <3>4
  <2>6. \A a \in source'.d_avatars :
           /\ a = [recipient |-> a.recipient, picture |-> a.picture]
           /\ a.recipient \in Nat \ {0} /\ a.recipient \in Ids(source', "recipient")
    BY <2>1, <2>5
  <2>7. ASSUME NEW a \in source'.d_avatars, NEW c \in source'.d_avatars, a.recipient = c.recipient
        PROVE  a = c
    <3>1. PICK b \in source.d_avatars :
            a = [recipient |-> b.recipient + offset, picture |-> b.picture] /\ b.recipient \in Nat
      BY <2>5
    <3>2. PICK d \in source.d_avatars :
            c = [recipient |-> d.recipient + offset, picture |-> d.picture] /\ d.recipient \in Nat
      BY <2>5
    <3>3. b.recipient = d.recipient
      BY <2>7, <3>1, <3>2
    <3>4. b = d
      BY <3>3 DEF FramesOk
    <3> QED BY <3>1, <3>2, <3>4
  <2> QED BY <1>3, <2>6, <2>7 DEF FramesOk, HaveRows
<1> QED BY <1>4, <1>5

(* The frame of a row that fills a gap is moved with it.                          *)
LEMMA CloseGapFrames ==
  ASSUME IInv, pc = "unique", CloseGap, Link.compact, FramesOk(source), HaveRows(source)
  PROVE  FramesOk(source') /\ HaveRows(source')
<1>1. at \in 1 .. 6 /\ Link.table \in Tables
  BY LinkTables DEF CloseGap, IInv, Link
<1>2. Link.table # "recipient"
  <2>1. s_databaselinks[1].compact = FALSE /\ s_databaselinks[4].compact = FALSE
        /\ s_databaselinks[2].table = "message" /\ s_databaselinks[3].table = "attachment"
        /\ s_databaselinks[5].table = "reaction" /\ s_databaselinks[6].table = "group_membership"
    BY DEF s_databaselinks
  <2>2. at \in {1, 2, 3, 4, 5, 6}
    BY <1>1
  <2> QED BY <2>1, <2>2 DEF Link
<1>3. BackupOk(source)
  BY DEF IInv
<1>4. PICK g \in Gaps(Ids(source, Link.table)) :
        source' = [source EXCEPT !.d_database = CompactedTables(g[1], g[2]),
                                 !.d_attachments = CompactedAttachments(g[1], g[2])]
  BY DEF CloseGap
<1> DEFINE nid == g[1]
           v == g[2]
           S == Ids(source, Link.table)
<1>5. nid \in Nat \ {0} /\ nid \notin S /\ v \in S
  <2>1. S \subseteq Nat \ {0}
    BY <1>1, <1>3 DEF BackupOk
  <2> QED BY <1>4, <2>1 DEF Gaps, FirstFree
<1> DEFINE rows == Rekey(Rows(source, Link.table), LAMBDA i : Renamed(i, nid, v))
<1> DEFINE tables == [source.d_database EXCEPT ![Link.table] = rows]
<1>6. DOMAIN rows = (S \ {v}) \cup {nid}
  <2>1. ~ \E i, j \in S : i < j /\ Renamed(i, nid, v) \in {j, Renamed(j, nid, v)}
    <3>1. S \subseteq Nat
      BY <1>1, <1>3 DEF BackupOk
    <3> QED BY <1>5, <3>1 DEF Renamed
  <2>2. DOMAIN rows = {Renamed(i, nid, v) : i \in S}
    BY <2>1 DEF Rekey, Ids
  <2> QED BY <1>5, <2>2 DEF Renamed
<1> HIDE DEF rows
<1>7. \A t \in Tables : tables[t] = IF t = Link.table THEN rows ELSE Rows(source, t)
  BY <1>1, <1>3 DEF BackupOk, Rows
<1>8. /\ source'.d_database = Redirected(tables, Link.table, nid, v)
      /\ source'.d_attachments = CompactedAttachments(nid, v)
      /\ source'.d_avatars = source.d_avatars
  BY <1>3, <1>4 DEF BackupOk, CompactedTables, rows
<1> HIDE DEF tables
<1>9. \A t \in Named : Ids(source', t) = DOMAIN tables[t]
  BY <1>8, RedirectedKeeps DEF Ids, Rows
<1>10. Ids(source', "recipient") = Ids(source, "recipient")
  BY <1>2, <1>7, <1>9 DEF Named, Tables, Ids
<1>11. DOMAIN source'.d_attachments \subseteq Ids(source', "attachment")
  <2>1. CASE Link.table = "attachment"
    <3>1. Ids(source', "attachment") = (S \ {v}) \cup {nid}
      BY <1>6, <1>7, <1>9, <2>1 DEF Named, Tables
    <3>2. DOMAIN source.d_attachments \subseteq S
      BY <2>1 DEF HaveRows
    <3>3. CASE v \in DOMAIN source.d_attachments
      BY <1>8, <2>1, <3>1, <3>2, <3>3 DEF CompactedAttachments
    <3>4. CASE v \notin DOMAIN source.d_attachments
      BY <1>8, <2>1, <3>1, <3>2, <3>4 DEF CompactedAttachments
    <3> QED BY <3>3, <3>4
  <2>2. CASE Link.table # "attachment"
    <3>1. Ids(source', "attachment") = Ids(source, "attachment")
      BY <1>7, <1>9, <2>2 DEF Named, Tables, Ids
    <3> QED BY <1>8, <2>2, <3>1 DEF CompactedAttachments, HaveRows
  <2> QED BY <2>1, <2>2
<1>12. DOMAIN source'.d_attachments \subseteq Nat \ {0}
  <2>1. BackupOk(source')
    BY CloseGapIds DEF BackupOk, Ids, Rows
  <2> QED BY <1>11, <2>1 DEF BackupOk, Tables
<1> QED BY <1>8, <1>10, <1>11, <1>12 DEF FramesOk, HaveRows

(* Cropping keeps the frames of the rows that are left.                           *)
LEMMA CropFrames ==
  ASSUME NEW b, NEW t, BackupOk(b), FramesOk(b)
  PROVE  FramesOk(CropToThread(b, t)) /\ HaveRows(CropToThread(b, t))
<1> DEFINE c == CropToThread(b, t)
<1>1. DOMAIN c.d_attachments \subseteq DOMAIN b.d_attachments
      /\ DOMAIN c.d_attachments \subseteq Ids(c, "attachment")
  BY Zenon DEF CropToThread, Ids, Rows, Restrict
<1>2. c.d_avatars \subseteq b.d_avatars
  BY DEF CropToThread
<1>3. \A a \in c.d_avatars : a.recipient \in Ids(c, "recipient")
  BY Zenon DEF CropToThread, Ids, Rows, Restrict
<1> HIDE DEF c
<1>4. FramesOk(c) /\ HaveRows(c)
  BY <1>1, <1>2, <1>3 DEF FramesOk, HaveRows
<1> QED BY <1>4 DEF c

LEMMA MakeUniqueFrames == IInv /\ FramesInv /\ MakeUnique => FramesInv'
<1> SUFFICES ASSUME IInv, FramesInv, MakeUnique PROVE FramesInv'
  OBVIOUS
<1>1. /\ pc = "unique" /\ pc' = "unique" /\ src' = src
      /\ FramesOk(target) /\ FramesOk(source) /\ FramesOk(src) /\ HaveRows(source)
  BY DEF MakeUnique, mainVars, FramesInv
<1>2. CASE SkipTable
  <2>1. UNCHANGED <<source, target>> /\ ~ compacting' 
    BY <1>2 DEF SkipTable
  <2> QED BY <1>1, <2>1 DEF FramesInv
<1>3. CASE ShiftTable
  <2>1. FramesOk(source') /\ HaveRows(source')
    BY <1>1, <1>3, ShiftTableFrames
  <2>2. compacting' => at' = at /\ Link.compact
    BY <1>3 DEF ShiftTable
  <2>3. target' = target
    BY <1>3 DEF ShiftTable
  <2> QED BY <1>1, <2>1, <2>2, <2>3 DEF FramesInv, Link
<1>4. CASE CloseGap
  <2>1. Link.compact
    BY <1>4 DEF CloseGap, FramesInv
  <2>2. FramesOk(source') /\ HaveRows(source')
    BY <1>1, <1>4, <2>1, CloseGapFrames
  <2>3. UNCHANGED <<target, at, compacting>>
    BY <1>4 DEF CloseGap
  <2> QED BY <1>1, <2>1, <2>2, <2>3 DEF FramesInv, Link
<1>5. CASE Compacted
  <2>1. UNCHANGED <<source, target>> /\ ~ compacting'
    BY <1>5 DEF Compacted
  <2> QED BY <1>1, <2>1 DEF FramesInv
<1> QED BY <1>2, <1>3, <1>4, <1>5 DEF MakeUnique, makeIdsUnique

-----------------------------------------------------------------------------
LEMMA DroppedFrames ==
  ASSUME NEW b, NEW t \in Tables, NEW ids, BackupOk(b)
  PROVE  /\ Dropped(b, t, ids).d_attachments = b.d_attachments
         /\ Dropped(b, t, ids).d_avatars = b.d_avatars
BY DEF Dropped, BackupOk

LEMMA SetThreadFrames == IInv /\ FramesInv /\ SetThread => FramesInv'
<1> SUFFICES ASSUME IInv, FramesInv, SetThread PROVE FramesInv'
  OBVIOUS
<1>1. /\ pc = "unique" /\ pc' = "recipients" /\ UNCHANGED <<target, src, at, compacting>>
      /\ todo' = Ids(target, "recipient")
  BY DEF SetThread
<1>2. source'.d_avatars = source.d_avatars /\ source'.d_attachments = source.d_attachments
  BY DEF SetThread, IInv, BackupOk
<1>3. \A a \in source.d_avatars : a.recipient \notin Ids(target, "recipient")
  <2>1. Above("recipient")
    BY <1>1, AllAbove DEF SetThread, Tables
  <2>2. Ids(target, "recipient") \subseteq Nat
    BY <1>1 DEF IInv, BackupOk, Tables
  <2>3. \A a \in source.d_avatars : a.recipient \in Ids(source, "recipient")
    BY <1>1 DEF FramesInv, HaveRows
  <2> QED BY <2>1, <2>2, <2>3 DEF Above
<1>4. Ids(target, "recipient")' = Ids(target, "recipient")
  BY <1>1 DEF Ids, Rows
<1>5. FramesOk(source') /\ FramesOk(target') /\ FramesOk(src') /\ (compacting' => Link'.compact)
  BY <1>1, <1>2 DEF FramesInv, FramesOk, Link
<1> QED BY <1>1, <1>2, <1>3, <1>4, <1>5 DEF FramesInv

(* An avatar comes under the _id of a recipient that none was under.              *)
LEMMA MatchRecipientFrames == IInv /\ FramesInv /\ MatchRecipient => FramesInv'
<1> SUFFICES ASSUME IInv, FramesInv, MatchRecipient PROVE FramesInv'
  OBVIOUS
<1>1. PICK i \in getMinUsedId(todo) :
        LET doubles == Doubles(Rows(target, "recipient")[i])
            updated == WithRecipientId(source, i, doubles)
        IN  /\ todo' = todo \ {i}
            /\ source' = IF targetthread = NULL THEN Dropped(updated, "recipient", doubles) ELSE updated
  BY DEF MatchRecipient
<1>2. /\ pc = "recipients" /\ pc' = "recipients" /\ todo # {}
      /\ UNCHANGED <<target, src, at, compacting>>
  BY DEF MatchRecipient
<1>3. BackupOk(source) /\ BackupOk(target)
  BY <1>2 DEF IInv
<1>4. i \in todo /\ i \in Nat \ {0}
  BY <1>1, <1>2, <1>3 DEF getMinUsedId, FramesInv, BackupOk, Tables
<1> DEFINE doubles == Doubles(Rows(target, "recipient")[i])
           updated == WithRecipientId(source, i, doubles)
           sourceid == CHOOSE j \in doubles : TRUE
<1>5. todo' = todo \ {i} /\ (source' = Dropped(updated, "recipient", doubles) \/ source' = updated)
  BY <1>1
<1>6. /\ updated.d_attachments = source.d_attachments
      /\ \/ updated.d_avatars = source.d_avatars
         \/ updated.d_avatars = {[a EXCEPT !.recipient = Renamed(@, i, sourceid)] : a \in source.d_avatars}
  BY <1>3 DEF WithRecipientId, BackupOk
<1> HIDE DEF doubles, sourceid
<1>7. BackupOk(updated)
  BY <1>3, WithRecipientIdIds DEF Fewer
<1> HIDE DEF updated
<1>8. source'.d_attachments = updated.d_attachments /\ source'.d_avatars = updated.d_avatars
  BY <1>5, <1>7, DroppedFrames DEF Tables
<1>9. \A a \in source.d_avatars : /\ a = [recipient |-> a.recipient, picture |-> a.picture]
                                  /\ a.recipient \in Nat \ {0} /\ a.recipient \notin todo
  BY <1>2 DEF FramesInv, FramesOk
<1>10. ASSUME NEW a \in source'.d_avatars
       PROVE  \E b \in source.d_avatars : \E r \in {b.recipient, i} :
                /\ a = [recipient |-> r, picture |-> b.picture]
                /\ r = i => b.recipient = sourceid
                /\ r # i => b.recipient = r
  <2>1. CASE a \in source.d_avatars
    BY <1>4, <1>9, <2>1
  <2>2. ASSUME NEW b \in source.d_avatars, a = [b EXCEPT !.recipient = Renamed(@, i, sourceid)]
        PROVE  \E r \in {b.recipient, i} :
                 /\ a = [recipient |-> r, picture |-> b.picture]
                 /\ r = i => b.recipient = sourceid
                 /\ r # i => b.recipient = r
    <3>1. a = [recipient |-> Renamed(b.recipient, i, sourceid), picture |-> b.picture]
      BY <1>9, <2>2
    <3>2. b.recipient # i
      BY <1>4, <1>9
    <3> QED BY <3>1, <3>2 DEF Renamed
  <2> QED BY <1>6, <1>8, <1>10, <2>1, <2>2
<1>11. \A a \in source'.d_avatars :
          /\ a = [recipient |-> a.recipient, picture |-> a.picture]
          /\ a.recipient \in Nat \ {0} /\ a.recipient \notin todo'
  BY <1>4, <1>5, <1>9, <1>10
<1>12. ASSUME NEW a \in source'.d_avatars, NEW c \in source'.d_avatars, a.recipient = c.recipient
       PROVE  a = c
  <2>1. PICK b \in source.d_avatars :
          /\ a = [recipient |-> a.recipient, picture |-> b.picture]
          /\ a.recipient = i => b.recipient = sourceid
          /\ a.recipient # i => b.recipient = a.recipient
    BY <1>10
  <2>2. PICK d \in source.d_avatars :
          /\ c = [recipient |-> c.recipient, picture |-> d.picture]
          /\ c.recipient = i => d.recipient = sourceid
          /\ c.recipient # i => d.recipient = c.recipient
    BY <1>10
  <2>3. b.recipient = d.recipient
    BY <1>12, <2>1, <2>2
  <2>4. b = d
    BY <2>3 DEF FramesInv, FramesOk
  <2> QED BY <1>12, <2>1, <2>2, <2>4
<1>13. FramesOk(source') /\ FramesOk(target') /\ FramesOk(src') /\ (compacting' => Link'.compact)
  BY <1>2, <1>6, <1>8, <1>11, <1>12 DEF FramesInv, FramesOk, Link
<1>14. todo' \subseteq Ids(target, "recipient")'
  BY <1>2, <1>5 DEF FramesInv, Ids, Rows
<1> QED BY <1>2, <1>11, <1>13, <1>14 DEF FramesInv

LEMMA DropExistingFrames == IInv /\ FramesInv /\ DropExisting => FramesInv'
<1> SUFFICES ASSUME IInv, FramesInv, DropExisting PROVE FramesInv'
  OBVIOUS
<1>1. /\ pc = "recipients" /\ pc' = "insert" /\ UNCHANGED <<target, src, at, compacting>>
  BY DEF DropExisting
<1>2. BackupOk(source)
  BY DEF IInv
<1>3. ASSUME NEW b, BackupOk(b)
      PROVE  WithoutExisting(b).d_attachments = b.d_attachments /\ WithoutExisting(b).d_avatars = b.d_avatars
  BY <1>3, DroppedFrames DEF WithoutExisting, Tables
<1>4. ASSUME NEW b, BackupOk(b), NEW avatars
      PROVE  LET c == [b EXCEPT !.d_avatars = avatars]
             IN  BackupOk(c) /\ c.d_avatars = avatars /\ c.d_attachments = b.d_attachments
  BY <1>4 DEF BackupOk, Ids, Rows
<1> DEFINE kept == {a \in source.d_avatars : \A c \in target.d_avatars : a.recipient # c.recipient}
<1> DEFINE nothread == Dropped(source, "thread", Ids(source, "thread"))
<1> DEFINE doubles == UNION {Doubles(row) : row \in Contents(target, "recipient")}
<1> DEFINE norecipients == Dropped(nothread, "recipient", doubles)
<1> DEFINE new == [source EXCEPT !.d_avatars = kept]
<1> DEFINE old == [norecipients EXCEPT !.d_avatars = {}]
<1>5. source' = WithoutExisting(new) \/ source' = WithoutExisting(old)
  BY DEF DropExisting
<1> HIDE DEF doubles, kept
<1>6. BackupOk(new) /\ new.d_avatars = kept /\ new.d_attachments = source.d_attachments
  BY <1>2, <1>4
<1>7. BackupOk(nothread) /\ nothread.d_attachments = source.d_attachments
  BY <1>2, DroppedIds, DroppedFrames DEF Tables, Fewer
<1> HIDE DEF nothread, new
<1>8. BackupOk(norecipients) /\ norecipients.d_attachments = source.d_attachments
  BY <1>7, DroppedIds, DroppedFrames DEF Tables, Fewer
<1> HIDE DEF norecipients
<1>9. BackupOk(old) /\ old.d_avatars = {} /\ old.d_attachments = source.d_attachments
  BY <1>4, <1>8
<1> HIDE DEF old
<1>10. source'.d_attachments = source.d_attachments /\ source'.d_avatars \subseteq kept
  BY <1>3, <1>5, <1>6, <1>9
<1>11. FramesOk(source') /\ FramesOk(target') /\ FramesOk(src') /\ (compacting' => Link'.compact)
  BY <1>1, <1>10 DEF FramesInv, FramesOk, Link, kept
<1> QED BY <1>1, <1>10, <1>11 DEF FramesInv, kept

LEMMA InsertFrames == IInv /\ FramesInv /\ Insert => FramesInv'
<1> SUFFICES ASSUME IInv, FramesInv, Insert PROVE FramesInv'
  OBVIOUS
<1>1. /\ pc = "insert" /\ pc' = "check" /\ UNCHANGED <<source, src, at, compacting>>
      /\ DOMAIN target'.d_attachments = DOMAIN target.d_attachments \cup DOMAIN source.d_attachments
      /\ target'.d_avatars = target.d_avatars \cup source.d_avatars
  BY DEF Insert
<1>2. FramesOk(target')
  BY <1>1 DEF FramesInv, FramesOk
<1>3. OthersOk(target')
  <2>1. BackupOk(target')
    BY <1>1, InsertPreserves DEF IInv, BackupOk, Ids, Rows
  <2> QED BY <2>1 DEF BackupOk, OthersOk
<1> QED BY <1>1, <1>2, <1>3 DEF FramesInv, Link

(* The other steps leave the frames of the source alone.                          *)
LEMMA IdleFrames ==
  ASSUME FramesInv, UNCHANGED <<source, src, at, compacting>>,
         target'.d_attachments = target.d_attachments, target'.d_avatars = target.d_avatars,
         pc' \notin {"unique", "recipients", "insert"}, OthersOk(target')
  PROVE  FramesInv'
BY DEF FramesInv, FramesOk, Link

(* Reordering changes the messages, and what refers to them.                      *)
LEMMA ReorderDownOthers ==
  ASSUME FramesInv, ReorderDown
  PROVE  /\ OthersOk(target')
         /\ target'.d_attachments = target.d_attachments /\ target'.d_avatars = target.d_avatars
<1> DEFINE rows(t) == IF t = "message" THEN Rekey(Rows(target, t), Negated) ELSE Rows(target, t)
           tables == [t \in Tables |-> EachColumn(rows(t), ReorderedColumns[t], Negated)]
<1>1. target' = [target EXCEPT !.d_database = tables]
  BY DEF ReorderDown
<1>2. \A t \in Tables : DOMAIN tables[t] = DOMAIN rows(t)
  BY DEF EachColumn
<1>3. \A t \in Tables \ {"message"} : DOMAIN tables[t] = Ids(target, t)
  BY <1>2 DEF Ids
<1>4. DOMAIN tables = Tables
  OBVIOUS
<1> HIDE DEF tables
<1> QED BY <1>1, <1>3, <1>4 DEF FramesInv, OthersOk, Ids, Rows

LEMMA ReorderUpOthers ==
  ASSUME FramesInv, ReorderUp
  PROVE  /\ OthersOk(target')
         /\ target'.d_attachments = target.d_attachments /\ target'.d_avatars = target.d_avatars
<1> DEFINE rows(t) == IF t = "message" THEN Rekey(Rows(target, t), Restored) ELSE Rows(target, t)
           new(t) == EachColumn(rows(t), ReorderedColumns[t], Restored)
           tables == [t \in Tables |-> Update(t, rows(t), new(t))]
<1>1. target' = [target EXCEPT !.d_database = tables]
  BY DEF ReorderUp
<1>2. \A t \in Tables : DOMAIN new(t) = DOMAIN rows(t)
  BY DEF EachColumn
<1> HIDE DEF new
<1>3. \A t \in Tables : DOMAIN Update(t, rows(t), new(t)) \subseteq DOMAIN rows(t)
  BY <1>2, UpdateDomain
<1>4. \A t \in Tables \ {"message"} : DOMAIN tables[t] \subseteq Ids(target, t)
  BY <1>3 DEF Ids
<1>5. DOMAIN tables = Tables
  OBVIOUS
<1> HIDE DEF tables
<1> QED BY <1>1, <1>4, <1>5 DEF FramesInv, OthersOk, Ids, Rows

LEMMA FramesInvariance == IInv /\ FramesInv /\ [Next]_vars => FramesInv'
<1> SUFFICES ASSUME IInv, FramesInv, [Next]_vars PROVE FramesInv'
  OBVIOUS
<1> USE DEF Return
<1>1. CASE Incompatible
  BY <1>1, IdleFrames DEF Incompatible, idVars, FramesInv
<1>2. CASE SkipThread
  BY <1>2, IdleFrames DEF SkipThread, idVars, FramesInv
<1>3. CASE Crop
  <2>1. FramesOk(source') /\ HaveRows(source') /\ UNCHANGED <<target, src>> /\ pc' = "unique"
    BY <1>3, CropFrames DEF Crop, IInv, FramesInv
  <2>2. ~ compacting'
    BY <1>3 DEF Crop
  <2> QED BY <2>1, <2>2 DEF FramesInv
<1>4. CASE MakeUnique
  BY <1>4, MakeUniqueFrames
<1>5. CASE SetThread
  BY <1>5, SetThreadFrames
<1>6. CASE MatchRecipient
  BY <1>6, MatchRecipientFrames
<1>7. CASE DropExisting
  BY <1>7, DropExistingFrames
<1>8. CASE Insert
  BY <1>8, InsertFrames
<1>9. CASE checkDbIntegrity
  BY <1>9, IdleFrames DEF checkDbIntegrity, idVars, FramesInv
<1>10. CASE ReorderDown
  <2>1. target'.d_attachments = target.d_attachments /\ target'.d_avatars = target.d_avatars
        /\ OthersOk(target')
    BY <1>10, ReorderDownOthers
  <2> QED BY <1>10, <2>1, IdleFrames DEF ReorderDown
<1>11. CASE ReorderUp
  <2>1. target'.d_attachments = target.d_attachments /\ target'.d_avatars = target.d_avatars
        /\ OthersOk(target')
    BY <1>11, ReorderUpOthers
  <2> QED BY <1>11, <2>1, IdleFrames DEF ReorderUp
<1>12. CASE UNCHANGED vars
  BY <1>12 DEF vars, idVars, mainVars, FramesInv, Link
<1> QED BY <1>1, <1>2, <1>3, <1>4, <1>5, <1>6, <1>7, <1>8, <1>9, <1>10, <1>11, <1>12 DEF Next

LEMMA FramesStart == Init => FramesInv
<1> SUFFICES ASSUME Init PROVE FramesInv
  OBVIOUS
<1>1. PICK input \in Inputs : target = input.target /\ src = input.source /\ source = input.source
  BY DEF Init
<1>2. BackupOk(target) /\ FramesOk(target) /\ FramesOk(source) /\ FramesOk(src)
  BY <1>1, ImportAssumption DEF InputOk
<1> QED BY <1>2 DEF Init, FramesInv, OthersOk, BackupOk

(* For every pair of backups: nobody in the target ever has two avatars, whoever  *)
(* was known to both, by whatever number, and in however many threads.            *)
THEOREM OneAvatarEach == Spec => []AvatarsDistinct
<1>1. Spec => [](IInv /\ FramesInv)
  BY Initially, Invariance, FramesStart, FramesInvariance, PTL DEF Spec
<1>2. FramesInv => AvatarsDistinct
  BY DEF FramesInv, FramesOk, AvatarsDistinct
<1> QED BY <1>1, <1>2, PTL

-----------------------------------------------------------------------------
(* The order of messages.  What is done to rows before the reordering leaves them *)
(* a date each.                                                                  *)
Comparable(rows) ==
  /\ IsFiniteSet(DOMAIN rows)
  /\ \A i \in DOMAIN rows : UniqueColumns("message") \subseteq DOMAIN rows[i] /\ rows[i].date_sent \in Int

LEMMA MessagesAreComparable ==
  ASSUME NEW b
  PROVE  MessagesOk(b) <=> Comparable(Rows(b, "message"))
BY DEF MessagesOk, Comparable, Ids, Contents, Range

LEMMA FewerComparable ==
  ASSUME NEW rows, Comparable(rows), NEW S \in SUBSET DOMAIN rows
  PROVE  Comparable(Restrict(rows, S))
<1>1. IsFiniteSet(S)
  BY FS_Subset DEF Comparable
<1> QED BY <1>1 DEF Comparable, Restrict

LEMMA UpdateComparable ==
  ASSUME NEW t, NEW old, NEW new, DOMAIN new = DOMAIN old, Comparable(old), Comparable(new)
  PROVE  Comparable(Update(t, old, new))
<1>1. \A S : Comparable(Restrict(new, DOMAIN new \ S))
  BY FewerComparable
<1> QED BY <1>1 DEF Update

LEMMA RekeyComparable ==
  ASSUME NEW rows, NEW new, NEW g, Comparable(rows), DOMAIN new = {g[i] : i \in DOMAIN rows},
         \A k \in DOMAIN new : \E i \in DOMAIN rows : new[k] = rows[i]
  PROVE  Comparable(new)
<1> DEFINE f == [i \in DOMAIN rows |-> g[i]]
<1>1. f \in Surjection(DOMAIN rows, DOMAIN new)
  BY DEF Surjection
<1>2. IsFiniteSet(DOMAIN new)
  BY <1>1, FS_Surjection DEF Comparable
<1> QED BY <1>2 DEF Comparable

(* No link is kept in the date.                                                   *)
LEMMA LinkColumns ==
  \A i \in DOMAIN s_databaselinks : \A c \in s_databaselinks[i].connections : c.column # "date_sent"
<1>1. DOMAIN s_databaselinks = 1 .. 6
  BY DEF s_databaselinks
<1>2. \A t, c : /\ Connection(t, c).column = c /\ JsonConnection(t, c).column = c
                /\ UniqueConnection(t, c).column = c
  BY DEF Connection, JsonConnection, UniqueConnection
<1>3. /\ \A c \in s_databaselinks[1].connections : c.column # "date_sent"
      /\ \A c \in s_databaselinks[2].connections : c.column # "date_sent"
      /\ \A c \in s_databaselinks[3].connections : c.column # "date_sent"
      /\ \A c \in s_databaselinks[4].connections : c.column # "date_sent"
      /\ s_databaselinks[5].connections = {} /\ s_databaselinks[6].connections = {}
  BY <1>2 DEF s_databaselinks
<1>4. \A i \in 1 .. 6 : i = 1 \/ i = 2 \/ i = 3 \/ i = 4 \/ i = 5 \/ i = 6
  OBVIOUS
<1> QED BY <1>1, <1>3, <1>4

LEMMA ShiftedComparable ==
  ASSUME NEW t, NEW rows, NEW c, NEW offset, Comparable(rows), c.column # "date_sent"
  PROVE  Comparable(Shifted(t, rows, c, offset))
<1> DEFINE once == WithColumn(rows, c.column, LAMBDA v : Moved(v, offset))
<1> DEFINE minus == WithColumn(rows, c.column, LAMBDA v : -v)
<1> DEFINE negative == Update(t, rows, minus)
<1> DEFINE plus == WithColumn(negative, c.column, LAMBDA v : Moved(-v, offset))
<1>1. DOMAIN once = DOMAIN rows /\ DOMAIN minus = DOMAIN rows
  BY DEF WithColumn
<1>2. Comparable(once) /\ Comparable(minus)
  BY DEF Comparable, WithColumn
<1>3. Comparable(Update(t, rows, once)) /\ Comparable(negative)
  BY <1>1, <1>2, UpdateComparable
<1> HIDE DEF negative
<1>4. DOMAIN plus = DOMAIN negative /\ Comparable(plus)
  BY <1>3 DEF Comparable, WithColumn
<1>5. Comparable(Update(t, negative, plus))
  BY <1>3, <1>4, UpdateComparable
<1> QED BY <1>3, <1>5 DEF Shifted, negative

LEMMA RedirectedComparable ==
  ASSUME NEW tables, NEW t, NEW new, NEW old, NEW u \in Tables, Comparable(tables[u])
  PROVE  Comparable(Redirected(tables, t, new, old)[u])
<1> DEFINE columns == {c.column : c \in {d \in ConnectionsTo(t) : d.table = u}}
<1> DEFINE column == CHOOSE c \in columns : TRUE
<1> DEFINE rows == WithColumn(tables[u], column, LAMBDA v : Renamed(v, new, old))
<1>1. CASE columns = {}
  BY <1>1 DEF Redirected
<1>2. CASE columns # {}
  <2>1. \A c \in ConnectionsTo(t) : c.column # "date_sent"
    BY LinkColumns DEF ConnectionsTo
  <2>2. column # "date_sent"
    BY <1>2, <2>1
  <2> HIDE DEF column
  <2>3. DOMAIN rows = DOMAIN tables[u] /\ Comparable(rows)
    BY <2>2 DEF Comparable, WithColumn
  <2>4. Comparable(Update(u, tables[u], rows))
    BY <2>3, UpdateComparable
  <2> QED BY <1>2, <2>4 DEF Redirected, column
<1> QED BY <1>1, <1>2

LEMMA MinimumIdComparable ==
  ASSUME NEW rows, NEW offset, Comparable(rows)
  PROVE  Comparable(setMinimumId(rows, offset))
<1> DEFINE negative == Rekey(rows, LAMBDA i : -i)
           g == [i \in DOMAIN rows |-> -i]
<1>1. \/ negative = rows
      \/ /\ DOMAIN negative = {g[i] : i \in DOMAIN rows}
         /\ \A k \in DOMAIN negative : \E i \in DOMAIN rows : negative[k] = rows[i]
  BY DEF Rekey
<1> HIDE DEF negative, g
<1>2. Comparable(negative)
  BY <1>1, RekeyComparable
<1> DEFINE moved == Rekey(negative, LAMBDA i : -i + offset)
           h == [i \in DOMAIN negative |-> -i + offset]
<1>3. \/ moved = negative
      \/ /\ DOMAIN moved = {h[i] : i \in DOMAIN negative}
         /\ \A k \in DOMAIN moved : \E i \in DOMAIN negative : moved[k] = negative[i]
  BY DEF Rekey
<1> HIDE DEF moved, h
<1>4. Comparable(moved)
  BY <1>2, <1>3, RekeyComparable
<1> QED BY <1>4 DEF setMinimumId, moved, negative

LEMMA ShiftTableMessages ==
  ASSUME ShiftTable, at \in DOMAIN s_databaselinks, MessagesOk(source)
  PROVE  MessagesOk(source')
<1>1. PICK max \in getMaxUsedId(Ids(target, Link.table)), min \in getMinUsedId(Ids(source, Link.table)) :
        source' = [d_database    |-> ShiftedTables(max + 1 - min),
                   d_attachments |-> ShiftedAttachments(max + 1 - min),
                   d_avatars     |-> updateAvatars(max + 1 - min)]
  BY DEF ShiftTable
<1> DEFINE offset == max + 1 - min
           rows == IF "message" = Link.table THEN setMinimumId(Rows(source, "message"), offset)
                                             ELSE Rows(source, "message")
           column == CHOOSE c \in ConnectionIn("message") : TRUE
<1>2. source'.d_database = ShiftedTables(offset)
  BY <1>1
<1> HIDE DEF offset
<1>3. Rows(source', "message")
        = IF ConnectionIn("message") = {} THEN rows ELSE Shifted("message", rows, column, offset)
  BY <1>2 DEF ShiftedTables, Rows, Tables
<1>4. Comparable(rows)
  BY MessagesAreComparable, MinimumIdComparable
<1> HIDE DEF rows
<1>5. ConnectionIn("message") # {} => column.column # "date_sent"
  BY LinkColumns DEF ConnectionIn, Link
<1> HIDE DEF column
<1>6. Comparable(Rows(source', "message"))
  BY <1>3, <1>4, <1>5, ShiftedComparable
<1> QED BY <1>6, MessagesAreComparable

LEMMA CloseGapMessages ==
  ASSUME IInv, CloseGap, BackupOk(source), MessagesOk(source)
  PROVE  MessagesOk(source')
<1>1. PICK g \in Gaps(Ids(source, Link.table)) :
        source' = [source EXCEPT !.d_database = CompactedTables(g[1], g[2]),
                                 !.d_attachments = CompactedAttachments(g[1], g[2])]
  BY DEF CloseGap
<1> DEFINE rows == Rekey(Rows(source, Link.table), LAMBDA i : Renamed(i, g[1], g[2]))
           tables == [source.d_database EXCEPT ![Link.table] = rows]
<1>2. source'.d_database = Redirected(tables, Link.table, g[1], g[2])
  BY <1>1 DEF BackupOk, CompactedTables
<1>3. tables["message"] = IF Link.table = "message" THEN rows ELSE Rows(source, "message")
  BY DEF BackupOk, Rows, Tables
<1>4. ASSUME Link.table = "message"
      PROVE  Comparable(rows)
  <2> DEFINE h == [i \in DOMAIN Rows(source, "message") |-> Renamed(i, g[1], g[2])]
  <2>1. \/ rows = Rows(source, "message")
        \/ /\ DOMAIN rows = {h[i] : i \in DOMAIN Rows(source, "message")}
           /\ \A k \in DOMAIN rows : \E i \in DOMAIN Rows(source, "message") : rows[k] = Rows(source, "message")[i]
    BY <1>4 DEF Rekey
  <2> HIDE DEF rows, h
  <2> QED BY <2>1, MessagesAreComparable, RekeyComparable
<1> HIDE DEF rows
<1>5. Comparable(tables["message"])
  BY <1>3, <1>4, MessagesAreComparable
<1> HIDE DEF tables
<1>6. Comparable(Rows(source', "message"))
  BY <1>2, <1>5, RedirectedComparable DEF Rows, Tables
<1> QED BY <1>6, MessagesAreComparable

LEMMA MakeUniqueMessages ==
  ASSUME IInv, MakeUnique, MessagesOk(source)
  PROVE  MessagesOk(source') /\ UNCHANGED <<target, src, pc>>
<1>1. UNCHANGED <<src, pc>>
  BY DEF MakeUnique, mainVars
<1>2. CASE SkipTable
  BY <1>1, <1>2 DEF SkipTable
<1>3. CASE ShiftTable
  <2>1. at \in DOMAIN s_databaselinks
    BY <1>3, LinkTables DEF ShiftTable, IInv
  <2> QED BY <1>1, <1>3, <2>1, ShiftTableMessages DEF ShiftTable
<1>4. CASE CloseGap
  BY <1>1, <1>4, CloseGapMessages DEF IInv, CloseGap
<1>5. CASE Compacted
  BY <1>1, <1>5 DEF Compacted
<1> QED BY <1>2, <1>3, <1>4, <1>5 DEF MakeUnique, makeIdsUnique

LEMMA CropMessages ==
  ASSUME NEW b, NEW t, MessagesOk(b)
  PROVE  MessagesOk(CropToThread(b, t))
<1> DEFINE S == {i \in DOMAIN Rows(b, "message") : Rows(b, "message")[i].thread_id = t}
<1>1. Rows(CropToThread(b, t), "message") = Restrict(Rows(b, "message"), S)
  BY DEF CropToThread, Rows, Only
<1>2. Comparable(Restrict(Rows(b, "message"), S))
  BY MessagesAreComparable, FewerComparable
<1> QED BY <1>1, <1>2, MessagesAreComparable

LEMMA DroppedMessages ==
  ASSUME NEW b, NEW t \in Tables, NEW ids, BackupOk(b), MessagesOk(b)
  PROVE  MessagesOk(Dropped(b, t, ids))
<1> DEFINE c == Dropped(b, t, ids)
<1>1. c.d_database = [b.d_database EXCEPT ![t] = Restrict(@, DOMAIN @ \ ids)]
  BY DEF Dropped, BackupOk
<1>2. \/ Rows(c, "message") = Rows(b, "message")
      \/ Rows(c, "message") = Restrict(Rows(b, "message"), DOMAIN Rows(b, "message") \ ids)
  BY <1>1 DEF Rows, BackupOk, Tables
<1> HIDE DEF c
<1>3. Comparable(Rows(c, "message"))
  BY <1>2, MessagesAreComparable, FewerComparable
<1>4. MessagesOk(c)
  BY <1>3, MessagesAreComparable
<1> QED BY <1>4 DEF c

LEMMA SetThreadMessages ==
  ASSUME IInv, SetThread, MessagesOk(source)
  PROVE  MessagesOk(source')
<1>1. CASE targetthread = NULL
  BY <1>1 DEF SetThread
<1>2. CASE targetthread # NULL
  <2> DEFINE old == Rows(source, "message")
             new == WithColumn(old, "thread_id", LAMBDA v : targetthread)
  <2>1. Comparable(old)
    BY MessagesAreComparable
  <2>2. DOMAIN new = DOMAIN old /\ Comparable(new)
    BY <2>1 DEF Comparable, WithColumn
  <2>3. Rows(source', "message") = Update("message", old, new)
    BY <1>2 DEF SetThread, Rows, IInv, BackupOk, Tables
  <2> HIDE DEF old, new
  <2>4. Comparable(Rows(source', "message"))
    BY <2>1, <2>2, <2>3, UpdateComparable
  <2> QED BY <2>4, MessagesAreComparable
<1> QED BY <1>1, <1>2

LEMMA MatchRecipientMessages ==
  ASSUME IInv, MatchRecipient, MessagesOk(source)
  PROVE  MessagesOk(source')
<1>1. PICK i \in getMinUsedId(todo) :
        LET doubles == Doubles(Rows(target, "recipient")[i])
            updated == WithRecipientId(source, i, doubles)
        IN  source' = IF targetthread = NULL THEN Dropped(updated, "recipient", doubles) ELSE updated
  BY DEF MatchRecipient
<1> DEFINE doubles == Doubles(Rows(target, "recipient")[i])
           updated == WithRecipientId(source, i, doubles)
           sourceid == CHOOSE j \in doubles : TRUE
<1>2. source' = Dropped(updated, "recipient", doubles) \/ source' = updated
  BY <1>1
<1> HIDE DEF doubles, sourceid
<1>3. BackupOk(updated)
  BY WithRecipientIdIds DEF IInv, Fewer
<1>4. updated = source \/ updated.d_database = Redirected(source.d_database, "recipient", i, sourceid)
  BY DEF WithRecipientId, IInv, BackupOk, sourceid
<1> HIDE DEF updated
<1>5. Comparable(Redirected(source.d_database, "recipient", i, sourceid)["message"])
  BY MessagesAreComparable, RedirectedComparable DEF Rows, Tables
<1>6. MessagesOk(updated)
  BY <1>4, <1>5, MessagesAreComparable DEF Rows
<1> QED BY <1>2, <1>3, <1>6, DroppedMessages DEF Tables

LEMMA DropExistingMessages ==
  ASSUME IInv, DropExisting, MessagesOk(source)
  PROVE  MessagesOk(source')
<1>1. ASSUME NEW b, BackupOk(b), MessagesOk(b)
      PROVE  MessagesOk(WithoutExisting(b))
  BY <1>1, DroppedMessages DEF WithoutExisting, Tables
<1>2. ASSUME NEW b, BackupOk(b), MessagesOk(b), NEW avatars
      PROVE  BackupOk([b EXCEPT !.d_avatars = avatars]) /\ MessagesOk([b EXCEPT !.d_avatars = avatars])
  BY <1>2 DEF BackupOk, MessagesOk, Ids, Rows, Contents
<1> DEFINE kept == {a \in source.d_avatars : \A c \in target.d_avatars : a.recipient # c.recipient}
<1> DEFINE nothread == Dropped(source, "thread", Ids(source, "thread"))
<1> DEFINE doubles == UNION {Doubles(row) : row \in Contents(target, "recipient")}
<1> DEFINE norecipients == Dropped(nothread, "recipient", doubles)
<1> DEFINE new == [source EXCEPT !.d_avatars = kept]
<1> DEFINE old == [norecipients EXCEPT !.d_avatars = {}]
<1>3. source' = WithoutExisting(new) \/ source' = WithoutExisting(old)
  BY DEF DropExisting
<1> HIDE DEF doubles, kept
<1>4. BackupOk(new) /\ MessagesOk(new)
  BY <1>2 DEF IInv
<1>5. BackupOk(nothread) /\ MessagesOk(nothread)
  BY DroppedIds, DroppedMessages DEF IInv, Tables, Fewer
<1> HIDE DEF nothread, new
<1>6. BackupOk(norecipients) /\ MessagesOk(norecipients)
  BY <1>5, DroppedIds, DroppedMessages DEF Tables, Fewer
<1> HIDE DEF norecipients
<1>7. BackupOk(old) /\ MessagesOk(old)
  BY <1>2, <1>6
<1> HIDE DEF old
<1> QED BY <1>1, <1>3, <1>4, <1>7

LEMMA InsertMessages ==
  ASSUME Insert, MessagesOk(source), MessagesOk(target)
  PROVE  MessagesOk(target')
<1> DEFINE rows == Rows(target', "message")
<1>1. rows = Merged("message")
  BY DEF Insert, Rows, Tables
<1>2. DOMAIN rows \subseteq Ids(source, "message") \cup Ids(target, "message")
  BY <1>1 DEF Merged, Accepted
<1>3. \A i \in DOMAIN rows : \/ i \in Ids(source, "message") /\ rows[i] = Rows(source, "message")[i]
                             \/ i \in Ids(target, "message") /\ rows[i] = Rows(target, "message")[i]
  BY <1>1 DEF Merged, Accepted
<1> HIDE DEF rows
<1>4. IsFiniteSet(DOMAIN rows)
  <2>1. IsFiniteSet(Ids(source, "message") \cup Ids(target, "message"))
    BY FS_Union DEF MessagesOk
  <2> QED BY <1>2, <2>1, FS_Subset
<1>5. Comparable(rows)
  BY <1>3, <1>4, MessagesAreComparable DEF Comparable, Ids
<1> QED BY <1>5, MessagesAreComparable DEF rows

-----------------------------------------------------------------------------
(* The places: one for each message, by date.                                     *)
Before(rows, i, m) ==
  rows[i].date_sent < rows[m].date_sent \/ (rows[i].date_sent = rows[m].date_sent /\ i <= m)

LEMMA PlaceIs ==
  ASSUME NEW m
  PROVE  Place(m) = Cardinality({i \in Ids(target, "message") : Before(Rows(target, "message"), i, m)})
BY DEF Place, Before

LEMMA PlaceInRange ==
  ASSUME MessagesOk(target), BackupOk(target), NEW m \in Ids(target, "message")
  PROVE  Place(m) \in 1 .. Cardinality(Ids(target, "message"))
<1> DEFINE S == Ids(target, "message")
           upto == {i \in S : Before(Rows(target, "message"), i, m)}
<1>1. IsFiniteSet(S)
  BY DEF MessagesOk
<1>2. IsFiniteSet(upto) /\ Cardinality(upto) <= Cardinality(S)
  BY <1>1, FS_Subset
<1>3. m \in upto
  BY DEF Before, BackupOk, Tables
<1>4. Cardinality(upto) # 0
  BY <1>2, <1>3, FS_EmptySet
<1>5. Cardinality(upto) \in Nat /\ Cardinality(S) \in Nat
  BY <1>1, <1>2, FS_CardinalityType
<1>6. Place(m) = Cardinality(upto)
  BY PlaceIs
<1> HIDE DEF upto, S
<1>7. Place(m) \in 1 .. Cardinality(S)
  BY <1>2, <1>4, <1>5, <1>6
<1> QED BY <1>7 DEF S

LEMMA PlaceByDate ==
  ASSUME MessagesOk(target), BackupOk(target),
         NEW m \in Ids(target, "message"), NEW n \in Ids(target, "message"),
         m # n, Before(Rows(target, "message"), m, n)
  PROVE  Place(m) < Place(n)
<1> DEFINE S == Ids(target, "message")
           rows == Rows(target, "message")
           A == {i \in S : Before(rows, i, m)}
           B == {i \in S : Before(rows, i, n)}
<1>1. \A i \in S : i \in Nat /\ rows[i].date_sent \in Int
  BY MessagesAreComparable DEF Comparable, Ids, BackupOk, Tables
<1>2. A \subseteq B
  BY <1>1 DEF Before
<1>3. n \in B /\ n \notin A
  BY <1>1 DEF Before
<1>4. IsFiniteSet(B)
  BY FS_Subset DEF MessagesOk
<1>5. Place(m) = Cardinality(A) /\ Place(n) = Cardinality(B)
  BY PlaceIs
<1> HIDE DEF A, B, S, rows
<1>6. IsFiniteSet(A) /\ Cardinality(A) <= Cardinality(B) /\ Cardinality(B) # Cardinality(A)
  BY <1>2, <1>3, <1>4, FS_Subset
<1>7. Cardinality(A) \in Nat /\ Cardinality(B) \in Nat
  BY <1>4, <1>6, FS_CardinalityType
<1> QED BY <1>5, <1>6, <1>7

(* Two messages have two places, and the one with the lower place is not later.   *)
LEMMA PlacesDiffer ==
  ASSUME MessagesOk(target), BackupOk(target),
         NEW m \in Ids(target, "message"), NEW n \in Ids(target, "message"), m # n
  PROVE  /\ Place(m) # Place(n)
         /\ Place(m) < Place(n) => Rows(target, "message")[m].date_sent <= Rows(target, "message")[n].date_sent
<1> DEFINE S == Ids(target, "message")
           rows == Rows(target, "message")
<1>1. \A i \in S : i \in Nat /\ rows[i].date_sent \in Int
  BY MessagesAreComparable DEF Comparable, Ids, BackupOk, Tables
<1>2. Place(m) \in Nat /\ Place(n) \in Nat
  <2>1. Cardinality(Ids(target, "message")) \in Nat
    BY FS_CardinalityType DEF MessagesOk
  <2> QED BY <2>1, PlaceInRange
<1>3. CASE Before(rows, m, n)
  <2>1. Place(m) < Place(n)
    BY <1>3, PlaceByDate
  <2> QED BY <1>1, <1>2, <1>3, <2>1 DEF Before
<1>4. CASE ~ Before(rows, m, n)
  <2>1. Before(rows, n, m)
    BY <1>1, <1>4 DEF Before
  <2>2. Place(n) < Place(m)
    BY <2>1, PlaceByDate
  <2> QED BY <1>2, <2>2
<1> QED BY <1>3, <1>4

LEMMA PlacesFill ==
  ASSUME MessagesOk(target), BackupOk(target)
  PROVE  {Place(m) : m \in Ids(target, "message")} = 1 .. Cardinality(Ids(target, "message"))
<1> DEFINE S == Ids(target, "message")
           N == Cardinality(S)
           f == [m \in S |-> Place(m)]
<1>1. IsFiniteSet(S) /\ N \in Nat
  BY FS_CardinalityType DEF MessagesOk
<1>2. IsFiniteSet(1 .. N) /\ Cardinality(1 .. N) = N
  BY <1>1, FS_Interval
<1>3. f \in [S -> 1 .. N]
  BY PlaceInRange
<1>4. \A m, n \in S : f[m] = f[n] => m = n
  BY PlacesDiffer
<1>5. f \in Injection(S, 1 .. N)
  BY <1>3, <1>4 DEF Injection, IsInjective
<1> HIDE DEF f
<1>6. f \in Surjection(S, 1 .. N)
  BY <1>1, <1>2, <1>5, FS_Injection
<1>7. \A k \in 1 .. N : \E m \in S : f[m] = k
  BY <1>6 DEF Surjection
<1>8. {f[m] : m \in S} = 1 .. N
  BY <1>3, <1>7
<1> QED BY <1>8 DEF f

-----------------------------------------------------------------------------
(* The two halves of the reordering: numbered by date, below zero and above.       *)
Reversed(rows) ==
  \E n \in Nat : /\ DOMAIN rows = {-k : k \in 1 .. n}
                 /\ \A i, j \in DOMAIN rows : i < j => rows[j].date_sent <= rows[i].date_sent

Numbered(rows) ==
  \E n \in Nat : /\ DOMAIN rows = 1 .. n
                 /\ \A i, j \in DOMAIN rows : i < j => rows[i].date_sent <= rows[j].date_sent

LEMMA ReorderDownMessages ==
  ASSUME ReorderDown, BackupOk(target), MessagesOk(target)
  PROVE  MessagesOk(target') /\ Reversed(Rows(target', "message"))
<1> DEFINE old == Rows(target, "message")
           S == Ids(target, "message")
           rows == Rekey(old, Negated)
           new == Rows(target', "message")
<1>1. new = EachColumn(rows, {"original_message_id"}, Negated)
  BY DEF ReorderDown, Rows, BackupOk, Tables, ReorderedColumns
<1>2. Comparable(old) /\ S = DOMAIN old
  BY MessagesAreComparable DEF Ids
<1>3. Cardinality(S) \in Nat
  BY FS_CardinalityType DEF MessagesOk
<1>4. \A i \in S : Negated(i) = -Place(i) /\ Place(i) \in 1 .. Cardinality(S) /\ i \in Nat \ {0}
  BY PlaceInRange DEF Negated, BackupOk, Tables
<1>5. \A i, j \in S : Negated(i) = Negated(j) => i = j
  <2> SUFFICES ASSUME NEW i \in S, NEW j \in S, i # j PROVE Negated(i) # Negated(j)
    OBVIOUS
  <2>1. Place(i) # Place(j)
    BY PlacesDiffer
  <2>2. Place(i) \in Nat /\ Place(j) \in Nat
    BY <1>3, <1>4
  <2> QED BY <1>4, <2>1, <2>2
<1>6. ~ \E i, j \in S : i < j /\ Negated(i) \in {j, Negated(j)}
  BY <1>3, <1>4, <1>5
<1> HIDE DEF S, new
<1>7. /\ DOMAIN rows = {Negated(i) : i \in S}
      /\ \A k \in DOMAIN rows : rows[k] = old[CHOOSE i \in S : Negated(i) = k]
  BY <1>2, <1>6 DEF Rekey
<1>8. \A k \in DOMAIN rows : \E i \in S : k = -Place(i) /\ rows[k] = old[i]
  <2> SUFFICES ASSUME NEW k \in DOMAIN rows PROVE \E i \in S : k = -Place(i) /\ rows[k] = old[i]
    OBVIOUS
  <2>1. \E i \in S : Negated(i) = k
    BY <1>7
  <2> DEFINE i == CHOOSE m \in S : Negated(m) = k
  <2>2. i \in S /\ Negated(i) = k
    BY <2>1
  <2>3. rows[k] = old[i]
    BY <1>7
  <2> HIDE DEF i
  <2> QED BY <1>4, <2>2, <2>3
<1> DEFINE g == [i \in DOMAIN old |-> Negated(i)]
<1>9. DOMAIN rows = {g[i] : i \in DOMAIN old}
  BY <1>2, <1>7
<1> HIDE DEF rows, old, g
<1>10. Comparable(rows)
  BY <1>2, <1>8, <1>9, RekeyComparable
<1>11. /\ DOMAIN new = DOMAIN rows
       /\ \A k \in DOMAIN rows : DOMAIN new[k] = DOMAIN rows[k] /\ new[k].date_sent = rows[k].date_sent
  BY <1>1, <1>10 DEF EachColumn, Comparable, UniqueColumns
<1>12. Comparable(new)
  BY <1>10, <1>11 DEF Comparable
<1>13. DOMAIN new = {-k : k \in 1 .. Cardinality(S)}
  <2>1. DOMAIN new = {-Place(i) : i \in S}
    BY <1>4, <1>7, <1>11
  <2>2. {Place(i) : i \in S} = 1 .. Cardinality(S)
    BY PlacesFill DEF S
  <2> QED BY <2>1, <2>2
<1>14. ASSUME NEW k \in DOMAIN new, NEW l \in DOMAIN new, k < l
       PROVE  new[l].date_sent <= new[k].date_sent
  <2>1. PICK i \in S : k = -Place(i) /\ rows[k] = old[i]
    BY <1>8, <1>11
  <2>2. PICK j \in S : l = -Place(j) /\ rows[l] = old[j]
    BY <1>8, <1>11
  <2>3. Place(i) \in Nat /\ Place(j) \in Nat
    BY <1>3, <1>4
  <2>4. Place(j) < Place(i) /\ i # j
    BY <1>14, <2>1, <2>2, <2>3
  <2>5. old[j].date_sent <= old[i].date_sent
    BY <2>4, PlacesDiffer DEF S, old
  <2> QED BY <1>11, <2>1, <2>2, <2>5
<1>15. Reversed(new)
  BY <1>3, <1>13, <1>14 DEF Reversed
<1> QED BY <1>12, <1>15, MessagesAreComparable DEF new

(* The columns two messages may not agree in are not among those that change.      *)
LEMMA ReorderUpMessages ==
  ASSUME ReorderUp, OthersOk(target), MessagesOk(target), Reversed(Rows(target, "message"))
  PROVE  MessagesOk(target') /\ Numbered(Rows(target', "message"))
<1> DEFINE old == Rows(target, "message")
           rows == Rekey(old, Restored)
           each == EachColumn(rows, {"original_message_id"}, Restored)
           new == Rows(target', "message")
<1>1. new = Update("message", rows, each)
  BY DEF ReorderUp, Rows, OthersOk, Tables, ReorderedColumns
<1>2. Comparable(old)
  BY MessagesAreComparable
<1>3. PICK n \in Nat :
        /\ DOMAIN old = {-k : k \in 1 .. n}
        /\ \A i, j \in DOMAIN old : i < j => old[j].date_sent <= old[i].date_sent
  BY DEF Reversed
<1>4. \A i \in DOMAIN old : i \in Int /\ i < 0 /\ Restored(i) = -i /\ -i \in 1 .. n
  BY <1>3 DEF Restored
<1>5. ~ \E i, j \in DOMAIN old : i < j /\ Restored(i) \in {j, Restored(j)}
  BY <1>4
<1> HIDE DEF old, new
<1>6. /\ DOMAIN rows = {Restored(i) : i \in DOMAIN old}
      /\ \A k \in DOMAIN rows : rows[k] = old[CHOOSE i \in DOMAIN old : Restored(i) = k]
  BY <1>5 DEF Rekey
<1>7. DOMAIN rows = 1 .. n
  <2>1. \A k \in 1 .. n : -k \in DOMAIN old /\ Restored(-k) = k
    BY <1>3, <1>4
  <2> QED BY <1>4, <1>6, <2>1
<1>8. \A k \in 1 .. n : -k \in DOMAIN old /\ rows[k] = old[-k]
  <2> SUFFICES ASSUME NEW k \in 1 .. n PROVE -k \in DOMAIN old /\ rows[k] = old[-k]
    OBVIOUS
  <2>1. -k \in DOMAIN old
    BY <1>3
  <2>2. \A i \in DOMAIN old : Restored(i) = k <=> i = -k
    BY <1>4
  <2>3. (CHOOSE i \in DOMAIN old : Restored(i) = k) = -k
    BY <2>1, <2>2
  <2> QED BY <1>6, <1>7, <2>1, <2>3
<1> HIDE DEF rows
<1>9. Comparable(rows)
  <2>1. IsFiniteSet(1 .. n)
    BY FS_Interval
  <2>2. \A k \in 1 .. n : UniqueColumns("message") \subseteq DOMAIN rows[k] /\ rows[k].date_sent \in Int
    BY <1>2, <1>8 DEF Comparable
  <2> QED BY <1>7, <2>1, <2>2 DEF Comparable
<1>10. /\ DOMAIN each = DOMAIN rows
       /\ \A k \in DOMAIN rows : /\ DOMAIN each[k] = DOMAIN rows[k]
                                 /\ \A c \in UniqueColumns("message") : each[k][c] = rows[k][c]
  BY <1>9 DEF EachColumn, Comparable, UniqueColumns
<1>11. \A k \in DOMAIN rows : each[k].date_sent = rows[k].date_sent
  BY <1>10 DEF UniqueColumns
<1>12. Comparable(each)
  BY <1>9, <1>10, <1>11 DEF Comparable
<1> HIDE DEF each
<1>13. \A i, j \in DOMAIN rows : ~ Meets("message", rows, each, i, j)
  BY <1>10 DEF Meets, Key
<1>14. Displaced("message", rows, each) = {}
  BY <1>13, Zenon DEF Displaced
<1>15. new = Restrict(each, DOMAIN each)
  BY <1>1, <1>14 DEF Update
<1>16. DOMAIN new = 1 .. n /\ \A k \in 1 .. n : new[k] = each[k]
  BY <1>7, <1>10, <1>15 DEF Restrict
<1>17. Comparable(new)
  BY <1>7, <1>10, <1>12, <1>16 DEF Comparable
<1>18. ASSUME NEW i \in 1 .. n, NEW j \in 1 .. n, i < j
       PROVE  new[i].date_sent <= new[j].date_sent
  <2>1. -j < -i /\ -i \in DOMAIN old /\ -j \in DOMAIN old
    BY <1>8, <1>18
  <2>2. old[-i].date_sent <= old[-j].date_sent
    BY <1>3, <2>1
  <2> QED BY <1>7, <1>8, <1>11, <1>16, <2>2
<1>19. Numbered(new)
  BY <1>16, <1>18 DEF Numbered
<1> QED BY <1>17, <1>19, MessagesAreComparable DEF new

-----------------------------------------------------------------------------
MessagesInv ==
  /\ MessagesOk(src) /\ MessagesOk(source) /\ MessagesOk(target)
  /\ pc = "reorder" => Reversed(Rows(target, "message"))
  /\ pc = "done" => Numbered(Rows(target, "message"))

LEMMA MessagesStart == Init => MessagesInv
<1> SUFFICES ASSUME Init PROVE MessagesInv
  OBVIOUS
<1>1. PICK input \in Inputs : target = input.target /\ src = input.source /\ source = input.source
  BY DEF Init
<1> QED BY <1>1, ImportAssumption DEF InputOk, Init, MessagesInv

LEMMA IdleMessages ==
  ASSUME MessagesInv, MessagesOk(source'), UNCHANGED <<target, src>>, pc' \notin {"reorder", "done"}
  PROVE  MessagesInv'
BY DEF MessagesInv, MessagesOk, Ids, Rows, Contents

LEMMA MessagesInvariance == IInv /\ FramesInv /\ MessagesInv /\ [Next]_vars => MessagesInv'
<1> SUFFICES ASSUME IInv, FramesInv, MessagesInv, [Next]_vars PROVE MessagesInv'
  OBVIOUS
<1> USE DEF Return
<1>0. MessagesOk(src) /\ MessagesOk(source) /\ MessagesOk(target)
  BY DEF MessagesInv
<1>1. CASE Incompatible
  BY <1>0, <1>1, IdleMessages DEF Incompatible, idVars
<1>2. CASE SkipThread
  BY <1>0, <1>2, IdleMessages DEF SkipThread, idVars
<1>3. CASE Crop
  BY <1>0, <1>3, CropMessages, IdleMessages DEF Crop
<1>4. CASE MakeUnique
  BY <1>0, <1>4, MakeUniqueMessages, IdleMessages DEF MakeUnique
<1>5. CASE SetThread
  BY <1>0, <1>5, SetThreadMessages, IdleMessages DEF SetThread
<1>6. CASE MatchRecipient
  BY <1>0, <1>6, MatchRecipientMessages, IdleMessages DEF MatchRecipient
<1>7. CASE DropExisting
  BY <1>0, <1>7, DropExistingMessages, IdleMessages DEF DropExisting
<1>8. CASE Insert
  BY <1>0, <1>8, InsertMessages DEF Insert, MessagesInv, MessagesOk, Ids, Rows, Contents
<1>9. CASE checkDbIntegrity
  BY <1>0, <1>9, IdleMessages DEF checkDbIntegrity, idVars
<1>10. CASE ReorderDown
  <2>1. MessagesOk(target') /\ Reversed(Rows(target', "message"))
    BY <1>0, <1>10, ReorderDownMessages DEF ReorderDown, IInv
  <2>2. UNCHANGED <<source, src>> /\ pc' = "reorder"
    BY <1>10 DEF ReorderDown
  <2> QED BY <1>0, <2>1, <2>2 DEF MessagesInv
<1>11. CASE ReorderUp
  <2>1. MessagesOk(target') /\ Numbered(Rows(target', "message"))
    BY <1>0, <1>11, ReorderUpMessages DEF ReorderUp, FramesInv, MessagesInv
  <2>2. UNCHANGED <<source, src>> /\ pc' = "done"
    BY <1>11 DEF ReorderUp
  <2> QED BY <1>0, <2>1, <2>2 DEF MessagesInv
<1>12. CASE UNCHANGED vars
  BY <1>12 DEF vars, idVars, mainVars, MessagesInv
<1> QED BY <1>1, <1>2, <1>3, <1>4, <1>5, <1>6, <1>7, <1>8, <1>9, <1>10, <1>11, <1>12 DEF Next

LEMMA ImportInvariants == Spec => [](IInv /\ FramesInv /\ MessagesInv)
BY Initially, Invariance, FramesStart, FramesInvariance, MessagesStart, MessagesInvariance, PTL DEF Spec

(* For every pair of backups: in the end the messages are numbered from 1 on, one *)
(* number each, and no message has a number below that of an earlier one.         *)
THEOREM OrderedByDate == Spec => []InDateOrder
<1>1. MessagesInv => InDateOrder
  <2> SUFFICES ASSUME MessagesInv, pc = "done" PROVE InDateOrder
    BY DEF InDateOrder
  <2> DEFINE message == Rows(target, "message")
  <2>1. PICK n \in Nat : /\ DOMAIN message = 1 .. n
                         /\ \A i, j \in DOMAIN message : i < j => message[i].date_sent <= message[j].date_sent
    BY DEF MessagesInv, Numbered
  <2>2. Cardinality(DOMAIN message) = n
    BY <2>1, FS_Interval
  <2> QED BY <2>1, <2>2 DEF InDateOrder
<1> QED BY <1>1, ImportInvariants, PTL

-----------------------------------------------------------------------------
(* The state main keeps between its steps: recipients are left to be matched only *)
(* while they are, and while a thread is imported there is one.                  *)
MainOk ==
  /\ at \in 1 .. 7
  /\ pc \in {"pick", "unique", "recipients", "insert", "check", "reorder", "done", "aborted"}
  /\ threads \in Seq(Int) /\ targetthread \in Int
  /\ pc \in {"unique", "recipients", "insert", "check"} => threads # <<>>
  /\ pc # "recipients" => todo = {}
  /\ todo \subseteq Ids(target, "recipient")

LEMMA FoundThreadIsId ==
  ASSUME BackupOk(target)
  PROVE  FoundThread \in Int
<1> DEFINE matches == Candidates(RecipientOf(src, thread))
           found == UNION {getThreadIdFromRecipient(i) : i \in matches}
<1>1. found \subseteq Int
  BY DEF getThreadIdFromRecipient, BackupOk, Tables
<1>2. FoundThread = IF Cardinality(matches) = 1 /\ Cardinality(found) = 1
                    THEN CHOOSE t \in found : TRUE ELSE NULL
  BY DEF FoundThread
<1> HIDE DEF matches, found
<1>3. ASSUME Cardinality(found) = 1 PROVE found # {}
  BY <1>3, FS_EmptySet
<1>4. CASE Cardinality(matches) = 1 /\ Cardinality(found) = 1
  <2>1. (CHOOSE t \in found : TRUE) \in found
    BY <1>3, <1>4
  <2>2. FoundThread = CHOOSE t \in found : TRUE
    BY <1>2, <1>4
  <2> QED BY <1>1, <2>1, <2>2
<1>5. CASE ~ (Cardinality(matches) = 1 /\ Cardinality(found) = 1)
  BY <1>2, <1>5 DEF NULL
<1> QED BY <1>4, <1>5

LEMMA MainInvariance == IInv /\ FramesInv /\ MainOk /\ [Next]_vars => MainOk'
<1> SUFFICES ASSUME IInv, FramesInv, MainOk, [Next]_vars PROVE MainOk'
  OBVIOUS
<1>1. ASSUME NEW ok, Return(ok), threads # <<>>, pc \notin {"recipients"},
             UNCHANGED <<idVars, targetthread, todo>>
      PROVE  MainOk'
  <2>1. Tail(threads) \in Seq(Int)
    BY <1>1 DEF MainOk
  <2> QED BY <1>1, <2>1 DEF MainOk, Return, idVars, Ids, Rows
<1>2. CASE Incompatible
  BY <1>1, <1>2 DEF Incompatible
<1>3. CASE SkipThread
  BY <1>1, <1>3 DEF SkipThread
<1>4. CASE Crop
  <2>1. targetthread' \in Int
    BY <1>4, FoundThreadIsId DEF Crop, IInv
  <2> QED BY <1>4, <2>1 DEF Crop, MainOk, Ids, Rows
<1>5. CASE MakeUnique
  <2>1. at' \in 1 .. 7 /\ target' = target
    <3>1. compacting => at <= 6
      BY LinkTables DEF IInv
    <3>2. CASE SkipTable
      BY <3>2, LinkTables DEF SkipTable, MainOk
    <3>3. CASE ShiftTable
      BY <3>3, LinkTables DEF ShiftTable, MainOk
    <3>4. CASE CloseGap
      BY <3>4 DEF CloseGap, MainOk
    <3>5. CASE Compacted
      BY <3>1, <3>5 DEF Compacted, MainOk
    <3> QED BY <1>5, <3>2, <3>3, <3>4, <3>5 DEF MakeUnique, makeIdsUnique
  <2> QED BY <1>5, <2>1 DEF MakeUnique, mainVars, MainOk, Ids, Rows
<1>6. CASE SetThread
  BY <1>6 DEF SetThread, MainOk, Ids, Rows
<1>7. CASE MatchRecipient
  BY <1>7 DEF MatchRecipient, MainOk, Ids, Rows
<1>8. CASE DropExisting
  BY <1>8 DEF DropExisting, MainOk, Ids, Rows
<1>9. CASE Insert
  BY <1>9 DEF Insert, MainOk
<1>10. CASE checkDbIntegrity
  BY <1>1, <1>10 DEF checkDbIntegrity, MainOk
<1>11. CASE ReorderDown
  BY <1>11 DEF ReorderDown, MainOk
<1>12. CASE ReorderUp
  BY <1>12 DEF ReorderUp, MainOk
<1>13. CASE UNCHANGED vars
  BY <1>13 DEF vars, idVars, mainVars, MainOk, Ids, Rows
<1> QED BY <1>2, <1>3, <1>4, <1>5, <1>6, <1>7, <1>8, <1>9, <1>10, <1>11, <1>12, <1>13 DEF Next

(* Every import keeps its types; in particular no _id is negative when the          *)
(* reordering is done, whatever the rows were numbered before it.                  *)
THEOREM ImportTypeCorrect == Spec => []TypeOK
<1>1. Init => MainOk
  <2> SUFFICES ASSUME Init PROVE MainOk
    OBVIOUS
  <2>1. threads \in Seq(Int)
    BY ImportAssumption DEF Init
  <2> QED BY <2>1 DEF Init, MainOk, NULL
<1>2. Spec => []MainOk
  BY <1>1, MainInvariance, ImportInvariants, PTL DEF Spec
<1>3. IInv /\ FramesInv /\ MessagesInv /\ MainOk => TypeOK
  <2> SUFFICES ASSUME IInv, FramesInv, MessagesInv, MainOk PROVE TypeOK
    OBVIOUS
  <2>1. pc # "reorder" => BackupOk(target)
    <3>1. CASE pc = "done"
      <4>1. Ids(target, "message") \subseteq Nat \ {0}
        BY <3>1 DEF MessagesInv, Numbered, Ids
      <4> QED BY <4>1 DEF FramesInv, OthersOk, BackupOk
    <3> QED BY <3>1 DEF IInv
  <2>2. \A b \in {target, source} : /\ DOMAIN b.d_attachments \subseteq Nat \ {0}
                                    /\ \A a \in b.d_avatars : a.recipient \in Nat \ {0}
    BY DEF FramesInv, FramesOk
  <2>3. at \in 1 .. Len(s_databaselinks) + 1
    BY LinkTables DEF MainOk
  <2>4. compacting \in BOOLEAN
    BY DEF IInv
  <2> QED BY <2>1, <2>2, <2>3, <2>4 DEF IInv, MainOk, TypeOK
<1> QED BY <1>2, <1>3, ImportInvariants, PTL

-----------------------------------------------------------------------------
(* Renumbering keeps the links *)

(* Column x of table u refers to table t.                                        *)
Follows(t, u, x) == \E k \in ConnectionsTo(t) : k.table = u /\ k.column = x

(* The columns that do.                                                          *)
LEMMA FollowsAre ==
  ASSUME NEW t \in Tables, NEW u, NEW x
  PROVE  Follows(t, u, x) <=>
           \/ t = "thread" /\ u = "message" /\ x = "thread_id"
           \/ t = "message" /\ \/ u = "attachment" /\ x = "message_id"
                               \/ u = "reaction" /\ x = "message_id"
                               \/ u = "message" /\ x = "original_message_id"
                               \/ u = "thread" /\ x = "snippet_message_id"
           \/ t = "attachment" /\ u = "message" /\ x = "link_previews"
           \/ t = "recipient" /\ \/ u = "message" /\ x = "from_recipient_id"
                                 \/ u = "thread" /\ x = "recipient_id"
                                 \/ u = "reaction" /\ x = "author_id"
                                 \/ u = "group_membership" /\ x = "recipient_id"
<1>1. /\ s_databaselinks[1].table = "thread"
      /\ s_databaselinks[1].connections = {Connection("message", "thread_id")}
      /\ s_databaselinks[2].table = "message"
      /\ s_databaselinks[2].connections = {Connection("attachment", "message_id"),
                       Connection("reaction", "message_id"),
                       Connection("message", "original_message_id"),
                       Connection("thread", "snippet_message_id")}
      /\ s_databaselinks[3].table = "attachment"
      /\ s_databaselinks[3].connections = {JsonConnection("message", "link_previews")}
      /\ s_databaselinks[4].table = "recipient"
      /\ s_databaselinks[4].connections = {Connection("message", "from_recipient_id"),
                       Connection("thread", "recipient_id"),
                       Connection("reaction", "author_id"),
                       UniqueConnection("group_membership", "recipient_id")}
      /\ s_databaselinks[5].table = "reaction" /\ s_databaselinks[5].connections = {}
      /\ s_databaselinks[6].table = "group_membership" /\ s_databaselinks[6].connections = {}
  BY DEF s_databaselinks
<1>2. DOMAIN s_databaselinks = {1, 2, 3, 4, 5, 6}
  <2>1. DOMAIN s_databaselinks = 1 .. 6
    BY LinkTables
  <2> QED
    BY <2>1
<1>3. \A k : k \in ConnectionsTo(t) <=>
        \E i \in {1, 2, 3, 4, 5, 6} : s_databaselinks[i].table = t /\ k \in s_databaselinks[i].connections
  BY <1>2, Zenon DEF ConnectionsTo
<1>4. /\ \A a, y : Connection(a, y).table = a /\ Connection(a, y).column = y
      /\ \A a, y : JsonConnection(a, y).table = a /\ JsonConnection(a, y).column = y
      /\ \A a, y : UniqueConnection(a, y).table = a /\ UniqueConnection(a, y).column = y
  BY DEF Connection, JsonConnection, UniqueConnection
<1>5. CASE t = "thread"
  <2>1. \A k : k \in ConnectionsTo(t) <=> k = Connection("message", "thread_id")
    BY <1>1, <1>3, <1>5
  <2> QED
    BY <1>4, <1>5, <2>1 DEF Follows
<1>6. CASE t = "message"
  <2>1. \A k : k \in ConnectionsTo(t) <=> k \in s_databaselinks[2].connections
    BY <1>1, <1>3, <1>6
  <2> QED
    BY <1>1, <1>4, <1>6, <2>1 DEF Follows
<1>7. CASE t = "attachment"
  <2>1. \A k : k \in ConnectionsTo(t) <=> k = JsonConnection("message", "link_previews")
    BY <1>1, <1>3, <1>7
  <2> QED
    BY <1>4, <1>7, <2>1 DEF Follows
<1>8. CASE t = "recipient"
  <2>1. \A k : k \in ConnectionsTo(t) <=> k \in s_databaselinks[4].connections
    BY <1>1, <1>3, <1>8
  <2> QED
    BY <1>1, <1>4, <1>8, <2>1 DEF Follows
<1>9. CASE t \in {"reaction", "group_membership"}
  <2>1. \A k : k \notin ConnectionsTo(t)
    BY <1>1, <1>3, <1>9
  <2> QED
    BY <1>9, <2>1 DEF Follows
<1> QED
  BY <1>5, <1>6, <1>7, <1>8, <1>9 DEF Tables

(* A column refers to one table, and a table has one column for each.            *)
LEMMA FollowsOne ==
  ASSUME NEW t \in Tables, NEW u, NEW x, Follows(t, u, x)
  PROVE  /\ u \in Tables /\ x \in ColumnsOf(u)
         /\ x \notin {"who", "date_sent", "group_id"}
         /\ \A v \in Tables : Follows(v, u, x) => v = t
         /\ \A y : Follows(t, u, y) => y = x
<1>1. u \in Tables
  BY FollowsAre DEF Tables
<1>2. x \in ColumnsOf(u)
  <2>1. PICK k \in ConnectionsTo(t) : k.table = u /\ k.column = x
    BY DEF Follows
  <2>2. k \in Connections
    BY <2>1, Zenon DEF ConnectionsTo, Connections
  <2> QED
    BY <2>1, <2>2 DEF ColumnsOf
<1>3. x \notin {"who", "date_sent", "group_id"}
  BY FollowsAre
<1>4. \A v \in Tables : Follows(v, u, x) => v = t
  BY FollowsAre
<1>5. \A y : Follows(t, u, y) => y = x
  BY FollowsAre
<1> QED
  BY <1>1, <1>2, <1>3, <1>4, <1>5

(* The rows that make up the facts are of tables, under columns there are.       *)
LEMMA ColumnsThere ==
  /\ {"who", "recipient_id"} \subseteq ColumnsOf("thread")
  /\ {"who", "date_sent", "thread_id", "from_recipient_id", "link_previews", "original_message_id"}
       \subseteq ColumnsOf("message")
  /\ {"who", "message_id"} \subseteq ColumnsOf("attachment")
  /\ "who" \in ColumnsOf("recipient")
  /\ {"who", "message_id", "author_id"} \subseteq ColumnsOf("reaction")
  /\ {"group_id", "recipient_id"} \subseteq ColumnsOf("group_membership")
<1>1. \A u, t, x : t \in Tables /\ Follows(t, u, x) => x \in ColumnsOf(u)
  BY FollowsOne
<1>2. Tables = {"thread", "message", "attachment", "recipient", "reaction", "group_membership"}
  BY DEF Tables
<1>3. /\ Follows("recipient", "thread", "recipient_id")
      /\ Follows("thread", "message", "thread_id")
      /\ Follows("recipient", "message", "from_recipient_id")
      /\ Follows("attachment", "message", "link_previews")
      /\ Follows("message", "message", "original_message_id")
      /\ Follows("message", "attachment", "message_id")
      /\ Follows("message", "reaction", "message_id")
      /\ Follows("recipient", "reaction", "author_id")
      /\ Follows("recipient", "group_membership", "recipient_id")
  BY <1>2, FollowsAre
<1>4. \A u : "who" \in ColumnsOf(u)
  BY DEF ColumnsOf
<1>5. "date_sent" \in ColumnsOf("message") /\ "group_id" \in ColumnsOf("group_membership")
  BY DEF ColumnsOf, UniqueColumns
<1> QED
  BY <1>1, <1>2, <1>3, <1>4, <1>5

(* The rows with column x of each mapped by f.                                   *)
Mapped(rows, x, f) == [k \in DOMAIN rows |-> [rows[k] EXCEPT ![x] = f[rows[k][x]]]]

UniqueIn(u, rows) ==
  \A i, j \in DOMAIN rows : UniqueColumns(u) # {} /\ Key(u, rows[i]) = Key(u, rows[j]) => i = j

(* A map that takes no two values to one, and changes none to one that is there.  *)
Mappable(u, rows, x, f) ==
  /\ \A k \in DOMAIN rows : x \in DOMAIN rows[k] /\ UniqueColumns(u) \subseteq DOMAIN rows[k]
  /\ UniqueIn(u, rows)
  /\ \A k, l \in DOMAIN rows : f[rows[k][x]] = f[rows[l][x]] => rows[k][x] = rows[l][x]
  /\ x \in UniqueColumns(u) =>
       \A k, l \in DOMAIN rows : f[rows[k][x]] # rows[k][x] => f[rows[k][x]] # rows[l][x]

(* Two rows have the same key when they agree in the unique columns.              *)
LEMMA KeyEqual ==
  ASSUME NEW u, NEW r, NEW s
  PROVE  Key(u, r) = Key(u, s) <=> \A c \in UniqueColumns(u) : r[c] = s[c]
<1>1. ASSUME Key(u, r) = Key(u, s), NEW c \in UniqueColumns(u)
      PROVE  r[c] = s[c]
  <2>1. Key(u, r)[c] = r[c] /\ Key(u, s)[c] = s[c]
    BY DEF Key
  <2> QED
    BY <1>1, <2>1
<1>2. ASSUME \A c \in UniqueColumns(u) : r[c] = s[c]
      PROVE  Key(u, r) = Key(u, s)
  BY <1>2 DEF Key
<1> QED
  BY <1>1, <1>2

(* Mapping a column changes that column alone.                                    *)
LEMMA MappedValues ==
  ASSUME NEW rows, NEW x, NEW f, NEW k \in DOMAIN rows
  PROVE  /\ DOMAIN Mapped(rows, x, f) = DOMAIN rows
         /\ DOMAIN Mapped(rows, x, f)[k] = DOMAIN rows[k]
         /\ x \in DOMAIN rows[k] => Mapped(rows, x, f)[k][x] = f[rows[k][x]]
         /\ \A y \in DOMAIN rows[k] : y # x => Mapped(rows, x, f)[k][y] = rows[k][y]
BY DEF Mapped

(* An UPDATE with such a map meets no UNIQUE constraint on the way.               *)
LEMMA UpdateMapped ==
  ASSUME NEW u, NEW rows, NEW x, NEW f, Mappable(u, rows, x, f)
  PROVE  /\ Update(u, rows, Mapped(rows, x, f)) = Mapped(rows, x, f)
         /\ UniqueIn(u, Mapped(rows, x, f))
<1>1. PICK new : new = Mapped(rows, x, f)
  OBVIOUS
<1>2. DOMAIN new = DOMAIN rows
  BY <1>1 DEF Mapped
<1>3. \A k \in DOMAIN rows :
         /\ x \in UniqueColumns(u) => new[k][x] = f[rows[k][x]]
         /\ \A y \in UniqueColumns(u) : y # x => new[k][y] = rows[k][y]
  BY <1>1, MappedValues DEF Mappable
<1>4. ASSUME NEW i \in DOMAIN rows, NEW j \in DOMAIN rows, UniqueColumns(u) # {},
             Key(u, new[i]) = Key(u, new[j])
      PROVE  i = j
  <2>1. \A c \in UniqueColumns(u) : new[i][c] = new[j][c]
    BY <1>4, KeyEqual
  <2>2. \A c \in UniqueColumns(u) : rows[i][c] = rows[j][c]
    BY <1>3, <2>1 DEF Mappable
  <2>3. Key(u, rows[i]) = Key(u, rows[j])
    BY <2>2, KeyEqual
  <2> QED
    BY <1>4, <2>3 DEF Mappable, UniqueIn
<1>5. ASSUME NEW i \in DOMAIN rows, NEW j \in DOMAIN rows, Meets(u, rows, new, i, j)
      PROVE  FALSE
  <2>1. UniqueColumns(u) # {} /\ i # j /\ Key(u, new[i]) # Key(u, rows[i])
    BY <1>5 DEF Meets
  <2>2. Key(u, new[i]) = Key(u, new[j]) \/ Key(u, new[i]) = Key(u, rows[j])
    BY <1>5 DEF Meets
  <2>3. Key(u, new[i]) = Key(u, rows[j])
    BY <1>4, <2>1, <2>2
  <2>4. x \in UniqueColumns(u) /\ new[i][x] # rows[i][x]
    <3>1. PICK c \in UniqueColumns(u) : new[i][c] # rows[i][c]
      BY <2>1, KeyEqual
    <3>2. c = x
      BY <1>3, <3>1
    <3> QED
      BY <3>1, <3>2
  <2>5. new[i][x] = rows[j][x]
    BY <2>3, <2>4, KeyEqual
  <2> QED
    BY <1>3, <2>4, <2>5 DEF Mappable
<1>6. \A i, j \in DOMAIN rows : ~ Meets(u, rows, new, i, j)
  BY <1>5
<1>7. Displaced(u, rows, new) = {}
  BY <1>6, Zenon DEF Displaced
<1>8. new = [k \in DOMAIN new |-> new[k]]
  BY <1>1 DEF Mapped
<1>9. Update(u, rows, new) = new
  BY <1>7, <1>8 DEF Update, Restrict
<1>10. UniqueIn(u, new)
  BY <1>2, <1>4 DEF UniqueIn
<1> QED
  BY <1>1, <1>9, <1>10

(* Table t of backup b is renumbered by f, and everything that refers to it       *)
(* follows: c is what becomes of b.                                              *)
Goes(t, f, u, i) == IF u = t THEN f[i] ELSE i

Injects(f, S) ==
  /\ f[NULL] = NULL
  /\ \A i, j \in S \cup {NULL} : f[i] = f[j] => i = j

RowsGo(b, c, t, f, u) ==
  /\ \A k : k \in Ids(c, u) <=> \E i \in Ids(b, u) : k = Goes(t, f, u, i)
  /\ \A i \in Ids(b, u) :
       /\ DOMAIN Rows(c, u)[Goes(t, f, u, i)] = DOMAIN Rows(b, u)[i]
       /\ \A x \in ColumnsOf(u) :
            Rows(c, u)[Goes(t, f, u, i)][x]
              = IF Follows(t, u, x) THEN f[Rows(b, u)[i][x]] ELSE Rows(b, u)[i][x]

DataGoes(b, c, t, f) ==
  /\ \A k : k \in DOMAIN c.d_attachments
              <=> \E i \in DOMAIN b.d_attachments : k = Goes(t, f, "attachment", i)
  /\ \A i \in DOMAIN b.d_attachments :
       c.d_attachments[Goes(t, f, "attachment", i)] = b.d_attachments[i]

AvatarsGo(b, c, t, f) ==
  /\ \A a \in b.d_avatars : \E e \in c.d_avatars :
       e.recipient = Goes(t, f, "recipient", a.recipient) /\ e.picture = a.picture
  /\ \A e \in c.d_avatars : \E a \in b.d_avatars :
       e.recipient = Goes(t, f, "recipient", a.recipient) /\ e.picture = a.picture

Renumbers(b, c, t, f) ==
  /\ Injects(f, Ids(b, t))
  /\ \A u \in Tables : RowsGo(b, c, t, f, u)
  /\ DataGoes(b, c, t, f)
  /\ AvatarsGo(b, c, t, f)

(* The name of a row that is referred to stays.                                  *)
LEMMA NameStays ==
  ASSUME NEW b, NEW c, NEW t \in Tables, NEW f, Renumbers(b, c, t, f), BackupOk(b),
         NEW u \in Tables, NEW i \in Ids(b, u) \cup {NULL}
  PROVE  Name(c, u, Goes(t, f, u, i)) = Name(b, u, i)
<1>1. RowsGo(b, c, t, f, u) /\ Injects(f, Ids(b, t)) /\ Ids(b, u) \subseteq Nat \ {0}
  BY DEF Renumbers, BackupOk
<1>2. CASE i = NULL
  <2>1. Goes(t, f, u, i) = NULL
    BY <1>1, <1>2 DEF Goes, Injects
  <2> QED
    BY <1>2, <2>1 DEF Name
<1>3. CASE i # NULL
  <2>1. i \in Ids(b, u)
    BY <1>3
  <2>2. Goes(t, f, u, i) # NULL
    BY <1>1, <1>3, <2>1 DEF Goes, Injects
  <2>3. Goes(t, f, u, i) \in Ids(c, u)
    BY <1>1, <2>1 DEF RowsGo
  <2>4. "who" \in ColumnsOf(u)
    BY DEF ColumnsOf
  <2>5. ~ Follows(t, u, "who")
    BY FollowsOne
  <2>6. Rows(c, u)[Goes(t, f, u, i)].who = Rows(b, u)[i].who
    BY <1>1, <2>1, <2>4, <2>5 DEF RowsGo
  <2>7. Name(b, u, i) = Rows(b, u)[i].who
    BY <1>3, <2>1 DEF Name
  <2>8. Name(c, u, Goes(t, f, u, i)) = Rows(c, u)[Goes(t, f, u, i)].who
    BY <2>2, <2>3 DEF Name
  <2> QED
    BY <2>6, <2>7, <2>8
<1> QED
  BY <1>2, <1>3

(* A reference goes where its row goes, and keeps its name.                       *)
LEMMA ReferenceGoes ==
  ASSUME NEW b, NEW c, NEW t \in Tables, NEW f, Renumbers(b, c, t, f), BackupOk(b), RefersWithin(b),
         NEW u \in Tables, NEW v \in Tables, NEW x, Follows(v, u, x), NEW i \in Ids(b, u)
  PROVE  /\ Rows(b, u)[i][x] \in Ids(b, v) \cup {NULL}
         /\ Rows(c, u)[Goes(t, f, u, i)][x] = Goes(t, f, v, Rows(b, u)[i][x])
<1>1. PICK k \in ConnectionsTo(v) : k.table = u /\ k.column = x
  BY DEF Follows
<1>2. Rows(b, u)[i] \in Contents(b, u)
  BY DEF Contents, Range, Ids
<1>3. Rows(b, u)[i][x] \in Ids(b, v) \cup {NULL}
  BY <1>1, <1>2 DEF RefersWithin
<1>4. x \in ColumnsOf(u) /\ (Follows(t, u, x) <=> t = v)
  BY FollowsOne
<1>5. Rows(c, u)[Goes(t, f, u, i)][x] = Goes(t, f, v, Rows(b, u)[i][x])
  <2>1. RowsGo(b, c, t, f, u)
    BY DEF Renumbers
  <2>2. Rows(c, u)[Goes(t, f, u, i)][x]
          = IF Follows(t, u, x) THEN f[Rows(b, u)[i][x]] ELSE Rows(b, u)[i][x]
    BY <1>4, <2>1 DEF RowsGo
  <2> QED
    BY <1>4, <2>2 DEF Goes
<1> QED
  BY <1>3, <1>5

(* The rows of c are those of b, gone to where they go.                           *)
LEMMA RowsCorrespond ==
  ASSUME NEW b, NEW c, NEW t \in Tables, NEW f, Renumbers(b, c, t, f), NEW u \in Tables
  PROVE  /\ \A r \in Contents(b, u) : \E i \in Ids(b, u) :
              r = Rows(b, u)[i] /\ Rows(c, u)[Goes(t, f, u, i)] \in Contents(c, u)
         /\ \A s \in Contents(c, u) : \E i \in Ids(b, u) :
              s = Rows(c, u)[Goes(t, f, u, i)] /\ Rows(b, u)[i] \in Contents(b, u)
<1>1. \A k : k \in Ids(c, u) <=> \E i \in Ids(b, u) : k = Goes(t, f, u, i)
  BY DEF Renumbers, RowsGo
<1>2. \A d, r : r \in Contents(d, u) <=> \E k \in Ids(d, u) : r = Rows(d, u)[k]
  BY DEF Contents, Range, Ids
<1> QED
  BY <1>1, <1>2

(* The columns that hold no reference stay as they are.                          *)
LEMMA OthersStay ==
  ASSUME NEW b, NEW c, NEW t \in Tables, NEW f, Renumbers(b, c, t, f)
  PROVE  \A u \in Tables : \A i \in Ids(b, u) :
           /\ Rows(c, u)[Goes(t, f, u, i)].who = Rows(b, u)[i].who
           /\ u = "message" => Rows(c, u)[Goes(t, f, u, i)].date_sent = Rows(b, u)[i].date_sent
           /\ u = "group_membership" => Rows(c, u)[Goes(t, f, u, i)].group_id = Rows(b, u)[i].group_id
<1> SUFFICES ASSUME NEW u \in Tables, NEW i \in Ids(b, u)
             PROVE  /\ Rows(c, u)[Goes(t, f, u, i)].who = Rows(b, u)[i].who
                    /\ u = "message" => Rows(c, u)[Goes(t, f, u, i)].date_sent = Rows(b, u)[i].date_sent
                    /\ u = "group_membership" => Rows(c, u)[Goes(t, f, u, i)].group_id = Rows(b, u)[i].group_id
  OBVIOUS
<1>1. \A x \in ColumnsOf(u) : ~ Follows(t, u, x) =>
         Rows(c, u)[Goes(t, f, u, i)][x] = Rows(b, u)[i][x]
  BY DEF Renumbers, RowsGo
<1>2. ~ Follows(t, u, "who") /\ ~ Follows(t, u, "date_sent") /\ ~ Follows(t, u, "group_id")
  BY FollowsOne
<1>3. "who" \in ColumnsOf(u)
  BY DEF ColumnsOf
<1>4. (u = "message" => "date_sent" \in ColumnsOf(u)) /\ (u = "group_membership" => "group_id" \in ColumnsOf(u))
  BY DEF ColumnsOf, UniqueColumns
<1> QED
  BY <1>1, <1>2, <1>3, <1>4

(* A column that refers to a row names the same row as before.                    *)
LEMMA NamesStay ==
  ASSUME NEW b, NEW c, NEW t \in Tables, NEW f, Renumbers(b, c, t, f), BackupOk(b), RefersWithin(b)
  PROVE  \A u, v \in Tables : \A x : Follows(v, u, x) => \A i \in Ids(b, u) :
           Name(c, v, Rows(c, u)[Goes(t, f, u, i)][x]) = Name(b, v, Rows(b, u)[i][x])
<1> SUFFICES ASSUME NEW u \in Tables, NEW v \in Tables, NEW x, Follows(v, u, x), NEW i \in Ids(b, u)
             PROVE  Name(c, v, Rows(c, u)[Goes(t, f, u, i)][x]) = Name(b, v, Rows(b, u)[i][x])
  OBVIOUS
<1>1. PICK old, new : old = Rows(b, u)[i][x] /\ new = Rows(c, u)[Goes(t, f, u, i)][x]
  OBVIOUS
<1>2. old \in Ids(b, v) \cup {NULL} /\ new = Goes(t, f, v, old)
  BY <1>1, ReferenceGoes
<1>3. Name(c, v, Goes(t, f, v, old)) = Name(b, v, old)
  BY <1>2, NameStays
<1> QED
  BY <1>1, <1>2, <1>3

(* What a backup says, table by table: of the threads with whom they are,          *)
LEMMA ThreadFactsStay ==
  ASSUME NEW b, NEW c, NEW t \in Tables, NEW f, Renumbers(b, c, t, f), BackupOk(b), RefersWithin(b)
  PROVE  Facts(c).thread = Facts(b).thread
<1> DEFINE E(d, r) == [who |-> r.who, recipient |-> Name(d, "recipient", r.recipient_id)]
<1>1. "thread" \in Tables
  BY DEF Tables
<1>2. ASSUME NEW i \in Ids(b, "thread")
      PROVE  E(c, Rows(c, "thread")[Goes(t, f, "thread", i)]) = E(b, Rows(b, "thread")[i])
  <2>1. Rows(c, "thread")[Goes(t, f, "thread", i)].who = Rows(b, "thread")[i].who
    BY <1>1, <1>2, OthersStay
  <2>2. Name(c, "recipient", Rows(c, "thread")[Goes(t, f, "thread", i)].recipient_id)
          = Name(b, "recipient", Rows(b, "thread")[i].recipient_id)
    <3>1. Follows("recipient", "thread", "recipient_id")
         /\ "thread" \in Tables /\ "recipient" \in Tables
      BY FollowsAre DEF Tables
    <3> QED
      BY <1>2, <3>1, NamesStay
  <2> QED
    BY <2>1, <2>2
<1>3. Facts(c).thread = {E(c, r) : r \in Contents(c, "thread")}
      /\ Facts(b).thread = {E(b, r) : r \in Contents(b, "thread")}
  BY DEF Facts
<1> HIDE DEF E
<1> QED
  BY <1>1, <1>2, <1>3, RowsCorrespond

(* of the messages who wrote them where, their preview and what they revise,       *)
LEMMA MessageFactsStay ==
  ASSUME NEW b, NEW c, NEW t \in Tables, NEW f, Renumbers(b, c, t, f), BackupOk(b), RefersWithin(b)
  PROVE  Facts(c).message = Facts(b).message
<1> DEFINE E(d, r) == [who |-> r.who,
                       date_sent |-> r.date_sent,
                       thread |-> Name(d, "thread", r.thread_id),
                       from |-> Name(d, "recipient", r.from_recipient_id),
                       preview |-> Name(d, "attachment", r.link_previews),
                       original |-> Name(d, "message", r.original_message_id)]
<1>1. "message" \in Tables
  BY DEF Tables
<1>2. ASSUME NEW i \in Ids(b, "message")
      PROVE  E(c, Rows(c, "message")[Goes(t, f, "message", i)]) = E(b, Rows(b, "message")[i])
  <2>1. Rows(c, "message")[Goes(t, f, "message", i)].who = Rows(b, "message")[i].who
    BY <1>1, <1>2, OthersStay
  <2>2. Rows(c, "message")[Goes(t, f, "message", i)].date_sent = Rows(b, "message")[i].date_sent
    BY <1>1, <1>2, OthersStay
  <2>3. Name(c, "thread", Rows(c, "message")[Goes(t, f, "message", i)].thread_id)
          = Name(b, "thread", Rows(b, "message")[i].thread_id)
    <3>1. Follows("thread", "message", "thread_id") /\ "message" \in Tables /\ "thread" \in Tables
      BY FollowsAre DEF Tables
    <3> QED
      BY <1>2, <3>1, NamesStay
  <2>4. Name(c, "recipient", Rows(c, "message")[Goes(t, f, "message", i)].from_recipient_id)
          = Name(b, "recipient", Rows(b, "message")[i].from_recipient_id)
    <3>1. Follows("recipient", "message", "from_recipient_id")
         /\ "message" \in Tables /\ "recipient" \in Tables
      BY FollowsAre DEF Tables
    <3> QED
      BY <1>2, <3>1, NamesStay
  <2>5. Name(c, "attachment", Rows(c, "message")[Goes(t, f, "message", i)].link_previews)
          = Name(b, "attachment", Rows(b, "message")[i].link_previews)
    <3>1. Follows("attachment", "message", "link_previews")
         /\ "message" \in Tables /\ "attachment" \in Tables
      BY FollowsAre DEF Tables
    <3> QED
      BY <1>2, <3>1, NamesStay
  <2>6. Name(c, "message", Rows(c, "message")[Goes(t, f, "message", i)].original_message_id)
          = Name(b, "message", Rows(b, "message")[i].original_message_id)
    <3>1. Follows("message", "message", "original_message_id") /\ "message" \in Tables
      BY FollowsAre DEF Tables
    <3> QED
      BY <1>2, <3>1, NamesStay
  <2> QED
    BY <2>1, <2>2, <2>3, <2>4, <2>5, <2>6
<1>3. Facts(c).message = {E(c, r) : r \in Contents(c, "message")}
      /\ Facts(b).message = {E(b, r) : r \in Contents(b, "message")}
  BY DEF Facts
<1> HIDE DEF E
<1> QED
  BY <1>1, <1>2, <1>3, RowsCorrespond

(* of the attachments their message,                                              *)
LEMMA AttachmentFactsStay ==
  ASSUME NEW b, NEW c, NEW t \in Tables, NEW f, Renumbers(b, c, t, f), BackupOk(b), RefersWithin(b)
  PROVE  Facts(c).attachment = Facts(b).attachment
<1> DEFINE E(d, r) == [who |-> r.who, message |-> Name(d, "message", r.message_id)]
<1>1. "attachment" \in Tables
  BY DEF Tables
<1>2. ASSUME NEW i \in Ids(b, "attachment")
      PROVE  E(c, Rows(c, "attachment")[Goes(t, f, "attachment", i)])
                  = E(b, Rows(b, "attachment")[i])
  <2>1. Rows(c, "attachment")[Goes(t, f, "attachment", i)].who = Rows(b, "attachment")[i].who
    BY <1>1, <1>2, OthersStay
  <2>2. Name(c, "message", Rows(c, "attachment")[Goes(t, f, "attachment", i)].message_id)
          = Name(b, "message", Rows(b, "attachment")[i].message_id)
    <3>1. Follows("message", "attachment", "message_id")
         /\ "attachment" \in Tables /\ "message" \in Tables
      BY FollowsAre DEF Tables
    <3> QED
      BY <1>2, <3>1, NamesStay
  <2> QED
    BY <2>1, <2>2
<1>3. Facts(c).attachment = {E(c, r) : r \in Contents(c, "attachment")}
      /\ Facts(b).attachment = {E(b, r) : r \in Contents(b, "attachment")}
  BY DEF Facts
<1> HIDE DEF E
<1> QED
  BY <1>1, <1>2, <1>3, RowsCorrespond

(* of the reactions their message and author,                                      *)
LEMMA ReactionFactsStay ==
  ASSUME NEW b, NEW c, NEW t \in Tables, NEW f, Renumbers(b, c, t, f), BackupOk(b), RefersWithin(b)
  PROVE  Facts(c).reaction = Facts(b).reaction
<1> DEFINE E(d, r) == [who |-> r.who,
                       message |-> Name(d, "message", r.message_id),
                       author |-> Name(d, "recipient", r.author_id)]
<1>1. "reaction" \in Tables
  BY DEF Tables
<1>2. ASSUME NEW i \in Ids(b, "reaction")
      PROVE  E(c, Rows(c, "reaction")[Goes(t, f, "reaction", i)]) = E(b, Rows(b, "reaction")[i])
  <2>1. Rows(c, "reaction")[Goes(t, f, "reaction", i)].who = Rows(b, "reaction")[i].who
    BY <1>1, <1>2, OthersStay
  <2>2. Name(c, "message", Rows(c, "reaction")[Goes(t, f, "reaction", i)].message_id)
          = Name(b, "message", Rows(b, "reaction")[i].message_id)
    <3>1. Follows("message", "reaction", "message_id")
         /\ "reaction" \in Tables /\ "message" \in Tables
      BY FollowsAre DEF Tables
    <3> QED
      BY <1>2, <3>1, NamesStay
  <2>3. Name(c, "recipient", Rows(c, "reaction")[Goes(t, f, "reaction", i)].author_id)
          = Name(b, "recipient", Rows(b, "reaction")[i].author_id)
    <3>1. Follows("recipient", "reaction", "author_id")
         /\ "reaction" \in Tables /\ "recipient" \in Tables
      BY FollowsAre DEF Tables
    <3> QED
      BY <1>2, <3>1, NamesStay
  <2> QED
    BY <2>1, <2>2, <2>3
<1>3. Facts(c).reaction = {E(c, r) : r \in Contents(c, "reaction")}
      /\ Facts(b).reaction = {E(b, r) : r \in Contents(b, "reaction")}
  BY DEF Facts
<1> HIDE DEF E
<1> QED
  BY <1>1, <1>2, <1>3, RowsCorrespond

(* of the memberships their group and member,                                      *)
LEMMA MembershipFactsStay ==
  ASSUME NEW b, NEW c, NEW t \in Tables, NEW f, Renumbers(b, c, t, f), BackupOk(b), RefersWithin(b)
  PROVE  Facts(c).membership = Facts(b).membership
<1> DEFINE E(d, r) == [group |-> r.group_id, member |-> Name(d, "recipient", r.recipient_id)]
<1>1. "group_membership" \in Tables
  BY DEF Tables
<1>2. ASSUME NEW i \in Ids(b, "group_membership")
      PROVE  E(c, Rows(c, "group_membership")[Goes(t, f, "group_membership", i)])
                  = E(b, Rows(b, "group_membership")[i])
  <2>1. Rows(c, "group_membership")[Goes(t, f, "group_membership", i)].group_id
          = Rows(b, "group_membership")[i].group_id
    BY <1>1, <1>2, OthersStay
  <2>2. Name(c, "recipient", Rows(c, "group_membership")[Goes(t, f, "group_membership", i)].recipient_id)
          = Name(b, "recipient", Rows(b, "group_membership")[i].recipient_id)
    <3>1. Follows("recipient", "group_membership", "recipient_id")
         /\ "group_membership" \in Tables /\ "recipient" \in Tables
      BY FollowsAre DEF Tables
    <3> QED
      BY <1>2, <3>1, NamesStay
  <2> QED
    BY <2>1, <2>2
<1>3. Facts(c).membership = {E(c, r) : r \in Contents(c, "group_membership")}
      /\ Facts(b).membership = {E(b, r) : r \in Contents(b, "group_membership")}
  BY DEF Facts
<1> HIDE DEF E
<1> QED
  BY <1>1, <1>2, <1>3, RowsCorrespond

(* of the recipients who they are,                                                 *)
LEMMA RecipientFactsStay ==
  ASSUME NEW b, NEW c, NEW t \in Tables, NEW f, Renumbers(b, c, t, f), BackupOk(b)
  PROVE  Facts(c).recipient = Facts(b).recipient
<1>1. "recipient" \in Tables
  BY DEF Tables
<1>2. \A i \in Ids(b, "recipient") :
         Rows(c, "recipient")[Goes(t, f, "recipient", i)].who = Rows(b, "recipient")[i].who
  BY <1>1, OthersStay
<1>3. Facts(c).recipient = {r.who : r \in Contents(c, "recipient")}
      /\ Facts(b).recipient = {r.who : r \in Contents(b, "recipient")}
  BY DEF Facts
<1> QED
  BY <1>1, <1>2, <1>3, RowsCorrespond

(* of the data of attachments its row,                                             *)
LEMMA DataFactsStay ==
  ASSUME NEW b, NEW c, NEW t \in Tables, NEW f, Renumbers(b, c, t, f), BackupOk(b), HaveRows(b)
  PROVE  Facts(c).data = Facts(b).data
<1> DEFINE E(d, i) == [row |-> Name(d, "attachment", i), data |-> d.d_attachments[i]]
<1>1. DataGoes(b, c, t, f)
  BY DEF Renumbers
<1>2. ASSUME NEW i \in DOMAIN b.d_attachments
      PROVE  E(c, Goes(t, f, "attachment", i)) = E(b, i)
  <2>1. "attachment" \in Tables /\ i \in Ids(b, "attachment") \cup {NULL}
    BY <1>2 DEF HaveRows, Tables
  <2>2. Name(c, "attachment", Goes(t, f, "attachment", i)) = Name(b, "attachment", i)
    BY <2>1, NameStays
  <2>3. c.d_attachments[Goes(t, f, "attachment", i)] = b.d_attachments[i]
    BY <1>1, <1>2 DEF DataGoes
  <2> QED
    BY <2>2, <2>3
<1>3. Facts(c).data = {E(c, i) : i \in DOMAIN c.d_attachments}
      /\ Facts(b).data = {E(b, i) : i \in DOMAIN b.d_attachments}
  BY DEF Facts
<1> HIDE DEF E
<1> QED
  BY <1>1, <1>2, <1>3 DEF DataGoes

(* of the avatars whose they are.                                                 *)
LEMMA AvatarFactsStay ==
  ASSUME NEW b, NEW c, NEW t \in Tables, NEW f, Renumbers(b, c, t, f), BackupOk(b), HaveRows(b)
  PROVE  Facts(c).avatar = Facts(b).avatar
<1> DEFINE E(d, a) == [of |-> Name(d, "recipient", a.recipient), picture |-> a.picture]
<1>1. AvatarsGo(b, c, t, f)
  BY DEF Renumbers
<1>2. ASSUME NEW a \in b.d_avatars, NEW e \in c.d_avatars,
             e.recipient = Goes(t, f, "recipient", a.recipient) /\ e.picture = a.picture
      PROVE  E(c, e) = E(b, a)
  <2>1. "recipient" \in Tables /\ a.recipient \in Ids(b, "recipient") \cup {NULL}
    BY <1>2 DEF HaveRows, Tables
  <2>2. Name(c, "recipient", Goes(t, f, "recipient", a.recipient)) = Name(b, "recipient", a.recipient)
    BY <2>1, NameStays
  <2> QED
    BY <1>2, <2>2
<1>3. Facts(c).avatar = {E(c, a) : a \in c.d_avatars} /\ Facts(b).avatar = {E(b, a) : a \in b.d_avatars}
  BY DEF Facts
<1> HIDE DEF E
<1> QED
  BY <1>1, <1>2, <1>3 DEF AvatarsGo

(* Renumbering changes no fact.                                                  *)
LEMMA FactsStay ==
  ASSUME NEW b, NEW c, NEW t \in Tables, NEW f, Renumbers(b, c, t, f), BackupOk(b), RefersWithin(b),
         HaveRows(b)
  PROVE  Facts(c) = Facts(b)
<1>1. Facts(c).thread = Facts(b).thread
  BY ThreadFactsStay
<1>2. Facts(c).message = Facts(b).message
  BY MessageFactsStay
<1>3. Facts(c).attachment = Facts(b).attachment
  BY AttachmentFactsStay
<1>4. Facts(c).recipient = Facts(b).recipient
  BY RecipientFactsStay
<1>5. Facts(c).reaction = Facts(b).reaction
  BY ReactionFactsStay
<1>6. Facts(c).membership = Facts(b).membership
  BY MembershipFactsStay
<1>7. Facts(c).data = Facts(b).data
  BY DataFactsStay
<1>8. Facts(c).avatar = Facts(b).avatar
  BY AvatarFactsStay
<1>9. \A d : Facts(d) = [thread |-> Facts(d).thread, message |-> Facts(d).message,
                        attachment |-> Facts(d).attachment, recipient |-> Facts(d).recipient,
                        reaction |-> Facts(d).reaction, membership |-> Facts(d).membership,
                        data |-> Facts(d).data, avatar |-> Facts(d).avatar]
  BY DEF Facts
<1> QED
  BY <1>1, <1>2, <1>3, <1>4, <1>5, <1>6, <1>7, <1>8, <1>9, Zenon

(* All messages are of one thread, as they are after cropping.                    *)
OneThread(b) == \A m, n \in Contents(b, "message") : m.thread_id = n.thread_id

(* A row of c comes from one of b.                                                *)
LEMMA RowsCome ==
  ASSUME NEW b, NEW c, NEW t \in Tables, NEW f, Renumbers(b, c, t, f), NEW u \in Tables,
         NEW s \in Contents(c, u)
  PROVE  \E i \in Ids(b, u) : s = Rows(c, u)[Goes(t, f, u, i)] /\ Rows(b, u)[i] \in Contents(b, u)
BY RowsCorrespond

(* Renumbered rows have their columns, and no two the same unique ones.            *)
LEMMA RowsStayOk ==
  ASSUME NEW b, NEW c, NEW t \in Tables, NEW f, Renumbers(b, c, t, f), BackupOk(b), RowsOk(b),
         RefersWithin(b)
  PROVE  RowsOk(c)
<1> SUFFICES ASSUME NEW u \in Tables, NEW k \in Ids(c, u), NEW l \in Ids(c, u)
             PROVE  /\ ColumnsOf(u) \subseteq DOMAIN Rows(c, u)[k]
                    /\ UniqueColumns(u) # {} /\ Key(u, Rows(c, u)[k]) = Key(u, Rows(c, u)[l]) => k = l
  BY DEF RowsOk
<1>1. RowsGo(b, c, t, f, u) /\ Injects(f, Ids(b, t))
  BY DEF Renumbers
<1>2. PICK i \in Ids(b, u) : k = Goes(t, f, u, i)
  BY <1>1 DEF RowsGo
<1>3. PICK j \in Ids(b, u) : l = Goes(t, f, u, j)
  BY <1>1 DEF RowsGo
<1>4. ColumnsOf(u) \subseteq DOMAIN Rows(c, u)[k]
  <2>1. ColumnsOf(u) \subseteq DOMAIN Rows(b, u)[i]
    BY DEF RowsOk
  <2>2. DOMAIN Rows(c, u)[k] = DOMAIN Rows(b, u)[i]
    BY <1>1, <1>2 DEF RowsGo
  <2> QED
    BY <2>1, <2>2
<1>5. ASSUME UniqueColumns(u) # {}, Key(u, Rows(c, u)[k]) = Key(u, Rows(c, u)[l])
      PROVE  k = l
  <2>1. ASSUME NEW y \in UniqueColumns(u)
        PROVE  Rows(b, u)[i][y] = Rows(b, u)[j][y]
    <3>1. y \in ColumnsOf(u)
      BY DEF ColumnsOf
    <3>2. Rows(c, u)[k][y] = Rows(c, u)[l][y]
      BY <1>5, KeyEqual
    <3>3. CASE ~ Follows(t, u, y)
      BY <1>1, <1>2, <1>3, <3>1, <3>2, <3>3 DEF RowsGo
    <3>4. CASE Follows(t, u, y)
      <4>1. PICK v, w : v = Rows(b, u)[i][y] /\ w = Rows(b, u)[j][y]
        OBVIOUS
      <4>2. v \in Ids(b, t) \cup {NULL} /\ w \in Ids(b, t) \cup {NULL}
        BY <3>4, <4>1, ReferenceGoes
      <4>3. Rows(c, u)[k][y] = f[v] /\ Rows(c, u)[l][y] = f[w]
        BY <1>1, <1>2, <1>3, <3>1, <3>4, <4>1 DEF RowsGo
      <4> QED
        BY <1>1, <3>2, <4>1, <4>2, <4>3 DEF Injects
    <3> QED
      BY <3>3, <3>4
  <2>2. Key(u, Rows(b, u)[i]) = Key(u, Rows(b, u)[j])
    BY <2>1, KeyEqual
  <2>3. i = j
    BY <1>5, <2>2 DEF RowsOk
  <2> QED
    BY <1>2, <1>3, <2>3
<1> QED
  BY <1>4, <1>5

(* What a backup refers to is there after the renumbering,                        *)
LEMMA ReferencesStayWithin ==
  ASSUME NEW b, NEW c, NEW t \in Tables, NEW f, Renumbers(b, c, t, f), BackupOk(b), RefersWithin(b)
  PROVE  RefersWithin(c)
<1> SUFFICES ASSUME NEW v \in Tables, NEW n \in ConnectionsTo(v), NEW row \in Contents(c, n.table)
             PROVE  row[n.column] \in Ids(c, v) \cup {NULL}
  BY DEF RefersWithin
<1>1. PICK u, x : u = n.table /\ x = n.column
  OBVIOUS
<1>2. Follows(v, u, x) /\ u \in Tables
  <2>1. Follows(v, u, x)
    BY <1>1 DEF Follows
  <2> QED
    BY <2>1, FollowsOne
<1>3. PICK i \in Ids(b, u) : row = Rows(c, u)[Goes(t, f, u, i)]
  <2>1. row \in Contents(c, u)
    BY <1>1
  <2> QED
    BY <1>2, <2>1, RowsCome
<1>4. PICK old : old = Rows(b, u)[i][x]
  OBVIOUS
<1>5. old \in Ids(b, v) \cup {NULL} /\ row[x] = Goes(t, f, v, old)
  BY <1>2, <1>3, <1>4, ReferenceGoes
<1>6. old \in Ids(b, v) => Goes(t, f, v, old) \in Ids(c, v)
  BY DEF Renumbers, RowsGo
<1>7. Goes(t, f, v, NULL) = NULL
  BY DEF Renumbers, Injects, Goes
<1> QED
  BY <1>1, <1>5, <1>6, <1>7

(* its messages are of one thread yet,                                             *)
LEMMA ThreadStaysOne ==
  ASSUME NEW b, NEW c, NEW t \in Tables, NEW f, Renumbers(b, c, t, f), BackupOk(b), RefersWithin(b),
         OneThread(b)
  PROVE  OneThread(c)
<1>1. PICK u, v, x : u = "message" /\ v = "thread" /\ x = "thread_id"
  OBVIOUS
<1>2. u \in Tables /\ v \in Tables /\ Follows(v, u, x)
  BY <1>1, FollowsAre DEF Tables
<1>3. \A d : OneThread(d) <=> \A m, n \in Contents(d, u) : m[x] = n[x]
  BY <1>1 DEF OneThread
<1>4. ASSUME NEW i \in Ids(b, u)
      PROVE  Rows(c, u)[Goes(t, f, u, i)][x] = Goes(t, f, v, Rows(b, u)[i][x])
  <2>1. RowsGo(b, c, t, f, u)
    BY <1>2 DEF Renumbers
  <2>2. x \in ColumnsOf(u) /\ (Follows(t, u, x) <=> t = v)
    BY <1>2, FollowsOne
  <2> QED
    BY <1>4, <2>1, <2>2 DEF RowsGo, Goes
<1>5. ASSUME NEW m \in Contents(c, u), NEW n \in Contents(c, u)
      PROVE  m[x] = n[x]
  <2>1. PICK i \in Ids(b, u) : m = Rows(c, u)[Goes(t, f, u, i)] /\ Rows(b, u)[i] \in Contents(b, u)
    BY <1>2, RowsCome
  <2>2. PICK j \in Ids(b, u) : n = Rows(c, u)[Goes(t, f, u, j)] /\ Rows(b, u)[j] \in Contents(b, u)
    BY <1>2, RowsCome
  <2>3. m[x] = Goes(t, f, v, Rows(b, u)[i][x])
    BY <1>4, <2>1
  <2>4. n[x] = Goes(t, f, v, Rows(b, u)[j][x])
    BY <1>4, <2>2
  <2>5. Rows(b, u)[i][x] = Rows(b, u)[j][x]
    BY <1>3, <2>1, <2>2
  <2> QED
    BY <2>3, <2>4, <2>5
<1> QED
  BY <1>3, <1>5

(* and none has a preview that had none.                                           *)
LEMMA NoPreviewAppears ==
  ASSUME NEW b, NEW c, NEW t \in Tables, NEW f, Renumbers(b, c, t, f), BackupOk(b), RefersWithin(b),
         HasPreview(c)
  PROVE  HasPreview(b)
<1>1. PICK u, v, x : u = "message" /\ v = "attachment" /\ x = "link_previews"
  OBVIOUS
<1>2. u \in Tables /\ v \in Tables /\ Follows(v, u, x)
  BY <1>1, FollowsAre DEF Tables
<1>3. \A d : HasPreview(d) <=> \E m \in Contents(d, u) : m[x] # NULL
  BY <1>1 DEF HasPreview
<1>4. ASSUME NEW i \in Ids(b, u)
      PROVE  Rows(c, u)[Goes(t, f, u, i)][x] = Goes(t, f, v, Rows(b, u)[i][x])
  <2>1. RowsGo(b, c, t, f, u)
    BY <1>2 DEF Renumbers
  <2>2. x \in ColumnsOf(u) /\ (Follows(t, u, x) <=> t = v)
    BY <1>2, FollowsOne
  <2> QED
    BY <1>4, <2>1, <2>2 DEF RowsGo, Goes
<1>5. PICK m \in Contents(c, u) : m[x] # NULL
  BY <1>3
<1>6. PICK i \in Ids(b, u) : m = Rows(c, u)[Goes(t, f, u, i)] /\ Rows(b, u)[i] \in Contents(b, u)
  BY <1>2, RowsCome
<1>7. m[x] = Goes(t, f, v, Rows(b, u)[i][x])
  BY <1>6, <1>4
<1>8. Goes(t, f, v, NULL) = NULL
  BY DEF Renumbers, Injects, Goes
<1> QED
  BY <1>3, <1>5, <1>6, <1>7, <1>8

-----------------------------------------------------------------------------
(* The columns that refer to the table that is renumbered are those of its link.  *)
LEMMA LinksOfTable ==
  ASSUME NEW i \in 1 .. 6
  PROVE  ConnectionsTo(s_databaselinks[i].table) = s_databaselinks[i].connections
<1>1. DOMAIN s_databaselinks = 1 .. 6
  BY LinkTables
<1>2. /\ s_databaselinks[1].table = "thread" /\ s_databaselinks[2].table = "message"
      /\ s_databaselinks[3].table = "attachment" /\ s_databaselinks[4].table = "recipient"
      /\ s_databaselinks[5].table = "reaction" /\ s_databaselinks[6].table = "group_membership"
  BY DEF s_databaselinks
<1>3. \A k \in 1 .. 6 : k = 1 \/ k = 2 \/ k = 3 \/ k = 4 \/ k = 5 \/ k = 6
  OBVIOUS
<1>4. \A k \in 1 .. 6 : s_databaselinks[k].table = s_databaselinks[i].table => k = i
  BY <1>2, <1>3
<1>5. {j \in DOMAIN s_databaselinks : s_databaselinks[j].table = s_databaselinks[i].table} = {i}
  BY <1>1, <1>4
<1> QED
  BY <1>5 DEF ConnectionsTo

(* The one link inside a JSON value is that of previews.                          *)
LEMMA JsonLinks ==
  ASSUME NEW i \in 1 .. 6, NEW k \in s_databaselinks[i].connections
  PROVE  k.json => k.table = "message" /\ k.column = "link_previews"
<1>1. \A a, x : ~ Connection(a, x).json /\ ~ UniqueConnection(a, x).json
  BY DEF Connection, UniqueConnection
<1>2. JsonConnection("message", "link_previews").table = "message"
      /\ JsonConnection("message", "link_previews").column = "link_previews"
  BY DEF JsonConnection, Connection
<1>3. /\ \A c \in s_databaselinks[1].connections : ~ c.json
      /\ \A c \in s_databaselinks[2].connections : ~ c.json
      /\ \A c \in s_databaselinks[3].connections : c = JsonConnection("message", "link_previews")
      /\ \A c \in s_databaselinks[4].connections : ~ c.json
      /\ s_databaselinks[5].connections = {} /\ s_databaselinks[6].connections = {}
  BY <1>1 DEF s_databaselinks
<1>4. i = 1 \/ i = 2 \/ i = 3 \/ i = 4 \/ i = 5 \/ i = 6
  OBVIOUS
<1> QED
  BY <1>2, <1>3, <1>4

(* The rows move with their _ids.                                                *)
LEMMA MinimumIdRows ==
  ASSUME NEW rows, NEW offset \in Int, DOMAIN rows \subseteq Nat \ {0},
         \A i \in DOMAIN rows : i + offset > 0
  PROVE  \A i \in DOMAIN rows : setMinimumId(rows, offset)[i + offset] = rows[i]
<1> SUFFICES ASSUME NEW i \in DOMAIN rows
             PROVE  setMinimumId(rows, offset)[i + offset] = rows[i]
  OBVIOUS
<1>1. CASE offset = 0
  <2>1. i + offset = i
    BY <1>1
  <2> QED
    BY <1>1, <2>1 DEF setMinimumId
<1>2. CASE offset # 0
  <2> DEFINE negative == Rekey(rows, LAMBDA k : -k)
  <2>1. ~ \E k, l \in DOMAIN rows : k < l /\ -k \in {l, -l}
    OBVIOUS
  <2>2. /\ DOMAIN negative = {-k : k \in DOMAIN rows}
        /\ \A k \in DOMAIN rows : negative[-k] = rows[CHOOSE j \in DOMAIN rows : -j = -k]
    BY <2>1 DEF Rekey
  <2>3. \A k \in DOMAIN rows : (CHOOSE j \in DOMAIN rows : -j = -k) = k
    OBVIOUS
  <2>4. \A k \in DOMAIN rows : negative[-k] = rows[k]
    BY <2>2, <2>3
  <2> HIDE DEF negative
  <2>5. ~ \E k, l \in DOMAIN negative : k < l /\ -k + offset \in {l, -l + offset}
    <3> SUFFICES ASSUME NEW k \in DOMAIN negative, NEW l \in DOMAIN negative, k < l,
                        -k + offset = l \/ -k + offset = -l + offset
                 PROVE  FALSE
      OBVIOUS
    <3>1. PICK a \in DOMAIN rows : k = -a
      BY <2>2
    <3>2. PICK e \in DOMAIN rows : l = -e
      BY <2>2
    <3>3. a \in Nat /\ e \in Nat /\ a > 0 /\ e > 0 /\ a + offset > 0
      BY <3>1, <3>2
    <3> QED
      BY <3>1, <3>2, <3>3
  <2>6. setMinimumId(rows, offset)
          = [m \in {-k + offset : k \in DOMAIN negative}
               |-> negative[CHOOSE k \in DOMAIN negative : -k + offset = m]]
    BY <1>2, <2>5 DEF setMinimumId, Rekey, negative
  <2>7. -i \in DOMAIN negative /\ -(-i) + offset = i + offset /\ i \in Nat
    BY <2>2
  <2>8. (CHOOSE k \in DOMAIN negative : -k + offset = i + offset) = -i
    <3>1. \A k \in DOMAIN negative : k \in Int
      BY <2>2
    <3>2. \A k \in DOMAIN negative : -k + offset = i + offset => k = -i
      BY <2>7, <3>1
    <3> QED
      BY <2>7, <3>2
  <2>9. setMinimumId(rows, offset)[i + offset] = negative[-i]
    BY <2>6, <2>7, <2>8
  <2> QED
    BY <2>4, <2>9
<1> QED
  BY <1>1, <1>2

-----------------------------------------------------------------------------
(* The values of a column that is shifted.                                       *)
Shiftable(u, rows, x, offset) ==
  /\ \A k \in DOMAIN rows :
       /\ x \in DOMAIN rows[k] /\ UniqueColumns(u) \subseteq DOMAIN rows[k]
       /\ rows[k][x] \in Nat /\ (rows[k][x] # NULL => rows[k][x] + offset > 0)
  /\ UniqueIn(u, rows)
  /\ x \in UniqueColumns(u) =>
       \A k, l \in DOMAIN rows :
         Moved(rows[k][x], offset) # rows[k][x] => Moved(rows[k][x], offset) # rows[l][x]

(* Either way of shifting a column gives every reference its new value.           *)
LEMMA ShiftedMapped ==
  ASSUME NEW u, NEW rows, NEW c, NEW offset \in Int, NEW f, Shiftable(u, rows, c.column, offset),
         \A k \in DOMAIN rows : f[rows[k][c.column]] = Moved(rows[k][c.column], offset)
  PROVE  Shifted(u, rows, c, offset) = Mapped(rows, c.column, f)
<1>1. PICK x : x = c.column
  OBVIOUS
<1>2. Shiftable(u, rows, x, offset) /\ \A k \in DOMAIN rows : f[rows[k][x]] = Moved(rows[k][x], offset)
  BY <1>1
<1>3. CASE ~ c.uniquely
  <2>1. WithColumn(rows, x, LAMBDA v : Moved(v, offset)) = Mapped(rows, x, f)
    BY <1>2 DEF WithColumn, Mapped
  <2>2. Mappable(u, rows, x, f)
    <3>1. \A k, l \in DOMAIN rows : f[rows[k][x]] = f[rows[l][x]] => rows[k][x] = rows[l][x]
      BY <1>2 DEF Shiftable, Moved, NULL
    <3> QED
      BY <1>2, <3>1 DEF Shiftable, Mappable
  <2>3. Update(u, rows, Mapped(rows, x, f)) = Mapped(rows, x, f)
    BY <2>2, UpdateMapped
  <2> QED
    BY <1>1, <1>3, <2>1, <2>3 DEF Shifted
<1>4. CASE c.uniquely
  <2> DEFINE g == [v \in Int |-> -v]
             h == [v \in Int |-> Moved(-v, offset)]
  <2>1. PICK negative : negative = Mapped(rows, x, g)
    OBVIOUS
  <2>2. WithColumn(rows, x, LAMBDA v : -v) = negative
    BY <1>2, <2>1 DEF WithColumn, Mapped, Shiftable
  <2>3. Mappable(u, rows, x, g)
    <3>1. \A k, l \in DOMAIN rows :
             /\ g[rows[k][x]] = g[rows[l][x]] => rows[k][x] = rows[l][x]
             /\ g[rows[k][x]] # rows[k][x] => g[rows[k][x]] # rows[l][x]
      BY <1>2 DEF Shiftable
    <3> QED
      BY <1>2, <3>1 DEF Shiftable, Mappable
  <2>4. Update(u, rows, negative) = negative /\ UniqueIn(u, negative)
    BY <2>1, <2>3, UpdateMapped
  <2>5. /\ DOMAIN negative = DOMAIN rows
        /\ \A k \in DOMAIN rows : /\ DOMAIN negative[k] = DOMAIN rows[k]
                                  /\ negative[k] = [rows[k] EXCEPT ![x] = -rows[k][x]]
                                  /\ negative[k][x] = -rows[k][x]
    BY <1>2, <2>1 DEF Mapped, Shiftable
  <2>6. \A k \in DOMAIN rows : h[negative[k][x]] = Moved(rows[k][x], offset)
    <3>1. \A v \in Nat : -v \in Int /\ -(-v) = v
      OBVIOUS
    <3> QED
      BY <1>2, <2>5, <3>1 DEF Shiftable
  <2>7. WithColumn(negative, x, LAMBDA v : Moved(-v, offset)) = Mapped(negative, x, h)
    <3>1. \A k \in DOMAIN negative : h[negative[k][x]] = Moved(-negative[k][x], offset)
      BY <1>2, <2>5 DEF Shiftable
    <3> QED
      BY <3>1 DEF WithColumn, Mapped
  <2> HIDE DEF h
  <2>8. Mappable(u, negative, x, h)
    <3>1. \A k, l \in DOMAIN rows :
             /\ Moved(rows[k][x], offset) = Moved(rows[l][x], offset) => rows[k][x] = rows[l][x]
             /\ Moved(rows[k][x], offset) # -rows[k][x] => Moved(rows[k][x], offset) # -rows[l][x]
      BY <1>2 DEF Shiftable, Moved, NULL
    <3> QED
      BY <1>2, <2>4, <2>5, <2>6, <3>1 DEF Shiftable, Mappable
  <2>9. Update(u, negative, Mapped(negative, x, h)) = Mapped(negative, x, h)
    BY <2>8, UpdateMapped
  <2>10. \A k \in DOMAIN rows : [negative[k] EXCEPT ![x] = h[negative[k][x]]]
                                  = [rows[k] EXCEPT ![x] = f[rows[k][x]]]
    <3>1. \A r, y, d, e : [[r EXCEPT ![y] = d] EXCEPT ![y] = e] = [r EXCEPT ![y] = e]
      OBVIOUS
    <3> QED
      BY <1>2, <2>5, <2>6, <3>1
  <2>11. Mapped(negative, x, h) = Mapped(rows, x, f)
    BY <2>5, <2>10 DEF Mapped
  <2> QED
    BY <1>1, <1>4, <2>2, <2>4, <2>7, <2>9, <2>11 DEF Shifted
<1> QED
  BY <1>3, <1>4

(* The rows of table u when table t has got its new _ids, and the columns have    *)
(* not.                                                                          *)
Rekeyed(b, t, f, u, rows) ==
  /\ \A k : k \in DOMAIN rows <=> \E i \in Ids(b, u) : k = Goes(t, f, u, i)
  /\ \A i \in Ids(b, u) : rows[Goes(t, f, u, i)] = Rows(b, u)[i]

(* Such rows have the columns of the old ones, keys and references included.       *)
LEMMA RekeyedRows ==
  ASSUME NEW b, NEW t, NEW f, NEW u \in Tables, NEW rows, Rekeyed(b, t, f, u, rows), RowsOk(b),
         RefersWithin(b)
  PROVE  /\ \A k \in DOMAIN rows : ColumnsOf(u) \cup UniqueColumns(u) \subseteq DOMAIN rows[k]
         /\ UniqueIn(u, rows)
         /\ \A v \in Tables : \A x : Follows(v, u, x) =>
              \A k \in DOMAIN rows : rows[k][x] \in Ids(b, v) \cup {NULL}
<1>1. \A k \in DOMAIN rows : \E i \in Ids(b, u) : k = Goes(t, f, u, i) /\ rows[k] = Rows(b, u)[i]
  BY DEF Rekeyed
<1>2. \A k \in DOMAIN rows : ColumnsOf(u) \subseteq DOMAIN rows[k]
  BY <1>1 DEF RowsOk
<1>3. \A k \in DOMAIN rows : UniqueColumns(u) \subseteq DOMAIN rows[k]
  BY <1>2 DEF ColumnsOf
<1>4. UniqueIn(u, rows)
  <2> SUFFICES ASSUME NEW k \in DOMAIN rows, NEW l \in DOMAIN rows, UniqueColumns(u) # {},
                      Key(u, rows[k]) = Key(u, rows[l])
               PROVE  k = l
    BY DEF UniqueIn
  <2>1. PICK i \in Ids(b, u) : k = Goes(t, f, u, i) /\ rows[k] = Rows(b, u)[i]
    BY <1>1
  <2>2. PICK j \in Ids(b, u) : l = Goes(t, f, u, j) /\ rows[l] = Rows(b, u)[j]
    BY <1>1
  <2>3. i = j
    BY <2>1, <2>2 DEF RowsOk
  <2> QED
    BY <2>1, <2>2, <2>3
<1>5. ASSUME NEW v \in Tables, NEW x, Follows(v, u, x), NEW k \in DOMAIN rows
      PROVE  rows[k][x] \in Ids(b, v) \cup {NULL}
  <2>1. PICK n \in ConnectionsTo(v) : n.table = u /\ n.column = x
    BY <1>5 DEF Follows
  <2>2. rows[k] \in Contents(b, u)
    BY <1>1, <1>5 DEF Contents, Range, Ids
  <2> QED
    BY <2>1, <2>2 DEF RefersWithin
<1> QED
  BY <1>2, <1>3, <1>4, <1>5

(* New is what becomes of the rows when the column that refers to t follows: the  *)
(* one there is, or none when it would change nothing.                            *)
ColumnFollows(t, f, u, rows, new) ==
  \/ \E x : Follows(t, u, x) /\ new = Mapped(rows, x, f)
  \/ /\ new = rows
     /\ \A x : Follows(t, u, x) => \A k \in DOMAIN rows : f[rows[k][x]] = rows[k][x]

(* With the columns the table has gone over.                                      *)
LEMMA RowsFollow ==
  ASSUME NEW b, NEW c, NEW t \in Tables, NEW f, NEW u \in Tables, NEW rows,
         Rekeyed(b, t, f, u, rows), RowsOk(b),
         ColumnFollows(t, f, u, rows, Rows(c, u))
  PROVE  RowsGo(b, c, t, f, u)
<1>1. PICK new : new = Rows(c, u)
  OBVIOUS
<1>2. /\ DOMAIN new = DOMAIN rows
      /\ \A k \in DOMAIN rows :
           /\ DOMAIN new[k] = DOMAIN rows[k]
           /\ \A x \in DOMAIN rows[k] :
                new[k][x] = IF Follows(t, u, x) THEN f[rows[k][x]] ELSE rows[k][x]
  <2>1. CASE new = rows /\ \A x : Follows(t, u, x) => \A k \in DOMAIN rows : f[rows[k][x]] = rows[k][x]
    BY <2>1
  <2>2. ASSUME NEW x, Follows(t, u, x), new = Mapped(rows, x, f)
        PROVE  <1>2!1 /\ <1>2!2
    <3>1. \A y : Follows(t, u, y) => y = x
      BY <2>2, FollowsOne
    <3>2. \A k \in DOMAIN rows :
             /\ DOMAIN new[k] = DOMAIN rows[k]
             /\ x \in DOMAIN rows[k] => new[k][x] = f[rows[k][x]]
             /\ \A y \in DOMAIN rows[k] : y # x => new[k][y] = rows[k][y]
      BY <2>2, MappedValues
    <3>3. DOMAIN new = DOMAIN rows
      BY <2>2 DEF Mapped
    <3> QED
      BY <2>2, <3>1, <3>2, <3>3
  <2> QED
    BY <1>1, <2>1, <2>2 DEF ColumnFollows
<1>3. ASSUME NEW i \in Ids(b, u)
      PROVE  /\ Goes(t, f, u, i) \in DOMAIN rows /\ rows[Goes(t, f, u, i)] = Rows(b, u)[i]
             /\ ColumnsOf(u) \subseteq DOMAIN Rows(b, u)[i]
  BY <1>3 DEF Rekeyed, RowsOk
<1>4. \A k : k \in Ids(c, u) <=> \E i \in Ids(b, u) : k = Goes(t, f, u, i)
  BY <1>1, <1>2 DEF Rekeyed, Ids
<1>5. ASSUME NEW i \in Ids(b, u)
      PROVE  /\ DOMAIN new[Goes(t, f, u, i)] = DOMAIN Rows(b, u)[i]
             /\ \A x \in ColumnsOf(u) :
                  new[Goes(t, f, u, i)][x]
                    = IF Follows(t, u, x) THEN f[Rows(b, u)[i][x]] ELSE Rows(b, u)[i][x]
  BY <1>2, <1>3, <1>5
<1> QED
  BY <1>1, <1>4, <1>5 DEF RowsGo

(* What the rows of table u are like when their column for the link is shifted.    *)
ReadyToShift(u, rows, offset, f) ==
  /\ \A k \in DOMAIN rows : UniqueColumns(u) \subseteq DOMAIN rows[k]
  /\ UniqueIn(u, rows)
  /\ \A x : Follows(Link.table, u, x) => \A k \in DOMAIN rows :
       /\ x \in DOMAIN rows[k]
       /\ rows[k][x] \in Nat /\ (rows[k][x] # NULL => rows[k][x] + offset > 0)
       /\ f[rows[k][x]] = Moved(rows[k][x], offset)
  /\ \A x \in UniqueColumns(u) : Follows(Link.table, u, x) => \A k, l \in DOMAIN rows :
       Moved(rows[k][x], offset) # rows[k][x] => Moved(rows[k][x], offset) # rows[l][x]
  /\ ~ HasPreview(target) /\ u = "message" => \A k \in DOMAIN rows : rows[k].link_previews = NULL

ShiftedColumn(u, rows, offset) ==
  IF ConnectionIn(u) = {} THEN rows
                          ELSE Shifted(u, rows, CHOOSE c \in ConnectionIn(u) : TRUE, offset)

(* A column of the link is shifted, or holds nothing to shift: of a JSON value of  *)
(* unknown type there is none.                                                   *)
LEMMA ColumnShifts ==
  ASSUME at \in 1 .. 6, NEW u \in Tables, NEW rows, NEW offset \in Int, NEW f,
         ReadyToShift(u, rows, offset, f)
  PROVE  ColumnFollows(Link.table, f, u, rows, ShiftedColumn(u, rows, offset))
<1>0. PICK new : new = ShiftedColumn(u, rows, offset)
  OBVIOUS
<1>1. Link.connections = ConnectionsTo(Link.table) /\ Link.table \in Tables
  BY LinksOfTable, LinkTables DEF Link
<1>2. CASE ConnectionIn(u) # {}
  <2>1. PICK c : c = CHOOSE k \in ConnectionIn(u) : TRUE
    OBVIOUS
  <2>2. c \in ConnectionIn(u)
    BY <1>2, <2>1
  <2>3. PICK x : x = c.column
    OBVIOUS
  <2>4. Follows(Link.table, u, x)
    BY <1>1, <2>2, <2>3 DEF ConnectionIn, Follows
  <2>5. Shiftable(u, rows, x, offset)
    BY <1>1, <2>4 DEF Shiftable, ReadyToShift
  <2>6. Shifted(u, rows, c, offset) = Mapped(rows, x, f)
    <3>1. \A k \in DOMAIN rows : f[rows[k][c.column]] = Moved(rows[k][c.column], offset)
      BY <2>3, <2>4 DEF ReadyToShift
    <3> QED
      BY <2>3, <2>5, <3>1, ShiftedMapped
  <2>7. new = Mapped(rows, x, f)
    BY <1>0, <1>2, <2>1, <2>6 DEF ShiftedColumn
  <2> QED
    BY <1>0, <2>4, <2>7 DEF ColumnFollows
<1>3. CASE ConnectionIn(u) = {}
  <2>1. new = rows
    BY <1>0, <1>3 DEF ShiftedColumn
  <2>2. ASSUME NEW x, Follows(Link.table, u, x), NEW k \in DOMAIN rows
        PROVE  f[rows[k][x]] = rows[k][x]
    <3>1. PICK c \in Link.connections : c.table = u /\ c.column = x
      BY <1>1, <2>2 DEF Follows
    <3>2. c.json /\ ~ JsonTypeKnown(c)
      BY <1>3, <3>1 DEF ConnectionIn
    <3>3. u = "message" /\ x = "link_previews"
      BY <3>1, <3>2, JsonLinks DEF Link
    <3>4. ~ HasPreview(target)
      BY <3>1, <3>2, <3>3 DEF JsonTypeKnown, HasPreview
    <3>5. rows[k][x] = NULL
      BY <2>2, <3>3, <3>4 DEF ReadyToShift
    <3>6. f[rows[k][x]] = Moved(rows[k][x], offset)
      BY <2>2 DEF ReadyToShift
    <3> QED
      BY <3>5, <3>6 DEF Moved
  <2> QED
    BY <1>0, <2>1, <2>2 DEF ColumnFollows
<1> QED
  BY <1>2, <1>3

(* The columns no two rows may agree in refer to recipients and messages, whose    *)
(* references move beyond all of the source, or to the one thread.                *)
LEMMA UniqueReferences ==
  ASSUME NEW t \in Tables, NEW u \in Tables, NEW x \in UniqueColumns(u), Follows(t, u, x)
  PROVE  t \in {"message", "recipient"} \/ (t = "thread" /\ u = "message" /\ x = "thread_id")
<1>1. ~ ("link_previews" \in UniqueColumns("message"))
  BY DEF UniqueColumns
<1>2. t = "attachment" => u = "message" /\ x = "link_previews"
  BY FollowsAre
<1>3. t = "thread" => u = "message" /\ x = "thread_id"
  BY FollowsAre
<1>4. t \in {"thread", "message", "attachment", "recipient"}
  BY FollowsAre
<1> QED
  BY <1>1, <1>2, <1>3, <1>4

(* What the rows of the source are like while they are renumbered.                *)
LinksOk ==
  /\ RowsOk(source) /\ RefersWithin(source) /\ OneThread(source)
  /\ FramesOk(source) /\ HaveRows(source)
  /\ HasPreview(source) => HasPreview(target)

Outgrown(t) == \A i \in Ids(source, t) : \E j \in Ids(target, t) : i <= j

(* The _ids go up beyond those of the target; those of messages and recipients     *)
(* beyond their own too, when the target reaches as far.                          *)
LEMMA ShiftDistance ==
  ASSUME IInv, pc = "unique", ShiftTable, Link.table \in {"message", "recipient"} => Outgrown(Link.table)
  PROVE  \E offset \in Int :
           /\ source' = [d_database    |-> ShiftedTables(offset),
                         d_attachments |-> ShiftedAttachments(offset),
                         d_avatars     |-> updateAvatars(offset)]
           /\ \A i \in Ids(source, Link.table) : i \in Nat \ {0} /\ i + offset \in Nat \ {0}
           /\ Link.table \in {"message", "recipient"} =>
                \A i, j \in Ids(source, Link.table) : i + offset > j
<1>1. at \in 1 .. 6 /\ Link.table \in Tables
  BY LinkTables DEF ShiftTable, IInv, Link
<1>2. BackupOk(source) /\ BackupOk(target)
  BY DEF IInv
<1>3. PICK max \in getMaxUsedId(Ids(target, Link.table)), min \in getMinUsedId(Ids(source, Link.table)) :
        source' = [d_database    |-> ShiftedTables(max + 1 - min),
                   d_attachments |-> ShiftedAttachments(max + 1 - min),
                   d_avatars     |-> updateAvatars(max + 1 - min)]
  BY DEF ShiftTable
<1>4. /\ max \in Nat /\ \A j \in Ids(target, Link.table) : j \in Nat /\ j <= max
      /\ min \in Nat /\ \A i \in Ids(source, Link.table) : i \in Nat \ {0} /\ min <= i
  <2>1. Ids(source, Link.table) # {}
    BY DEF ShiftTable
  <2> QED BY <1>1, <1>2, <1>3, <2>1 DEF BackupOk, getMaxUsedId, getMinUsedId
<1>5. PICK offset : offset = max + 1 - min
  OBVIOUS
<1>6. offset \in Int /\ \A i \in Ids(source, Link.table) : i \in Nat \ {0} /\ i + offset > max
  BY <1>4, <1>5
<1>7. \A i \in Ids(source, Link.table) : i + offset \in Nat \ {0}
  BY <1>4, <1>6
<1>8. ASSUME Link.table \in {"message", "recipient"}, NEW i \in Ids(source, Link.table),
             NEW j \in Ids(source, Link.table)
      PROVE  i + offset > j
  <2>1. PICK k \in Ids(target, Link.table) : j <= k
    BY <1>8 DEF Outgrown
  <2>2. j \in Nat /\ k \in Nat /\ k <= max /\ i \in Nat /\ i + offset > max
    BY <1>4, <1>6, <1>8, <2>1
  <2> QED
    BY <1>4, <1>6, <2>1, <2>2
<1> QED
  BY <1>3, <1>5, <1>6, <1>7, <1>8

(* Shifting a table renumbers it.                                                 *)
LEMMA ShiftTableRenumbers ==
  ASSUME IInv, pc = "unique", ShiftTable, LinksOk,
         Link.table \in {"message", "recipient"} => Outgrown(Link.table)
  PROVE  \E f : Renumbers(source, source', Link.table, f)
<1>1. at \in 1 .. 6 /\ Link.table \in Tables
  BY LinkTables DEF ShiftTable, IInv, Link
<1>2. PICK offset \in Int :
           /\ source' = [d_database    |-> ShiftedTables(offset),
                         d_attachments |-> ShiftedAttachments(offset),
                         d_avatars     |-> updateAvatars(offset)]
           /\ \A i \in Ids(source, Link.table) : i \in Nat \ {0} /\ i + offset \in Nat \ {0}
           /\ Link.table \in {"message", "recipient"} =>
                \A i, j \in Ids(source, Link.table) : i + offset > j
  BY ShiftDistance
<1>3. PICK c : c = source'
  OBVIOUS
<1>4. /\ c.d_database = ShiftedTables(offset) /\ c.d_attachments = ShiftedAttachments(offset)
      /\ c.d_avatars = updateAvatars(offset)
  BY <1>2, <1>3
<1>5. PICK t : t = Link.table
  OBVIOUS
<1>6. PICK f : f = [v \in Ids(source, t) \cup {NULL} |-> Moved(v, offset)]
  OBVIOUS
<1>7. /\ \A v \in Ids(source, t) \cup {NULL} : f[v] = Moved(v, offset)
      /\ \A i \in Ids(source, t) : f[i] = i + offset /\ i \in Nat \ {0} /\ f[i] \in Nat \ {0}
      /\ f[NULL] = NULL
  BY <1>2, <1>5, <1>6 DEF Moved, NULL
<1>8. Injects(f, Ids(source, t))
  <2> SUFFICES ASSUME NEW i \in Ids(source, t) \cup {NULL}, NEW j \in Ids(source, t) \cup {NULL}, f[i] = f[j]
               PROVE  i = j
    BY <1>7 DEF Injects
  <2> QED
    BY <1>7 DEF NULL
<1>9. t \in Tables /\ BackupOk(source) /\ RowsOk(source) /\ RefersWithin(source)
  BY <1>1, <1>5 DEF IInv, LinksOk
<1>10. ASSUME NEW u \in Tables
       PROVE  RowsGo(source, c, t, f, u)
  <2>1. PICK rows : rows = IF u = Link.table THEN setMinimumId(Rows(source, u), offset) ELSE Rows(source, u)
    OBVIOUS
  <2>2. Rekeyed(source, t, f, u, rows)
    <3>1. CASE u # t
      BY <1>5, <2>1, <3>1 DEF Rekeyed, Goes, Ids
    <3>2. CASE u = t
      <4>1. rows = setMinimumId(Rows(source, u), offset)
        BY <1>5, <2>1, <3>2
      <4>2. DOMAIN Rows(source, u) = Ids(source, u)
        BY DEF Ids
      <4>3. DOMAIN Rows(source, u) \subseteq Nat \ {0}
        BY <1>7, <3>2, <4>2
      <4>4. \A i \in DOMAIN Rows(source, u) : i + offset > 0
        BY <1>7, <3>2, <4>2
      <4>5. DOMAIN rows = {i + offset : i \in Ids(source, u)}
        BY <4>1, <4>2, <4>3, <4>4, MinimumIdDomain
      <4>6. \A i \in Ids(source, u) : rows[i + offset] = Rows(source, u)[i]
        BY <4>1, <4>2, <4>3, <4>4, MinimumIdRows
      <4>7. \A i \in Ids(source, u) : Goes(t, f, u, i) = i + offset
        BY <1>7, <3>2 DEF Goes
      <4> QED
        BY <4>5, <4>6, <4>7 DEF Rekeyed
    <3> QED
      BY <3>1, <3>2
  <2>3. /\ \A k \in DOMAIN rows : ColumnsOf(u) \cup UniqueColumns(u) \subseteq DOMAIN rows[k]
        /\ UniqueIn(u, rows)
        /\ \A v \in Tables : \A x : Follows(v, u, x) =>
             \A k \in DOMAIN rows : rows[k][x] \in Ids(source, v) \cup {NULL}
    BY <1>9, <2>2, RekeyedRows
  <2>4. \A v \in Tables : \A x : Follows(v, u, x) => \A k \in DOMAIN rows : x \in DOMAIN rows[k]
    BY <2>3, FollowsOne
  <2>5. \A x : Follows(t, u, x) => \A k \in DOMAIN rows :
           /\ rows[k][x] \in Nat /\ (rows[k][x] # NULL => rows[k][x] + offset > 0)
           /\ f[rows[k][x]] = Moved(rows[k][x], offset)
    <3> SUFFICES ASSUME NEW x, Follows(t, u, x), NEW k \in DOMAIN rows
                 PROVE  /\ rows[k][x] \in Nat /\ (rows[k][x] # NULL => rows[k][x] + offset > 0)
                        /\ f[rows[k][x]] = Moved(rows[k][x], offset)
      OBVIOUS
    <3>1. PICK v : v = rows[k][x]
      OBVIOUS
    <3>2. v \in Ids(source, t) \cup {NULL}
      BY <1>9, <2>3, <3>1
    <3>3. v \in Nat /\ (v # NULL => v + offset > 0) /\ f[v] = Moved(v, offset)
      BY <1>7, <3>2 DEF NULL
    <3> QED
      BY <3>1, <3>3
  <2>6. \A x \in UniqueColumns(u) : Follows(t, u, x) => \A k, l \in DOMAIN rows :
           Moved(rows[k][x], offset) # rows[k][x] => Moved(rows[k][x], offset) # rows[l][x]
    <3> SUFFICES ASSUME NEW x \in UniqueColumns(u), Follows(t, u, x),
                        NEW k \in DOMAIN rows, NEW l \in DOMAIN rows,
                        Moved(rows[k][x], offset) # rows[k][x]
                 PROVE  Moved(rows[k][x], offset) # rows[l][x]
      OBVIOUS
    <3>1. PICK v, w : v = rows[k][x] /\ w = rows[l][x]
      OBVIOUS
    <3>2. v \in Ids(source, t) \cup {NULL} /\ w \in Ids(source, t) \cup {NULL}
      BY <1>9, <2>3, <3>1
    <3>3. v # NULL /\ Moved(v, offset) = v + offset
      BY <3>1 DEF Moved
    <3>4. v \in Ids(source, t)
      BY <3>2, <3>3
    <3>5. CASE t \in {"message", "recipient"}
      <4>1. w \in Ids(source, t) => v + offset > w
        BY <1>2, <1>5, <3>4, <3>5
      <4>2. v + offset \in Nat \ {0}
        BY <1>2, <1>5, <3>4
      <4>3. w \in Nat
        BY <1>2, <1>5, <3>2 DEF NULL
      <4> QED
        BY <3>1, <3>2, <3>3, <4>1, <4>2, <4>3 DEF NULL
    <3>6. CASE u = "message" /\ x = "thread_id"
      <4>1. rows[k] \in Contents(source, u) /\ rows[l] \in Contents(source, u)
        BY <2>2 DEF Rekeyed, Contents, Range, Ids
      <4>2. v = w
        BY <3>1, <3>6, <4>1 DEF LinksOk, OneThread
      <4> QED
        BY <3>1, <4>2
    <3> QED
      BY <1>9, <3>5, <3>6, UniqueReferences
  <2>7. ASSUME ~ HasPreview(target), u = "message", NEW k \in DOMAIN rows
        PROVE  rows[k].link_previews = NULL
    <3>1. rows[k] \in Contents(source, u)
      BY <2>2, <2>7 DEF Rekeyed, Contents, Range, Ids
    <3>2. ~ HasPreview(source)
      BY <2>7 DEF LinksOk
    <3> QED
      BY <2>7, <3>1, <3>2 DEF HasPreview
  <2>8. ReadyToShift(u, rows, offset, f)
    <3>1. (\A k \in DOMAIN rows : UniqueColumns(u) \subseteq DOMAIN rows[k]) /\ UniqueIn(u, rows)
      BY <2>3
    <3>2. \A x : Follows(Link.table, u, x) => \A k \in DOMAIN rows :
             /\ x \in DOMAIN rows[k]
             /\ rows[k][x] \in Nat /\ (rows[k][x] # NULL => rows[k][x] + offset > 0)
             /\ f[rows[k][x]] = Moved(rows[k][x], offset)
      BY <1>5, <1>9, <2>4, <2>5
    <3>3. \A x \in UniqueColumns(u) : Follows(Link.table, u, x) => \A k, l \in DOMAIN rows :
             Moved(rows[k][x], offset) # rows[k][x] => Moved(rows[k][x], offset) # rows[l][x]
      BY <1>5, <2>6
    <3>4. ~ HasPreview(target) /\ u = "message" => \A k \in DOMAIN rows : rows[k].link_previews = NULL
      BY <2>7
    <3> QED
      BY <3>1, <3>2, <3>3, <3>4 DEF ReadyToShift
  <2>9. Rows(c, u) = ShiftedColumn(u, rows, offset)
    BY <1>4, <2>1 DEF ShiftedTables, ShiftedColumn, Rows
  <2>10. ColumnFollows(t, f, u, rows, Rows(c, u))
    BY <1>1, <1>5, <2>8, <2>9, ColumnShifts
  <2> QED
    BY <1>9, <2>2, <2>10, RowsFollow
<1>11. DataGoes(source, c, t, f)
  <2>1. DOMAIN source.d_attachments \subseteq Ids(source, "attachment")
    BY DEF LinksOk, HaveRows
  <2>2. CASE t # "attachment"
    BY <1>4, <1>5, <2>2 DEF ShiftedAttachments, DataGoes, Goes
  <2>3. CASE t = "attachment"
    <3>1. PICK old : old = source.d_attachments
      OBVIOUS
    <3>2. c.d_attachments = [i \in {j + offset : j \in DOMAIN old} |-> old[i - offset]]
      BY <1>4, <1>5, <2>3, <3>1 DEF ShiftedAttachments
    <3>3. \A i \in DOMAIN old : Goes(t, f, "attachment", i) = i + offset /\ (i + offset) - offset = i
      BY <1>7, <2>1, <2>3, <3>1 DEF Goes
    <3>4. \A i \in DOMAIN old : c.d_attachments[i + offset] = old[i]
      BY <3>2, <3>3
    <3>5. DOMAIN c.d_attachments = {j + offset : j \in DOMAIN old}
      BY <3>2
    <3> QED
      BY <3>1, <3>3, <3>4, <3>5 DEF DataGoes
  <2> QED
    BY <2>2, <2>3
<1>12. AvatarsGo(source, c, t, f)
  <2>1. \A a \in source.d_avatars : a.recipient \in Ids(source, "recipient")
    BY DEF LinksOk, HaveRows
  <2>2. CASE t # "recipient"
    BY <1>4, <1>5, <2>2 DEF updateAvatars, AvatarsGo, Goes
  <2>3. CASE t = "recipient"
    <3>1. c.d_avatars = {[a EXCEPT !.recipient = @ + offset] : a \in source.d_avatars}
      BY <1>4, <1>5, <2>3 DEF updateAvatars
    <3>2. ASSUME NEW a \in source.d_avatars, NEW e, e = [a EXCEPT !.recipient = @ + offset]
          PROVE  e.recipient = Goes(t, f, "recipient", a.recipient) /\ e.picture = a.picture
      <4>1. Goes(t, f, "recipient", a.recipient) = a.recipient + offset
        BY <1>7, <2>1, <2>3 DEF Goes
      <4>2. a = [recipient |-> a.recipient, picture |-> a.picture]
        BY <3>2 DEF LinksOk, FramesOk
      <4> QED
        BY <3>2, <4>1, <4>2
    <3> QED
      BY <3>1, <3>2 DEF AvatarsGo
  <2> QED
    BY <2>2, <2>3
<1>13. Renumbers(source, c, t, f)
  BY <1>8, <1>10, <1>11, <1>12 DEF Renumbers
<1> QED
  BY <1>3, <1>5, <1>13

(* The references to one row made references to another, which nothing refers to. *)
LEMMA ColumnRedirects ==
  ASSUME NEW t \in Tables, NEW u \in Tables, NEW tables, NEW rows, rows = tables[u], NEW nid, NEW old,
         NEW S, nid \notin S \cup {NULL}, old \in S, NEW f,
         \A v \in S \cup {NULL} : f[v] = Renamed(v, nid, old),
         \A k \in DOMAIN rows : ColumnsOf(u) \cup UniqueColumns(u) \subseteq DOMAIN rows[k],
         UniqueIn(u, rows),
         \A x : Follows(t, u, x) => \A k \in DOMAIN rows : rows[k][x] \in S \cup {NULL}
  PROVE  ColumnFollows(t, f, u, rows, Redirected(tables, t, nid, old)[u])
<1> DEFINE columns == {c.column : c \in {d \in ConnectionsTo(t) : d.table = u}}
<1>1. \A x : x \in columns <=> Follows(t, u, x)
  BY DEF Follows
<1>2. Redirected(tables, t, nid, old)[u]
        = IF columns = {} THEN rows
          ELSE Update(u, rows, WithColumn(rows, CHOOSE c \in columns : TRUE,
                                          LAMBDA v : Renamed(v, nid, old)))
  BY DEF Redirected
<1> HIDE DEF columns
<1>3. CASE columns = {}
  BY <1>1, <1>2, <1>3 DEF ColumnFollows
<1>4. CASE columns # {}
  <2>1. PICK x : x = CHOOSE c \in columns : TRUE
    OBVIOUS
  <2>2. Follows(t, u, x)
    BY <1>1, <1>4, <2>1
  <2>3. x \in ColumnsOf(u)
    BY <2>2, FollowsOne
  <2>4. \A k \in DOMAIN rows : rows[k][x] \in S \cup {NULL} /\ f[rows[k][x]] = Renamed(rows[k][x], nid, old)
    BY <2>2
  <2>5. WithColumn(rows, x, LAMBDA v : Renamed(v, nid, old)) = Mapped(rows, x, f)
    BY <2>4 DEF WithColumn, Mapped
  <2>6. ASSUME NEW k \in DOMAIN rows, NEW l \in DOMAIN rows
        PROVE  /\ f[rows[k][x]] = f[rows[l][x]] => rows[k][x] = rows[l][x]
               /\ f[rows[k][x]] # rows[k][x] => f[rows[k][x]] # rows[l][x]
    <3>1. PICK v, w : v = rows[k][x] /\ w = rows[l][x]
      OBVIOUS
    <3>2. v \in S \cup {NULL} /\ w \in S \cup {NULL} /\ f[v] = Renamed(v, nid, old) /\ f[w] = Renamed(w, nid, old)
      BY <2>4, <2>6, <3>1
    <3>3. (f[v] = f[w] => v = w) /\ (f[v] # v => f[v] # w)
      BY <3>2 DEF Renamed
    <3> QED
      BY <3>1, <3>3
  <2>7. Mappable(u, rows, x, f)
    BY <2>3, <2>6 DEF Mappable
  <2>8. Update(u, rows, Mapped(rows, x, f)) = Mapped(rows, x, f)
    BY <2>7, UpdateMapped
  <2>9. Redirected(tables, t, nid, old)[u] = Mapped(rows, x, f)
    BY <1>2, <1>4, <2>1, <2>5, <2>8
  <2> QED
    BY <2>2, <2>9 DEF ColumnFollows
<1> QED
  BY <1>3, <1>4

(* The row behind a gap goes to the first _id of it.                              *)
GapFilled(rows, nid, old) == Rekey(rows, LAMBDA i : Renamed(i, nid, old))

(* The row goes there, and the others stay where they are.                        *)
LEMMA GapRows ==
  ASSUME NEW rows, DOMAIN rows \subseteq Nat \ {0}, NEW nid \in Nat \ {0}, nid \notin DOMAIN rows,
         NEW old \in DOMAIN rows
  PROVE  /\ \A k : k \in DOMAIN GapFilled(rows, nid, old) <=> \E i \in DOMAIN rows : k = Renamed(i, nid, old)
         /\ \A i \in DOMAIN rows : GapFilled(rows, nid, old)[Renamed(i, nid, old)] = rows[i]
<1>1. PICK new : new = GapFilled(rows, nid, old)
  OBVIOUS
<1>2. ~ \E i, j \in DOMAIN rows : i < j /\ Renamed(i, nid, old) \in {j, Renamed(j, nid, old)}
  BY DEF Renamed
<1>3. new = [k \in {Renamed(i, nid, old) : i \in DOMAIN rows}
               |-> rows[CHOOSE i \in DOMAIN rows : Renamed(i, nid, old) = k]]
  BY <1>1, <1>2 DEF Rekey, GapFilled
<1>4. \A i, j \in DOMAIN rows : Renamed(j, nid, old) = Renamed(i, nid, old) => j = i
  BY DEF Renamed
<1>5. ASSUME NEW i \in DOMAIN rows
      PROVE  new[Renamed(i, nid, old)] = rows[i]
  <2>1. (CHOOSE j \in DOMAIN rows : Renamed(j, nid, old) = Renamed(i, nid, old)) = i
    BY <1>4, <1>5
  <2>2. PICK k : k = Renamed(i, nid, old)
    OBVIOUS
  <2>3. new[k] = rows[CHOOSE j \in DOMAIN rows : Renamed(j, nid, old) = k]
    BY <1>3, <1>5, <2>2
  <2> QED
    BY <2>1, <2>2, <2>3
<1>6. \A k : k \in DOMAIN new <=> \E i \in DOMAIN rows : k = Renamed(i, nid, old)
  BY <1>3
<1> QED
  BY <1>1, <1>5, <1>6

(* Closing a gap renumbers the table.                                             *)
LEMMA CloseGapRenumbers ==
  ASSUME IInv, pc = "unique", CloseGap, Link.compact, LinksOk
  PROVE  \E f : Renumbers(source, source', Link.table, f)
<1>1. at \in 1 .. 6 /\ Link.table \in Tables
  BY LinkTables DEF CloseGap, IInv, Link
<1>2. Link.table # "recipient"
  <2>1. s_databaselinks[1].compact = FALSE /\ s_databaselinks[4].compact = FALSE
        /\ s_databaselinks[2].table = "message" /\ s_databaselinks[3].table = "attachment"
        /\ s_databaselinks[5].table = "reaction" /\ s_databaselinks[6].table = "group_membership"
    BY DEF s_databaselinks
  <2>2. at \in {1, 2, 3, 4, 5, 6}
    BY <1>1
  <2> QED BY <2>1, <2>2 DEF Link
<1>3. BackupOk(source) /\ RowsOk(source) /\ RefersWithin(source)
  BY DEF IInv, LinksOk
<1>4. PICK g \in Gaps(Ids(source, Link.table)) :
        source' = [source EXCEPT !.d_database = CompactedTables(g[1], g[2]),
                                 !.d_attachments = CompactedAttachments(g[1], g[2])]
  BY DEF CloseGap
<1>5. PICK t, nid, old, S : t = Link.table /\ nid = g[1] /\ old = g[2] /\ S = Ids(source, t)
  OBVIOUS
<1>6. nid \in Nat \ {0} /\ nid \notin S /\ old \in S /\ S \subseteq Nat \ {0}
  <2>1. S \subseteq Nat \ {0}
    BY <1>1, <1>3, <1>5 DEF BackupOk
  <2> QED BY <1>4, <1>5, <2>1 DEF Gaps, FirstFree
<1>7. PICK c : c = source'
  OBVIOUS
<1>8. PICK moved : moved = Rekey(Rows(source, t), LAMBDA i : Renamed(i, nid, old))
  OBVIOUS
<1>9. PICK tables : tables = [source.d_database EXCEPT ![t] = moved]
  OBVIOUS
<1>10. /\ c.d_database = Redirected(tables, t, nid, old)
       /\ c.d_attachments = CompactedAttachments(nid, old)
       /\ c.d_avatars = source.d_avatars
  BY <1>3, <1>4, <1>5, <1>7, <1>8, <1>9 DEF BackupOk, CompactedTables
<1>11. \A u \in Tables : tables[u] = IF u = t THEN moved ELSE Rows(source, u)
  BY <1>1, <1>3, <1>5, <1>9 DEF BackupOk, Rows
<1>12. PICK f : f = [v \in S \cup {NULL} |-> Renamed(v, nid, old)]
  OBVIOUS
<1>13. /\ \A v \in S \cup {NULL} : f[v] = Renamed(v, nid, old)
       /\ f[NULL] = NULL
  BY <1>6, <1>12 DEF Renamed, NULL
<1>14. Injects(f, S)
  <2>1. ASSUME NEW i \in S \cup {NULL}, NEW j \in S \cup {NULL}, f[i] = f[j]
        PROVE  i = j
    BY <1>6, <1>13, <2>1 DEF Renamed, NULL
  <2> QED
    BY <1>13, <2>1 DEF Injects
<1>15. t \in Tables
  BY <1>1, <1>5
<1>16. ASSUME NEW u \in Tables
       PROVE  RowsGo(source, c, t, f, u)
  <2>1. PICK rows : rows = tables[u]
    OBVIOUS
  <2>2. Rekeyed(source, t, f, u, rows)
    <3>1. CASE u # t
      BY <1>11, <2>1, <3>1 DEF Rekeyed, Goes, Ids
    <3>2. CASE u = t
      <4>1. rows = moved /\ DOMAIN Rows(source, t) = S
        BY <1>5, <1>11, <1>15, <2>1, <3>2 DEF Ids
      <4>2. /\ \A k : k \in DOMAIN moved <=> \E i \in S : k = Renamed(i, nid, old)
            /\ \A i \in S : moved[Renamed(i, nid, old)] = Rows(source, t)[i]
        <5>1. moved = GapFilled(Rows(source, t), nid, old)
          BY <1>8 DEF GapFilled
        <5>2. PICK r : r = Rows(source, t)
          OBVIOUS
        <5>3. DOMAIN r \subseteq Nat \ {0} /\ nid \in Nat \ {0} /\ nid \notin DOMAIN r /\ old \in DOMAIN r
          BY <1>6, <4>1, <5>2
        <5>4. /\ \A k : k \in DOMAIN GapFilled(r, nid, old) <=> \E i \in DOMAIN r : k = Renamed(i, nid, old)
              /\ \A i \in DOMAIN r : GapFilled(r, nid, old)[Renamed(i, nid, old)] = r[i]
          BY <5>3, GapRows
        <5> QED
          BY <4>1, <5>1, <5>2, <5>4
      <4>3. \A i \in S : Goes(t, f, u, i) = Renamed(i, nid, old)
        BY <1>13, <3>2 DEF Goes
      <4> QED
        BY <1>5, <3>2, <4>1, <4>2, <4>3 DEF Rekeyed
    <3> QED
      BY <3>1, <3>2
  <2>3. /\ \A k \in DOMAIN rows : ColumnsOf(u) \cup UniqueColumns(u) \subseteq DOMAIN rows[k]
        /\ UniqueIn(u, rows)
        /\ \A v \in Tables : \A x : Follows(v, u, x) =>
             \A k \in DOMAIN rows : rows[k][x] \in Ids(source, v) \cup {NULL}
    BY <1>3, <2>2, RekeyedRows
  <2>4. \A x : Follows(t, u, x) => \A k \in DOMAIN rows : rows[k][x] \in S \cup {NULL}
    BY <1>5, <1>15, <2>3
  <2>5. nid \notin S \cup {NULL}
    BY <1>6 DEF NULL
  <2>6. ColumnFollows(t, f, u, rows, Redirected(tables, t, nid, old)[u])
    BY <1>6, <1>13, <1>15, <2>1, <2>3, <2>4, <2>5, ColumnRedirects
  <2>7. ColumnFollows(t, f, u, rows, Rows(c, u))
    BY <1>10, <2>6 DEF Rows
  <2> QED
    BY <1>3, <1>15, <2>2, <2>7, RowsFollow
<1>17. DataGoes(source, c, t, f)
  <2>1. DOMAIN source.d_attachments \subseteq Ids(source, "attachment")
    BY DEF LinksOk, HaveRows
  <2>2. PICK data : data = source.d_attachments
    OBVIOUS
  <2>3. CASE t # "attachment"
    BY <1>5, <1>10, <2>3 DEF CompactedAttachments, DataGoes, Goes
  <2>4. CASE t = "attachment" /\ old \notin DOMAIN data
    <3>1. c.d_attachments = data
      BY <1>10, <2>2, <2>4 DEF CompactedAttachments
    <3>2. \A i \in DOMAIN data : Goes(t, f, "attachment", i) = i
      BY <1>5, <1>13, <2>1, <2>2, <2>4 DEF Goes, Renamed
    <3> QED
      BY <2>2, <3>1, <3>2 DEF DataGoes
  <2>5. CASE t = "attachment" /\ old \in DOMAIN data
    <3>1. c.d_attachments = [i \in (DOMAIN data \ {old}) \cup {nid} |->
                               IF i \in DOMAIN data THEN data[i] ELSE data[old]]
      BY <1>5, <1>10, <2>2, <2>5 DEF CompactedAttachments
    <3>2. nid \notin DOMAIN data
      BY <1>5, <1>6, <2>1, <2>2, <2>5
    <3>3. \A i \in DOMAIN data : Goes(t, f, "attachment", i) = IF i = old THEN nid ELSE i
      BY <1>5, <1>13, <2>1, <2>2, <2>5 DEF Goes, Renamed
    <3>4. \A i \in DOMAIN data : c.d_attachments[Goes(t, f, "attachment", i)] = data[i]
      BY <3>1, <3>2, <3>3
    <3>5. \A k : k \in DOMAIN c.d_attachments <=> \E i \in DOMAIN data : k = Goes(t, f, "attachment", i)
      BY <2>5, <3>1, <3>3
    <3> QED
      BY <2>2, <3>4, <3>5 DEF DataGoes
  <2> QED
    BY <2>3, <2>4, <2>5
<1>18. AvatarsGo(source, c, t, f)
  BY <1>2, <1>5, <1>10 DEF AvatarsGo, Goes
<1>19. Renumbers(source, c, t, f)
  BY <1>5, <1>14, <1>16, <1>17, <1>18 DEF Renumbers
<1> QED
  BY <1>5, <1>7, <1>19

-----------------------------------------------------------------------------
(* What a cropped backup has of the rows.                                        *)
LEMMA CropRows ==
  ASSUME NEW b, NEW t, NEW u \in Tables, NEW i \in Ids(CropToThread(b, t), u)
  PROVE  i \in Ids(b, u) /\ Rows(CropToThread(b, t), u)[i] = Rows(b, u)[i]
<1>1. PICK c : c = CropToThread(b, t)
  OBVIOUS
<1>2. /\ \A k \in Ids(c, "thread") : k \in Ids(b, "thread") /\ Rows(c, "thread")[k] = Rows(b, "thread")[k]
      /\ \A k \in Ids(c, "message") : k \in Ids(b, "message") /\ Rows(c, "message")[k] = Rows(b, "message")[k]
      /\ \A k \in Ids(c, "attachment") :
           k \in Ids(b, "attachment") /\ Rows(c, "attachment")[k] = Rows(b, "attachment")[k]
      /\ \A k \in Ids(c, "recipient") :
           k \in Ids(b, "recipient") /\ Rows(c, "recipient")[k] = Rows(b, "recipient")[k]
      /\ \A k \in Ids(c, "reaction") :
           k \in Ids(b, "reaction") /\ Rows(c, "reaction")[k] = Rows(b, "reaction")[k]
      /\ \A k \in Ids(c, "group_membership") :
           k \in Ids(b, "group_membership") /\ Rows(c, "group_membership")[k] = Rows(b, "group_membership")[k]
  <2>1. \A k \in Ids(c, "thread") : k \in Ids(b, "thread") /\ Rows(c, "thread")[k] = Rows(b, "thread")[k]
    BY <1>1 DEF CropToThread, Ids, Rows, Restrict
  <2>2. \A k \in Ids(c, "message") : k \in Ids(b, "message") /\ Rows(c, "message")[k] = Rows(b, "message")[k]
    BY <1>1 DEF CropToThread, Ids, Rows, Restrict, Only
  <2>3. \A k \in Ids(c, "attachment") :
           k \in Ids(b, "attachment") /\ Rows(c, "attachment")[k] = Rows(b, "attachment")[k]
    BY <1>1 DEF CropToThread, Ids, Rows, Restrict, Only
  <2>4. \A k \in Ids(c, "recipient") :
           k \in Ids(b, "recipient") /\ Rows(c, "recipient")[k] = Rows(b, "recipient")[k]
    BY <1>1 DEF CropToThread, Ids, Rows, Restrict
  <2>5. \A k \in Ids(c, "reaction") :
           k \in Ids(b, "reaction") /\ Rows(c, "reaction")[k] = Rows(b, "reaction")[k]
    BY <1>1 DEF CropToThread, Ids, Rows, Restrict, Only
  <2>6. \A k \in Ids(c, "group_membership") :
           k \in Ids(b, "group_membership") /\ Rows(c, "group_membership")[k] = Rows(b, "group_membership")[k]
    BY <1>1 DEF CropToThread, Ids, Rows, Restrict, Only
  <2> QED
    BY <2>1, <2>2, <2>3, <2>4, <2>5, <2>6
<1> QED
  BY <1>1, <1>2 DEF Tables

(* It has the messages of one thread only,                                         *)
LEMMA CropIsOneThread ==
  ASSUME NEW b, NEW t
  PROVE  OneThread(CropToThread(b, t))
<1>1. PICK c : c = CropToThread(b, t)
  OBVIOUS
<1>2. \A m \in Contents(c, "message") : m.thread_id = t
  <2>1. Rows(c, "message") = Only(Rows(b, "message"), LAMBDA m : m.thread_id = t)
    BY <1>1 DEF CropToThread, Rows
  <2>2. \A k \in DOMAIN Rows(c, "message") : Rows(c, "message")[k].thread_id = t
    BY <2>1 DEF Only, Restrict
  <2> QED
    BY <2>2 DEF Contents, Range
<1> QED
  BY <1>1, <1>2 DEF OneThread

(* and the rows the constraints hold for.                                          *)
LEMMA CropLinks ==
  ASSUME NEW b, NEW t, RowsOk(b)
  PROVE  /\ RowsOk(CropToThread(b, t))
         /\ HasPreview(CropToThread(b, t)) => HasPreview(b)
<1>1. PICK c : c = CropToThread(b, t)
  OBVIOUS
<1>2. \A u \in Tables : \A i \in Ids(c, u) : i \in Ids(b, u) /\ Rows(c, u)[i] = Rows(b, u)[i]
  BY <1>1, CropRows
<1>3. RowsOk(c)
  <2> SUFFICES ASSUME NEW u \in Tables, NEW i \in Ids(c, u), NEW j \in Ids(c, u)
               PROVE  /\ ColumnsOf(u) \subseteq DOMAIN Rows(c, u)[i]
                      /\ UniqueColumns(u) # {} /\ Key(u, Rows(c, u)[i]) = Key(u, Rows(c, u)[j]) => i = j
    BY DEF RowsOk
  <2>1. /\ i \in Ids(b, u) /\ Rows(c, u)[i] = Rows(b, u)[i]
        /\ j \in Ids(b, u) /\ Rows(c, u)[j] = Rows(b, u)[j]
    BY <1>2
  <2> QED
    BY <2>1 DEF RowsOk
<1>4. HasPreview(c) => HasPreview(b)
  <2>1. "message" \in Tables
    BY DEF Tables
  <2>2. \A d : HasPreview(d) <=> \E i \in Ids(d, "message") : Rows(d, "message")[i].link_previews # NULL
    BY DEF HasPreview, Contents, Range, Ids
  <2> QED
    BY <1>2, <2>1, <2>2
<1> QED
  BY <1>1, <1>3, <1>4

-----------------------------------------------------------------------------
(* The tables that are still to be renumbered.                                   *)
Unshifted(t) ==
  \E i \in DOMAIN s_databaselinks :
    s_databaselinks[i].table = t /\ (at < i \/ (at = i /\ ~ compacting))

(* The source stays such that the next table, or gap, can be renumbered without   *)
(* a statement being refused, and says what it said when it was cropped.          *)
LinksInv ==
  /\ RowsOk(src) /\ \A t \in Ids(src, "thread") : RefersWithin(CropToThread(src, t))
  /\ pc \notin {"reorder", "done", "aborted"} =>
       Reaches(target, src) /\ (HasPreview(src) => HasPreview(target))
  /\ pc = "unique" =>
       /\ RowsOk(source) /\ RefersWithin(source) /\ OneThread(source)
       /\ HasPreview(source) => HasPreview(target)
       /\ \A t \in {"message", "recipient"} : Unshifted(t) => Outgrown(t)
       /\ Facts(source) = Facts(CropToThread(src, thread))

(* Backups that can be renumbered start so,                                        *)
LEMMA LinksStart ==
  ASSUME \A input \in Inputs : Renumberable(input), Init
  PROVE  LinksInv
<1>1. PICK input \in Inputs : target = input.target /\ src = input.source /\ source = input.source
  BY DEF Init
<1>2. Renumberable(input)
  BY <1>1
<1> QED
  BY <1>1, <1>2 DEF Init, LinksInv, Renumberable

(* and stay so when the source is cropped,                                         *)
LEMMA CropKeepsLinks == IInv /\ LinksInv /\ Crop => LinksInv'
<1> SUFFICES ASSUME IInv, LinksInv, Crop PROVE LinksInv'
  OBVIOUS
<1>1. /\ pc = "pick" /\ pc' = "unique" /\ UNCHANGED <<target, src, threads>>
      /\ thread \in Ids(src, "thread") /\ source' = CropToThread(src, thread)
  BY DEF Crop
<1>2. PICK c : c = CropToThread(src, thread)
  OBVIOUS
<1>3. RowsOk(src) /\ Reaches(target, src) /\ (HasPreview(src) => HasPreview(target)) /\ RefersWithin(c)
  BY <1>1, <1>2 DEF LinksInv
<1>4. RowsOk(c) /\ (HasPreview(c) => HasPreview(src)) /\ OneThread(c)
  BY <1>2, <1>3, CropLinks, CropIsOneThread
<1>5. \A t \in {"message", "recipient"} : \A i \in Ids(c, t) : \E j \in Ids(target, t) : i <= j
  <2>1. \A t \in {"message", "recipient"} : Ids(c, t) \subseteq Ids(src, t)
    BY <1>2, CropRows DEF Tables
  <2> QED
    BY <1>3, <2>1 DEF Reaches
<1>6. source' = c /\ target' = target /\ src' = src /\ thread' = thread
  BY <1>1, <1>2 DEF thread
<1>7. \A t \in {"message", "recipient"} : Outgrown(t)'
  BY <1>5, <1>6 DEF Outgrown
<1>8. Facts(source') = Facts(CropToThread(src', thread'))
  BY <1>2, <1>6
<1>9. /\ RowsOk(source') /\ RefersWithin(source') /\ OneThread(source')
      /\ HasPreview(source') => HasPreview(target')
  BY <1>3, <1>4, <1>6
<1>10. Reaches(target', src') /\ (HasPreview(src') => HasPreview(target'))
       /\ RowsOk(src') /\ \A t \in Ids(src', "thread") : RefersWithin(CropToThread(src', t))
  BY <1>1, <1>3, <1>6 DEF LinksInv
<1> QED
  BY <1>1, <1>7, <1>8, <1>9, <1>10 DEF LinksInv

(* What a renumbering of the source does to it.                                  *)
LEMMA RenumberingKeepsLinks ==
  ASSUME IInv, LinksInv, pc = "unique", LinksOk, at \in 1 .. 6,
         UNCHANGED <<target, mainVars>>, NEW f, Renumbers(source, source', Link.table, f),
         \A t \in Tables : Unshifted(t)' => Unshifted(t) /\ t # Link.table
  PROVE  LinksInv'
<1>1. PICK c : c = source'
  OBVIOUS
<1>2. Link.table \in Tables
  BY LinkTables DEF Link
<1>3. PICK t \in Tables : t = Link.table
  BY <1>2
<1>4. Renumbers(source, c, t, f)
  BY <1>1, <1>3
<1>5. BackupOk(source) /\ RowsOk(source) /\ RefersWithin(source) /\ OneThread(source) /\ HaveRows(source)
  BY DEF IInv, LinksOk
<1>6. RowsOk(c)
  BY <1>4, <1>5, <1>3, RowsStayOk
<1>7. RefersWithin(c)
  BY <1>4, <1>5, <1>3, ReferencesStayWithin
<1>8. OneThread(c)
  BY <1>4, <1>5, <1>3, ThreadStaysOne
<1>9. HasPreview(c) => HasPreview(source)
  BY <1>4, <1>5, <1>3, NoPreviewAppears
<1>10. Facts(c) = Facts(source)
  BY <1>4, <1>5, <1>3, FactsStay
<1>11. ASSUME NEW u \in {"message", "recipient"}, Unshifted(u)'
       PROVE  Outgrown(u)'
  <2>1. u \in Tables /\ u # t /\ Unshifted(u)
    BY <1>3, <1>11 DEF Tables
  <2>2. Ids(c, u) = Ids(source, u)
    <3>1. RowsGo(source, c, t, f, u)
      BY <1>4, <2>1 DEF Renumbers
    <3> QED
      BY <2>1, <3>1 DEF RowsGo, Goes
  <2>3. Outgrown(u)
    BY <1>11, <2>1 DEF LinksInv
  <2> QED
    BY <1>1, <2>2, <2>3 DEF Outgrown
<1>12. /\ target' = target /\ src' = src /\ pc' = pc /\ thread' = thread
  BY DEF mainVars, thread
<1>13. /\ RowsOk(source') /\ RefersWithin(source') /\ OneThread(source')
       /\ HasPreview(source') => HasPreview(target')
       /\ Facts(source') = Facts(CropToThread(src', thread'))
  BY <1>1, <1>6, <1>7, <1>8, <1>9, <1>10, <1>12 DEF LinksInv
<1>14. Reaches(target', src') /\ (HasPreview(src') => HasPreview(target'))
       /\ RowsOk(src') /\ \A u \in Ids(src', "thread") : RefersWithin(CropToThread(src', u))
  BY <1>12 DEF LinksInv
<1> QED
  BY <1>11, <1>12, <1>13, <1>14 DEF LinksInv

(* when a table is renumbered or a gap closed,                                     *)
LEMMA MakeUniqueKeepsLinks == IInv /\ FramesInv /\ LinksInv /\ MakeUnique => LinksInv'
<1> SUFFICES ASSUME IInv, FramesInv, LinksInv, MakeUnique PROVE LinksInv'
  OBVIOUS
<1>1. /\ pc = "unique" /\ UNCHANGED mainVars /\ at \in Nat \ {0} /\ compacting \in BOOLEAN
  BY DEF MakeUnique, IInv
<1>2. LinksOk
  BY <1>1 DEF LinksInv, FramesInv, LinksOk
<1>3. DOMAIN s_databaselinks = 1 .. 6
  BY LinkTables
<1>4. \A i, j \in 1 .. 6 : s_databaselinks[i].table = s_databaselinks[j].table => i = j
  <2>1. /\ s_databaselinks[1].table = "thread" /\ s_databaselinks[2].table = "message"
        /\ s_databaselinks[3].table = "attachment" /\ s_databaselinks[4].table = "recipient"
        /\ s_databaselinks[5].table = "reaction" /\ s_databaselinks[6].table = "group_membership"
    BY DEF s_databaselinks
  <2>2. \A k \in 1 .. 6 : k = 1 \/ k = 2 \/ k = 3 \/ k = 4 \/ k = 5 \/ k = 6
    OBVIOUS
  <2> QED
    BY <2>1, <2>2
<1>5. ASSUME SkipTable \/ Compacted
      PROVE  LinksInv'
  <2>1. at' = at + 1 /\ UNCHANGED <<target, source, mainVars>>
    BY <1>1, <1>5 DEF SkipTable, Compacted
  <2>2. \A t : Unshifted(t)' => Unshifted(t)
    BY <1>1, <1>3, <2>1 DEF Unshifted
  <2>3. \A t : Outgrown(t) => Outgrown(t)'
    BY <2>1 DEF Outgrown
  <2>4. thread' = thread /\ src' = src /\ pc' = pc /\ source' = source /\ target' = target
    BY <2>1 DEF mainVars, thread
  <2> QED
    BY <2>2, <2>3, <2>4 DEF LinksInv
<1>6. ASSUME NEW t \in Tables, Unshifted(t)',
             \/ at' = at + 1
             \/ at' = at /\ compacting'
      PROVE  at \in 1 .. 6 => Unshifted(t) /\ t # Link.table
  <2>1. PICK i \in 1 .. 6 : s_databaselinks[i].table = t /\ (at' < i \/ (at' = i /\ ~ compacting'))
    BY <1>3, <1>6 DEF Unshifted
  <2>2. at < i
    BY <1>1, <1>6, <2>1
  <2>3. Unshifted(t)
    BY <1>3, <2>1, <2>2 DEF Unshifted
  <2>4. at \in 1 .. 6 => Link.table # t
    BY <1>4, <2>1, <2>2 DEF Link
  <2> QED
    BY <2>3, <2>4
<1>7. CASE ShiftTable
  <2>1. at \in 1 .. 6 /\ ~ compacting /\ target' = target
    BY <1>1, <1>7, LinkTables DEF ShiftTable
  <2>2. at' = at + 1 \/ (at' = at /\ compacting')
    BY <1>7 DEF ShiftTable
  <2>3. Unshifted(Link.table)
    BY <1>3, <2>1 DEF Unshifted, Link
  <2>4. Link.table \in {"message", "recipient"} => Outgrown(Link.table)
    BY <1>1, <2>3 DEF LinksInv
  <2>5. PICK f : Renumbers(source, source', Link.table, f)
    BY <1>1, <1>2, <1>7, <2>4, ShiftTableRenumbers
  <2>6. \A t \in Tables : Unshifted(t)' => Unshifted(t) /\ t # Link.table
    BY <1>6, <2>1, <2>2
  <2> QED
    BY <1>1, <1>2, <2>1, <2>5, <2>6, RenumberingKeepsLinks
<1>8. CASE CloseGap
  <2>1. compacting /\ at' = at /\ compacting' = compacting /\ target' = target
    BY <1>8 DEF CloseGap
  <2>2. at \in 1 .. 6 /\ Link.compact
    BY <1>1, <2>1, LinkTables DEF IInv, FramesInv
  <2>3. PICK f : Renumbers(source, source', Link.table, f)
    BY <1>1, <1>2, <1>8, <2>2, CloseGapRenumbers
  <2>4. \A t \in Tables : Unshifted(t)' => Unshifted(t) /\ t # Link.table
    BY <1>6, <2>1, <2>2
  <2> QED
    BY <1>1, <1>2, <2>1, <2>2, <2>3, <2>4, RenumberingKeepsLinks
<1> QED
  BY <1>5, <1>7, <1>8 DEF MakeUnique, makeIdsUnique

(* An INSERT takes no message and no recipient away from the target.             *)
LEMMA InsertKeepsLinks == LinksInv /\ Insert => LinksInv'
<1> SUFFICES ASSUME LinksInv, Insert PROVE LinksInv'
  OBVIOUS
<1>1. /\ pc = "insert" /\ pc' = "check" /\ src' = src
      /\ target'.d_database = [t \in Tables |-> Merged(t)]
  BY DEF Insert
<1>2. Reaches(target, src) /\ (HasPreview(src) => HasPreview(target))
  BY <1>1 DEF LinksInv
<1>3. ASSUME NEW t \in Tables, t # "reaction", NEW i \in Ids(target, t)
      PROVE  i \in Ids(target', t) /\ Rows(target', t)[i] = Rows(target, t)[i]
  <2>1. Rows(target', t) = Merged(t)
    BY <1>1 DEF Rows
  <2>2. i \notin Accepted(t)
    BY DEF Accepted
  <2> QED
    BY <1>3, <2>1, <2>2 DEF Merged, Ids
<1>4. /\ "message" \in Tables /\ "recipient" \in Tables
      /\ "message" # "reaction" /\ "recipient" # "reaction"
  BY DEF Tables
<1>5. \A t \in {"message", "recipient"} : Ids(target, t) \subseteq Ids(target', t)
  BY <1>3, <1>4
<1>6. Reaches(target', src')
  BY <1>1, <1>2, <1>5 DEF Reaches
<1>7. HasPreview(src') => HasPreview(target')
  <2>1. \A d : HasPreview(d) <=> \E i \in Ids(d, "message") : Rows(d, "message")[i].link_previews # NULL
    BY DEF HasPreview, Contents, Range, Ids
  <2>2. HasPreview(target) => HasPreview(target')
    BY <1>3, <1>4, <2>1
  <2> QED
    BY <1>1, <1>2, <2>2
<1> QED
  BY <1>1, <1>6, <1>7 DEF LinksInv

(* The other steps of an import leave the target as it is, and the source that    *)
(* was opened; the reordering comes when no thread is left.                       *)
LEMMA OtherStepsKeepLinks ==
  ASSUME LinksInv,
         \/ Incompatible \/ SkipThread \/ SetThread \/ MatchRecipient \/ DropExisting
         \/ checkDbIntegrity \/ ReorderDown \/ ReorderUp
  PROVE  LinksInv'
<1>1. CASE Incompatible \/ SkipThread \/ SetThread \/ MatchRecipient \/ DropExisting \/ checkDbIntegrity
  <2>1. /\ pc \notin {"reorder", "done", "aborted"} /\ pc' # "unique"
        /\ src' = src /\ target' = target
    BY <1>1 DEF Incompatible, SkipThread, SetThread, MatchRecipient, DropExisting, checkDbIntegrity,
                Return, idVars
  <2> QED
    BY <2>1 DEF LinksInv
<1>2. CASE ReorderDown \/ ReorderUp
  <2>1. pc' \in {"reorder", "done"} /\ src' = src
    BY <1>2 DEF ReorderDown, ReorderUp
  <2> QED
    BY <2>1 DEF LinksInv
<1> QED
  BY <1>1, <1>2

(* and whatever the step.                                                         *)
LEMMA LinksInvariance == IInv /\ FramesInv /\ LinksInv /\ [Next]_vars => LinksInv'
<1> SUFFICES ASSUME IInv, FramesInv, LinksInv, [Next]_vars PROVE LinksInv'
  OBVIOUS
<1>1. CASE UNCHANGED vars
  <2>1. /\ target' = target /\ source' = source /\ src' = src /\ pc' = pc
        /\ thread' = thread /\ at' = at /\ compacting' = compacting
    BY <1>1 DEF vars, idVars, mainVars, thread
  <2> QED
    BY <2>1 DEF LinksInv, Unshifted, Outgrown
<1>2. CASE Crop
  BY <1>2, CropKeepsLinks
<1>3. CASE MakeUnique
  BY <1>3, MakeUniqueKeepsLinks
<1>4. CASE Insert
  BY <1>4, InsertKeepsLinks
<1>5. CASE \/ Incompatible \/ SkipThread \/ SetThread \/ MatchRecipient \/ DropExisting
           \/ checkDbIntegrity \/ ReorderDown \/ ReorderUp
  BY <1>5, OtherStepsKeepLinks
<1> QED
  BY <1>1, <1>2, <1>3, <1>4, <1>5 DEF Next

(* The theorem: when every table has been renumbered, the source still says what  *)
(* it said when it was cropped to the thread, of backups that can be renumbered.  *)
THEOREM LinksStay ==
  ASSUME \A input \in Inputs : Renumberable(input)
  PROVE  Spec => []LinksKept
<1>1. Init => LinksInv
  BY LinksStart
<1>2. IInv /\ FramesInv /\ LinksInv /\ [Next]_vars => LinksInv'
  BY LinksInvariance
<1>3. LinksInv => LinksKept
  BY DEF LinksInv, LinksKept
<1> QED
  BY <1>1, <1>2, <1>3, ImportInvariants, PTL DEF Spec
=============================================================================
