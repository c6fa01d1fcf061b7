----------------------------- MODULE MakeIdsUnique -----------------------------
(* SignalBackup::makeIdsUnique and compactIds: the rows of one backup get _ids    *)
(* that are not in use in the other, table after table, and every column that is  *)
(* known to hold such an _id follows.  A step is one table renumbered, or one gap *)
(* between its _ids closed.                                                       *)
EXTENDS Database

VARIABLES target,         \* the backup that is imported into (this)
          source,         \* the copy of the other one that is renumbered
          at,             \* the position in s_databaselinks
          compacting      \* its table has been renumbered, the gaps are left

idVars == <<target, source, at, compacting>>

Link == s_databaselinks[at]

(* Mutant: the number of rows is taken for the greatest _id.                     *)
getMaxUsedId_Count(S) == {Cardinality(S)}

(* SELECT MAX(_id), SELECT MIN(_id): 0 for an empty table.                       *)
getMaxUsedId(S) == IF S = {} THEN {0} ELSE {m \in S : \A n \in S : n <= m}
getMinUsedId(S) == IF S = {} THEN {0} ELSE {m \in S : \A n \in S : m <= n}

(* Mutant: the sign is not changed back.                                         *)
setMinimumId_SignKept(rows, offset) ==
  IF offset = 0 THEN rows
                ELSE Rekey(Rekey(rows, LAMBDA i : -i), LAMBDA i : i + offset)

(* Twice through the table, so that no row meets one that is yet to move.        *)
setMinimumId(rows, offset) ==
  IF offset = 0 THEN rows
                ELSE Rekey(Rekey(rows, LAMBDA i : -i), LAMBDA i : -i + offset)

(* The type of a JSON value is looked up in the target, not in the source that   *)
(* is changed: with no value there nothing is known and nothing is done.         *)
JsonTypeKnown(c) == \E row \in Contents(target, c.table) : row[c.column] # NULL

Moved(value, offset) == IF value = NULL THEN NULL ELSE value + offset

(* UPDATE t SET c = c + offset; by way of negative values when it is SET_UNIQUELY. *)
Shifted(t, rows, c, offset) ==
  IF c.uniquely
  THEN LET negative == Update(t, rows, WithColumn(rows, c.column, LAMBDA v : -v))
       IN  Update(t, negative, WithColumn(negative, c.column, LAMBDA v : Moved(-v, offset)))
  ELSE Update(t, rows, WithColumn(rows, c.column, LAMBDA v : Moved(v, offset)))

ConnectionIn(t) == {c \in Link.connections : c.table = t /\ (c.json => JsonTypeKnown(c))}

ShiftedTables(offset) ==
  [t \in Tables |->
     LET rows == IF t = Link.table THEN setMinimumId(Rows(source, t), offset) ELSE Rows(source, t)
     IN  IF ConnectionIn(t) = {} THEN rows
         ELSE Shifted(t, rows, CHOOSE c \in ConnectionIn(t) : TRUE, offset)]

(* The frames that are named by an _id of the table are named anew.              *)
ShiftedAttachments(offset) ==
  LET old == source.d_attachments
  IN  IF Link.table # "attachment" THEN old
      ELSE [i \in {j + offset : j \in DOMAIN old} |-> old[i - offset]]

updateAvatars(offset) ==
  IF Link.table # "recipient" THEN source.d_avatars
  ELSE {[a EXCEPT !.recipient = @ + offset] : a \in source.d_avatars}

(* A table with no rows in the source is left alone.                             *)
SkipTable ==
  /\ at <= Len(s_databaselinks) /\ ~ compacting
  /\ Ids(source, Link.table) = {}
  /\ at' = at + 1
  /\ UNCHANGED <<target, source, compacting>>

ShiftTable ==
  /\ at <= Len(s_databaselinks) /\ ~ compacting
  /\ Ids(source, Link.table) # {}
  /\ \E max \in getMaxUsedId(Ids(target, Link.table)), min \in getMinUsedId(Ids(source, Link.table)) :
       LET offset == max + 1 - min
       IN  source' = [d_database    |-> ShiftedTables(offset),
                      d_attachments |-> ShiftedAttachments(offset),
                      d_avatars     |-> updateAvatars(offset)]
  /\ compacting' = Link.compact
  /\ at' = IF Link.compact THEN at ELSE at + 1
  /\ UNCHANGED target

-----------------------------------------------------------------------------
(* compactIds: the first _id that is free behind one in use, and the _id after it. *)
FirstFree(S) == {i + 1 : i \in {j \in S : j > 0 /\ j + 1 \notin S
                                          /\ \A k \in S : 0 < k /\ k < j => k + 1 \in S}}
Gaps(S) == {g \in FirstFree(S) \X S : g[1] < g[2] /\ \A k \in S : g[1] < k => g[2] <= k}

(* Mutant: what refers to the row is changed, the row is not.                    *)
CompactedTables_LinksOnly(nid, valuetochange) ==
  Redirected(source.d_database, Link.table, nid, valuetochange)

CompactedTables(nid, valuetochange) ==
  LET rows == Rekey(Rows(source, Link.table), LAMBDA i : Renamed(i, nid, valuetochange))
  IN  Redirected([source.d_database EXCEPT ![Link.table] = rows], Link.table, nid, valuetochange)

(* Mutant: the frame is not moved with its row.                                  *)
CompactedAttachments_LeftBehind(nid, valuetochange) == source.d_attachments

(* The frame is taken out and put back; one that is there already stays.         *)
CompactedAttachments(nid, valuetochange) ==
  LET old == source.d_attachments
  IN  IF Link.table # "attachment" \/ valuetochange \notin DOMAIN old THEN old
      ELSE [i \in (DOMAIN old \ {valuetochange}) \cup {nid} |->
              IF i \in DOMAIN old THEN old[i] ELSE old[valuetochange]]

CloseGap ==
  /\ compacting
  /\ \E g \in Gaps(Ids(source, Link.table)) :
       source' = [source EXCEPT !.d_database = CompactedTables(g[1], g[2]),
                                !.d_attachments = CompactedAttachments(g[1], g[2])]
  /\ UNCHANGED <<target, at, compacting>>

Compacted ==
  /\ compacting
  /\ Gaps(Ids(source, Link.table)) = {}
  /\ compacting' = FALSE /\ at' = at + 1
  /\ UNCHANGED <<target, source>>

AllUnique == at > Len(s_databaselinks)

makeIdsUnique == SkipTable \/ ShiftTable \/ CloseGap \/ Compacted
=============================================================================
