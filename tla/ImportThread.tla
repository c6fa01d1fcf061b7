------------------------------ MODULE ImportThread ------------------------------
(* SignalBackup::importThread, as main calls it for each thread in turn with a    *)
(* fresh copy of the source: the copy is cropped to the thread, renumbered, its   *)
(* recipients are matched with those of the target, and its rows are inserted.    *)
(* The messages of the target are put in order in the end (reorderMmsSmsIds).     *)
EXTENDS MakeIdsUnique

CONSTANTS Inputs,   \* [target, source : backups, threads : Seq(Int), compatible : BOOLEAN]
          force     \* --force: an error is reported and main goes on

(* A backup as it is opened: an _id is an INTEGER PRIMARY KEY, counted from 1.    *)
BackupOk(b) ==
  /\ b = [d_database |-> b.d_database, d_attachments |-> b.d_attachments, d_avatars |-> b.d_avatars]
  /\ DOMAIN b.d_database = Tables
  /\ \A t \in Tables : Ids(b, t) \subseteq Nat \ {0}

(* Its messages are finitely many, and have the columns they are compared by.     *)
MessagesOk(b) ==
  /\ IsFiniteSet(Ids(b, "message"))
  /\ \A m \in Contents(b, "message") : UniqueColumns("message") \subseteq DOMAIN m /\ m.date_sent \in Int

(* Its frames are named by _ids, and nobody has two avatars.                      *)
FramesOk(b) ==
  /\ DOMAIN b.d_attachments \subseteq Nat \ {0}
  /\ \A a \in b.d_avatars : a = [recipient |-> a.recipient, picture |-> a.picture]
                            /\ a.recipient \in Nat \ {0}
  /\ \A a, c \in b.d_avatars : a.recipient = c.recipient => a = c

InputOk(b) == BackupOk(b) /\ MessagesOk(b) /\ FramesOk(b)

ASSUME ImportAssumption ==
  /\ force \in BOOLEAN
  /\ \A input \in Inputs : InputOk(input.target) /\ InputOk(input.source) /\ input.threads \in Seq(Int)

VARIABLES pc,
          src,            \* the source as it was opened
          compatible,     \* the versions of the databases allow an import
          threads,        \* the threads of it that are still to be imported
          targetthread,   \* the thread of the target the current one belongs in, or NULL
          todo            \* the recipients of the target that are yet to be matched

mainVars == <<pc, src, compatible, threads, targetthread, todo>>
vars == <<idVars, mainVars>>

thread == Head(threads)
Fields == {"aci", "e164", "group_id"}      \* of a recipient; "" is not set
Same(r, s, fields) == \E f \in fields : r[f] # "" /\ r[f] = s[f]
RecipientOf(b, t) == Rows(b, "recipient")[Rows(b, "thread")[t].recipient_id]

(* Recipients of the target: by phone number only when the aci is not known.     *)
Candidates(r) ==
  LET by(fields) == {i \in Ids(target, "recipient") : Same(r, Rows(target, "recipient")[i], fields)}
  IN  by({"group_id"}) \cup IF by({"aci"}) # {} THEN by({"aci"}) ELSE by({"e164"})

getThreadIdFromRecipient(id) ==
  {t \in Ids(target, "thread") : Rows(target, "thread")[t].recipient_id = id}

(* Only a single match counts, of the recipient and of the thread.               *)
FoundThread ==
  LET matches == Candidates(RecipientOf(src, thread))
      found   == UNION {getThreadIdFromRecipient(i) : i \in matches}
  IN  IF Cardinality(matches) = 1 /\ Cardinality(found) = 1
      THEN CHOOSE t \in found : TRUE ELSE NULL

(* cropToThread, cleanDatabaseByMessages and cleanAttachments.                   *)
Only(rows, P(_)) == Restrict(rows, {i \in DOMAIN rows : P(rows[i])})

CropToThread(b, t) ==
  LET message    == Only(Rows(b, "message"), LAMBDA m : m.thread_id = t)
      attachment == Only(Rows(b, "attachment"), LAMBDA a : a.message_id \in DOMAIN message)
      threadrows == Restrict(Rows(b, "thread"), {m.thread_id : m \in Range(message)} \cap Ids(b, "thread"))
      contacts   == {r.recipient_id : r \in Range(threadrows)}
      groups     == {Rows(b, "recipient")[i].group_id : i \in contacts \cap Ids(b, "recipient")} \ {""}
      members    == Only(Rows(b, "group_membership"), LAMBDA m : m.group_id \in groups)
      reaction   == Only(Rows(b, "reaction"), LAMBDA r : r.message_id \in DOMAIN message)
      referenced == contacts \cup {m.from_recipient_id : m \in Range(message)}
                             \cup {m.recipient_id : m \in Range(members)}
                             \cup {r.author_id : r \in Range(reaction)}
      recipient  == Restrict(Rows(b, "recipient"), referenced \cap Ids(b, "recipient"))
  IN  [d_database    |-> [thread |-> threadrows, message |-> message, attachment |-> attachment,
                          recipient |-> recipient, reaction |-> reaction,
                          group_membership |-> members],
       d_attachments |-> Restrict(b.d_attachments, DOMAIN b.d_attachments \cap DOMAIN attachment),
       d_avatars     |-> {a \in b.d_avatars : a.recipient \in DOMAIN recipient}]

-----------------------------------------------------------------------------
Init ==
  /\ \E input \in Inputs :
       /\ target = input.target /\ src = input.source /\ source = input.source
       /\ threads = input.threads /\ compatible = input.compatible
  /\ at = 1 /\ compacting = FALSE
  /\ pc = "pick" /\ targetthread = NULL /\ todo = {}

(* importThread returns; without --force a failure is the end of the program.    *)
Return(ok) ==
  /\ threads' = Tail(threads)
  /\ pc' = IF ok \/ force THEN "pick" ELSE "aborted"

Incompatible ==
  /\ pc = "pick" /\ threads # <<>>
  /\ ~ compatible
  /\ Return(FALSE)
  /\ UNCHANGED <<idVars, src, compatible, targetthread, todo>>

(* A range of thread numbers may name some that do not exist.                    *)
SkipThread ==
  /\ pc = "pick" /\ threads # <<>>
  /\ compatible
  /\ thread \notin Ids(src, "thread")
  /\ Return(TRUE)
  /\ UNCHANGED <<idVars, src, compatible, targetthread, todo>>

Crop ==
  /\ pc = "pick" /\ threads # <<>>
  /\ compatible
  /\ thread \in Ids(src, "thread")
  /\ targetthread' = FoundThread
  /\ source' = CropToThread(src, thread)
  /\ at' = 1 /\ compacting' = FALSE
  /\ pc' = "unique"
  /\ UNCHANGED <<target, src, compatible, threads, todo>>

MakeUnique ==
  /\ pc = "unique"
  /\ makeIdsUnique
  /\ UNCHANGED mainVars

(* A thread that exists takes the messages over: they are set to it as a whole.  *)
SetThread ==
  /\ pc = "unique" /\ AllUnique
  /\ todo' = Ids(target, "recipient")
  /\ IF targetthread = NULL THEN UNCHANGED source
     ELSE source' = [source EXCEPT !.d_database.message =
                       Update("message", @, WithColumn(@, "thread_id", LAMBDA v : targetthread))]
  /\ pc' = "recipients"
  /\ UNCHANGED <<target, at, compacting, src, compatible, threads, targetthread>>

(* Mutant: the phone number is not looked at.                                    *)
Doubles_ByAci(row) ==
  {i \in Ids(source, "recipient") : Same(row, Rows(source, "recipient")[i], Fields \ {"e164"})}

Doubles(row) == {i \in Ids(source, "recipient") : Same(row, Rows(source, "recipient")[i], Fields)}

(* updateRecipientId: nothing is done when the recipient is not there, or is     *)
(* there more than once.                                                         *)
WithRecipientId(b, targetid, doubles) ==
  IF Cardinality(doubles) # 1 THEN b
  ELSE LET sourceid == CHOOSE i \in doubles : TRUE
       IN  [b EXCEPT !.d_database = Redirected(@, "recipient", targetid, sourceid),
                     !.d_avatars  = {[a EXCEPT !.recipient = Renamed(@, targetid, sourceid)] : a \in @}]

Dropped(b, t, ids) == [b EXCEPT !.d_database[t] = Restrict(@, DOMAIN @ \ ids)]

(* For every recipient of the target: what refers to its double in the source is *)
(* to refer to it.  The doubles go at once when the thread is new.               *)
MatchRecipient ==
  /\ pc = "recipients" /\ todo # {}
  /\ \E i \in getMinUsedId(todo) :
       LET doubles == Doubles(Rows(target, "recipient")[i])
           updated == WithRecipientId(source, i, doubles)
       IN  /\ todo' = todo \ {i}
           /\ source' = IF targetthread = NULL THEN Dropped(updated, "recipient", doubles) ELSE updated
  /\ UNCHANGED <<target, at, compacting, pc, src, compatible, threads, targetthread>>

(* What the target has already is taken out of the source: the thread with its   *)
(* avatars and the doubles, or avatars of the same name; memberships either way. *)
MembershipKeys == {Key("group_membership", m) : m \in Contents(target, "group_membership")}

WithoutExisting(b) ==
  Dropped(b, "group_membership",
          {i \in Ids(b, "group_membership") :
             Key("group_membership", Rows(b, "group_membership")[i]) \in MembershipKeys})

(* Mutant: the avatars stay when the thread exists already.                      *)
DropExisting_AvatarsKept ==
  /\ pc = "recipients" /\ todo = {}
  /\ source' = WithoutExisting(
       IF targetthread = NULL
       THEN [source EXCEPT !.d_avatars =
               {a \in @ : \A b \in target.d_avatars : a.recipient # b.recipient}]
       ELSE Dropped(Dropped(source, "thread", Ids(source, "thread")), "recipient",
                    UNION {Doubles(row) : row \in Contents(target, "recipient")}))
  /\ pc' = "insert"
  /\ UNCHANGED <<target, at, compacting, src, compatible, threads, targetthread, todo>>

DropExisting ==
  /\ pc = "recipients" /\ todo = {}
  /\ source' = WithoutExisting(
       IF targetthread = NULL
       THEN [source EXCEPT !.d_avatars =
               {a \in @ : \A b \in target.d_avatars : a.recipient # b.recipient}]
       ELSE [Dropped(Dropped(source, "thread", Ids(source, "thread")), "recipient",
                     UNION {Doubles(row) : row \in Contents(target, "recipient")})
               EXCEPT !.d_avatars = {}])
  /\ pc' = "insert"
  /\ UNCHANGED <<target, at, compacting, src, compatible, threads, targetthread, todo>>

-----------------------------------------------------------------------------
(* INSERT INTO t: a row with an _id or with unique columns that are in use is    *)
(* refused, without a word; a reaction replaces the one with its columns.        *)
Clashes(t, row) ==
  {i \in Ids(target, t) :
     \/ UniqueColumns(t) # {} /\ Key(t, row) = Key(t, Rows(target, t)[i])
     \/ t = "recipient" /\ Same(row, Rows(target, t)[i], Fields)}

Accepted(t) ==
  {i \in Ids(source, t) :
     /\ i \notin Ids(target, t)
     /\ t = "reaction" \/ Clashes(t, Rows(source, t)[i]) = {}}

Merged(t) ==
  LET replaced == IF t # "reaction" THEN {}
                  ELSE UNION {Clashes(t, Rows(source, t)[i]) : i \in Accepted(t)}
  IN  [i \in (Ids(target, t) \ replaced) \cup Accepted(t) |->
         IF i \in Accepted(t) THEN Rows(source, t)[i] ELSE Rows(target, t)[i]]

(* The data of attachments is put in by row, an entry that is there stays; the   *)
(* avatars are appended.                                                         *)
Insert ==
  /\ pc = "insert"
  /\ target' =
       [d_database    |-> [t \in Tables |-> Merged(t)],
        d_attachments |-> [i \in DOMAIN target.d_attachments \cup DOMAIN source.d_attachments |->
                             IF i \in DOMAIN target.d_attachments THEN target.d_attachments[i]
                                                                  ELSE source.d_attachments[i]],
        d_avatars     |-> target.d_avatars \cup source.d_avatars]
  /\ pc' = "check"
  /\ UNCHANGED <<source, at, compacting, src, compatible, threads, targetthread, todo>>

(* The columns that the tables declare with REFERENCES.                          *)
ForeignKeys ==
  {<<"message", "thread_id", "thread">>, <<"message", "from_recipient_id", "recipient">>,
   <<"thread", "recipient_id", "recipient">>,
   <<"reaction", "message_id", "message">>, <<"reaction", "author_id", "recipient">>}

ForeignKeysHold ==
  \A k \in ForeignKeys : \A row \in Contents(target, k[1]) : row[k[2]] \in Ids(target, k[3])

checkDbIntegrity ==
  /\ pc = "check"
  /\ Return(ForeignKeysHold)
  /\ UNCHANGED <<idVars, src, compatible, targetthread, todo>>

-----------------------------------------------------------------------------
(* Mutant: messages of the same date share a place.                              *)
Place_Shared(m) ==
  LET date(i) == Rows(target, "message")[i].date_sent
  IN  Cardinality({i \in Ids(target, "message") : date(i) <= date(m)})

(* reorderMmsSmsIds.  Every message gets its place by date, of equal ones the    *)
(* first read first; negative at first, so as not to meet an _id in use.  The    *)
(* first half has a statement per message and column.                            *)
Place(m) ==
  LET date(i) == Rows(target, "message")[i].date_sent
  IN  Cardinality({i \in Ids(target, "message") : date(i) < date(m) \/ (date(i) = date(m) /\ i <= m)})

ReorderedColumns ==
  [t \in Tables |-> CASE t = "message"                   -> {"original_message_id"}
                      [] t \in {"attachment", "reaction"} -> {"message_id"}
                      [] OTHER                            -> {}]

EachColumn(rows, columns, f(_)) ==
  [i \in DOMAIN rows |-> [c \in DOMAIN rows[i] |-> IF c \in columns THEN f(rows[i][c]) ELSE rows[i][c]]]

Negated(value) == IF value \in Ids(target, "message") THEN -Place(value) ELSE value
Restored(value) == IF value < 0 THEN -value ELSE value

ReorderDown ==
  /\ pc = "pick" /\ threads = <<>>
  /\ target' = [target EXCEPT !.d_database =
       [t \in Tables |-> LET rows == IF t = "message" THEN Rekey(Rows(target, t), Negated)
                                                      ELSE Rows(target, t)
                         IN  EachColumn(rows, ReorderedColumns[t], Negated)]]
  /\ pc' = "reorder"
  /\ UNCHANGED <<source, at, compacting, src, compatible, threads, targetthread, todo>>

ReorderUp ==
  /\ pc = "reorder"
  /\ target' = [target EXCEPT !.d_database =
       [t \in Tables |-> LET rows == IF t = "message" THEN Rekey(Rows(target, t), Restored)
                                                      ELSE Rows(target, t)
                         IN  Update(t, rows, EachColumn(rows, ReorderedColumns[t], Restored))]]
  /\ pc' = "done"
  /\ UNCHANGED <<source, at, compacting, src, compatible, threads, targetthread, todo>>

Next ==
  \/ Incompatible \/ SkipThread \/ Crop \/ MakeUnique \/ SetThread
  \/ MatchRecipient \/ DropExisting \/ Insert \/ checkDbIntegrity
  \/ ReorderDown \/ ReorderUp

(* A sequential program: it goes on as long as it can.                           *)
Spec == Init /\ [][Next]_vars /\ WF_vars(Next)
-----------------------------------------------------------------------------
(* Properties *)

(* The types.  Only the reordering gives rows of the target negative _ids, and   *)
(* only for a while.                                                             *)
TypeOK ==
  /\ BackupOk(source) /\ BackupOk(src)
  /\ pc # "reorder" => BackupOk(target)
  /\ \A b \in {target, source} : /\ DOMAIN b.d_attachments \subseteq Nat \ {0}
                                 /\ \A a \in b.d_avatars : a.recipient \in Nat \ {0}
  /\ at \in 1 .. Len(s_databaselinks) + 1 /\ compacting \in BOOLEAN
  /\ pc \in {"pick", "unique", "recipients", "insert", "check", "reorder", "done", "aborted"}
  /\ threads \in Seq(Int) /\ targetthread \in Int /\ todo \subseteq Ids(target, "recipient")

(* A table that has been renumbered shares no _id with the target, and keeps it  *)
(* so while its gaps are closed, the other tables are renumbered and recipients  *)
(* are matched: no INSERT is refused for its _id, no data for its row.           *)
Renumbered(t) ==
  \/ pc \in {"recipients", "insert"}
  \/ pc = "unique" /\ \E i \in DOMAIN s_databaselinks :
       s_databaselinks[i].table = t /\ (i < at \/ (i = at /\ compacting))

IdsApart == \A t \in Tables : Renumbered(t) => Ids(source, t) \cap Ids(target, t) = {}

(* A source has the columns that are used, and satisfies its UNIQUE constraints.  *)
ColumnsOf(t) ==
  {"who"} \cup UniqueColumns(t) \cup {c.column : c \in {d \in Connections : d.table = t}}

RowsOk(b) ==
  \A t \in Tables : \A i, j \in Ids(b, t) :
     /\ ColumnsOf(t) \subseteq DOMAIN Rows(b, t)[i]
     /\ UniqueColumns(t) # {} /\ Key(t, Rows(b, t)[i]) = Key(t, Rows(b, t)[j]) => i = j

(* What its rows refer to is there.                                              *)
RefersWithin(b) ==
  \A t \in Tables : \A c \in ConnectionsTo(t) : \A row \in Contents(b, c.table) :
     row[c.column] \in Ids(b, t) \cup {NULL}

(* Every frame has its row.                                                      *)
HaveRows(b) ==
  /\ DOMAIN b.d_attachments \subseteq Ids(b, "attachment")
  /\ \A a \in b.d_avatars : a.recipient \in Ids(b, "recipient")

(* The _ids of the target reach as far, so that no reference moves to where       *)
(* another one is yet to be moved from.                                          *)
Reaches(b, c) ==
  \A t \in {"message", "recipient"} : \A i \in Ids(c, t) : \E j \in Ids(b, t) : i <= j

(* There is a preview to look the type of its JSON value up in.                  *)
HasPreview(b) == \E m \in Contents(b, "message") : m.link_previews # NULL

(* The backups whose links the renumbering can keep.                             *)
Renumberable(input) ==
  /\ RowsOk(input.source)
  /\ \A t \in Ids(input.source, "thread") : RefersWithin(CropToThread(input.source, t))
  /\ Reaches(input.target, input.source)
  /\ HasPreview(input.source) => HasPreview(input.target)

(* Renumbering changes no meaning: every row, reference, attachment and avatar   *)
(* of the cropped source is what it was, or the link list or the order of the    *)
(* UPDATEs has broken it.                                                        *)
LinksKept ==
  pc = "unique" /\ AllUnique => Facts(source) = Facts(CropToThread(src, thread))

(* Nobody in the target has two avatars, which the next load would take one of:  *)
(* those of contacts it knows by another number are not taken over.              *)
AvatarsDistinct ==
  \A a, b \in target.d_avatars : a.recipient = b.recipient => a = b

(* In the end the messages of all threads are numbered by date from 1 on.        *)
InDateOrder ==
  pc = "done" =>
     LET message == Rows(target, "message")
     IN  /\ DOMAIN message = 1 .. Cardinality(DOMAIN message)
         /\ \A i, j \in DOMAIN message : i < j => message[i].date_sent <= message[j].date_sent

(* Every import ends: gaps are closed one by one, recipients matched one by one, *)
(* and each thread is imported once.                                             *)
ImportEnds == <>(pc \in {"done", "aborted"})
=============================================================================
