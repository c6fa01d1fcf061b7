------------------------------ MODULE EditDatabase ------------------------------
(* The operations with which main edits a backup in memory, between the imports   *)
(* and the output, in the order in which main carries them out: doubled messages   *)
(* are removed, the database is cropped, recipients and groups are merged,         *)
(* attachments are deleted or replaced, rows with broken references are removed.   *)
EXTENDS CleanDatabase

CONSTANTS Openings,  \* [backup, command]: what is opened, and what is asked for
          Pieces,    \* what the body of a message is made of, of one UTF-16 unit each
          Second     \* the milliseconds of a second

Note == "note"         \* a unit of what takes the place of an attachment in a body
BlankLine == 2         \* the units, and bytes, of the line put between it and the rest
NoDate == -1           \* what a date that cannot be read is turned into

Dated(v) == v \in Nat \cup {NoDate}

EditTables == Tables \cup {"groups"}
MessageColumns ==
  {"thread_id", "from_recipient_id", "to_recipient_id", "quote_author", "date_sent", "date_received",
   "body", "mention", "range", "link_previews", "original_message_id", "latest_revision_id"}
ThreadColumns == {"recipient_id", "meaningful_messages", "active", "snippet"}

(* A backup as it is opened: of its tables, the rows are finitely many and have     *)
(* the columns.  mention is where a body names somebody (of the table of mentions),  *)
(* range where its formatting starts (of message_ranges); 0 means that there is none. *)
TablesOk(b) ==
  /\ b = [d_database |-> b.d_database, d_attachments |-> b.d_attachments, d_avatars |-> b.d_avatars]
  /\ DOMAIN b.d_database = EditTables
  /\ \A t \in EditTables : IsFiniteSet(Ids(b, t)) /\ Ids(b, t) \subseteq Nat \ {0}

MessageOk(row) ==
  /\ MessageColumns \subseteq DOMAIN row
  /\ row.body \in Seq(Pieces) /\ {row.mention, row.range} \subseteq Nat

PositionsOk(b) ==
  \A m \in Ids(b, "message") : LET row == Rows(b, "message")[m]
                               IN  {row.mention, row.range} \subseteq 0 .. Len(row.body)

RowsOk(b) ==
  /\ \A m \in Ids(b, "message") : MessageOk(Rows(b, "message")[m])
  /\ \A t \in Ids(b, "thread") : ThreadColumns \subseteq DOMAIN Rows(b, "thread")[t]
  /\ \A a \in Ids(b, "attachment") : "data_size" \in DOMAIN Rows(b, "attachment")[a]

(* What is in memory of an attachment has the size its row says, and a preview is   *)
(* an attachment of the message with the link.                                    *)
DataOk(b) ==
  \A a \in DOMAIN b.d_attachments :
     a \in Ids(b, "attachment") /\ Rows(b, "attachment")[a].data_size = b.d_attachments[a]

PreviewsOk(b) ==
  \A m \in Ids(b, "message") : Rows(b, "message")[m].link_previews \in FilesOf(b, m) \cup {NULL}

OpenedOk(b) == TablesOk(b) /\ RowsOk(b) /\ DataOk(b) /\ PreviewsOk(b)

(* What the tables declare: a reaction is to a message and of somebody; no two      *)
(* messages have thread, sender and time in common, no two recipients a number.    *)
MessagesUnique(b) ==
  \A m, n \in Ids(b, "message") :
     Key("message", Rows(b, "message")[m]) = Key("message", Rows(b, "message")[n]) => m = n

NumbersUnique(b) ==
  \A i, j \in Ids(b, "recipient") :
     Rows(b, "recipient")[i].e164 = Rows(b, "recipient")[j].e164 => i = j \/ Rows(b, "recipient")[i].e164 = ""

ReactionsOk(b) == \A r \in Ids(b, "reaction") : UniqueColumns("reaction") \subseteq DOMAIN Rows(b, "reaction")[r]

DeclaredOk(b) == MessagesUnique(b) /\ NumbersUnique(b) /\ ReactionsOk(b)

(* Notes are given by their length, of the one in front also in bytes: UTF-8 takes  *)
(* no less than a byte for what is a unit in UTF-16.                              *)
NotesOk(spec) == {spec.append, spec.prepend, spec.bytes} \subseteq Nat /\ spec.prepend <= spec.bytes

(* What may be asked for.  An address is a phone number or an _id; operations that *)
(* are not asked for have -1, an empty sequence or an empty set.                   *)
CommandOk(c) ==
  /\ c.removedoubles \in Nat \cup {-1}
  /\ \A i \in DOMAIN c.croptodates : LET r == c.croptodates[i]
                                     IN  Dated(r.first) /\ Dated(r.last) /\ r.text \in BOOLEAN
  /\ c.croptothreads \subseteq Nat
  /\ c.mergerecipients \in Seq([phone : STRING, id : Nat])
  /\ c.mergegroups \in Seq(Nat)
  /\ c.deleteattachments # <<>> => DOMAIN c.deleteattachments = {1} /\ NotesOk(c.deleteattachments[1])
  /\ c.autofixfkc \in BOOLEAN /\ c.force \in BOOLEAN

ASSUME EditAssumption ==
  /\ Second \in Nat \ {0} /\ Note \in Pieces
  /\ \A o \in Openings : OpenedOk(o.backup) /\ PositionsOk(o.backup) /\ DeclaredOk(o.backup) /\ CommandOk(o.command)

VARIABLES pc,
          backup,
          opened,    \* the backup as it was
          command,
          tid,       \* the thread that groups are merged into, or NULL
          nth,       \* the number of the group to be merged into it next
          broken     \* the foreign keys the autofix has found violated and not yet been through

vars == <<pc, backup, opened, command, tid, nth, broken>>

-----------------------------------------------------------------------------
(* Messages of a thread that say the same: the sender, the text, and number and    *)
(* size of the attachments agree.                                                 *)
Size(b, m) == SumFunction([a \in FilesOf(b, m) |-> Rows(b, "attachment")[a].data_size])

Alike(b, m, n) ==
  LET r == Rows(b, "message")[m]  s == Rows(b, "message")[n]
  IN  /\ r.thread_id = s.thread_id /\ r.thread_id \in Ids(b, "thread")
      /\ r.from_recipient_id = s.from_recipient_id /\ r.body = s.body
      /\ Cardinality(FilesOf(b, m)) = Cardinality(FilesOf(b, n)) /\ Size(b, m) = Size(b, n)

Near(b, m, n, ms) ==
  LET date(i) == Rows(b, "message")[i].date_sent
  IN  date(m) - date(n) \in -ms .. ms

(* Mutant: neither of two doubles stays.                                          *)
Doubles_Both(b, ms) ==
  LET ids == Ids(b, "message")
  IN  {m \in ids : \E n \in ids \ {m} : Alike(b, m, n) /\ Near(b, m, n, ms)}

Doubles(b, ms) ==
  LET ids == Ids(b, "message")
  IN  {m \in ids : \E n \in ids : m < n /\ Alike(b, m, n) /\ Near(b, m, n, ms)}

(* removeDoubles: of any two doubles the later row stays.  Revisions of a message  *)
(* that is gone go too, a last revision is cut loose from its original.            *)
WithoutDoubles(b, ms) ==
  LET left      == Restrict(Rows(b, "message"), Ids(b, "message") \ Doubles(b, ms))
      latest    == RestrictValues(left, LAMBDA m : m.latest_revision_id \in DOMAIN left \cup {NULL})
      message   == [i \in DOMAIN latest |->
                      [latest[i] EXCEPT !.original_message_id = IF @ \in DOMAIN latest THEN @ ELSE NULL]]
      Kept(t)   == RestrictValues(Rows(b, t), LAMBDA r : r.message_id \in DOMAIN message)
  IN  CleanAttachments(WithRows(WithRows(WithRows(b, "message", message),
                                         "attachment", Kept("attachment")),
                                "reaction", Kept("reaction")))

(* A range given in words ends with its last second.                              *)
Covers(range, date) ==
  date \in range.first .. (range.last + IF range.text THEN Second - 1 ELSE 0)

Readable(range) == NoDate \notin {range.first, range.last} /\ range.first <= range.last

CroppedTo(b, P(_)) ==
  CleanDatabaseByMessages(WithRows(b, "message", RestrictValues(Rows(b, "message"), P)))

(* Mutant: with more than one range, what is in none but one goes.                *)
InRanges_Every(ranges, m) == \A i \in DOMAIN ranges : Covers(ranges[i], m.date_received)

InRanges(ranges, m) == \E i \in DOMAIN ranges : Covers(ranges[i], m.date_received)

-----------------------------------------------------------------------------
(* UPDATE t SET c = new WHERE c = old.                                            *)
Set(b, t, c, new, old) ==
  WithRows(b, t, Update(t, Rows(b, t), WithColumn(Rows(b, t), c, LAMBDA v : Renamed(v, new, old))))

ThreadsOf(b, r) == {t \in Ids(b, "thread") : Rows(b, "thread")[t].recipient_id = r}
getThreadIdFromRecipient(b, r) ==
  IF Cardinality(ThreadsOf(b, r)) = 1 THEN CHOOSE t \in ThreadsOf(b, r) : TRUE ELSE NULL

(* Mutant: those who quote the old recipient keep quoting them.                   *)
Renaming_NotQuotes(b, new, old) ==
  Set(Set(Set(b, "message", "from_recipient_id", new, old), "message", "to_recipient_id", new, old),
      "reaction", "author_id", new, old)

Renaming(b, new, old) ==
  Set(Set(Set(Set(b, "message", "from_recipient_id", new, old), "message", "to_recipient_id", new, old),
          "message", "quote_author", new, old),
      "reaction", "author_id", new, old)

(* The messages are moved, everything is renamed, the old thread is marked empty:  *)
(* unless it is not.  Nothing else of the threads is brought up to date.           *)
MergedRecipients(b, target, old) ==
  LET newtid  == getThreadIdFromRecipient(b, target)
      oldtid  == getThreadIdFromRecipient(b, old)
      both    == NULL \notin {newtid, oldtid}
      renamed == Renaming(IF both THEN Set(b, "message", "thread_id", newtid, oldtid) ELSE b, target, old)
  IN  IF ~ both THEN [ok |-> TRUE, backup |-> renamed]
      ELSE IF MessagesOf(renamed, oldtid) # {} THEN [ok |-> FALSE, backup |-> renamed]
      ELSE [ok |-> TRUE,
            backup |-> [renamed EXCEPT !.d_database.thread[oldtid].meaningful_messages = 0,
                                       !.d_database.thread[oldtid].active = FALSE]]

(* Whether a number has to be looked up is always asked of the first address, so   *)
(* the second one never is.  A recipient that is not there is reported, and the    *)
(* `return 1' that follows means that all is well.                                *)
ByPhone(b, address) == {i \in Ids(b, "recipient") : Rows(b, "recipient")[i].e164 = address.phone}

MergeRecipients(b, addresses) ==
  LET isnumber == addresses[1].phone # ""
      old      == IF isnumber THEN CHOOSE i \in ByPhone(b, addresses[1]) : TRUE ELSE addresses[1].id
      target   == IF addresses[2].phone # "" THEN NULL ELSE addresses[2].id
  IN  IF Len(addresses) # 2 THEN [ok |-> FALSE, backup |-> b]
      ELSE IF isnumber /\ Cardinality(ByPhone(b, addresses[1])) # 1 THEN [ok |-> FALSE, backup |-> b]
      ELSE IF ~ {old, target} \subseteq Ids(b, "recipient") THEN [ok |-> TRUE, backup |-> b]
      ELSE MergedRecipients(b, target, old)

(* mergeGroups: the thread of an old group goes, whether its messages could be     *)
(* moved or not.  (The groups are named by their recipients; the statements that    *)
(* look for members and groups by the same name find none.)                        *)
MergedGroup(b, target, old) ==
  LET oldtid == getThreadIdFromRecipient(b, old)
      moved  == Set(Set(Set(b, "message", "thread_id", tid, oldtid),
                        "message", "to_recipient_id", target, old),
                    "reaction", "author_id", target, old)
  IN  IF oldtid = NULL THEN b
      ELSE WithRows(moved, "thread", Restrict(Rows(moved, "thread"), Ids(moved, "thread") \ {oldtid}))

-----------------------------------------------------------------------------
(* The attachments a specification names: a limit that is not set does not count, *)
(* one on the message leaves out attachments without one.  Dates of 0 are not set. *)
OfMessage(spec, message) ==
  /\ spec.threads # {} => message.thread_id \in spec.threads
  /\ spec.before # 0 => message.date_received < spec.before
  /\ spec.after # 0 => message.date_received > spec.after

OfFile(spec, row) ==
  /\ row.data_size > spec.larger
  /\ spec.mimetypes # {} => row.content_type \in spec.mimetypes

Listed(b, spec) ==
  LET message == Rows(b, "message")
      limited == spec.threads # {} \/ spec.before # 0 \/ spec.after # 0
      Of(m)   == m \in DOMAIN message /\ OfMessage(spec, message[m])
  IN  {a \in Ids(b, "attachment") : /\ limited => Of(Rows(b, "attachment")[a].message_id)
                                    /\ OfFile(spec, Rows(b, "attachment")[a])}

(* Every attachment that goes leaves a note, set apart by a blank line if there is  *)
(* a body.  Where somebody is named and where a format starts is moved with every   *)
(* note in front, by its bytes; but not the format of a body from its beginning,     *)
(* whose start is not set (proto3 leaves a 0 out).                                *)
Notes(n) == [i \in 1 .. n |-> Note]
Taken(n, length) == IF length = 0 THEN 0 ELSE n * (length + BlankLine)

WithNotes_Once(m, n, spec) ==
  LET before == Taken(n, spec.prepend)
      after  == Taken(n, spec.append)
      moved  == IF n = 0 \/ spec.prepend = 0 THEN 0 ELSE spec.bytes + BlankLine
  IN  [m EXCEPT !.body = Notes(before) \o @ \o Notes(after),
                !.mention = IF @ = 0 THEN @ ELSE @ + moved,
                !.range = IF @ <= 1 THEN @ ELSE @ + moved]

WithNotes(m, n, spec) ==
  LET before == Taken(n, spec.prepend)
      after  == Taken(n, spec.append)
      moved  == IF before = 0 THEN 0 ELSE Taken(n, spec.bytes)
  IN  [m EXCEPT !.body = IF @ = <<>> /\ before + after > 0 THEN Notes(before + after - BlankLine)
                         ELSE Notes(before) \o @ \o Notes(after),
                !.mention = IF @ = 0 THEN @ ELSE @ + moved,
                !.range = IF @ <= 1 THEN @ ELSE @ + moved]

(* Mutant: the previews keep the attachments that are gone.                       *)
WithPreviews_Kept(b) == b

(* A preview whose attachment is gone has none.                                   *)
WithPreviews(b) ==
  WithRows(b, "message", WithColumn(Rows(b, "message"), "link_previews",
                                    LAMBDA a : IF a \in Ids(b, "attachment") THEN a ELSE NULL))

(* Mutant: one attachment that goes is enough.                                     *)
Unattached_OneGone(b, listed) ==
  {m \in Ids(b, "message") : FilesOf(b, m) \cap listed # {} /\ Rows(b, "message")[m].body = <<>>}

(* The messages that had nothing but the listed attachments.                       *)
Unattached(b, listed) ==
  {m \in Ids(b, "message") : /\ FilesOf(b, m) # {} /\ FilesOf(b, m) \subseteq listed
                             /\ Rows(b, "message")[m].body = <<>>}

(* The listed attachments go, and with them, if no note is left, the messages that *)
(* had nothing else.                                                              *)
Deleted(b, spec) ==
  LET listed == Listed(b, spec)
      count(m) == Cardinality(FilesOf(b, m) \cap listed)
      without == WithRows(b, "attachment", Restrict(Rows(b, "attachment"), Ids(b, "attachment") \ listed))
      noted   == [m \in Ids(b, "message") |-> WithNotes(Rows(b, "message")[m], count(m), spec)]
      message == IF spec.append + spec.prepend > 0 THEN noted
                                               ELSE Restrict(noted, Ids(b, "message") \ Unattached(b, listed))
  IN  CleanDatabaseByMessages(CleanAttachments(WithPreviews(WithRows(without, "message", message))))

(* Or their data is replaced, of those that have any; the row is told the new size  *)
(* (and kind, which nothing looks at after this).                                 *)
Replaced(b, spec) ==
  LET listed == Listed(b, spec) \cap DOMAIN b.d_attachments
  IN  [b EXCEPT !.d_attachments = [a \in DOMAIN @ |-> IF a \in listed THEN spec.size ELSE @[a]],
                !.d_database.attachment =
                   [a \in DOMAIN @ |-> IF a \in listed THEN [@[a] EXCEPT !.data_size = spec.size] ELSE @[a]]]

DeleteAttachments(b, spec) ==
  IF NoDate \in {spec.before, spec.after} THEN [ok |-> FALSE, backup |-> b]
  ELSE [ok |-> TRUE, backup |-> IF spec.replace THEN Replaced(b, spec) ELSE Deleted(b, spec)]

-----------------------------------------------------------------------------
Init ==
  /\ \E o \in Openings : opened = o.backup /\ backup = o.backup /\ command = o.command
  /\ pc = "removeDoubles" /\ tid = NULL /\ nth = 1 /\ broken = {}

Step(operation, next, changed) ==
  /\ pc = operation
  /\ backup' = changed
  /\ pc' = next
  /\ UNCHANGED <<opened, command, tid, nth, broken>>

(* An operation that may fail: without --force that is the end of the program.    *)
Try(operation, next, result) ==
  Step(operation, IF result.ok \/ command.force THEN next ELSE "aborted", result.backup)

removeDoubles ==
  Step("removeDoubles", "cropToDates",
       IF command.removedoubles >= 0 THEN WithoutDoubles(backup, command.removedoubles) ELSE backup)

(* Nobody asks whether the ranges could be read.                                  *)
cropToDates ==
  LET ranges == command.croptodates
  IN  Step("cropToDates", "cropToThread",
           IF ranges # <<>> /\ \A i \in DOMAIN ranges : Readable(ranges[i])
           THEN CroppedTo(backup, LAMBDA m : InRanges(ranges, m)) ELSE backup)

cropToThread ==
  Step("cropToThread", "mergeRecipients",
       IF command.croptothreads # {}
       THEN CroppedTo(backup, LAMBDA m : m.thread_id \in command.croptothreads) ELSE backup)

mergeRecipients ==
  Try("mergeRecipients", "mergeGroups",
      IF command.mergerecipients # <<>> THEN MergeRecipients(backup, command.mergerecipients)
                                        ELSE [ok |-> TRUE, backup |-> backup])

(* The thread of the last of the groups is looked for once; without one none of     *)
(* the others is merged, but the threads are brought up to date all the same.      *)
mergeGroups ==
  LET groupids == command.mergegroups
  IN  /\ pc = "mergeGroups"
      /\ IF Len(groupids) < 2 THEN pc' = "deleteAttachments" /\ UNCHANGED tid
         ELSE pc' = "eachGroup" /\ tid' = getThreadIdFromRecipient(backup, Last(groupids))
      /\ UNCHANGED <<backup, opened, command, nth, broken>>

MergeGroup ==
  /\ pc = "eachGroup" /\ tid # NULL /\ nth < Len(command.mergegroups)
  /\ backup' = MergedGroup(backup, Last(command.mergegroups), command.mergegroups[nth])
  /\ nth' = nth + 1
  /\ UNCHANGED <<pc, opened, command, tid, broken>>

GroupsMerged ==
  /\ tid = NULL \/ nth = Len(command.mergegroups)
  /\ Step("eachGroup", "deleteAttachments", UpdateThreadsEntries(backup))

deleteAttachments ==
  Try("deleteAttachments", IF command.autofixfkc THEN "autofix" ELSE "done",
      IF command.deleteattachments # <<>> THEN DeleteAttachments(backup, command.deleteattachments[1])
                                          ELSE [ok |-> TRUE, backup |-> backup])

(* Mutant: what was found is not waited for.                                      *)
FindViolations_Once ==
  /\ pc = "autofix" /\ broken = {}
  /\ broken' = {k \in ForeignKeys : Violations(backup, k) # {}}
  /\ pc' = "done"
  /\ UNCHANGED <<backup, opened, command, tid, nth>>

(* fixForeignKeyConstraintViolations: until no key is violated, the keys that are   *)
(* found violated are gone through, and the rows that violate it by then deleted.  *)
FindViolations ==
  /\ pc = "autofix" /\ broken = {}
  /\ broken' = {k \in ForeignKeys : Violations(backup, k) # {}}
  /\ pc' = IF broken' = {} THEN "done" ELSE "autofix"
  /\ UNCHANGED <<backup, opened, command, tid, nth>>

(* Mutant: the key stays listed, its rows stay in.                                 *)
DeleteViolations_ForgetsRows ==
  /\ pc = "autofix"
  /\ \E k \in broken : broken' = broken \ {k}
  /\ UNCHANGED <<pc, backup, opened, command, tid, nth>>

(* Mutant: all rows of a table with a violation are deleted.                      *)
DeleteViolations_AllOfTable ==
  /\ pc = "autofix"
  /\ \E k \in broken :
       /\ backup' = WithRows(backup, k.table,
                             IF Violations(backup, k) = {} THEN Rows(backup, k.table) ELSE <<>>)
       /\ broken' = broken \ {k}
  /\ UNCHANGED <<pc, opened, command, tid, nth>>

DeleteViolations ==
  /\ pc = "autofix"
  /\ \E k \in broken :
       /\ backup' = WithRows(backup, k.table, Restrict(Rows(backup, k.table),
                                               Ids(backup, k.table) \ Violations(backup, k)))
       /\ broken' = broken \ {k}
  /\ UNCHANGED <<pc, opened, command, tid, nth>>

Next ==
  \/ removeDoubles \/ cropToDates \/ cropToThread \/ mergeRecipients
  \/ mergeGroups \/ MergeGroup \/ GroupsMerged \/ deleteAttachments \/ FindViolations \/ DeleteViolations

(* A sequential program: it goes on as long as it can.  Only the autofix is a loop. *)
Spec == Init /\ [][Next]_vars /\ WF_vars(FindViolations \/ DeleteViolations)
-----------------------------------------------------------------------------
(* Properties *)

(* The types: rows stay numbered from 1, and the operations come in their order.  *)
EditTypeOK ==
  /\ pc \in {"removeDoubles", "cropToDates", "cropToThread", "mergeRecipients", "mergeGroups",
             "eachGroup", "deleteAttachments", "autofix", "done", "aborted"}
  /\ DOMAIN backup.d_database = EditTables
  /\ \A t \in EditTables : Ids(backup, t) \subseteq Nat \ {0}
  /\ tid \in Nat /\ nth \in 1 .. Len(command.mergegroups) + 1
  /\ broken \subseteq ForeignKeys
  /\ broken # {} => pc = "autofix"

Holds(b, keys) == \A k \in keys : Violations(b, k) = {}

(* Messages of different threads, of those given, never have the same date: what   *)
(* SQLite would refuse to put in one thread.                                      *)
Apart(b, threads) ==
  \A m, n \in {i \in Ids(b, "message") : Rows(b, "message")[i].thread_id \in threads} :
     Rows(b, "message")[m].date_sent = Rows(b, "message")[n].date_sent =>
        Rows(b, "message")[m].thread_id = Rows(b, "message")[n].thread_id

ThreadsOfAll(b, recipients) == UNION {ThreadsOf(b, r) : r \in recipients}

(* The recipient an address is meant for.                                         *)
Meant(address) ==
  IF address.phone = "" THEN {address.id} \cap Ids(opened, "recipient") ELSE ByPhone(opened, address)

(* Those whose threads are to be made one.                                        *)
Merged == Range(command.mergegroups) \cup UNION {Meant(command.mergerecipients[i]) :
                                                   i \in DOMAIN command.mergerecipients}

(* Their threads: a message of one of them may be in another by the time that        *)
(* attachments are deleted.                                                       *)
MergedThreads == ThreadsOfAll(opened, Merged)

(* Whatever is asked for, and in whichever combination: every reference between     *)
(* threads, messages, recipients, reactions and groups that held when the backup    *)
(* was opened still holds after each operation.  (Not the links between revisions:  *)
(* see NoNewViolations.  Nor those of a group that is merged into itself, or that   *)
(* has messages of the same time as others it is merged with.)                     *)
ReferencesHold ==
  /\ pc # "autofix"
  /\ Holds(opened, ForeignKeys \ RevisionKeys)
  /\ Len(command.mergegroups) >= 2 =>
       IsInjective(command.mergegroups) /\ Apart(opened, MergedThreads)
  => Holds(backup, ForeignKeys \ RevisionKeys)

(* No operation of the program introduces a violation, links between revisions and  *)
(* clashing groups included.                                                      *)
NoNewViolations == pc # "autofix" /\ Holds(opened, ForeignKeys) => Holds(backup, ForeignKeys)

(* All that a message says, with everything that belongs to it, in names.          *)
Says(b, m) ==
  LET row == Rows(b, "message")[m]
      t   == Rows(b, "thread")[row.thread_id]
      group == {g.group_id : g \in {h \in Contents(b, "groups") : h.recipient_id = t.recipient_id}}
      people == {row.from_recipient_id, row.to_recipient_id, row.quote_author, t.recipient_id}
  IN  [text      |-> row.body, dates |-> <<row.date_sent, row.date_received>>,
       chat      |-> Name(b, "recipient", t.recipient_id),
       from      |-> Name(b, "recipient", row.from_recipient_id),
       to        |-> Name(b, "recipient", row.to_recipient_id),
       quotes    |-> Name(b, "recipient", row.quote_author),
       preview   |-> Name(b, "attachment", row.link_previews),
       files     |-> {<<Rows(b, "attachment")[a].who, a \in DOMAIN b.d_attachments>> : a \in FilesOf(b, m)},
       reactions |-> {Name(b, "recipient", r.author_id)
                        : r \in {x \in Contents(b, "reaction") : x.message_id = m}},
       members   |-> {Name(b, "recipient", g.recipient_id)
                        : g \in {x \in Contents(b, "group_membership") : x.group_id \in group}},
       pictures  |-> {a.picture : a \in {x \in b.d_avatars : x.recipient \in people}}]

(* Every message is in a thread, and every picture is of a recipient.              *)
Placed(b) ==
  /\ \A m \in Contents(b, "message") : m.thread_id \in Ids(b, "thread")
  /\ \A a \in b.d_avatars : a.recipient \in Ids(b, "recipient")

(* A message that is left after doubles are removed or the database is cropped is   *)
(* whole: its sender, the one it quotes, its attachments and their data, who       *)
(* reacted, the members of its group, their pictures.                             *)
KeptIsWhole ==
  [][Placed(opened) /\ pc \in {"removeDoubles", "cropToDates", "cropToThread"} =>
        \A m \in Ids(backup', "message") : Says(backup', m) = Says(backup, m)]_vars

(* What a message may go for, of the backup that was opened.                       *)
Double(m) ==
  /\ command.removedoubles >= 0
  /\ \E n \in Ids(opened, "message") : m < n /\ Alike(opened, m, n) /\ Near(opened, m, n, command.removedoubles)

(* A message that was nothing but attachments that were to go: no text, no note to   *)
(* take their place, and all of them, and the message itself, within the limits.    *)
NothingButListed(m, spec) ==
  LET row   == Rows(opened, "message")[m]
      moved == row.thread_id \in MergedThreads
  IN  /\ ~ spec.replace /\ spec.append = 0 /\ spec.prepend = 0
      /\ row.body = <<>> /\ FilesOf(opened, m) # {}
      /\ \A a \in FilesOf(opened, m) : OfFile(spec, Rows(opened, "attachment")[a])
      /\ \E t \in {row.thread_id} \cup (IF moved THEN MergedThreads ELSE {}) :
            OfMessage(spec, [row EXCEPT !.thread_id = t])

(* A message is lost for one of the reasons that were given only: it is a double,   *)
(* or a revision of one that is gone; it was received in none of the ranges, or is  *)
(* in none of the threads; it was nothing but attachments that were to go.         *)
NothingElseLost ==
  Holds(opened, ForeignKeys) /\ ~ command.autofixfkc =>
  \A m \in Ids(opened, "message") \ Ids(backup, "message") :
     LET row == Rows(opened, "message")[m]
     IN  \/ Double(m)
         \/ command.removedoubles >= 0 /\ row.latest_revision_id # NULL /\ Double(row.latest_revision_id)
         \/ /\ command.croptodates # <<>>
            /\ \A i \in DOMAIN command.croptodates : ~ Covers(command.croptodates[i], row.date_received)
         \/ command.croptothreads # {} /\ row.thread_id \notin command.croptothreads
         \/ \E i \in DOMAIN command.deleteattachments : NothingButListed(m, command.deleteattachments[i])

(* Of doubles one stays, the revisions apart, and no two of them.  (Where a later   *)
(* copy is itself a revision of a message that goes, none need stay.)              *)
OneCopyStays ==
  [][pc = "removeDoubles" /\ command.removedoubles >= 0 =>
       LET left == Ids(backup', "message")
           revision(m) == Rows(backup, "message")[m].latest_revision_id # NULL
       IN  /\ \A m \in Ids(backup, "message") \ left :
                \/ revision(m)
                \/ \E n \in Ids(backup, "message") :
                      m < n /\ Alike(backup, m, n) /\ (n \in left \/ revision(n))
           /\ \A m, n \in left : m < n /\ Near(backup', m, n, command.removedoubles)
                                    => ~ Alike(backup', m, n)]_vars

(* What the thread table says of the messages: how many, and none in a thread that *)
(* is not active.                                                                 *)
Counted(b) ==
  \A t \in Ids(b, "thread") :
     LET row == Rows(b, "thread")[t]
     IN  /\ row.meaningful_messages = Cardinality(MessagesOf(b, t))
         /\ MessagesOf(b, t) # {} => row.active

(* The last of the operations to change which messages a thread has is one that     *)
(* brings the threads up to date.  Removing doubles and merging recipients do not,  *)
(* and neither does the autofix.                                                  *)
Refreshed ==
  /\ ~ command.autofixfkc
  /\ \/ Len(command.mergegroups) >= 2
     \/ \E i \in DOMAIN command.deleteattachments :
           LET spec == command.deleteattachments[i]
           IN  ~ spec.replace /\ NoDate \notin {spec.before, spec.after}
     \/ command.mergerecipients = <<>> /\ command.croptothreads # {}

CountsRight == pc = "done" /\ Refreshed => Counted(backup)

(* Attachments, their data and the previews go together: no data without a row, no  *)
(* preview of an attachment that is gone, and the size that is said is that of the  *)
(* data, replaced or not.                                                         *)
AttachmentsMatch ==
  /\ DataOk(backup)
  /\ \A m \in Contents(backup, "message") : m.link_previews \in Ids(backup, "attachment") \cup {NULL}

(* What somebody is named by, and what is formatted, is still there at the place     *)
(* that is said: position is one of them before, place after the notes are put in.  *)
SameUnit(row, position, now, place) ==
  position # 0 => place \in DOMAIN now.body /\ now.body[place] = row.body[position]

(* Notes of one byte for every unit.                                              *)
PlainNotes == \A i \in DOMAIN command.deleteattachments :
                 LET spec == command.deleteattachments[i] IN spec.bytes = spec.prepend

FromTheStart(row) == row.range = 1 /\ \E i \in DOMAIN command.deleteattachments :
                                        command.deleteattachments[i].prepend > 0

(* However many plain notes are put in front of a body, in however many rounds, a     *)
(* mention and a format keep their place in it; but for a format from the start.     *)
MentionsInPlace ==
  [][pc = "deleteAttachments" /\ PlainNotes =>
       \A m \in Ids(backup', "message") :
          LET row == Rows(backup, "message")[m]  now == Rows(backup', "message")[m]
          IN  /\ SameUnit(row, row.mention, now, now.mention)
              /\ ~ FromTheStart(row) => SameUnit(row, row.range, now, now.range)]_vars

-----------------------------------------------------------------------------
Speaks(b, r) ==
  \/ \E m \in Contents(b, "message") : r \in {m.from_recipient_id, m.to_recipient_id, m.quote_author}
  \/ \E x \in Contents(b, "reaction") : x.author_id = r

(* Recipients that are told to be merged are: nothing is from the old one, to it, a *)
(* quote of it or a reaction of it any more, and the threads are one.              *)
MergeDone ==
  [][pc = "mergeRecipients" /\ pc' = "mergeGroups" /\ Len(command.mergerecipients) = 2 =>
       \A old \in Meant(command.mergerecipients[1]) :
          \A new \in Meant(command.mergerecipients[2]) \ {old} :
             /\ ~ Speaks(backup', old)
             /\ ThreadsOf(backup', new) # {} => \A t \in ThreadsOf(backup', old) : MessagesOf(backup', t) = {}]_vars

(* They are, when the new recipient is given by its _id and no two messages are of  *)
(* the same time: every reference is renamed, whatever else was done before.       *)
MergeByIdDone ==
  [][/\ pc = "mergeRecipients" /\ pc' = "mergeGroups" /\ Len(command.mergerecipients) = 2
     /\ command.mergerecipients[2].phone = ""
     /\ \A m, n \in Ids(backup, "message") :
           m # n => Rows(backup, "message")[m].date_sent # Rows(backup, "message")[n].date_sent
     =>
       \A old \in Meant(command.mergerecipients[1]) :
          \A new \in Meant(command.mergerecipients[2]) \ {old} :
             /\ new \in Ids(backup, "recipient") => ~ Speaks(backup', old)]_vars

-----------------------------------------------------------------------------
(* The rows that refer to rows only that are missing or gone; and those that do, over *)
(* any number of other rows.                                                      *)
AllRows(b) == UNION {{<<t, i>> : i \in Ids(b, t)} : t \in DOMAIN b.d_database}

Dangling(b, gone) ==
  {row \in AllRows(b) :
     \E k \in ForeignKeys :
        /\ k.table = row[1]
        /\ LET v == Rows(b, k.table)[row[2]][k.column]
           IN  v # NULL /\ \A i \in Parents(b, k, v) : <<k.parent, i>> \in gone}

Doomed(b) ==
  LET lost[n \in Nat] == IF n = 0 THEN {} ELSE Dangling(b, lost[n - 1])
  IN  lost[Cardinality(AllRows(b))]

OnlyAutofix ==
  /\ command.autofixfkc /\ command.removedoubles < 0 /\ command.croptothreads = {}
  /\ command.croptodates = <<>> /\ command.mergerecipients = <<>>
  /\ command.mergegroups = <<>> /\ command.deleteattachments = <<>>

(* The autofix deletes exactly the rows that cannot be kept, in whichever order it   *)
(* goes through the keys.                                                          *)
FixedExactly ==
  pc = "done" /\ OnlyAutofix => AllRows(backup) = AllRows(opened) \ Doomed(opened)

(* It comes to an end: every round that finds something deletes something.         *)
AutofixEnds == pc = "autofix" ~> pc = "done"
=============================================================================
