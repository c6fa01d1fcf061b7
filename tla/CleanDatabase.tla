----------------------------- MODULE CleanDatabase -----------------------------
(* What is to hold between the tables of a backup, and how the program cleans up   *)
(* after messages are gone (cleanDatabaseByMessages).                             *)
EXTENDS Database, FiniteSetsExt, SequencesExt

WithRows(b, t, rows) == [b EXCEPT !.d_database[t] = rows]
MessagesOf(b, t) == {m \in Ids(b, "message") : Rows(b, "message")[m].thread_id = t}
FilesOf(b, m) == {a \in Ids(b, "attachment") : Rows(b, "attachment")[a].message_id = m}

-----------------------------------------------------------------------------
(* The columns that the tables declare with REFERENCES.  SQLite enforces none of  *)
(* them here: a broken one is only found when it is asked for.                    *)
ForeignKey(t, c, parent) == [table |-> t, column |-> c, parent |-> parent]
RevisionKeys == {ForeignKey("message", "latest_revision_id", "message"),
                 ForeignKey("message", "original_message_id", "message")}
ForeignKeys ==
  RevisionKeys \cup
  {ForeignKey("message", "thread_id", "thread"), ForeignKey("message", "from_recipient_id", "recipient"),
   ForeignKey("message", "to_recipient_id", "recipient"), ForeignKey("thread", "recipient_id", "recipient"),
   ForeignKey("reaction", "message_id", "message"), ForeignKey("reaction", "author_id", "recipient"),
   ForeignKey("groups", "recipient_id", "recipient"),
   ForeignKey("group_membership", "recipient_id", "recipient"),
   ForeignKey("group_membership", "group_id", "groups")}

(* A membership refers to a group by its group_id, anything else to an _id.       *)
Parents(b, k, v) ==
  {i \in Ids(b, k.parent) : v = IF k.column = "group_id" THEN Rows(b, "groups")[i].group_id ELSE i}

Violations(b, k) ==
  {i \in Ids(b, k.table) :
     LET v == Rows(b, k.table)[i][k.column] IN v # NULL /\ Parents(b, k, v) = {}}

-----------------------------------------------------------------------------
(* The message the snippet is taken from: the last one, of one time the first.     *)
Latest(message, shown) ==
  CHOOSE m \in shown : \A n \in shown \ {m} :
    \/ message[m].date_sent > message[n].date_sent
    \/ message[m].date_sent = message[n].date_sent /\ m < n

(* Mutant: a thread that was emptied once stays inactive.                         *)
ThreadEntry_NotRevived(message, mine, row) ==
  [row EXCEPT !.meaningful_messages = Cardinality(mine)]

ThreadEntry(message, mine, row) ==
  LET shown == {m \in mine : ~ message[m].silent}
  IN  [row EXCEPT !.meaningful_messages = Cardinality(mine),
                  !.active  = @ \/ mine # {},
                  !.snippet = IF shown = {} THEN @ ELSE message[Latest(message, shown)].who]

(* updateThreadsEntries: a thread keeps the number of its messages and a snippet  *)
(* of the last one that is shown.  It is set active again when it has messages,   *)
(* never inactive; without a message to show the snippet stays what it is.        *)
UpdateThreadsEntries(b) ==
  WithRows(b, "thread", [t \in Ids(b, "thread") |->
                           ThreadEntry(Rows(b, "message"), MessagesOf(b, t), Rows(b, "thread")[t])])

(* cleanAttachments: data whose row is gone goes.                                 *)
CleanAttachments(b) ==
  [b EXCEPT !.d_attachments = Restrict(@, DOMAIN @ \cap Ids(b, "attachment"))]

(* Mutant: the authors of quoted messages are forgotten.                          *)
ReferencedRecipients_NoQuotes(b) ==
  (UNION {{m.from_recipient_id, m.to_recipient_id} : m \in Contents(b, "message")})
  \cup {r.author_id : r \in Contents(b, "reaction")}
  \cup {m.recipient_id : m \in Contents(b, "group_membership")}
  \cup {t.recipient_id : t \in Contents(b, "thread")}

(* Mutant: the authors of reactions are forgotten.                                *)
ReferencedRecipients_NoAuthors(b) ==
  (UNION {{m.from_recipient_id, m.to_recipient_id, m.quote_author} : m \in Contents(b, "message")})
  \cup {m.recipient_id : m \in Contents(b, "group_membership")}
  \cup {t.recipient_id : t \in Contents(b, "thread")}

ReferencedRecipients(b) ==
  (UNION {{m.from_recipient_id, m.to_recipient_id, m.quote_author} : m \in Contents(b, "message")})
  \cup {r.author_id : r \in Contents(b, "reaction")}
  \cup {m.recipient_id : m \in Contents(b, "group_membership")}
  \cup {t.recipient_id : t \in Contents(b, "thread")}

(* cleanDatabaseByMessages: what the messages that are left do not need goes,     *)
(* table after table, the recipients last.                                        *)
WithoutOrphans(b) ==
  LET attachment == RestrictValues(Rows(b, "attachment"), LAMBDA a : a.message_id \in Ids(b, "message"))
      talked == Restrict(Rows(b, "thread"), {m.thread_id : m \in Contents(b, "message")} \cap Ids(b, "thread"))
      threads == UpdateThreadsEntries(WithRows(WithRows(b, "attachment", attachment), "thread", talked))
      groups == RestrictValues(Rows(b, "groups"),
                               LAMBDA g : g.recipient_id \in {t.recipient_id : t \in Range(talked)})
      members == RestrictValues(Rows(b, "group_membership"),
                                LAMBDA m : m.group_id \in {g.group_id : g \in Range(groups)})
      reaction == RestrictValues(Rows(b, "reaction"), LAMBDA r : r.message_id \in Ids(b, "message"))
  IN  WithRows(WithRows(WithRows(threads, "groups", groups), "group_membership", members),
               "reaction", reaction)

CleanDatabaseByMessages(b) ==
  LET clean     == WithoutOrphans(b)
      recipient == Restrict(Rows(clean, "recipient"),
                            ReferencedRecipients(clean) \cap Ids(clean, "recipient"))
  IN  CleanAttachments([WithRows(clean, "recipient", recipient)
                          EXCEPT !.d_avatars = {a \in @ : a.recipient \in DOMAIN recipient}])
=============================================================================
