-------------------------- MODULE EditDatabase_proofs --------------------------
(* What no combination of operations does to a backup, whatever is in it and     *)
(* whatever is asked for: lose messages for a reason that was not given, keep    *)
(* data or previews of attachments that are gone, move a mention, or leave the   *)
(* threads miscounted.                                                           *)
EXTENDS EditDatabase, Induction, FiniteSetTheorems, SequenceTheorems, TLAPS

Shape(b) ==
  /\ b = [d_database |-> b.d_database, d_attachments |-> b.d_attachments, d_avatars |-> b.d_avatars]
  /\ DOMAIN b.d_database = EditTables

LEMMA TableNames ==
  /\ "message" \in EditTables /\ "thread" \in EditTables /\ "attachment" \in EditTables
  /\ "reaction" \in EditTables /\ "recipient" \in EditTables /\ "groups" \in EditTables
  /\ "group_membership" \in EditTables
BY DEF EditTables, Tables

-----------------------------------------------------------------------------
(* One table is replaced, the others stay.                                       *)
LEMMA RowsPlaced ==
  ASSUME NEW b, Shape(b), NEW t \in EditTables, NEW rows
  PROVE  /\ Shape(WithRows(b, t, rows))
         /\ Rows(WithRows(b, t, rows), t) = rows
         /\ \A u \in EditTables \ {t} : Rows(WithRows(b, t, rows), u) = Rows(b, u)
         /\ WithRows(b, t, rows).d_attachments = b.d_attachments
         /\ WithRows(b, t, rows).d_avatars = b.d_avatars
<1> DEFINE c == WithRows(b, t, rows)
<1>1. c = [d_database |-> [b.d_database EXCEPT ![t] = rows],
           d_attachments |-> b.d_attachments, d_avatars |-> b.d_avatars]
  BY DEF Shape, WithRows
<1> HIDE DEF c
<1>2. /\ Shape(c) /\ Rows(c, t) = rows
      /\ \A u \in EditTables \ {t} : Rows(c, u) = Rows(b, u)
      /\ c.d_attachments = b.d_attachments /\ c.d_avatars = b.d_avatars
  BY <1>1 DEF Shape, Rows
<1> QED BY <1>2 DEF c

(* Rows that are some of others, and otherwise the same.                         *)
Some(new, old) == DOMAIN new \subseteq DOMAIN old /\ \A i \in DOMAIN new : new[i] = old[i]

LEMMA DataCleaned ==
  ASSUME NEW b, Shape(b)
  PROVE  /\ Shape(CleanAttachments(b))
         /\ \A t \in EditTables : Rows(CleanAttachments(b), t) = Rows(b, t)
         /\ CleanAttachments(b).d_attachments =
              Restrict(b.d_attachments, DOMAIN b.d_attachments \cap Ids(b, "attachment"))
         /\ CleanAttachments(b).d_avatars = b.d_avatars
<1> DEFINE c == CleanAttachments(b)
<1>1. c = [d_database |-> b.d_database,
           d_attachments |-> Restrict(b.d_attachments, DOMAIN b.d_attachments \cap Ids(b, "attachment")),
           d_avatars |-> b.d_avatars]
  BY DEF Shape, CleanAttachments
<1> HIDE DEF c
<1>2. /\ Shape(c) /\ \A t \in EditTables : Rows(c, t) = Rows(b, t)
      /\ c.d_attachments = Restrict(b.d_attachments, DOMAIN b.d_attachments \cap Ids(b, "attachment"))
      /\ c.d_avatars = b.d_avatars
  BY <1>1 DEF Shape, Rows
<1> QED BY <1>2 DEF c

(* The threads that are left by the cleaning, and their entries.                 *)
Talked(b) == {m.thread_id : m \in Contents(b, "message")} \cap Ids(b, "thread")
Entries(b, ids) ==
  [t \in ids |-> ThreadEntry(Rows(b, "message"), MessagesOf(b, t), Rows(b, "thread")[t])]

(* What goes with the messages and the threads that are left stays.              *)
BelongingsStay(b, c) ==
  /\ \A t \in {"reaction", "groups", "group_membership", "recipient"} : Some(Rows(c, t), Rows(b, t))
  /\ \A r \in Ids(b, "reaction") :
       Rows(b, "reaction")[r].message_id \in Ids(c, "message") => r \in Ids(c, "reaction")
  /\ \A g \in Ids(b, "groups"), t \in Ids(c, "thread") :
       Rows(b, "groups")[g].recipient_id = Rows(b, "thread")[t].recipient_id => g \in Ids(c, "groups")
  /\ \A g \in Ids(c, "groups"), m \in Ids(b, "group_membership") :
       Rows(b, "group_membership")[m].group_id = Rows(b, "groups")[g].group_id => m \in Ids(c, "group_membership")

(* And all that is left of it belongs to something that is left.                 *)
NothingLoose(b, c) ==
  /\ \A r \in Ids(c, "reaction") : Rows(c, "reaction")[r].message_id \in Ids(c, "message")
  /\ \A g \in Ids(c, "groups") : \E t \in Ids(c, "thread") :
        Rows(c, "groups")[g].recipient_id = Rows(b, "thread")[t].recipient_id
  /\ \A m \in Ids(c, "group_membership") : \E g \in Ids(c, "groups") :
        Rows(c, "group_membership")[m].group_id = Rows(c, "groups")[g].group_id

LEMMA OrphansGone ==
  ASSUME NEW b, Shape(b)
  PROVE  /\ Shape(WithoutOrphans(b))
         /\ Rows(WithoutOrphans(b), "message") = Rows(b, "message")
         /\ Rows(WithoutOrphans(b), "attachment") =
              RestrictValues(Rows(b, "attachment"), LAMBDA a : a.message_id \in Ids(b, "message"))
         /\ Rows(WithoutOrphans(b), "thread") = Entries(b, Talked(b))
         /\ \A t \in EditTables : Ids(WithoutOrphans(b), t) \subseteq Ids(b, t)
         /\ WithoutOrphans(b).d_attachments = b.d_attachments
         /\ WithoutOrphans(b).d_avatars = b.d_avatars
         /\ Rows(WithoutOrphans(b), "recipient") = Rows(b, "recipient")
         /\ BelongingsStay(b, WithoutOrphans(b)) /\ NothingLoose(b, WithoutOrphans(b))
<1> DEFINE attachment == RestrictValues(Rows(b, "attachment"), LAMBDA a : a.message_id \in Ids(b, "message"))
           talked == Restrict(Rows(b, "thread"), Talked(b))
           b1 == WithRows(b, "attachment", attachment)
           b2 == WithRows(b1, "thread", talked)
           b3 == UpdateThreadsEntries(b2)
           groups == RestrictValues(Rows(b, "groups"),
                                    LAMBDA g : g.recipient_id \in {t.recipient_id : t \in Range(talked)})
           members == RestrictValues(Rows(b, "group_membership"),
                                     LAMBDA m : m.group_id \in {g.group_id : g \in Range(groups)})
           reaction == RestrictValues(Rows(b, "reaction"), LAMBDA r : r.message_id \in Ids(b, "message"))
           b4 == WithRows(b3, "groups", groups)
           b5 == WithRows(b4, "group_membership", members)
           b6 == WithRows(b5, "reaction", reaction)
<1>1. WithoutOrphans(b) = b6
  BY DEF WithoutOrphans, Talked
<1>2. /\ DOMAIN attachment \subseteq Ids(b, "attachment") /\ DOMAIN groups \subseteq Ids(b, "groups")
      /\ DOMAIN members \subseteq Ids(b, "group_membership") /\ DOMAIN reaction \subseteq Ids(b, "reaction")
  BY DEF RestrictValues, Restrict, Ids
<1>3. DOMAIN talked = Talked(b) /\ \A t \in Talked(b) : talked[t] = Rows(b, "thread")[t]
  BY DEF Restrict
<1>3a. Some(groups, Rows(b, "groups")) /\ Some(members, Rows(b, "group_membership"))
       /\ Some(reaction, Rows(b, "reaction"))
  BY DEF RestrictValues, Restrict, Some
<1>3b. \A r \in Ids(b, "reaction") :
         Rows(b, "reaction")[r].message_id \in Ids(b, "message") => r \in DOMAIN reaction
  BY DEF RestrictValues, Restrict, Ids
<1>3c. ASSUME NEW g \in Ids(b, "groups"), NEW t \in Talked(b),
              Rows(b, "groups")[g].recipient_id = Rows(b, "thread")[t].recipient_id
       PROVE  g \in DOMAIN groups
  <2>1. talked[t] \in Range(talked) /\ talked[t].recipient_id = Rows(b, "groups")[g].recipient_id
    BY <1>3, <1>3c DEF Range
  <2> QED BY <2>1 DEF RestrictValues, Restrict, Ids
<1>3e. ASSUME NEW g \in DOMAIN groups
       PROVE  \E t \in Talked(b) : groups[g].recipient_id = Rows(b, "thread")[t].recipient_id
  <2>1. groups[g].recipient_id \in {t.recipient_id : t \in Range(talked)}
    BY <1>3e DEF RestrictValues, Restrict
  <2> HIDE DEF groups
  <2>2. PICK t \in DOMAIN talked : groups[g].recipient_id = talked[t].recipient_id
    BY <2>1 DEF Range
  <2> QED BY <1>3, <2>2
<1>3f. \A r \in DOMAIN reaction : reaction[r].message_id \in Ids(b, "message")
  BY DEF RestrictValues, Restrict
<1> HIDE DEF attachment, talked, groups
<1>3g. ASSUME NEW m \in DOMAIN members
       PROVE  \E g \in DOMAIN groups : members[m].group_id = groups[g].group_id
  <2>1. members[m].group_id \in {g.group_id : g \in Range(groups)}
    BY <1>3g DEF RestrictValues, Restrict
  <2> QED BY <2>1 DEF Range
<1>3d. ASSUME NEW g \in DOMAIN groups, NEW m \in Ids(b, "group_membership"),
              Rows(b, "group_membership")[m].group_id = Rows(b, "groups")[g].group_id
       PROVE  m \in DOMAIN members
  <2>1. groups[g] \in Range(groups) /\ groups[g].group_id = Rows(b, "group_membership")[m].group_id
    BY <1>3a, <1>3d DEF Some, Range
  <2> QED BY <2>1 DEF RestrictValues, Restrict, Ids
<1> HIDE DEF members, reaction
<1>4. /\ Shape(b1) /\ Rows(b1, "attachment") = attachment
      /\ \A u \in EditTables \ {"attachment"} : Rows(b1, u) = Rows(b, u)
      /\ b1.d_attachments = b.d_attachments /\ b1.d_avatars = b.d_avatars
  BY RowsPlaced, TableNames
<1> HIDE DEF b1
<1>5. /\ Shape(b2) /\ Rows(b2, "thread") = talked
      /\ \A u \in EditTables \ {"thread"} : Rows(b2, u) = Rows(b1, u)
      /\ b2.d_attachments = b1.d_attachments /\ b2.d_avatars = b1.d_avatars
  BY <1>4, RowsPlaced, TableNames
<1> HIDE DEF b2
<1>6. b3 = WithRows(b2, "thread", Entries(b2, Talked(b)))
  BY <1>3, <1>5 DEF UpdateThreadsEntries, Entries, Ids
<1>7. Entries(b2, Talked(b)) = Entries(b, Talked(b))
  BY <1>3, <1>4, <1>5, TableNames DEF Entries, MessagesOf, Ids
<1> HIDE DEF b3
<1>8. /\ Shape(b3) /\ Rows(b3, "thread") = Entries(b, Talked(b))
      /\ \A u \in EditTables \ {"thread"} : Rows(b3, u) = Rows(b2, u)
      /\ b3.d_attachments = b2.d_attachments /\ b3.d_avatars = b2.d_avatars
  BY <1>5, <1>6, <1>7, RowsPlaced, TableNames
<1>9. /\ Shape(b4) /\ Rows(b4, "groups") = groups
      /\ \A u \in EditTables \ {"groups"} : Rows(b4, u) = Rows(b3, u)
      /\ b4.d_attachments = b3.d_attachments /\ b4.d_avatars = b3.d_avatars
  BY <1>8, RowsPlaced, TableNames
<1> HIDE DEF b4
<1>10. /\ Shape(b5) /\ Rows(b5, "group_membership") = members
       /\ \A u \in EditTables \ {"group_membership"} : Rows(b5, u) = Rows(b4, u)
       /\ b5.d_attachments = b4.d_attachments /\ b5.d_avatars = b4.d_avatars
  BY <1>9, RowsPlaced, TableNames
<1> HIDE DEF b5
<1>11. /\ Shape(b6) /\ Rows(b6, "reaction") = reaction
       /\ \A u \in EditTables \ {"reaction"} : Rows(b6, u) = Rows(b5, u)
       /\ b6.d_attachments = b5.d_attachments /\ b6.d_avatars = b5.d_avatars
  BY <1>10, RowsPlaced, TableNames
<1> HIDE DEF b6
<1>12. /\ Rows(b6, "message") = Rows(b, "message") /\ Rows(b6, "attachment") = attachment
       /\ Rows(b6, "thread") = Entries(b, Talked(b)) /\ Rows(b6, "recipient") = Rows(b, "recipient")
       /\ Rows(b6, "groups") = groups /\ Rows(b6, "group_membership") = members
       /\ Rows(b6, "reaction") = reaction
       /\ b6.d_attachments = b.d_attachments /\ b6.d_avatars = b.d_avatars
  BY <1>4, <1>5, <1>8, <1>9, <1>10, <1>11, TableNames
<1>13. \A t \in EditTables : Ids(b6, t) \subseteq Ids(b, t)
  BY <1>2, <1>12 DEF Ids, Entries, Talked, EditTables, Tables
<1>14. BelongingsStay(b, b6)
  <2>1. /\ Ids(b6, "message") = Ids(b, "message") /\ Ids(b6, "thread") = Talked(b)
        /\ Ids(b6, "groups") = DOMAIN groups /\ Ids(b6, "group_membership") = DOMAIN members
        /\ Ids(b6, "reaction") = DOMAIN reaction
    BY <1>12 DEF Ids, Entries
  <2>2. Some(Rows(b6, "recipient"), Rows(b, "recipient"))
    BY <1>12 DEF Some
  <2> QED BY <1>3a, <1>3b, <1>3c, <1>3d, <1>12, <2>1, <2>2 DEF BelongingsStay
<1>15. NothingLoose(b, b6)
  BY <1>3e, <1>3f, <1>3g, <1>12 DEF NothingLoose, Ids, Entries
<1> QED BY <1>1, <1>11, <1>12, <1>13, <1>14, <1>15 DEF attachment

LEMMA Cleaned ==
  ASSUME NEW b, Shape(b)
  PROVE  LET c == CleanDatabaseByMessages(b)
         IN  /\ Shape(c)
             /\ Rows(c, "message") = Rows(b, "message")
             /\ Rows(c, "attachment") =
                  RestrictValues(Rows(b, "attachment"), LAMBDA a : a.message_id \in Ids(b, "message"))
             /\ Rows(c, "thread") = Entries(b, Talked(b))
             /\ \A t \in EditTables : Ids(c, t) \subseteq Ids(b, t)
             /\ c.d_attachments =
                  Restrict(b.d_attachments, DOMAIN b.d_attachments \cap Ids(c, "attachment"))
             /\ BelongingsStay(b, c) /\ NothingLoose(b, c)
             /\ ReferencedRecipients(c) \cap Ids(b, "recipient") \subseteq Ids(c, "recipient")
             /\ c.d_avatars = {a \in b.d_avatars : a.recipient \in Ids(c, "recipient")}
<1> DEFINE clean == WithoutOrphans(b)
           recipient == Restrict(Rows(clean, "recipient"),
                                 ReferencedRecipients(clean) \cap Ids(clean, "recipient"))
           d == WithRows(clean, "recipient", recipient)
           e == [d EXCEPT !.d_avatars = {a \in @ : a.recipient \in DOMAIN recipient}]
           c == CleanAttachments(e)
<1>1. CleanDatabaseByMessages(b) = c
  BY DEF CleanDatabaseByMessages
<1>2. /\ DOMAIN recipient = ReferencedRecipients(clean) \cap Ids(clean, "recipient")
      /\ Some(recipient, Rows(clean, "recipient"))
  BY DEF Restrict, Some, Ids
<1>3. /\ Shape(clean)
      /\ Rows(clean, "message") = Rows(b, "message")
      /\ Rows(clean, "attachment") =
           RestrictValues(Rows(b, "attachment"), LAMBDA a : a.message_id \in Ids(b, "message"))
      /\ Rows(clean, "thread") = Entries(b, Talked(b))
      /\ \A t \in EditTables : Ids(clean, t) \subseteq Ids(b, t)
      /\ clean.d_attachments = b.d_attachments /\ clean.d_avatars = b.d_avatars
      /\ Rows(clean, "recipient") = Rows(b, "recipient")
      /\ BelongingsStay(b, clean) /\ NothingLoose(b, clean)
  BY OrphansGone
<1> HIDE DEF clean, recipient
<1>4. /\ Shape(d) /\ Rows(d, "recipient") = recipient
      /\ \A u \in EditTables \ {"recipient"} : Rows(d, u) = Rows(clean, u)
      /\ d.d_attachments = clean.d_attachments /\ d.d_avatars = clean.d_avatars
  BY <1>3, RowsPlaced, TableNames
<1> HIDE DEF d
<1>5. /\ Shape(e) /\ \A u \in EditTables : Rows(e, u) = Rows(d, u)
      /\ e.d_attachments = d.d_attachments
      /\ e.d_avatars = {a \in d.d_avatars : a.recipient \in DOMAIN recipient}
  <2> DEFINE avatars == {a \in d.d_avatars : a.recipient \in DOMAIN recipient}
  <2>1. e = [d_database |-> d.d_database, d_attachments |-> d.d_attachments, d_avatars |-> avatars]
    <3>1. e = [d EXCEPT !.d_avatars = avatars]
      OBVIOUS
    <3> HIDE DEF avatars, e
    <3> QED BY <1>4, <3>1 DEF Shape
  <2> HIDE DEF avatars, e
  <2>2. /\ Shape(e) /\ \A u \in EditTables : Rows(e, u) = Rows(d, u)
        /\ e.d_attachments = d.d_attachments /\ e.d_avatars = avatars
    BY <1>4, <2>1 DEF Shape, Rows
  <2> QED BY <2>2 DEF avatars
<1> HIDE DEF e
<1>6. /\ Shape(c) /\ \A u \in EditTables : Rows(c, u) = Rows(e, u)
      /\ c.d_attachments = Restrict(e.d_attachments, DOMAIN e.d_attachments \cap Ids(e, "attachment"))
      /\ c.d_avatars = e.d_avatars
  BY <1>5, DataCleaned
<1> HIDE DEF c
<1>7. \A t \in EditTables : Ids(c, t) \subseteq Ids(b, t)
  BY <1>2, <1>3, <1>4, <1>5, <1>6, TableNames DEF Ids
<1>8. /\ Rows(c, "message") = Rows(b, "message")
      /\ Rows(c, "attachment") = Rows(clean, "attachment")
      /\ Rows(c, "thread") = Entries(b, Talked(b))
  BY <1>3, <1>4, <1>5, <1>6, TableNames
<1>9. c.d_attachments = Restrict(b.d_attachments, DOMAIN b.d_attachments \cap Ids(c, "attachment"))
  BY <1>3, <1>4, <1>5, <1>6, TableNames DEF Ids
<1>10. /\ Rows(c, "attachment") =
            RestrictValues(Rows(b, "attachment"), LAMBDA a : a.message_id \in Ids(b, "message"))
  BY <1>3, <1>8
<1>11. /\ Rows(c, "recipient") = recipient
       /\ \A t \in {"reaction", "groups", "group_membership", "thread", "message"} : Rows(c, t) = Rows(clean, t)
  BY <1>4, <1>5, <1>6, TableNames
<1>12. ReferencedRecipients(c) = ReferencedRecipients(clean)
  BY <1>11 DEF ReferencedRecipients, Contents
<1>13. ReferencedRecipients(c) \cap Ids(b, "recipient") \subseteq Ids(c, "recipient")
  <2>1. Ids(c, "recipient") = DOMAIN recipient /\ Ids(clean, "recipient") = Ids(b, "recipient")
    BY <1>3, <1>11 DEF Ids
  <2> QED BY <1>2, <1>12, <2>1
<1>14. c.d_avatars = {a \in b.d_avatars : a.recipient \in Ids(c, "recipient")}
  BY <1>3, <1>4, <1>5, <1>6, <1>11 DEF Ids
<1>15. BelongingsStay(b, c) /\ NothingLoose(b, c)
  <2>1. Some(Rows(c, "recipient"), Rows(b, "recipient"))
    BY <1>2, <1>3, <1>11
  <2>2. \A t \in {"reaction", "groups", "group_membership", "thread", "message"} :
          Rows(c, t) = Rows(clean, t) /\ Ids(c, t) = Ids(clean, t)
    BY <1>11 DEF Ids
  <2> QED BY <1>3, <2>1, <2>2 DEF BelongingsStay, NothingLoose
<1> QED BY <1>1, <1>6, <1>7, <1>8, <1>9, <1>10, <1>13, <1>14, <1>15
-----------------------------------------------------------------------------
(* After a step the messages are some of those there were, with the same text,   *)
(* date and revision, and the same attachments.                                  *)
SameText(r, s) == r.date_received = s.date_received /\ r.latest_revision_id = s.latest_revision_id
                  /\ r.body = s.body /\ r.mention = s.mention /\ r.range = s.range

SameFiles(b, c, m) ==
  /\ FilesOf(c, m) = FilesOf(b, m)
  /\ \A a \in FilesOf(b, m) : Rows(c, "attachment")[a] = Rows(b, "attachment")[a]

Kept(b, c) ==
  /\ Ids(c, "message") \subseteq Ids(b, "message")
  /\ \A m \in Ids(c, "message") : /\ SameText(Rows(c, "message")[m], Rows(b, "message")[m])
                                  /\ SameFiles(b, c, m)

SameThreads(b, c) ==
  \A m \in Ids(c, "message") : Rows(c, "message")[m].thread_id = Rows(b, "message")[m].thread_id

(* What removing doubles and cropping have in common: messages go, and with them   *)
(* what nothing else refers to, and nothing of the messages that are left.        *)
SameMessage(r, s) == \A c \in MessageColumns \ {"original_message_id"} : r[c] = s[c]

OnlyFewer(b, c) ==
  /\ Ids(c, "message") \subseteq Ids(b, "message")
  /\ \A m \in Ids(c, "message") : /\ SameMessage(Rows(c, "message")[m], Rows(b, "message")[m])
                                  /\ FilesOf(b, m) \subseteq Ids(c, "attachment")
  /\ \A t \in Ids(c, "thread") :
       t \in Ids(b, "thread") /\ Rows(c, "thread")[t].recipient_id = Rows(b, "thread")[t].recipient_id
  /\ \A m \in Ids(c, "message") :
       Rows(c, "message")[m].thread_id \in Ids(b, "thread") => Rows(c, "message")[m].thread_id \in Ids(c, "thread")
  /\ Some(Rows(c, "attachment"), Rows(b, "attachment"))
  /\ \A a \in Ids(c, "attachment") : a \in DOMAIN c.d_attachments <=> a \in DOMAIN b.d_attachments
  /\ BelongingsStay(b, c)
  /\ ReferencedRecipients(c) \cap Ids(b, "recipient") \subseteq Ids(c, "recipient")
  /\ c.d_avatars \subseteq b.d_avatars
  /\ \A a \in b.d_avatars : a.recipient \in Ids(c, "recipient") => a \in c.d_avatars
  /\ \A a \in c.d_avatars : a.recipient \in Ids(b, "recipient") => a.recipient \in Ids(c, "recipient")

(* Of that, what is about who wrote what to whom, and where.                       *)
AddressColumns == {"thread_id", "from_recipient_id", "to_recipient_id", "quote_author", "date_sent"}
SameAddress(r, s) == \A c \in AddressColumns : r[c] = s[c]

FewerReferences(b, c) ==
  /\ \A m \in Ids(c, "message") :
       LET row == Rows(b, "message")[m]  now == Rows(c, "message")[m]
       IN  /\ m \in Ids(b, "message") /\ SameAddress(now, row)
           /\ now.thread_id \in Ids(b, "thread") => now.thread_id \in Ids(c, "thread")
  /\ \A t \in Ids(c, "thread") :
       t \in Ids(b, "thread") /\ Rows(c, "thread")[t].recipient_id = Rows(b, "thread")[t].recipient_id
  /\ \A t \in {"reaction", "groups", "group_membership", "recipient"} : Some(Rows(c, t), Rows(b, t))
  /\ ReferencedRecipients(c) \cap Ids(b, "recipient") \subseteq Ids(c, "recipient")

(* What becomes of a backup whose messages, attachments and data become fewer.    *)
LEMMA Shrunk ==
  ASSUME NEW b, OpenedOk(b), NEW c, Shape(c),
         \A t \in EditTables : Ids(c, t) \subseteq Ids(b, t),
         \A m \in Ids(c, "message") :
            /\ MessageOk(Rows(c, "message")[m])
            /\ Rows(c, "message")[m].link_previews \in {Rows(b, "message")[m].link_previews, NULL}
            /\ \A a \in FilesOf(b, m) :
                  a = Rows(c, "message")[m].link_previews => a \in Ids(c, "attachment"),
         Some(Rows(c, "attachment"), Rows(b, "attachment")),
         \A t \in Ids(c, "thread") : ThreadColumns \subseteq DOMAIN Rows(c, "thread")[t],
         Some(c.d_attachments, b.d_attachments), DOMAIN c.d_attachments \subseteq Ids(c, "attachment")
  PROVE  OpenedOk(c)
<1>1. TablesOk(c)
  <2>1. \A t \in EditTables : IsFiniteSet(Ids(c, t)) /\ Ids(c, t) \subseteq Nat \ {0}
    BY FS_Subset DEF OpenedOk, TablesOk
  <2> QED BY <2>1 DEF Shape, TablesOk
<1>2. RowsOk(c)
  BY TableNames DEF OpenedOk, RowsOk, Some, Ids
<1>3. DataOk(c)
  BY DEF OpenedOk, DataOk, Some, Ids
<1>4. PreviewsOk(c)
  <2> SUFFICES ASSUME NEW m \in Ids(c, "message"), Rows(c, "message")[m].link_previews # NULL
               PROVE  Rows(c, "message")[m].link_previews \in FilesOf(c, m)
    BY DEF PreviewsOk
  <2>1. Rows(c, "message")[m].link_previews \in FilesOf(b, m)
    BY TableNames DEF OpenedOk, PreviewsOk
  <2> QED BY <2>1 DEF FilesOf, Some, Ids
<1> QED BY <1>1, <1>2, <1>3, <1>4 DEF OpenedOk

LEMMA EntryColumns ==
  ASSUME NEW b, OpenedOk(b), NEW t \in Ids(b, "thread")
  PROVE  /\ ThreadColumns \subseteq DOMAIN ThreadEntry(Rows(b, "message"), MessagesOf(b, t), Rows(b, "thread")[t])
         /\ ThreadEntry(Rows(b, "message"), MessagesOf(b, t), Rows(b, "thread")[t]).meaningful_messages
              = Cardinality(MessagesOf(b, t))
         /\ MessagesOf(b, t) # {} =>
              ThreadEntry(Rows(b, "message"), MessagesOf(b, t), Rows(b, "thread")[t]).active
         /\ ThreadEntry(Rows(b, "message"), MessagesOf(b, t), Rows(b, "thread")[t]).recipient_id
              = Rows(b, "thread")[t].recipient_id
<1> DEFINE row == Rows(b, "thread")[t]
           entry == ThreadEntry(Rows(b, "message"), MessagesOf(b, t), row)
<1>1. ThreadColumns \subseteq DOMAIN row
  BY DEF OpenedOk, RowsOk
<1>2. PICK s : entry = [row EXCEPT !.meaningful_messages = Cardinality(MessagesOf(b, t)),
                                   !.active  = @ \/ MessagesOf(b, t) # {},
                                   !.snippet = s]
  BY DEF ThreadEntry
<1> HIDE DEF entry, row
<1>3. ThreadColumns \subseteq DOMAIN entry
  BY <1>1, <1>2
<1>4. entry.meaningful_messages = Cardinality(MessagesOf(b, t))
  BY <1>1, <1>2 DEF ThreadColumns
<1>5. entry.active = (row.active \/ MessagesOf(b, t) # {})
  BY <1>1, <1>2 DEF ThreadColumns
<1>6. MessagesOf(b, t) # {} => entry.active
  BY <1>5
<1>7. entry.recipient_id = row.recipient_id
  BY <1>1, <1>2 DEF ThreadColumns
<1> QED BY <1>3, <1>4, <1>6, <1>7 DEF entry, row

(* Cleaning keeps a backup in order, all its messages, and counts them.          *)
LEMMA CleaningKeeps ==
  ASSUME NEW b, OpenedOk(b)
  PROVE  LET c == CleanDatabaseByMessages(b)
         IN  /\ OpenedOk(c) /\ Counted(c)
             /\ Rows(c, "message") = Rows(b, "message") /\ Kept(b, c) /\ SameThreads(b, c)
             /\ OnlyFewer(b, c) /\ NothingLoose(b, c)
<1> DEFINE c == CleanDatabaseByMessages(b)
<1>1. Shape(b)
  BY DEF OpenedOk, TablesOk, Shape
<1>2. /\ Shape(c)
      /\ Rows(c, "message") = Rows(b, "message")
      /\ Rows(c, "attachment") =
           RestrictValues(Rows(b, "attachment"), LAMBDA a : a.message_id \in Ids(b, "message"))
      /\ Rows(c, "thread") = Entries(b, Talked(b))
      /\ \A t \in EditTables : Ids(c, t) \subseteq Ids(b, t)
      /\ c.d_attachments =
           Restrict(b.d_attachments, DOMAIN b.d_attachments \cap Ids(c, "attachment"))
      /\ BelongingsStay(b, c) /\ NothingLoose(b, c)
      /\ ReferencedRecipients(c) \cap Ids(b, "recipient") \subseteq Ids(c, "recipient")
      /\ c.d_avatars = {a \in b.d_avatars : a.recipient \in Ids(c, "recipient")}
  BY <1>1, Cleaned
<1> HIDE DEF c
<1>3. Some(Rows(c, "attachment"), Rows(b, "attachment"))
  BY <1>2 DEF RestrictValues, Restrict, Some
<1>4. \A m \in Ids(b, "message") : FilesOf(b, m) \subseteq Ids(c, "attachment")
  BY <1>2 DEF RestrictValues, Restrict, FilesOf, Ids
<1>5. \A t \in Ids(c, "thread") :
         t \in Ids(b, "thread") /\ Rows(c, "thread")[t] =
            ThreadEntry(Rows(b, "message"), MessagesOf(b, t), Rows(b, "thread")[t])
  BY <1>2 DEF Entries, Talked, Ids
<1>6. OpenedOk(c)
  <2>1. \A t \in Ids(c, "thread") : ThreadColumns \subseteq DOMAIN Rows(c, "thread")[t]
    BY <1>5, EntryColumns
  <2>2. \A m \in Ids(c, "message") : MessageOk(Rows(c, "message")[m])
    BY <1>2 DEF OpenedOk, RowsOk, Ids
  <2>3. \A m \in Ids(c, "message") : \A a \in FilesOf(b, m) : a \in Ids(c, "attachment")
    BY <1>2, <1>4 DEF Ids
  <2>4. Some(c.d_attachments, b.d_attachments) /\ DOMAIN c.d_attachments \subseteq Ids(c, "attachment")
    BY <1>2 DEF Restrict, Some
  <2> QED BY <1>2, <1>3, <2>1, <2>2, <2>3, <2>4, Shrunk
<1>7. \A t : MessagesOf(c, t) = MessagesOf(b, t)
  BY <1>2 DEF MessagesOf, Ids
<1>8. Counted(c)
  BY <1>5, <1>7, EntryColumns DEF Counted
<1>9. Kept(b, c) /\ SameThreads(b, c)
  <2>1. \A m \in Ids(b, "message") : SameFiles(b, c, m)
    BY <1>3, <1>4 DEF SameFiles, FilesOf, Some, Ids
  <2> QED BY <1>2, <2>1 DEF Kept, SameText, SameThreads, Ids
<1>10. OnlyFewer(b, c)
  <2>1. Ids(c, "message") = Ids(b, "message") /\ Ids(c, "thread") = Talked(b)
    BY <1>2 DEF Ids, Entries
  <2>2. \A m \in Ids(c, "message") : SameMessage(Rows(c, "message")[m], Rows(b, "message")[m])
    BY <1>2 DEF SameMessage
  <2>3. \A t \in Ids(c, "thread") :
          t \in Ids(b, "thread") /\ Rows(c, "thread")[t].recipient_id = Rows(b, "thread")[t].recipient_id
    BY <1>5, EntryColumns
  <2>4. \A m \in Ids(c, "message") :
          Rows(c, "message")[m].thread_id \in Ids(b, "thread") => Rows(c, "message")[m].thread_id \in Ids(c, "thread")
    BY <1>2, <2>1 DEF Talked, Contents, Range, Ids
  <2>5. \A a \in Ids(c, "attachment") : a \in DOMAIN c.d_attachments <=> a \in DOMAIN b.d_attachments
    BY <1>2 DEF Restrict
  <2> QED BY <1>2, <1>3, <1>4, <2>1, <2>2, <2>3, <2>4, <2>5 DEF OnlyFewer
<1> QED BY <1>2, <1>6, <1>8, <1>9, <1>10 DEF c
-----------------------------------------------------------------------------
(* Any rows may be deleted but those of attachments.                             *)
LEMMA RowsDeleted ==
  ASSUME NEW b, OpenedOk(b), NEW t \in EditTables \ {"attachment"}, NEW rows, Some(rows, Rows(b, t))
  PROVE  OpenedOk(WithRows(b, t, rows))
<1> DEFINE d == WithRows(b, t, rows)
<1>1. /\ Shape(d) /\ Rows(d, t) = rows
      /\ \A u \in EditTables \ {t} : Rows(d, u) = Rows(b, u)
      /\ d.d_attachments = b.d_attachments
  BY RowsPlaced DEF OpenedOk, TablesOk, Shape
<1> HIDE DEF d
<1>2. \A u \in EditTables : Some(Rows(d, u), Rows(b, u))
  BY <1>1 DEF Some
<1>3. \A u \in EditTables : Ids(d, u) \subseteq Ids(b, u)
  BY <1>2 DEF Some, Ids
<1>4. \A m \in Ids(d, "message") : /\ MessageOk(Rows(d, "message")[m])
                                   /\ Rows(d, "message")[m] = Rows(b, "message")[m]
  BY <1>2, TableNames DEF Some, Ids, OpenedOk, RowsOk
<1>5. Rows(d, "attachment") = Rows(b, "attachment")
  BY <1>1, TableNames
<1>6. \A m : \A a \in FilesOf(b, m) : a \in Ids(d, "attachment")
  BY <1>5 DEF FilesOf, Ids
<1>7. DOMAIN d.d_attachments \subseteq Ids(d, "attachment") /\ Some(d.d_attachments, b.d_attachments)
  BY <1>1, <1>5 DEF OpenedOk, DataOk, Ids, Some
<1>8. \A u \in Ids(d, "thread") : ThreadColumns \subseteq DOMAIN Rows(d, "thread")[u]
  BY <1>2, TableNames DEF Some, OpenedOk, RowsOk, Ids
<1>9. Some(Rows(d, "attachment"), Rows(b, "attachment"))
  BY <1>5 DEF Some
<1>10. OpenedOk(d)
  BY <1>1, <1>3, <1>4, <1>6, <1>7, <1>8, <1>9, Shrunk
<1> QED BY <1>10 DEF d

(* Cropping: of the messages some stay, with their attachments.                  *)
LEMMA CropKeeps ==
  ASSUME NEW b, OpenedOk(b), NEW rows, Some(rows, Rows(b, "message"))
  PROVE  LET c == CleanDatabaseByMessages(WithRows(b, "message", rows))
         IN  /\ OpenedOk(c) /\ Counted(c) /\ Kept(b, c) /\ SameThreads(b, c)
             /\ OnlyFewer(b, c) /\ NothingLoose(b, c)
             /\ Ids(c, "message") = DOMAIN rows
<1> DEFINE d == WithRows(b, "message", rows)
           c == CleanDatabaseByMessages(d)
<1>1. /\ Shape(d) /\ Rows(d, "message") = rows
      /\ \A u \in EditTables \ {"message"} : Rows(d, u) = Rows(b, u)
      /\ d.d_attachments = b.d_attachments /\ d.d_avatars = b.d_avatars
  BY RowsPlaced, TableNames DEF OpenedOk, TablesOk, Shape
<1> HIDE DEF d
<1>2. OpenedOk(d)
  BY RowsDeleted, TableNames DEF d
<1>3. /\ OpenedOk(c) /\ Counted(c)
      /\ Rows(c, "message") = rows /\ Kept(d, c) /\ SameThreads(d, c)
      /\ OnlyFewer(d, c) /\ NothingLoose(d, c)
  BY <1>1, <1>2, CleaningKeeps
<1> HIDE DEF c
<1>4. Kept(b, c) /\ SameThreads(b, c)
  <2>1. Rows(d, "attachment") = Rows(b, "attachment")
    BY <1>1, TableNames
  <2>2. \A m \in Ids(c, "message") : SameFiles(b, c, m)
    BY <1>3, <2>1 DEF Kept, SameFiles, FilesOf, Ids
  <2> QED BY <1>1, <1>3, <2>2 DEF Kept, SameText, SameThreads, Some, Ids
<1>5. OnlyFewer(b, c)
  <2>1. \A u \in EditTables \ {"message"} : Rows(d, u) = Rows(b, u) /\ Ids(d, u) = Ids(b, u)
    BY <1>1 DEF Ids
  <2>2. BelongingsStay(b, c)
    BY <1>3, <2>1, TableNames DEF OnlyFewer, BelongingsStay
  <2>3. \A m \in Ids(c, "message") : /\ m \in Ids(b, "message") /\ FilesOf(b, m) = FilesOf(d, m)
                                     /\ Rows(c, "message")[m] = Rows(b, "message")[m]
    BY <1>3, <2>1, TableNames DEF Some, Ids, FilesOf
  <2> QED BY <1>1, <1>3, <2>1, <2>2, <2>3, TableNames DEF OnlyFewer, SameMessage
<1>6. NothingLoose(b, c)
  BY <1>1, <1>3, TableNames DEF NothingLoose
<1> QED BY <1>3, <1>4, <1>5, <1>6 DEF c, d, Ids

(* Of the doubles one stays; a message goes for being one, or for being a        *)
(* revision of one that is not there any more.                                   *)
LEMMA DoublesGone ==
  ASSUME NEW b, OpenedOk(b), NEW ms
  PROVE  LET c == WithoutDoubles(b, ms)
             left == Ids(b, "message") \ Doubles(b, ms)
         IN  /\ OpenedOk(c) /\ Kept(b, c) /\ SameThreads(b, c) /\ OnlyFewer(b, c)
             /\ \A t \in {"thread", "recipient", "groups", "group_membership"} : Rows(c, t) = Rows(b, t)
             /\ \A r \in Ids(c, "reaction") : Rows(c, "reaction")[r].message_id \in Ids(c, "message")
             /\ Ids(c, "message") = {m \in left : Rows(b, "message")[m].latest_revision_id \in left \cup {NULL}}
<1> DEFINE left    == Ids(b, "message") \ Doubles(b, ms)
           rest    == Restrict(Rows(b, "message"), left)
           latest  == RestrictValues(rest, LAMBDA m : m.latest_revision_id \in DOMAIN rest \cup {NULL})
           message == [i \in DOMAIN latest |->
                         [latest[i] EXCEPT !.original_message_id = IF @ \in DOMAIN latest THEN @ ELSE NULL]]
           attachment == RestrictValues(Rows(b, "attachment"), LAMBDA r : r.message_id \in DOMAIN message)
           reaction   == RestrictValues(Rows(b, "reaction"), LAMBDA r : r.message_id \in DOMAIN message)
           d == WithRows(b, "message", message)
           e == WithRows(d, "attachment", attachment)
           f == WithRows(e, "reaction", reaction)
           c == CleanAttachments(f)
<1>1. c = WithoutDoubles(b, ms)
  BY DEF WithoutDoubles
<1>2. left \subseteq Ids(b, "message")
  OBVIOUS
<1> HIDE DEF left
<1>3. /\ DOMAIN latest = {m \in left : Rows(b, "message")[m].latest_revision_id \in left \cup {NULL}}
      /\ \A m \in DOMAIN latest : latest[m] = Rows(b, "message")[m]
  BY DEF RestrictValues, Restrict
<1> HIDE DEF rest, latest
<1>4. /\ DOMAIN message = DOMAIN latest
      /\ \A m \in DOMAIN message : \E original :
           message[m] = [Rows(b, "message")[m] EXCEPT !.original_message_id = original]
  BY <1>3
<1> HIDE DEF message
<1>5. /\ Some(attachment, Rows(b, "attachment"))
      /\ \A a \in Ids(b, "attachment") :
           Rows(b, "attachment")[a].message_id \in DOMAIN message => a \in DOMAIN attachment
  BY DEF RestrictValues, Restrict, Some, Ids
<1>6. /\ Some(reaction, Rows(b, "reaction"))
      /\ \A r \in Ids(b, "reaction") :
           Rows(b, "reaction")[r].message_id \in DOMAIN message => r \in DOMAIN reaction
      /\ \A r \in DOMAIN reaction : reaction[r].message_id \in DOMAIN message
  BY DEF RestrictValues, Restrict, Some, Ids
<1> HIDE DEF attachment, reaction
<1>7. /\ Shape(d) /\ Rows(d, "message") = message
      /\ \A u \in EditTables \ {"message"} : Rows(d, u) = Rows(b, u)
      /\ d.d_attachments = b.d_attachments /\ d.d_avatars = b.d_avatars
  BY RowsPlaced, TableNames DEF OpenedOk, TablesOk, Shape
<1> HIDE DEF d
<1>8. /\ Shape(e) /\ Rows(e, "attachment") = attachment
      /\ \A u \in EditTables \ {"attachment"} : Rows(e, u) = Rows(d, u)
      /\ e.d_attachments = d.d_attachments /\ e.d_avatars = d.d_avatars
  BY <1>7, RowsPlaced, TableNames
<1> HIDE DEF e
<1>9. /\ Shape(f) /\ Rows(f, "reaction") = reaction
      /\ \A u \in EditTables \ {"reaction"} : Rows(f, u) = Rows(e, u)
      /\ f.d_attachments = e.d_attachments /\ f.d_avatars = e.d_avatars
  BY <1>8, RowsPlaced, TableNames
<1> HIDE DEF f
<1>10. /\ Shape(c) /\ \A u \in EditTables : Rows(c, u) = Rows(f, u)
       /\ c.d_attachments = Restrict(f.d_attachments, DOMAIN f.d_attachments \cap Ids(f, "attachment"))
       /\ c.d_avatars = f.d_avatars
  BY <1>9, DataCleaned
<1> HIDE DEF c
<1>11. /\ Rows(c, "message") = message /\ Rows(c, "attachment") = attachment
       /\ Rows(c, "reaction") = reaction
       /\ \A u \in EditTables \ {"message", "attachment", "reaction"} : Rows(c, u) = Rows(b, u)
       /\ Some(c.d_attachments, b.d_attachments) /\ DOMAIN c.d_attachments \subseteq Ids(c, "attachment")
       /\ DOMAIN c.d_attachments = DOMAIN b.d_attachments \cap Ids(c, "attachment")
       /\ c.d_avatars = b.d_avatars
  BY <1>7, <1>8, <1>9, <1>10, TableNames DEF Restrict, Some, Ids
<1>12. \A m \in DOMAIN message :
         /\ m \in Ids(b, "message") /\ MessageOk(Rows(b, "message")[m]) /\ MessageOk(message[m])
         /\ SameText(message[m], Rows(b, "message")[m]) /\ SameMessage(message[m], Rows(b, "message")[m])
         /\ message[m].thread_id = Rows(b, "message")[m].thread_id
         /\ message[m].link_previews = Rows(b, "message")[m].link_previews
  <2> SUFFICES ASSUME NEW m \in DOMAIN message
               PROVE  /\ m \in Ids(b, "message") /\ MessageOk(Rows(b, "message")[m]) /\ MessageOk(message[m])
                      /\ SameText(message[m], Rows(b, "message")[m])
                      /\ SameMessage(message[m], Rows(b, "message")[m])
                      /\ message[m].thread_id = Rows(b, "message")[m].thread_id
                      /\ message[m].link_previews = Rows(b, "message")[m].link_previews
    OBVIOUS
  <2> DEFINE row == Rows(b, "message")[m]
             new == message[m]
  <2>1. m \in Ids(b, "message") /\ MessageOk(row)
    BY <1>2, <1>3, <1>4 DEF OpenedOk, RowsOk
  <2>2. PICK original : new = [row EXCEPT !.original_message_id = original]
    BY <1>4
  <2> HIDE DEF row, new
  <2>3. /\ MessageOk(new) /\ SameText(new, row) /\ SameMessage(new, row)
        /\ new.thread_id = row.thread_id /\ new.link_previews = row.link_previews
    BY <2>1, <2>2 DEF MessageOk, SameText, SameMessage, MessageColumns
  <2> QED BY <2>1, <2>3 DEF row, new
<1>13. OpenedOk(c)
  <2>1. \A t \in EditTables : Ids(c, t) \subseteq Ids(b, t)
    BY <1>5, <1>6, <1>11, <1>12 DEF Some, Ids
  <2>2. \A m \in Ids(c, "message") :
          /\ MessageOk(Rows(c, "message")[m])
          /\ Rows(c, "message")[m].link_previews = Rows(b, "message")[m].link_previews
    BY <1>11, <1>12 DEF Ids
  <2>3. \A m \in Ids(c, "message") : \A a \in FilesOf(b, m) : a \in Ids(c, "attachment")
    BY <1>5, <1>11 DEF FilesOf, Ids
  <2>4. \A t \in Ids(c, "thread") : ThreadColumns \subseteq DOMAIN Rows(c, "thread")[t]
    BY <1>11, TableNames DEF OpenedOk, RowsOk, Ids
  <2>5. Some(Rows(c, "attachment"), Rows(b, "attachment"))
    BY <1>5, <1>11
  <2> QED BY <1>10, <1>11, <2>1, <2>2, <2>3, <2>4, <2>5, Shrunk
<1>14. Kept(b, c) /\ SameThreads(b, c)
  <2>1. \A m \in Ids(c, "message") : SameFiles(b, c, m)
    BY <1>5, <1>11 DEF SameFiles, FilesOf, Some, Ids
  <2> QED BY <1>11, <1>12, <2>1 DEF Kept, SameThreads, Ids
<1>15. Ids(c, "message") = {m \in left : Rows(b, "message")[m].latest_revision_id \in left \cup {NULL}}
  BY <1>3, <1>4, <1>11 DEF Ids
<1>16. OnlyFewer(b, c)
  <2>1. \A u \in EditTables \ {"message", "attachment", "reaction"} :
          Rows(c, u) = Rows(b, u) /\ Ids(c, u) = Ids(b, u)
    BY <1>11 DEF Ids
  <2>2. BelongingsStay(b, c)
    BY <1>6, <1>11, <2>1, TableNames DEF BelongingsStay, Some, Ids
  <2>3. \A m \in Ids(c, "message") :
          /\ m \in Ids(b, "message") /\ SameMessage(Rows(c, "message")[m], Rows(b, "message")[m])
          /\ FilesOf(b, m) \subseteq Ids(c, "attachment")
    BY <1>5, <1>11, <1>12 DEF FilesOf, Ids
  <2>4. Some(Rows(c, "attachment"), Rows(b, "attachment"))
    BY <1>5, <1>11
  <2>5. \A a \in Ids(c, "attachment") : a \in DOMAIN c.d_attachments <=> a \in DOMAIN b.d_attachments
    BY <1>11
  <2> QED BY <1>11, <2>1, <2>2, <2>3, <2>4, <2>5, TableNames DEF OnlyFewer
<1>17. \A t \in {"thread", "recipient", "groups", "group_membership"} : Rows(c, t) = Rows(b, t)
  BY <1>11, TableNames
<1>18. \A r \in Ids(c, "reaction") : Rows(c, "reaction")[r].message_id \in Ids(c, "message")
  BY <1>6, <1>11 DEF Ids
<1> QED BY <1>1, <1>13, <1>14, <1>15, <1>16, <1>17, <1>18 DEF left
-----------------------------------------------------------------------------
(* A backup in which references were renamed: the messages are what they were    *)
(* but for who sent them and where they are.                                     *)
Readdressed(b, c) ==
  /\ OpenedOk(c) /\ Kept(b, c) /\ Ids(c, "message") = Ids(b, "message")
  /\ Rows(c, "attachment") = Rows(b, "attachment")
  /\ c.d_attachments = b.d_attachments

LEMMA ReaddressedTwice ==
  ASSUME NEW b, NEW c, NEW d, Readdressed(b, c), Readdressed(c, d)
  PROVE  Readdressed(b, d)
BY DEF Readdressed, Kept, SameText, SameFiles, FilesOf, Ids

LEMMA ReaddressedOnce ==
  ASSUME NEW b, OpenedOk(b), NEW c, Shape(c),
         Rows(c, "attachment") = Rows(b, "attachment"), c.d_attachments = b.d_attachments,
         Ids(c, "message") = Ids(b, "message"),
         \A m \in Ids(b, "message") :
            /\ MessageOk(Rows(c, "message")[m])
            /\ SameText(Rows(c, "message")[m], Rows(b, "message")[m])
            /\ Rows(c, "message")[m].link_previews = Rows(b, "message")[m].link_previews,
         \A t \in Ids(c, "thread") : ThreadColumns \subseteq DOMAIN Rows(c, "thread")[t],
         \A t \in EditTables : Ids(c, t) \subseteq Ids(b, t)
  PROVE  Readdressed(b, c)
<1>1. Some(Rows(c, "attachment"), Rows(b, "attachment")) /\ Some(c.d_attachments, b.d_attachments)
  BY DEF Some
<1>2. DOMAIN c.d_attachments \subseteq Ids(c, "attachment")
  BY DEF OpenedOk, DataOk, Ids
<1>3. \A m : FilesOf(c, m) = FilesOf(b, m) /\ FilesOf(b, m) \subseteq Ids(c, "attachment")
  BY DEF FilesOf, Ids
<1>4. \A m \in Ids(c, "message") :
        /\ MessageOk(Rows(c, "message")[m])
        /\ Rows(c, "message")[m].link_previews \in {Rows(b, "message")[m].link_previews, NULL}
        /\ \A a \in FilesOf(b, m) :
              a = Rows(c, "message")[m].link_previews => a \in Ids(c, "attachment")
  BY <1>3
<1>5. OpenedOk(c)
  BY <1>1, <1>2, <1>4, Shrunk
<1> QED BY <1>3, <1>5 DEF Readdressed, Kept, SameFiles

(* SQLite refuses an UPDATE of messages as a whole, or carries it out as a whole. *)
LEMMA UpdateOfMessages ==
  ASSUME NEW old, NEW new, DOMAIN new = DOMAIN old, new = [i \in DOMAIN new |-> new[i]]
  PROVE  Update("message", old, new) \in {old, new}
BY DEF Update, Restrict

LEMMA UpdateOfReactions ==
  ASSUME NEW old, NEW new, DOMAIN new = DOMAIN old
  PROVE  DOMAIN Update("reaction", old, new) \subseteq DOMAIN old
BY DEF Update, Restrict

LEMMA MessagesSet ==
  ASSUME NEW b, OpenedOk(b), NEW new, NEW old,
         NEW column \in {"thread_id", "from_recipient_id", "to_recipient_id", "quote_author"}
  PROVE  LET c == Set(b, "message", column, new, old)
         IN  Readdressed(b, c) /\ Rows(c, "thread") = Rows(b, "thread")
<1> DEFINE rows == WithColumn(Rows(b, "message"), column, LAMBDA v : Renamed(v, new, old))
           message == Update("message", Rows(b, "message"), rows)
           c == WithRows(b, "message", message)
<1>1. c = Set(b, "message", column, new, old)
  BY DEF Set
<1>2. /\ DOMAIN rows = Ids(b, "message") /\ rows = [i \in DOMAIN rows |-> rows[i]]
      /\ \A m \in Ids(b, "message") : \E v : rows[m] = [Rows(b, "message")[m] EXCEPT ![column] = v]
  BY DEF WithColumn, Ids
<1> HIDE DEF rows
<1>3. message \in {Rows(b, "message"), rows}
  BY <1>2, UpdateOfMessages DEF Ids
<1> HIDE DEF message
<1>4. /\ Shape(c) /\ Rows(c, "message") = message
      /\ \A u \in EditTables \ {"message"} : Rows(c, u) = Rows(b, u)
      /\ c.d_attachments = b.d_attachments
  BY RowsPlaced, TableNames DEF OpenedOk, TablesOk, Shape
<1> HIDE DEF c
<1>5. Ids(c, "message") = Ids(b, "message")
  BY <1>2, <1>3, <1>4 DEF Ids
<1>6. ASSUME NEW m \in Ids(b, "message")
      PROVE  /\ MessageOk(Rows(c, "message")[m])
             /\ SameText(Rows(c, "message")[m], Rows(b, "message")[m])
             /\ Rows(c, "message")[m].link_previews = Rows(b, "message")[m].link_previews
  <2> DEFINE row == Rows(b, "message")[m]
             now == Rows(c, "message")[m]
  <2>1. MessageOk(row)
    BY DEF OpenedOk, RowsOk
  <2>2. now = row \/ \E v : now = [row EXCEPT ![column] = v]
    BY <1>2, <1>3, <1>4
  <2> HIDE DEF row, now
  <2>3. MessageOk(now) /\ SameText(now, row) /\ now.link_previews = row.link_previews
    BY <2>1, <2>2 DEF MessageOk, SameText, MessageColumns
  <2> QED BY <2>3 DEF row, now
<1>7. Rows(c, "thread") = Rows(b, "thread") /\ Rows(c, "attachment") = Rows(b, "attachment")
  BY <1>4, TableNames
<1>8. \A t \in EditTables : Ids(c, t) \subseteq Ids(b, t)
  BY <1>4, <1>5 DEF Ids
<1>9. \A t \in Ids(c, "thread") : ThreadColumns \subseteq DOMAIN Rows(c, "thread")[t]
  BY <1>7 DEF OpenedOk, RowsOk, Ids
<1> QED BY <1>1, <1>4, <1>5, <1>6, <1>7, <1>8, <1>9, ReaddressedOnce

(* Tables that no message, attachment or thread is in.                           *)
LEMMA OthersSet ==
  ASSUME NEW b, OpenedOk(b), NEW t \in EditTables \ {"message", "attachment", "thread"},
         NEW rows, DOMAIN rows \subseteq Ids(b, t)
  PROVE  LET c == WithRows(b, t, rows)
         IN  /\ Readdressed(b, c) /\ Rows(c, "message") = Rows(b, "message")
             /\ Rows(c, "thread") = Rows(b, "thread")
<1> DEFINE c == WithRows(b, t, rows)
<1>1. /\ Shape(c) /\ Rows(c, t) = rows
      /\ \A u \in EditTables \ {t} : Rows(c, u) = Rows(b, u)
      /\ c.d_attachments = b.d_attachments
  BY RowsPlaced DEF OpenedOk, TablesOk, Shape
<1> HIDE DEF c
<1>2. /\ Rows(c, "message") = Rows(b, "message") /\ Rows(c, "thread") = Rows(b, "thread")
      /\ Rows(c, "attachment") = Rows(b, "attachment")
  BY <1>1, TableNames
<1>3. \A u \in EditTables : Ids(c, u) \subseteq Ids(b, u)
  BY <1>1 DEF Ids
<1>4. \A m \in Ids(b, "message") :
        /\ MessageOk(Rows(c, "message")[m])
        /\ SameText(Rows(c, "message")[m], Rows(b, "message")[m])
        /\ Rows(c, "message")[m].link_previews = Rows(b, "message")[m].link_previews
  BY <1>2 DEF OpenedOk, RowsOk, SameText
<1>5. \A u \in Ids(c, "thread") : ThreadColumns \subseteq DOMAIN Rows(c, "thread")[u]
  BY <1>2 DEF OpenedOk, RowsOk, Ids
<1>6. Ids(c, "message") = Ids(b, "message")
  BY <1>2 DEF Ids
<1>7. Readdressed(b, c)
  BY <1>1, <1>2, <1>3, <1>4, <1>5, <1>6, ReaddressedOnce
<1> QED BY <1>2, <1>7 DEF c

LEMMA ReactionsSet ==
  ASSUME NEW b, OpenedOk(b), NEW new, NEW old
  PROVE  LET c == Set(b, "reaction", "author_id", new, old)
         IN  /\ Readdressed(b, c) /\ Rows(c, "message") = Rows(b, "message")
             /\ Rows(c, "thread") = Rows(b, "thread")
<1> DEFINE rows == WithColumn(Rows(b, "reaction"), "author_id", LAMBDA v : Renamed(v, new, old))
           reaction == Update("reaction", Rows(b, "reaction"), rows)
<1>1. Set(b, "reaction", "author_id", new, old) = WithRows(b, "reaction", reaction)
  BY DEF Set
<1>2. DOMAIN rows = DOMAIN Rows(b, "reaction")
  BY DEF WithColumn
<1> HIDE DEF rows
<1>3. DOMAIN reaction \subseteq Ids(b, "reaction")
  BY <1>2, UpdateOfReactions DEF Ids
<1> HIDE DEF reaction
<1>4. "reaction" \in EditTables \ {"message", "attachment", "thread"}
  BY TableNames
<1> QED BY <1>1, <1>3, <1>4, OthersSet

LEMMA ThreadsSet ==
  ASSUME NEW b, OpenedOk(b), NEW rows, DOMAIN rows \subseteq Ids(b, "thread"),
         \A t \in DOMAIN rows : ThreadColumns \subseteq DOMAIN rows[t]
  PROVE  LET c == WithRows(b, "thread", rows)
         IN  Readdressed(b, c) /\ Rows(c, "message") = Rows(b, "message") /\ Rows(c, "thread") = rows
<1> DEFINE c == WithRows(b, "thread", rows)
<1>1. /\ Shape(c) /\ Rows(c, "thread") = rows
      /\ \A u \in EditTables \ {"thread"} : Rows(c, u) = Rows(b, u)
      /\ c.d_attachments = b.d_attachments
  BY RowsPlaced, TableNames DEF OpenedOk, TablesOk, Shape
<1> HIDE DEF c
<1>2. /\ Rows(c, "message") = Rows(b, "message") /\ Rows(c, "attachment") = Rows(b, "attachment")
  BY <1>1, TableNames
<1>3. \A u \in EditTables : Ids(c, u) \subseteq Ids(b, u)
  BY <1>1 DEF Ids
<1>4. \A m \in Ids(b, "message") :
        /\ MessageOk(Rows(c, "message")[m])
        /\ SameText(Rows(c, "message")[m], Rows(b, "message")[m])
        /\ Rows(c, "message")[m].link_previews = Rows(b, "message")[m].link_previews
  BY <1>2 DEF OpenedOk, RowsOk, SameText
<1>5. \A u \in Ids(c, "thread") : ThreadColumns \subseteq DOMAIN Rows(c, "thread")[u]
  BY <1>1 DEF Ids
<1>6. Ids(c, "message") = Ids(b, "message")
  BY <1>2 DEF Ids
<1>7. Readdressed(b, c)
  BY <1>1, <1>2, <1>3, <1>4, <1>5, <1>6, ReaddressedOnce
<1> QED BY <1>1, <1>2, <1>7 DEF c
-----------------------------------------------------------------------------
(* The operations that merge.                                                    *)
LEMMA RenamingKeeps ==
  ASSUME NEW b, OpenedOk(b), NEW new, NEW old
  PROVE  LET c == Renaming(b, new, old)
         IN  Readdressed(b, c) /\ Rows(c, "thread") = Rows(b, "thread")
<1> DEFINE b1 == Set(b, "message", "from_recipient_id", new, old)
           b2 == Set(b1, "message", "to_recipient_id", new, old)
           b3 == Set(b2, "message", "quote_author", new, old)
           b4 == Set(b3, "reaction", "author_id", new, old)
<1>0. Renaming(b, new, old) = b4
  BY DEF Renaming
<1>1. Readdressed(b, b1) /\ OpenedOk(b1) /\ Rows(b1, "thread") = Rows(b, "thread")
  BY MessagesSet DEF Readdressed
<1> HIDE DEF b1
<1>2. Readdressed(b1, b2) /\ OpenedOk(b2) /\ Rows(b2, "thread") = Rows(b1, "thread")
  BY <1>1, MessagesSet DEF Readdressed
<1> HIDE DEF b2
<1>3. Readdressed(b2, b3) /\ OpenedOk(b3) /\ Rows(b3, "thread") = Rows(b2, "thread")
  BY <1>2, MessagesSet DEF Readdressed
<1> HIDE DEF b3
<1>4. Readdressed(b3, b4) /\ Rows(b4, "thread") = Rows(b3, "thread")
  BY <1>3, ReactionsSet
<1> HIDE DEF b4
<1>5. Readdressed(b, b4) /\ Rows(b4, "thread") = Rows(b, "thread")
  BY <1>1, <1>2, <1>3, <1>4, ReaddressedTwice
<1> QED BY <1>0, <1>5

LEMMA ThreadFound ==
  ASSUME NEW b, NEW r, getThreadIdFromRecipient(b, r) # NULL
  PROVE  getThreadIdFromRecipient(b, r) \in ThreadsOf(b, r) /\ getThreadIdFromRecipient(b, r) \in Ids(b, "thread")
<1>1. Cardinality(ThreadsOf(b, r)) = 1
  BY DEF getThreadIdFromRecipient
<1>2. ThreadsOf(b, r) # {}
  BY <1>1, FS_EmptySet
<1>3. (CHOOSE t \in ThreadsOf(b, r) : TRUE) \in ThreadsOf(b, r)
  BY <1>2
<1> QED BY <1>1, <1>3 DEF getThreadIdFromRecipient, ThreadsOf

(* A thread marked empty: that is one row of one table.                           *)
LEMMA ThreadEmptied ==
  ASSUME NEW b, Shape(b), NEW t
  PROVE  [b EXCEPT !.d_database.thread[t].meaningful_messages = 0, !.d_database.thread[t].active = FALSE]
           = WithRows(b, "thread", [Rows(b, "thread") EXCEPT ![t].meaningful_messages = 0, ![t].active = FALSE])
<1> DEFINE tables  == b.d_database
           rows    == [tables["thread"] EXCEPT ![t].meaningful_messages = 0]
           first   == [b EXCEPT !.d_database.thread[t].meaningful_messages = 0]
           emptied == [b EXCEPT !.d_database.thread[t].meaningful_messages = 0, !.d_database.thread[t].active = FALSE]
           thread  == [Rows(b, "thread") EXCEPT ![t].meaningful_messages = 0, ![t].active = FALSE]
<1>1. /\ b = [d_database |-> tables, d_attachments |-> b.d_attachments, d_avatars |-> b.d_avatars]
      /\ "thread" \in DOMAIN tables
  BY TableNames DEF Shape
<1>2. first = [b EXCEPT !.d_database = [tables EXCEPT !["thread"] = rows]]
  OBVIOUS
<1>3. first.d_database["thread"] = rows
  BY <1>1, <1>2
<1>4. emptied = [first EXCEPT !.d_database.thread[t].active = FALSE]
  OBVIOUS
<1> HIDE DEF first
<1>5. emptied = [first EXCEPT !.d_database =
                   [first.d_database EXCEPT !["thread"] = [rows EXCEPT ![t].active = FALSE]]]
  BY <1>3, <1>4
<1>6. thread = [rows EXCEPT ![t].active = FALSE]
  BY DEF Rows
<1> HIDE DEF rows, thread, emptied, tables
<1>7. emptied = [b EXCEPT !.d_database = [tables EXCEPT !["thread"] = thread]]
  BY <1>1, <1>2, <1>5, <1>6
<1> QED BY <1>7 DEF WithRows, tables, emptied, thread

LEMMA RecipientsKeep ==
  ASSUME NEW b, OpenedOk(b), NEW target, NEW old
  PROVE  Readdressed(b, MergedRecipients(b, target, old).backup)
<1> DEFINE newtid  == getThreadIdFromRecipient(b, target)
           oldtid  == getThreadIdFromRecipient(b, old)
           moved   == Set(b, "message", "thread_id", newtid, oldtid)
           renamed == Renaming(moved, target, old)
           emptied == [renamed EXCEPT !.d_database.thread[oldtid].meaningful_messages = 0,
                                      !.d_database.thread[oldtid].active = FALSE]
<1>1. CASE NULL \in {newtid, oldtid}
  BY <1>1, RenamingKeeps DEF MergedRecipients
<1>2. CASE NULL \notin {newtid, oldtid}
  <2>1. \/ MergedRecipients(b, target, old).backup = renamed
        \/ MergedRecipients(b, target, old).backup = emptied
    BY <1>2 DEF MergedRecipients
  <2>2. Readdressed(b, moved) /\ OpenedOk(moved) /\ Rows(moved, "thread") = Rows(b, "thread")
    BY MessagesSet DEF Readdressed
  <2>3. oldtid \in Ids(b, "thread")
    BY <1>2, ThreadFound
  <2> HIDE DEF moved, oldtid
  <2>4. Readdressed(moved, renamed) /\ Rows(renamed, "thread") = Rows(moved, "thread")
    BY <2>2, RenamingKeeps
  <2>5. OpenedOk(renamed) /\ oldtid \in Ids(renamed, "thread")
    BY <2>2, <2>3, <2>4 DEF Readdressed, Ids
  <2>6. Readdressed(b, renamed)
    BY <2>2, <2>4, ReaddressedTwice
  <2> HIDE DEF renamed
  <2> DEFINE thread == [Rows(renamed, "thread") EXCEPT ![oldtid].meaningful_messages = 0,
                                                       ![oldtid].active = FALSE]
  <2>7. emptied = WithRows(renamed, "thread", thread)
    BY <2>5, ThreadEmptied DEF OpenedOk, TablesOk, Shape
  <2>8. DOMAIN thread = Ids(renamed, "thread")
    BY DEF Ids
  <2>9. \A t \in DOMAIN thread : DOMAIN thread[t] = DOMAIN Rows(renamed, "thread")[t]
    BY <2>5 DEF Ids
  <2>10. \A t \in DOMAIN thread : ThreadColumns \subseteq DOMAIN thread[t]
    BY <2>5, <2>8, <2>9 DEF OpenedOk, RowsOk
  <2> HIDE DEF thread, emptied
  <2>11. Readdressed(renamed, emptied)
    BY <2>5, <2>7, <2>8, <2>10, ThreadsSet
  <2> QED BY <2>1, <2>6, <2>11, ReaddressedTwice
<1> QED BY <1>1, <1>2

LEMMA GroupKeeps ==
  ASSUME NEW b, OpenedOk(b), NEW target, NEW old
  PROVE  Readdressed(b, MergedGroup(b, target, old))
<1> DEFINE oldtid == getThreadIdFromRecipient(b, old)
           b1 == Set(b, "message", "thread_id", tid, oldtid)
           b2 == Set(b1, "message", "to_recipient_id", target, old)
           b3 == Set(b2, "reaction", "author_id", target, old)
           thread == Restrict(Rows(b3, "thread"), Ids(b3, "thread") \ {oldtid})
           b4 == WithRows(b3, "thread", thread)
<1>1. Readdressed(b, b1) /\ OpenedOk(b1)
  BY MessagesSet DEF Readdressed
<1> HIDE DEF b1
<1>2. Readdressed(b1, b2) /\ OpenedOk(b2)
  BY <1>1, MessagesSet DEF Readdressed
<1> HIDE DEF b2
<1>3. Readdressed(b2, b3) /\ OpenedOk(b3)
  BY <1>2, ReactionsSet DEF Readdressed
<1> HIDE DEF b3
<1>4. DOMAIN thread \subseteq Ids(b3, "thread") /\ \A t \in DOMAIN thread : ThreadColumns \subseteq DOMAIN thread[t]
  BY <1>3 DEF Restrict, OpenedOk, RowsOk, Ids
<1> HIDE DEF thread
<1>5. Readdressed(b3, b4)
  BY <1>3, <1>4, ThreadsSet
<1> HIDE DEF b4
<1>6. Readdressed(b, b4)
  BY <1>1, <1>2, <1>3, <1>5, ReaddressedTwice
<1>7. CASE oldtid = NULL
  BY <1>7 DEF MergedGroup, Readdressed, Kept, SameText, SameFiles
<1>8. CASE oldtid # NULL
  <2>1. MergedGroup(b, target, old) = b4
    BY <1>8 DEF MergedGroup, b1, b2, b3, b4, thread
  <2> QED BY <1>6, <2>1
<1> QED BY <1>7, <1>8

LEMMA EntriesKeep ==
  ASSUME NEW b, OpenedOk(b)
  PROVE  Readdressed(b, UpdateThreadsEntries(b)) /\ Counted(UpdateThreadsEntries(b))
<1> DEFINE thread == Entries(b, Ids(b, "thread"))
           c == WithRows(b, "thread", thread)
<1>1. UpdateThreadsEntries(b) = c
  BY DEF UpdateThreadsEntries, Entries
<1>2. /\ DOMAIN thread = Ids(b, "thread")
      /\ \A t \in Ids(b, "thread") :
           thread[t] = ThreadEntry(Rows(b, "message"), MessagesOf(b, t), Rows(b, "thread")[t])
  BY DEF Entries
<1>3. \A t \in DOMAIN thread : ThreadColumns \subseteq DOMAIN thread[t]
  BY <1>2, EntryColumns
<1> HIDE DEF thread
<1>4. Readdressed(b, c) /\ Rows(c, "message") = Rows(b, "message") /\ Rows(c, "thread") = thread
  BY <1>2, <1>3, ThreadsSet
<1> HIDE DEF c
<1>5. \A t : MessagesOf(c, t) = MessagesOf(b, t)
  BY <1>4 DEF MessagesOf, Ids
<1>6. Counted(c)
  BY <1>2, <1>4, <1>5, EntryColumns DEF Counted, Ids
<1> QED BY <1>1, <1>4, <1>6
LEMMA MergeKeeps ==
  ASSUME NEW b, OpenedOk(b), NEW addresses
  PROVE  Readdressed(b, MergeRecipients(b, addresses).backup)
<1>1. Readdressed(b, b)
  BY DEF Readdressed, Kept, SameText, SameFiles
<1>2. \A target, old : Readdressed(b, MergedRecipients(b, target, old).backup)
  BY RecipientsKeep
<1>3. \/ MergeRecipients(b, addresses).backup = b
      \/ \E target, old : MergeRecipients(b, addresses).backup = MergedRecipients(b, target, old).backup
  BY DEF MergeRecipients
<1> QED BY <1>1, <1>2, <1>3

-----------------------------------------------------------------------------
(* Notes in front of a body move what follows, and the mention with it.          *)
LEMMA NotesType ==
  ASSUME NEW n \in Nat
  PROVE  Notes(n) \in Seq(Pieces) /\ Len(Notes(n)) = n
<1>1. Notes(n) \in [1 .. n -> Pieces]
  BY EditAssumption DEF Notes
<1> QED BY <1>1

LEMMA Surrounded ==
  ASSUME NEW S, NEW s \in Seq(S), NEW t \in Seq(S), NEW u \in Seq(S)
  PROVE  /\ s \o t \o u \in Seq(S) /\ Len(s \o t \o u) >= Len(s) + Len(t)
         /\ \A i \in 1 .. Len(t) : (s \o t \o u)[Len(s) + i] = t[i]
<1> DEFINE front == s \o t
           all   == front \o u
<1>1. Len(s) \in Nat /\ Len(t) \in Nat /\ Len(u) \in Nat
  BY LenProperties
<1>2. /\ front \in Seq(S) /\ Len(front) = Len(s) + Len(t)
      /\ \A i \in 1 .. Len(s) + Len(t) : front[i] = IF i <= Len(s) THEN s[i] ELSE t[i - Len(s)]
  BY ConcatProperties
<1> HIDE DEF front
<1>3. front \in Seq(S)
  BY <1>2
<1>4. /\ all \in Seq(S) /\ Len(all) = Len(front) + Len(u)
      /\ \A i \in 1 .. Len(front) + Len(u) :
           all[i] = IF i <= Len(front) THEN front[i] ELSE u[i - Len(front)]
  BY <1>3, ConcatProperties
<1> HIDE DEF all
<1>5. ASSUME NEW i \in 1 .. Len(t) PROVE all[Len(s) + i] = t[i]
  <2> DEFINE k == Len(s) + i
  <2>1. /\ k \in 1 .. Len(s) + Len(t) /\ ~ (k <= Len(s)) /\ k - Len(s) = i
        /\ k \in 1 .. Len(front) + Len(u) /\ k <= Len(front)
    BY <1>1, <1>2
  <2> HIDE DEF k
  <2>2. front[k] = t[i]
    BY <1>2, <2>1
  <2>3. all[k] = front[k]
    BY <1>4, <2>1
  <2> QED BY <2>2, <2>3 DEF k
<1>6. Len(all) >= Len(s) + Len(t)
  BY <1>1, <1>2, <1>4
<1> QED BY <1>4, <1>5, <1>6 DEF all, front

(* The length of notes: none at all, or at least a blank line.                   *)
LEMMA NotesLength ==
  ASSUME NEW n \in Nat, NEW length \in Nat
  PROVE  Taken(n, length) \in Nat /\ (Taken(n, length) = 0 \/ Taken(n, length) >= BlankLine)
<1>1. CASE length = 0 \/ n = 0
  BY <1>1 DEF Taken, BlankLine
<1>2. CASE length # 0 /\ n # 0
  <2>1. PICK k \in Nat : n = k + 1
    <3>1. n - 1 \in Nat /\ n = (n - 1) + 1
      BY <1>2
    <3> QED BY <3>1
  <2>2. PICK u \in Nat : u = k * (length + 2)
    OBVIOUS
  <2>3. Taken(n, length) = u + (length + 2)
    BY <1>2, <2>1, <2>2 DEF Taken, BlankLine
  <2> QED BY <2>2, <2>3 DEF BlankLine
<1> QED BY <1>1, <1>2

Standing(row) == {row.mention, row.range} \subseteq 0 .. Len(row.body)

InPlace(row, now, spec) ==
  spec.bytes = spec.prepend =>
    /\ SameUnit(row, row.mention, now, now.mention)
    /\ row.range # 1 \/ spec.prepend = 0 => SameUnit(row, row.range, now, now.range)

LEMMA NotesMove ==
  ASSUME NEW row, MessageOk(row), NEW n \in Nat, NEW spec, NotesOk(spec)
  PROVE  LET now == WithNotes(row, n, spec)
         IN  /\ MessageOk(now) /\ now.link_previews = row.link_previews /\ SameAddress(now, row)
             /\ Standing(row) => InPlace(row, now, spec)
<1> DEFINE before == Taken(n, spec.prepend)
           after  == Taken(n, spec.append)
           moved  == IF before = 0 THEN 0 ELSE Taken(n, spec.bytes)
           around == Notes(before) \o row.body \o Notes(after)
           body   == IF row.body = <<>> /\ before + after > 0 THEN Notes(before + after - BlankLine) ELSE around
           mention == IF row.mention = 0 THEN row.mention ELSE row.mention + moved
           range   == IF row.range <= 1 THEN row.range ELSE row.range + moved
           now    == [row EXCEPT !.body = body, !.mention = mention, !.range = range]
<1>1. WithNotes(row, n, spec) = now
  BY DEF WithNotes
<1>2. /\ before \in Nat /\ after \in Nat /\ moved \in Nat
      /\ before = 0 \/ before >= BlankLine
      /\ after = 0 \/ after >= BlankLine
  BY NotesLength DEF NotesOk
<1>3. /\ row.body \in Seq(Pieces) /\ row.mention \in Nat /\ row.range \in Nat
      /\ MessageColumns \subseteq DOMAIN row
  BY DEF MessageOk
<1>4. spec.bytes = spec.prepend => moved = before
  OBVIOUS
<1>5. spec.prepend = 0 => before = 0
  BY DEF Taken
<1> HIDE DEF before, after, moved
<1>6. Notes(before) \in Seq(Pieces) /\ Len(Notes(before)) = before /\ Notes(after) \in Seq(Pieces)
  BY <1>2, NotesType
<1>7. /\ around \in Seq(Pieces) /\ Len(around) >= before + Len(row.body)
      /\ \A i \in 1 .. Len(row.body) : around[before + i] = row.body[i]
  <2> DEFINE s == Notes(before)
             t == row.body
             u == Notes(after)
  <2>1. s \in Seq(Pieces) /\ t \in Seq(Pieces) /\ u \in Seq(Pieces)
    BY <1>3, <1>6
  <2>2. Len(s) = before
    BY <1>6
  <2> HIDE DEF s, t, u
  <2>3. /\ s \o t \o u \in Seq(Pieces) /\ Len(s \o t \o u) >= Len(s) + Len(t)
        /\ \A i \in 1 .. Len(t) : (s \o t \o u)[Len(s) + i] = t[i]
    BY ONLY <2>1, Surrounded
  <2>4. around = s \o t \o u
    BY DEF s, t, u
  <2> HIDE DEF around
  <2>5. /\ around \in Seq(Pieces) /\ Len(around) >= before + Len(t)
        /\ \A i \in 1 .. Len(t) : around[before + i] = t[i]
    BY <2>2, <2>3, <2>4
  <2> QED BY <2>5 DEF t
<1>8. Len(row.body) \in Nat /\ Len(around) \in Nat
  BY <1>3, <1>7
<1> HIDE DEF around
<1>9. body \in Seq(Pieces)
  <2>1. CASE row.body = <<>> /\ before + after > 0
    <3>1. before + after - BlankLine \in Nat
      BY <1>2, <2>1 DEF BlankLine
    <3> QED BY <2>1, <3>1, NotesType
  <2>2. CASE ~ (row.body = <<>> /\ before + after > 0)
    BY <1>7, <2>2
  <2> QED BY <2>1, <2>2
<1>10. Len(row.body) # 0 => body = around
  BY <1>3
<1> HIDE DEF body
<1>11. mention \in Nat /\ range \in Nat
  BY <1>2, <1>3
<1>12. ASSUME NEW place \in 1 .. Len(row.body)
       PROVE  before + place \in DOMAIN body /\ body[before + place] = row.body[place]
  <2>1. body = around /\ DOMAIN body = 1 .. Len(body)
    BY <1>8, <1>9, <1>10
  <2>2. before + place \in 1 .. Len(around)
    BY <1>2, <1>7, <1>8
  <2> QED BY <1>7, <2>1, <2>2
<1>13. row.mention # 0 /\ moved = before => mention = before + row.mention
  BY <1>2, <1>3
<1>14. row.range # 0 /\ moved = before /\ (row.range # 1 \/ before = 0) => range = before + row.range
  BY <1>2, <1>3
<1> HIDE DEF mention, range
<1>15. /\ now.body = body /\ now.mention = mention /\ now.range = range /\ now.link_previews = row.link_previews
       /\ MessageColumns \subseteq DOMAIN now /\ SameAddress(now, row)
  BY <1>3 DEF MessageColumns, SameAddress, AddressColumns
<1> HIDE DEF now
<1>16. MessageOk(now)
  BY <1>9, <1>11, <1>15 DEF MessageOk
<1>17. Standing(row) => InPlace(row, now, spec)
  <2> SUFFICES ASSUME Standing(row), spec.bytes = spec.prepend
               PROVE  /\ SameUnit(row, row.mention, now, now.mention)
                      /\ row.range # 1 \/ spec.prepend = 0 => SameUnit(row, row.range, now, now.range)
    BY DEF InPlace
  <2>1. SameUnit(row, row.mention, now, now.mention)
    <3> SUFFICES ASSUME row.mention # 0
                 PROVE  now.mention \in DOMAIN now.body /\ now.body[now.mention] = row.body[row.mention]
      BY DEF SameUnit
    <3>1. row.mention \in 1 .. Len(row.body)
      BY <1>3, <1>8 DEF Standing
    <3> QED BY <1>4, <1>12, <1>13, <1>15, <3>1
  <2>2. ASSUME row.range # 1 \/ spec.prepend = 0 PROVE SameUnit(row, row.range, now, now.range)
    <3> SUFFICES ASSUME row.range # 0
                 PROVE  now.range \in DOMAIN now.body /\ now.body[now.range] = row.body[row.range]
      BY DEF SameUnit
    <3>1. row.range \in 1 .. Len(row.body)
      BY <1>3, <1>8 DEF Standing
    <3> QED BY <1>4, <1>5, <1>12, <1>14, <1>15, <2>2, <3>1
  <2> QED BY <2>1, <2>2
<1> QED BY <1>1, <1>15, <1>16, <1>17
-----------------------------------------------------------------------------
(* Attachments go, with the messages that were nothing else: what is left has    *)
(* its mention and its format in place and is counted.                           *)
StaysInPlace(b, c, spec) ==
  \A m \in Ids(c, "message") :
     Standing(Rows(b, "message")[m]) => InPlace(Rows(b, "message")[m], Rows(c, "message")[m], spec)

LEMMA DeletedKeeps ==
  ASSUME NEW b, OpenedOk(b), NEW spec, NotesOk(spec)
  PROVE  LET c == Deleted(b, spec)
         IN  /\ OpenedOk(c) /\ Counted(c) /\ StaysInPlace(b, c, spec)
             /\ FewerReferences(b, c) /\ NothingLoose(b, c)
             /\ Ids(c, "message") \subseteq Ids(b, "message")
             /\ \A m \in Ids(b, "message") \ Ids(c, "message") :
                  spec.append = 0 /\ spec.prepend = 0 /\ m \in Unattached(b, Listed(b, spec))
<1> DEFINE listed  == Listed(b, spec)
           count(m) == Cardinality(FilesOf(b, m) \cap listed)
           files   == Restrict(Rows(b, "attachment"), Ids(b, "attachment") \ listed)
           without == WithRows(b, "attachment", files)
           noted   == [m \in Ids(b, "message") |-> WithNotes(Rows(b, "message")[m], count(m), spec)]
           message == IF spec.append + spec.prepend > 0 THEN noted
                      ELSE Restrict(noted, Ids(b, "message") \ Unattached(b, listed))
           d == WithRows(without, "message", message)
           viewed == WithColumn(Rows(d, "message"), "link_previews",
                                LAMBDA a : IF a \in Ids(d, "attachment") THEN a ELSE NULL)
           e == WithRows(d, "message", viewed)
           f == CleanAttachments(e)
           c == CleanDatabaseByMessages(f)
<1>1. Deleted(b, spec) = c
  BY DEF Deleted, WithPreviews
<1>2. Some(files, Rows(b, "attachment"))
  BY DEF Restrict, Some, Ids
<1>3. \A m : FilesOf(b, m) \subseteq Ids(b, "attachment") /\ IsFiniteSet(FilesOf(b, m) \cap listed)
  BY FS_Subset, TableNames DEF FilesOf, OpenedOk, TablesOk
<1>4. \A m : count(m) \in Nat
  BY <1>3, FS_CardinalityType
<1>5. spec.append \in Nat /\ spec.prepend \in Nat
  BY DEF NotesOk
<1> HIDE DEF files
<1>6. /\ DOMAIN message \subseteq Ids(b, "message")
      /\ \A m \in Ids(b, "message") \ DOMAIN message :
           spec.append = 0 /\ spec.prepend = 0 /\ m \in Unattached(b, listed)
      /\ \A m \in DOMAIN message : message[m] = WithNotes(Rows(b, "message")[m], count(m), spec)
  BY <1>5 DEF Restrict
<1> HIDE DEF message, noted, listed
<1>7. ASSUME NEW m \in DOMAIN message
      PROVE  LET row == Rows(b, "message")[m]  now == message[m]
             IN  /\ m \in Ids(b, "message") /\ MessageOk(now) /\ now.link_previews = row.link_previews
                 /\ SameAddress(now, row)
                 /\ Standing(row) => InPlace(row, now, spec)
  <2>1. m \in Ids(b, "message") /\ MessageOk(Rows(b, "message")[m])
    BY <1>6 DEF OpenedOk, RowsOk
  <2>2. count(m) \in Nat
    BY <1>4
  <2> QED BY <1>6, <2>1, <2>2, NotesMove
<1> HIDE DEF count
<1>8. /\ Shape(without) /\ Rows(without, "attachment") = files
      /\ \A u \in EditTables \ {"attachment"} : Rows(without, u) = Rows(b, u)
      /\ without.d_attachments = b.d_attachments
  BY RowsPlaced, TableNames DEF OpenedOk, TablesOk, Shape
<1> HIDE DEF without
<1>9. /\ Shape(d) /\ Rows(d, "message") = message
      /\ \A u \in EditTables \ {"message"} : Rows(d, u) = Rows(without, u)
      /\ d.d_attachments = without.d_attachments
  BY <1>8, RowsPlaced, TableNames
<1> HIDE DEF d
<1>10. Ids(d, "attachment") = DOMAIN files
  BY <1>8, <1>9, TableNames DEF Ids
<1>11. /\ DOMAIN viewed = DOMAIN message
       /\ \A m \in DOMAIN message :
            viewed[m] = [message[m] EXCEPT !.link_previews =
                           IF message[m].link_previews \in DOMAIN files THEN message[m].link_previews ELSE NULL]
  BY <1>9, <1>10 DEF WithColumn
<1> HIDE DEF viewed
<1>12. ASSUME NEW m \in DOMAIN message
       PROVE  LET row == Rows(b, "message")[m]  now == viewed[m]
              IN  /\ MessageOk(now)
                  /\ now.link_previews \in {row.link_previews, NULL}
                  /\ now.link_previews \in DOMAIN files \cup {NULL}
                  /\ SameAddress(now, row)
                  /\ Standing(row) => InPlace(row, now, spec)
  <2> DEFINE row == Rows(b, "message")[m]
             old == message[m]
             now == viewed[m]
  <2>1. /\ MessageOk(old) /\ old.link_previews = row.link_previews /\ SameAddress(old, row)
        /\ Standing(row) => InPlace(row, old, spec)
    BY <1>7
  <2>2. now = [old EXCEPT !.link_previews = IF old.link_previews \in DOMAIN files THEN old.link_previews ELSE NULL]
    BY <1>11
  <2> HIDE DEF row, old, now
  <2>3. /\ DOMAIN now = DOMAIN old /\ now.body = old.body /\ now.mention = old.mention
        /\ now.range = old.range
        /\ now.link_previews = IF old.link_previews \in DOMAIN files THEN old.link_previews ELSE NULL
    BY <2>1, <2>2 DEF MessageOk, MessageColumns
  <2>4. /\ MessageOk(now)
        /\ now.link_previews \in {row.link_previews, NULL}
        /\ now.link_previews \in DOMAIN files \cup {NULL}
    BY <2>1, <2>3 DEF MessageOk
  <2>5. Standing(row) => InPlace(row, now, spec)
    BY <2>1, <2>3 DEF InPlace, SameUnit
  <2>6. SameAddress(now, old)
    BY <2>1, <2>2 DEF MessageOk, MessageColumns, SameAddress, AddressColumns
  <2>7. SameAddress(now, row)
    BY <2>1, <2>6 DEF SameAddress
  <2> QED BY <2>4, <2>5, <2>7 DEF row, now
<1>13. /\ Shape(e) /\ Rows(e, "message") = viewed
       /\ \A u \in EditTables \ {"message"} : Rows(e, u) = Rows(d, u)
       /\ e.d_attachments = d.d_attachments
  BY <1>9, RowsPlaced, TableNames
<1> HIDE DEF e
<1>14. /\ Shape(f) /\ \A u \in EditTables : Rows(f, u) = Rows(e, u)
       /\ f.d_attachments = Restrict(e.d_attachments, DOMAIN e.d_attachments \cap Ids(e, "attachment"))
  BY <1>13, DataCleaned
<1> HIDE DEF f
<1>15. /\ Rows(f, "message") = viewed /\ Rows(f, "attachment") = files
       /\ \A u \in EditTables \ {"message", "attachment"} : Rows(f, u) = Rows(b, u)
       /\ Some(f.d_attachments, b.d_attachments) /\ DOMAIN f.d_attachments \subseteq Ids(f, "attachment")
  BY <1>8, <1>9, <1>13, <1>14, TableNames DEF Restrict, Some, Ids
<1>16. OpenedOk(f)
  <2>1. \A t \in EditTables : Ids(f, t) \subseteq Ids(b, t)
    BY <1>2, <1>7, <1>11, <1>15 DEF Some, Ids
  <2>2. \A m \in Ids(f, "message") :
          /\ MessageOk(Rows(f, "message")[m])
          /\ Rows(f, "message")[m].link_previews \in {Rows(b, "message")[m].link_previews, NULL}
          /\ Rows(f, "message")[m].link_previews \in Ids(f, "attachment") \cup {NULL}
    BY <1>11, <1>12, <1>15 DEF Ids
  <2>3. \A m \in Ids(f, "message") : \A a \in FilesOf(b, m) :
          a = Rows(f, "message")[m].link_previews => a \in Ids(f, "attachment")
    <3>1. \A m : \A a \in FilesOf(b, m) : a # NULL
      BY TableNames DEF FilesOf, OpenedOk, TablesOk, NULL
    <3> QED BY <2>2, <3>1
  <2>4. \A t \in Ids(f, "thread") : ThreadColumns \subseteq DOMAIN Rows(f, "thread")[t]
    BY <1>15, TableNames DEF OpenedOk, RowsOk, Ids
  <2>5. Some(Rows(f, "attachment"), Rows(b, "attachment"))
    BY <1>2, <1>15
  <2> QED BY <1>14, <1>15, <2>1, <2>2, <2>3, <2>4, <2>5, Shrunk
<1>17. /\ OpenedOk(c) /\ Counted(c) /\ Rows(c, "message") = viewed
       /\ OnlyFewer(f, c) /\ NothingLoose(f, c)
  BY <1>15, <1>16, CleaningKeeps
<1> HIDE DEF c
<1>18. StaysInPlace(b, c, spec)
  BY <1>11, <1>12, <1>17 DEF StaysInPlace, Ids
<1>19. /\ Ids(c, "message") \subseteq Ids(b, "message")
       /\ \A m \in Ids(b, "message") \ Ids(c, "message") :
            spec.append = 0 /\ spec.prepend = 0 /\ m \in Unattached(b, Listed(b, spec))
  <2>1. Ids(c, "message") = DOMAIN message
    BY <1>11, <1>17 DEF Ids
  <2> QED BY <1>6, <2>1 DEF listed
<1>20. FewerReferences(b, c) /\ NothingLoose(b, c)
  <2>1. \A u \in {"thread", "reaction", "groups", "group_membership", "recipient"} :
          Rows(f, u) = Rows(b, u) /\ Ids(f, u) = Ids(b, u)
    BY <1>15, TableNames DEF Ids
  <2>2. \A m \in Ids(c, "message") :
          /\ m \in Ids(b, "message") /\ SameAddress(Rows(c, "message")[m], Rows(b, "message")[m])
          /\ Rows(c, "message")[m].thread_id \in Ids(f, "thread") =>
               Rows(c, "message")[m].thread_id \in Ids(c, "thread")
    BY <1>7, <1>11, <1>12, <1>17 DEF Ids, OnlyFewer
  <2>3. \A t \in Ids(c, "thread") :
          t \in Ids(f, "thread") /\ Rows(c, "thread")[t].recipient_id = Rows(f, "thread")[t].recipient_id
    BY <1>17 DEF OnlyFewer
  <2>4. /\ \A t \in {"reaction", "groups", "group_membership", "recipient"} : Some(Rows(c, t), Rows(f, t))
        /\ ReferencedRecipients(c) \cap Ids(f, "recipient") \subseteq Ids(c, "recipient")
    BY <1>17 DEF OnlyFewer, BelongingsStay
  <2>5. FewerReferences(b, c)
    BY <2>1, <2>2, <2>3, <2>4 DEF FewerReferences
  <2>6. NothingLoose(b, c)
    BY <1>17, <2>1 DEF NothingLoose
  <2> QED BY <2>5, <2>6
<1> QED BY <1>1, <1>17, <1>18, <1>19, <1>20

(* Or they are replaced, and their rows say so.                                  *)
LEMMA ReplacedKeeps ==
  ASSUME NEW b, OpenedOk(b), NEW spec
  PROVE  LET c == Replaced(b, spec)
         IN  OpenedOk(c) /\ \A u \in EditTables \ {"attachment"} : Rows(c, u) = Rows(b, u)
<1> DEFINE listed == Listed(b, spec) \cap DOMAIN b.d_attachments
           data == [a \in DOMAIN b.d_attachments |-> IF a \in listed THEN spec.size ELSE b.d_attachments[a]]
           files == [a \in Ids(b, "attachment") |->
                       IF a \in listed THEN [Rows(b, "attachment")[a] EXCEPT !.data_size = spec.size]
                                       ELSE Rows(b, "attachment")[a]]
           c == Replaced(b, spec)
<1>1. /\ Shape(c) /\ Rows(c, "attachment") = files
      /\ \A u \in EditTables \ {"attachment"} : Rows(c, u) = Rows(b, u)
      /\ c.d_attachments = data
  <2> DEFINE tables == b.d_database
  <2>1. /\ b = [d_database |-> tables, d_attachments |-> b.d_attachments, d_avatars |-> b.d_avatars]
        /\ DOMAIN tables = EditTables /\ "attachment" \in EditTables
    BY TableNames DEF OpenedOk, TablesOk
  <2>2. files = [a \in DOMAIN tables.attachment |->
                   IF a \in listed THEN [tables.attachment[a] EXCEPT !.data_size = spec.size]
                                   ELSE tables.attachment[a]]
    BY DEF Rows, Ids
  <2>3. c = [[b EXCEPT !.d_attachments = data] EXCEPT !.d_database = [tables EXCEPT !.attachment = files]]
    BY <2>1, <2>2 DEF Replaced
  <2> HIDE DEF c, files, data, tables
  <2>4. c = [d_database |-> [tables EXCEPT !.attachment = files], d_attachments |-> data,
             d_avatars |-> b.d_avatars]
    BY <2>1, <2>3
  <2>5. tables = b.d_database
    BY DEF tables
  <2> QED BY <2>1, <2>4, <2>5 DEF Shape, Rows
<1>2. Rows(c, "message") = Rows(b, "message") /\ Rows(c, "thread") = Rows(b, "thread")
  BY <1>1, TableNames
<1>3. /\ DOMAIN files = Ids(b, "attachment")
      /\ \A a \in Ids(b, "attachment") \ listed : files[a] = Rows(b, "attachment")[a]
      /\ \A a \in listed : a \in Ids(b, "attachment") =>
           files[a] = [Rows(b, "attachment")[a] EXCEPT !.data_size = spec.size]
  OBVIOUS
<1>4. /\ DOMAIN data = DOMAIN b.d_attachments
      /\ \A a \in DOMAIN data : data[a] = IF a \in listed THEN spec.size ELSE b.d_attachments[a]
  OBVIOUS
<1> HIDE DEF c, files, data, listed
<1>5. ASSUME NEW a \in Ids(b, "attachment")
      PROVE  /\ "data_size" \in DOMAIN files[a] /\ files[a].message_id = Rows(b, "attachment")[a].message_id
             /\ a \in listed => files[a].data_size = spec.size
  <2> DEFINE row == Rows(b, "attachment")[a]
  <2>1. "data_size" \in DOMAIN row
    BY DEF OpenedOk, RowsOk
  <2>2. CASE a \in listed
    <3>1. files[a] = [row EXCEPT !.data_size = spec.size]
      BY <1>3, <2>2
    <3> HIDE DEF row
    <3>2. /\ "data_size" \in DOMAIN files[a] /\ files[a].data_size = spec.size
          /\ files[a].message_id = row.message_id
      BY <2>1, <3>1
    <3> QED BY <3>2 DEF row
  <2>3. CASE a \notin listed
    BY <1>3, <2>1, <2>3
  <2> QED BY <2>2, <2>3
<1>6. OpenedOk(c)
  <2>1. \A t \in EditTables : Ids(c, t) = Ids(b, t)
    BY <1>1, <1>3 DEF Ids
  <2>2. TablesOk(c)
    BY <1>1, <2>1 DEF Shape, OpenedOk, TablesOk
  <2>3. RowsOk(c)
    BY <1>1, <1>2, <1>5, <2>1, TableNames DEF OpenedOk, RowsOk
  <2>4. DataOk(c)
    <3> SUFFICES ASSUME NEW a \in DOMAIN c.d_attachments
                 PROVE  a \in Ids(c, "attachment") /\ Rows(c, "attachment")[a].data_size = c.d_attachments[a]
      BY DEF DataOk
    <3>1. a \in Ids(b, "attachment") /\ Rows(b, "attachment")[a].data_size = b.d_attachments[a]
      BY <1>1, <1>4 DEF OpenedOk, DataOk
    <3>2. CASE a \in listed
      BY <1>1, <1>4, <1>5, <2>1, <3>1, <3>2, TableNames
    <3>3. CASE a \notin listed
      BY <1>1, <1>3, <1>4, <2>1, <3>1, <3>3, TableNames
    <3> QED BY <3>2, <3>3
  <2>5. \A m : FilesOf(c, m) = FilesOf(b, m)
    BY <1>1, <1>5, <2>1, TableNames DEF FilesOf
  <2>6. PreviewsOk(c)
    BY <1>2, <2>1, <2>5, TableNames DEF OpenedOk, PreviewsOk
  <2> QED BY <2>2, <2>3, <2>4, <2>6 DEF OpenedOk
<1> QED BY <1>1, <1>6 DEF c

LEMMA ViolationsKeep ==
  ASSUME NEW b, OpenedOk(b), NEW k \in ForeignKeys, NEW rows \in SUBSET Ids(b, k.table)
  PROVE  OpenedOk(WithRows(b, k.table, Restrict(Rows(b, k.table), Ids(b, k.table) \ rows)))
<1>1. k.table \in EditTables \ {"attachment"}
  BY TableNames DEF ForeignKeys, RevisionKeys, ForeignKey
<1>2. Some(Restrict(Rows(b, k.table), Ids(b, k.table) \ rows), Rows(b, k.table))
  BY DEF Restrict, Some, Ids
<1> QED BY <1>1, <1>2, RowsDeleted

-----------------------------------------------------------------------------
(* What always holds of the backup and of where main is.                         *)
EditInv ==
  /\ OpenedOk(opened) /\ OpenedOk(backup) /\ CommandOk(command)
  /\ pc \in {"removeDoubles", "cropToDates", "cropToThread", "mergeRecipients", "mergeGroups",
             "eachGroup", "deleteAttachments", "autofix", "done", "aborted"}
  /\ tid \in Nat /\ nth \in 1 .. Len(command.mergegroups) + 1
  /\ broken \subseteq ForeignKeys
  /\ broken # {} => pc = "autofix"
  /\ pc = "autofix" => command.autofixfkc

LEMMA EditStart == Init => EditInv
<1> SUFFICES ASSUME Init PROVE EditInv
  OBVIOUS
<1>1. PICK o \in Openings : opened = o.backup /\ backup = o.backup /\ command = o.command
  BY DEF Init
<1>2. OpenedOk(opened) /\ OpenedOk(backup) /\ CommandOk(command)
  BY <1>1, EditAssumption
<1>3. Len(command.mergegroups) \in Nat
  BY <1>2 DEF CommandOk
<1> QED BY <1>2, <1>3 DEF Init, EditInv, NULL

(* Each operation by what it does.                                               *)
LEMMA RemoveDoublesEffect ==
  ASSUME EditInv, removeDoubles
  PROVE  /\ pc = "removeDoubles" /\ pc' = "cropToDates" /\ UNCHANGED <<opened, command, tid, nth, broken>>
         /\ OpenedOk(backup') /\ Kept(backup, backup') /\ SameThreads(backup, backup')
         /\ \/ ~ command.removedoubles >= 0 /\ backup' = backup
            \/ /\ command.removedoubles >= 0 /\ OnlyFewer(backup, backup')
               /\ \A t \in {"thread", "recipient", "groups", "group_membership"} :
                    Rows(backup', t) = Rows(backup, t)
               /\ \A r \in Ids(backup', "reaction") :
                    Rows(backup', "reaction")[r].message_id \in Ids(backup', "message")
               /\ LET left == Ids(backup, "message") \ Doubles(backup, command.removedoubles)
                  IN  Ids(backup', "message") =
                        {m \in left : Rows(backup, "message")[m].latest_revision_id \in left \cup {NULL}}
<1>1. /\ pc = "removeDoubles" /\ pc' = "cropToDates" /\ UNCHANGED <<opened, command, tid, nth, broken>>
      /\ \/ ~ command.removedoubles >= 0 /\ backup' = backup
         \/ command.removedoubles >= 0 /\ backup' = WithoutDoubles(backup, command.removedoubles)
  BY DEF removeDoubles, Step
<1>2. CASE ~ command.removedoubles >= 0 /\ backup' = backup
  BY <1>1, <1>2 DEF EditInv, Kept, SameText, SameFiles, SameThreads
<1>3. CASE command.removedoubles >= 0 /\ backup' = WithoutDoubles(backup, command.removedoubles)
  BY <1>1, <1>3, DoublesGone DEF EditInv
<1> QED BY <1>1, <1>2, <1>3

LEMMA CropToDatesEffect ==
  ASSUME EditInv, cropToDates
  PROVE  /\ pc = "cropToDates" /\ pc' = "cropToThread" /\ UNCHANGED <<opened, command, tid, nth, broken>>
         /\ OpenedOk(backup') /\ Kept(backup, backup') /\ SameThreads(backup, backup')
         /\ \/ backup' = backup
            \/ /\ command.croptodates # <<>> /\ OnlyFewer(backup, backup') /\ NothingLoose(backup, backup')
               /\ \A m \in Ids(backup, "message") \ Ids(backup', "message") :
                    ~ InRanges(command.croptodates, Rows(backup, "message")[m])
<1> DEFINE rows == RestrictValues(Rows(backup, "message"), LAMBDA m : InRanges(command.croptodates, m))
           cropped == CleanDatabaseByMessages(WithRows(backup, "message", rows))
<1>1. /\ pc = "cropToDates" /\ pc' = "cropToThread" /\ UNCHANGED <<opened, command, tid, nth, broken>>
      /\ backup' = backup \/ (command.croptodates # <<>> /\ backup' = cropped)
  <2> DEFINE readable == \A i \in DOMAIN command.croptodates : Readable(command.croptodates[i])
  <2>1. /\ pc = "cropToDates" /\ pc' = "cropToThread" /\ UNCHANGED <<opened, command, tid, nth, broken>>
        /\ backup' = IF command.croptodates # <<>> /\ readable THEN cropped ELSE backup
    BY DEF cropToDates, Step, CroppedTo
  <2> HIDE DEF readable, cropped
  <2> QED BY <2>1
<1>2. CASE backup' = backup
  BY <1>1, <1>2 DEF EditInv, Kept, SameText, SameFiles, SameThreads
<1>3. CASE command.croptodates # <<>> /\ backup' = cropped
  <2>1. Some(rows, Rows(backup, "message"))
    BY DEF RestrictValues, Restrict, Some
  <2>2. \A m \in Ids(backup, "message") \ DOMAIN rows :
          ~ InRanges(command.croptodates, Rows(backup, "message")[m])
    BY DEF RestrictValues, Restrict, Ids
  <2> HIDE DEF rows
  <2>3. /\ OpenedOk(cropped) /\ Kept(backup, cropped) /\ SameThreads(backup, cropped)
        /\ Ids(cropped, "message") = DOMAIN rows
        /\ OnlyFewer(backup, cropped) /\ NothingLoose(backup, cropped)
    BY <2>1, CropKeeps DEF EditInv
  <2> HIDE DEF cropped
  <2> QED BY <1>1, <1>3, <2>2, <2>3
<1> QED BY <1>1, <1>2, <1>3

LEMMA CropToThreadEffect ==
  ASSUME EditInv, cropToThread
  PROVE  /\ pc = "cropToThread" /\ pc' = "mergeRecipients" /\ UNCHANGED <<opened, command, tid, nth, broken>>
         /\ OpenedOk(backup') /\ Kept(backup, backup') /\ SameThreads(backup, backup')
         /\ \/ command.croptothreads = {} /\ backup' = backup
            \/ /\ command.croptothreads # {} /\ Counted(backup')
               /\ OnlyFewer(backup, backup') /\ NothingLoose(backup, backup')
               /\ \A m \in Ids(backup, "message") \ Ids(backup', "message") :
                    Rows(backup, "message")[m].thread_id \notin command.croptothreads
<1> DEFINE rows == RestrictValues(Rows(backup, "message"), LAMBDA m : m.thread_id \in command.croptothreads)
           cropped == CleanDatabaseByMessages(WithRows(backup, "message", rows))
<1>1. /\ pc = "cropToThread" /\ pc' = "mergeRecipients" /\ UNCHANGED <<opened, command, tid, nth, broken>>
      /\ backup' = IF command.croptothreads # {} THEN cropped ELSE backup
  BY DEF cropToThread, Step, CroppedTo
<1>2. CASE command.croptothreads = {}
  BY <1>1, <1>2 DEF EditInv, Kept, SameText, SameFiles, SameThreads
<1>3. CASE command.croptothreads # {}
  <2>1. Some(rows, Rows(backup, "message"))
    BY DEF RestrictValues, Restrict, Some
  <2>2. \A m \in Ids(backup, "message") \ DOMAIN rows :
          Rows(backup, "message")[m].thread_id \notin command.croptothreads
    BY DEF RestrictValues, Restrict, Ids
  <2> HIDE DEF rows
  <2>3. /\ OpenedOk(cropped) /\ Kept(backup, cropped) /\ SameThreads(backup, cropped)
        /\ Ids(cropped, "message") = DOMAIN rows /\ Counted(cropped)
        /\ OnlyFewer(backup, cropped) /\ NothingLoose(backup, cropped)
    BY <2>1, CropKeeps DEF EditInv
  <2> HIDE DEF cropped
  <2> QED BY <1>1, <1>3, <2>2, <2>3
<1> QED BY <1>1, <1>2, <1>3

LEMMA MergeRecipientsEffect ==
  ASSUME EditInv, mergeRecipients
  PROVE  /\ pc = "mergeRecipients" /\ pc' \in {"mergeGroups", "aborted"}
         /\ UNCHANGED <<opened, command, tid, nth, broken>>
         /\ Readdressed(backup, backup')
         /\ command.mergerecipients = <<>> => backup' = backup
<1>0. Readdressed(backup, backup)
  BY DEF EditInv, Readdressed, Kept, SameText, SameFiles
<1>1. /\ pc = "mergeRecipients" /\ pc' \in {"mergeGroups", "aborted"}
      /\ UNCHANGED <<opened, command, tid, nth, broken>>
      /\ IF command.mergerecipients # <<>>
         THEN backup' = MergeRecipients(backup, command.mergerecipients).backup ELSE backup' = backup
  BY DEF mergeRecipients, Try, Step
<1>2. Readdressed(backup, MergeRecipients(backup, command.mergerecipients).backup)
  BY MergeKeeps DEF EditInv
<1> QED BY <1>0, <1>1, <1>2

LEMMA MergeGroupEffect ==
  ASSUME EditInv, MergeGroup
  PROVE  /\ pc = "eachGroup" /\ nth < Len(command.mergegroups) /\ nth' = nth + 1
         /\ UNCHANGED <<pc, opened, command, tid, broken>>
         /\ Readdressed(backup, backup')
BY GroupKeeps DEF MergeGroup, EditInv

LEMMA GroupsMergedEffect ==
  ASSUME EditInv, GroupsMerged
  PROVE  /\ pc = "eachGroup" /\ pc' = "deleteAttachments" /\ UNCHANGED <<opened, command, tid, nth, broken>>
         /\ Readdressed(backup, backup') /\ Counted(backup')
BY EntriesKeep DEF GroupsMerged, Step, EditInv
(* Attachments are deleted, not replaced, and the dates could be read.           *)
Deleting ==
  \E i \in DOMAIN command.deleteattachments :
     LET spec == command.deleteattachments[i]
     IN  ~ spec.replace /\ NoDate \notin {spec.before, spec.after}

(* No note is left of the message, and it was nothing but what is listed.        *)
GoesWith(m, spec) == /\ ~ spec.replace /\ spec.append = 0 /\ spec.prepend = 0
                     /\ m \in Unattached(backup, Listed(backup, spec))

LEMMA DeleteAttachmentsEffect ==
  ASSUME EditInv, deleteAttachments
  PROVE  /\ pc = "deleteAttachments" /\ pc' \in {"autofix", "done", "aborted"}
         /\ pc' = "autofix" => command.autofixfkc
         /\ UNCHANGED <<opened, command, tid, nth, broken>>
         /\ OpenedOk(backup')
         /\ command.deleteattachments # <<>> =>
              DOMAIN command.deleteattachments = {1} /\ StaysInPlace(backup, backup', command.deleteattachments[1])
         /\ \/ /\ ~ Deleting
               /\ \A u \in EditTables \ {"attachment"} : Rows(backup', u) = Rows(backup, u)
            \/ /\ command.deleteattachments # <<>> /\ Counted(backup')
               /\ FewerReferences(backup, backup') /\ NothingLoose(backup, backup')
               /\ Ids(backup', "message") \subseteq Ids(backup, "message")
               /\ \A m \in Ids(backup, "message") \ Ids(backup', "message") :
                    GoesWith(m, command.deleteattachments[1])
<1> DEFINE spec   == command.deleteattachments[1]
           result == IF command.deleteattachments # <<>> THEN DeleteAttachments(backup, spec)
                                                         ELSE [ok |-> TRUE, backup |-> backup]
           next   == IF command.autofixfkc THEN "autofix" ELSE "done"
<1>1. /\ pc = "deleteAttachments" /\ UNCHANGED <<opened, command, tid, nth, broken>>
      /\ backup' = result.backup
      /\ pc' = IF result.ok \/ command.force THEN next ELSE "aborted"
  BY DEF deleteAttachments, Try, Step
<1>2. backup' = result.backup /\ pc' \in {next, "aborted"}
  BY <1>1
<1>3. pc' \in {"autofix", "done", "aborted"} /\ (pc' = "autofix" => command.autofixfkc)
  BY <1>2
<1>4. OpenedOk(backup)
  BY DEF EditInv
<1>4a. command.deleteattachments # <<>> => DOMAIN command.deleteattachments = {1} /\ NotesOk(spec)
  BY DEF EditInv, CommandOk
<1>4b. ASSUME Rows(backup', "message") = Rows(backup, "message") PROVE StaysInPlace(backup, backup', spec)
  <2>1. \A m \in Ids(backup, "message") : Rows(backup, "message")[m].body \in Seq(Pieces)
    BY <1>4 DEF OpenedOk, RowsOk, MessageOk
  <2>2. \A m \in Ids(backup, "message") :
          LET row == Rows(backup, "message")[m]
          IN  Standing(row) => \A place \in {row.mention, row.range} : SameUnit(row, place, row, place)
    BY <2>1 DEF Standing, SameUnit
  <2> QED BY <1>4b, <2>2 DEF StaysInPlace, InPlace, Ids
<1>5. Deleting => /\ command.deleteattachments # <<>>
                  /\ ~ spec.replace /\ NoDate \notin {spec.before, spec.after}
  BY DEF EditInv, CommandOk, Deleting
<1>6. \/ backup' = backup /\ ~ Deleting
      \/ backup' = Replaced(backup, spec) /\ ~ Deleting
      \/ backup' = Deleted(backup, spec) /\ command.deleteattachments # <<>> /\ ~ spec.replace
  <2>1. CASE command.deleteattachments = <<>>
    BY <1>2, <1>5, <2>1
  <2>2. CASE command.deleteattachments # <<>>
    <3>1. backup' = DeleteAttachments(backup, spec).backup
      BY <1>2, <2>2
    <3>2. CASE NoDate \in {spec.before, spec.after}
      <4>1. DeleteAttachments(backup, spec).backup = backup
        BY <3>2 DEF DeleteAttachments
      <4> QED BY <1>5, <3>1, <3>2, <4>1
    <3>3. CASE NoDate \notin {spec.before, spec.after}
      <4>1. DeleteAttachments(backup, spec).backup =
              IF spec.replace THEN Replaced(backup, spec) ELSE Deleted(backup, spec)
        BY <3>3 DEF DeleteAttachments
      <4> QED BY <1>5, <2>2, <3>1, <4>1
    <3> QED BY <3>2, <3>3
  <2> QED BY <2>1, <2>2
<1> HIDE DEF spec, result, next
<1>7. CASE backup' = backup /\ ~ Deleting
  BY <1>1, <1>3, <1>4, <1>4a, <1>4b, <1>7 DEF spec
<1>8. CASE backup' = Replaced(backup, spec) /\ ~ Deleting
  <2>1. OpenedOk(backup') /\ \A u \in EditTables \ {"attachment"} : Rows(backup', u) = Rows(backup, u)
    BY <1>4, <1>8, ReplacedKeeps
  <2>2. StaysInPlace(backup, backup', spec)
    BY <1>4b, <2>1, TableNames
  <2> QED BY <1>1, <1>3, <1>4a, <1>8, <2>1, <2>2 DEF spec
<1>9. CASE backup' = Deleted(backup, spec) /\ command.deleteattachments # <<>> /\ ~ spec.replace
  <2>1. /\ OpenedOk(backup') /\ Counted(backup') /\ StaysInPlace(backup, backup', spec)
        /\ FewerReferences(backup, backup') /\ NothingLoose(backup, backup')
        /\ Ids(backup', "message") \subseteq Ids(backup, "message")
        /\ \A m \in Ids(backup, "message") \ Ids(backup', "message") :
             spec.append = 0 /\ spec.prepend = 0 /\ m \in Unattached(backup, Listed(backup, spec))
    BY <1>4, <1>4a, <1>9, DeletedKeeps
  <2>2. \A m \in Ids(backup, "message") \ Ids(backup', "message") : GoesWith(m, spec)
    BY <1>9, <2>1 DEF GoesWith
  <2> QED BY <1>1, <1>3, <1>4a, <1>9, <2>1, <2>2 DEF spec
<1> QED BY <1>6, <1>7, <1>8, <1>9

LEMMA AutofixEffect ==
  ASSUME EditInv, FindViolations \/ DeleteViolations
  PROVE  /\ pc = "autofix" /\ pc' \in {"autofix", "done"}
         /\ UNCHANGED <<opened, command, tid, nth>>
         /\ OpenedOk(backup') /\ broken' \subseteq ForeignKeys /\ (broken' # {} => pc' = "autofix")
<1>1. CASE FindViolations
  BY <1>1 DEF FindViolations, EditInv
<1>2. CASE DeleteViolations
  <2>1. PICK k \in broken :
          /\ backup' = WithRows(backup, k.table, Restrict(Rows(backup, k.table),
                                                 Ids(backup, k.table) \ Violations(backup, k)))
          /\ broken' = broken \ {k}
    BY <1>2 DEF DeleteViolations
  <2>2. k \in ForeignKeys /\ Violations(backup, k) \subseteq Ids(backup, k.table)
    BY DEF EditInv, Violations
  <2>3. OpenedOk(backup')
    BY <2>1, <2>2, ViolationsKeep DEF EditInv
  <2> QED BY <1>2, <2>1, <2>3 DEF DeleteViolations, EditInv
<1> QED BY <1>1, <1>2

LEMMA EditInvariance == EditInv /\ [Next]_vars => EditInv'
<1> SUFFICES ASSUME EditInv, [Next]_vars PROVE EditInv'
  OBVIOUS
<1>0. Len(command.mergegroups) \in Nat
  BY DEF EditInv, CommandOk
<1>1. CASE removeDoubles
  BY <1>1, RemoveDoublesEffect DEF EditInv
<1>2. CASE cropToDates
  BY <1>2, CropToDatesEffect DEF EditInv
<1>3. CASE cropToThread
  BY <1>3, CropToThreadEffect DEF EditInv
<1>4. CASE mergeRecipients
  BY <1>4, MergeRecipientsEffect DEF EditInv, Readdressed
<1>5. CASE mergeGroups
  <2>1. tid' \in Nat
    <3>1. \A r : getThreadIdFromRecipient(backup, r) \in Ids(backup, "thread") \cup {NULL}
      BY ThreadFound
    <3>2. Ids(backup, "thread") \cup {NULL} \subseteq Nat
      BY TableNames DEF EditInv, OpenedOk, TablesOk, NULL
    <3> QED BY <1>5, <3>1, <3>2 DEF mergeGroups, EditInv
  <2>2. /\ pc = "mergeGroups" /\ pc' \in {"eachGroup", "deleteAttachments"}
        /\ UNCHANGED <<backup, opened, command, nth, broken>>
    BY <1>5 DEF mergeGroups
  <2> QED BY <2>1, <2>2 DEF EditInv
<1>6. CASE MergeGroup
  <2>1. nth' \in 1 .. Len(command.mergegroups) + 1
    BY <1>0, <1>6, MergeGroupEffect DEF EditInv
  <2> QED BY <1>6, <2>1, MergeGroupEffect DEF EditInv, Readdressed
<1>7. CASE GroupsMerged
  BY <1>7, GroupsMergedEffect DEF EditInv, Readdressed
<1>8. CASE deleteAttachments
  BY <1>8, DeleteAttachmentsEffect DEF EditInv
<1>9. CASE FindViolations \/ DeleteViolations
  BY <1>9, AutofixEffect DEF EditInv
<1>10. CASE UNCHANGED vars
  BY <1>10 DEF vars, EditInv
<1> QED BY <1>1, <1>2, <1>3, <1>4, <1>5, <1>6, <1>7, <1>8, <1>9, <1>10 DEF Next

LEMMA EditInvariant == Spec => []EditInv
BY EditStart, EditInvariance, PTL DEF Spec

(* Whatever is opened and asked for, the tables stay numbered from 1 on, and main *)
(* goes through the operations with what they need.                               *)
THEOREM EditTypeCorrect == Spec => []EditTypeOK
<1>1. EditInv => EditTypeOK
  BY DEF EditInv, EditTypeOK, OpenedOk, TablesOk
<1> QED BY <1>1, EditInvariant, PTL

(* No data in memory is left without a row that says its size, and no preview of  *)
(* a link without the attachment it shows: whichever operations are carried out.  *)
THEOREM AttachmentsAlwaysMatch == Spec => []AttachmentsMatch
<1>1. EditInv => AttachmentsMatch
  <2> SUFFICES ASSUME EditInv PROVE AttachmentsMatch
    OBVIOUS
  <2>1. DataOk(backup)
    BY DEF EditInv, OpenedOk
  <2>2. \A m \in Ids(backup, "message") :
          Rows(backup, "message")[m].link_previews \in Ids(backup, "attachment") \cup {NULL}
    BY DEF EditInv, OpenedOk, PreviewsOk, FilesOf
  <2>3. \A r \in Contents(backup, "message") : r.link_previews \in Ids(backup, "attachment") \cup {NULL}
    BY <2>2 DEF Contents, Range, Ids
  <2> QED BY <2>1, <2>3 DEF AttachmentsMatch
<1> QED BY <1>1, EditInvariant, PTL
-----------------------------------------------------------------------------
(* The threads are counted from when they are cropped to until something is      *)
(* merged, and again from when merging or deleting is done.                      *)
CountInv ==
  /\ pc \in {"mergeRecipients", "mergeGroups"} =>
       (command.mergerecipients = <<>> /\ command.croptothreads # {} => Counted(backup))
  /\ pc = "eachGroup" => Len(command.mergegroups) >= 2
  /\ pc = "deleteAttachments" =>
       (\/ Len(command.mergegroups) >= 2
        \/ command.mergerecipients = <<>> /\ command.croptothreads # {}
        => Counted(backup))
  /\ CountsRight

LEMMA CountedAlike ==
  ASSUME NEW b, NEW c, Rows(c, "message") = Rows(b, "message"), Rows(c, "thread") = Rows(b, "thread"),
         Counted(b)
  PROVE  Counted(c)
BY DEF Counted, MessagesOf, Ids

LEMMA RefreshedByThen ==
  Refreshed => \/ Len(command.mergegroups) >= 2
               \/ Deleting
               \/ command.mergerecipients = <<>> /\ command.croptothreads # {}
BY DEF Refreshed, Deleting

LEMMA CountInvariance == EditInv /\ CountInv /\ [Next]_vars => CountInv'
<1> SUFFICES ASSUME EditInv, CountInv, [Next]_vars PROVE CountInv'
  OBVIOUS
<1>1. CASE removeDoubles
  BY <1>1, RemoveDoublesEffect DEF CountInv, CountsRight
<1>2. CASE cropToDates
  BY <1>2, CropToDatesEffect DEF CountInv, CountsRight
<1>3. CASE cropToThread
  BY <1>3, CropToThreadEffect DEF CountInv, CountsRight
<1>4. CASE mergeRecipients
  BY <1>4, MergeRecipientsEffect DEF CountInv, CountsRight
<1>5. CASE mergeGroups
  BY <1>5 DEF mergeGroups, CountInv, CountsRight
<1>6. CASE MergeGroup
  BY <1>6, MergeGroupEffect DEF CountInv, CountsRight
<1>7. CASE GroupsMerged
  BY <1>7, GroupsMergedEffect DEF CountInv, CountsRight
<1>8. CASE deleteAttachments
  <2>1. /\ pc = "deleteAttachments" /\ pc' \in {"autofix", "done", "aborted"}
        /\ UNCHANGED <<opened, command>>
    BY <1>8, DeleteAttachmentsEffect
  <2>2. Refreshed => Counted(backup')
    <3>1. CASE Counted(backup')
      BY <3>1
    <3>2. CASE ~ Deleting /\ \A u \in EditTables \ {"attachment"} : Rows(backup', u) = Rows(backup, u)
      <4>1. Refreshed => Counted(backup)
        BY <2>1, <3>2, RefreshedByThen DEF CountInv
      <4>2. Rows(backup', "message") = Rows(backup, "message") /\ Rows(backup', "thread") = Rows(backup, "thread")
        BY <3>2, TableNames
      <4> QED BY <4>1, <4>2, CountedAlike
    <3> QED BY <1>8, <3>1, <3>2, DeleteAttachmentsEffect
  <2>3. Refreshed' = Refreshed
    BY <2>1 DEF Refreshed
  <2> QED BY <2>1, <2>2, <2>3 DEF CountInv, CountsRight
<1>9. CASE FindViolations \/ DeleteViolations
  <2>1. pc' \in {"autofix", "done"} /\ command'.autofixfkc
    BY <1>9, AutofixEffect DEF EditInv
  <2>2. ~ Refreshed'
    BY <2>1 DEF Refreshed
  <2> QED BY <2>1, <2>2 DEF CountInv, CountsRight
<1>10. CASE UNCHANGED vars
  BY <1>10 DEF vars, CountInv, CountsRight, Refreshed
<1> QED BY <1>1, <1>2, <1>3, <1>4, <1>5, <1>6, <1>7, <1>8, <1>9, <1>10 DEF Next

(* What the thread table says of the messages is right in the end, in every       *)
(* combination of operations whose last one that moves or removes messages is one *)
(* that brings the threads up to date.                                           *)
THEOREM ThreadsCounted == Spec => []CountsRight
<1>1. Init => CountInv
  BY DEF Init, CountInv, CountsRight
<1>2. Spec => []CountInv
  BY <1>1, EditStart, EditInvariance, CountInvariance, PTL DEF Spec
<1>3. CountInv => CountsRight
  BY DEF CountInv
<1> QED BY <1>2, <1>3, PTL
-----------------------------------------------------------------------------
(* What the operations that clean up a backup delete, and what they leave whole:   *)
(* the autofix, in whichever order it goes through what it found, the cleaning     *)
(* after cropping, and removeDoubles.  Of merging: those merged by _id are gone,   *)
(* and the references between the tables hold, as an UPDATE that SQLite refuses    *)
(* leaves its table as it was, and what it would have moved must then still be in  *)
(* a thread, of a recipient, that is there.                                        *)

(* The rows of the tables a backup has, by table and _id: finitely many.            *)
LEMMA RowsOfTables ==
  ASSUME NEW b, DOMAIN b.d_database = EditTables
  PROVE  AllRows(b) = {row \in EditTables \X UNION {Ids(b, t) : t \in EditTables} : row[2] \in Ids(b, row[1])}
BY DEF AllRows

LEMMA FinitelyManyRows ==
  ASSUME NEW b, TablesOk(b)
  PROVE  IsFiniteSet(AllRows(b))
<1>1. IsFiniteSet(EditTables)
  <2>1. EditTables = {"thread"} \cup {"message"} \cup {"attachment"} \cup {"recipient"} \cup {"reaction"}
                       \cup {"group_membership"} \cup {"groups"}
    BY DEF EditTables, Tables
  <2>2. \A x : IsFiniteSet({x})
    BY FS_Singleton
  <2> QED BY <2>1, <2>2, FS_Union
<1>2. IsFiniteSet(UNION {Ids(b, t) : t \in EditTables})
  <2>1. \A t \in EditTables : IsFiniteSet(Ids(b, t))
    BY DEF TablesOk
  <2>2. UNION {Ids(b, t) : t \in EditTables} =
          Ids(b, "thread") \cup Ids(b, "message") \cup Ids(b, "attachment") \cup Ids(b, "recipient")
            \cup Ids(b, "reaction") \cup Ids(b, "group_membership") \cup Ids(b, "groups")
    BY DEF EditTables, Tables
  <2>3. \A S, T : IsFiniteSet(S) /\ IsFiniteSet(T) => IsFiniteSet(S \cup T)
    BY FS_Union
  <2>4. /\ IsFiniteSet(Ids(b, "thread")) /\ IsFiniteSet(Ids(b, "message"))
        /\ IsFiniteSet(Ids(b, "attachment")) /\ IsFiniteSet(Ids(b, "recipient"))
        /\ IsFiniteSet(Ids(b, "reaction")) /\ IsFiniteSet(Ids(b, "group_membership"))
        /\ IsFiniteSet(Ids(b, "groups"))
    BY <2>1, TableNames
  <2>5. IsFiniteSet(Ids(b, "thread") \cup Ids(b, "message") \cup Ids(b, "attachment") \cup Ids(b, "recipient")
            \cup Ids(b, "reaction") \cup Ids(b, "group_membership") \cup Ids(b, "groups"))
    BY ONLY <2>3, <2>4, Zenon
  <2> QED BY <2>2, <2>5, Zenon
<1> DEFINE ids == UNION {Ids(b, t) : t \in EditTables}
<1>3. IsFiniteSet(EditTables \X ids)
  BY <1>1, <1>2, FS_Product
<1>4. AllRows(b) \in SUBSET (EditTables \X ids)
  BY RowsOfTables DEF TablesOk
<1> QED BY <1>3, <1>4, FS_Subset

(* The doomed rows are the least set of rows that holds all that dangle without it. *)
LEMMA DoomedIsLeast ==
  ASSUME NEW b, TablesOk(b)
  PROVE  /\ Dangling(b, Doomed(b)) = Doomed(b)
         /\ \A gone \in SUBSET AllRows(b) : Dangling(b, gone) \subseteq gone => Doomed(b) \subseteq gone
<1> DEFINE U == AllRows(b)
           F == [gone \in SUBSET U |-> Dangling(b, gone)]
           lost == CHOOSE f : f = [n \in Nat |-> IF n = 0 THEN {} ELSE Dangling(b, f[n - 1])]
<1>1. \A gone : Dangling(b, gone) \in SUBSET U
  BY DEF Dangling
<1>2. F \in [SUBSET U -> SUBSET U]
  BY <1>1
<1>3. \A G, H \in SUBSET U : G \subseteq H => F[G] \subseteq F[H]
  BY DEF Dangling
<1>4. \A gone \in SUBSET U : F[gone] = Dangling(b, gone)
  OBVIOUS
<1>5. IsFiniteSet(U)
  BY FinitelyManyRows
<1>6. Doomed(b) = lost[Cardinality(U)]
  BY DEF Doomed
<1> HIDE DEF F, U
<1>7. PICK f \in [Nat -> SUBSET U] : Iterated(f, {}, F)
  <2>1. {} \in SUBSET U
    OBVIOUS
  <2> QED BY ONLY <2>1, <1>2, Iterates, Zenon
<1>8. lost \in [Nat -> SUBSET U] /\ Iterated(lost, {}, F)
  <2>1. ASSUME NEW n \in Nat PROVE f[n] = IF n = 0 THEN {} ELSE Dangling(b, f[n - 1])
    <3>1. CASE n # 0
      <4>1. n - 1 \in Nat /\ (n - 1) + 1 = n
        BY <3>1
      <4> QED BY <1>4, <1>7, <3>1, <4>1 DEF Iterated
    <3> QED BY <1>7, <3>1 DEF Iterated
  <2>2. f = [n \in Nat |-> IF n = 0 THEN {} ELSE Dangling(b, f[n - 1])]
    BY <2>1
  <2>3. lost = [n \in Nat |-> IF n = 0 THEN {} ELSE Dangling(b, lost[n - 1])]
    BY <2>2
  <2> HIDE DEF lost
  <2>4. ASSUME NEW n \in Nat PROVE lost[n] \in SUBSET U
    <3>1. lost[n] = IF n = 0 THEN {} ELSE Dangling(b, lost[n - 1])
      BY <2>3
    <3> QED BY <1>1, <3>1
  <2>5. lost[0] = {}
    BY <2>3
  <2>6. ASSUME NEW n \in Nat PROVE lost[n + 1] = F[lost[n]]
    <3>1. n + 1 \in Nat /\ n + 1 # 0 /\ (n + 1) - 1 = n
      OBVIOUS
    <3>2. lost[n + 1] = Dangling(b, lost[n])
      BY <2>3, <3>1
    <3> QED BY <1>4, <2>4, <3>2
  <2>7. lost \in [Nat -> SUBSET U]
    BY <2>3, <2>4
  <2> QED BY <2>5, <2>6, <2>7 DEF Iterated
<1> HIDE DEF lost
<1>9. LET D == lost[Cardinality(U)]
      IN  F[D] = D /\ \A G \in SUBSET U : F[G] \subseteq G => D \subseteq G
  BY ONLY <1>2, <1>3, <1>5, <1>8, LeastFixpoint
<1>10. lost[Cardinality(U)] \in SUBSET U
  BY <1>5, <1>8, FS_CardinalityType
<1> QED BY <1>4, <1>6, <1>9, <1>10 DEF U
-----------------------------------------------------------------------------
(* Rows were deleted, and none changed.                                           *)
FewerRows(b, c) == \A t \in EditTables : Some(Rows(c, t), Rows(b, t))

(* While only the autofix is asked for: nothing is changed before it, it deletes   *)
(* none but doomed rows, and ends when no reference is broken.                     *)
FixInv ==
  OnlyAutofix =>
    /\ pc \notin {"autofix", "done"} => backup = opened
    /\ pc # "eachGroup"
    /\ FewerRows(opened, backup)
    /\ AllRows(opened) \ AllRows(backup) \subseteq Doomed(opened)
    /\ pc = "done" => Holds(backup, ForeignKeys)

(* FixInv holds at first, and every step keeps it.                                 *)
LEMMA FixStart == Init => FixInv
BY DEF Init, FixInv, FewerRows, Some

(* Of two backups with the same columns, what refers in both to what is there.    *)
LEMMA ParentsLeft ==
  ASSUME NEW b, NEW c, DOMAIN b.d_database = EditTables, DOMAIN c.d_database = EditTables,
         FewerRows(b, c), NEW k \in ForeignKeys, NEW v, NEW i \in Parents(b, k, v),
         <<k.parent, i>> \in AllRows(c)
  PROVE  i \in Parents(c, k, v)
<1>1. k.parent \in EditTables /\ "groups" \in EditTables /\ (k.column = "group_id" => k.parent = "groups")
  BY TableNames DEF ForeignKeys, RevisionKeys, ForeignKey
<1>2. i \in Ids(c, k.parent)
  BY DEF AllRows
<1> QED BY <1>1, <1>2 DEF Parents, FewerRows, Some, Ids

(* The rows a key violates dangle once all else that was deleted is gone.         *)
LEMMA ViolationsDangle ==
  ASSUME NEW b, NEW c, DOMAIN b.d_database = EditTables, DOMAIN c.d_database = EditTables,
         FewerRows(b, c), NEW k \in ForeignKeys, NEW i \in Violations(c, k)
  PROVE  <<k.table, i>> \in Dangling(b, AllRows(b) \ AllRows(c))
<1> DEFINE v == Rows(b, k.table)[i][k.column]
<1>1. k.table \in EditTables /\ k.parent \in EditTables
  BY TableNames DEF ForeignKeys, RevisionKeys, ForeignKey
<1>2. /\ i \in Ids(c, k.table) /\ Rows(c, k.table)[i][k.column] = v
      /\ v # NULL /\ Parents(c, k, v) = {} /\ i \in Ids(b, k.table)
  BY <1>1 DEF Violations, FewerRows, Some, Ids
<1> HIDE DEF v
<1>3. ASSUME NEW j \in Parents(b, k, v) PROVE <<k.parent, j>> \in AllRows(b) \ AllRows(c)
  <2>1. <<k.parent, j>> \in AllRows(b)
    BY <1>1 DEF Parents, AllRows
  <2> QED BY <1>2, <2>1, ParentsLeft
<1>4. <<k.table, i>> \in AllRows(b)
  BY <1>1, <1>2 DEF AllRows
<1> QED BY <1>2, <1>3, <1>4 DEF Dangling, v

(* When nothing is violated, all that dangles has been deleted.                   *)
LEMMA NothingDangles ==
  ASSUME NEW b, NEW c, DOMAIN b.d_database = EditTables, DOMAIN c.d_database = EditTables,
         FewerRows(b, c), Holds(c, ForeignKeys)
  PROVE  Dangling(b, AllRows(b) \ AllRows(c)) \subseteq AllRows(b) \ AllRows(c)
<1> SUFFICES ASSUME NEW row \in Dangling(b, AllRows(b) \ AllRows(c)), row \in AllRows(c)
             PROVE  FALSE
  BY DEF Dangling
<1>1. PICK k \in ForeignKeys :
        /\ k.table = row[1] /\ Rows(b, k.table)[row[2]][k.column] # NULL
        /\ \A i \in Parents(b, k, Rows(b, k.table)[row[2]][k.column]) : <<k.parent, i>> \notin AllRows(c)
  BY DEF Dangling
<1> DEFINE v == Rows(b, k.table)[row[2]][k.column]
<1>2. k.table \in EditTables /\ k.parent \in EditTables /\ "groups" \in EditTables
      /\ (k.column = "group_id" => k.parent = "groups")
  BY TableNames DEF ForeignKeys, RevisionKeys, ForeignKey
<1>3. row[2] \in Ids(c, k.table) /\ Rows(c, k.table)[row[2]][k.column] = v
  BY <1>1, <1>2 DEF AllRows, FewerRows, Some, Ids
<1>4. v # NULL /\ \A i \in Parents(b, k, v) : <<k.parent, i>> \notin AllRows(c)
  BY <1>1
<1> HIDE DEF v
<1>5. PICK j : j \in Parents(c, k, v)
  BY <1>3, <1>4 DEF Holds, Violations
<1>6. j \in Parents(b, k, v) /\ <<k.parent, j>> \in AllRows(c)
  BY <1>2, <1>5 DEF Parents, FewerRows, Some, Ids, AllRows
<1> QED BY <1>4, <1>6

(* One round of the repair: the rows it deletes were doomed.                      *)
LEMMA DeletesDoomed ==
  ASSUME EditInv, OnlyAutofix, FixInv, NEW k \in ForeignKeys,
         backup' = WithRows(backup, k.table, Restrict(Rows(backup, k.table),
                                             Ids(backup, k.table) \ Violations(backup, k))),
         UNCHANGED opened
  PROVE  /\ FewerRows(opened, backup')
         /\ AllRows(opened) \ AllRows(backup') \subseteq Doomed(opened)
<1> DEFINE gone == AllRows(opened) \ AllRows(backup)
<1>1. /\ FewerRows(opened, backup) /\ gone \subseteq Doomed(opened)
      /\ TablesOk(opened) /\ DOMAIN opened.d_database = EditTables
      /\ Shape(backup) /\ DOMAIN backup.d_database = EditTables
  BY DEF FixInv, EditInv, OpenedOk, TablesOk, Shape
<1>2. k.table \in EditTables
  BY TableNames DEF ForeignKeys, RevisionKeys, ForeignKey
<1>3. /\ Shape(backup')
      /\ Rows(backup', k.table) = Restrict(Rows(backup, k.table), Ids(backup, k.table) \ Violations(backup, k))
      /\ \A u \in EditTables \ {k.table} : Rows(backup', u) = Rows(backup, u)
  BY <1>1, <1>2, RowsPlaced
<1>4. FewerRows(opened, backup')
  <2>1. Some(Rows(backup', k.table), Rows(backup, k.table))
    BY <1>3 DEF Some, Restrict, Ids
  <2> QED BY <1>1, <1>3, <2>1 DEF FewerRows, Some
<1>5. ASSUME NEW row \in AllRows(opened) \ AllRows(backup'), row \notin gone
      PROVE  row \in Doomed(opened)
  <2>1. row \in AllRows(backup)
    BY <1>5
  <2>2. PICK t \in EditTables : \E i \in Ids(backup, t) : row = <<t, i>>
    BY <1>1, <2>1 DEF AllRows
  <2>3. PICK i \in Ids(backup, t) : row = <<t, i>>
    BY <2>2
  <2>4. i \notin Ids(backup', t)
    BY <1>3, <1>5, <2>3 DEF AllRows, Shape
  <2>5. t = k.table /\ i \in Violations(backup, k)
    BY <1>3, <2>4 DEF Restrict, Ids
  <2>6. row \in Dangling(opened, gone)
    BY <1>1, <2>3, <2>5, ViolationsDangle
  <2>7. Dangling(opened, gone) \subseteq Dangling(opened, Doomed(opened))
    BY <1>1 DEF Dangling
  <2> QED BY <1>1, <2>6, <2>7, DoomedIsLeast
<1> QED BY <1>1, <1>4, <1>5

LEMMA FixInvariance == EditInv /\ FixInv /\ [Next]_vars => FixInv'
<1> SUFFICES ASSUME EditInv, FixInv, [Next]_vars, OnlyAutofix' PROVE FixInv'
  BY DEF FixInv
<1>1. OnlyAutofix /\ UNCHANGED <<opened, command>>
  <2>1. UNCHANGED <<opened, command>>
    BY DEF Next, vars, removeDoubles, cropToDates, cropToThread, mergeRecipients, mergeGroups, MergeGroup,
           GroupsMerged, deleteAttachments, FindViolations, DeleteViolations, Step, Try
  <2> QED BY <2>1 DEF OnlyAutofix
<1>2. /\ pc \notin {"autofix", "done"} => backup = opened
      /\ pc # "eachGroup" /\ FewerRows(opened, backup)
      /\ AllRows(opened) \ AllRows(backup) \subseteq Doomed(opened)
      /\ pc = "done" => Holds(backup, ForeignKeys)
  BY <1>1 DEF FixInv
<1>3. CASE /\ pc \notin {"autofix", "done"} /\ pc' \notin {"eachGroup", "done"} /\ backup' = backup
  BY <1>1, <1>2, <1>3 DEF FixInv
<1>4. CASE removeDoubles
  <2>1. ~ command.removedoubles >= 0
    BY <1>1 DEF OnlyAutofix, EditInv, CommandOk
  <2> QED BY <1>3, <1>4, <2>1 DEF removeDoubles, Step
<1>5. CASE cropToDates
  BY <1>1, <1>3, <1>5 DEF cropToDates, Step, OnlyAutofix
<1>6. CASE cropToThread
  BY <1>1, <1>3, <1>6 DEF cropToThread, Step, OnlyAutofix
<1>7. CASE mergeRecipients
  BY <1>1, <1>3, <1>7 DEF mergeRecipients, Try, Step, OnlyAutofix
<1>8. CASE mergeGroups
  BY <1>1, <1>3, <1>8 DEF mergeGroups, OnlyAutofix
<1>9. CASE MergeGroup \/ GroupsMerged
  BY <1>2, <1>9 DEF MergeGroup, GroupsMerged, Step
<1>10. CASE deleteAttachments
  BY <1>1, <1>3, <1>10 DEF deleteAttachments, Try, Step, OnlyAutofix
<1>11. CASE FindViolations
  <2>1. pc' = "done" => Holds(backup, ForeignKeys)
    BY <1>11 DEF FindViolations, Holds
  <2>2. UNCHANGED <<backup, opened>> /\ pc' \in {"autofix", "done"}
    BY <1>11 DEF FindViolations
  <2> QED BY <1>2, <2>1, <2>2 DEF FixInv
<1>12. CASE DeleteViolations
  <2>1. PICK k \in ForeignKeys :
          backup' = WithRows(backup, k.table, Restrict(Rows(backup, k.table),
                                             Ids(backup, k.table) \ Violations(backup, k)))
    BY <1>12 DEF DeleteViolations, EditInv
  <2>2. FewerRows(opened, backup') /\ AllRows(opened) \ AllRows(backup') \subseteq Doomed(opened)
    BY <1>1, <2>1, DeletesDoomed
  <2>3. pc = "autofix" /\ pc' = "autofix"
    BY <1>12 DEF DeleteViolations
  <2> QED BY <1>1, <2>2, <2>3 DEF FixInv
<1>13. CASE UNCHANGED vars
  BY <1>2, <1>13 DEF vars, FixInv
<1> QED BY <1>4, <1>5, <1>6, <1>7, <1>8, <1>9, <1>10, <1>11, <1>12, <1>13 DEF Next

(* fixForeignKeyConstraintViolations: whichever keys it comes to first, of any     *)
(* backup, the rows that are gone in the end are the doomed ones, all and no other. *)
THEOREM RepairIsExact == Spec => []FixedExactly
<1>1. EditInv /\ FixInv => FixedExactly
  <2> SUFFICES ASSUME EditInv, FixInv, pc = "done", OnlyAutofix
               PROVE  AllRows(backup) = AllRows(opened) \ Doomed(opened)
    BY DEF FixedExactly
  <2> DEFINE gone == AllRows(opened) \ AllRows(backup)
  <2>1. /\ FewerRows(opened, backup) /\ gone \subseteq Doomed(opened) /\ Holds(backup, ForeignKeys)
        /\ TablesOk(opened) /\ DOMAIN opened.d_database = EditTables /\ DOMAIN backup.d_database = EditTables
    BY DEF FixInv, EditInv, OpenedOk, TablesOk
  <2>2. Doomed(opened) \subseteq gone
    BY <2>1, NothingDangles, DoomedIsLeast
  <2>3. AllRows(backup) \subseteq AllRows(opened)
    BY <2>1 DEF AllRows, FewerRows, Some, Ids
  <2> QED BY <2>1, <2>2, <2>3
<1>2. Spec => []FixInv
  BY EditInvariant, FixStart, FixInvariance, PTL DEF Spec
<1> QED BY <1>1, <1>2, EditInvariant, PTL
-----------------------------------------------------------------------------
(* Names that are found in the smaller backup as they were in the larger one.     *)
LEMMA NameKept ==
  ASSUME NEW b, NEW c, NEW t, NEW i, Some(Rows(c, t), Rows(b, t)),
         i \in Ids(b, t) => i \in Ids(c, t)
  PROVE  Name(c, t, i) = Name(b, t, i)
<1>1. CASE i = NULL
  BY <1>1 DEF Name
<1>2. CASE i # NULL /\ i \in Ids(b, t)
  BY <1>2 DEF Name, Some, Ids
<1>3. CASE i # NULL /\ i \notin Ids(b, t)
  BY <1>3 DEF Name, Some, Ids
<1> QED BY <1>1, <1>2, <1>3

(* Who a message, a reaction, a membership or a thread refers to.                  *)
LEMMA Referenced ==
  ASSUME NEW c
  PROVE  /\ \A x \in Contents(c, "message") :
               {x.from_recipient_id, x.to_recipient_id, x.quote_author} \subseteq ReferencedRecipients(c)
         /\ \A x \in Contents(c, "reaction") : x.author_id \in ReferencedRecipients(c)
         /\ \A x \in Contents(c, "group_membership") : x.recipient_id \in ReferencedRecipients(c)
         /\ \A x \in Contents(c, "thread") : x.recipient_id \in ReferencedRecipients(c)
<1> DEFINE speaking == UNION {{m.from_recipient_id, m.to_recipient_id, m.quote_author} : m \in Contents(c, "message")}
           reacting == {r.author_id : r \in Contents(c, "reaction")}
           members  == {m.recipient_id : m \in Contents(c, "group_membership")}
           chats    == {t.recipient_id : t \in Contents(c, "thread")}
<1>1. \A x \in Contents(c, "message") : {x.from_recipient_id, x.to_recipient_id, x.quote_author} \subseteq speaking
  OBVIOUS
<1>2. \A x \in Contents(c, "reaction") : x.author_id \in reacting
  OBVIOUS
<1>3. \A x \in Contents(c, "group_membership") : x.recipient_id \in members
  OBVIOUS
<1>4. \A x \in Contents(c, "thread") : x.recipient_id \in chats
  OBVIOUS
<1>5. ReferencedRecipients(c) = speaking \cup reacting \cup members \cup chats
  BY DEF ReferencedRecipients
<1> HIDE DEF speaking, reacting, members, chats
<1> QED BY <1>1, <1>2, <1>3, <1>4, <1>5

(* A message that is left says what it said, when its thread is there and          *)
(* pictures are of recipients.                                                    *)
LEMMA SaysTheSame ==
  ASSUME NEW b, OpenedOk(b), Placed(b), NEW c, OnlyFewer(b, c), NEW m \in Ids(c, "message")
  PROVE  Says(c, m) = Says(b, m)
<1> DEFINE row == Rows(b, "message")[m]
           now == Rows(c, "message")[m]
           t   == Rows(b, "thread")[row.thread_id]
           u   == Rows(c, "thread")[now.thread_id]
           Group(d, r) == {g.group_id : g \in {h \in Contents(d, "groups") : h.recipient_id = r}}
           Present(d)  == {x \in Contents(d, "group_membership") : x.group_id \in Group(d, t.recipient_id)}
           Reacted(d)  == {x \in Contents(d, "reaction") : x.message_id = m}
           people == {row.from_recipient_id, row.to_recipient_id, row.quote_author, t.recipient_id}
<1>1. /\ now.body = row.body /\ now.date_sent = row.date_sent /\ now.date_received = row.date_received
      /\ now.thread_id = row.thread_id /\ now.link_previews = row.link_previews
      /\ now.from_recipient_id = row.from_recipient_id /\ now.to_recipient_id = row.to_recipient_id
      /\ now.quote_author = row.quote_author
  BY DEF OnlyFewer, SameMessage, MessageColumns
<1>2. m \in Ids(b, "message") /\ row \in Contents(b, "message") /\ now \in Contents(c, "message")
  BY DEF OnlyFewer, Contents, Range, Ids
<1>3. row.thread_id \in Ids(b, "thread") /\ row.thread_id \in Ids(c, "thread") /\ u.recipient_id = t.recipient_id
  BY <1>1, <1>2 DEF Placed, OnlyFewer
<1>4. t \in Contents(b, "thread") /\ u \in Contents(c, "thread")
  BY <1>1, <1>3 DEF Contents, Range, Ids
<1>5. \A k \in {"reaction", "groups", "group_membership", "recipient", "attachment"} : Some(Rows(c, k), Rows(b, k))
  BY DEF OnlyFewer, BelongingsStay
<1>6. \A r \in ReferencedRecipients(c) : Name(c, "recipient", r) = Name(b, "recipient", r)
  BY <1>5, NameKept DEF OnlyFewer
<1>7. people \subseteq ReferencedRecipients(c)
  <2>1. {now.from_recipient_id, now.to_recipient_id, now.quote_author} \subseteq ReferencedRecipients(c)
    BY <1>2, Referenced
  <2>2. u.recipient_id \in ReferencedRecipients(c)
    BY <1>4, Referenced
  <2> QED BY <1>1, <1>3, <2>1, <2>2
<1>8. FilesOf(c, m) = FilesOf(b, m) /\ FilesOf(b, m) \subseteq Ids(c, "attachment")
  BY <1>5 DEF OnlyFewer, FilesOf, Some, Ids
<1>9. Name(c, "attachment", row.link_previews) = Name(b, "attachment", row.link_previews)
  <2>1. row.link_previews \in FilesOf(b, m) \cup {NULL}
    BY <1>2 DEF OpenedOk, PreviewsOk
  <2>2. CASE row.link_previews = NULL
    BY <2>2 DEF Name
  <2>3. CASE row.link_previews \in FilesOf(b, m)
    BY <1>5, <1>8, <2>3, NameKept
  <2> QED BY <2>1, <2>2, <2>3
<1>10. \A a \in FilesOf(b, m) : /\ Rows(c, "attachment")[a] = Rows(b, "attachment")[a]
                                /\ a \in DOMAIN c.d_attachments <=> a \in DOMAIN b.d_attachments
  BY <1>5, <1>8 DEF OnlyFewer, Some, Ids
<1>11. Reacted(c) = Reacted(b)
  <2>1. ASSUME NEW x \in Reacted(c) PROVE x \in Reacted(b)
    BY <1>5, <2>1 DEF Contents, Range, Some
  <2>2. ASSUME NEW x \in Reacted(b) PROVE x \in Reacted(c)
    <3>1. PICK r \in Ids(b, "reaction") : x = Rows(b, "reaction")[r]
      BY <2>2 DEF Contents, Range, Ids
    <3>2. r \in Ids(c, "reaction")
      BY <2>2, <3>1 DEF OnlyFewer, BelongingsStay
    <3>3. Rows(c, "reaction")[r] = x
      BY <1>5, <3>1, <3>2 DEF Some, Ids
    <3> QED BY <2>2, <3>2, <3>3 DEF Contents, Range, Ids
  <2> QED BY <2>1, <2>2
<1>12. Group(c, t.recipient_id) = Group(b, t.recipient_id)
  <2>1. ASSUME NEW h \in Contents(c, "groups") PROVE h \in Contents(b, "groups")
    BY <1>5, <2>1 DEF Contents, Range, Some
  <2>2. ASSUME NEW h \in Contents(b, "groups"), h.recipient_id = t.recipient_id
        PROVE  h \in Contents(c, "groups")
    <3>1. PICK g \in Ids(b, "groups") : h = Rows(b, "groups")[g]
      BY <2>2 DEF Contents, Range, Ids
    <3>2. g \in Ids(c, "groups")
      BY <1>3, <2>2, <3>1 DEF OnlyFewer, BelongingsStay
    <3>3. Rows(c, "groups")[g] = h
      BY <1>5, <3>1, <3>2 DEF Some, Ids
    <3> QED BY <3>2, <3>3 DEF Contents, Range, Ids
  <2> QED BY <2>1, <2>2
<1>13. Present(c) = Present(b)
  <2>1. ASSUME NEW x \in Present(c) PROVE x \in Present(b)
    <3>1. x \in Contents(b, "group_membership")
      BY <1>5, <2>1 DEF Contents, Range, Some
    <3> QED BY <1>12, <2>1, <3>1
  <2>2. ASSUME NEW x \in Present(b) PROVE x \in Present(c)
    <3>1. PICK k \in Ids(b, "group_membership") : x = Rows(b, "group_membership")[k]
      BY <2>2 DEF Contents, Range, Ids
    <3>2. PICK h \in Contents(b, "groups") : h.recipient_id = t.recipient_id /\ h.group_id = x.group_id
      BY <2>2
    <3>3. PICK g \in Ids(b, "groups") : h = Rows(b, "groups")[g]
      BY <3>2 DEF Contents, Range, Ids
    <3>4. g \in Ids(c, "groups")
      BY <1>3, <3>2, <3>3 DEF OnlyFewer, BelongingsStay
    <3>5. k \in Ids(c, "group_membership")
      BY <3>1, <3>2, <3>3, <3>4 DEF OnlyFewer, BelongingsStay
    <3>6. Rows(c, "group_membership")[k] = x
      BY <1>5, <3>1, <3>5 DEF Some, Ids
    <3>7. x \in Contents(c, "group_membership")
      BY <3>5, <3>6 DEF Contents, Range, Ids
    <3> QED BY <1>12, <2>2, <3>7
  <2> QED BY <2>1, <2>2
<1>14. \A x \in Reacted(c) : x.author_id \in ReferencedRecipients(c)
  BY Referenced
<1>15. \A x \in Present(c) : x.recipient_id \in ReferencedRecipients(c)
  BY Referenced
<1>16. {a \in c.d_avatars : a.recipient \in people} = {a \in b.d_avatars : a.recipient \in people}
  <2>1. \A a \in b.d_avatars : a.recipient \in Ids(b, "recipient")
    BY DEF Placed
  <2>2. \A a \in b.d_avatars : a.recipient \in people => a.recipient \in Ids(c, "recipient")
    BY <1>7, <2>1 DEF OnlyFewer
  <2> QED BY <2>2 DEF OnlyFewer
<1> DEFINE S(d, th, r) ==
        [text      |-> r.body, dates |-> <<r.date_sent, r.date_received>>,
         chat      |-> Name(d, "recipient", th.recipient_id),
         from      |-> Name(d, "recipient", r.from_recipient_id),
         to        |-> Name(d, "recipient", r.to_recipient_id),
         quotes    |-> Name(d, "recipient", r.quote_author),
         preview   |-> Name(d, "attachment", r.link_previews),
         files     |-> {<<Rows(d, "attachment")[a].who, a \in DOMAIN d.d_attachments>> : a \in FilesOf(d, m)},
         reactions |-> {Name(d, "recipient", x.author_id) : x \in Reacted(d)},
         members   |-> {Name(d, "recipient", x.recipient_id) : x \in Present(d)},
         pictures  |-> {a.picture : a \in {x \in d.d_avatars : x.recipient \in people}}]
<1>17. Says(b, m) = S(b, t, row)
  BY DEF Says
<1>18. Says(c, m) = S(c, u, now)
  BY <1>1, <1>3 DEF Says
<1> HIDE DEF row, now, t, u, people
<1>19. {<<Rows(c, "attachment")[a].who, a \in DOMAIN c.d_attachments>> : a \in FilesOf(c, m)}
         = {<<Rows(b, "attachment")[a].who, a \in DOMAIN b.d_attachments>> : a \in FilesOf(b, m)}
  BY <1>8, <1>10
<1>20. {Name(c, "recipient", x.author_id) : x \in Reacted(c)} = {Name(b, "recipient", x.author_id) : x \in Reacted(b)}
  <2> HIDE DEF Reacted
  <2> QED BY <1>6, <1>11, <1>14
<1>21. {Name(c, "recipient", x.recipient_id) : x \in Present(c)}
         = {Name(b, "recipient", x.recipient_id) : x \in Present(b)}
  <2> HIDE DEF Present
  <2> QED BY <1>6, <1>13, <1>15
<1>22. /\ Name(c, "recipient", u.recipient_id) = Name(b, "recipient", t.recipient_id)
       /\ Name(c, "recipient", now.from_recipient_id) = Name(b, "recipient", row.from_recipient_id)
       /\ Name(c, "recipient", now.to_recipient_id) = Name(b, "recipient", row.to_recipient_id)
       /\ Name(c, "recipient", now.quote_author) = Name(b, "recipient", row.quote_author)
  BY <1>1, <1>3, <1>6, <1>7 DEF people
<1> HIDE DEF Reacted, Present
<1>23. S(c, u, now) = S(b, t, row)
  BY <1>1, <1>9, <1>16, <1>19, <1>20, <1>21, <1>22
<1> QED BY <1>17, <1>18, <1>23

(* What is left of a backup in order is in order.                                 *)
LEMMA PlacedStill ==
  ASSUME NEW b, Placed(b), NEW c, OnlyFewer(b, c)
  PROVE  Placed(c)
<1>1. ASSUME NEW r \in Contents(c, "message") PROVE r.thread_id \in Ids(c, "thread")
  <2>1. PICK m \in Ids(c, "message") : r = Rows(c, "message")[m]
    BY DEF Contents, Range, Ids
  <2>2. r.thread_id = Rows(b, "message")[m].thread_id /\ m \in Ids(b, "message")
    BY <2>1 DEF OnlyFewer, SameMessage, MessageColumns
  <2>3. r.thread_id \in Ids(b, "thread")
    BY <2>2 DEF Placed, Contents, Range, Ids
  <2> QED BY <2>1, <2>3 DEF OnlyFewer
<1>2. ASSUME NEW a \in c.d_avatars PROVE a.recipient \in Ids(c, "recipient")
  BY DEF Placed, OnlyFewer
<1> QED BY <1>1, <1>2 DEF Placed

(* Until recipients are merged, messages stay in threads.                         *)
PlacedInv ==
  pc \in {"removeDoubles", "cropToDates", "cropToThread"} => (Placed(opened) => Placed(backup))

Fewer == backup' = backup \/ OnlyFewer(backup, backup')

LEMMA EarlySteps ==
  EditInv /\ [Next]_vars =>
    /\ UNCHANGED opened
    /\ pc \in {"removeDoubles", "cropToDates", "cropToThread"} => Fewer
    /\ pc' \in {"removeDoubles", "cropToDates", "cropToThread"}
         => pc \in {"removeDoubles", "cropToDates", "cropToThread"}
<1> SUFFICES ASSUME EditInv, [Next]_vars
             PROVE  /\ UNCHANGED opened
                    /\ pc \in {"removeDoubles", "cropToDates", "cropToThread"} => Fewer
                    /\ pc' \in {"removeDoubles", "cropToDates", "cropToThread"}
                         => pc \in {"removeDoubles", "cropToDates", "cropToThread"}
  OBVIOUS
<1>1. CASE removeDoubles
  BY <1>1, RemoveDoublesEffect DEF Fewer
<1>2. CASE cropToDates
  BY <1>2, CropToDatesEffect DEF Fewer
<1>3. CASE cropToThread
  BY <1>3, CropToThreadEffect DEF Fewer
<1>4. CASE mergeRecipients
  BY <1>4, MergeRecipientsEffect
<1>5. CASE mergeGroups
  BY <1>5 DEF mergeGroups
<1>6. CASE MergeGroup \/ GroupsMerged
  BY <1>6, MergeGroupEffect, GroupsMergedEffect
<1>7. CASE deleteAttachments
  BY <1>7, DeleteAttachmentsEffect
<1>8. CASE FindViolations \/ DeleteViolations
  BY <1>8, AutofixEffect
<1>9. CASE UNCHANGED vars
  BY <1>9 DEF vars, Fewer
<1> QED BY <1>1, <1>2, <1>3, <1>4, <1>5, <1>6, <1>7, <1>8, <1>9 DEF Next

(* cleanDatabaseByMessages and the shorter cleaning of removeDoubles: of a message *)
(* that stays, neither takes anything away, whatever else refers to whom.          *)
THEOREM KeptStaysWhole == Spec => KeptIsWhole
<1>1. Init => PlacedInv
  BY DEF Init, PlacedInv
<1>2. EditInv /\ PlacedInv /\ [Next]_vars => PlacedInv'
  <2> SUFFICES ASSUME EditInv, PlacedInv, [Next]_vars PROVE PlacedInv'
    OBVIOUS
  <2>1. Placed(opened)' = Placed(opened)
    BY EarlySteps DEF Placed
  <2> QED BY <2>1, EarlySteps, PlacedStill DEF PlacedInv, Fewer
<1>3. Spec => []PlacedInv
  BY <1>1, <1>2, EditStart, EditInvariance, PTL DEF Spec
<1>4. EditInv /\ PlacedInv /\ [Next]_vars =>
        [Placed(opened) /\ pc \in {"removeDoubles", "cropToDates", "cropToThread"} =>
           \A m \in Ids(backup', "message") : Says(backup', m) = Says(backup, m)]_vars
  <2> SUFFICES ASSUME EditInv, PlacedInv, Next, Placed(opened),
                      pc \in {"removeDoubles", "cropToDates", "cropToThread"},
                      NEW m \in Ids(backup', "message")
               PROVE  Says(backup', m) = Says(backup, m)
    OBVIOUS
  <2>1. CASE backup' = backup
    BY <2>1
  <2>2. CASE OnlyFewer(backup, backup')
    BY <2>2, SaysTheSame DEF PlacedInv, EditInv
  <2> QED BY <2>1, <2>2, EarlySteps DEF Fewer
<1> QED BY <1>3, <1>4, EditInvariant, PTL DEF Spec, KeptIsWhole
-----------------------------------------------------------------------------
(* Being alike is passed on, and a message that is left is alike to the same ones. *)
LEMMA AlikeThrough ==
  ASSUME NEW b, NEW l, NEW m, NEW n, Alike(b, l, m), Alike(b, m, n)
  PROVE  Alike(b, l, n)
BY DEF Alike

LEMMA AlikeBefore ==
  ASSUME NEW b, NEW c, OnlyFewer(b, c), Rows(c, "thread") = Rows(b, "thread"),
         NEW m \in Ids(c, "message"), NEW n \in Ids(c, "message"), Alike(c, m, n)
  PROVE  Alike(b, m, n)
<1>1. \A i \in {m, n} : /\ Rows(c, "message")[i].thread_id = Rows(b, "message")[i].thread_id
                        /\ Rows(c, "message")[i].from_recipient_id = Rows(b, "message")[i].from_recipient_id
                        /\ Rows(c, "message")[i].body = Rows(b, "message")[i].body
  BY DEF OnlyFewer, SameMessage, MessageColumns
<1>2. \A i \in {m, n} : FilesOf(c, i) = FilesOf(b, i) /\ Size(c, i) = Size(b, i)
  <2> SUFFICES ASSUME NEW i \in {m, n} PROVE FilesOf(c, i) = FilesOf(b, i) /\ Size(c, i) = Size(b, i)
    OBVIOUS
  <2>1. FilesOf(c, i) = FilesOf(b, i) /\ FilesOf(b, i) \subseteq Ids(c, "attachment")
    BY DEF OnlyFewer, FilesOf, Some, Ids
  <2>2. \A a \in FilesOf(b, i) : Rows(c, "attachment")[a].data_size = Rows(b, "attachment")[a].data_size
    BY <2>1 DEF OnlyFewer, Some, Ids
  <2>3. [a \in FilesOf(c, i) |-> Rows(c, "attachment")[a].data_size]
          = [a \in FilesOf(b, i) |-> Rows(b, "attachment")[a].data_size]
    BY <2>1, <2>2
  <2> QED BY <2>1, <2>3 DEF Size
<1> QED BY <1>1, <1>2 DEF Alike, Ids

(* removeDoubles: of the messages that say the same the last one stays, unless it  *)
(* is a revision; and no two that say the same at about the same time stay.        *)
THEOREM OneOfDoublesStays == Spec => OneCopyStays
<1> DEFINE revision(m) == Rows(backup, "message")[m].latest_revision_id # NULL
           left == Ids(backup', "message")
           all  == Ids(backup, "message")
           doubles == Doubles(backup, command.removedoubles)
<1>1. ASSUME EditInv, removeDoubles, command.removedoubles >= 0, NEW m \in all \ left, ~ revision(m)
      PROVE  \E n \in all : m < n /\ Alike(backup, m, n) /\ (n \in left \/ revision(n))
  <2>1. left = {i \in all \ doubles : Rows(backup, "message")[i].latest_revision_id \in (all \ doubles) \cup {NULL}}
    BY <1>1, RemoveDoublesEffect
  <2>2. m \in doubles
    BY <1>1, <2>1
  <2> DEFINE later == {n \in all : m < n /\ Alike(backup, m, n)}
  <2>3. later # {}
    BY <2>2 DEF Doubles
  <2>4. IsFiniteSet(all) /\ all \subseteq Nat
    BY <1>1, TableNames DEF EditInv, OpenedOk, TablesOk
  <2>5. PICK n \in later : \A i \in later : i <= n
    <3>1. IsFiniteSet(later) /\ later \subseteq Nat
      BY <2>4, FS_Subset
    <3> HIDE DEF later
    <3> QED BY <2>3, <3>1, GreatestElement
  <2>6. n \notin doubles
    <3> SUFFICES ASSUME n \in doubles PROVE FALSE
      OBVIOUS
    <3>1. PICK i \in all : n < i /\ Alike(backup, n, i)
      BY DEF Doubles
    <3>2. i \in later
      BY <2>4, <2>5, <3>1, AlikeThrough
    <3> QED BY <2>4, <2>5, <3>1, <3>2
  <2> QED BY <2>1, <2>5, <2>6
<1>2. ASSUME EditInv, removeDoubles, command.removedoubles >= 0, NEW m \in left, NEW n \in left, m < n,
             Near(backup', m, n, command.removedoubles)
      PROVE  ~ Alike(backup', m, n)
  <2> SUFFICES ASSUME Alike(backup', m, n) PROVE FALSE
    OBVIOUS
  <2>1. /\ left = {i \in all \ doubles : Rows(backup, "message")[i].latest_revision_id \in (all \ doubles) \cup {NULL}}
        /\ OnlyFewer(backup, backup') /\ Rows(backup', "thread") = Rows(backup, "thread")
    BY <1>2, RemoveDoublesEffect
  <2>2. Alike(backup, m, n)
    BY <2>1, AlikeBefore
  <2>3. Near(backup, m, n, command.removedoubles)
    BY <1>2, <2>1 DEF Near, OnlyFewer, SameMessage, MessageColumns
  <2>4. m \in doubles
    BY <1>2, <2>1, <2>2, <2>3 DEF Doubles
  <2> QED BY <2>1, <2>4
<1>3. EditInv /\ [Next]_vars =>
        [pc = "removeDoubles" /\ command.removedoubles >= 0 =>
           /\ \A m \in all \ left : 
                \/ revision(m)
                \/ \E n \in all : m < n /\ Alike(backup, m, n) /\ (n \in left \/ revision(n))
           /\ \A m, n \in left : m < n /\ Near(backup', m, n, command.removedoubles)
                                    => ~ Alike(backup', m, n)]_vars
  <2>1. ASSUME EditInv, Next, pc = "removeDoubles" PROVE removeDoubles
    BY <2>1 DEF Next, Step, Try, cropToDates, cropToThread, mergeRecipients, mergeGroups,
           MergeGroup, GroupsMerged, deleteAttachments, FindViolations, DeleteViolations
  <2> HIDE DEF revision, left, all
  <2> QED BY <1>1, <1>2, <2>1
<1> QED BY <1>3, EditInvariant, PTL DEF Spec, OneCopyStays
-----------------------------------------------------------------------------
(* Merging *)

(* Who is left when each, in their order, goes that one left before is at odds with. *)
Greedy(A, D, R, n) == \A i \in D : i < n => (i \in A <=> ~ \E h \in A : h < i /\ <<h, i>> \in R)

Survive(A, D, R) == \A i \in D : i \in A <=> ~ \E h \in A : h < i /\ <<h, i>> \in R

(* Among finitely many numbers there is such a choice.                           *)
LEMMA GreedyChoice ==
  ASSUME NEW D, D \subseteq Nat, IsFiniteSet(D), NEW R
  PROVE  \E A \in SUBSET D : Survive(A, D, R)
<1> DEFINE P == {n \in Nat : \E A \in SUBSET D : Greedy(A, D, R, n)}
<1>1. 0 \in P
  <2>1. Greedy({}, D, R, 0)
    BY DEF Greedy
  <2> QED BY <2>1
<1>2. ASSUME NEW n \in Nat, n \in P PROVE n + 1 \in P
  <2>1. PICK A \in SUBSET D : Greedy(A, D, R, n)
    BY <1>2
  <2> DEFINE B == {i \in D : IF i = n THEN ~ \E h \in A : h < n /\ <<h, n>> \in R ELSE i \in A}
  <2>2. \A h \in D : h < n => (h \in B <=> h \in A)
    OBVIOUS
  <2>3. \A i \in D : i < n + 1 => i < n \/ i = n
    OBVIOUS
  <2>4. n \in D => (n \in B <=> ~ \E h \in A : h < n /\ <<h, n>> \in R)
    OBVIOUS
  <2>5. \A i \in D : i < n => \A h \in D : h < i => h < n
    OBVIOUS
  <2>6. B \subseteq D
    OBVIOUS
  <2> HIDE DEF B
  <2>7. ASSUME NEW i \in D, i < n PROVE i \in B <=> ~ \E h \in B : h < i /\ <<h, i>> \in R
    <3>1. i \in A <=> ~ \E h \in A : h < i /\ <<h, i>> \in R
      BY <2>1, <2>7 DEF Greedy
    <3>2. \A h \in D : h < i => (h \in B <=> h \in A)
      BY <2>2, <2>5, <2>7
    <3> QED BY <2>2, <2>6, <2>7, <3>1, <3>2
  <2>8. n \in D => (n \in B <=> ~ \E h \in B : h < n /\ <<h, n>> \in R)
    BY <2>2, <2>4, <2>6
  <2>9. Greedy(B, D, R, n + 1)
    BY <2>3, <2>7, <2>8 DEF Greedy
  <2> QED BY <2>6, <2>9
<1>3. Nat \subseteq P
  <2> HIDE DEF P
  <2> QED BY <1>1, <1>2, SetInduction
<1>4. PICK n \in Nat : \A i \in D : i < n
  <2>1. CASE D = {}
    BY <2>1
  <2>2. CASE D # {}
    <3>1. PICK k \in D : \A i \in D : i <= k
      BY <2>2, GreatestElement
    <3>2. k + 1 \in Nat /\ \A i \in D : i < k + 1
      BY <3>1
    <3> QED BY <3>2
  <2> QED BY <2>1, <2>2
<1>5. PICK A \in SUBSET D : Greedy(A, D, R, n)
  BY <1>3
<1>6. Survive(A, D, R)
  BY <1>4, <1>5 DEF Greedy, Survive
<1> QED BY <1>6

-----------------------------------------------------------------------------
(* An UPDATE that meets no constraint found none in its way.                       *)
LEMMA NobodyMet ==
  ASSUME NEW t, NEW old, NEW new, DOMAIN old \subseteq Nat, IsFiniteSet(DOMAIN old)
  PROVE  Displaced(t, old, new) = {} <=> \A i, j \in DOMAIN old : ~ Meets(t, old, new, i, j)
<1> DEFINE D == DOMAIN old
           M(i, j) == Meets(t, old, new, i, j)
           R == {p \in D \X D : M(p[1], p[2])}
           alive == CHOOSE f : f = [i \in D |-> ~ \E h \in D : h < i /\ f[h] /\ M(h, i)]
<1>1. Displaced(t, old, new) = {j \in D : \E i \in D : alive[i] /\ M(i, j)}
  BY DEF Displaced
<1>2. \A h, i \in D : <<h, i>> \in R <=> M(h, i)
  OBVIOUS
<1> HIDE DEF M, R
<1>3. PICK A \in SUBSET D : Survive(A, D, R)
  BY GreedyChoice
<1> DEFINE f == [i \in D |-> i \in A]
<1>4. \A i \in D : i \in A <=> ~ \E h \in D : h < i /\ f[h] /\ M(h, i)
  BY <1>2, <1>3 DEF Survive
<1>5. f = [i \in D |-> ~ \E h \in D : h < i /\ f[h] /\ M(h, i)]
  BY <1>4
<1> HIDE DEF f
<1>6. alive = [i \in D |-> ~ \E h \in D : h < i /\ alive[h] /\ M(h, i)]
  BY <1>5
<1> HIDE DEF alive
<1>7. ASSUME Displaced(t, old, new) = {}, NEW i \in D, NEW j \in D PROVE ~ M(i, j)
  <2>1. \A h, k \in D : ~ (alive[h] /\ M(h, k))
    BY <1>1, <1>7
  <2>2. alive[i] = ~ \E h \in D : h < i /\ alive[h] /\ M(h, i)
    BY <1>6
  <2>3. alive[i]
    BY <2>1, <2>2
  <2> QED BY <2>1, <2>3
<1>8. ASSUME \A i, j \in D : ~ M(i, j) PROVE Displaced(t, old, new) = {}
  BY <1>1, <1>8
<1> QED BY <1>7, <1>8 DEF M
-----------------------------------------------------------------------------
(* One column of every row, where it has one value, given another.                 *)
RenamedRow(row, column, new, old) == [row EXCEPT ![column] = Renamed(row[column], new, old)]
RenamedRows(rows, column, new, old) == [i \in DOMAIN rows |-> RenamedRow(rows[i], column, new, old)]

(* What UPDATE makes of a table: all or nothing of messages, of reactions those     *)
(* that none has replaced.                                                        *)
LEMMA SetOfMessages ==
  ASSUME NEW b, Shape(b), NEW column, NEW new, NEW old
  PROVE  LET c == Set(b, "message", column, new, old)
             rows == Rows(b, "message")
             renamed == RenamedRows(rows, column, new, old)
         IN  /\ Shape(c)
             /\ \A u \in EditTables \ {"message"} : Rows(c, u) = Rows(b, u)
             /\ \/ Rows(c, "message") = renamed /\ Displaced("message", rows, renamed) = {}
                \/ Rows(c, "message") = rows /\ Displaced("message", rows, renamed) # {}
<1> DEFINE c == Set(b, "message", column, new, old)
           rows == Rows(b, "message")
           renamed == RenamedRows(rows, column, new, old)
           message == Update("message", rows, renamed)
<1>1. WithColumn(rows, column, LAMBDA v : Renamed(v, new, old)) = renamed
  BY DEF WithColumn, RenamedRows, RenamedRow
<1>2. c = WithRows(b, "message", message)
  BY <1>1 DEF Set
<1>3. renamed = [i \in DOMAIN renamed |-> renamed[i]]
  BY DEF RenamedRows
<1> HIDE DEF renamed, rows, c
<1>4. \/ message = renamed /\ Displaced("message", rows, renamed) = {}
      \/ message = rows /\ Displaced("message", rows, renamed) # {}
  <2>1. CASE Displaced("message", rows, renamed) = {}
    <3>1. message = Restrict(renamed, DOMAIN renamed)
      BY <2>1 DEF Update
    <3> QED BY <1>3, <2>1, <3>1 DEF Restrict
  <2>2. CASE Displaced("message", rows, renamed) # {}
    BY <2>2 DEF Update
  <2> QED BY <2>1, <2>2
<1> HIDE DEF message
<1>5. /\ Shape(c) /\ Rows(c, "message") = message
      /\ \A u \in EditTables \ {"message"} : Rows(c, u) = Rows(b, u)
  BY <1>2, RowsPlaced, TableNames
<1> QED BY <1>4, <1>5 DEF c, rows, renamed

LEMMA SetOfReactions ==
  ASSUME NEW b, Shape(b), NEW new, NEW old
  PROVE  LET c == Set(b, "reaction", "author_id", new, old)
         IN  /\ Shape(c)
             /\ \A u \in EditTables \ {"reaction"} : Rows(c, u) = Rows(b, u)
             /\ \A r \in Ids(c, "reaction") :
                  /\ r \in Ids(b, "reaction")
                  /\ Rows(c, "reaction")[r] = RenamedRow(Rows(b, "reaction")[r], "author_id", new, old)
<1> DEFINE c == Set(b, "reaction", "author_id", new, old)
           rows == Rows(b, "reaction")
           renamed == RenamedRows(rows, "author_id", new, old)
           reaction == Update("reaction", rows, renamed)
<1>1. WithColumn(rows, "author_id", LAMBDA v : Renamed(v, new, old)) = renamed
  BY DEF WithColumn, RenamedRows, RenamedRow
<1>2. c = WithRows(b, "reaction", reaction)
  BY <1>1 DEF Set
<1>3. DOMAIN renamed = DOMAIN rows /\ \A r \in DOMAIN rows : renamed[r] = RenamedRow(rows[r], "author_id", new, old)
  BY DEF RenamedRows
<1> HIDE DEF renamed, rows, c
<1>4. Some(reaction, renamed)
  BY DEF Update, Restrict, Some
<1> HIDE DEF reaction
<1>5. /\ Shape(c) /\ Rows(c, "reaction") = reaction
      /\ \A u \in EditTables \ {"reaction"} : Rows(c, u) = Rows(b, u)
  BY <1>2, RowsPlaced, TableNames
<1> QED BY <1>3, <1>4, <1>5 DEF c, rows, Some, Ids

-----------------------------------------------------------------------------
(* No two messages agree in thread, sender and time.                              *)
LEMMA MessageKey ==
  ASSUME NEW r, NEW s
  PROVE  Key("message", r) = Key("message", s) <=>
           r.date_sent = s.date_sent /\ r.from_recipient_id = s.from_recipient_id /\ r.thread_id = s.thread_id
<1>1. UniqueColumns("message") = {"date_sent", "from_recipient_id", "thread_id"}
  BY DEF UniqueColumns
<1>2. /\ Key("message", r) = [c \in {"date_sent", "from_recipient_id", "thread_id"} |-> r[c]]
      /\ Key("message", s) = [c \in {"date_sent", "from_recipient_id", "thread_id"} |-> s[c]]
  BY <1>1 DEF Key
<1> QED BY <1>2

(* An UPDATE that goes through leaves it so.                                      *)
LEMMA StillUnique ==
  ASSUME NEW old, NEW new, DOMAIN new = DOMAIN old, DOMAIN old \subseteq Nat, IsFiniteSet(DOMAIN old),
         Displaced("message", old, new) = {},
         \A m, n \in DOMAIN old : Key("message", old[m]) = Key("message", old[n]) => m = n
  PROVE  \A m, n \in DOMAIN new : Key("message", new[m]) = Key("message", new[n]) => m = n
<1> DEFINE k(i) == Key("message", old[i])
           l(i) == Key("message", new[i])
<1>1. ASSUME NEW i \in DOMAIN old, NEW j \in DOMAIN old, i # j, l(i) # k(i)
      PROVE  (j < i => l(i) # l(j)) /\ (~ (j < i) => l(i) # k(j))
  <2>1. ~ Meets("message", old, new, i, j)
    BY NobodyMet
  <2>2. UniqueColumns("message") # {}
    BY DEF UniqueColumns
  <2> QED BY <1>1, <2>1, <2>2 DEF Meets
<1>2. \A i, j \in DOMAIN old : k(i) = k(j) => i = j
  OBVIOUS
<1> HIDE DEF k, l
<1>3. ASSUME NEW m \in DOMAIN old, NEW n \in DOMAIN old, n < m PROVE l(m) # l(n)
  <2>1. ~ (m < n) /\ m # n
    BY <1>3
  <2> QED BY <1>1, <1>2, <1>3, <2>1
<1>4. \A m, n \in DOMAIN old : m = n \/ m < n \/ n < m
  OBVIOUS
<1>5. \A m, n \in DOMAIN old : l(m) = l(n) => m = n
  BY <1>3, <1>4
<1> QED BY <1>5 DEF l
-----------------------------------------------------------------------------
(* The references that hold between a backup's tables, the links between revisions  *)
(* apart, column by column.                                                       *)
Refers(b, t, v) == v = NULL \/ v \in Ids(b, t)

SoundMessages(b) ==
  \A m \in Ids(b, "message") :
     /\ Refers(b, "thread", Rows(b, "message")[m].thread_id)
     /\ Refers(b, "recipient", Rows(b, "message")[m].from_recipient_id)
     /\ Refers(b, "recipient", Rows(b, "message")[m].to_recipient_id)

SoundReactions(b) ==
  \A r \in Ids(b, "reaction") : /\ Refers(b, "message", Rows(b, "reaction")[r].message_id)
                                /\ Refers(b, "recipient", Rows(b, "reaction")[r].author_id)

SoundThreads(b) == \A t \in Ids(b, "thread") : Refers(b, "recipient", Rows(b, "thread")[t].recipient_id)

SoundGroups(b) ==
  /\ \A g \in Ids(b, "groups") : Refers(b, "recipient", Rows(b, "groups")[g].recipient_id)
  /\ \A x \in Ids(b, "group_membership") :
       LET row == Rows(b, "group_membership")[x]
       IN  /\ Refers(b, "recipient", row.recipient_id)
           /\ row.group_id = NULL \/ \E g \in Ids(b, "groups") : row.group_id = Rows(b, "groups")[g].group_id

Sound(b) == SoundMessages(b) /\ SoundReactions(b) /\ SoundThreads(b) /\ SoundGroups(b)

(* A foreign key to an _id, and that of the members of a group to its group_id.  *)
LEMMA PlainKey ==
  ASSUME NEW b, NEW t, NEW c, NEW p, c # "group_id"
  PROVE  Violations(b, ForeignKey(t, c, p)) = {} <=> \A i \in Ids(b, t) : Refers(b, p, Rows(b, t)[i][c])
<1> DEFINE k == ForeignKey(t, c, p)
<1>1. k.table = t /\ k.column = c /\ k.parent = p
  BY DEF ForeignKey
<1> HIDE DEF k
<1>2. \A v : Parents(b, k, v) = {i \in Ids(b, p) : v = i}
  BY <1>1 DEF Parents
<1>3. Violations(b, k) = {i \in Ids(b, t) : Rows(b, t)[i][c] # NULL /\ Parents(b, k, Rows(b, t)[i][c]) = {}}
  BY <1>1 DEF Violations
<1>4. \A v : Parents(b, k, v) = {} <=> v \notin Ids(b, p)
  BY <1>2
<1> QED BY <1>3, <1>4 DEF k, Refers

LEMMA GroupKey ==
  ASSUME NEW b
  PROVE  Violations(b, ForeignKey("group_membership", "group_id", "groups")) = {} <=>
           \A x \in Ids(b, "group_membership") :
              LET v == Rows(b, "group_membership")[x].group_id
              IN  v = NULL \/ \E g \in Ids(b, "groups") : v = Rows(b, "groups")[g].group_id
<1> DEFINE k == ForeignKey("group_membership", "group_id", "groups")
           t == "group_membership"
<1>1. k.table = t /\ k.column = "group_id" /\ k.parent = "groups"
  BY DEF ForeignKey
<1> HIDE DEF k
<1>2. \A v : Parents(b, k, v) = {i \in Ids(b, "groups") : v = Rows(b, "groups")[i].group_id}
  BY <1>1 DEF Parents
<1>3. Violations(b, k) =
        {i \in Ids(b, t) : Rows(b, t)[i].group_id # NULL /\ Parents(b, k, Rows(b, t)[i].group_id) = {}}
  BY <1>1 DEF Violations
<1>4. \A v : Parents(b, k, v) = {} <=> ~ \E i \in Ids(b, "groups") : v = Rows(b, "groups")[i].group_id
  BY <1>2
<1> QED BY <1>3, <1>4 DEF k

(* Column by column is all of them.                                              *)
LEMMA SoundIsHolds ==
  ASSUME NEW b
  PROVE  Sound(b) <=> Holds(b, ForeignKeys \ RevisionKeys)
<1>1. ForeignKeys \ RevisionKeys =
        {ForeignKey("message", "thread_id", "thread"), ForeignKey("message", "from_recipient_id", "recipient"),
         ForeignKey("message", "to_recipient_id", "recipient"), ForeignKey("thread", "recipient_id", "recipient"),
         ForeignKey("reaction", "message_id", "message"), ForeignKey("reaction", "author_id", "recipient"),
         ForeignKey("groups", "recipient_id", "recipient"),
         ForeignKey("group_membership", "recipient_id", "recipient"),
         ForeignKey("group_membership", "group_id", "groups")}
  BY DEF ForeignKeys, RevisionKeys, ForeignKey
<1> DEFINE none(t, c, p) == Violations(b, ForeignKey(t, c, p)) = {}
<1>2. Holds(b, ForeignKeys \ RevisionKeys) <=>
        /\ none("message", "thread_id", "thread") /\ none("message", "from_recipient_id", "recipient")
        /\ none("message", "to_recipient_id", "recipient") /\ none("thread", "recipient_id", "recipient")
        /\ none("reaction", "message_id", "message") /\ none("reaction", "author_id", "recipient")
        /\ none("groups", "recipient_id", "recipient") /\ none("group_membership", "recipient_id", "recipient")
        /\ none("group_membership", "group_id", "groups")
  BY <1>1 DEF Holds
<1>3. SoundMessages(b) <=> /\ none("message", "thread_id", "thread")
                           /\ none("message", "from_recipient_id", "recipient")
                           /\ none("message", "to_recipient_id", "recipient")
  BY PlainKey DEF SoundMessages
<1>4. SoundReactions(b) <=> none("reaction", "message_id", "message") /\ none("reaction", "author_id", "recipient")
  BY PlainKey DEF SoundReactions
<1>5. SoundThreads(b) <=> none("thread", "recipient_id", "recipient")
  BY PlainKey DEF SoundThreads
<1>6. SoundGroups(b) <=> /\ none("groups", "recipient_id", "recipient")
                         /\ none("group_membership", "recipient_id", "recipient")
                         /\ none("group_membership", "group_id", "groups")
  BY PlainKey, GroupKey DEF SoundGroups
<1> HIDE DEF none
<1> QED BY <1>2, <1>3, <1>4, <1>5, <1>6 DEF Sound
-----------------------------------------------------------------------------
(* Cleaning keeps the references: what is left refers to what is left.            *)
LEMMA FewerOf ==
  ASSUME NEW b, NEW c, OnlyFewer(b, c)
  PROVE  FewerReferences(b, c)
BY DEF OnlyFewer, BelongingsStay, SameMessage, MessageColumns, SameAddress, AddressColumns, FewerReferences

LEMMA StillReferred ==
  ASSUME NEW b, NEW c, FewerReferences(b, c), NEW v \in ReferencedRecipients(c), Refers(b, "recipient", v)
  PROVE  Refers(c, "recipient", v)
BY DEF FewerReferences, Refers

(* A backup that lost rows keeps its references when nothing that is left        *)
(* refers to what is gone.                                                       *)
LEMMA SoundFewer ==
  ASSUME NEW b, Sound(b), NEW c, FewerReferences(b, c), NothingLoose(b, c)
  PROVE  Sound(c)
<1>1. ASSUME NEW m \in Ids(c, "message")
      PROVE  /\ Refers(c, "thread", Rows(c, "message")[m].thread_id)
             /\ Refers(c, "recipient", Rows(c, "message")[m].from_recipient_id)
             /\ Refers(c, "recipient", Rows(c, "message")[m].to_recipient_id)
  <2> DEFINE now == Rows(c, "message")[m]
             row == Rows(b, "message")[m]
  <2>1. /\ m \in Ids(b, "message") /\ now.thread_id = row.thread_id
        /\ now.from_recipient_id = row.from_recipient_id /\ now.to_recipient_id = row.to_recipient_id
        /\ now.thread_id \in Ids(b, "thread") => now.thread_id \in Ids(c, "thread")
    BY DEF FewerReferences, SameAddress, AddressColumns
  <2>2. now \in Contents(c, "message")
    BY DEF Contents, Range, Ids
  <2>3. now.from_recipient_id \in ReferencedRecipients(c) /\ now.to_recipient_id \in ReferencedRecipients(c)
    BY <2>2, Referenced
  <2>4. /\ Refers(b, "thread", row.thread_id)
        /\ Refers(b, "recipient", row.from_recipient_id) /\ Refers(b, "recipient", row.to_recipient_id)
    BY <2>1 DEF Sound, SoundMessages
  <2> HIDE DEF now, row
  <2>5. Refers(c, "thread", now.thread_id)
    BY <2>1, <2>4 DEF Refers
  <2>6. Refers(c, "recipient", now.from_recipient_id) /\ Refers(c, "recipient", now.to_recipient_id)
    BY <2>1, <2>3, <2>4, StillReferred
  <2> QED BY <2>5, <2>6 DEF now
<1>2. ASSUME NEW r \in Ids(c, "reaction")
      PROVE  /\ Refers(c, "message", Rows(c, "reaction")[r].message_id)
             /\ Refers(c, "recipient", Rows(c, "reaction")[r].author_id)
  <2>1. r \in Ids(b, "reaction") /\ Rows(c, "reaction")[r] = Rows(b, "reaction")[r]
    BY DEF FewerReferences, Some, Ids
  <2>2. Rows(c, "reaction")[r].author_id \in ReferencedRecipients(c)
    BY Referenced DEF Contents, Range, Ids
  <2>3. Refers(c, "recipient", Rows(c, "reaction")[r].author_id)
    BY <2>1, <2>2, StillReferred DEF Sound, SoundReactions
  <2> QED BY <2>3 DEF NothingLoose, Refers
<1>3. ASSUME NEW t \in Ids(c, "thread") PROVE Refers(c, "recipient", Rows(c, "thread")[t].recipient_id)
  <2>1. t \in Ids(b, "thread") /\ Rows(c, "thread")[t].recipient_id = Rows(b, "thread")[t].recipient_id
    BY DEF FewerReferences
  <2>2. Rows(c, "thread")[t].recipient_id \in ReferencedRecipients(c)
    BY Referenced DEF Contents, Range, Ids
  <2> QED BY <2>1, <2>2, StillReferred DEF Sound, SoundThreads
<1>4. ASSUME NEW g \in Ids(c, "groups") PROVE Refers(c, "recipient", Rows(c, "groups")[g].recipient_id)
  <2>1. PICK t \in Ids(c, "thread") : Rows(c, "groups")[g].recipient_id = Rows(b, "thread")[t].recipient_id
    BY DEF NothingLoose
  <2>2. Rows(c, "thread")[t].recipient_id = Rows(b, "thread")[t].recipient_id
    BY DEF FewerReferences
  <2> QED BY <1>3, <2>1, <2>2
<1>5. ASSUME NEW x \in Ids(c, "group_membership")
      PROVE  Refers(c, "recipient", Rows(c, "group_membership")[x].recipient_id)
  <2>1. x \in Ids(b, "group_membership") /\ Rows(c, "group_membership")[x] = Rows(b, "group_membership")[x]
    BY DEF FewerReferences, Some, Ids
  <2>2. Rows(c, "group_membership")[x].recipient_id \in ReferencedRecipients(c)
    BY Referenced DEF Contents, Range, Ids
  <2> QED BY <2>1, <2>2, StillReferred DEF Sound, SoundGroups
<1> QED BY <1>1, <1>2, <1>3, <1>4, <1>5
        DEF NothingLoose, Sound, SoundMessages, SoundReactions, SoundThreads, SoundGroups

(* Removing doubles takes messages and what belongs to them, and nothing else.    *)
LEMMA SoundWithoutDoubles ==
  ASSUME NEW b, Sound(b), NEW c, OnlyFewer(b, c),
         \A t \in {"thread", "recipient", "groups", "group_membership"} : Rows(c, t) = Rows(b, t),
         \A r \in Ids(c, "reaction") : Rows(c, "reaction")[r].message_id \in Ids(c, "message")
  PROVE  Sound(c)
<1>1. \A t \in {"thread", "recipient", "groups", "group_membership"} : Ids(c, t) = Ids(b, t)
  BY DEF Ids
<1>2. FewerReferences(b, c)
  BY FewerOf
<1>3. SoundMessages(c)
  BY <1>1, <1>2 DEF Sound, SoundMessages, FewerReferences, SameAddress, AddressColumns, Refers
<1>4. SoundReactions(c)
  BY <1>1, <1>2 DEF Sound, SoundReactions, FewerReferences, Some, Ids, Refers
<1>5. SoundThreads(c) /\ SoundGroups(c)
  BY <1>1 DEF Sound, SoundThreads, SoundGroups, Refers
<1> QED BY <1>3, <1>4, <1>5 DEF Sound

(* Attachments are not part of it.                                               *)
LEMMA SoundAlike ==
  ASSUME NEW b, Sound(b), NEW c, \A u \in EditTables \ {"attachment"} : Rows(c, u) = Rows(b, u)
  PROVE  Sound(c)
<1>1. \A u \in {"message", "reaction", "thread", "recipient", "groups", "group_membership"} :
        Rows(c, u) = Rows(b, u) /\ Ids(c, u) = Ids(b, u)
  BY TableNames DEF Ids
<1> QED BY <1>1 DEF Sound, SoundMessages, SoundReactions, SoundThreads, SoundGroups, Refers
-----------------------------------------------------------------------------
(* What a backup keeps of what it was opened with until attachments are deleted:   *)
(* recipients only become fewer, threads keep theirs, and the declarations hold.   *)
Origin(b) ==
  /\ OpenedOk(b) /\ MessagesUnique(b) /\ ReactionsOk(b)
  /\ Some(Rows(b, "recipient"), Rows(opened, "recipient"))
  /\ \A t \in Ids(b, "thread") :
       t \in Ids(opened, "thread") /\ Rows(b, "thread")[t].recipient_id = Rows(opened, "thread")[t].recipient_id

LEMMA OriginFewer ==
  ASSUME NEW b, Origin(b), NEW c, OpenedOk(c), FewerReferences(b, c)
  PROVE  Origin(c)
<1>1. MessagesUnique(c)
  <2>1. \A m \in Ids(c, "message") : /\ m \in Ids(b, "message")
                                     /\ Key("message", Rows(c, "message")[m]) = Key("message", Rows(b, "message")[m])
    BY MessageKey DEF FewerReferences, SameAddress, AddressColumns
  <2> QED BY <2>1 DEF Origin, MessagesUnique
<1>2. ReactionsOk(c)
  BY DEF Origin, ReactionsOk, FewerReferences, Some, Ids
<1>3. /\ Some(Rows(c, "recipient"), Rows(opened, "recipient"))
      /\ \A t \in Ids(c, "thread") :
           t \in Ids(opened, "thread") /\ Rows(c, "thread")[t].recipient_id = Rows(opened, "thread")[t].recipient_id
  BY DEF Origin, FewerReferences, Some
<1> QED BY <1>1, <1>2, <1>3 DEF Origin

(* UPDATE message SET column = new WHERE column = old, where it went through.      *)
Readdressing(b, c, column, new, old) ==
  \A m \in Ids(b, "message"), a \in AddressColumns :
     Rows(c, "message")[m][a] = IF a = column THEN Renamed(Rows(b, "message")[m][a], new, old)
                                              ELSE Rows(b, "message")[m][a]

(* Messages after an UPDATE: it went through, or it met two that would be one.   *)
LEMMA MessageSet ==
  ASSUME NEW b, Origin(b), NEW column \in {"thread_id", "from_recipient_id", "to_recipient_id", "quote_author"},
         NEW new, NEW old
  PROVE  LET c == Set(b, "message", column, new, old)
             rows == Rows(b, "message")
             renamed == RenamedRows(rows, column, new, old)
         IN  /\ Origin(c)
             /\ \A u \in EditTables \ {"message"} : Rows(c, u) = Rows(b, u)
             /\ Ids(c, "message") = Ids(b, "message")
             /\ \/ Readdressing(b, c, column, new, old)
                \/ /\ Rows(c, "message") = rows
                   /\ \E i, j \in DOMAIN rows : Meets("message", rows, renamed, i, j)
<1> DEFINE c == Set(b, "message", column, new, old)
           rows == Rows(b, "message")
           renamed == RenamedRows(rows, column, new, old)
<1>1. Shape(b) /\ Rows(b, "message") = rows /\ DOMAIN rows \subseteq Nat /\ IsFiniteSet(DOMAIN rows)
  BY TableNames DEF Origin, OpenedOk, TablesOk, Shape, Ids
<1>2. /\ \A u \in EditTables \ {"message"} : Rows(c, u) = Rows(b, u)
      /\ \/ Rows(c, "message") = renamed /\ Displaced("message", rows, renamed) = {}
         \/ Rows(c, "message") = rows /\ Displaced("message", rows, renamed) # {}
  BY <1>1, SetOfMessages
<1>3. OpenedOk(c)
  BY MessagesSet DEF Origin, Readdressed
<1>4. DOMAIN renamed = DOMAIN rows /\ \A m \in DOMAIN rows : renamed[m] = RenamedRow(rows[m], column, new, old)
  BY DEF RenamedRows
<1>5. \A m \in DOMAIN rows : AddressColumns \subseteq DOMAIN rows[m]
  BY DEF Origin, OpenedOk, RowsOk, MessageOk, MessageColumns, AddressColumns, Ids
<1> HIDE DEF c, rows, renamed
<1>6. \A m \in DOMAIN rows, a \in AddressColumns :
        renamed[m][a] = IF a = column THEN Renamed(rows[m][a], new, old) ELSE rows[m][a]
  BY <1>4, <1>5 DEF RenamedRow
<1>7. Ids(c, "message") = Ids(b, "message")
  BY <1>1, <1>2, <1>4 DEF Ids
<1>8. MessagesUnique(c)
  <2>1. \A m, n \in DOMAIN rows : Key("message", rows[m]) = Key("message", rows[n]) => m = n
    BY <1>1 DEF Origin, MessagesUnique, Ids
  <2>2. CASE Displaced("message", rows, renamed) = {} /\ Rows(c, "message") = renamed
    <3>1. \A m, n \in DOMAIN renamed : Key("message", renamed[m]) = Key("message", renamed[n]) => m = n
      BY <1>1, <1>4, <2>1, <2>2, StillUnique
    <3> QED BY <2>2, <3>1 DEF MessagesUnique, Ids
  <2>3. CASE Rows(c, "message") = rows
    BY <2>1, <2>3 DEF MessagesUnique, Ids
  <2> QED BY <1>2, <2>2, <2>3
<1>9. Origin(c)
  <2>1. Rows(c, "reaction") = Rows(b, "reaction") /\ Rows(c, "recipient") = Rows(b, "recipient")
        /\ Rows(c, "thread") = Rows(b, "thread")
    BY <1>2, TableNames
  <2> QED BY <1>3, <1>8, <2>1 DEF Origin, ReactionsOk, Ids
<1>10. CASE Rows(c, "message") = renamed
  <2>1. Readdressing(b, c, column, new, old)
    BY <1>1, <1>6, <1>10 DEF Readdressing, Ids
  <2> QED BY <1>2, <1>7, <1>9, <2>1 DEF c
<1>11. CASE Rows(c, "message") = rows /\ Displaced("message", rows, renamed) # {}
  <2>1. \E i, j \in DOMAIN rows : Meets("message", rows, renamed, i, j)
    BY <1>1, <1>11, NobodyMet
  <2> QED BY <1>2, <1>7, <1>9, <1>11, <2>1 DEF c, rows, renamed
<1> QED BY <1>2, <1>10, <1>11

(* With a new value that is there, the references hold after it.                 *)
LEMMA SoundSet ==
  ASSUME NEW b, Sound(b), NEW c, NEW column, NEW new, NEW old,
         \A u \in EditTables \ {"message"} : Rows(c, u) = Rows(b, u), Ids(c, "message") = Ids(b, "message"),
         Readdressing(b, c, column, new, old) \/ Rows(c, "message") = Rows(b, "message"),
         column = "thread_id" => Refers(b, "thread", new),
         column \in {"from_recipient_id", "to_recipient_id"} => Refers(b, "recipient", new)
  PROVE  Sound(c)
<1>1. \A u \in {"reaction", "thread", "recipient", "groups", "group_membership"} :
        Rows(c, u) = Rows(b, u) /\ Ids(c, u) = Ids(b, u)
  BY TableNames DEF Ids
<1>2. \A v : /\ Refers(c, "thread", v) <=> Refers(b, "thread", v)
             /\ Refers(c, "message", v) <=> Refers(b, "message", v)
             /\ Refers(c, "recipient", v) <=> Refers(b, "recipient", v)
  BY <1>1 DEF Refers
<1>3. SoundReactions(c) /\ SoundThreads(c) /\ SoundGroups(c)
  BY <1>1, <1>2 DEF Sound, SoundReactions, SoundThreads, SoundGroups
<1>4. ASSUME NEW m \in Ids(b, "message")
      PROVE  /\ Refers(b, "thread", Rows(c, "message")[m].thread_id)
             /\ Refers(b, "recipient", Rows(c, "message")[m].from_recipient_id)
             /\ Refers(b, "recipient", Rows(c, "message")[m].to_recipient_id)
  <2>1. /\ Refers(b, "thread", Rows(b, "message")[m].thread_id)
        /\ Refers(b, "recipient", Rows(b, "message")[m].from_recipient_id)
        /\ Refers(b, "recipient", Rows(b, "message")[m].to_recipient_id)
    BY DEF Sound, SoundMessages
  <2>2. CASE Rows(c, "message") = Rows(b, "message")
    BY <2>1, <2>2
  <2>3. CASE Readdressing(b, c, column, new, old)
    BY <2>1, <2>3 DEF Readdressing, AddressColumns, Renamed
  <2> QED BY <2>2, <2>3
<1>5. SoundMessages(c)
  BY <1>2, <1>4 DEF SoundMessages
<1> QED BY <1>3, <1>5 DEF Sound

(* Threads without messages of the same time are so after it, if it moves        *)
(* messages between them only.                                                   *)
LEMMA ApartSet ==
  ASSUME NEW b, NEW T, Apart(b, T), NEW c, NEW column, NEW new, NEW old,
         Ids(c, "message") = Ids(b, "message"),
         Readdressing(b, c, column, new, old) \/ Rows(c, "message") = Rows(b, "message"),
         column # "date_sent", column = "thread_id" => new \in T /\ old \in T
  PROVE  Apart(c, T)
<1>1. CASE Rows(c, "message") = Rows(b, "message")
  BY <1>1 DEF Apart
<1>2. CASE Readdressing(b, c, column, new, old)
  <2>1. ASSUME NEW m \in Ids(b, "message")
        PROVE  /\ Rows(c, "message")[m].date_sent = Rows(b, "message")[m].date_sent
               /\ Rows(c, "message")[m].thread_id \in {Rows(b, "message")[m].thread_id,
                                                       Renamed(Rows(b, "message")[m].thread_id, new, old)}
               /\ Rows(c, "message")[m].thread_id \in T => Rows(b, "message")[m].thread_id \in T
    BY <1>2 DEF Readdressing, AddressColumns, Renamed
  <2>2. \A m, n \in Ids(b, "message") :
          Rows(b, "message")[m].thread_id = Rows(b, "message")[n].thread_id =>
             Rows(c, "message")[m].thread_id = Rows(c, "message")[n].thread_id
    BY <1>2 DEF Readdressing, AddressColumns
  <2> QED BY <2>1, <2>2 DEF Apart
<1> QED BY <1>1, <1>2

(* UPDATE reaction SET author_id = new WHERE author_id = old.                      *)
LEMMA ReactionSet ==
  ASSUME NEW b, Origin(b), NEW new, NEW old
  PROVE  LET c == Set(b, "reaction", "author_id", new, old)
         IN  /\ Origin(c)
             /\ \A u \in EditTables \ {"reaction"} : Rows(c, u) = Rows(b, u)
             /\ \A r \in Ids(c, "reaction") :
                  /\ r \in Ids(b, "reaction")
                  /\ Rows(c, "reaction")[r].message_id = Rows(b, "reaction")[r].message_id
                  /\ Rows(c, "reaction")[r].author_id = Renamed(Rows(b, "reaction")[r].author_id, new, old)
<1> DEFINE c == Set(b, "reaction", "author_id", new, old)
<1>1. /\ \A u \in EditTables \ {"reaction"} : Rows(c, u) = Rows(b, u)
      /\ \A r \in Ids(c, "reaction") :
           /\ r \in Ids(b, "reaction")
           /\ Rows(c, "reaction")[r] = RenamedRow(Rows(b, "reaction")[r], "author_id", new, old)
  BY SetOfReactions DEF Origin, OpenedOk, TablesOk, Shape
<1>2. OpenedOk(c)
  BY ReactionsSet DEF Origin, Readdressed
<1> HIDE DEF c
<1>3. UniqueColumns("reaction") = {"message_id", "author_id"}
  BY DEF UniqueColumns
<1>4. ASSUME NEW r \in Ids(c, "reaction")
      PROVE  /\ Rows(c, "reaction")[r].message_id = Rows(b, "reaction")[r].message_id
             /\ Rows(c, "reaction")[r].author_id = Renamed(Rows(b, "reaction")[r].author_id, new, old)
             /\ UniqueColumns("reaction") \subseteq DOMAIN Rows(c, "reaction")[r]
  <2>1. {"message_id", "author_id"} \subseteq DOMAIN Rows(b, "reaction")[r]
    BY <1>1, <1>3 DEF Origin, ReactionsOk
  <2> QED BY <1>1, <1>3, <2>1 DEF RenamedRow
<1>5. Rows(c, "message") = Rows(b, "message") /\ Rows(c, "recipient") = Rows(b, "recipient")
      /\ Rows(c, "thread") = Rows(b, "thread")
  BY <1>1, TableNames
<1>6. Origin(c)
  BY <1>2, <1>4, <1>5 DEF Origin, MessagesUnique, ReactionsOk, Ids
<1> QED BY <1>1, <1>4, <1>6 DEF c

LEMMA SoundReactionSet ==
  ASSUME NEW b, Sound(b), NEW c, NEW new, NEW old, Refers(b, "recipient", new),
         \A u \in EditTables \ {"reaction"} : Rows(c, u) = Rows(b, u),
         \A r \in Ids(c, "reaction") :
            /\ r \in Ids(b, "reaction")
            /\ Rows(c, "reaction")[r].message_id = Rows(b, "reaction")[r].message_id
            /\ Rows(c, "reaction")[r].author_id = Renamed(Rows(b, "reaction")[r].author_id, new, old)
  PROVE  Sound(c)
<1>1. \A u \in {"message", "thread", "recipient", "groups", "group_membership"} :
        Rows(c, u) = Rows(b, u) /\ Ids(c, u) = Ids(b, u)
  BY TableNames DEF Ids
<1>2. SoundMessages(c) /\ SoundThreads(c) /\ SoundGroups(c)
  BY <1>1 DEF Sound, SoundMessages, SoundThreads, SoundGroups, Refers
<1>3. SoundReactions(c)
  BY <1>1 DEF Sound, SoundReactions, Refers, Renamed
<1> QED BY <1>2, <1>3 DEF Sound
-----------------------------------------------------------------------------
(* With it, the references hold and groups that are to be merged do not clash.     *)
Linked(b) ==
  /\ Origin(b) /\ Sound(b)
  /\ Len(command.mergegroups) >= 2 => Apart(b, MergedThreads)

(* It is kept by UPDATEs of messages and of reactions.                           *)
LEMMA LinkedMessageSet ==
  ASSUME NEW b, Linked(b), NEW column \in {"thread_id", "from_recipient_id", "to_recipient_id", "quote_author"},
         NEW new, NEW old,
         column = "thread_id" => /\ new \in Ids(b, "thread")
                                 /\ Len(command.mergegroups) >= 2 => new \in MergedThreads /\ old \in MergedThreads,
         column \in {"from_recipient_id", "to_recipient_id"} => Refers(b, "recipient", new)
  PROVE  LET c == Set(b, "message", column, new, old)
         IN  /\ Linked(c)
             /\ Rows(c, "recipient") = Rows(b, "recipient") /\ Rows(c, "thread") = Rows(b, "thread")
             /\ Ids(c, "message") = Ids(b, "message")
             /\ column # "thread_id" =>
                  \A m \in Ids(b, "message") : Rows(c, "message")[m].thread_id = Rows(b, "message")[m].thread_id
<1> DEFINE c == Set(b, "message", column, new, old)
<1>1. /\ Origin(c)
      /\ \A u \in EditTables \ {"message"} : Rows(c, u) = Rows(b, u)
      /\ Ids(c, "message") = Ids(b, "message")
      /\ Readdressing(b, c, column, new, old) \/ Rows(c, "message") = Rows(b, "message")
  BY MessageSet DEF Linked
<1> HIDE DEF c
<1>2. Sound(c)
  BY <1>1, SoundSet DEF Linked, Refers
<1>3. Len(command.mergegroups) >= 2 => Apart(c, MergedThreads)
  BY <1>1, ApartSet DEF Linked
<1>4. Rows(c, "recipient") = Rows(b, "recipient") /\ Rows(c, "thread") = Rows(b, "thread")
  BY <1>1, TableNames
<1>5. column # "thread_id" =>
        \A m \in Ids(b, "message") : Rows(c, "message")[m].thread_id = Rows(b, "message")[m].thread_id
  BY <1>1 DEF Readdressing, AddressColumns
<1> QED BY <1>1, <1>2, <1>3, <1>4, <1>5 DEF Linked, c

LEMMA LinkedReactionSet ==
  ASSUME NEW b, Linked(b), NEW new, NEW old, Refers(b, "recipient", new)
  PROVE  LET c == Set(b, "reaction", "author_id", new, old)
         IN  /\ Linked(c)
             /\ Rows(c, "recipient") = Rows(b, "recipient") /\ Rows(c, "thread") = Rows(b, "thread")
             /\ Rows(c, "message") = Rows(b, "message")
<1> DEFINE c == Set(b, "reaction", "author_id", new, old)
<1>1. /\ Origin(c)
      /\ \A u \in EditTables \ {"reaction"} : Rows(c, u) = Rows(b, u)
      /\ \A r \in Ids(c, "reaction") :
           /\ r \in Ids(b, "reaction")
           /\ Rows(c, "reaction")[r].message_id = Rows(b, "reaction")[r].message_id
           /\ Rows(c, "reaction")[r].author_id = Renamed(Rows(b, "reaction")[r].author_id, new, old)
  BY ReactionSet DEF Linked
<1> HIDE DEF c
<1>2. Sound(c)
  BY <1>1, SoundReactionSet DEF Linked
<1>3. /\ Rows(c, "recipient") = Rows(b, "recipient") /\ Rows(c, "thread") = Rows(b, "thread")
      /\ Rows(c, "message") = Rows(b, "message")
  BY <1>1, TableNames
<1>4. Len(command.mergegroups) >= 2 => Apart(c, MergedThreads)
  BY <1>3 DEF Linked, Apart, Ids
<1> QED BY <1>1, <1>2, <1>3, <1>4 DEF Linked, c

(* Threads whose entries change, or some of which go that no message is in.        *)
LEMMA LinkedThreads ==
  ASSUME NEW b, Linked(b), NEW rows, DOMAIN rows \subseteq Ids(b, "thread"),
         \A t \in DOMAIN rows : /\ ThreadColumns \subseteq DOMAIN rows[t]
                                /\ rows[t].recipient_id = Rows(b, "thread")[t].recipient_id,
         \A m \in Ids(b, "message") : Rows(b, "message")[m].thread_id \in DOMAIN rows \cup {NULL}
  PROVE  LET c == WithRows(b, "thread", rows)
         IN  Linked(c) /\ Rows(c, "recipient") = Rows(b, "recipient") /\ Rows(c, "thread") = rows
<1> DEFINE c == WithRows(b, "thread", rows)
<1>1. /\ OpenedOk(c) /\ Rows(c, "thread") = rows
      /\ \A u \in EditTables \ {"thread"} : Rows(c, u) = Rows(b, u)
  BY ThreadsSet, RowsPlaced, TableNames DEF Linked, Origin, OpenedOk, TablesOk, Shape, Readdressed
<1> HIDE DEF c
<1>2. \A u \in {"message", "reaction", "recipient", "groups", "group_membership"} :
        Rows(c, u) = Rows(b, u) /\ Ids(c, u) = Ids(b, u)
  BY <1>1, TableNames DEF Ids
<1>3. Origin(c)
  BY <1>1, <1>2 DEF Linked, Origin, MessagesUnique, ReactionsOk, Ids
<1>4. SoundMessages(c)
  BY <1>1, <1>2 DEF Linked, Sound, SoundMessages, Refers, Ids
<1>5. SoundReactions(c) /\ SoundGroups(c)
  BY <1>2 DEF Linked, Sound, SoundReactions, SoundGroups, Refers
<1>6. SoundThreads(c)
  BY <1>1, <1>2 DEF Linked, Sound, SoundThreads, Refers, Ids
<1>7. Len(command.mergegroups) >= 2 => Apart(c, MergedThreads)
  BY <1>2 DEF Linked, Apart
<1> QED BY <1>1, <1>2, <1>3, <1>4, <1>5, <1>6, <1>7 DEF Linked, Sound, c

-----------------------------------------------------------------------------
(* And by those that rename a recipient, one after the other.                    *)
LEMMA LinkedRenaming ==
  ASSUME NEW b, Linked(b), NEW new, NEW old, Refers(b, "recipient", new)
  PROVE  LET c == Renaming(b, new, old)
         IN  Linked(c) /\ Rows(c, "recipient") = Rows(b, "recipient") /\ Rows(c, "thread") = Rows(b, "thread")
<1> DEFINE b1 == Set(b, "message", "from_recipient_id", new, old)
           b2 == Set(b1, "message", "to_recipient_id", new, old)
           b3 == Set(b2, "message", "quote_author", new, old)
           b4 == Set(b3, "reaction", "author_id", new, old)
<1>0. Renaming(b, new, old) = b4
  BY DEF Renaming
<1>1. Linked(b1) /\ Rows(b1, "recipient") = Rows(b, "recipient") /\ Rows(b1, "thread") = Rows(b, "thread")
  BY LinkedMessageSet
<1>1a. Refers(b1, "recipient", new)
  BY <1>1 DEF Refers, Ids
<1> HIDE DEF b1
<1>2. Linked(b2) /\ Rows(b2, "recipient") = Rows(b, "recipient") /\ Rows(b2, "thread") = Rows(b, "thread")
  BY <1>1, <1>1a, LinkedMessageSet
<1> HIDE DEF b2
<1>3. Linked(b3) /\ Rows(b3, "recipient") = Rows(b, "recipient") /\ Rows(b3, "thread") = Rows(b, "thread")
  BY <1>2, LinkedMessageSet
<1>3a. Refers(b3, "recipient", new)
  BY <1>3 DEF Refers, Ids
<1> HIDE DEF b3
<1>4. Linked(b4) /\ Rows(b4, "recipient") = Rows(b, "recipient") /\ Rows(b4, "thread") = Rows(b, "thread")
  BY <1>3, <1>3a, LinkedReactionSet
<1> HIDE DEF b4
<1> QED BY <1>0, <1>4

(* The thread of one of those that are to be merged is the one it was.             *)
LEMMA ThreadJoined ==
  ASSUME NEW b, Origin(b), NEW r \in Merged, NEW t \in ThreadsOf(b, r)
  PROVE  t \in MergedThreads
BY DEF Origin, ThreadsOf, MergedThreads, ThreadsOfAll

(* One recipient merged into another, and the threads of both.                    *)
LEMMA LinkedRecipients ==
  ASSUME NEW b, Linked(b), NEW target \in Ids(b, "recipient"), NEW old, {target, old} \subseteq Merged
  PROVE  Linked(MergedRecipients(b, target, old).backup)
<1> DEFINE newtid  == getThreadIdFromRecipient(b, target)
           oldtid  == getThreadIdFromRecipient(b, old)
           moved   == Set(b, "message", "thread_id", newtid, oldtid)
           renamed == Renaming(moved, target, old)
           emptied == [renamed EXCEPT !.d_database.thread[oldtid].meaningful_messages = 0,
                                      !.d_database.thread[oldtid].active = FALSE]
<1>0. Refers(b, "recipient", target)
  BY DEF Refers
<1>1. CASE NULL \in {newtid, oldtid}
  BY <1>0, <1>1, LinkedRenaming DEF MergedRecipients
<1>2. CASE NULL \notin {newtid, oldtid}
  <2>1. \/ MergedRecipients(b, target, old).backup = renamed
        \/ MergedRecipients(b, target, old).backup = emptied
    BY <1>2 DEF MergedRecipients
  <2>2. newtid \in Ids(b, "thread") /\ newtid \in MergedThreads /\ oldtid \in MergedThreads
    BY <1>2, ThreadFound, ThreadJoined DEF Linked
  <2> HIDE DEF newtid, oldtid
  <2>3. Linked(moved) /\ Rows(moved, "recipient") = Rows(b, "recipient")
    BY <2>2, LinkedMessageSet
  <2>4. Refers(moved, "recipient", target)
    BY <1>0, <2>3 DEF Refers, Ids
  <2> HIDE DEF moved
  <2>5. Linked(renamed)
    BY <2>3, <2>4, LinkedRenaming
  <2> HIDE DEF renamed
  <2> DEFINE thread == [Rows(renamed, "thread") EXCEPT ![oldtid].meaningful_messages = 0,
                                                       ![oldtid].active = FALSE]
  <2>6. emptied = WithRows(renamed, "thread", thread)
    BY <2>5, ThreadEmptied DEF Linked, Origin, OpenedOk, TablesOk, Shape
  <2>7. /\ DOMAIN thread = Ids(renamed, "thread")
        /\ \A t \in DOMAIN thread : /\ DOMAIN thread[t] = DOMAIN Rows(renamed, "thread")[t]
                                    /\ thread[t].recipient_id = Rows(renamed, "thread")[t].recipient_id
    BY DEF Ids
  <2>8. \A t \in DOMAIN thread : ThreadColumns \subseteq DOMAIN thread[t]
    BY <2>5, <2>7 DEF Linked, Origin, OpenedOk, RowsOk
  <2>9. \A m \in Ids(renamed, "message") : Rows(renamed, "message")[m].thread_id \in DOMAIN thread \cup {NULL}
    BY <2>5, <2>7 DEF Linked, Sound, SoundMessages, Refers
  <2> HIDE DEF thread, emptied
  <2>10. Linked(emptied)
    BY <2>5, <2>6, <2>7, <2>8, <2>9, LinkedThreads
  <2> QED BY <2>1, <2>5, <2>10
<1> QED BY <1>1, <1>2

(* mergeRecipients merges nothing, or two of those that are meant.                *)
LEMMA PairMerged ==
  ASSUME CommandOk(command), NEW b, Origin(b)
  PROVE  \/ MergeRecipients(b, command.mergerecipients).backup = b
         \/ \E target \in Ids(b, "recipient"), old \in Merged :
              /\ {target, old} \subseteq Merged
              /\ MergeRecipients(b, command.mergerecipients).backup = MergedRecipients(b, target, old).backup
<1> DEFINE a == command.mergerecipients
           isnumber == a[1].phone # ""
           old    == IF isnumber THEN CHOOSE i \in ByPhone(b, a[1]) : TRUE ELSE a[1].id
           target == IF a[2].phone # "" THEN NULL ELSE a[2].id
<1>1. \/ MergeRecipients(b, a).backup = b
      \/ /\ Len(a) = 2 /\ {old, target} \subseteq Ids(b, "recipient")
         /\ isnumber => Cardinality(ByPhone(b, a[1])) = 1
         /\ MergeRecipients(b, a).backup = MergedRecipients(b, target, old).backup
  BY DEF MergeRecipients
<1>2. ASSUME Len(a) = 2 PROVE 1 \in DOMAIN a /\ 2 \in DOMAIN a
  <2> DEFINE S == [phone : STRING, id : Nat]
  <2>1. a \in Seq(S)
    BY DEF CommandOk
  <2> HIDE DEF S, a
  <2> QED BY <1>2, <2>1
<1>3. Ids(b, "recipient") \subseteq Ids(opened, "recipient") /\ NULL \notin Ids(b, "recipient")
  BY TableNames DEF Origin, OpenedOk, TablesOk, Some, Ids, NULL
<1>4. \A x : ByPhone(b, x) \subseteq ByPhone(opened, x)
  BY DEF ByPhone, Origin, Some, Ids
<1>5. ASSUME {old, target} \subseteq Ids(b, "recipient"), isnumber => Cardinality(ByPhone(b, a[1])) = 1
      PROVE  old \in Meant(a[1]) /\ target \in Meant(a[2])
  <2>1. CASE isnumber
    <3>0. Cardinality(ByPhone(b, a[1])) = 1
      BY <1>5, <2>1
    <3>1. ByPhone(b, a[1]) # {}
      <4> HIDE DEF a
      <4> QED BY <3>0, FS_EmptySet
    <3>2. old \in ByPhone(b, a[1])
      BY <2>1, <3>1
    <3>3. old \in Meant(a[1])
      BY <1>4, <2>1, <3>2 DEF Meant
    <3>4. target \in Meant(a[2])
      BY <1>3, <1>5 DEF Meant
    <3> QED BY <3>3, <3>4
  <2>2. CASE ~ isnumber
    BY <1>3, <1>5, <2>2 DEF Meant
  <2> QED BY <2>1, <2>2
<1>6. \A i \in DOMAIN a : Meant(a[i]) \subseteq Merged
  BY DEF Merged
<1> HIDE DEF a, old, target, isnumber
<1>7. CASE /\ Len(a) = 2 /\ {old, target} \subseteq Ids(b, "recipient")
           /\ isnumber => Cardinality(ByPhone(b, a[1])) = 1
           /\ MergeRecipients(b, a).backup = MergedRecipients(b, target, old).backup
  <2>1. {target, old} \subseteq Merged
    BY <1>2, <1>5, <1>6, <1>7
  <2> QED BY <1>7, <2>1 DEF a
<1> QED BY <1>1, <1>7 DEF a

LEMMA LinkedMerge ==
  ASSUME CommandOk(command), NEW b, Linked(b)
  PROVE  Linked(MergeRecipients(b, command.mergerecipients).backup)
<1>1. Origin(b)
  BY DEF Linked
<1> QED BY <1>1, PairMerged, LinkedRecipients

-----------------------------------------------------------------------------
(* Between threads without messages of the same time, all of them can be moved.    *)
LEMMA MovedEntirely ==
  ASSUME NEW b, Origin(b), NEW T, Apart(b, T), NEW new \in T, NEW old \in T, new # old
  PROVE  \A m \in Ids(b, "message") :
           Rows(Set(b, "message", "thread_id", new, old), "message")[m].thread_id # old
<1> DEFINE c == Set(b, "message", "thread_id", new, old)
           rows == Rows(b, "message")
           renamed == RenamedRows(rows, "thread_id", new, old)
<1>1. \/ Readdressing(b, c, "thread_id", new, old)
      \/ \E i, j \in DOMAIN rows : Meets("message", rows, renamed, i, j)
  BY MessageSet
<1>2. CASE Readdressing(b, c, "thread_id", new, old)
  BY <1>2 DEF Readdressing, AddressColumns, Renamed
<1>3. ASSUME NEW i \in DOMAIN rows, NEW j \in DOMAIN rows, Meets("message", rows, renamed, i, j)
      PROVE  FALSE
  <2>1. \A m \in DOMAIN rows : MessageColumns \subseteq DOMAIN rows[m]
    BY DEF Origin, OpenedOk, RowsOk, MessageOk, Ids
  <2>2. \A m, n \in DOMAIN rows :
          /\ Key("message", rows[m]) = Key("message", rows[n]) => m = n
          /\ rows[m].thread_id \in T /\ rows[n].thread_id \in T /\ rows[m].date_sent = rows[n].date_sent
               => rows[m].thread_id = rows[n].thread_id
    BY DEF Origin, MessagesUnique, Apart, Ids
  <2>3. \A m \in DOMAIN rows : renamed[m] = RenamedRow(rows[m], "thread_id", new, old)
    BY DEF RenamedRows
  <2> HIDE DEF rows, renamed
  <2>4. \A m \in DOMAIN rows :
          /\ renamed[m].date_sent = rows[m].date_sent
          /\ renamed[m].from_recipient_id = rows[m].from_recipient_id
          /\ renamed[m].thread_id = IF rows[m].thread_id = old THEN new ELSE rows[m].thread_id
    BY <2>1, <2>3 DEF RenamedRow, Renamed, MessageColumns
  <2>5. PICK x \in {renamed[j], rows[j]} :
          /\ i # j /\ Key("message", renamed[i]) # Key("message", rows[i])
          /\ Key("message", renamed[i]) = Key("message", x)
    BY <1>3 DEF Meets
  <2>6. rows[i].thread_id = old /\ renamed[i].thread_id = new
    BY <2>4, <2>5, MessageKey
  <2>7. /\ rows[j].date_sent = rows[i].date_sent /\ rows[j].from_recipient_id = rows[i].from_recipient_id
        /\ x.thread_id = new
    BY <2>4, <2>5, <2>6, MessageKey
  <2>8. rows[j].thread_id \in {old, new}
    BY <2>4, <2>5, <2>7
  <2>9. rows[j].thread_id # new
    BY <2>2, <2>6, <2>7
  <2>10. i = j
    BY <2>2, <2>6, <2>7, <2>8, <2>9, MessageKey
  <2> QED BY <2>5, <2>10
<1> QED BY <1>1, <1>2, <1>3

(* A group that is merged into another: its thread is empty by the time it goes.   *)
LEMMA LinkedGroup ==
  ASSUME NEW b, Linked(b), NEW target, NEW old, {target, old} \subseteq Merged, target # old,
         Len(command.mergegroups) >= 2, tid \in ThreadsOf(b, target)
  PROVE  Linked(MergedGroup(b, target, old)) /\ tid \in ThreadsOf(MergedGroup(b, target, old), target)
<1> DEFINE oldtid == getThreadIdFromRecipient(b, old)
           b1 == Set(b, "message", "thread_id", tid, oldtid)
           b2 == Set(b1, "message", "to_recipient_id", target, old)
           b3 == Set(b2, "reaction", "author_id", target, old)
           thread == Restrict(Rows(b3, "thread"), Ids(b3, "thread") \ {oldtid})
           b4 == WithRows(b3, "thread", thread)
<1>1. CASE oldtid = NULL
  BY <1>1 DEF MergedGroup
<1>2. CASE oldtid # NULL
  <2>1. oldtid \in ThreadsOf(b, old)
    BY <1>2, ThreadFound
  <2>2. /\ tid \in Ids(b, "thread") /\ tid # oldtid
        /\ tid \in MergedThreads /\ oldtid \in MergedThreads /\ Rows(b, "thread")[tid].recipient_id = target
    BY <2>1, ThreadJoined DEF Linked, ThreadsOf
  <2>3. Refers(b, "recipient", target)
    BY <2>2 DEF Linked, Sound, SoundThreads
  <2>4. MergedGroup(b, target, old) = b4
    BY <1>2 DEF MergedGroup
  <2> HIDE DEF oldtid
  <2>5. /\ Linked(b1) /\ Rows(b1, "recipient") = Rows(b, "recipient") /\ Rows(b1, "thread") = Rows(b, "thread")
        /\ Ids(b1, "message") = Ids(b, "message")
    BY <2>2, LinkedMessageSet
  <2>6. \A m \in Ids(b, "message") : Rows(b1, "message")[m].thread_id # oldtid
    BY <2>2, MovedEntirely DEF Linked
  <2>7. Refers(b1, "recipient", target)
    BY <2>3, <2>5 DEF Refers, Ids
  <2> HIDE DEF b1
  <2>8. /\ Linked(b2) /\ Rows(b2, "recipient") = Rows(b, "recipient") /\ Rows(b2, "thread") = Rows(b, "thread")
        /\ Ids(b2, "message") = Ids(b, "message")
        /\ \A m \in Ids(b, "message") : Rows(b2, "message")[m].thread_id # oldtid
    BY <2>5, <2>6, <2>7, LinkedMessageSet
  <2>9. Refers(b2, "recipient", target)
    BY <2>3, <2>8 DEF Refers, Ids
  <2> HIDE DEF b2
  <2>10. /\ Linked(b3) /\ Rows(b3, "thread") = Rows(b, "thread")
         /\ \A m \in Ids(b3, "message") : Rows(b3, "message")[m].thread_id # oldtid
    BY <2>8, <2>9, LinkedReactionSet DEF Ids
  <2> HIDE DEF b3
  <2>11. /\ DOMAIN thread = Ids(b, "thread") \ {oldtid}
         /\ \A t \in DOMAIN thread : thread[t] = Rows(b3, "thread")[t]
    BY <2>10 DEF Restrict, Ids
  <2>12. \A t \in DOMAIN thread : ThreadColumns \subseteq DOMAIN thread[t]
    BY <2>10, <2>11 DEF Linked, Origin, OpenedOk, RowsOk, Ids
  <2>13. \A m \in Ids(b3, "message") : Rows(b3, "message")[m].thread_id \in DOMAIN thread \cup {NULL}
    BY <2>10, <2>11 DEF Linked, Sound, SoundMessages, Refers, Ids
  <2> HIDE DEF thread
  <2>14. Linked(b4) /\ Rows(b4, "thread") = thread
    BY <2>10, <2>11, <2>12, <2>13, LinkedThreads DEF Ids
  <2>15. tid \in ThreadsOf(b4, target)
    BY <2>2, <2>10, <2>11, <2>14 DEF ThreadsOf, Ids
  <2> QED BY <2>4, <2>14, <2>15
<1> QED BY <1>1, <1>2

(* Threads that are brought up to date keep their recipients.                     *)
LEMMA LinkedEntries ==
  ASSUME NEW b, Linked(b)
  PROVE  Linked(UpdateThreadsEntries(b))
<1> DEFINE thread == Entries(b, Ids(b, "thread"))
<1>1. UpdateThreadsEntries(b) = WithRows(b, "thread", thread)
  BY DEF UpdateThreadsEntries, Entries
<1>2. /\ DOMAIN thread = Ids(b, "thread")
      /\ \A t \in Ids(b, "thread") :
           thread[t] = ThreadEntry(Rows(b, "message"), MessagesOf(b, t), Rows(b, "thread")[t])
  BY DEF Entries
<1> HIDE DEF thread
<1>3. \A t \in DOMAIN thread : /\ ThreadColumns \subseteq DOMAIN thread[t]
                               /\ thread[t].recipient_id = Rows(b, "thread")[t].recipient_id
  BY <1>2, EntryColumns DEF Linked, Origin
<1>4. \A m \in Ids(b, "message") : Rows(b, "message")[m].thread_id \in DOMAIN thread \cup {NULL}
  BY <1>2 DEF Linked, Sound, SoundMessages, Refers
<1> QED BY <1>1, <1>2, <1>3, <1>4, LinkedThreads
-----------------------------------------------------------------------------
(* The operations before any recipient is merged, and before attachments go.      *)
Before == {"removeDoubles", "cropToDates", "cropToThread", "mergeRecipients"}
Joining == Before \cup {"mergeGroups", "eachGroup", "deleteAttachments"}

(* Until recipients are merged: the backup is part of what was opened, and of a     *)
(* recipient that is gone there is nothing left.                                  *)
OriginInv ==
  /\ DeclaredOk(opened)
  /\ pc \in Before =>
       /\ Origin(backup)
       /\ \A r \in Ids(opened, "recipient") \ Ids(backup, "recipient") : ~ Speaks(backup, r)

(* What has to hold of the backup and of what is asked for.                        *)
Orderly ==
  /\ Holds(opened, ForeignKeys \ RevisionKeys)
  /\ Len(command.mergegroups) >= 2 => IsInjective(command.mergegroups) /\ Apart(opened, MergedThreads)

RefInv ==
  Orderly =>
    /\ pc \in Joining => Linked(backup)
    /\ pc # "autofix" => Sound(backup)
    /\ pc = "eachGroup" =>
         /\ Len(command.mergegroups) >= 2
         /\ tid # NULL => tid \in ThreadsOf(backup, Last(command.mergegroups))

(* So it is in the beginning, and after each step.                               *)
LEMMA OriginStart == Init => OriginInv
<1> SUFFICES ASSUME Init PROVE OriginInv
  OBVIOUS
<1>1. PICK o \in Openings : opened = o.backup /\ backup = o.backup
  BY DEF Init
<1>2. OpenedOk(opened) /\ DeclaredOk(opened) /\ backup = opened
  BY <1>1, EditAssumption
<1> QED BY <1>2 DEF OriginInv, Origin, DeclaredOk, Some

(* Cleaning leaves nothing of a recipient that was gone before it, or goes with  *)
(* it.                                                                           *)
LEMMA NotSpokenOf ==
  ASSUME NEW b, NEW c, FewerReferences(b, c),
         \A r \in Ids(opened, "recipient") \ Ids(b, "recipient") : ~ Speaks(b, r)
  PROVE  \A r \in Ids(opened, "recipient") \ Ids(c, "recipient") : ~ Speaks(c, r)
<1> SUFFICES ASSUME NEW r \in Ids(opened, "recipient") \ Ids(c, "recipient"), Speaks(c, r) PROVE FALSE
  OBVIOUS
<1>1. r \in ReferencedRecipients(c)
  BY Referenced DEF Speaks
<1>2. r \notin Ids(b, "recipient")
  BY <1>1 DEF FewerReferences
<1>3. ~ Speaks(b, r)
  BY <1>2
<1>4. ASSUME NEW m \in Ids(c, "message"), LET x == Rows(c, "message")[m]
                                          IN  r \in {x.from_recipient_id, x.to_recipient_id, x.quote_author}
      PROVE  FALSE
  <2>1. /\ m \in Ids(b, "message")
        /\ LET x == Rows(b, "message")[m]
           IN  r \in {x.from_recipient_id, x.to_recipient_id, x.quote_author}
    BY <1>4 DEF FewerReferences, SameAddress, AddressColumns
  <2>2. Rows(b, "message")[m] \in Contents(b, "message")
    BY <2>1 DEF Contents, Range, Ids
  <2> QED BY <1>3, <2>1, <2>2 DEF Speaks
<1>5. ASSUME NEW i \in Ids(c, "reaction"), Rows(c, "reaction")[i].author_id = r PROVE FALSE
  <2>1. i \in Ids(b, "reaction") /\ Rows(b, "reaction")[i].author_id = r
    BY <1>5 DEF FewerReferences, Some, Ids
  <2>2. Rows(b, "reaction")[i] \in Contents(b, "reaction")
    BY <2>1 DEF Contents, Range, Ids
  <2> QED BY <1>3, <2>1, <2>2 DEF Speaks
<1> QED BY <1>4, <1>5 DEF Speaks, Contents, Range, Ids

(* The steps until recipients are merged.                                         *)
LEMMA BeforeSteps ==
  EditInv /\ [Next]_vars =>
    /\ UNCHANGED <<opened, command>>
    /\ pc \in Before \ {"mergeRecipients"} =>
         \/ backup' = backup
         \/ FewerReferences(backup, backup') /\ (Sound(backup) => Sound(backup'))
    /\ pc' \in Before /\ backup' # backup => pc \in Before \ {"mergeRecipients"}
    /\ pc' \in Before => pc \in Before
    /\ pc \in Before \ {"mergeRecipients"} => pc' \in Before
<1> SUFFICES ASSUME EditInv, [Next]_vars
             PROVE  /\ UNCHANGED <<opened, command>>
                    /\ pc \in Before \ {"mergeRecipients"} =>
                         \/ backup' = backup
                         \/ FewerReferences(backup, backup') /\ (Sound(backup) => Sound(backup'))
                    /\ pc' \in Before /\ backup' # backup => pc \in Before \ {"mergeRecipients"}
                    /\ pc' \in Before => pc \in Before
                    /\ pc \in Before \ {"mergeRecipients"} => pc' \in Before
  OBVIOUS
<1>1. CASE removeDoubles
  BY <1>1, RemoveDoublesEffect, FewerOf, SoundWithoutDoubles DEF Before
<1>2. CASE cropToDates
  BY <1>2, CropToDatesEffect, FewerOf, SoundFewer DEF Before
<1>3. CASE cropToThread
  BY <1>3, CropToThreadEffect, FewerOf, SoundFewer DEF Before
<1>4. CASE mergeRecipients
  BY <1>4, MergeRecipientsEffect DEF Before
<1>5. CASE mergeGroups
  BY <1>5 DEF mergeGroups, Before
<1>6. CASE MergeGroup \/ GroupsMerged
  BY <1>6, MergeGroupEffect, GroupsMergedEffect DEF Before
<1>7. CASE deleteAttachments
  BY <1>7, DeleteAttachmentsEffect DEF Before
<1>8. CASE FindViolations \/ DeleteViolations
  BY <1>8, AutofixEffect DEF Before
<1>9. CASE UNCHANGED vars
  BY <1>9 DEF vars, Before
<1> QED BY <1>1, <1>2, <1>3, <1>4, <1>5, <1>6, <1>7, <1>8, <1>9 DEF Next

LEMMA OriginInvariance == EditInv /\ OriginInv /\ [Next]_vars => OriginInv'
<1> SUFFICES ASSUME EditInv, OriginInv, [Next]_vars PROVE OriginInv'
  OBVIOUS
<1>1. UNCHANGED <<opened, command>> /\ EditInv'
  BY BeforeSteps, EditInvariance
<1>2. CASE pc' \in Before
  <2>1. pc \in Before
    BY <1>2, BeforeSteps
  <2>2. CASE backup' = backup
    BY <1>1, <2>1, <2>2 DEF OriginInv, Origin, Speaks
  <2>3. CASE backup' # backup
    <3>1. FewerReferences(backup, backup')
      BY <1>2, <2>3, BeforeSteps
    <3>2. Origin(backup') /\ OpenedOk(backup')
      <4>1. \A t : Rows(opened, t)' = Rows(opened, t) /\ Ids(opened, t)' = Ids(opened, t)
        BY <1>1 DEF Rows, Ids
      <4> QED BY <1>1, <2>1, <3>1, OriginFewer DEF OriginInv, EditInv
    <3>3. \A r \in Ids(opened, "recipient") \ Ids(backup', "recipient") : ~ Speaks(backup', r)
      BY <2>1, <3>1, NotSpokenOf DEF OriginInv
    <3> QED BY <1>1, <3>2, <3>3 DEF OriginInv, Origin, DeclaredOk, MessagesUnique, NumbersUnique, ReactionsOk, Ids, Rows
  <2> QED BY <2>2, <2>3
<1>3. CASE pc' \notin Before
  BY <1>1, <1>3 DEF OriginInv
<1> QED BY <1>2, <1>3

(* With fewer messages there are no more of the same time.                       *)
LEMMA ApartFewer ==
  ASSUME NEW b, NEW T, Apart(b, T), NEW c, FewerReferences(b, c)
  PROVE  Apart(c, T)
BY DEF Apart, FewerReferences, SameAddress, AddressColumns

(* The references: in the beginning, and one operation after the other.          *)
LEMMA RefStart == Init /\ OriginInv => RefInv
<1> SUFFICES ASSUME Init, OriginInv, Orderly PROVE Linked(backup) /\ Sound(backup) /\ pc # "eachGroup"
  BY DEF RefInv
<1>1. pc = "removeDoubles" /\ backup = opened
  BY DEF Init
<1>2. Origin(backup)
  BY <1>1 DEF OriginInv, Before
<1>3. Sound(backup)
  BY <1>1, SoundIsHolds DEF Orderly
<1> QED BY <1>1, <1>2, <1>3 DEF Orderly, Linked

LEMMA RefInvariance == EditInv /\ OriginInv /\ RefInv /\ [Next]_vars => RefInv'
<1> SUFFICES ASSUME EditInv, OriginInv, RefInv, [Next]_vars, Orderly'
             PROVE  /\ (pc \in Joining => Linked(backup))'
                    /\ (pc # "autofix" => Sound(backup))'
                    /\ (pc = "eachGroup" =>
                          /\ Len(command.mergegroups) >= 2
                          /\ tid # NULL => tid \in ThreadsOf(backup, Last(command.mergegroups)))'
  BY DEF RefInv
<1>1. UNCHANGED <<opened, command>> /\ OriginInv'
  BY BeforeSteps, OriginInvariance
<1>0. MergedThreads' = MergedThreads
  BY <1>1 DEF MergedThreads, Merged, Meant
<1>2. Orderly
  BY <1>0, <1>1 DEF Orderly
<1>3. /\ pc \in Joining => Linked(backup)
      /\ pc # "autofix" => Sound(backup)
      /\ pc = "eachGroup" =>
           /\ Len(command.mergegroups) >= 2
           /\ tid # NULL => tid \in ThreadsOf(backup, Last(command.mergegroups))
  BY <1>2 DEF RefInv
<1>4. \A b : Linked(b) => Sound(b)
  BY DEF Linked
<1>5. ASSUME Linked(backup') PROVE Linked(backup)'
  BY <1>0, <1>1, <1>5 DEF Linked, Origin
<1>6. CASE pc \in Before \ {"mergeRecipients"}
  <2>1. pc' \in Before /\ (backup' = backup \/ (FewerReferences(backup, backup') /\ Sound(backup')))
    BY <1>3, <1>6, BeforeSteps DEF Before
  <2>2. Origin(backup')
    <3>1. Origin(backup)'
      BY <1>1, <2>1 DEF OriginInv
    <3> QED BY <1>1, <3>1 DEF Origin, Ids, Rows
  <2>3. Linked(backup')
    BY <1>3, <1>6, <2>1, <2>2, ApartFewer DEF Linked, Joining
  <2> QED BY <1>4, <1>5, <2>1, <2>3 DEF Before
<1>7. CASE mergeRecipients
  <2>1. pc = "mergeRecipients" /\ pc' \in {"mergeGroups", "aborted"}
        /\ backup' \in {backup, MergeRecipients(backup, command.mergerecipients).backup}
    BY <1>7 DEF mergeRecipients, Try, Step
  <2>2. Linked(backup')
    BY <1>3, <2>1, LinkedMerge DEF EditInv, Joining, Before
  <2> QED BY <1>4, <1>5, <2>1, <2>2
<1>8. CASE mergeGroups
  <2>1. /\ pc = "mergeGroups" /\ backup' = backup
        /\ \/ pc' = "deleteAttachments"
           \/ /\ pc' = "eachGroup" /\ ~ (Len(command.mergegroups) < 2)
              /\ tid' = getThreadIdFromRecipient(backup, Last(command.mergegroups))
    BY <1>8 DEF mergeGroups
  <2>2. Len(command.mergegroups) \in Nat
    BY DEF EditInv, CommandOk
  <2>3. pc' = "eachGroup" =>
          /\ Len(command.mergegroups) >= 2
          /\ tid' # NULL => tid' \in ThreadsOf(backup, Last(command.mergegroups))
    BY <2>1, <2>2, ThreadFound
  <2>4. Linked(backup')
    BY <1>3, <2>1 DEF Joining
  <2> QED BY <1>1, <1>4, <1>5, <2>1, <2>3, <2>4
<1>9. CASE MergeGroup
  <2> DEFINE g == command.mergegroups
  <2>1. /\ pc = "eachGroup" /\ pc' = pc /\ tid' = tid /\ tid # NULL /\ nth < Len(g)
        /\ backup' = MergedGroup(backup, Last(g), g[nth])
    BY <1>9 DEF MergeGroup
  <2>2. g \in Seq(Nat) /\ nth \in 1 .. Len(g) + 1 /\ Len(g) >= 2
    BY <1>3, <2>1 DEF EditInv, CommandOk
  <2>3. Last(g) = g[Len(g)] /\ nth \in DOMAIN g /\ Len(g) \in DOMAIN g /\ nth # Len(g)
    <3> HIDE DEF g
    <3> QED BY <2>1, <2>2 DEF Last
  <2>4. Last(g) # g[nth]
    BY <1>2, <2>2, <2>3 DEF Orderly, IsInjective
  <2>5. {Last(g), g[nth]} \subseteq Merged
    BY <2>3 DEF Merged, Range
  <2>6. Linked(backup) /\ tid \in ThreadsOf(backup, Last(g))
    BY <1>3, <2>1 DEF Joining
  <2>7. Linked(backup') /\ tid \in ThreadsOf(backup', Last(g))
    BY <2>1, <2>2, <2>4, <2>5, <2>6, LinkedGroup
  <2> QED BY <1>1, <1>4, <1>5, <2>1, <2>2, <2>7
<1>10. CASE GroupsMerged
  <2>1. pc = "eachGroup" /\ pc' = "deleteAttachments" /\ backup' = UpdateThreadsEntries(backup)
    BY <1>10 DEF GroupsMerged, Step
  <2>2. Linked(backup')
    BY <1>3, <2>1, LinkedEntries DEF Joining
  <2> QED BY <1>4, <1>5, <2>1, <2>2
<1>11. CASE deleteAttachments
  <2>1. pc = "deleteAttachments" /\ pc' \in {"autofix", "done", "aborted"}
    BY <1>11, DeleteAttachmentsEffect
  <2>2. Sound(backup')
    BY <1>3, <2>1, <1>11, DeleteAttachmentsEffect, SoundAlike, SoundFewer
  <2> QED BY <2>1, <2>2 DEF Joining, Before
<1>12. CASE FindViolations
  <2>1. /\ pc' \in {"autofix", "done"} /\ backup' = backup
        /\ pc' = "done" => Holds(backup, ForeignKeys)
    BY <1>12 DEF FindViolations, Holds
  <2>2. pc' = "done" => Sound(backup)
    BY <2>1, SoundIsHolds DEF Holds
  <2> QED BY <2>1, <2>2 DEF Joining, Before
<1>13. CASE DeleteViolations
  BY <1>13 DEF DeleteViolations, Joining, Before
<1>14. CASE UNCHANGED vars
  BY <1>1, <1>3, <1>5, <1>14 DEF vars
<1> QED BY <1>6, <1>7, <1>8, <1>9, <1>10, <1>11, <1>12, <1>13, <1>14
        DEF Next, removeDoubles, cropToDates, cropToThread, Step, Before

(* Between threads, messages, recipients, reactions and groups, whatever is asked   *)
(* for and in whichever combination: the references that held still hold.          *)
THEOREM ReferencesStay == Spec => []ReferencesHold
<1>1. EditInv /\ RefInv => ReferencesHold
  <2> SUFFICES ASSUME RefInv, pc # "autofix", Holds(opened, ForeignKeys \ RevisionKeys),
                      Len(command.mergegroups) >= 2 =>
                        IsInjective(command.mergegroups) /\ Apart(opened, MergedThreads)
               PROVE  Holds(backup, ForeignKeys \ RevisionKeys)
    BY DEF ReferencesHold
  <2>1. Sound(backup)
    BY DEF RefInv, Orderly
  <2> QED BY <2>1, SoundIsHolds
<1>2. Spec => []OriginInv
  BY EditStart, EditInvariance, OriginStart, OriginInvariance, PTL DEF Spec
<1>3. Spec => []RefInv
  BY <1>2, EditInvariant, OriginStart, RefStart, RefInvariance, PTL DEF Spec
<1> QED BY <1>1, <1>3, EditInvariant, PTL
-----------------------------------------------------------------------------
(* Where a message is: in the thread it was in, or both are of those that are to be *)
(* made one.  UPDATEs of messages and of reactions keep to that.                   *)
Joins(b, c) ==
  /\ Origin(c) /\ Ids(c, "message") \subseteq Ids(b, "message")
  /\ \A m \in Ids(c, "message") :
       LET was == Rows(b, "message")[m].thread_id  is == Rows(c, "message")[m].thread_id
       IN  is = was \/ {was, is} \subseteq MergedThreads

LEMMA JoinsTwice ==
  ASSUME NEW b, NEW c, NEW d, Joins(b, c), Joins(c, d)
  PROVE  Joins(b, d)
BY DEF Joins

LEMMA JoinsMessageSet ==
  ASSUME NEW b, Origin(b), NEW column \in {"thread_id", "from_recipient_id", "to_recipient_id", "quote_author"},
         NEW new, NEW old, column = "thread_id" => {new, old} \subseteq MergedThreads
  PROVE  Joins(b, Set(b, "message", column, new, old))
<1> DEFINE c == Set(b, "message", column, new, old)
<1>1. /\ Origin(c) /\ Ids(c, "message") = Ids(b, "message")
      /\ Readdressing(b, c, column, new, old) \/ Rows(c, "message") = Rows(b, "message")
  BY MessageSet
<1> HIDE DEF c
<1>2. CASE Rows(c, "message") = Rows(b, "message")
  BY <1>1, <1>2 DEF Joins, c
<1>3. CASE Readdressing(b, c, column, new, old)
  <2>1. \A m \in Ids(b, "message") :
          Rows(c, "message")[m].thread_id =
             IF "thread_id" = column THEN Renamed(Rows(b, "message")[m].thread_id, new, old)
                                     ELSE Rows(b, "message")[m].thread_id
    BY <1>3 DEF Readdressing, AddressColumns
  <2> QED BY <1>1, <2>1 DEF Joins, Renamed, c
<1> QED BY <1>1, <1>2, <1>3

LEMMA JoinsReactionSet ==
  ASSUME NEW b, Origin(b), NEW new, NEW old
  PROVE  Joins(b, Set(b, "reaction", "author_id", new, old))
<1> DEFINE c == Set(b, "reaction", "author_id", new, old)
<1>1. Origin(c) /\ \A u \in EditTables \ {"reaction"} : Rows(c, u) = Rows(b, u)
  BY ReactionSet
<1> HIDE DEF c
<1>2. Rows(c, "message") = Rows(b, "message")
  BY <1>1, TableNames
<1> QED BY <1>1, <1>2 DEF Joins, Ids, c

LEMMA JoinsThreads ==
  ASSUME NEW b, Origin(b), NEW rows, DOMAIN rows \subseteq Ids(b, "thread"),
         \A t \in DOMAIN rows : /\ ThreadColumns \subseteq DOMAIN rows[t]
                                /\ rows[t].recipient_id = Rows(b, "thread")[t].recipient_id
  PROVE  Joins(b, WithRows(b, "thread", rows))
<1> DEFINE c == WithRows(b, "thread", rows)
<1>1. /\ OpenedOk(c) /\ Rows(c, "thread") = rows
      /\ \A u \in EditTables \ {"thread"} : Rows(c, u) = Rows(b, u)
  BY ThreadsSet, RowsPlaced, TableNames DEF Origin, OpenedOk, TablesOk, Shape, Readdressed
<1> HIDE DEF c
<1>2. \A u \in {"message", "reaction", "recipient"} : Rows(c, u) = Rows(b, u) /\ Ids(c, u) = Ids(b, u)
  BY <1>1, TableNames DEF Ids
<1>3. Origin(c)
  BY <1>1, <1>2 DEF Origin, MessagesUnique, ReactionsOk, Ids
<1> QED BY <1>2, <1>3 DEF Joins, c

LEMMA JoinsRenaming ==
  ASSUME NEW b, Origin(b), NEW new, NEW old
  PROVE  Joins(b, Renaming(b, new, old))
<1> DEFINE b1 == Set(b, "message", "from_recipient_id", new, old)
           b2 == Set(b1, "message", "to_recipient_id", new, old)
           b3 == Set(b2, "message", "quote_author", new, old)
           b4 == Set(b3, "reaction", "author_id", new, old)
<1>0. Renaming(b, new, old) = b4 /\ \A c, d : Joins(c, d) => Origin(d)
  BY DEF Renaming, Joins
<1>1. Joins(b, b1)
  BY JoinsMessageSet
<1> HIDE DEF b1
<1>2. Joins(b1, b2)
  BY <1>0, <1>1, JoinsMessageSet
<1> HIDE DEF b2
<1>3. Joins(b2, b3)
  BY <1>0, <1>2, JoinsMessageSet
<1> HIDE DEF b3
<1>4. Joins(b3, b4)
  BY <1>0, <1>3, JoinsReactionSet
<1> HIDE DEF b4
<1> QED BY <1>0, <1>1, <1>2, <1>3, <1>4, JoinsTwice

(* One recipient merged into another, and one of all pairs that are asked for.     *)
LEMMA JoinsRecipients ==
  ASSUME NEW b, Origin(b), NEW target, NEW old, {target, old} \subseteq Merged
  PROVE  Joins(b, MergedRecipients(b, target, old).backup)
<1> DEFINE newtid  == getThreadIdFromRecipient(b, target)
           oldtid  == getThreadIdFromRecipient(b, old)
           moved   == Set(b, "message", "thread_id", newtid, oldtid)
           renamed == Renaming(moved, target, old)
           emptied == [renamed EXCEPT !.d_database.thread[oldtid].meaningful_messages = 0,
                                      !.d_database.thread[oldtid].active = FALSE]
<1>1. CASE NULL \in {newtid, oldtid}
  BY <1>1, JoinsRenaming DEF MergedRecipients
<1>2. CASE NULL \notin {newtid, oldtid}
  <2>1. \/ MergedRecipients(b, target, old).backup = renamed
        \/ MergedRecipients(b, target, old).backup = emptied
    BY <1>2 DEF MergedRecipients
  <2>2. {newtid, oldtid} \subseteq MergedThreads
    BY <1>2, ThreadFound, ThreadJoined
  <2> HIDE DEF newtid, oldtid
  <2>3. Joins(b, moved) /\ Origin(moved)
    BY <2>2, JoinsMessageSet DEF Joins
  <2> HIDE DEF moved
  <2>4. Joins(moved, renamed) /\ Origin(renamed)
    BY <2>3, JoinsRenaming DEF Joins
  <2> HIDE DEF renamed
  <2> DEFINE thread == [Rows(renamed, "thread") EXCEPT ![oldtid].meaningful_messages = 0,
                                                       ![oldtid].active = FALSE]
  <2>5. emptied = WithRows(renamed, "thread", thread)
    BY <2>4, ThreadEmptied DEF Origin, OpenedOk, TablesOk, Shape
  <2>6. /\ DOMAIN thread = Ids(renamed, "thread")
        /\ \A t \in DOMAIN thread : /\ DOMAIN thread[t] = DOMAIN Rows(renamed, "thread")[t]
                                    /\ thread[t].recipient_id = Rows(renamed, "thread")[t].recipient_id
    BY DEF Ids
  <2>7. \A t \in DOMAIN thread : ThreadColumns \subseteq DOMAIN thread[t]
    BY <2>4, <2>6 DEF Origin, OpenedOk, RowsOk
  <2> HIDE DEF thread, emptied
  <2>8. Joins(renamed, emptied)
    BY <2>4, <2>5, <2>6, <2>7, JoinsThreads
  <2>9. Joins(b, renamed)
    BY <2>3, <2>4, JoinsTwice
  <2> QED BY <2>1, <2>8, <2>9, JoinsTwice
<1> QED BY <1>1, <1>2

LEMMA JoinsMerge ==
  ASSUME CommandOk(command), NEW b, Origin(b)
  PROVE  Joins(b, MergeRecipients(b, command.mergerecipients).backup)
<1>1. CASE MergeRecipients(b, command.mergerecipients).backup = b
  BY <1>1 DEF Joins
<1>2. ASSUME NEW target, NEW old, {target, old} \subseteq Merged,
             MergeRecipients(b, command.mergerecipients).backup = MergedRecipients(b, target, old).backup
      PROVE  Joins(b, MergeRecipients(b, command.mergerecipients).backup)
  BY <1>2, JoinsRecipients
<1> QED BY <1>1, <1>2, PairMerged

(* A group merged into another, and threads brought up to date.                    *)
LEMMA JoinsGroup ==
  ASSUME NEW b, Origin(b), NEW target, NEW old \in Merged, tid \in MergedThreads
  PROVE  Joins(b, MergedGroup(b, target, old))
<1> DEFINE oldtid == getThreadIdFromRecipient(b, old)
           b1 == Set(b, "message", "thread_id", tid, oldtid)
           b2 == Set(b1, "message", "to_recipient_id", target, old)
           b3 == Set(b2, "reaction", "author_id", target, old)
           thread == Restrict(Rows(b3, "thread"), Ids(b3, "thread") \ {oldtid})
           b4 == WithRows(b3, "thread", thread)
<1>0. \A c, d : Joins(c, d) => Origin(d)
  BY DEF Joins
<1>1. CASE oldtid = NULL
  BY <1>1 DEF MergedGroup, Joins
<1>2. CASE oldtid # NULL
  <2>1. oldtid \in MergedThreads
    BY <1>2, ThreadFound, ThreadJoined
  <2>2. MergedGroup(b, target, old) = b4
    BY <1>2 DEF MergedGroup
  <2> HIDE DEF oldtid
  <2>3. Joins(b, b1)
    BY <2>1, JoinsMessageSet
  <2> HIDE DEF b1
  <2>4. Joins(b1, b2)
    BY <1>0, <2>3, JoinsMessageSet
  <2> HIDE DEF b2
  <2>5. Joins(b2, b3) /\ Origin(b3)
    BY <1>0, <2>4, JoinsReactionSet
  <2> HIDE DEF b3
  <2>6. /\ DOMAIN thread \subseteq Ids(b3, "thread")
        /\ \A t \in DOMAIN thread : thread[t] = Rows(b3, "thread")[t]
    BY DEF Restrict, Ids
  <2>7. \A t \in DOMAIN thread : ThreadColumns \subseteq DOMAIN thread[t]
    BY <2>5, <2>6 DEF Origin, OpenedOk, RowsOk, Ids
  <2> HIDE DEF thread
  <2>8. Joins(b3, b4)
    BY <2>5, <2>6, <2>7, JoinsThreads
  <2> HIDE DEF b4
  <2> QED BY <2>2, <2>3, <2>4, <2>5, <2>8, JoinsTwice
<1> QED BY <1>1, <1>2

LEMMA JoinsEntries ==
  ASSUME NEW b, Origin(b)
  PROVE  Joins(b, UpdateThreadsEntries(b))
<1> DEFINE thread == Entries(b, Ids(b, "thread"))
<1>1. UpdateThreadsEntries(b) = WithRows(b, "thread", thread)
  BY DEF UpdateThreadsEntries, Entries
<1>2. /\ DOMAIN thread = Ids(b, "thread")
      /\ \A t \in Ids(b, "thread") :
           thread[t] = ThreadEntry(Rows(b, "message"), MessagesOf(b, t), Rows(b, "thread")[t])
  BY DEF Entries
<1> HIDE DEF thread
<1>3. \A t \in DOMAIN thread : /\ ThreadColumns \subseteq DOMAIN thread[t]
                               /\ thread[t].recipient_id = Rows(b, "thread")[t].recipient_id
  BY <1>2, EntryColumns DEF Origin
<1> QED BY <1>1, <1>2, <1>3, JoinsThreads

(* Until attachments are deleted, messages are where they were or were to go.      *)
JoinInv ==
  /\ pc \in Joining => Joins(opened, backup)
  /\ pc = "eachGroup" => (tid # NULL => tid \in MergedThreads)

LEMMA JoinStart == Init /\ OriginInv => JoinInv
BY DEF Init, OriginInv, Before, JoinInv, Joins

LEMMA JoinInvariance == EditInv /\ OriginInv /\ JoinInv /\ [Next]_vars => JoinInv'
<1> SUFFICES ASSUME EditInv, OriginInv, JoinInv, [Next]_vars PROVE JoinInv'
  OBVIOUS
<1>1. UNCHANGED <<opened, command>> /\ OriginInv'
  BY BeforeSteps, OriginInvariance
<1>2. MergedThreads' = MergedThreads
  BY <1>1 DEF MergedThreads, Merged, Meant
<1>3. ASSUME Joins(opened, backup') PROVE Joins(opened, backup)'
  BY <1>1, <1>2, <1>3 DEF Joins, Origin
<1>4. ASSUME pc \in Joining, Joins(backup, backup') PROVE Joins(opened, backup)'
  BY <1>3, <1>4, JoinsTwice DEF JoinInv
<1>5. pc \in Joining => Origin(backup)
  BY DEF JoinInv, Joins
<1>6. CASE pc \in Before \ {"mergeRecipients"}
  <2>1. pc' \in Before /\ (backup' = backup \/ FewerReferences(backup, backup'))
    BY <1>6, BeforeSteps
  <2>2. Origin(backup')
    <3>1. Origin(backup)'
      BY <1>1, <2>1 DEF OriginInv
    <3> QED BY <1>1, <3>1 DEF Origin, Ids, Rows
  <2>3. Joins(backup, backup')
    BY <2>1, <2>2 DEF Joins, FewerReferences, SameAddress, AddressColumns
  <2> QED BY <1>4, <1>6, <2>1, <2>3 DEF JoinInv, Joining, Before
<1>7. CASE mergeRecipients
  <2>1. pc = "mergeRecipients" /\ pc' \in {"mergeGroups", "aborted"}
        /\ backup' \in {backup, MergeRecipients(backup, command.mergerecipients).backup}
    BY <1>7 DEF mergeRecipients, Try, Step
  <2>2. Joins(backup, backup)
    BY <1>5, <2>1 DEF Joins, Joining, Before
  <2>3. Joins(backup, backup')
    BY <1>5, <2>1, <2>2, JoinsMerge DEF EditInv, Joining, Before
  <2> QED BY <1>4, <2>1, <2>3 DEF JoinInv, Joining, Before
<1>8. CASE mergeGroups
  <2> DEFINE g == command.mergegroups
  <2>1. /\ pc = "mergeGroups" /\ backup' = backup
        /\ \/ pc' = "deleteAttachments"
           \/ /\ pc' = "eachGroup" /\ ~ (Len(g) < 2)
              /\ tid' = getThreadIdFromRecipient(backup, Last(g))
    BY <1>8 DEF mergeGroups
  <2>2. g \in Seq(Nat)
    BY DEF EditInv, CommandOk
  <2>3. ASSUME pc' = "eachGroup", tid' # NULL PROVE tid' \in MergedThreads
    <3>1. Last(g) = g[Len(g)] /\ Len(g) \in DOMAIN g
      <4> HIDE DEF g
      <4> QED BY <2>1, <2>2, <2>3 DEF Last
    <3>2. Last(g) \in Merged
      BY <3>1 DEF Merged, Range
    <3>3. tid' \in ThreadsOf(backup, Last(g))
      BY <2>1, <2>3, ThreadFound
    <3> QED BY <1>5, <2>1, <3>2, <3>3, ThreadJoined DEF Joining
  <2>4. Joins(opened, backup')
    BY <2>1 DEF JoinInv, Joining
  <2> QED BY <1>2, <1>3, <2>3, <2>4 DEF JoinInv
<1>9. CASE MergeGroup
  <2> DEFINE g == command.mergegroups
  <2>1. /\ pc = "eachGroup" /\ pc' = pc /\ tid' = tid /\ tid # NULL /\ nth < Len(g)
        /\ backup' = MergedGroup(backup, Last(g), g[nth])
    BY <1>9 DEF MergeGroup
  <2>2. nth \in DOMAIN g
    <3>1. g \in Seq(Nat) /\ nth \in 1 .. Len(g) + 1
      BY DEF EditInv, CommandOk
    <3> HIDE DEF g
    <3> QED BY <2>1, <3>1
  <2>3. g[nth] \in Merged /\ tid \in MergedThreads
    BY <2>1, <2>2 DEF Merged, Range, JoinInv
  <2>4. Joins(backup, backup')
    BY <1>5, <2>1, <2>3, JoinsGroup DEF Joining
  <2> QED BY <1>2, <1>4, <2>1, <2>3, <2>4 DEF JoinInv, Joining
<1>10. CASE GroupsMerged
  <2>1. pc = "eachGroup" /\ pc' = "deleteAttachments" /\ backup' = UpdateThreadsEntries(backup)
    BY <1>10 DEF GroupsMerged, Step
  <2>2. Joins(backup, backup')
    BY <1>5, <2>1, JoinsEntries DEF Joining
  <2> QED BY <1>4, <2>1, <2>2 DEF JoinInv, Joining
<1>11. CASE deleteAttachments \/ FindViolations \/ DeleteViolations
  BY <1>11, DeleteAttachmentsEffect, AutofixEffect DEF JoinInv, Joining, Before
<1>12. CASE UNCHANGED vars
  BY <1>1, <1>2, <1>3, <1>12 DEF vars, JoinInv
<1> QED BY <1>6, <1>7, <1>8, <1>9, <1>10, <1>11, <1>12
        DEF Next, removeDoubles, cropToDates, cropToThread, Step, Before

LEMMA JoinInvariant == Spec => []JoinInv
<1>1. Spec => []OriginInv
  BY EditInvariant, OriginStart, OriginInvariance, PTL DEF Spec
<1> QED BY <1>1, EditInvariant, OriginStart, JoinStart, JoinInvariance, PTL DEF Spec
-----------------------------------------------------------------------------
(* Until attachments are deleted, what a message says is what it said when the    *)
(* backup was opened; and until recipients are merged, it is where it was.       *)
LossInv ==
  /\ OpenedOk(opened) /\ PositionsOk(opened)
  /\ pc = "removeDoubles" => backup = opened
  /\ pc \in {"removeDoubles", "cropToDates", "cropToThread", "mergeRecipients", "mergeGroups",
             "eachGroup", "deleteAttachments"} => Kept(opened, backup)
  /\ pc \in {"removeDoubles", "cropToDates", "cropToThread"} => SameThreads(opened, backup)
  /\ NothingElseLost

(* A reason that was given for the loss of a message.                            *)
Reason(m) ==
  LET row == Rows(opened, "message")[m]
  IN  \/ Double(m)
      \/ command.removedoubles >= 0 /\ row.latest_revision_id # NULL /\ Double(row.latest_revision_id)
      \/ /\ command.croptodates # <<>>
         /\ \A i \in DOMAIN command.croptodates : ~ Covers(command.croptodates[i], row.date_received)
      \/ command.croptothreads # {} /\ row.thread_id \notin command.croptothreads
      \/ \E i \in DOMAIN command.deleteattachments : NothingButListed(m, command.deleteattachments[i])

Undamaged == Holds(opened, ForeignKeys) /\ ~ command.autofixfkc

LEMMA LossByReason ==
  NothingElseLost <=> (Undamaged => \A m \in Ids(opened, "message") \ Ids(backup, "message") : Reason(m))
BY DEF NothingElseLost, Undamaged, Reason

(* A step that loses messages for a reason only.                                 *)
LEMMA LossStep ==
  ASSUME NothingElseLost, UNCHANGED <<opened, command>>,
         Undamaged => \A m \in Ids(opened, "message") :
            m \in Ids(backup, "message") \ Ids(backup', "message") => Reason(m)
  PROVE  NothingElseLost'
<1>1. Undamaged => \A m \in Ids(opened, "message") \ Ids(backup', "message") : Reason(m)
  BY LossByReason
<1>2. \A m \in Ids(opened, "message") \ Ids(backup', "message") : Reason(m) <=> Reason(m)'
  <2>1. MergedThreads' = MergedThreads
    BY DEF MergedThreads, Merged, Meant
  <2>2. \A m, spec : NothingButListed(m, spec)' <=> NothingButListed(m, spec)
    BY <2>1 DEF NothingButListed
  <2>3. \A m : Double(m)' <=> Double(m)
    BY DEF Double, Alike, Near, Size
  <2> QED BY <2>2, <2>3 DEF Reason
<1>3. Undamaged' = Undamaged
  BY DEF Undamaged
<1> QED BY <1>1, <1>2, <1>3 DEF NothingElseLost, Undamaged, Reason

LEMMA KeptTwice ==
  ASSUME NEW b, NEW c, NEW d, Kept(b, c), Kept(c, d)
  PROVE  Kept(b, d) /\ (SameThreads(b, c) /\ SameThreads(c, d) => SameThreads(b, d))
BY DEF Kept, SameText, SameFiles, SameThreads

LEMMA LatestRevisionHere ==
  ASSUME Holds(opened, ForeignKeys), NEW m \in Ids(opened, "message"),
         Rows(opened, "message")[m].latest_revision_id # NULL
  PROVE  Rows(opened, "message")[m].latest_revision_id \in Ids(opened, "message")
<1> DEFINE k == ForeignKey("message", "latest_revision_id", "message")
<1>1. k \in ForeignKeys /\ k.table = "message" /\ k.column = "latest_revision_id" /\ k.parent = "message"
  BY DEF ForeignKeys, RevisionKeys, ForeignKey
<1> HIDE DEF k
<1>2. Violations(opened, k) = {}
  BY <1>1 DEF Holds
<1>3. Parents(opened, k, Rows(opened, "message")[m].latest_revision_id) # {}
  BY <1>1, <1>2 DEF Violations
<1> QED BY <1>1, <1>3 DEF Parents

LEMMA LossStart == Init => LossInv
<1> SUFFICES ASSUME Init PROVE LossInv
  OBVIOUS
<1>1. PICK o \in Openings : opened = o.backup
  BY DEF Init
<1>2. OpenedOk(opened) /\ PositionsOk(opened)
  BY <1>1, EditAssumption
<1> QED BY <1>2 DEF Init, LossInv, Kept, SameText, SameFiles, SameThreads, NothingElseLost

(* A message that goes with its attachments was nothing but those that were to go.  *)
LEMMA LostWithItsFiles ==
  ASSUME OpenedOk(opened), Kept(opened, backup), Joins(opened, backup), NEW spec,
         NEW m \in Ids(backup, "message"), GoesWith(m, spec)
  PROVE  NothingButListed(m, spec)
<1> DEFINE row == Rows(opened, "message")[m]
           now == Rows(backup, "message")[m]
           t   == now.thread_id
<1>1. /\ m \in Ids(opened, "message") /\ SameText(now, row) /\ SameFiles(opened, backup, m)
      /\ t = row.thread_id \/ {row.thread_id, t} \subseteq MergedThreads
  BY DEF Kept, Joins
<1>2. now.body = <<>> /\ FilesOf(backup, m) # {} /\ FilesOf(backup, m) \subseteq Listed(backup, spec)
  BY DEF GoesWith, Unattached
<1>3. \A a \in FilesOf(opened, m) : OfFile(spec, Rows(opened, "attachment")[a])
  BY <1>1, <1>2 DEF SameFiles, Listed
<1>4. PICK a \in FilesOf(backup, m) : a \in Listed(backup, spec) /\ Rows(backup, "attachment")[a].message_id = m
  BY <1>2 DEF FilesOf
<1>5. OfMessage(spec, now) \/ (spec.threads = {} /\ spec.before = 0 /\ spec.after = 0)
  BY <1>4 DEF Listed
<1>6. "thread_id" \in DOMAIN row /\ now.date_received = row.date_received
  BY <1>1 DEF OpenedOk, RowsOk, MessageOk, MessageColumns, SameText
<1> HIDE DEF row
<1>7. OfMessage(spec, [row EXCEPT !.thread_id = t])
  <2> DEFINE moved == [row EXCEPT !.thread_id = t]
  <2>1. moved.thread_id = t /\ moved.date_received = row.date_received
    BY <1>6
  <2> HIDE DEF moved
  <2> QED BY <1>5, <1>6, <2>1 DEF OfMessage, moved
<1>8. t \in {row.thread_id} \cup (IF row.thread_id \in MergedThreads THEN MergedThreads ELSE {})
  BY <1>1 DEF row
<1>9. row.body = <<>> /\ FilesOf(opened, m) # {}
  BY <1>1, <1>2 DEF SameText, SameFiles, row
<1>10. ~ spec.replace /\ spec.append = 0 /\ spec.prepend = 0
  BY DEF GoesWith
<1> HIDE DEF t
<1> QED BY <1>3, <1>7, <1>8, <1>9, <1>10 DEF NothingButListed, row

LEMMA LossInvariance == EditInv /\ JoinInv /\ LossInv /\ [Next]_vars => LossInv'
<1> SUFFICES ASSUME EditInv, JoinInv, LossInv, [Next]_vars PROVE LossInv'
  OBVIOUS
<1>0. NothingElseLost
  BY DEF LossInv
<1>1. CASE removeDoubles
  <2>1. /\ pc = "removeDoubles" /\ pc' = "cropToDates" /\ UNCHANGED <<opened, command>>
        /\ Kept(backup, backup') /\ SameThreads(backup, backup') /\ backup = opened
    BY <1>1, RemoveDoublesEffect DEF LossInv
  <2>2. ASSUME Undamaged, NEW m \in Ids(backup, "message") \ Ids(backup', "message")
        PROVE  Reason(m)
    <3> DEFINE doubles == Doubles(backup, command.removedoubles)
               left    == Ids(backup, "message") \ doubles
               latest  == Rows(opened, "message")[m].latest_revision_id
    <3>1. command.removedoubles >= 0 /\ (m \notin left \/ latest \notin left \cup {NULL})
      BY <1>1, <2>1, <2>2, RemoveDoublesEffect
    <3>2. \A n \in doubles : Double(n)
      BY <2>1, <3>1 DEF Doubles, Double
    <3>3. CASE m \notin left
      BY <3>2, <3>3 DEF Reason
    <3>4. CASE latest \notin left \cup {NULL}
      <4>1. latest \in Ids(opened, "message")
        BY <2>1, <2>2, <3>4, LatestRevisionHere DEF Undamaged
      <4>2. Double(latest)
        BY <2>1, <3>2, <3>4, <4>1
      <4> QED BY <3>1, <3>4, <4>2 DEF Reason
    <3> QED BY <3>1, <3>3, <3>4
  <2>3. NothingElseLost'
    BY <1>0, <2>1, <2>2, LossStep
  <2> QED BY <2>1, <2>3 DEF LossInv
<1>2. CASE cropToDates
  <2>1. /\ pc = "cropToDates" /\ pc' = "cropToThread" /\ UNCHANGED <<opened, command>>
        /\ Kept(backup, backup') /\ SameThreads(backup, backup')
        /\ Kept(opened, backup) /\ SameThreads(opened, backup)
    BY <1>2, CropToDatesEffect DEF LossInv
  <2>2. ASSUME NEW m \in Ids(backup, "message") \ Ids(backup', "message")
        PROVE  Reason(m)
    <3>1. command.croptodates # <<>> /\ ~ InRanges(command.croptodates, Rows(backup, "message")[m])
      BY <1>2, <2>2, CropToDatesEffect
    <3>2. Rows(backup, "message")[m].date_received = Rows(opened, "message")[m].date_received
      BY <2>1 DEF Kept, SameText
    <3> QED BY <3>1, <3>2 DEF InRanges, Reason
  <2>3. NothingElseLost'
    BY <1>0, <2>1, <2>2, LossStep
  <2>4. Kept(opened, backup') /\ SameThreads(opened, backup')
    BY <2>1, KeptTwice
  <2> QED BY <2>1, <2>3, <2>4 DEF LossInv
<1>3. CASE cropToThread
  <2>1. /\ pc = "cropToThread" /\ pc' = "mergeRecipients" /\ UNCHANGED <<opened, command>>
        /\ Kept(backup, backup') /\ Kept(opened, backup) /\ SameThreads(opened, backup)
    BY <1>3, CropToThreadEffect DEF LossInv
  <2>2. ASSUME NEW m \in Ids(backup, "message") \ Ids(backup', "message")
        PROVE  Reason(m)
    <3>1. command.croptothreads # {} /\ Rows(backup, "message")[m].thread_id \notin command.croptothreads
      BY <1>3, <2>2, CropToThreadEffect
    <3>2. Rows(backup, "message")[m].thread_id = Rows(opened, "message")[m].thread_id
      BY <2>1 DEF SameThreads
    <3> QED BY <3>1, <3>2 DEF Reason
  <2>3. NothingElseLost'
    BY <1>0, <2>1, <2>2, LossStep
  <2>4. Kept(opened, backup')
    BY <2>1, KeptTwice
  <2> QED BY <2>1, <2>3, <2>4 DEF LossInv
<1>4. ASSUME Readdressed(backup, backup'), UNCHANGED <<opened, command>>,
             pc \in {"mergeRecipients", "eachGroup"}, 
             pc' \in {"mergeGroups", "aborted", "eachGroup", "deleteAttachments"}
      PROVE  LossInv'
  <2>1. Kept(opened, backup')
    BY <1>4, KeptTwice DEF LossInv, Readdressed
  <2>2. NothingElseLost'
    BY <1>0, <1>4, LossStep DEF Readdressed
  <2> QED BY <1>4, <2>1, <2>2 DEF LossInv
<1>5. CASE mergeRecipients
  BY <1>4, <1>5, MergeRecipientsEffect
<1>6. CASE mergeGroups
  <2>1. /\ pc = "mergeGroups" /\ pc' \in {"eachGroup", "deleteAttachments"}
        /\ UNCHANGED <<backup, opened, command>>
    BY <1>6 DEF mergeGroups
  <2>2. NothingElseLost'
    BY <1>0, <2>1, LossStep
  <2> QED BY <2>1, <2>2 DEF LossInv
<1>7. CASE MergeGroup
  BY <1>4, <1>7, MergeGroupEffect
<1>8. CASE GroupsMerged
  BY <1>4, <1>8, GroupsMergedEffect
<1>9. CASE deleteAttachments
  <2>1. /\ pc = "deleteAttachments" /\ pc' \in {"autofix", "done", "aborted"}
        /\ UNCHANGED <<opened, command>> /\ Kept(opened, backup) /\ Joins(opened, backup)
    BY <1>9, DeleteAttachmentsEffect DEF LossInv, JoinInv, Joining
  <2>2. ASSUME NEW m \in Ids(backup, "message") \ Ids(backup', "message")
        PROVE  Reason(m)
    <3>1. /\ command.deleteattachments # <<>> /\ GoesWith(m, command.deleteattachments[1])
          /\ 1 \in DOMAIN command.deleteattachments
      BY <1>9, <2>2, DeleteAttachmentsEffect, TableNames DEF Ids
    <3>2. NothingButListed(m, command.deleteattachments[1])
      BY <2>1, <2>2, <3>1, LostWithItsFiles DEF LossInv
    <3> QED BY <3>1, <3>2 DEF Reason
  <2>3. NothingElseLost'
    BY <1>0, <2>1, <2>2, LossStep
  <2>4. (OpenedOk(opened) /\ PositionsOk(opened))'
    BY <2>1 DEF LossInv
  <2> QED BY <2>1, <2>3, <2>4 DEF LossInv
<1>10. CASE FindViolations \/ DeleteViolations
  <2>1. /\ pc = "autofix" /\ pc' \in {"autofix", "done"} /\ UNCHANGED <<opened, command>>
        /\ command.autofixfkc
    BY <1>10, AutofixEffect DEF EditInv
  <2>2. NothingElseLost'
    BY <2>1 DEF NothingElseLost
  <2> QED BY <2>1, <2>2 DEF LossInv
<1>11. CASE UNCHANGED vars
  <2>1. UNCHANGED <<pc, backup, opened, command>>
    BY <1>11 DEF vars
  <2>2. NothingElseLost'
    BY <1>0, <2>1, LossStep
  <2> QED BY <2>1, <2>2 DEF LossInv
<1> QED BY <1>1, <1>2, <1>3, <1>5, <1>6, <1>7, <1>8, <1>9, <1>10, <1>11 DEF Next

LEMMA LossInvariant == Spec => []LossInv
BY EditInvariant, JoinInvariant, LossStart, LossInvariance, PTL DEF Spec

(* No combination of operations loses a message of an undamaged backup that it    *)
(* was not asked to lose: if with its attachments, all of them were asked for.     *)
THEOREM OnlyAskedForIsLost == Spec => []NothingElseLost
<1>1. LossInv => NothingElseLost
  BY DEF LossInv
<1> QED BY <1>1, LossInvariant, PTL

(* A mention, or a format that is not from the start, is of the same unit of the   *)
(* body after attachments were deleted, however many plain notes are put in front. *)
THEOREM MentionsStay == Spec => MentionsInPlace
<1>1. ASSUME EditInv, LossInv, [Next]_vars
      PROVE  [pc = "deleteAttachments" /\ PlainNotes =>
                \A m \in Ids(backup', "message") :
                   LET row == Rows(backup, "message")[m]  now == Rows(backup', "message")[m]
                   IN  /\ SameUnit(row, row.mention, now, now.mention)
                       /\ ~ FromTheStart(row) => SameUnit(row, row.range, now, now.range)]_vars
  <2> SUFFICES ASSUME pc = "deleteAttachments", PlainNotes, Next, NEW m \in Ids(backup', "message")
               PROVE  LET row == Rows(backup, "message")[m]  now == Rows(backup', "message")[m]
                      IN  /\ SameUnit(row, row.mention, now, now.mention)
                          /\ ~ FromTheStart(row) => SameUnit(row, row.range, now, now.range)
    BY <1>1
  <2>1. deleteAttachments
    BY DEF Next, Step, Try, removeDoubles, cropToDates, cropToThread, mergeRecipients, mergeGroups,
           MergeGroup, GroupsMerged, FindViolations, DeleteViolations
  <2> DEFINE row == Rows(backup, "message")[m]
             now == Rows(backup', "message")[m]
  <2>2. m \in Ids(backup, "message") /\ Standing(row) /\ row.body \in Seq(Pieces)
    <3>1. Kept(opened, backup) /\ PositionsOk(opened) /\ OpenedOk(backup)
      BY <1>1 DEF LossInv, EditInv
    <3>2. m \in Ids(backup, "message")
      BY <1>1, <2>1, DeleteAttachmentsEffect, TableNames DEF Ids
    <3> QED BY <3>1, <3>2 DEF Kept, SameText, PositionsOk, Standing, OpenedOk, RowsOk, MessageOk
  <2>3. CASE command.deleteattachments = <<>>
    <3>1. backup' = backup
      <4> DEFINE result == IF command.deleteattachments # <<>>
                           THEN DeleteAttachments(backup, command.deleteattachments[1])
                           ELSE [ok |-> TRUE, backup |-> backup]
      <4>1. backup' = result.backup
        BY <2>1 DEF deleteAttachments, Try, Step
      <4> QED BY <2>3, <4>1
    <3>2. \A place \in {row.mention, row.range} : SameUnit(row, place, row, place)
      BY <2>2 DEF Standing, SameUnit
    <3> QED BY <3>1, <3>2
  <2>4. CASE command.deleteattachments # <<>>
    <3> DEFINE spec == command.deleteattachments[1]
    <3>1. DOMAIN command.deleteattachments = {1} /\ InPlace(row, now, spec)
      BY <1>1, <2>1, <2>2, <2>4, DeleteAttachmentsEffect DEF StaysInPlace
    <3>2. spec.bytes = spec.prepend /\ spec.prepend \in Nat
      BY <1>1, <2>4, <3>1 DEF PlainNotes, EditInv, CommandOk, NotesOk
    <3>3. ~ FromTheStart(row) => row.range # 1 \/ spec.prepend = 0
      BY <3>1, <3>2 DEF FromTheStart
    <3> HIDE DEF row, now, spec
    <3>4. /\ SameUnit(row, row.mention, now, now.mention)
          /\ ~ FromTheStart(row) => SameUnit(row, row.range, now, now.range)
      BY <3>1, <3>2, <3>3 DEF InPlace
    <3> QED BY <3>4 DEF row, now
  <2> QED BY <2>3, <2>4
<1> QED BY <1>1, EditInvariant, LossInvariant, PTL DEF Spec, MentionsInPlace
-----------------------------------------------------------------------------
(* No two messages have the same time: no UPDATE of messages can fail.             *)
Distinct(b) ==
  \A m, n \in Ids(b, "message") :
     m # n => Rows(b, "message")[m].date_sent # Rows(b, "message")[n].date_sent

(* The old value of the column is found nowhere after it.                        *)
LEMMA SetGoesThrough ==
  ASSUME NEW b, Origin(b), Distinct(b), NEW new, NEW old,
         NEW column \in {"thread_id", "from_recipient_id", "to_recipient_id", "quote_author"}
  PROVE  LET c == Set(b, "message", column, new, old)
         IN  /\ Origin(c) /\ Distinct(c) /\ Ids(c, "message") = Ids(b, "message")
             /\ Readdressing(b, c, column, new, old)
<1> DEFINE c == Set(b, "message", column, new, old)
           rows == Rows(b, "message")
           renamed == RenamedRows(rows, column, new, old)
<1>1. /\ Origin(c) /\ Ids(c, "message") = Ids(b, "message")
      /\ \/ Readdressing(b, c, column, new, old)
         \/ \E i, j \in DOMAIN rows : Meets("message", rows, renamed, i, j)
  BY MessageSet
<1>2. ASSUME NEW i \in DOMAIN rows, NEW j \in DOMAIN rows, Meets("message", rows, renamed, i, j)
      PROVE  FALSE
  <2>1. \A m \in DOMAIN rows : renamed[m].date_sent = rows[m].date_sent
    BY DEF RenamedRows, RenamedRow
  <2>2. \A m, n \in DOMAIN rows : m # n => rows[m].date_sent # rows[n].date_sent
    BY DEF Distinct, Ids
  <2> HIDE DEF rows, renamed
  <2>3. PICK x \in {renamed[j], rows[j]} : i # j /\ Key("message", renamed[i]) = Key("message", x)
    BY <1>2 DEF Meets
  <2> QED BY <2>1, <2>2, <2>3, MessageKey
<1> HIDE DEF c
<1>3. Readdressing(b, c, column, new, old)
  BY <1>1, <1>2
<1>4. Distinct(c)
  BY <1>1, <1>3 DEF Distinct, Readdressing, AddressColumns
<1> QED BY <1>1, <1>3, <1>4 DEF c

(* Of a recipient that was renamed, nothing is left, with or without threads to  *)
(* merge.                                                                        *)
LEMMA RenamedAway ==
  ASSUME NEW b, Origin(b), Distinct(b), NEW new, NEW old, new # old
  PROVE  Origin(Renaming(b, new, old)) /\ ~ Speaks(Renaming(b, new, old), old)
<1> DEFINE b1 == Set(b, "message", "from_recipient_id", new, old)
           b2 == Set(b1, "message", "to_recipient_id", new, old)
           b3 == Set(b2, "message", "quote_author", new, old)
           b4 == Set(b3, "reaction", "author_id", new, old)
           row(d, m) == Rows(d, "message")[m]
<1>0. Renaming(b, new, old) = b4
  BY DEF Renaming
<1>1. Origin(b1) /\ Distinct(b1) /\ \A m \in Ids(b1, "message") : row(b1, m).from_recipient_id # old
  BY SetGoesThrough DEF Readdressing, AddressColumns, Renamed
<1> HIDE DEF b1
<1>2. /\ Origin(b2) /\ Distinct(b2)
      /\ \A m \in Ids(b2, "message") : row(b2, m).from_recipient_id # old /\ row(b2, m).to_recipient_id # old
  BY <1>1, SetGoesThrough DEF Readdressing, AddressColumns, Renamed
<1> HIDE DEF b2
<1>3. /\ Origin(b3)
      /\ \A m \in Ids(b3, "message") :
           row(b3, m).from_recipient_id # old /\ row(b3, m).to_recipient_id # old /\ row(b3, m).quote_author # old
  BY <1>2, SetGoesThrough DEF Readdressing, AddressColumns, Renamed
<1> HIDE DEF b3
<1>4. /\ Origin(b4) /\ Rows(b4, "message") = Rows(b3, "message")
      /\ \A r \in Ids(b4, "reaction") : Rows(b4, "reaction")[r].author_id # old
  BY <1>3, ReactionSet, TableNames DEF Renamed
<1> HIDE DEF b4
<1>5. ~ Speaks(b4, old)
  BY <1>3, <1>4 DEF Speaks, Contents, Range, Ids
<1> QED BY <1>0, <1>4, <1>5

LEMMA MergedAway ==
  ASSUME NEW b, Origin(b), Distinct(b), NEW target, NEW old, target # old
  PROVE  ~ Speaks(MergedRecipients(b, target, old).backup, old)
<1> DEFINE newtid  == getThreadIdFromRecipient(b, target)
           oldtid  == getThreadIdFromRecipient(b, old)
           moved   == Set(b, "message", "thread_id", newtid, oldtid)
           renamed == Renaming(moved, target, old)
           emptied == [renamed EXCEPT !.d_database.thread[oldtid].meaningful_messages = 0,
                                      !.d_database.thread[oldtid].active = FALSE]
<1>1. CASE NULL \in {newtid, oldtid}
  BY <1>1, RenamedAway DEF MergedRecipients
<1>2. CASE NULL \notin {newtid, oldtid}
  <2>1. \/ MergedRecipients(b, target, old).backup = renamed
        \/ MergedRecipients(b, target, old).backup = emptied
    BY <1>2 DEF MergedRecipients
  <2> HIDE DEF newtid, oldtid
  <2>2. Origin(moved) /\ Distinct(moved)
    BY SetGoesThrough
  <2> HIDE DEF moved
  <2>3. Origin(renamed) /\ ~ Speaks(renamed, old)
    BY <2>2, RenamedAway
  <2> HIDE DEF renamed
  <2>4. Rows(emptied, "message") = Rows(renamed, "message") /\ Rows(emptied, "reaction") = Rows(renamed, "reaction")
    <3>1. Shape(renamed)
      BY <2>3 DEF Origin, OpenedOk, TablesOk, Shape
    <3> DEFINE thread == [Rows(renamed, "thread") EXCEPT ![oldtid].meaningful_messages = 0,
                                                         ![oldtid].active = FALSE]
    <3>2. emptied = WithRows(renamed, "thread", thread)
      BY <3>1, ThreadEmptied
    <3> HIDE DEF emptied, thread
    <3>3. \A u \in EditTables \ {"thread"} : Rows(emptied, u) = Rows(renamed, u)
      BY <3>1, <3>2, RowsPlaced, TableNames
    <3> QED BY <3>3, TableNames
  <2> HIDE DEF emptied
  <2>5. ~ Speaks(emptied, old)
    BY <2>3, <2>4 DEF Speaks, Contents
  <2> QED BY <2>1, <2>3, <2>5
<1> QED BY <1>1, <1>2

(* mergeRecipients, told whom to keep by an _id: however the other is told, of them  *)
(* nothing is left, whether they were there or had been cropped away already.      *)
LEMMA MergingById ==
  ASSUME EditInv, OriginInv, mergeRecipients, Len(command.mergerecipients) = 2,
         command.mergerecipients[2].phone = "", Distinct(backup),
         NEW old \in Meant(command.mergerecipients[1]),
         NEW new \in Meant(command.mergerecipients[2]) \ {old}, new \in Ids(backup, "recipient")
  PROVE  ~ Speaks(backup', old)
<1> DEFINE a == command.mergerecipients
           isnumber == a[1].phone # ""
           from == IF isnumber THEN CHOOSE i \in ByPhone(backup, a[1]) : TRUE ELSE a[1].id
           result == MergeRecipients(backup, a).backup
<1>1. pc = "mergeRecipients" /\ backup' = result
  <2>1. a # <<>>
    <3>1. Len(a) = 2
      OBVIOUS
    <3> HIDE DEF a
    <3>2. Len(<<>>) = 0
      OBVIOUS
    <3>3. Len(a) # Len(<<>>)
      BY ONLY <3>1, <3>2
    <3> QED BY ONLY <3>3, Zenon
  <2> QED BY <2>1 DEF mergeRecipients, Try, Step
<1>2. /\ Origin(backup) /\ NumbersUnique(opened)
      /\ \A r \in Ids(opened, "recipient") \ Ids(backup, "recipient") : ~ Speaks(backup, r)
  BY <1>1 DEF OriginInv, Before, DeclaredOk
<1>3. new = a[2].id /\ a[2].phone = "" /\ new # old /\ old \in Ids(opened, "recipient")
  BY DEF Meant, ByPhone
<1>4. result = IF isnumber /\ Cardinality(ByPhone(backup, a[1])) # 1 THEN backup
               ELSE IF ~ {from, new} \subseteq Ids(backup, "recipient") THEN backup
               ELSE MergedRecipients(backup, new, from).backup
  <2> DEFINE target == IF a[2].phone # "" THEN NULL ELSE a[2].id
  <2>1. MergeRecipients(backup, a) =
          IF Len(a) # 2 THEN [ok |-> FALSE, backup |-> backup]
          ELSE IF isnumber /\ Cardinality(ByPhone(backup, a[1])) # 1 THEN [ok |-> FALSE, backup |-> backup]
          ELSE IF ~ {from, target} \subseteq Ids(backup, "recipient") THEN [ok |-> TRUE, backup |-> backup]
          ELSE MergedRecipients(backup, target, from)
    BY DEF MergeRecipients
  <2>2. Len(a) = 2 /\ target = new
    BY <1>3
  <2> DEFINE merged == MergeRecipients(backup, a)
             many == isnumber /\ Cardinality(ByPhone(backup, a[1])) # 1
             there == {from, new} \subseteq Ids(backup, "recipient")
  <2>3. merged = IF many THEN [ok |-> FALSE, backup |-> backup]
                                     ELSE IF ~ there THEN [ok |-> TRUE, backup |-> backup]
                                     ELSE MergedRecipients(backup, new, from)
    BY <2>1, <2>2, Zenon
  <2> HIDE DEF many, there, from, merged
  <2>4. merged.backup = IF many THEN backup ELSE IF ~ there THEN backup ELSE MergedRecipients(backup, new, from).backup
    <3>1. CASE many
      BY ONLY <2>3, <3>1
    <3>2. CASE ~ many /\ ~ there
      BY ONLY <2>3, <3>2
    <3>3. CASE ~ many /\ there
      BY ONLY <2>3, <3>3
    <3> QED BY <3>1, <3>2, <3>3
  <2> QED BY <2>4 DEF many, there, merged
<1>5. isnumber => ByPhone(backup, a[1]) = {old} \cap Ids(backup, "recipient")
  <2> SUFFICES ASSUME isnumber PROVE ByPhone(backup, a[1]) = {old} \cap Ids(backup, "recipient")
    OBVIOUS
  <2>1. old \in ByPhone(opened, a[1])
    BY DEF Meant
  <2>2. ByPhone(backup, a[1]) = ByPhone(opened, a[1]) \cap Ids(backup, "recipient")
    BY <1>2 DEF ByPhone, Origin, Some, Ids
  <2>3. \A i \in ByPhone(opened, a[1]) : i = old
    BY <1>2, <2>1 DEF ByPhone, NumbersUnique
  <2> QED BY <2>1, <2>2, <2>3
<1>6. ~ isnumber => from = old
  BY DEF Meant
<1>7. CASE old \in Ids(backup, "recipient")
  <2>1. isnumber => Cardinality(ByPhone(backup, a[1])) = 1 /\ from = old
    <3> SUFFICES ASSUME isnumber PROVE Cardinality(ByPhone(backup, a[1])) = 1 /\ from = old
      OBVIOUS
    <3>1. ByPhone(backup, a[1]) = {old}
      BY <1>5, <1>7
    <3> QED BY <3>1, FS_Singleton
  <2> HIDE DEF from, isnumber, result
  <2>2. result = MergedRecipients(backup, new, old).backup
    BY <1>4, <1>6, <1>7, <2>1
  <2> QED BY <1>1, <1>2, <1>3, <2>2, MergedAway
<1>8. CASE old \notin Ids(backup, "recipient")
  <2>1. isnumber => Cardinality(ByPhone(backup, a[1])) # 1
    <3> SUFFICES ASSUME isnumber PROVE Cardinality(ByPhone(backup, a[1])) # 1
      OBVIOUS
    <3>1. ByPhone(backup, a[1]) = {}
      BY <1>5, <1>8
    <3>2. Cardinality(ByPhone(backup, a[1])) = 0
      BY <3>1, FS_EmptySet
    <3> QED BY <3>2
  <2> HIDE DEF from, isnumber, result
  <2>2. result = backup
    BY <1>4, <1>6, <1>8, <2>1
  <2> QED BY <1>1, <1>2, <1>3, <1>8, <2>2
<1> QED BY <1>7, <1>8

(* Recipients told to be merged into one given by its _id are, when no two messages *)
(* are of the same time.                                                          *)
THEOREM MergedByIdIsDone == Spec => MergeByIdDone
<1>1. ASSUME EditInv, Next, pc = "mergeRecipients", pc' = "mergeGroups" PROVE mergeRecipients
  BY <1>1 DEF Next, Step, Try, removeDoubles, cropToDates, cropToThread, mergeGroups,
         MergeGroup, GroupsMerged, deleteAttachments, FindViolations, DeleteViolations
<1>2. EditInv /\ OriginInv /\ [Next]_vars =>
        [/\ pc = "mergeRecipients" /\ pc' = "mergeGroups" /\ Len(command.mergerecipients) = 2
         /\ command.mergerecipients[2].phone = ""
         /\ \A m, n \in Ids(backup, "message") :
               m # n => Rows(backup, "message")[m].date_sent # Rows(backup, "message")[n].date_sent
         =>
           \A old \in Meant(command.mergerecipients[1]) :
              \A new \in Meant(command.mergerecipients[2]) \ {old} :
                 /\ new \in Ids(backup, "recipient") => ~ Speaks(backup', old)]_vars
  BY <1>1, MergingById DEF Distinct
<1>3. Spec => []OriginInv
  BY EditStart, EditInvariance, OriginStart, OriginInvariance, PTL DEF Spec
<1> QED BY <1>2, <1>3, EditInvariant, PTL DEF Spec, MergeByIdDone
=============================================================================
