------------------------ MODULE ImportImplements_proofs ------------------------
(* importThread implements MergedBackup, for backups and lists of threads of any  *)
(* size: of the source, a copy that was cropped to the thread says its part; what *)
(* is done to its rows until they are inserted leaves what they say when they are *)
(* with those of the target, or is said by the target already; and all of them    *)
(* are inserted.                                                                 *)
EXTENDS ImportImplements, ImportThread_proofs

-----------------------------------------------------------------------------
(* What backups say *)

(* What row r of table u says in backup b.                                       *)
Fact(b, u, r) ==
  CASE u = "thread"     -> [who |-> r.who, recipient |-> Name(b, "recipient", r.recipient_id)]
    [] u = "message"    -> [who |-> r.who, date_sent |-> r.date_sent,
                            thread   |-> Name(b, "thread", r.thread_id),
                            from     |-> Name(b, "recipient", r.from_recipient_id),
                            preview  |-> Name(b, "attachment", r.link_previews),
                            original |-> Name(b, "message", r.original_message_id)]
    [] u = "attachment" -> [who |-> r.who, message |-> Name(b, "message", r.message_id)]
    [] u = "recipient"  -> r.who
    [] u = "reaction"   -> [who |-> r.who, message |-> Name(b, "message", r.message_id),
                            author |-> Name(b, "recipient", r.author_id)]
    [] u = "group_membership" -> [group |-> r.group_id, member |-> Name(b, "recipient", r.recipient_id)]

FactsOf(b, u) == {Fact(b, u, r) : r \in Contents(b, u)}

Kind(u) == IF u = "group_membership" THEN "membership" ELSE u

(* The facts of a backup are those of its tables, and of its frames.              *)
LEMMA FactsByTable ==
  ASSUME NEW b, NEW u \in Tables
  PROVE  Facts(b)[Kind(u)] = FactsOf(b, u)
<1>1. CASE u = "thread"
  BY <1>1 DEF Facts, FactsOf, Fact, Kind
<1>2. CASE u = "message"
  BY <1>2 DEF Facts, FactsOf, Fact, Kind
<1>3. CASE u = "attachment"
  BY <1>3 DEF Facts, FactsOf, Fact, Kind
<1>4. CASE u = "recipient"
  BY <1>4 DEF Facts, FactsOf, Fact, Kind
<1>5. CASE u = "reaction"
  BY <1>5 DEF Facts, FactsOf, Fact, Kind
<1>6. CASE u = "group_membership"
  BY <1>6 DEF Facts, FactsOf, Fact, Kind
<1> QED
  BY <1>1, <1>2, <1>3, <1>4, <1>5, <1>6 DEF Tables

(* The columns of a table that its facts are made of, but for the snippet.        *)
Told(u) ==
  CASE u = "thread"     -> {"who", "recipient_id"}
    [] u = "message"    -> {"who", "date_sent", "thread_id", "from_recipient_id", "link_previews",
                            "original_message_id"}
    [] u = "attachment" -> {"who", "message_id"}
    [] u = "recipient"  -> {"who"}
    [] u = "reaction"   -> {"who", "message_id", "author_id"}
    [] u = "group_membership" -> {"group_id", "recipient_id"}

(* Row r in backup b says what row s says in backup c.                           *)
SaysTheSame(b, r, c, s, u) ==
  \A x \in Told(u) :
     /\ \A v \in Tables : Follows(v, u, x) => Name(b, v, r[x]) = Name(c, v, s[x])
     /\ (\A v \in Tables : ~ Follows(v, u, x)) => r[x] = s[x]

LEMMA SameFact ==
  ASSUME NEW b, NEW c, NEW u \in Tables, NEW r, NEW s, SaysTheSame(b, r, c, s, u)
  PROVE  Fact(b, u, r) = Fact(c, u, s)
<1>1. \A v : ~ Follows(v, u, "who") \/ v \notin Tables
  BY FollowsOne
<1>2. \A v \in Tables : ~ Follows(v, u, "date_sent") /\ ~ Follows(v, u, "group_id")
  BY FollowsOne
<1>3. /\ "thread" \in Tables /\ "message" \in Tables /\ "attachment" \in Tables /\ "recipient" \in Tables
  BY DEF Tables
<1>4. CASE u = "thread"
  <2>1. r.who = s.who
    BY <1>1, <1>4 DEF SaysTheSame, Told
  <2>2. Name(b, "recipient", r.recipient_id) = Name(c, "recipient", s.recipient_id)
    BY <1>3, <1>4, FollowsAre DEF SaysTheSame, Told
  <2> QED
    BY <1>4, <2>1, <2>2 DEF Fact
<1>5. CASE u = "message"
  <2>1. r.who = s.who /\ r.date_sent = s.date_sent
    BY <1>1, <1>2, <1>5 DEF SaysTheSame, Told
  <2>2. Name(b, "thread", r.thread_id) = Name(c, "thread", s.thread_id)
    BY <1>3, <1>5, FollowsAre DEF SaysTheSame, Told
  <2>3. Name(b, "recipient", r.from_recipient_id) = Name(c, "recipient", s.from_recipient_id)
    BY <1>3, <1>5, FollowsAre DEF SaysTheSame, Told
  <2>4. Name(b, "attachment", r.link_previews) = Name(c, "attachment", s.link_previews)
    BY <1>3, <1>5, FollowsAre DEF SaysTheSame, Told
  <2>5. Name(b, "message", r.original_message_id) = Name(c, "message", s.original_message_id)
    BY <1>3, <1>5, FollowsAre DEF SaysTheSame, Told
  <2> QED
    BY <1>5, <2>1, <2>2, <2>3, <2>4, <2>5 DEF Fact
<1>6. CASE u = "attachment"
  <2>1. r.who = s.who
    BY <1>1, <1>6 DEF SaysTheSame, Told
  <2>2. Name(b, "message", r.message_id) = Name(c, "message", s.message_id)
    BY <1>3, <1>6, FollowsAre DEF SaysTheSame, Told
  <2> QED
    BY <1>6, <2>1, <2>2 DEF Fact
<1>7. CASE u = "recipient"
  <2>1. r.who = s.who
    BY <1>1, <1>7 DEF SaysTheSame, Told
  <2> QED
    BY <1>7, <2>1 DEF Fact
<1>8. CASE u = "reaction"
  <2>1. r.who = s.who
    BY <1>1, <1>8 DEF SaysTheSame, Told
  <2>2. Name(b, "message", r.message_id) = Name(c, "message", s.message_id)
    BY <1>3, <1>8, FollowsAre DEF SaysTheSame, Told
  <2>3. Name(b, "recipient", r.author_id) = Name(c, "recipient", s.author_id)
    BY <1>3, <1>8, FollowsAre DEF SaysTheSame, Told
  <2> QED
    BY <1>8, <2>1, <2>2, <2>3 DEF Fact
<1>9. CASE u = "group_membership"
  <2>1. r.group_id = s.group_id
    BY <1>2, <1>9 DEF SaysTheSame, Told
  <2>2. Name(b, "recipient", r.recipient_id) = Name(c, "recipient", s.recipient_id)
    BY <1>3, <1>9, FollowsAre DEF SaysTheSame, Told
  <2> QED
    BY <1>9, <2>1, <2>2 DEF Fact
<1> QED
  BY <1>4, <1>5, <1>6, <1>7, <1>8, <1>9 DEF Tables

-----------------------------------------------------------------------------
(* Rows that refer to what has the same name in both backups say the same.        *)
LEMMA SameWithin ==
  ASSUME NEW b, NEW c, NEW u \in Tables, NEW r \in Contents(b, u), RefersWithin(b),
         \A v \in Tables : \A x \in Ids(b, v) \cup {NULL} : Name(b, v, x) = Name(c, v, x)
  PROVE  Fact(b, u, r) = Fact(c, u, r)
<1>1. ASSUME NEW v \in Tables, NEW x, Follows(v, u, x)
      PROVE  Name(b, v, r[x]) = Name(c, v, r[x])
  <2>1. PICK k \in ConnectionsTo(v) : k.table = u /\ k.column = x
    BY <1>1 DEF Follows
  <2>2. r[x] \in Ids(b, v) \cup {NULL}
    BY <2>1 DEF RefersWithin
  <2> QED
    BY <2>2
<1>2. SaysTheSame(b, r, c, r, u)
  BY <1>1 DEF SaysTheSame
<1> QED
  BY <1>2, SameFact

(* A name tells which row a reference is to.                                     *)
LEMMA NamesTell ==
  ASSUME NEW b, NEW v, NamesApart(b, v), NEW i \in Ids(b, v), i # NULL, NEW x
  PROVE  Name(b, v, x) = Rows(b, v)[i].who <=> x = i
<1>1. Rows(b, v)[i] \in Contents(b, v)
  BY DEF Contents, Range, Ids
<1>2. Rows(b, v)[i].who \notin {"nothing", "dangling", "no thread"}
  BY <1>1 DEF NamesApart
<1>3. CASE x = NULL
  BY <1>2, <1>3 DEF Name
<1>4. CASE x # NULL /\ x \in Ids(b, v)
  BY <1>4 DEF Name, NamesApart, UniqueNames
<1>5. CASE x # NULL /\ x \notin Ids(b, v)
  BY <1>2, <1>5 DEF Name
<1> QED
  BY <1>3, <1>4, <1>5

(* A name that is that of a row is the name of nothing else.                      *)
LEMMA NamesFind ==
  ASSUME NEW b, NEW v, NEW r \in Contents(b, v), r.who \notin {"nothing", "dangling", "no thread"},
         NEW x, Name(b, v, x) = r.who
  PROVE  x \in Ids(b, v) /\ x # NULL
BY DEF Name

-----------------------------------------------------------------------------
(* What is left of the tables when a backup is cropped to thread t.              *)
CropMessage(c, b, t) ==
  \A i : i \in Ids(c, "message") <=> i \in Ids(b, "message") /\ Rows(b, "message")[i].thread_id = t

CropOfMessage(c, b, u) ==
  \A i : i \in Ids(c, u) <=> i \in Ids(b, u) /\ Rows(b, u)[i].message_id \in Ids(c, "message")

CropThread(c, b) ==
  \A i : i \in Ids(c, "thread") <=>
           i \in Ids(b, "thread") /\ \E m \in Contents(c, "message") : m.thread_id = i

CropMember(c, b) ==
  \A i : i \in Ids(c, "group_membership") <=>
           /\ i \in Ids(b, "group_membership")
           /\ Rows(b, "group_membership")[i].group_id # ""
           /\ \E r \in Contents(c, "thread") :
                /\ r.recipient_id \in Ids(b, "recipient")
                /\ Rows(b, "group_membership")[i].group_id = Rows(b, "recipient")[r.recipient_id].group_id

CropRecipient(c, b) ==
  \A i : i \in Ids(c, "recipient") <=>
           /\ i \in Ids(b, "recipient")
           /\ \/ \E r \in Contents(c, "thread") : r.recipient_id = i
              \/ \E m \in Contents(c, "message") : m.from_recipient_id = i
              \/ \E m \in Contents(c, "group_membership") : m.recipient_id = i
              \/ \E r \in Contents(c, "reaction") : r.author_id = i

LEMMA CropTables ==
  ASSUME NEW b, NEW t, NEW c, c = CropToThread(b, t)
  PROVE  /\ CropMessage(c, b, t) /\ CropOfMessage(c, b, "attachment") /\ CropOfMessage(c, b, "reaction")
         /\ CropThread(c, b) /\ CropMember(c, b) /\ CropRecipient(c, b)
<1>1. CropMessage(c, b, t)
  <2>1. Rows(c, "message") = Only(Rows(b, "message"), LAMBDA m : m.thread_id = t)
    BY DEF CropToThread, Rows
  <2> QED
    BY <2>1 DEF CropMessage, Only, Restrict, Ids
<1>2. CropOfMessage(c, b, "attachment")
  BY DEF CropToThread, Rows, Ids, Only, Restrict, CropOfMessage
<1>3. CropOfMessage(c, b, "reaction")
  BY DEF CropToThread, Rows, Ids, Only, Restrict, CropOfMessage
<1>4. CropThread(c, b)
  <2>1. Rows(c, "thread") = Restrict(Rows(b, "thread"),
            {m.thread_id : m \in Range(Rows(c, "message"))} \cap Ids(b, "thread"))
    BY DEF CropToThread, Rows
  <2> QED
    BY <2>1 DEF CropThread, Restrict, Ids, Contents
<1>5. CropMember(c, b)
  <2> DEFINE contacts == {r.recipient_id : r \in Range(Rows(c, "thread"))}
             groups == {Rows(b, "recipient")[i].group_id : i \in contacts \cap Ids(b, "recipient")} \ {""}
  <2>1. DOMAIN Rows(c, "group_membership")
          = {i \in DOMAIN Rows(b, "group_membership") : Rows(b, "group_membership")[i].group_id \in groups}
    BY DEF CropToThread, Rows, Ids, Only, Restrict
  <2>2. \A g : g \in groups <=> g # "" /\ \E r \in Contents(c, "thread") :
                 r.recipient_id \in Ids(b, "recipient") /\ g = Rows(b, "recipient")[r.recipient_id].group_id
    BY DEF Contents
  <2> HIDE DEF groups
  <2>3. \A i : i \in Ids(c, "group_membership") <=>
           i \in Ids(b, "group_membership") /\ Rows(b, "group_membership")[i].group_id \in groups
    BY <2>1 DEF Ids
  <2> QED
    BY <2>2, <2>3 DEF CropMember
<1>6. CropRecipient(c, b)
  <2> DEFINE referenced == {r.recipient_id : r \in Range(Rows(c, "thread"))}
                             \cup {m.from_recipient_id : m \in Range(Rows(c, "message"))}
                             \cup {m.recipient_id : m \in Range(Rows(c, "group_membership"))}
                             \cup {r.author_id : r \in Range(Rows(c, "reaction"))}
  <2>1. Rows(c, "recipient") = Restrict(Rows(b, "recipient"), referenced \cap Ids(b, "recipient"))
    BY DEF CropToThread, Rows
  <2>2. \A i : i \in referenced <=>
           \/ \E r \in Contents(c, "thread") : r.recipient_id = i
           \/ \E m \in Contents(c, "message") : m.from_recipient_id = i
           \/ \E m \in Contents(c, "group_membership") : m.recipient_id = i
           \/ \E r \in Contents(c, "reaction") : r.author_id = i
    BY DEF Contents
  <2> HIDE DEF referenced
  <2> QED
    BY <2>1, <2>2 DEF CropRecipient, Restrict, Ids
<1> QED
  BY <1>1, <1>2, <1>3, <1>4, <1>5, <1>6

-----------------------------------------------------------------------------
(* A backup that is cropped to a thread says its part of the whole *)

(* Backup b is cropped to thread t, which leaves c; what that says is the part    *)
(* of the thread.                                                                *)
Cropped(b, t, c) ==
  /\ BackupOk(b) /\ RowsNamed(b) /\ ThreadsNamed(b) /\ GroupsNamed(b)
  /\ t \in Ids(b, "thread") /\ c = CropToThread(b, t) /\ RefersWithin(c)

PartOf(b, t) == Merge!Part(Facts(b), Rows(b, "thread")[t].who)

LEMMA CroppedSays ==
  ASSUME NEW b, NEW t, NEW c, Cropped(b, t, c), NEW u \in Tables
  PROVE  /\ \A r : r \in Contents(c, u) <=> \E i \in Ids(c, u) : r = Rows(b, u)[i]
         /\ \A i \in Ids(c, u) : i \in Ids(b, u) /\ i # NULL
         /\ \A r \in Contents(c, u) : r \in Contents(b, u) /\ Fact(c, u, r) = Fact(b, u, r)
         /\ \A i \in Ids(c, u) : Name(c, u, i) = Name(b, u, i)
<1>1. \A v \in Tables : \A i \in Ids(c, v) : i \in Ids(b, v) /\ Rows(c, v)[i] = Rows(b, v)[i]
  BY CropRows DEF Cropped
<1>2. \A v \in Tables : \A x \in Ids(c, v) \cup {NULL} : Name(c, v, x) = Name(b, v, x)
  BY <1>1 DEF Name
<1>3. \A r : r \in Contents(c, u) <=> \E i \in Ids(c, u) : r = Rows(b, u)[i]
  BY <1>1 DEF Contents, Range, Ids
<1>4. ASSUME NEW r \in Contents(c, u)
      PROVE  r \in Contents(b, u) /\ Fact(c, u, r) = Fact(b, u, r)
  <2>1. r \in Contents(b, u)
    BY <1>1, <1>3 DEF Contents, Range, Ids
  <2>2. Fact(c, u, r) = Fact(b, u, r)
    BY <1>2, SameWithin DEF Cropped
  <2> QED
    BY <2>1, <2>2
<1>5. \A i \in Ids(c, u) : i \in Ids(b, u) /\ i # NULL
  BY <1>1 DEF Cropped, BackupOk, NULL
<1> QED
  BY <1>2, <1>3, <1>4, <1>5

(* The facts of the rows of a table that were kept.                              *)
KeptFacts(b, c, u, S) ==
  \A e : e \in S <=> \E i \in Ids(c, u) : e = Fact(b, u, Rows(b, u)[i])

(* A fact of the cropped backup is one of the whole, of a row that was kept.       *)
LEMMA CroppedFacts ==
  ASSUME NEW b, NEW t, NEW c, Cropped(b, t, c), NEW u \in Tables, NEW S,
         KeptFacts(b, c, u, S)
  PROVE  FactsOf(c, u) = S
<1>1. \A e : e \in FactsOf(c, u) <=> \E r \in Contents(c, u) : e = Fact(c, u, r)
  BY DEF FactsOf
<1>2. \A r : r \in Contents(c, u) <=> \E i \in Ids(c, u) : r = Rows(b, u)[i]
  BY CroppedSays
<1>3. \A r \in Contents(c, u) : Fact(c, u, r) = Fact(b, u, r)
  BY CroppedSays
<1> QED
  BY <1>1, <1>2, <1>3 DEF KeptFacts

(* The messages of the thread, and what is of them.                              *)
LEMMA CroppedMessages ==
  ASSUME NEW b, NEW t, NEW c, Cropped(b, t, c)
  PROVE  FactsOf(c, "message") = PartOf(b, t).message
<1> DEFINE n == Rows(b, "thread")[t].who
<1>1. "message" \in Tables /\ "thread" \in Tables
  BY DEF Tables
<1>2. PartOf(b, t).message = {m \in FactsOf(b, "message") : m.thread = n}
  <2>1. Facts(b).message = FactsOf(b, "message")
    BY <1>1, FactsByTable DEF Kind
  <2> QED
    BY <2>1 DEF PartOf, Merge!Part
<1>3. \A x : Name(b, "thread", x) = n <=> x = t
  <2>1. NamesApart(b, "thread")
    BY DEF Cropped, RowsNamed
  <2>3. t \in Ids(b, "thread") /\ t # NULL
    BY <1>1 DEF Cropped, BackupOk, NULL
  <2> QED
    BY <2>1, <2>3, NamesTell
<1> HIDE DEF n
<1>4. \A r : Fact(b, "message", r).thread = Name(b, "thread", r.thread_id)
  BY DEF Fact
<1>5. CropMessage(c, b, t)
  BY CropTables DEF Cropped
<1>6. \A e : e \in FactsOf(b, "message") <=> \E i \in Ids(b, "message") : e = Fact(b, "message", Rows(b, "message")[i])
  BY DEF FactsOf, Contents, Range, Ids
<1>7. \A e : e \in PartOf(b, t).message <=>
               \E i \in Ids(c, "message") : e = Fact(b, "message", Rows(b, "message")[i])
  BY <1>2, <1>3, <1>4, <1>5, <1>6 DEF CropMessage
<1>8. KeptFacts(b, c, "message", PartOf(b, t).message)
  BY <1>7 DEF KeptFacts
<1> QED
  BY <1>1, <1>8, CroppedFacts

(* Names of messages of the thread.                                              *)
LEMMA CroppedNames ==
  ASSUME NEW b, NEW t, NEW c, Cropped(b, t, c), NEW x
  PROVE  Name(b, "message", x) \in {m.who : m \in PartOf(b, t).message} <=> x \in Ids(c, "message")
<1>1. "message" \in Tables
  BY DEF Tables
<1>2. \A e : e \in PartOf(b, t).message <=>
               \E i \in Ids(c, "message") : e = Fact(b, "message", Rows(b, "message")[i])
  <2>1. \A e : e \in FactsOf(c, "message") <=> \E r \in Contents(c, "message") : e = Fact(c, "message", r)
    BY DEF FactsOf
  <2> QED
    BY <1>1, <2>1, CroppedMessages, CroppedSays
<1>3. \A r : Fact(b, "message", r).who = r.who
  BY DEF Fact
<1>4. \A i \in Ids(c, "message") : i \in Ids(b, "message") /\ i # NULL
  BY <1>1, CroppedSays
<1>5. \A i \in Ids(c, "message") : Name(b, "message", x) = Rows(b, "message")[i].who <=> x = i
  <2>1. NamesApart(b, "message")
    BY DEF Cropped, RowsNamed
  <2> QED
    BY <1>4, <2>1, NamesTell
<1> QED
  BY <1>2, <1>3, <1>5

LEMMA CroppedOfMessages ==
  ASSUME NEW b, NEW t, NEW c, Cropped(b, t, c)
  PROVE  /\ FactsOf(c, "attachment") = PartOf(b, t).attachment
         /\ FactsOf(c, "reaction") = PartOf(b, t).reaction
<1>1. "attachment" \in Tables /\ "reaction" \in Tables
  BY DEF Tables
<1>2. PICK named : named = {m.who : m \in PartOf(b, t).message}
  OBVIOUS
<1>3. \A x : Name(b, "message", x) \in named <=> x \in Ids(c, "message")
  BY <1>2, CroppedNames
<1>4. FactsOf(c, "attachment") = PartOf(b, t).attachment
  <2>1. PartOf(b, t).attachment = {a \in FactsOf(b, "attachment") : a.message \in named}
    <3>1. Facts(b).attachment = FactsOf(b, "attachment")
      BY <1>1, FactsByTable DEF Kind
    <3> QED
      BY <1>2, <3>1 DEF PartOf, Merge!Part
  <2>2. \A r : Fact(b, "attachment", r).message = Name(b, "message", r.message_id)
    BY DEF Fact
  <2>3. CropOfMessage(c, b, "attachment")
    BY CropTables DEF Cropped
  <2>4. \A e : e \in FactsOf(b, "attachment")
                 <=> \E i \in Ids(b, "attachment") : e = Fact(b, "attachment", Rows(b, "attachment")[i])
    BY DEF FactsOf, Contents, Range, Ids
  <2>5. \A e : e \in PartOf(b, t).attachment <=>
                 \E i \in Ids(c, "attachment") : e = Fact(b, "attachment", Rows(b, "attachment")[i])
    BY <1>3, <2>1, <2>2, <2>3, <2>4 DEF CropOfMessage
  <2>6. PICK u, S : u = "attachment" /\ S = PartOf(b, t).attachment
    OBVIOUS
  <2>7. KeptFacts(b, c, u, S)
    BY <2>5, <2>6 DEF KeptFacts
  <2>8. FactsOf(c, u) = S
    BY <1>1, <2>6, <2>7, CroppedFacts
  <2> QED
    BY <2>6, <2>8
<1>5. FactsOf(c, "reaction") = PartOf(b, t).reaction
  <2>1. PartOf(b, t).reaction = {a \in FactsOf(b, "reaction") : a.message \in named}
    <3>1. Facts(b).reaction = FactsOf(b, "reaction")
      BY <1>1, FactsByTable DEF Kind
    <3> QED
      BY <1>2, <3>1 DEF PartOf, Merge!Part
  <2>2. \A r : Fact(b, "reaction", r).message = Name(b, "message", r.message_id)
    BY DEF Fact
  <2>3. CropOfMessage(c, b, "reaction")
    BY CropTables DEF Cropped
  <2>4. \A e : e \in FactsOf(b, "reaction")
                 <=> \E i \in Ids(b, "reaction") : e = Fact(b, "reaction", Rows(b, "reaction")[i])
    BY DEF FactsOf, Contents, Range, Ids
  <2>5. \A e : e \in PartOf(b, t).reaction <=>
                 \E i \in Ids(c, "reaction") : e = Fact(b, "reaction", Rows(b, "reaction")[i])
    BY <1>3, <2>1, <2>2, <2>3, <2>4 DEF CropOfMessage
  <2>6. PICK u, S : u = "reaction" /\ S = PartOf(b, t).reaction
    OBVIOUS
  <2>7. KeptFacts(b, c, u, S)
    BY <2>5, <2>6 DEF KeptFacts
  <2>8. FactsOf(c, u) = S
    BY <1>1, <2>6, <2>7, CroppedFacts
  <2> QED
    BY <2>6, <2>8
<1> QED
  BY <1>4, <1>5

-----------------------------------------------------------------------------
(* The one thread, if it has a message.                                          *)
LEMMA CroppedThread ==
  ASSUME NEW b, NEW t, NEW c, Cropped(b, t, c)
  PROVE  /\ \A i : i \in Ids(c, "thread") <=> i = t /\ Ids(c, "message") # {}
         /\ PartOf(b, t).message # {} <=> Ids(c, "message") # {}
         /\ \A r : r \in Contents(c, "thread") <=> r = Rows(b, "thread")[t] /\ Ids(c, "message") # {}
<1>1. "message" \in Tables /\ "thread" \in Tables
  BY DEF Tables
<1>2. /\ CropMessage(c, b, t) /\ CropThread(c, b)
  BY CropTables DEF Cropped
<1>3. \A r : r \in Contents(c, "message") <=> \E i \in Ids(c, "message") : r = Rows(b, "message")[i]
  BY <1>1, CroppedSays
<1>4. \A i : i \in Ids(c, "thread") <=> i = t /\ Ids(c, "message") # {}
  BY <1>2, <1>3 DEF CropMessage, CropThread, Cropped
<1>5. PartOf(b, t).message # {} <=> Ids(c, "message") # {}
  <2>1. \A e : e \in FactsOf(c, "message") <=> \E r \in Contents(c, "message") : e = Fact(c, "message", r)
    BY DEF FactsOf
  <2>2. FactsOf(c, "message") # {} <=> Ids(c, "message") # {}
    BY <1>3, <2>1
  <2> QED
    BY <2>2, CroppedMessages
<1>6. \A r : r \in Contents(c, "thread") <=> \E i \in Ids(c, "thread") : r = Rows(b, "thread")[i]
  BY <1>1, CroppedSays
<1> QED
  BY <1>4, <1>5, <1>6

LEMMA CroppedThreads ==
  ASSUME NEW b, NEW t, NEW c, Cropped(b, t, c)
  PROVE  FactsOf(c, "thread") = PartOf(b, t).thread
<1> DEFINE n == Rows(b, "thread")[t].who
<1>1. "thread" \in Tables
  BY DEF Tables
<1>2. PICK full \in BOOLEAN : full <=> Ids(c, "message") # {}
  OBVIOUS
<1>3. PartOf(b, t).thread = {r \in FactsOf(b, "thread") : r.who = n /\ Ids(c, "message") # {}}
  <2>1. Facts(b).thread = FactsOf(b, "thread")
    BY <1>1, FactsByTable DEF Kind
  <2>2. PartOf(b, t).thread = {r \in FactsOf(b, "thread") : r.who = n /\ PartOf(b, t).message # {}}
    BY <2>1 DEF PartOf, Merge!Part
  <2> QED
    BY <2>2, CroppedThread
<1>4. \A i \in Ids(b, "thread") : Rows(b, "thread")[i].who = n <=> i = t
  BY DEF Cropped, RowsNamed, NamesApart, UniqueNames
<1> HIDE DEF n
<1>5. \A r : Fact(b, "thread", r).who = r.who
  BY DEF Fact
<1>6. \A e : e \in FactsOf(b, "thread") <=> \E i \in Ids(b, "thread") : e = Fact(b, "thread", Rows(b, "thread")[i])
  BY DEF FactsOf, Contents, Range, Ids
<1>7. t \in Ids(b, "thread")
  BY DEF Cropped
<1>8. \A i : i \in Ids(c, "thread") <=> i = t /\ Ids(c, "message") # {}
  BY CroppedThread
<1>9. KeptFacts(b, c, "thread", PartOf(b, t).thread)
  BY <1>3, <1>4, <1>5, <1>6, <1>7, <1>8 DEF KeptFacts
<1> QED
  BY <1>1, <1>9, CroppedFacts

LEMMA CroppedMembers ==
  ASSUME NEW b, NEW t, NEW c, Cropped(b, t, c)
  PROVE  FactsOf(c, "group_membership") = PartOf(b, t).membership
<1>1. "group_membership" \in Tables /\ "thread" \in Tables /\ "recipient" \in Tables
  BY DEF Tables
<1>2. PICK n, row : n = Rows(b, "thread")[t].who /\ row = Rows(b, "thread")[t]
  OBVIOUS
<1>3. PartOf(b, t).membership = {r \in FactsOf(b, "group_membership") : r.group = n /\ Ids(c, "message") # {}}
  <2>1. Facts(b).membership = FactsOf(b, "group_membership")
    BY <1>1, FactsByTable DEF Kind
  <2>2. PartOf(b, t).membership = {r \in FactsOf(b, "group_membership") : r.group = n /\ PartOf(b, t).message # {}}
    BY <1>2, <2>1 DEF PartOf, Merge!Part
  <2> QED
    BY <2>2, CroppedThread
<1>4. row \in Contents(b, "thread") /\ row.who = n
  BY <1>2 DEF Cropped, Contents, Range, Ids
<1>5. row.recipient_id \in Ids(b, "recipient")
  <2>1. Fact(b, "thread", row) \in Facts(b).thread
    BY <1>1, <1>4, FactsByTable DEF FactsOf, Kind
  <2>2. row.who = Name(b, "recipient", row.recipient_id)
    BY <2>1 DEF Cropped, ThreadsNamed, Fact
  <2>3. row.who \notin {"nothing", "dangling"}
    BY <1>4 DEF Cropped, RowsNamed, NamesApart
  <2> QED
    BY <2>2, <2>3 DEF Name
<1>6. PICK g : g = Rows(b, "recipient")[row.recipient_id].group_id
  OBVIOUS
<1>7. \A m \in Contents(b, "group_membership") : m.group_id # "" /\ (m.group_id = n <=> m.group_id = g)
  BY <1>4, <1>6 DEF Cropped, GroupsNamed
<1>8. \A i : i \in Ids(c, "group_membership") <=>
           /\ i \in Ids(b, "group_membership") /\ Rows(b, "group_membership")[i].group_id # ""
           /\ Rows(b, "group_membership")[i].group_id = g /\ Ids(c, "message") # {}
  <2>1. CropMember(c, b)
    BY CropTables DEF Cropped
  <2>2. \A r : r \in Contents(c, "thread") <=> r = row /\ Ids(c, "message") # {}
    BY <1>2, CroppedThread
  <2>3. PICK u : u = "group_membership"
    OBVIOUS
  <2>4. SUFFICES ASSUME NEW i
        PROVE  i \in Ids(c, u) <=>
                 /\ i \in Ids(b, u) /\ Rows(b, u)[i].group_id # ""
                 /\ Rows(b, u)[i].group_id = g /\ Ids(c, "message") # {}
    BY <2>3
  <2>5. i \in Ids(c, u) <=>
           /\ i \in Ids(b, u)
           /\ Rows(b, u)[i].group_id # ""
           /\ \E r \in Contents(c, "thread") :
                /\ r.recipient_id \in Ids(b, "recipient")
                /\ Rows(b, u)[i].group_id = Rows(b, "recipient")[r.recipient_id].group_id
    BY <2>1, <2>3 DEF CropMember
  <2> QED
    BY <1>5, <1>6, <2>2, <2>5
<1>9. \A i \in Ids(b, "group_membership") : Rows(b, "group_membership")[i] \in Contents(b, "group_membership")
  BY DEF Contents, Range, Ids
<1>10. \A r : Fact(b, "group_membership", r).group = r.group_id
  BY DEF Fact
<1>11. \A e : e \in FactsOf(b, "group_membership") <=>
         \E i \in Ids(b, "group_membership") : e = Fact(b, "group_membership", Rows(b, "group_membership")[i])
  BY DEF FactsOf, Contents, Range, Ids
<1>12. PICK u, S : u = "group_membership" /\ S = PartOf(b, t).membership
  OBVIOUS
<1>13. KeptFacts(b, c, u, S)
  <2>1. \A i : i \in Ids(c, u) <=> i \in Ids(b, u) /\ Rows(b, u)[i].group_id = n /\ Ids(c, "message") # {}
    BY <1>7, <1>8, <1>9, <1>12
  <2>2. \A e : e \in S <=> e \in FactsOf(b, u) /\ e.group = n /\ Ids(c, "message") # {}
    BY <1>3, <1>12
  <2>3. \A r : Fact(b, u, r).group = r.group_id
    BY <1>10, <1>12
  <2>4. \A e : e \in FactsOf(b, u) <=> \E i \in Ids(b, u) : e = Fact(b, u, Rows(b, u)[i])
    BY <1>11, <1>12
  <2> QED
    BY <2>1, <2>2, <2>3, <2>4 DEF KeptFacts
<1> QED
  BY <1>1, <1>12, <1>13, CroppedFacts

-----------------------------------------------------------------------------
(* Those the rows of part p are about, by name.                                   *)
PeopleOf(p) ==
  {r.recipient : r \in p.thread} \cup {m.from : m \in p.message}
    \cup {r.author : r \in p.reaction} \cup {m.member : m \in p.membership}

LEMMA PartPeople ==
  ASSUME NEW b, NEW t
  PROVE  /\ PartOf(b, t).recipient = Facts(b).recipient \cap PeopleOf(PartOf(b, t))
         /\ PartOf(b, t).avatar = {a \in Facts(b).avatar : a.of \in PeopleOf(PartOf(b, t))}
         /\ PartOf(b, t).data = {d \in Facts(b).data : d.row \in {a.who : a \in PartOf(b, t).attachment}}
BY DEF PartOf, Merge!Part, PeopleOf

(* The rows that are left refer to recipient x.                                   *)
ReferTo(c, x) ==
  \/ \E r \in Contents(c, "thread") : r.recipient_id = x
  \/ \E m \in Contents(c, "message") : m.from_recipient_id = x
  \/ \E m \in Contents(c, "group_membership") : m.recipient_id = x
  \/ \E r \in Contents(c, "reaction") : r.author_id = x

LEMMA PeopleReferred ==
  ASSUME NEW b, NEW t, NEW c, Cropped(b, t, c), NEW x \in Ids(b, "recipient")
  PROVE  Rows(b, "recipient")[x].who \in PeopleOf(PartOf(b, t)) <=> ReferTo(c, x)
<1>1. /\ "thread" \in Tables /\ "message" \in Tables /\ "group_membership" \in Tables
      /\ "reaction" \in Tables /\ "recipient" \in Tables
  BY DEF Tables
<1>2. PICK p, n : p = PartOf(b, t) /\ n = Rows(b, "recipient")[x].who
  OBVIOUS
<1>3. \A y : Name(b, "recipient", y) = n <=> y = x
  <2>1. NamesApart(b, "recipient")
    BY DEF Cropped, RowsNamed
  <2>2. x # NULL
    BY <1>1 DEF Cropped, BackupOk, NULL
  <2> QED
    BY <1>2, <2>1, <2>2, NamesTell
<1>4. /\ p.thread = FactsOf(c, "thread") /\ p.message = FactsOf(c, "message")
      /\ p.reaction = FactsOf(c, "reaction") /\ p.membership = FactsOf(c, "group_membership")
  BY <1>2, CroppedThreads, CroppedMessages, CroppedOfMessages, CroppedMembers
<1>5. /\ \A r \in Contents(c, "thread") : Fact(c, "thread", r) = Fact(b, "thread", r)
      /\ \A r \in Contents(c, "message") : Fact(c, "message", r) = Fact(b, "message", r)
      /\ \A r \in Contents(c, "reaction") : Fact(c, "reaction", r) = Fact(b, "reaction", r)
      /\ \A r \in Contents(c, "group_membership") : Fact(c, "group_membership", r) = Fact(b, "group_membership", r)
  BY <1>1, CroppedSays
<1>6. /\ \A r : Fact(b, "thread", r).recipient = Name(b, "recipient", r.recipient_id)
      /\ \A r : Fact(b, "message", r).from = Name(b, "recipient", r.from_recipient_id)
      /\ \A r : Fact(b, "reaction", r).author = Name(b, "recipient", r.author_id)
      /\ \A r : Fact(b, "group_membership", r).member = Name(b, "recipient", r.recipient_id)
  BY DEF Fact
<1>7. PICK A, B, C, D : /\ A = {r.recipient : r \in p.thread} /\ B = {m.from : m \in p.message}
                        /\ C = {r.author : r \in p.reaction} /\ D = {m.member : m \in p.membership}
  OBVIOUS
<1>8. n \in A <=> \E r \in Contents(c, "thread") : r.recipient_id = x
  <2>1. \A e : e \in p.thread <=> \E r \in Contents(c, "thread") : e = Fact(b, "thread", r)
    BY <1>4, <1>5 DEF FactsOf
  <2>2. \A r : Fact(b, "thread", r).recipient = n <=> r.recipient_id = x
    BY <1>3, <1>6
  <2>3. n \in A <=> \E e \in p.thread : e.recipient = n
    BY <1>7
  <2> QED
    BY <2>1, <2>2, <2>3
<1>9. n \in B <=> \E r \in Contents(c, "message") : r.from_recipient_id = x
  <2>1. \A e : e \in p.message <=> \E r \in Contents(c, "message") : e = Fact(b, "message", r)
    BY <1>4, <1>5 DEF FactsOf
  <2>2. \A r : Fact(b, "message", r).from = n <=> r.from_recipient_id = x
    BY <1>3, <1>6
  <2>3. n \in B <=> \E e \in p.message : e.from = n
    BY <1>7
  <2> QED
    BY <2>1, <2>2, <2>3
<1>10. n \in C <=> \E r \in Contents(c, "reaction") : r.author_id = x
  <2>1. \A e : e \in p.reaction <=> \E r \in Contents(c, "reaction") : e = Fact(b, "reaction", r)
    BY <1>4, <1>5 DEF FactsOf
  <2>2. \A r : Fact(b, "reaction", r).author = n <=> r.author_id = x
    BY <1>3, <1>6
  <2>3. n \in C <=> \E e \in p.reaction : e.author = n
    BY <1>7
  <2> QED
    BY <2>1, <2>2, <2>3
<1>11. n \in D <=> \E r \in Contents(c, "group_membership") : r.recipient_id = x
  <2>1. \A e : e \in p.membership <=> \E r \in Contents(c, "group_membership") : e = Fact(b, "group_membership", r)
    BY <1>4, <1>5 DEF FactsOf
  <2>2. \A r : Fact(b, "group_membership", r).member = n <=> r.recipient_id = x
    BY <1>3, <1>6
  <2>3. n \in D <=> \E e \in p.membership : e.member = n
    BY <1>7
  <2> QED
    BY <2>1, <2>2, <2>3
<1>12. n \in PeopleOf(p) <=> ReferTo(c, x)
  <2>1. PeopleOf(p) = A \cup B \cup C \cup D
    BY <1>7 DEF PeopleOf
  <2>2. ASSUME n \in A \cup B \cup C \cup D PROVE ReferTo(c, x)
    BY <1>8, <1>9, <1>10, <1>11, <2>2 DEF ReferTo
  <2>3. ASSUME ReferTo(c, x) PROVE n \in A \cup B \cup C \cup D
    <3>1. CASE \E r \in Contents(c, "thread") : r.recipient_id = x
      BY <1>8, <3>1
    <3>2. CASE \E m \in Contents(c, "message") : m.from_recipient_id = x
      BY <1>9, <3>2
    <3>3. CASE \E r \in Contents(c, "reaction") : r.author_id = x
      BY <1>10, <3>3
    <3>4. CASE \E m \in Contents(c, "group_membership") : m.recipient_id = x
      BY <1>11, <3>4
    <3> QED
      BY <2>3, <3>1, <3>2, <3>3, <3>4 DEF ReferTo
  <2> QED
    BY <2>1, <2>2, <2>3
<1> QED
  BY <1>2, <1>12

LEMMA CroppedPeople ==
  ASSUME NEW b, NEW t, NEW c, Cropped(b, t, c)
  PROVE  FactsOf(c, "recipient") = PartOf(b, t).recipient
<1>1. "recipient" \in Tables
  BY DEF Tables
<1>2. \A i : i \in Ids(c, "recipient") <=> i \in Ids(b, "recipient") /\ ReferTo(c, i)
  BY CropTables DEF Cropped, CropRecipient, ReferTo
<1>3. PICK u, S : u = "recipient" /\ S = PartOf(b, t).recipient
  OBVIOUS
<1>4. \A r : Fact(b, u, r) = r.who
  BY <1>3 DEF Fact
<1>5. PICK people : people = PeopleOf(PartOf(b, t))
  OBVIOUS
<1>6. S = FactsOf(b, u) \cap people
  <2>1. Facts(b).recipient = FactsOf(b, "recipient")
    BY <1>1, FactsByTable DEF Kind
  <2> QED
    BY <1>3, <1>5, <2>1, PartPeople
<1>7. \A e : e \in FactsOf(b, u) <=> \E i \in Ids(b, u) : e = Fact(b, u, Rows(b, u)[i])
  BY DEF FactsOf, Contents, Range, Ids
<1>8. \A i \in Ids(b, u) : Rows(b, u)[i].who \in people <=> ReferTo(c, i)
  BY <1>3, <1>5, PeopleReferred
<1>9. KeptFacts(b, c, u, S)
  BY <1>2, <1>3, <1>4, <1>6, <1>7, <1>8 DEF KeptFacts
<1> QED
  BY <1>1, <1>3, <1>9, CroppedFacts

(* The data of the attachments that are left, and avatars of those who are.       *)
LEMMA CroppedData ==
  ASSUME NEW b, NEW t, NEW c, Cropped(b, t, c)
  PROVE  Facts(c).data = PartOf(b, t).data
<1>1. "attachment" \in Tables
  BY DEF Tables
<1>2. PICK named : named = {a.who : a \in PartOf(b, t).attachment}
  OBVIOUS
<1>3. \A n : n \in named <=> \E i \in Ids(c, "attachment") : n = Rows(b, "attachment")[i].who
  <2>1. \A e : e \in PartOf(b, t).attachment <=>
                 \E r \in Contents(c, "attachment") : e = Fact(c, "attachment", r)
    BY CroppedOfMessages DEF FactsOf
  <2>2. \A r : Fact(c, "attachment", r).who = r.who
    BY DEF Fact
  <2>3. \A r : r \in Contents(c, "attachment") <=> \E i \in Ids(c, "attachment") : r = Rows(b, "attachment")[i]
    BY <1>1, CroppedSays
  <2> QED
    BY <1>2, <2>1, <2>2, <2>3
<1>4. \A i \in Ids(c, "attachment") : /\ i \in Ids(b, "attachment") /\ i # NULL
                                      /\ Name(c, "attachment", i) = Name(b, "attachment", i)
  BY <1>1, CroppedSays
<1>5. \A i \in Ids(c, "attachment") : \A x : Name(b, "attachment", x) = Rows(b, "attachment")[i].who <=> x = i
  <2>1. NamesApart(b, "attachment")
    BY DEF Cropped, RowsNamed
  <2> QED
    BY <1>4, <2>1, NamesTell
<1>6. \A x : Name(b, "attachment", x) \in named <=> x \in Ids(c, "attachment")
  BY <1>3, <1>5
<1>7. c.d_attachments = Restrict(b.d_attachments, DOMAIN b.d_attachments \cap Ids(c, "attachment"))
  BY DEF Cropped, CropToThread, Ids, Rows
<1>8. /\ \A i : i \in DOMAIN c.d_attachments <=> i \in DOMAIN b.d_attachments /\ i \in Ids(c, "attachment")
      /\ \A i \in DOMAIN c.d_attachments : c.d_attachments[i] = b.d_attachments[i]
  BY <1>7 DEF Restrict
<1>9. PartOf(b, t).data = {d \in Facts(b).data : d.row \in named}
  BY <1>2, PartPeople
<1>10. \A d, e : e \in Facts(d).data <=>
         \E i \in DOMAIN d.d_attachments : e = [row |-> Name(d, "attachment", i), data |-> d.d_attachments[i]]
  BY DEF Facts
<1>11. ASSUME NEW e
       PROVE  e \in Facts(c).data <=> e \in PartOf(b, t).data
  <2>1. e \in Facts(c).data <=>
         \E i \in DOMAIN c.d_attachments : e = [row |-> Name(b, "attachment", i), data |-> b.d_attachments[i]]
    BY <1>4, <1>8, <1>10
  <2>2. e \in PartOf(b, t).data <=>
         \E i \in DOMAIN b.d_attachments : /\ e = [row |-> Name(b, "attachment", i), data |-> b.d_attachments[i]]
                                           /\ i \in Ids(c, "attachment")
    BY <1>6, <1>9, <1>10
  <2> QED
    BY <1>8, <2>1, <2>2
<1> QED
  BY <1>11

LEMMA CroppedAvatars ==
  ASSUME NEW b, NEW t, NEW c, Cropped(b, t, c)
  PROVE  Facts(c).avatar \subseteq PartOf(b, t).avatar
<1>1. "recipient" \in Tables
  BY DEF Tables
<1>2. \A i : i \in Ids(c, "recipient") <=> i \in Ids(b, "recipient") /\ ReferTo(c, i)
  BY CropTables DEF Cropped, CropRecipient, ReferTo
<1>3. c.d_avatars = {a \in b.d_avatars : a.recipient \in Ids(c, "recipient")}
  BY DEF Cropped, CropToThread, Ids, Rows
<1>4. PICK people : people = PeopleOf(PartOf(b, t))
  OBVIOUS
<1>5. PartOf(b, t).avatar = {a \in Facts(b).avatar : a.of \in people}
  BY <1>4, PartPeople
<1>6. \A d, e : e \in Facts(d).avatar <=>
         \E a \in d.d_avatars : e = [of |-> Name(d, "recipient", a.recipient), picture |-> a.picture]
  BY DEF Facts
<1>7. ASSUME NEW i \in Ids(c, "recipient")
      PROVE  Name(c, "recipient", i) = Name(b, "recipient", i) /\ Name(b, "recipient", i) \in people
  <2>1. Name(c, "recipient", i) = Name(b, "recipient", i) /\ i # NULL /\ i \in Ids(b, "recipient")
    BY <1>1, CroppedSays
  <2>2. Name(b, "recipient", i) = Rows(b, "recipient")[i].who
    BY <2>1 DEF Name
  <2> QED
    BY <1>2, <1>4, <2>1, <2>2, PeopleReferred
<1> QED
  BY <1>3, <1>5, <1>6, <1>7

(* All of it: a backup that is cropped to a thread says its part of the whole.    *)
LEMMA CropSaysPart ==
  ASSUME NEW b, NEW t, NEW c, Cropped(b, t, c)
  PROVE  /\ \A u \in Tables : FactsOf(c, u) = PartOf(b, t)[Kind(u)]
         /\ Facts(c).data = PartOf(b, t).data
         /\ Facts(c).avatar \subseteq PartOf(b, t).avatar
<1>1. PICK p : p = PartOf(b, t)
  OBVIOUS
<1>2. ASSUME NEW u \in Tables
      PROVE  FactsOf(c, u) = p[Kind(u)]
  <2>1. CASE u = "thread"
    BY <1>1, <2>1, CroppedThreads DEF Kind
  <2>2. CASE u = "message"
    BY <1>1, <2>2, CroppedMessages DEF Kind
  <2>3. CASE u = "attachment"
    BY <1>1, <2>3, CroppedOfMessages DEF Kind
  <2>4. CASE u = "recipient"
    BY <1>1, <2>4, CroppedPeople DEF Kind
  <2>5. CASE u = "reaction"
    BY <1>1, <2>5, CroppedOfMessages DEF Kind
  <2>6. CASE u = "group_membership"
    BY <1>1, <2>6, CroppedMembers DEF Kind
  <2> QED
    BY <2>1, <2>2, <2>3, <2>4, <2>5, <2>6 DEF Tables
<1> QED
  BY <1>1, <1>2, CroppedData, CroppedAvatars

-----------------------------------------------------------------------------
(* Two backups together say what one says and the part *)

(* The rows and frames of two backups together, the _ids of which are apart.      *)
Joined(b, s) ==
  [d_database    |-> [t \in Tables |->
                        [i \in Ids(b, t) \cup Ids(s, t) |-> IF i \in Ids(s, t) THEN Rows(s, t)[i] ELSE Rows(b, t)[i]]],
   d_attachments |-> [i \in DOMAIN b.d_attachments \cup DOMAIN s.d_attachments |->
                        IF i \in DOMAIN b.d_attachments THEN b.d_attachments[i] ELSE s.d_attachments[i]],
   d_avatars     |-> b.d_avatars \cup s.d_avatars]

Apart(b, s) ==
  /\ BackupOk(b) /\ BackupOk(s)
  /\ \A t \in Tables : Ids(s, t) \cap Ids(b, t) = {}

LEMMA JoinedRows ==
  ASSUME NEW b, NEW s, Apart(b, s), NEW j, j = Joined(b, s), NEW t \in Tables
  PROVE  /\ Ids(j, t) = Ids(b, t) \cup Ids(s, t)
         /\ \A i \in Ids(s, t) : Rows(j, t)[i] = Rows(s, t)[i]
         /\ \A i \in Ids(b, t) : Rows(j, t)[i] = Rows(b, t)[i]
         /\ Contents(j, t) = Contents(b, t) \cup Contents(s, t)
<1>1. Rows(j, t) = [i \in Ids(b, t) \cup Ids(s, t) |-> IF i \in Ids(s, t) THEN Rows(s, t)[i] ELSE Rows(b, t)[i]]
  BY DEF Joined, Rows
<1>2. Ids(j, t) = Ids(b, t) \cup Ids(s, t)
  BY <1>1 DEF Ids
<1>3. \A i \in Ids(s, t) : Rows(j, t)[i] = Rows(s, t)[i]
  BY <1>1
<1>4. \A i \in Ids(b, t) : i \notin Ids(s, t)
  BY DEF Apart
<1>5. \A i \in Ids(b, t) : Rows(j, t)[i] = Rows(b, t)[i]
  BY <1>1, <1>4
<1>6. \A d, r : r \in Contents(d, t) <=> \E i \in Ids(d, t) : r = Rows(d, t)[i]
  BY DEF Contents, Range, Ids
<1>7. Contents(j, t) = Contents(b, t) \cup Contents(s, t)
  BY <1>2, <1>3, <1>5, <1>6
<1> QED
  BY <1>2, <1>3, <1>5, <1>7

(* Rows are called what they were.                                               *)
LEMMA JoinedNames ==
  ASSUME NEW b, NEW s, Apart(b, s), NEW j, j = Joined(b, s), NEW t \in Tables
  PROVE  /\ \A x \in Ids(s, t) : Name(j, t, x) = Rows(s, t)[x].who /\ Name(s, t, x) = Rows(s, t)[x].who
         /\ \A x \in Ids(b, t) : Name(j, t, x) = Rows(b, t)[x].who /\ Name(b, t, x) = Rows(b, t)[x].who
         /\ \A x \in Ids(s, t) \cup {NULL} : Name(j, t, x) = Name(s, t, x)
         /\ \A x \in Ids(b, t) \cup {NULL} : Name(j, t, x) = Name(b, t, x)
<1>1. \A x \in Ids(b, t) \cup Ids(s, t) : x # NULL
  BY DEF Apart, BackupOk, NULL
<1>2. Ids(j, t) = Ids(b, t) \cup Ids(s, t)
  BY JoinedRows
<1>3. \A x \in Ids(s, t) : Name(j, t, x) = Rows(s, t)[x].who /\ Name(s, t, x) = Rows(s, t)[x].who
  BY <1>1, <1>2, JoinedRows DEF Name
<1>4. \A x \in Ids(b, t) : Name(j, t, x) = Rows(b, t)[x].who /\ Name(b, t, x) = Rows(b, t)[x].who
  BY <1>1, <1>2, JoinedRows DEF Name
<1>5. Name(j, t, NULL) = Name(s, t, NULL) /\ Name(j, t, NULL) = Name(b, t, NULL)
  BY DEF Name
<1> QED
  BY <1>3, <1>4, <1>5

-----------------------------------------------------------------------------
(* What the rows of s say when they are with those of b,                          *)
Says(b, s, u) == {Fact(Joined(b, s), u, r) : r \in Contents(s, u)}

SaysData(b, s) ==
  {[row |-> Name(Joined(b, s), "attachment", i), data |-> s.d_attachments[i]] : i \in DOMAIN s.d_attachments}

SaysAvatars(b, s) ==
  {[of |-> Name(Joined(b, s), "recipient", a.recipient), picture |-> a.picture] : a \in s.d_avatars}

(* is part p of another backup, but for what b says already.                      *)
Brought(b, s, p) ==
  /\ \A u \in Tables : /\ Says(b, s, u) \subseteq p[Kind(u)]
                       /\ p[Kind(u)] \subseteq Says(b, s, u) \cup FactsOf(b, u)
  /\ SaysData(b, s) = p.data
  /\ SaysAvatars(b, s) \subseteq p.avatar

LEMMA BroughtAtFirst ==
  ASSUME NEW b, NEW s, Apart(b, s), RefersWithin(s), HaveRows(s), NEW p,
         \A u \in Tables : FactsOf(s, u) = p[Kind(u)],
         Facts(s).data = p.data, Facts(s).avatar \subseteq p.avatar
  PROVE  Brought(b, s, p)
<1>1. PICK j : j = Joined(b, s)
  OBVIOUS
<1>2. "attachment" \in Tables /\ "recipient" \in Tables
  BY DEF Tables
<1>3. \A v \in Tables : \A x \in Ids(s, v) \cup {NULL} : Name(s, v, x) = Name(j, v, x)
  BY <1>1, JoinedNames
<1>4. ASSUME NEW u \in Tables
      PROVE  Says(b, s, u) = FactsOf(s, u)
  <2>1. \A r \in Contents(s, u) : Fact(s, u, r) = Fact(j, u, r)
    BY <1>3, SameWithin
  <2> QED
    BY <1>1, <2>1 DEF Says, FactsOf
<1>5. SaysData(b, s) = Facts(s).data
  <2>1. Facts(s).data = {[row |-> Name(s, "attachment", i), data |-> s.d_attachments[i]] : i \in DOMAIN s.d_attachments}
    BY DEF Facts
  <2>2. \A i \in DOMAIN s.d_attachments : Name(s, "attachment", i) = Name(j, "attachment", i)
    BY <1>2, <1>3 DEF HaveRows
  <2> QED
    BY <1>1, <2>1, <2>2 DEF SaysData
<1>6. SaysAvatars(b, s) = Facts(s).avatar
  <2>1. Facts(s).avatar = {[of |-> Name(s, "recipient", a.recipient), picture |-> a.picture] : a \in s.d_avatars}
    BY DEF Facts
  <2>2. \A a \in s.d_avatars : Name(s, "recipient", a.recipient) = Name(j, "recipient", a.recipient)
    BY <1>2, <1>3 DEF HaveRows
  <2> QED
    BY <1>1, <2>1, <2>2 DEF SaysAvatars
<1> QED
  BY <1>4, <1>5, <1>6 DEF Brought

(* The two together say what b does and the part.                                 *)
LEMMA JoinedFacts ==
  ASSUME NEW b, NEW s, Apart(b, s), RefersWithin(b), HaveRows(b), NEW p, Brought(b, s, p),
         DOMAIN s.d_attachments \cap DOMAIN b.d_attachments = {}, NEW j, j = Joined(b, s)
  PROVE  /\ \A u \in Tables : FactsOf(j, u) = FactsOf(b, u) \cup p[Kind(u)]
         /\ Facts(j).data = Facts(b).data \cup p.data
         /\ Facts(j).avatar = Facts(b).avatar \cup SaysAvatars(b, s)
<1>1. \A v \in Tables : \A x \in Ids(b, v) \cup {NULL} : Name(b, v, x) = Name(j, v, x)
  BY JoinedNames
<1>2. "attachment" \in Tables /\ "recipient" \in Tables
  BY DEF Tables
<1>3. ASSUME NEW u \in Tables
      PROVE  FactsOf(j, u) = FactsOf(b, u) \cup p[Kind(u)]
  <2>1. \A r \in Contents(b, u) : Fact(b, u, r) = Fact(j, u, r)
    BY <1>1, SameWithin
  <2>2. Contents(j, u) = Contents(b, u) \cup Contents(s, u)
    BY JoinedRows
  <2>3. FactsOf(j, u) = FactsOf(b, u) \cup Says(b, s, u)
    BY <2>1, <2>2 DEF FactsOf, Says
  <2> QED
    BY <2>3 DEF Brought
<1>4. Facts(j).data = Facts(b).data \cup SaysData(b, s)
  <2>1. \A d : Facts(d).data = {[row |-> Name(d, "attachment", i), data |-> d.d_attachments[i]] : i \in DOMAIN d.d_attachments}
    BY DEF Facts
  <2>2. \A i \in DOMAIN b.d_attachments : Name(b, "attachment", i) = Name(j, "attachment", i)
    BY <1>1, <1>2 DEF HaveRows
  <2>3. /\ DOMAIN j.d_attachments = DOMAIN b.d_attachments \cup DOMAIN s.d_attachments
        /\ \A i \in DOMAIN b.d_attachments : j.d_attachments[i] = b.d_attachments[i]
        /\ \A i \in DOMAIN s.d_attachments : j.d_attachments[i] = s.d_attachments[i]
    BY DEF Joined
  <2>4. \A e : e \in Facts(j).data <=>
          \E i \in DOMAIN j.d_attachments : e = [row |-> Name(j, "attachment", i), data |-> j.d_attachments[i]]
    BY <2>1
  <2>5. \A e : e \in Facts(b).data <=>
          \E i \in DOMAIN b.d_attachments : e = [row |-> Name(j, "attachment", i), data |-> b.d_attachments[i]]
    BY <2>1, <2>2
  <2>6. \A e : e \in SaysData(b, s) <=>
          \E i \in DOMAIN s.d_attachments : e = [row |-> Name(j, "attachment", i), data |-> s.d_attachments[i]]
    BY DEF SaysData
  <2> QED
    BY <2>3, <2>4, <2>5, <2>6
<1>5. Facts(j).avatar = Facts(b).avatar \cup SaysAvatars(b, s)
  <2>1. \A d : Facts(d).avatar = {[of |-> Name(d, "recipient", a.recipient), picture |-> a.picture] : a \in d.d_avatars}
    BY DEF Facts
  <2>2. \A a \in b.d_avatars : Name(b, "recipient", a.recipient) = Name(j, "recipient", a.recipient)
    BY <1>1, <1>2 DEF HaveRows
  <2>3. j.d_avatars = b.d_avatars \cup s.d_avatars
    BY DEF Joined
  <2>4. \A e : e \in Facts(j).avatar <=>
          \E a \in j.d_avatars : e = [of |-> Name(j, "recipient", a.recipient), picture |-> a.picture]
    BY <2>1
  <2>5. \A e : e \in Facts(b).avatar <=>
          \E a \in b.d_avatars : e = [of |-> Name(j, "recipient", a.recipient), picture |-> a.picture]
    BY <2>1, <2>2
  <2>6. \A e : e \in SaysAvatars(b, s) <=>
          \E a \in s.d_avatars : e = [of |-> Name(j, "recipient", a.recipient), picture |-> a.picture]
    BY DEF SaysAvatars
  <2> QED
    BY <2>3, <2>4, <2>5, <2>6
<1> QED
  BY <1>3, <1>4, <1>5 DEF Brought

(* The rows of s become those of c, which say the same when they are with those   *)
(* of b; what b says as well may go.                                              *)
Rewrites(b, s, c) ==
  /\ \A u \in Tables : \A k \in Ids(c, u) :
       k \in Ids(s, u) /\ Fact(Joined(b, c), u, Rows(c, u)[k]) = Fact(Joined(b, s), u, Rows(s, u)[k])
  /\ \A u \in Tables : \A k \in Ids(s, u) \ Ids(c, u) :
       Fact(Joined(b, s), u, Rows(s, u)[k]) \in FactsOf(b, u)
  /\ SaysData(b, c) = SaysData(b, s)
  /\ SaysAvatars(b, c) \subseteq SaysAvatars(b, s)

LEMMA StillBrought ==
  ASSUME NEW b, NEW s, NEW c, NEW p, Brought(b, s, p), Rewrites(b, s, c)
  PROVE  Brought(b, c, p)
<1>1. ASSUME NEW u \in Tables
      PROVE  /\ Says(b, c, u) \subseteq Says(b, s, u)
             /\ Says(b, s, u) \subseteq Says(b, c, u) \cup FactsOf(b, u)
  <2>1. \A e : e \in Says(b, c, u) <=> \E k \in Ids(c, u) : e = Fact(Joined(b, c), u, Rows(c, u)[k])
    BY DEF Says, Contents, Range, Ids
  <2>2. \A e : e \in Says(b, s, u) <=> \E k \in Ids(s, u) : e = Fact(Joined(b, s), u, Rows(s, u)[k])
    BY DEF Says, Contents, Range, Ids
  <2>3. \A k \in Ids(c, u) :
          k \in Ids(s, u) /\ Fact(Joined(b, c), u, Rows(c, u)[k]) = Fact(Joined(b, s), u, Rows(s, u)[k])
    BY DEF Rewrites
  <2>4. \A k \in Ids(s, u) : k \notin Ids(c, u) => Fact(Joined(b, s), u, Rows(s, u)[k]) \in FactsOf(b, u)
    BY DEF Rewrites
  <2> QED
    BY <2>1, <2>2, <2>3, <2>4
<1>2. \A u \in Tables : /\ Says(b, s, u) \subseteq p[Kind(u)]
                        /\ p[Kind(u)] \subseteq Says(b, s, u) \cup FactsOf(b, u)
  BY DEF Brought
<1>3. ASSUME NEW u \in Tables
      PROVE  /\ Says(b, c, u) \subseteq p[Kind(u)]
             /\ p[Kind(u)] \subseteq Says(b, c, u) \cup FactsOf(b, u)
  BY <1>1, <1>2
<1>4. SaysData(b, c) = p.data /\ SaysAvatars(b, c) \subseteq p.avatar
  BY DEF Brought, Rewrites
<1> QED
  BY <1>3, <1>4 DEF Brought

-----------------------------------------------------------------------------
(* The thread that is found in the target is the one of the same name *)

(* What a thread is called is what the recipient it refers to is called.          *)
LEMMA ThreadsAreNamed ==
  ASSUME NEW b, ThreadsNamed(b), NEW t \in Ids(b, "thread")
  PROVE  Rows(b, "thread")[t].who = Name(b, "recipient", Rows(b, "thread")[t].recipient_id)
<1>1. PICK row : row = Rows(b, "thread")[t]
  OBVIOUS
<1>2. row \in Contents(b, "thread")
  BY <1>1 DEF Contents, Range, Ids
<1>3. Fact(b, "thread", row) \in Facts(b).thread
  BY <1>2, FactsByTable DEF FactsOf, Kind, Tables
<1>4. row.who = Name(b, "recipient", row.recipient_id)
  BY <1>3 DEF ThreadsNamed, Fact
<1> QED
  BY <1>1, <1>4

(* What the source is like from which threads are imported.                       *)
Importable(b) ==
  /\ BackupOk(b) /\ RowsNamed(b) /\ ThreadsNamed(b) /\ GroupsNamed(b)

LEMMA RecipientOfThread ==
  ASSUME NEW b, Importable(b), NEW t \in Ids(b, "thread")
  PROVE  /\ RecipientOf(b, t) \in Contents(b, "recipient")
         /\ RecipientOf(b, t).who = Rows(b, "thread")[t].who
         /\ Rows(b, "thread")[t].who \notin {"nothing", "dangling", "no thread"}
<1>1. PICK row : row = Rows(b, "thread")[t]
  OBVIOUS
<1>2. row.who = Name(b, "recipient", row.recipient_id)
  BY <1>1, ThreadsAreNamed DEF Importable
<1>3. row.who \notin {"nothing", "dangling", "no thread"}
  <2>1. row \in Contents(b, "thread")
    BY <1>1 DEF Contents, Range, Ids
  <2> QED
    BY <2>1 DEF Importable, RowsNamed, NamesApart
<1>4. row.recipient_id \in Ids(b, "recipient") /\ Rows(b, "recipient")[row.recipient_id].who = row.who
  BY <1>2, <1>3 DEF Name
<1> QED
  BY <1>1, <1>3, <1>4 DEF RecipientOf, Contents, Range, Ids

(* What the target is like into which they are.                                   *)
ImportedInto(b, s) ==
  /\ BackupOk(b) /\ RowsOk(b) /\ RefersWithin(b) /\ HaveRows(b)
  /\ UniqueNames(b, "recipient") /\ ThreadsNamed(b) /\ KnownApart(b, s)

(* The recipients a thread is looked for by are those of its name.                *)
LEMMA CandidatesAreNamed ==
  ASSUME ImportedInto(target, src), Importable(src), NEW r \in Contents(src, "recipient"),
         NEW i \in Ids(target, "recipient")
  PROVE  i \in Candidates(r) <=> Rows(target, "recipient")[i].who = r.who
<1> DEFINE by(fields) == {k \in Ids(target, "recipient") : Same(r, Rows(target, "recipient")[k], fields)}
<1>1. Candidates(r) = by({"group_id"}) \cup IF by({"aci"}) # {} THEN by({"aci"}) ELSE by({"e164"})
  BY DEF Candidates
<1>2. ASSUME NEW k \in Ids(target, "recipient")
      PROVE  (k \in by({"group_id"}) \/ k \in by({"aci"}) \/ k \in by({"e164"}))
               <=> Rows(target, "recipient")[k].who = r.who
  <2>1. Rows(target, "recipient")[k] \in Contents(target, "recipient")
    BY DEF Contents, Range, Ids
  <2>2. Same(Rows(target, "recipient")[k], r, Fields) <=> Rows(target, "recipient")[k].who = r.who
    BY <2>1 DEF ImportedInto, KnownApart
  <2>3. (k \in by({"group_id"}) \/ k \in by({"aci"}) \/ k \in by({"e164"}))
          <=> Same(Rows(target, "recipient")[k], r, Fields)
    BY DEF Same, Fields
  <2> QED
    BY <2>2, <2>3
<1>3. \A k \in by({"aci"}) \cup by({"e164"}) : k \in Ids(target, "recipient")
  OBVIOUS
<1> HIDE DEF by
<1>4. \A k, l \in Ids(target, "recipient") :
        Rows(target, "recipient")[k].who = Rows(target, "recipient")[l].who => k = l
  BY DEF ImportedInto, UniqueNames
<1>5. by({"aci"}) # {} /\ i \in by({"e164"}) => i \in by({"aci"})
  <2> SUFFICES ASSUME NEW k \in by({"aci"}), i \in by({"e164"})
               PROVE  i \in by({"aci"})
    OBVIOUS
  <2>1. Rows(target, "recipient")[k].who = r.who /\ Rows(target, "recipient")[i].who = r.who
    BY <1>2, <1>3
  <2>2. k = i
    BY <1>3, <1>4, <2>1
  <2> QED
    BY <2>2
<1> QED
  BY <1>1, <1>2, <1>5

(* A thread that is found has the name of the one that is imported,                *)
LEMMA FoundIsNamed ==
  ASSUME ImportedInto(target, src), Importable(src), thread \in Ids(src, "thread"), FoundThread # NULL
  PROVE  /\ FoundThread \in Ids(target, "thread")
         /\ Rows(target, "thread")[FoundThread].who = Rows(src, "thread")[thread].who
<1>1. PICK r, n : r = RecipientOf(src, thread) /\ n = Rows(src, "thread")[thread].who
  OBVIOUS
<1>2. r \in Contents(src, "recipient") /\ r.who = n
  BY <1>1, RecipientOfThread
<1>3. PICK matches, found : /\ matches = Candidates(r)
                            /\ found = UNION {getThreadIdFromRecipient(i) : i \in matches}
  OBVIOUS
<1>4. FoundThread = IF Cardinality(matches) = 1 /\ Cardinality(found) = 1
                    THEN CHOOSE t \in found : TRUE ELSE NULL
  BY <1>1, <1>3 DEF FoundThread
<1>5. Cardinality(found) = 1
  BY <1>4
<1>6. found # {}
  BY <1>5, FS_EmptySet
<1>7. FoundThread \in found
  BY <1>4, <1>5, <1>6
<1>8. PICK i \in matches : FoundThread \in getThreadIdFromRecipient(i)
  BY <1>3, <1>7
<1>9. i \in Ids(target, "recipient")
  BY <1>3, <1>8 DEF Candidates
<1>10. Rows(target, "recipient")[i].who = n
  BY <1>2, <1>3, <1>8, <1>9, CandidatesAreNamed
<1>11. FoundThread \in Ids(target, "thread") /\ Rows(target, "thread")[FoundThread].recipient_id = i
  BY <1>8 DEF getThreadIdFromRecipient
<1>12. PICK f : f = FoundThread
  OBVIOUS
<1>13. Rows(target, "thread")[f].who = Name(target, "recipient", i)
  BY <1>11, <1>12, ThreadsAreNamed DEF ImportedInto
<1>14. i # NULL
  BY <1>9 DEF ImportedInto, BackupOk, NULL, Tables
<1>15. Name(target, "recipient", i) = n
  BY <1>9, <1>10, <1>14 DEF Name
<1> QED
  BY <1>1, <1>11, <1>12, <1>13, <1>15

(* and there is no thread of that name when none is found.                        *)
LEMMA NotFoundIsNotThere ==
  ASSUME ImportedInto(target, src), Importable(src), thread \in Ids(src, "thread"), FoundThread = NULL,
         NEW t \in Ids(target, "thread")
  PROVE  Rows(target, "thread")[t].who # Rows(src, "thread")[thread].who
<1>1. PICK r, n : r = RecipientOf(src, thread) /\ n = Rows(src, "thread")[thread].who
  OBVIOUS
<1>2. r \in Contents(src, "recipient") /\ r.who = n /\ n \notin {"nothing", "dangling"}
  BY <1>1, RecipientOfThread
<1> SUFFICES ASSUME Rows(target, "thread")[t].who = n
             PROVE  FALSE
  BY <1>1
<1>3. PICK i : i = Rows(target, "thread")[t].recipient_id
  OBVIOUS
<1>4. Name(target, "recipient", i) = n
  BY <1>3, ThreadsAreNamed DEF ImportedInto
<1>5. i \in Ids(target, "recipient") /\ Rows(target, "recipient")[i].who = n
  BY <1>2, <1>4 DEF Name
<1>6. Candidates(r) = {i}
  <2>1. \A k \in Candidates(r) : k \in Ids(target, "recipient")
    BY DEF Candidates
  <2>2. i \in Candidates(r)
    BY <1>2, <1>5, CandidatesAreNamed
  <2>3. \A k \in Candidates(r) : Rows(target, "recipient")[k].who = n
    BY <1>2, <2>1, CandidatesAreNamed
  <2>4. \A k \in Candidates(r) : k = i
    BY <1>5, <2>1, <2>3 DEF ImportedInto, UniqueNames
  <2> QED
    BY <2>2, <2>4
<1>7. getThreadIdFromRecipient(i) = {t}
  <2>1. ASSUME NEW k \in Ids(target, "thread"), Rows(target, "thread")[k].recipient_id = i
        PROVE  k = t
    <3>1. UniqueColumns("thread") = {"recipient_id"} /\ "thread" \in Tables
      BY DEF UniqueColumns, Tables
    <3>2. Key("thread", Rows(target, "thread")[k]) = Key("thread", Rows(target, "thread")[t])
      BY <1>3, <2>1, <3>1, KeyEqual
    <3> QED
      BY <2>1, <3>1, <3>2 DEF ImportedInto, RowsOk
  <2> QED
    BY <1>3, <2>1 DEF getThreadIdFromRecipient
<1>8. PICK matches, found : /\ matches = Candidates(r)
                            /\ found = UNION {getThreadIdFromRecipient(k) : k \in matches}
  OBVIOUS
<1>9. matches = {i} /\ found = {t}
  BY <1>6, <1>7, <1>8
<1>10. FoundThread = IF Cardinality(matches) = 1 /\ Cardinality(found) = 1
                     THEN CHOOSE k \in found : TRUE ELSE NULL
  BY <1>1, <1>8 DEF FoundThread
<1>11. Cardinality(matches) = 1 /\ Cardinality(found) = 1
  BY <1>9, FS_Singleton
<1>12. FoundThread = t
  BY <1>9, <1>10, <1>11
<1> QED
  BY <1>12 DEF ImportedInto, BackupOk, NULL, Tables

-----------------------------------------------------------------------------
(* Renumbered and set to a thread, the source brings the part *)

(* The rows of s become those of c: references to table t may change, everything  *)
(* else stays, or goes with its row.                                             *)
RowsKept(s, c, t) ==
  \A u \in Tables : \A k \in Ids(c, u) :
     /\ k \in Ids(s, u)
     /\ \A x \in ColumnsOf(u) : Follows(t, u, x) \/ Rows(c, u)[k][x] = Rows(s, u)[k][x]

(* References to t that change are to rows of the same name.                      *)
RefersAlike(b, s, c, t) ==
  \A u \in Tables : \A x : Follows(t, u, x) => \A k \in Ids(c, u) :
     Name(Joined(b, c), t, Rows(c, u)[k][x]) = Name(Joined(b, s), t, Rows(s, u)[k][x])

(* Rows of other tables that go are referred to no more.                          *)
NotNeeded(s, c, t) ==
  \A u, v \in Tables : \A x : Follows(v, u, x) /\ v # t => \A k \in Ids(c, u) :
     Rows(s, u)[k][x] \in Ids(s, v) => Rows(s, u)[k][x] \in Ids(c, v)

LEMMA ToldThere ==
  ASSUME NEW u \in Tables
  PROVE  Told(u) \subseteq ColumnsOf(u)
<1>1. CASE u = "thread"
  BY <1>1, ColumnsThere DEF Told
<1>2. CASE u = "message"
  BY <1>2, ColumnsThere DEF Told
<1>3. CASE u = "attachment"
  BY <1>3, ColumnsThere DEF Told
<1>4. CASE u = "recipient"
  BY <1>4, ColumnsThere DEF Told
<1>5. CASE u = "reaction"
  BY <1>5, ColumnsThere DEF Told
<1>6. CASE u = "group_membership"
  BY <1>6, ColumnsThere DEF Told
<1> QED
  BY <1>1, <1>2, <1>3, <1>4, <1>5, <1>6 DEF Tables

(* What a row is called stays.                                                   *)
LEMMA CalledTheSame ==
  ASSUME NEW s, NEW c, NEW t \in Tables, RowsKept(s, c, t), NEW u \in Tables, NEW k \in Ids(c, u)
  PROVE  k \in Ids(s, u) /\ Rows(c, u)[k].who = Rows(s, u)[k].who
<1>1. "who" \in ColumnsOf(u)
  BY DEF ColumnsOf
<1>2. ~ Follows(t, u, "who")
  BY FollowsOne
<1> QED
  BY <1>1, <1>2 DEF RowsKept

(* So a name stays that of a row that does not go.                               *)
LEMMA NamesKept ==
  ASSUME NEW b, NEW s, NEW c, NEW t \in Tables, Apart(b, s), Apart(b, c), RowsKept(s, c, t),
         NEW v \in Tables, NEW y, y \in Ids(s, v) => y \in Ids(c, v)
  PROVE  Name(Joined(b, c), v, y) = Name(Joined(b, s), v, y)
<1>1. PICK jc, js : jc = Joined(b, c) /\ js = Joined(b, s)
  OBVIOUS
<1>2. /\ Ids(jc, v) = Ids(b, v) \cup Ids(c, v) /\ Ids(js, v) = Ids(b, v) \cup Ids(s, v)
      /\ \A i \in Ids(b, v) : Rows(jc, v)[i] = Rows(b, v)[i] /\ Rows(js, v)[i] = Rows(b, v)[i]
      /\ \A i \in Ids(c, v) : Rows(jc, v)[i] = Rows(c, v)[i]
      /\ \A i \in Ids(s, v) : Rows(js, v)[i] = Rows(s, v)[i]
  BY <1>1, JoinedRows
<1>3. \A k \in Ids(c, v) : k \in Ids(s, v) /\ Rows(c, v)[k].who = Rows(s, v)[k].who
  BY CalledTheSame
<1>4. CASE y \in Ids(s, v)
  BY <1>1, <1>2, <1>3, <1>4 DEF Name
<1>5. CASE y \notin Ids(s, v) /\ y \in Ids(b, v)
  BY <1>1, <1>2, <1>3, <1>5 DEF Name
<1>6. CASE y \notin Ids(s, v) /\ y \notin Ids(b, v)
  BY <1>1, <1>2, <1>3, <1>6 DEF Name
<1> QED
  BY <1>4, <1>5, <1>6

(* The rows that are left say what they said.                                    *)
LEMMA Retold ==
  ASSUME NEW b, NEW s, NEW c, NEW t \in Tables, Apart(b, s), Apart(b, c),
         RowsKept(s, c, t), RefersAlike(b, s, c, t), NotNeeded(s, c, t),
         NEW u \in Tables, NEW k \in Ids(c, u)
  PROVE  Fact(Joined(b, c), u, Rows(c, u)[k]) = Fact(Joined(b, s), u, Rows(s, u)[k])
<1>1. PICK jc, js : jc = Joined(b, c) /\ js = Joined(b, s)
  OBVIOUS
<1>2. PICK r, q : r = Rows(c, u)[k] /\ q = Rows(s, u)[k]
  OBVIOUS
<1>3. ASSUME NEW x \in Told(u), NEW v \in Tables, Follows(v, u, x)
      PROVE  Name(jc, v, r[x]) = Name(js, v, q[x])
  <2>1. CASE v = t
    BY <1>1, <1>2, <1>3, <2>1 DEF RefersAlike
  <2>2. CASE v # t
    <3>1. ~ Follows(t, u, x)
      BY <1>3, <2>2, FollowsOne
    <3>2. r[x] = q[x]
      BY <1>2, <1>3, <3>1, ToldThere DEF RowsKept
    <3>3. q[x] \in Ids(s, v) => q[x] \in Ids(c, v)
      BY <1>2, <1>3, <2>2 DEF NotNeeded
    <3> QED
      BY <1>1, <3>2, <3>3, NamesKept
  <2> QED
    BY <2>1, <2>2
<1>4. ASSUME NEW x \in Told(u), \A v \in Tables : ~ Follows(v, u, x)
      PROVE  r[x] = q[x]
  BY <1>2, <1>4, ToldThere DEF RowsKept
<1>5. SaysTheSame(jc, r, js, q, u)
  BY <1>3, <1>4 DEF SaysTheSame
<1> QED
  BY <1>1, <1>2, <1>5, SameFact

(* and so does the data of attachments that stay.                                 *)
LEMMA DataRetold ==
  ASSUME NEW b, NEW s, NEW c, NEW t \in Tables, Apart(b, s), Apart(b, c), RowsKept(s, c, t),
         Ids(c, "attachment") = Ids(s, "attachment"), c.d_attachments = s.d_attachments
  PROVE  SaysData(b, c) = SaysData(b, s)
<1>1. "attachment" \in Tables
  BY DEF Tables
<1>2. \A y : Name(Joined(b, c), "attachment", y) = Name(Joined(b, s), "attachment", y)
  BY <1>1, NamesKept
<1> QED
  BY <1>2 DEF SaysData

-----------------------------------------------------------------------------
(* What refers to a row refers to one of either backup.                           *)
RefersAcross(b, s) ==
  \A u, v \in Tables : \A x : Follows(v, u, x) =>
     \A k \in Ids(s, u) : Rows(s, u)[k][x] \in Ids(b, v) \cup Ids(s, v) \cup {NULL}

FramesAcross(b, s) ==
  /\ DOMAIN s.d_attachments \subseteq Ids(s, "attachment")
  /\ \A a \in s.d_avatars : a.recipient \in Ids(b, "recipient") \cup Ids(s, "recipient")

ReactsWithin(s) ==
  \A k \in Ids(s, "reaction") : Rows(s, "reaction")[k].message_id \in Ids(s, "message")

(* A source s of which every row can be inserted in b in the end.                 *)
Coming(b, s) ==
  /\ Apart(b, s) /\ RowsOk(s) /\ RefersAcross(b, s) /\ FramesAcross(b, s) /\ ReactsWithin(s)
  /\ UniqueNames(s, "recipient")

(* The messages of s are set to thread t.                                        *)
SetTo(s, c, t) ==
  /\ BackupOk(c) /\ c.d_attachments = s.d_attachments /\ c.d_avatars = s.d_avatars
  /\ \A u \in Tables \ {"message"} : Rows(c, u) = Rows(s, u)
  /\ Ids(c, "message") = Ids(s, "message")
  /\ \A k \in Ids(s, "message") :
       /\ DOMAIN Rows(c, "message")[k] = DOMAIN Rows(s, "message")[k]
       /\ Rows(c, "message")[k]["thread_id"] = t
       /\ \A y \in DOMAIN Rows(s, "message")[k] :
            y # "thread_id" => Rows(c, "message")[k][y] = Rows(s, "message")[k][y]
  /\ UniqueIn("message", Rows(c, "message"))

LEMMA SetThreadSets ==
  ASSUME BackupOk(source), RowsOk(source), OneThread(source), SetThread, targetthread # NULL
  PROVE  SetTo(source, source', targetthread)
<1>1. PICK old, f : old = Rows(source, "message") /\ f = [v \in {old[k]["thread_id"] : k \in DOMAIN old} |-> targetthread]
  OBVIOUS
<1>2. "message" \in Tables /\ "thread_id" \in ColumnsOf("message")
  BY ColumnsThere DEF Tables
<1>3. \A k \in DOMAIN old : ColumnsOf("message") \subseteq DOMAIN old[k]
  BY <1>1, <1>2 DEF RowsOk, Ids
<1>4. UniqueColumns("message") \subseteq ColumnsOf("message")
  BY DEF ColumnsOf
<1>5. UniqueIn("message", old)
  BY <1>1, <1>2 DEF RowsOk, UniqueIn, Ids
<1>6. \A k, l \in DOMAIN old : old[k]["thread_id"] = old[l]["thread_id"]
  <2>1. \A k \in DOMAIN old : old[k] \in Contents(source, "message")
    BY <1>1 DEF Contents, Range
  <2> QED
    BY <2>1 DEF OneThread
<1>7. \A k \in DOMAIN old : f[old[k]["thread_id"]] = targetthread
  BY <1>1
<1>8. Mappable("message", old, "thread_id", f)
  BY <1>2, <1>3, <1>4, <1>5, <1>6 DEF Mappable
<1>9. PICK new : new = Mapped(old, "thread_id", f)
  OBVIOUS
<1>10. Update("message", old, new) = new /\ UniqueIn("message", new)
  BY <1>8, <1>9, UpdateMapped
<1>11. WithColumn(old, "thread_id", LAMBDA v : targetthread) = new
  BY <1>7, <1>9 DEF WithColumn, Mapped
<1>12. source' = [source EXCEPT !.d_database.message = new]
  <2>1. source' = [source EXCEPT !.d_database.message =
                     Update("message", @, WithColumn(@, "thread_id", LAMBDA v : targetthread))]
    BY DEF SetThread
  <2>2. old = source.d_database.message
    BY <1>1 DEF Rows
  <2> QED
    BY <1>10, <1>11, <2>1, <2>2
<1>13. PICK c : c = source'
  OBVIOUS
<1>14. /\ c = [c EXCEPT !.d_database = c.d_database]
       /\ c.d_database = [source.d_database EXCEPT !["message"] = new]
       /\ c.d_attachments = source.d_attachments /\ c.d_avatars = source.d_avatars
       /\ c = [d_database |-> c.d_database, d_attachments |-> c.d_attachments, d_avatars |-> c.d_avatars]
  BY <1>12, <1>13 DEF BackupOk
<1>15. Rows(c, "message") = new /\ \A u \in Tables \ {"message"} : Rows(c, u) = Rows(source, u)
  BY <1>2, <1>14 DEF Rows, BackupOk
<1>16. DOMAIN new = DOMAIN old
  BY <1>9 DEF Mapped
<1>17. Ids(c, "message") = Ids(source, "message")
  BY <1>1, <1>15, <1>16 DEF Ids
<1>18. BackupOk(c)
  <2>1. \A u \in Tables : Ids(c, u) = Ids(source, u)
    BY <1>15, <1>17 DEF Ids
  <2>2. DOMAIN c.d_database = Tables
    BY <1>14 DEF BackupOk
  <2> QED
    BY <1>14, <2>1, <2>2 DEF BackupOk
<1>19. \A k \in DOMAIN old : /\ DOMAIN new[k] = DOMAIN old[k] /\ new[k]["thread_id"] = targetthread
                             /\ \A y \in DOMAIN old[k] : y # "thread_id" => new[k][y] = old[k][y]
  BY <1>2, <1>3, <1>7, <1>9, MappedValues
<1> QED
  BY <1>1, <1>10, <1>13, <1>14, <1>15, <1>16, <1>17, <1>18, <1>19 DEF SetTo, Ids

(* All messages of part p are of the thread that is called n.                     *)
OfThread(p, n) == \A m \in p.message : m.thread = n

(* Of a thread that is in b already, by its name.                                 *)
LEMMA SetThreadBrings ==
  ASSUME NEW b, NEW s, NEW c, NEW p, NEW n, Coming(b, s), Brought(b, s, p),
         OfThread(p, n),
         NEW t \in Ids(b, "thread"), Rows(b, "thread")[t].who = n, SetTo(s, c, t)
  PROVE  /\ Coming(b, c) /\ Brought(b, c, p)
         /\ \A k \in Ids(c, "message") : Rows(c, "message")[k]["thread_id"] = t
         /\ Rows(c, "recipient") = Rows(s, "recipient")
<1>1. /\ "message" \in Tables /\ "thread" \in Tables /\ "recipient" \in Tables
      /\ "attachment" \in Tables /\ "reaction" \in Tables
  BY DEF Tables
<1>2. \A u \in Tables : Ids(c, u) = Ids(s, u)
  BY DEF SetTo, Ids
<1>3. \A u \in Tables : \A k \in Ids(s, u) :
        /\ DOMAIN Rows(c, u)[k] = DOMAIN Rows(s, u)[k]
        /\ \A x \in DOMAIN Rows(s, u)[k] : x # "thread_id" => Rows(c, u)[k][x] = Rows(s, u)[k][x]
        /\ u # "message" => Rows(c, u)[k] = Rows(s, u)[k]
  BY DEF SetTo
<1>4. \A u \in Tables : \A x : Follows("thread", u, x) <=> u = "message" /\ x = "thread_id"
  BY <1>1, FollowsAre
<1>5. Apart(b, c)
  BY <1>2 DEF Coming, Apart, SetTo
<1>6. \A u \in Tables : \A k \in Ids(s, u) : ColumnsOf(u) \subseteq DOMAIN Rows(s, u)[k]
  BY DEF Coming, RowsOk
<1>7. RowsKept(s, c, "thread")
  <2> SUFFICES ASSUME NEW u \in Tables, NEW k \in Ids(c, u), NEW x \in ColumnsOf(u)
               PROVE  k \in Ids(s, u) /\ (Follows("thread", u, x) \/ Rows(c, u)[k][x] = Rows(s, u)[k][x])
    BY <1>2 DEF RowsKept
  <2>1. k \in Ids(s, u) /\ x \in DOMAIN Rows(s, u)[k]
    BY <1>2, <1>6
  <2>2. CASE u = "message" /\ x = "thread_id"
    BY <1>4, <2>1, <2>2
  <2>3. CASE ~ (u = "message" /\ x = "thread_id")
    BY <1>3, <2>1, <2>3
  <2> QED
    BY <2>2, <2>3
<1>8. ASSUME NEW k \in Ids(s, "message")
      PROVE  Name(Joined(b, s), "thread", Rows(s, "message")[k]["thread_id"]) = n
  <2>1. PICK j, r : j = Joined(b, s) /\ r = Rows(s, "message")[k]
    OBVIOUS
  <2>2. Fact(j, "message", r) \in Says(b, s, "message")
    BY <1>8, <2>1 DEF Says, Contents, Range, Ids
  <2>3. Says(b, s, "message") \subseteq p["message"]
    BY <1>1 DEF Brought, Kind
  <2>4. Fact(j, "message", r).thread = n
    BY <2>2, <2>3 DEF OfThread
  <2> QED
    BY <2>1, <2>4 DEF Fact
<1>9. RefersAlike(b, s, c, "thread")
  <2> SUFFICES ASSUME NEW k \in Ids(c, "message")
               PROVE  Name(Joined(b, c), "thread", Rows(c, "message")[k]["thread_id"])
                        = Name(Joined(b, s), "thread", Rows(s, "message")[k]["thread_id"])
    BY <1>4 DEF RefersAlike
  <2>1. Rows(c, "message")[k]["thread_id"] = t /\ k \in Ids(s, "message")
    BY DEF SetTo
  <2>2. Name(Joined(b, c), "thread", t) = n
    BY <1>1, <1>5, JoinedNames
  <2> QED
    BY <1>8, <2>1, <2>2
<1>10. NotNeeded(s, c, "thread")
  BY <1>2 DEF NotNeeded
<1>11. \A u \in Tables : \A k \in Ids(c, u) :
         k \in Ids(s, u) /\ Fact(Joined(b, c), u, Rows(c, u)[k]) = Fact(Joined(b, s), u, Rows(s, u)[k])
  BY <1>1, <1>2, <1>5, <1>7, <1>9, <1>10, Retold DEF Coming
<1>12. SaysData(b, c) = SaysData(b, s)
  BY <1>1, <1>2, <1>5, <1>7, DataRetold DEF Coming, SetTo
<1>13. SaysAvatars(b, c) = SaysAvatars(b, s)
  <2>1. \A y : Name(Joined(b, c), "recipient", y) = Name(Joined(b, s), "recipient", y)
    BY <1>1, <1>2, <1>5, <1>7, NamesKept DEF Coming
  <2> QED
    BY <2>1 DEF SaysAvatars, SetTo
<1>14. Brought(b, c, p)
  <2>1. Rewrites(b, s, c)
    BY <1>2, <1>11, <1>12, <1>13 DEF Rewrites
  <2> QED
    BY <2>1, StillBrought
<1>15. RowsOk(c)
  <2> SUFFICES ASSUME NEW u \in Tables, NEW k \in Ids(c, u), NEW l \in Ids(c, u)
               PROVE  /\ ColumnsOf(u) \subseteq DOMAIN Rows(c, u)[k]
                      /\ UniqueColumns(u) # {} /\ Key(u, Rows(c, u)[k]) = Key(u, Rows(c, u)[l]) => k = l
    BY DEF RowsOk
  <2>1. k \in Ids(s, u) /\ l \in Ids(s, u) /\ ColumnsOf(u) \subseteq DOMAIN Rows(c, u)[k]
    BY <1>2, <1>3, <1>6
  <2>2. CASE u = "message"
    BY <2>1, <2>2 DEF SetTo, UniqueIn, Ids
  <2>3. CASE u # "message"
    <3>1. Rows(c, u)[k] = Rows(s, u)[k] /\ Rows(c, u)[l] = Rows(s, u)[l]
      BY <1>3, <2>1, <2>3
    <3> QED
      BY <2>1, <3>1 DEF Coming, RowsOk
  <2> QED
    BY <2>1, <2>2, <2>3
<1>16. RefersAcross(b, c)
  <2> SUFFICES ASSUME NEW u \in Tables, NEW v \in Tables, NEW x, Follows(v, u, x), NEW k \in Ids(c, u)
               PROVE  Rows(c, u)[k][x] \in Ids(b, v) \cup Ids(c, v) \cup {NULL}
    BY DEF RefersAcross
  <2>1. CASE u = "message" /\ x = "thread_id"
    <3>1. v = "thread"
      BY <1>1, <1>4, <2>1, FollowsOne
    <3> QED
      BY <2>1, <3>1 DEF SetTo
  <2>2. CASE ~ (u = "message" /\ x = "thread_id")
    <3>1. x \in ColumnsOf(u) /\ ~ Follows("thread", u, x)
      BY <1>4, <2>2, FollowsOne
    <3>2. Rows(c, u)[k][x] = Rows(s, u)[k][x] /\ k \in Ids(s, u)
      BY <1>7, <3>1 DEF RowsKept
    <3>3. Rows(s, u)[k][x] \in Ids(b, v) \cup Ids(s, v) \cup {NULL}
      BY <3>2 DEF Coming, RefersAcross
    <3> QED
      BY <1>2, <3>2, <3>3
  <2> QED
    BY <2>1, <2>2
<1>17. FramesAcross(b, c)
  BY <1>1, <1>2 DEF Coming, FramesAcross, SetTo
<1>18. ReactsWithin(c)
  <2>1. Rows(c, "reaction") = Rows(s, "reaction")
    BY <1>1 DEF SetTo
  <2> QED
    BY <1>1, <1>2, <2>1 DEF Coming, ReactsWithin, Ids
<1>19. Rows(c, "recipient") = Rows(s, "recipient")
  BY <1>1 DEF SetTo
<1>20. UniqueNames(c, "recipient")
  BY <1>19 DEF Coming, UniqueNames, Ids
<1> QED
  BY <1>2, <1>5, <1>14, <1>15, <1>16, <1>17, <1>18, <1>19, <1>20 DEF Coming, SetTo

-----------------------------------------------------------------------------
(* References by column, as they follow a table.                                 *)
LEMMA RefersByColumn ==
  ASSUME NEW b, RefersWithin(b), NEW u, NEW v \in Tables, NEW x, Follows(v, u, x), NEW k \in Ids(b, u)
  PROVE  Rows(b, u)[k][x] \in Ids(b, v) \cup {NULL}
<1>1. PICK c \in ConnectionsTo(v) : c.table = u /\ c.column = x
  BY DEF Follows
<1>2. Rows(b, u)[k] \in Contents(b, u)
  BY DEF Contents, Range, Ids
<1> QED
  BY <1>1, <1>2 DEF RefersWithin

(* The messages of a part are of its thread, and have names.                     *)
LEMMA PartMessages ==
  ASSUME NEW b, Importable(b), NEW t
  PROVE  /\ \A m \in PartOf(b, t).message : /\ m.thread = Rows(b, "thread")[t].who
                                            /\ m \in Facts(b).message /\ m.who # "nothing"
         /\ \A r \in PartOf(b, t).reaction : \E m \in PartOf(b, t).message : r.message = m.who
<1>1. PICK p, f, n : p = PartOf(b, t) /\ f = Facts(b) /\ n = Rows(b, "thread")[t].who
  OBVIOUS
<1>2. p.message = {m \in f.message : m.thread = n}
  BY <1>1 DEF PartOf, Merge!Part
<1>3. p.reaction = {r \in f.reaction : r.message \in {m.who : m \in p.message}}
  BY <1>1 DEF PartOf, Merge!Part
<1>4. \A m \in f.message : m.who # "nothing"
  <2>1. f.message = FactsOf(b, "message")
    BY <1>1, FactsByTable DEF Kind, Tables
  <2>2. \A r \in Contents(b, "message") : r.who # "nothing"
    BY DEF Importable, RowsNamed, NamesApart
  <2>3. \A r : Fact(b, "message", r).who = r.who
    BY DEF Fact
  <2> QED
    BY <2>1, <2>2, <2>3 DEF FactsOf
<1> QED
  BY <1>1, <1>2, <1>3, <1>4

(* When all _ids of the source are unique it can be inserted, and brings the part *)
(* of the thread.                                                                *)
LEMMA UniqueComes ==
  ASSUME IInv, FramesInv, LinksInv, pc = "unique", AllUnique, Importable(src),
         thread \in Ids(src, "thread"), UniqueNames(source, "recipient")
  PROVE  Coming(target, source) /\ Brought(target, source, PartOf(src, thread))
<1>1. PICK b, s, p, c : /\ b = target /\ s = source /\ p = PartOf(src, thread)
                        /\ c = CropToThread(src, thread)
  OBVIOUS
<1>2. /\ RowsOk(s) /\ RefersWithin(s) /\ Facts(s) = Facts(c) /\ HaveRows(s) /\ RefersWithin(c)
      /\ BackupOk(s) /\ BackupOk(b)
  BY <1>1 DEF LinksInv, FramesInv, IInv
<1>3. Apart(b, s)
  <2>1. \A t \in Tables : Above(t)
    BY AllAbove
  <2> QED
    BY <1>1, <1>2, <2>1 DEF Above, Apart, BackupOk
<1>4. Cropped(src, thread, c)
  BY <1>1, <1>2 DEF Cropped, Importable
<1>5. /\ \A u \in Tables : FactsOf(c, u) = p[Kind(u)]
      /\ Facts(c).data = p.data /\ Facts(c).avatar \subseteq p.avatar
  BY <1>1, <1>4, CropSaysPart
<1>6. \A u \in Tables : FactsOf(s, u) = p[Kind(u)]
  BY <1>2, <1>5, FactsByTable
<1>7. Facts(s).data = p.data /\ Facts(s).avatar \subseteq p.avatar
  BY <1>2, <1>5
<1>8. Brought(b, s, p)
  BY <1>2, <1>3, <1>6, <1>7, BroughtAtFirst
<1>9. RefersAcross(b, s)
  BY <1>2, RefersByColumn DEF RefersAcross
<1>10. FramesAcross(b, s)
  BY <1>2 DEF HaveRows, FramesAcross
<1>11. ReactsWithin(s)
  <2> SUFFICES ASSUME NEW k \in Ids(s, "reaction")
               PROVE  Rows(s, "reaction")[k]["message_id"] \in Ids(s, "message")
    BY DEF ReactsWithin
  <2>1. PICK r : r = Rows(s, "reaction")[k]
    OBVIOUS
  <2>2. "reaction" \in Tables /\ "message" \in Tables
    BY DEF Tables
  <2>3. r["message_id"] \in Ids(s, "message") \cup {NULL}
    BY <1>2, <2>1, <2>2, RefersByColumn, FollowsAre
  <2>4. Fact(s, "reaction", r) \in p.reaction
    <3>1. Fact(s, "reaction", r) \in FactsOf(s, "reaction")
      BY <2>1 DEF FactsOf, Contents, Range, Ids
    <3>2. FactsOf(s, "reaction") = p["reaction"]
      BY <1>6, <2>2 DEF Kind
    <3> QED
      BY <3>1, <3>2
  <2>5. PICK m \in p.message : Fact(s, "reaction", r).message = m.who
    BY <1>1, <2>4, PartMessages
  <2>6. m.who # "nothing"
    BY <1>1, <2>5, PartMessages
  <2>7. Fact(s, "reaction", r).message = Name(s, "message", r["message_id"])
    BY DEF Fact
  <2>8. r["message_id"] # NULL
    BY <2>5, <2>6, <2>7 DEF Name
  <2> QED
    BY <2>1, <2>3, <2>8
<1> QED
  BY <1>1, <1>2, <1>3, <1>8, <1>9, <1>10, <1>11 DEF Coming

-----------------------------------------------------------------------------
(* The rows of the source while recipients are matched, and until they are        *)
(* inserted.                                                                     *)
ComingInv ==
  /\ Coming(target, source) /\ Brought(target, source, PartOf(src, thread))
  /\ thread \in Ids(src, "thread") /\ targetthread = FoundThread
  /\ Contents(source, "recipient") \subseteq Contents(src, "recipient")
  /\ targetthread # NULL =>
       \A k \in Ids(source, "message") : Rows(source, "message")[k]["thread_id"] = targetthread

(* No recipient of the target that has been matched has the name of the row j.    *)
Unmatched(b, s, left, j) ==
  \A i \in Ids(b, "recipient") \ left : Rows(b, "recipient")[i].who # Rows(s, "recipient")[j].who

(* References are to none that is yet to be matched, nor to a double of one that  *)
(* has been; those have gone when the thread is new.                              *)
Matching(b, s, left, t) ==
  /\ \A u \in Tables : \A x : Follows("recipient", u, x) => \A k \in Ids(s, u) :
       /\ Rows(s, u)[k][x] \notin left
       /\ Rows(s, u)[k][x] \in Ids(s, "recipient") => Unmatched(b, s, left, Rows(s, u)[k][x])
  /\ t = NULL => \A j \in Ids(s, "recipient") : Unmatched(b, s, left, j)

(* What main knows of the copy while it is renumbered.                            *)
CopyInv ==
  /\ thread \in Ids(src, "thread") /\ targetthread = FoundThread
  /\ Contents(source, "recipient") \subseteq Contents(src, "recipient")
  /\ UniqueNames(source, "recipient")

LEMMA SetThreadStarts ==
  ASSUME IInv, FramesInv, LinksInv, Importable(src), ImportedInto(target, src), CopyInv, SetThread
  PROVE  ComingInv' /\ Matching(target', source', todo', targetthread')
<1>1. /\ pc = "unique" /\ AllUnique /\ todo' = Ids(target, "recipient")
      /\ target' = target /\ src' = src /\ threads' = threads /\ targetthread' = targetthread
  BY DEF SetThread
<1>2. PICK b, s, c, p, t, n : /\ b = target /\ s = source /\ c = source' /\ p = PartOf(src, thread)
                              /\ t = targetthread /\ n = Rows(src, "thread")[thread].who
  OBVIOUS
<1>3. Coming(b, s) /\ Brought(b, s, p)
  BY <1>1, <1>2, UniqueComes DEF CopyInv
<1>4. /\ Coming(b, c) /\ Brought(b, c, p) /\ Rows(c, "recipient") = Rows(s, "recipient")
      /\ t # NULL => \A k \in Ids(c, "message") : Rows(c, "message")[k]["thread_id"] = t
  <2>1. CASE t = NULL
    <3>1. c = s
      BY <1>2, <2>1 DEF SetThread
    <3> QED
      BY <1>3, <2>1, <3>1
  <2>2. CASE t # NULL
    <3>1. t \in Ids(b, "thread") /\ Rows(b, "thread")[t].who = n
      BY <1>2, <2>2, FoundIsNamed DEF CopyInv
    <3>2. SetTo(s, c, t)
      <4>1. BackupOk(source) /\ RowsOk(source) /\ OneThread(source)
        BY <1>1 DEF IInv, LinksInv
      <4> QED
        BY <1>2, <2>2, <4>1, SetThreadSets
    <3>3. OfThread(p, n)
      BY <1>2, PartMessages DEF OfThread
    <3>4. PICK h \in Ids(b, "thread") : h = t
      BY <3>1
    <3>5. Rows(b, "thread")[h].who = n /\ SetTo(s, c, h)
      BY <3>1, <3>2, <3>4
    <3>6. /\ Coming(b, c) /\ Brought(b, c, p)
          /\ \A k \in Ids(c, "message") : Rows(c, "message")[k]["thread_id"] = h
          /\ Rows(c, "recipient") = Rows(s, "recipient")
      BY <1>3, <3>3, <3>5, SetThreadBrings
    <3> QED
      BY <3>4, <3>6
  <2> QED
    BY <2>1, <2>2
<1>5. Matching(b, c, Ids(b, "recipient"), t)
  <2>1. \A j : Unmatched(b, c, Ids(b, "recipient"), j)
    BY DEF Unmatched
  <2>2. ASSUME NEW u \in Tables, NEW x, Follows("recipient", u, x), NEW k \in Ids(s, u)
        PROVE  Rows(s, u)[k][x] \notin Ids(b, "recipient")
    <3>1. "recipient" \in Tables
      BY DEF Tables
    <3>2. RefersWithin(s)
      BY <1>1, <1>2 DEF LinksInv
    <3>3. Rows(s, u)[k][x] \in Ids(s, "recipient") \cup {NULL}
      BY <2>2, <3>1, <3>2, RefersByColumn
    <3>4. NULL \notin Ids(b, "recipient") /\ Ids(s, "recipient") \cap Ids(b, "recipient") = {}
      BY <1>3, <3>1 DEF Coming, Apart, BackupOk, NULL
    <3> QED
      BY <3>3, <3>4
  <2>3. ASSUME NEW u \in Tables, NEW x, Follows("recipient", u, x), NEW k \in Ids(c, u)
        PROVE  Rows(c, u)[k][x] \notin Ids(b, "recipient")
    <3>1. CASE t = NULL
      <4>1. c = s
        BY <1>2, <3>1 DEF SetThread
      <4> QED
        BY <2>2, <2>3, <4>1
    <3>2. CASE t # NULL
      <4>1. SetTo(s, c, t)
        <5>1. BackupOk(source) /\ RowsOk(source) /\ OneThread(source)
          BY <1>1 DEF IInv, LinksInv
        <5> QED
          BY <1>2, <3>2, <5>1, SetThreadSets
      <4>2. "recipient" \in Tables
        BY DEF Tables
      <4>3. x # "thread_id" /\ x \in ColumnsOf(u)
        BY <2>3, <4>2, FollowsAre, FollowsOne
      <4>4. k \in Ids(s, u)
        BY <2>3, <4>1 DEF SetTo, Ids
      <4>5. x \in DOMAIN Rows(s, u)[k]
        BY <1>3, <4>3, <4>4 DEF Coming, RowsOk
      <4>6. Rows(c, u)[k][x] = Rows(s, u)[k][x]
        BY <4>1, <4>3, <4>4, <4>5 DEF SetTo
      <4> QED
        BY <2>2, <2>3, <4>4, <4>6
    <3> QED
      BY <3>1, <3>2
  <2> QED
    BY <2>1, <2>3 DEF Matching
<1>6. Contents(c, "recipient") \subseteq Contents(src, "recipient")
  BY <1>2, <1>4 DEF CopyInv, Contents
<1>7. thread' = thread /\ FoundThread' = FoundThread /\ targetthread' = FoundThread /\ thread' \in Ids(src, "thread")
  <2>1. thread' = thread
    BY <1>1 DEF thread
  <2>2. FoundThread' = FoundThread
    BY <1>1, <2>1 DEF FoundThread, Candidates, getThreadIdFromRecipient
  <2> QED
    BY <1>1, <2>1, <2>2 DEF CopyInv
<1>9. PartOf(src, thread)' = p
  BY <1>1, <1>2, <1>7
<1>10. ComingInv'
  BY <1>1, <1>2, <1>4, <1>6, <1>7, <1>9 DEF ComingInv
<1> QED
  BY <1>1, <1>2, <1>5, <1>10

-----------------------------------------------------------------------------
(* Matching recipients *)

(* The columns of rows are those of rows, or have followed.                      *)
ColumnsFollowed(t, f, u, rows, new) ==
  /\ DOMAIN new = DOMAIN rows
  /\ \A k \in DOMAIN rows :
       /\ ColumnsOf(u) \subseteq DOMAIN new[k]
       /\ \A x \in ColumnsOf(u) : new[k][x] = IF Follows(t, u, x) THEN f[rows[k][x]] ELSE rows[k][x]

LEMMA FollowedColumns ==
  ASSUME NEW t \in Tables, NEW f, NEW u \in Tables, NEW rows, NEW new, ColumnFollows(t, f, u, rows, new),
         \A k \in DOMAIN rows : ColumnsOf(u) \subseteq DOMAIN rows[k]
  PROVE  ColumnsFollowed(t, f, u, rows, new)
<1>1. CASE new = rows /\ \A x : Follows(t, u, x) => \A k \in DOMAIN rows : f[rows[k][x]] = rows[k][x]
  BY <1>1 DEF ColumnsFollowed
<1>2. ASSUME NEW x, Follows(t, u, x), new = Mapped(rows, x, f)
      PROVE  ColumnsFollowed(t, f, u, rows, new)
  <2>1. \A y : Follows(t, u, y) => y = x
    BY <1>2, FollowsOne
  <2>2. \A k \in DOMAIN rows :
           /\ DOMAIN new[k] = DOMAIN rows[k]
           /\ x \in DOMAIN rows[k] => new[k][x] = f[rows[k][x]]
           /\ \A y \in DOMAIN rows[k] : y # x => new[k][y] = rows[k][y]
    BY <1>2, MappedValues
  <2>3. DOMAIN new = DOMAIN rows
    BY <1>2 DEF Mapped
  <2> QED
    BY <1>2, <2>1, <2>2, <2>3 DEF ColumnsFollowed
<1> QED
  BY <1>1, <1>2 DEF ColumnFollows

(* Keys stay apart when no two references become one.                            *)
LEMMA KeysFollow ==
  ASSUME NEW t, NEW f, NEW u \in Tables, NEW rows, NEW new, ColumnsFollowed(t, f, u, rows, new),
         UniqueIn(u, rows),
         \A x : Follows(t, u, x) => \A k, l \in DOMAIN rows : f[rows[k][x]] = f[rows[l][x]] => rows[k][x] = rows[l][x]
  PROVE  UniqueIn(u, new)
<1> SUFFICES ASSUME NEW k \in DOMAIN rows, NEW l \in DOMAIN rows, UniqueColumns(u) # {},
                    Key(u, new[k]) = Key(u, new[l])
             PROVE  k = l
  BY DEF UniqueIn, ColumnsFollowed
<1>1. UniqueColumns(u) \subseteq ColumnsOf(u)
  BY DEF ColumnsOf
<1>2. ASSUME NEW x \in UniqueColumns(u)
      PROVE  rows[k][x] = rows[l][x]
  <2>1. new[k][x] = new[l][x]
    BY <1>2, KeyEqual
  <2>2. /\ new[k][x] = IF Follows(t, u, x) THEN f[rows[k][x]] ELSE rows[k][x]
        /\ new[l][x] = IF Follows(t, u, x) THEN f[rows[l][x]] ELSE rows[l][x]
    BY <1>1, <1>2 DEF ColumnsFollowed
  <2> QED
    BY <2>1, <2>2
<1>3. Key(u, rows[k]) = Key(u, rows[l])
  BY <1>2, KeyEqual
<1> QED
  BY <1>3 DEF UniqueIn

(* What refers to one of the doubles in s refers to i in c, and some are gone.    *)
Matched(s, c, i, doubles, gone) ==
  /\ BackupOk(c) /\ c.d_attachments = s.d_attachments
  /\ \A u \in Tables : Ids(c, u) = IF u = "recipient" THEN Ids(s, u) \ gone ELSE Ids(s, u)
  /\ \A k \in Ids(c, "recipient") : Rows(c, "recipient")[k] = Rows(s, "recipient")[k]
  /\ \A u \in Tables :
       /\ UniqueIn(u, Rows(c, u))
       /\ \A k \in Ids(c, u) :
            /\ ColumnsOf(u) \subseteq DOMAIN Rows(c, u)[k]
            /\ \A x \in ColumnsOf(u) :
                 Rows(c, u)[k][x] = IF Follows("recipient", u, x) /\ Rows(s, u)[k][x] \in doubles
                                    THEN i ELSE Rows(s, u)[k][x]
  /\ \A a \in c.d_avatars : \E e \in s.d_avatars :
       a.picture = e.picture /\ a.recipient = IF e.recipient \in doubles THEN i ELSE e.recipient

LEMMA MatchNone ==
  ASSUME NEW s, NEW i, BackupOk(s), RowsOk(s)
  PROVE  Matched(s, s, i, {}, {})
<1>1. \A u \in Tables : UniqueIn(u, Rows(s, u))
  BY DEF RowsOk, UniqueIn, Ids
<1>2. \A u \in Tables : \A k \in Ids(s, u) : ColumnsOf(u) \subseteq DOMAIN Rows(s, u)[k]
  BY DEF RowsOk
<1> QED
  BY <1>1, <1>2 DEF Matched

LEMMA MatchOne ==
  ASSUME NEW b, NEW s, Coming(b, s), NEW left, NEW t, Matching(b, s, left, t), NEW i \in left,
         i \in Ids(b, "recipient"), NEW j \in Ids(s, "recipient"), FramesOk(s),
         NEW c, c = WithRecipientId(s, i, {j})
  PROVE  Matched(s, c, i, {j}, {})
<1>1. "recipient" \in Tables
  BY DEF Tables
<1>2. c = [s EXCEPT !.d_database = Redirected(@, "recipient", i, j),
                    !.d_avatars  = {[a EXCEPT !.recipient = Renamed(@, i, j)] : a \in @}]
  <2>1. Cardinality({j}) = 1 /\ (CHOOSE k \in {j} : TRUE) = j
    BY FS_Singleton
  <2> QED
    BY <2>1 DEF WithRecipientId
<1>3. BackupOk(s) /\ BackupOk(b) /\ RowsOk(s) /\ RefersAcross(b, s)
  BY DEF Coming, Apart
<1>4. /\ c.d_database = Redirected(s.d_database, "recipient", i, j)
      /\ c.d_attachments = s.d_attachments
      /\ c.d_avatars = {[a EXCEPT !.recipient = Renamed(@, i, j)] : a \in s.d_avatars}
      /\ c = [d_database |-> c.d_database, d_attachments |-> c.d_attachments, d_avatars |-> c.d_avatars]
  BY <1>2, <1>3 DEF BackupOk
<1>5. PICK S : S = Ids(s, "recipient") \cup (Ids(b, "recipient") \ left)
  OBVIOUS
<1>6. PICK f : f = [v \in S \cup {NULL} |-> Renamed(v, i, j)]
  OBVIOUS
<1>7. i \notin S \cup {NULL} /\ j \in S
  <2>1. i # NULL /\ i \notin Ids(s, "recipient")
    BY <1>1, <1>3 DEF BackupOk, NULL, Coming, Apart
  <2> QED
    BY <1>5, <2>1
<1>8. \A v \in S \cup {NULL} : f[v] = Renamed(v, i, j)
  BY <1>6
<1>9. \A u \in Tables : \A x : Follows("recipient", u, x) => \A k \in Ids(s, u) :
         Rows(s, u)[k][x] \in S \cup {NULL}
  BY <1>1, <1>3, <1>5 DEF RefersAcross, Matching
<1>10. \A u \in Tables : UniqueIn(u, Rows(s, u)) /\ UniqueColumns(u) \subseteq ColumnsOf(u)
                         /\ \A k \in DOMAIN Rows(s, u) : ColumnsOf(u) \subseteq DOMAIN Rows(s, u)[k]
  <2>1. \A u \in Tables : UniqueIn(u, Rows(s, u))
    BY <1>3 DEF RowsOk, UniqueIn, Ids
  <2>2. \A u \in Tables : \A k \in Ids(s, u) : ColumnsOf(u) \subseteq DOMAIN Rows(s, u)[k]
    BY <1>3 DEF RowsOk
  <2>3. \A u : UniqueColumns(u) \subseteq ColumnsOf(u)
    BY DEF ColumnsOf
  <2> QED
    BY <2>1, <2>2, <2>3 DEF Ids
<1>11. ASSUME NEW u \in Tables
       PROVE  ColumnFollows("recipient", f, u, Rows(s, u), Rows(c, u))
  <2>1. PICK rows, tables : rows = Rows(s, u) /\ tables = s.d_database
    OBVIOUS
  <2>2. rows = tables[u]
    BY <2>1 DEF Rows
  <2>3. \A k \in DOMAIN rows : ColumnsOf(u) \cup UniqueColumns(u) \subseteq DOMAIN rows[k]
    BY <1>10, <2>1
  <2>4. UniqueIn(u, rows)
    BY <1>10, <2>1
  <2>5. \A x : Follows("recipient", u, x) => \A k \in DOMAIN rows : rows[k][x] \in S \cup {NULL}
    BY <1>9, <2>1 DEF Ids
  <2>6. ColumnFollows("recipient", f, u, rows, Redirected(tables, "recipient", i, j)[u])
    BY <1>1, <1>7, <1>8, <2>2, <2>3, <2>4, <2>5, ColumnRedirects
  <2> QED
    BY <1>4, <2>1, <2>6 DEF Rows
<1>12. \A u \in Tables : ColumnsFollowed("recipient", f, u, Rows(s, u), Rows(c, u))
  BY <1>1, <1>10, <1>11, FollowedColumns
<1>13. ASSUME NEW u \in Tables
       PROVE  UniqueIn(u, Rows(c, u))
  <2>1. PICK rows : rows = Rows(s, u)
    OBVIOUS
  <2>2. ASSUME NEW x, Follows("recipient", u, x), NEW k \in DOMAIN rows, NEW l \in DOMAIN rows,
               f[rows[k][x]] = f[rows[l][x]]
        PROVE  rows[k][x] = rows[l][x]
    <3>1. PICK v, w : v = rows[k][x] /\ w = rows[l][x]
      OBVIOUS
    <3>2. v \in S \cup {NULL} /\ w \in S \cup {NULL}
      BY <1>9, <2>1, <2>2, <3>1 DEF Ids
    <3>3. Renamed(v, i, j) = Renamed(w, i, j)
      BY <1>8, <2>2, <3>1, <3>2
    <3> QED
      BY <1>7, <3>1, <3>2, <3>3 DEF Renamed
  <2>3. UniqueIn(u, rows)
    BY <1>10, <2>1
  <2> QED
    BY <1>12, <2>1, <2>2, <2>3, KeysFollow
<1>14. \A u \in Tables : Ids(c, u) = Ids(s, u)
  BY <1>12 DEF ColumnsFollowed, Ids
<1>15. BackupOk(c)
  <2>1. DOMAIN c.d_database = Tables
    BY <1>4 DEF Redirected
  <2> QED
    BY <1>3, <1>4, <1>14, <2>1 DEF BackupOk
<1>16. Rows(c, "recipient") = Rows(s, "recipient")
  <2>1. \A x : ~ Follows("recipient", "recipient", x)
    BY <1>1, FollowsAre
  <2> QED
    BY <1>1, <1>11, <2>1 DEF ColumnFollows
<1>17. ASSUME NEW u \in Tables, NEW k \in Ids(c, u), NEW x \in ColumnsOf(u)
       PROVE  Rows(c, u)[k][x] = IF Follows("recipient", u, x) /\ Rows(s, u)[k][x] \in {j}
                                 THEN i ELSE Rows(s, u)[k][x]
  <2>1. k \in Ids(s, u)
    BY <1>14
  <2>2. Rows(c, u)[k][x] = IF Follows("recipient", u, x) THEN f[Rows(s, u)[k][x]] ELSE Rows(s, u)[k][x]
    BY <1>12, <2>1 DEF ColumnsFollowed, Ids
  <2>3. Follows("recipient", u, x) => f[Rows(s, u)[k][x]] = Renamed(Rows(s, u)[k][x], i, j)
    BY <1>8, <1>9, <2>1
  <2> QED
    BY <2>2, <2>3 DEF Renamed
<1>18. \A u \in Tables : \A k \in Ids(c, u) : ColumnsOf(u) \subseteq DOMAIN Rows(c, u)[k]
  BY <1>12, <1>14 DEF ColumnsFollowed, Ids
<1>19. ASSUME NEW a \in c.d_avatars
       PROVE  \E e \in s.d_avatars :
                a.picture = e.picture /\ a.recipient = IF e.recipient \in {j} THEN i ELSE e.recipient
  <2>1. PICK e \in s.d_avatars : a = [e EXCEPT !.recipient = Renamed(@, i, j)]
    BY <1>4
  <2>2. e = [recipient |-> e.recipient, picture |-> e.picture]
    BY DEF FramesOk
  <2>3. a.picture = e.picture /\ a.recipient = Renamed(e.recipient, i, j)
    BY <2>1, <2>2
  <2> QED
    BY <2>3 DEF Renamed
<1> QED
  BY <1>4, <1>13, <1>14, <1>15, <1>16, <1>17, <1>18, <1>19 DEF Matched

-----------------------------------------------------------------------------
(* The doubles go when the thread is new.                                        *)
LEMMA MatchDrops ==
  ASSUME NEW s, NEW d, NEW i, NEW doubles, Matched(s, d, i, doubles, {}),
         NEW c, c = Dropped(d, "recipient", doubles)
  PROVE  Matched(s, c, i, doubles, doubles)
<1>1. "recipient" \in Tables /\ BackupOk(d)
  BY DEF Tables, Matched
<1>2. /\ c = [d_database |-> c.d_database, d_attachments |-> c.d_attachments, d_avatars |-> c.d_avatars]
      /\ c.d_database = [d.d_database EXCEPT !["recipient"] =
                           Restrict(d.d_database["recipient"], DOMAIN d.d_database["recipient"] \ doubles)]
      /\ c.d_attachments = d.d_attachments /\ c.d_avatars = d.d_avatars
  BY <1>1 DEF Dropped, BackupOk
<1>3. /\ Rows(c, "recipient") = Restrict(Rows(d, "recipient"), Ids(d, "recipient") \ doubles)
      /\ \A u \in Tables : u # "recipient" => Rows(c, u) = Rows(d, u)
  BY <1>1, <1>2 DEF Rows, Ids, BackupOk
<1>4. /\ Ids(c, "recipient") = Ids(d, "recipient") \ doubles
      /\ \A k \in Ids(c, "recipient") : Rows(c, "recipient")[k] = Rows(d, "recipient")[k]
  BY <1>3 DEF Restrict, Ids
<1>5. \A u \in Tables : /\ Ids(c, u) = IF u = "recipient" THEN Ids(s, u) \ doubles ELSE Ids(s, u)
                        /\ \A k \in Ids(c, u) : k \in Ids(d, u) /\ Rows(c, u)[k] = Rows(d, u)[k]
  BY <1>3, <1>4 DEF Matched, Ids
<1>6. ASSUME NEW u \in Tables
      PROVE  UniqueIn(u, Rows(c, u))
  <2>1. UniqueIn(u, Rows(d, u))
    BY DEF Matched
  <2> SUFFICES ASSUME NEW k \in Ids(c, u), NEW l \in Ids(c, u), UniqueColumns(u) # {},
                      Key(u, Rows(c, u)[k]) = Key(u, Rows(c, u)[l])
               PROVE  k = l
    BY DEF UniqueIn, Ids
  <2>2. /\ k \in Ids(d, u) /\ Rows(c, u)[k] = Rows(d, u)[k]
        /\ l \in Ids(d, u) /\ Rows(c, u)[l] = Rows(d, u)[l]
    BY <1>5
  <2> QED
    BY <2>1, <2>2 DEF UniqueIn, Ids
<1>7. BackupOk(c)
  <2>1. DOMAIN c.d_database = Tables
    BY <1>1, <1>2 DEF BackupOk
  <2>2. \A u \in Tables : Ids(c, u) \subseteq Nat \ {0}
    BY <1>1, <1>5 DEF BackupOk
  <2> QED
    BY <1>2, <2>1, <2>2 DEF BackupOk
<1>8. \A u \in Tables : \A k \in Ids(c, u) :
         /\ ColumnsOf(u) \subseteq DOMAIN Rows(c, u)[k]
         /\ \A x \in ColumnsOf(u) :
              Rows(c, u)[k][x] = IF Follows("recipient", u, x) /\ Rows(s, u)[k][x] \in doubles
                                 THEN i ELSE Rows(s, u)[k][x]
  BY <1>5 DEF Matched
<1>9. \A k \in Ids(c, "recipient") : Rows(c, "recipient")[k] = Rows(s, "recipient")[k]
  BY <1>1, <1>5 DEF Matched
<1>10. c.d_attachments = s.d_attachments
       /\ \A a \in c.d_avatars : \E e \in s.d_avatars :
            a.picture = e.picture /\ a.recipient = IF e.recipient \in doubles THEN i ELSE e.recipient
  BY <1>2 DEF Matched
<1> QED
  BY <1>5, <1>6, <1>7, <1>8, <1>9, <1>10 DEF Matched

(* The doubles are those of the name of the recipient that is matched.            *)
SameNamed(b, s, i, doubles) ==
  \A j : j \in doubles <=>
           j \in Ids(s, "recipient") /\ Rows(s, "recipient")[j].who = Rows(b, "recipient")[i].who

(* What has been matched brings the part still, as what refers to a recipient      *)
(* refers to one of that name.                                                   *)
LEMMA MatchBrings ==
  ASSUME NEW b, NEW s, NEW c, NEW p, NEW left, NEW t, NEW i \in left, i \in Ids(b, "recipient"),
         Coming(b, s), Brought(b, s, p), Matching(b, s, left, t),
         NEW doubles, SameNamed(b, s, i, doubles), NEW gone, gone = {} \/ gone = doubles,
         t = NULL => gone = doubles,
         Matched(s, c, i, doubles, gone)
  PROVE  Coming(b, c) /\ Brought(b, c, p) /\ Matching(b, c, left \ {i}, t)
<1>1. /\ "message" \in Tables /\ "thread" \in Tables /\ "recipient" \in Tables
      /\ "attachment" \in Tables /\ "reaction" \in Tables
  BY DEF Tables
<1>2. PICK n : n = Rows(b, "recipient")[i].who
  OBVIOUS
<1>3. /\ \A u \in Tables \ {"recipient"} : Ids(c, u) = Ids(s, u)
      /\ Ids(c, "recipient") = Ids(s, "recipient") \ gone
      /\ \A u \in Tables : Ids(c, u) \subseteq Ids(s, u)
  BY <1>1 DEF Matched
<1>4. \A u \in Tables : \A k \in Ids(c, u) : \A x \in ColumnsOf(u) :
         Rows(c, u)[k][x] = IF Follows("recipient", u, x) /\ Rows(s, u)[k][x] \in doubles
                            THEN i ELSE Rows(s, u)[k][x]
  BY DEF Matched
<1>5. Apart(b, c) /\ Apart(b, s)
  BY <1>3 DEF Coming, Apart, Matched
<1>6. RowsKept(s, c, "recipient")
  BY <1>3, <1>4 DEF RowsKept
<1>7. ASSUME NEW y, NEW z, z = IF y \in doubles THEN i ELSE y
      PROVE  /\ Name(Joined(b, c), "recipient", z) = Name(Joined(b, s), "recipient", y)
             /\ y \in Ids(b, "recipient") \cup Ids(s, "recipient") \cup {NULL}
                  => z \in Ids(b, "recipient") \cup Ids(c, "recipient") \cup {NULL}
  <2>1. CASE y \in doubles
    <3>1. y \in Ids(s, "recipient") /\ Rows(s, "recipient")[y].who = n
      BY <1>2, <2>1 DEF SameNamed
    <3>2. Name(Joined(b, s), "recipient", y) = n
      BY <1>1, <1>5, <3>1, JoinedNames
    <3>3. Name(Joined(b, c), "recipient", i) = n
      BY <1>1, <1>2, <1>5, JoinedNames
    <3> QED
      BY <1>7, <2>1, <3>2, <3>3
  <2>2. CASE y \notin doubles
    <3>1. y \in Ids(s, "recipient") => y \in Ids(c, "recipient")
      BY <1>3, <2>2
    <3>2. Name(Joined(b, c), "recipient", y) = Name(Joined(b, s), "recipient", y)
      BY <1>1, <1>5, <1>6, <3>1, NamesKept
    <3> QED
      BY <1>7, <2>2, <3>1, <3>2
  <2> QED
    BY <2>1, <2>2
<1>8. ASSUME NEW u \in Tables, NEW x, Follows("recipient", u, x), NEW k \in Ids(c, u)
      PROVE  /\ k \in Ids(s, u)
             /\ Rows(c, u)[k][x] = IF Rows(s, u)[k][x] \in doubles THEN i ELSE Rows(s, u)[k][x]
  BY <1>1, <1>3, <1>4, <1>8, FollowsOne
<1>9. RefersAlike(b, s, c, "recipient")
  BY <1>7, <1>8 DEF RefersAlike
<1>10. NotNeeded(s, c, "recipient")
  BY <1>3 DEF NotNeeded
<1>11. \A u \in Tables : \A k \in Ids(c, u) :
         k \in Ids(s, u) /\ Fact(Joined(b, c), u, Rows(c, u)[k]) = Fact(Joined(b, s), u, Rows(s, u)[k])
  BY <1>1, <1>3, <1>5, <1>6, <1>9, <1>10, Retold
<1>12. ASSUME NEW u \in Tables, NEW k \in Ids(s, u) \ Ids(c, u)
       PROVE  Fact(Joined(b, s), u, Rows(s, u)[k]) \in FactsOf(b, u)
  <2>1. u = "recipient" /\ k \in doubles
    BY <1>3, <1>12
  <2>2. PICK v : v = "recipient"
    OBVIOUS
  <2>3. \A d, r : Fact(d, v, r) = r.who
    BY <2>2 DEF Fact
  <2>4. Rows(s, v)[k].who = Rows(b, v)[i].who
    BY <2>1, <2>2 DEF SameNamed
  <2>5. Rows(b, v)[i] \in Contents(b, v)
    BY <2>2 DEF Contents, Range, Ids
  <2> QED
    BY <2>1, <2>2, <2>3, <2>4, <2>5 DEF FactsOf
<1>13. SaysData(b, c) = SaysData(b, s)
  BY <1>1, <1>3, <1>5, <1>6, DataRetold DEF Matched
<1>14. SaysAvatars(b, c) \subseteq SaysAvatars(b, s)
  <2> SUFFICES ASSUME NEW a \in c.d_avatars
               PROVE  [of |-> Name(Joined(b, c), "recipient", a.recipient), picture |-> a.picture] \in SaysAvatars(b, s)
    BY DEF SaysAvatars
  <2>1. PICK e \in s.d_avatars :
          a.picture = e.picture /\ a.recipient = IF e.recipient \in doubles THEN i ELSE e.recipient
    BY DEF Matched
  <2>2. Name(Joined(b, c), "recipient", a.recipient) = Name(Joined(b, s), "recipient", e.recipient)
    BY <1>7, <2>1
  <2> QED
    BY <2>1, <2>2 DEF SaysAvatars
<1>15. Brought(b, c, p)
  <2>1. Rewrites(b, s, c)
    BY <1>11, <1>12, <1>13, <1>14 DEF Rewrites
  <2> QED
    BY <2>1, StillBrought
<1>16. RowsOk(c)
  BY DEF Matched, RowsOk, UniqueIn, Ids
<1>17. RefersAcross(b, c)
  <2> SUFFICES ASSUME NEW u \in Tables, NEW v \in Tables, NEW x, Follows(v, u, x), NEW k \in Ids(c, u)
               PROVE  Rows(c, u)[k][x] \in Ids(b, v) \cup Ids(c, v) \cup {NULL}
    BY DEF RefersAcross
  <2>1. k \in Ids(s, u) /\ Rows(s, u)[k][x] \in Ids(b, v) \cup Ids(s, v) \cup {NULL}
    BY <1>3 DEF Coming, RefersAcross
  <2>2. CASE v = "recipient"
    BY <1>7, <1>8, <2>1, <2>2
  <2>3. CASE v # "recipient"
    <3>1. x \in ColumnsOf(u) /\ ~ Follows("recipient", u, x)
      BY <1>1, <2>3, FollowsOne
    <3> QED
      BY <1>3, <1>4, <2>1, <2>3, <3>1
  <2> QED
    BY <2>2, <2>3
<1>18. FramesAcross(b, c)
  <2>1. DOMAIN c.d_attachments \subseteq Ids(c, "attachment")
    BY <1>1, <1>3 DEF Coming, FramesAcross, Matched
  <2>2. ASSUME NEW a \in c.d_avatars
        PROVE  a.recipient \in Ids(b, "recipient") \cup Ids(c, "recipient")
    <3>1. PICK e \in s.d_avatars : a.recipient = IF e.recipient \in doubles THEN i ELSE e.recipient
      BY DEF Matched
    <3>2. e.recipient \in Ids(b, "recipient") \cup Ids(s, "recipient")
      BY DEF Coming, FramesAcross
    <3> QED
      BY <1>3, <3>1, <3>2
  <2> QED
    BY <2>1, <2>2 DEF FramesAcross
<1>19. ReactsWithin(c)
  <2> SUFFICES ASSUME NEW k \in Ids(c, "reaction")
               PROVE  Rows(c, "reaction")[k]["message_id"] \in Ids(c, "message")
    BY DEF ReactsWithin
  <2>1. "message_id" \in ColumnsOf("reaction") /\ ~ Follows("recipient", "reaction", "message_id")
    BY <1>1, ColumnsThere, FollowsAre
  <2>2. k \in Ids(s, "reaction") /\ Rows(c, "reaction")[k]["message_id"] = Rows(s, "reaction")[k]["message_id"]
    BY <1>1, <1>3, <1>4, <2>1
  <2> QED
    BY <1>1, <1>3, <2>2 DEF Coming, ReactsWithin
<1>20. UniqueNames(c, "recipient")
  <2>1. \A k \in Ids(c, "recipient") : k \in Ids(s, "recipient") /\ Rows(c, "recipient")[k] = Rows(s, "recipient")[k]
    BY <1>3 DEF Matched
  <2> QED
    BY <2>1 DEF Coming, UniqueNames
<1>21. ASSUME NEW j \in Ids(c, "recipient"), j \notin doubles, Unmatched(b, s, left, j)
       PROVE  Unmatched(b, c, left \ {i}, j)
  <2>1. j \in Ids(s, "recipient") /\ Rows(c, "recipient")[j] = Rows(s, "recipient")[j]
    BY <1>3 DEF Matched
  <2>2. Rows(s, "recipient")[j].who # n
    BY <1>2, <1>21, <2>1 DEF SameNamed
  <2> QED
    BY <1>2, <1>21, <2>1, <2>2 DEF Unmatched
<1>22. Matching(b, c, left \ {i}, t)
  <2>1. ASSUME NEW u \in Tables, NEW x, Follows("recipient", u, x), NEW k \in Ids(c, u)
        PROVE  /\ Rows(c, u)[k][x] \notin left \ {i}
               /\ Rows(c, u)[k][x] \in Ids(c, "recipient") => Unmatched(b, c, left \ {i}, Rows(c, u)[k][x])
    <3>1. PICK y, z : y = Rows(s, u)[k][x] /\ z = Rows(c, u)[k][x]
      OBVIOUS
    <3>2. z = (IF y \in doubles THEN i ELSE y) /\ k \in Ids(s, u)
      BY <1>8, <2>1, <3>1
    <3>3. y \notin left /\ (y \in Ids(s, "recipient") => Unmatched(b, s, left, y))
      BY <2>1, <3>1, <3>2 DEF Matching
    <3>4. i \notin Ids(c, "recipient")
      BY <1>1, <1>5 DEF Apart
    <3>5. z \in Ids(c, "recipient") => z = y /\ y \notin doubles /\ y \in Ids(s, "recipient")
      BY <1>3, <3>2, <3>4
    <3> QED
      BY <1>21, <3>1, <3>2, <3>3, <3>5
  <2>2. ASSUME t = NULL, NEW j \in Ids(c, "recipient")
        PROVE  Unmatched(b, c, left \ {i}, j)
    <3>1. j \in Ids(s, "recipient") /\ j \notin doubles
      BY <1>3, <2>2
    <3> QED
      BY <1>21, <2>2, <3>1 DEF Matching
  <2> QED
    BY <2>1, <2>2 DEF Matching
<1> QED
  BY <1>5, <1>15, <1>16, <1>17, <1>18, <1>19, <1>20, <1>22 DEF Coming

-----------------------------------------------------------------------------
LEMMA DoublesAreNamed ==
  ASSUME NEW c, KnownApart(target, c), Contents(source, "recipient") \subseteq Contents(c, "recipient"),
         NEW i \in Ids(target, "recipient")
  PROVE  SameNamed(target, source, i, Doubles(Rows(target, "recipient")[i]))
<1> SUFFICES ASSUME NEW j
             PROVE  j \in Doubles(Rows(target, "recipient")[i]) <=>
                      j \in Ids(source, "recipient")
                      /\ Rows(source, "recipient")[j].who = Rows(target, "recipient")[i].who
  BY DEF SameNamed
<1>1. ASSUME j \in Ids(source, "recipient")
      PROVE  Same(Rows(target, "recipient")[i], Rows(source, "recipient")[j], Fields)
               <=> Rows(target, "recipient")[i].who = Rows(source, "recipient")[j].who
  <2>1. PICK r : r = Rows(target, "recipient")[i]
    OBVIOUS
  <2>2. PICK q : q = Rows(source, "recipient")[j]
    OBVIOUS
  <2>3. r \in Contents(target, "recipient")
    BY <2>1 DEF Contents, Range, Ids
  <2>4. q \in Contents(source, "recipient")
    BY <1>1, <2>2 DEF Contents, Range, Ids
  <2>5. q \in Contents(c, "recipient")
    BY <2>4
  <2>6. Same(r, q, Fields) <=> r.who = q.who
    BY <2>3, <2>5 DEF KnownApart
  <2> QED
    BY <2>1, <2>2, <2>6
<1> QED
  BY <1>1 DEF Doubles

(* One recipient of the target is matched.                                       *)
LEMMA MatchKeeps ==
  ASSUME IInv, FramesInv, ImportedInto(target, src), ComingInv,
         Matching(target, source, todo, targetthread), MatchRecipient
  PROVE  ComingInv' /\ Matching(target', source', todo', targetthread')
<1>1. /\ pc = "recipients" /\ todo # {}
      /\ target' = target /\ src' = src /\ threads' = threads /\ targetthread' = targetthread
  BY DEF MatchRecipient
<1>2. PICK i \in getMinUsedId(todo) :
        /\ todo' = todo \ {i}
        /\ source' = IF targetthread = NULL
                     THEN Dropped(WithRecipientId(source, i, Doubles(Rows(target, "recipient")[i])), "recipient",
                                  Doubles(Rows(target, "recipient")[i]))
                     ELSE WithRecipientId(source, i, Doubles(Rows(target, "recipient")[i]))
  BY DEF MatchRecipient
<1>3. i \in todo /\ i \in Ids(target, "recipient")
  <2>1. i \in todo
    BY <1>1, <1>2 DEF getMinUsedId
  <2> QED
    BY <1>1, <2>1 DEF FramesInv
<1>4. PICK b, s, c, p, t, left : /\ b = target /\ s = source /\ c = source' /\ p = PartOf(src, thread)
                                 /\ t = targetthread /\ left = todo
  OBVIOUS
<1>5. PICK doubles : doubles = Doubles(Rows(target, "recipient")[i])
  OBVIOUS
<1>6. /\ Coming(b, s) /\ Brought(b, s, p) /\ Matching(b, s, left, t)
      /\ i \in left /\ i \in Ids(b, "recipient")
      /\ BackupOk(s) /\ RowsOk(s) /\ FramesOk(s) /\ UniqueNames(s, "recipient")
  BY <1>3, <1>4 DEF ComingInv, Coming, Apart, FramesInv
<1>7. SameNamed(b, s, i, doubles)
  BY <1>3, <1>4, <1>5, DoublesAreNamed DEF ComingInv, ImportedInto
<1>8. PICK d : d = WithRecipientId(s, i, doubles)
  OBVIOUS
<1>9. Matched(s, d, i, doubles, {})
  <2>1. CASE doubles = {}
    <3>1. Cardinality(doubles) # 1
      BY <2>1, FS_EmptySet
    <3>2. d = s
      BY <1>8, <3>1 DEF WithRecipientId
    <3> QED
      BY <1>6, <2>1, <3>2, MatchNone
  <2>2. ASSUME NEW j \in doubles
        PROVE  Matched(s, d, i, doubles, {})
    <3>1. j \in Ids(s, "recipient")
      BY <1>7 DEF SameNamed
    <3>2. doubles = {j}
      BY <1>6, <1>7 DEF SameNamed, UniqueNames
    <3>3. d = WithRecipientId(s, i, {j})
      BY <1>8, <3>2
    <3> QED
      BY <1>6, <3>1, <3>2, <3>3, MatchOne
  <2> QED
    BY <2>1, <2>2
<1>10. PICK gone : gone = IF t = NULL THEN doubles ELSE {}
  OBVIOUS
<1>11. Matched(s, c, i, doubles, gone)
  <2>1. CASE t = NULL
    <3>1. c = Dropped(d, "recipient", doubles)
      BY <1>2, <1>4, <1>5, <1>8, <2>1
    <3> QED
      BY <1>9, <1>10, <2>1, <3>1, MatchDrops
  <2>2. CASE t # NULL
    <3>1. c = d
      BY <1>2, <1>4, <1>5, <1>8, <2>2
    <3> QED
      BY <1>9, <1>10, <2>2, <3>1
  <2> QED
    BY <2>1, <2>2
<1>12. Coming(b, c) /\ Brought(b, c, p) /\ Matching(b, c, left \ {i}, t)
  BY <1>6, <1>7, <1>10, <1>11, MatchBrings
<1>13. Contents(c, "recipient") \subseteq Contents(src, "recipient")
  <2>1. \A k \in Ids(c, "recipient") :
           k \in Ids(s, "recipient") /\ Rows(c, "recipient")[k] = Rows(s, "recipient")[k]
    <3>1. "recipient" \in Tables
      BY DEF Tables
    <3> QED
      BY <1>11, <3>1 DEF Matched
  <2>2. Contents(c, "recipient") \subseteq Contents(s, "recipient")
    BY <2>1 DEF Contents, Range, Ids
  <2> QED
    BY <1>4, <2>2 DEF ComingInv
<1>14. t # NULL => \A k \in Ids(c, "message") : Rows(c, "message")[k]["thread_id"] = t
  <2>1. /\ "message" \in Tables /\ "thread_id" \in ColumnsOf("message")
        /\ ~ Follows("recipient", "message", "thread_id")
    <3>1. "message" \in Tables /\ "recipient" \in Tables
      BY DEF Tables
    <3> QED
      BY <3>1, ColumnsThere, FollowsAre
  <2>2. \A k \in Ids(c, "message") :
           k \in Ids(s, "message") /\ Rows(c, "message")[k]["thread_id"] = Rows(s, "message")[k]["thread_id"]
    BY <1>11, <2>1 DEF Matched
  <2> QED
    BY <1>4, <2>2 DEF ComingInv
<1>15. thread' = thread /\ FoundThread' = FoundThread
  <2>1. thread' = thread
    BY <1>1 DEF thread
  <2> QED
    BY <1>1, <2>1 DEF FoundThread, Candidates, getThreadIdFromRecipient
<1>16. PartOf(src, thread)' = p
  BY <1>1, <1>4, <1>15
<1>17. ComingInv'
  BY <1>1, <1>4, <1>12, <1>13, <1>14, <1>15, <1>16 DEF ComingInv
<1> QED
  BY <1>1, <1>2, <1>4, <1>12, <1>17

-----------------------------------------------------------------------------
(* Dropping what the target has *)

(* Backup c has the rows of s, but for some.                                     *)
Lessened(s, c) ==
  /\ BackupOk(c) /\ c.d_attachments = s.d_attachments /\ c.d_avatars \subseteq s.d_avatars
  /\ \A u \in Tables : \A k \in Ids(c, u) : k \in Ids(s, u) /\ Rows(c, u)[k] = Rows(s, u)[k]
DroppedFrom(s, c, t, ids) ==
  \A u \in Tables : Ids(c, u) = IF u = t THEN Ids(s, u) \ ids ELSE Ids(s, u)

LEMMA DroppedIs ==
  ASSUME NEW s, BackupOk(s), NEW t \in Tables, NEW ids, NEW c, c = Dropped(s, t, ids)
  PROVE  Lessened(s, c) /\ DroppedFrom(s, c, t, ids) /\ c.d_avatars = s.d_avatars
<1>1. /\ c = [d_database |-> c.d_database, d_attachments |-> c.d_attachments, d_avatars |-> c.d_avatars]
      /\ c.d_database = [s.d_database EXCEPT ![t] = Restrict(s.d_database[t], DOMAIN s.d_database[t] \ ids)]
      /\ c.d_attachments = s.d_attachments /\ c.d_avatars = s.d_avatars
  BY DEF Dropped, BackupOk
<1>2. DOMAIN c.d_database = Tables
  BY <1>1 DEF BackupOk
<1>3. /\ Rows(c, t) = Restrict(Rows(s, t), Ids(s, t) \ ids)
      /\ \A u \in Tables : u # t => Rows(c, u) = Rows(s, u)
  BY <1>1 DEF Rows, Ids, BackupOk
<1>4. Ids(c, t) = Ids(s, t) \ ids /\ \A k \in Ids(c, t) : Rows(c, t)[k] = Rows(s, t)[k]
  BY <1>3 DEF Restrict, Ids
<1>5. DroppedFrom(s, c, t, ids)
  BY <1>3, <1>4 DEF DroppedFrom, Ids
<1>6. \A u \in Tables : \A k \in Ids(c, u) : k \in Ids(s, u) /\ Rows(c, u)[k] = Rows(s, u)[k]
  BY <1>3, <1>4 DEF Ids
<1>7. BackupOk(c)
  BY <1>1, <1>2, <1>6 DEF BackupOk
<1> QED
  BY <1>1, <1>5, <1>6, <1>7 DEF Lessened

LEMMA FewerAvatars ==
  ASSUME NEW s, BackupOk(s), NEW A, A \subseteq s.d_avatars, NEW c, c = [s EXCEPT !.d_avatars = A]
  PROVE  /\ Lessened(s, c) /\ c.d_avatars = A
         /\ \A u \in Tables : Ids(c, u) = Ids(s, u)
<1>1. /\ c = [d_database |-> c.d_database, d_attachments |-> c.d_attachments, d_avatars |-> c.d_avatars]
      /\ c.d_database = s.d_database /\ c.d_attachments = s.d_attachments /\ c.d_avatars = A
  BY DEF BackupOk
<1>2. \A u : Rows(c, u) = Rows(s, u)
  BY <1>1 DEF Rows
<1> QED
  BY <1>1, <1>2 DEF Lessened, BackupOk, Ids

LEMMA LessenedTwice ==
  ASSUME NEW s, NEW c, NEW e, Lessened(s, c), Lessened(c, e)
  PROVE  Lessened(s, e)
BY DEF Lessened

(* The rows that went were known to b.                                           *)
KnownTo(b, s, c) ==
  \A u \in Tables : \A k \in Ids(s, u) \ Ids(c, u) :
     Fact(Joined(b, s), u, Rows(s, u)[k]) \in FactsOf(b, u)

(* What is left brings the part when nothing refers to what went.                 *)
LEMMA LessBrings ==
  ASSUME NEW b, NEW s, NEW c, NEW p, Coming(b, s), Brought(b, s, p), Lessened(s, c),
         \A u \in {"message", "attachment", "reaction"} : Ids(c, u) = Ids(s, u),
         KnownTo(b, s, c), NotNeeded(s, c, "group_membership"), FramesAcross(b, c)
  PROVE  Coming(b, c) /\ Brought(b, c, p)
<1>1. /\ "message" \in Tables /\ "thread" \in Tables /\ "recipient" \in Tables
      /\ "attachment" \in Tables /\ "reaction" \in Tables /\ "group_membership" \in Tables
  BY DEF Tables
<1>2. \A u \in Tables : \A k \in Ids(c, u) : k \in Ids(s, u) /\ Rows(c, u)[k] = Rows(s, u)[k]
  BY DEF Lessened
<1>3. Apart(b, s) /\ Apart(b, c)
  BY <1>2 DEF Coming, Apart, Lessened
<1>4. RowsKept(s, c, "group_membership")
  BY <1>2 DEF RowsKept
<1>5. \A u, x : ~ Follows("group_membership", u, x)
  BY <1>1, FollowsAre
<1>6. RefersAlike(b, s, c, "group_membership")
  BY <1>5 DEF RefersAlike
<1>7. \A u \in Tables : \A k \in Ids(c, u) :
         k \in Ids(s, u) /\ Fact(Joined(b, c), u, Rows(c, u)[k]) = Fact(Joined(b, s), u, Rows(s, u)[k])
  BY <1>1, <1>2, <1>3, <1>4, <1>6, Retold
<1>8. SaysData(b, c) = SaysData(b, s)
  <2>1. Ids(c, "attachment") = Ids(s, "attachment") /\ c.d_attachments = s.d_attachments
    BY DEF Lessened
  <2> QED
    BY <1>1, <1>3, <1>4, <2>1, DataRetold
<1>9. SaysAvatars(b, c) \subseteq SaysAvatars(b, s)
  <2> SUFFICES ASSUME NEW a \in c.d_avatars
               PROVE  [of |-> Name(Joined(b, c), "recipient", a.recipient), picture |-> a.picture] \in SaysAvatars(b, s)
    BY DEF SaysAvatars
  <2>1. a \in s.d_avatars
    BY DEF Lessened
  <2>2. a.recipient \in Ids(s, "recipient") => a.recipient \in Ids(c, "recipient")
    BY <1>1, <1>3 DEF FramesAcross, Apart
  <2>3. Name(Joined(b, c), "recipient", a.recipient) = Name(Joined(b, s), "recipient", a.recipient)
    BY <1>1, <1>3, <1>4, <2>2, NamesKept
  <2> QED
    BY <2>1, <2>3 DEF SaysAvatars
<1>10. Brought(b, c, p)
  <2>1. Rewrites(b, s, c)
    BY <1>7, <1>8, <1>9 DEF Rewrites, KnownTo
  <2> QED
    BY <2>1, StillBrought
<1>11. RowsOk(c)
  BY <1>2 DEF Coming, RowsOk
<1>12. RefersAcross(b, c)
  <2> SUFFICES ASSUME NEW u \in Tables, NEW v \in Tables, NEW x, Follows(v, u, x), NEW k \in Ids(c, u)
               PROVE  Rows(c, u)[k][x] \in Ids(b, v) \cup Ids(c, v) \cup {NULL}
    BY DEF RefersAcross
  <2>1. k \in Ids(s, u) /\ Rows(c, u)[k] = Rows(s, u)[k]
    BY <1>2
  <2>2. Rows(s, u)[k][x] \in Ids(b, v) \cup Ids(s, v) \cup {NULL}
    BY <2>1 DEF Coming, RefersAcross
  <2>3. v # "group_membership"
    BY <1>5
  <2>4. Rows(s, u)[k][x] \in Ids(s, v) => Rows(s, u)[k][x] \in Ids(c, v)
    BY <2>3 DEF NotNeeded
  <2> QED
    BY <2>1, <2>2, <2>4
<1>13. ReactsWithin(c)
  BY <1>1, <1>2 DEF Coming, ReactsWithin
<1>14. UniqueNames(c, "recipient")
  BY <1>1, <1>2 DEF Coming, UniqueNames
<1> QED
  BY <1>3, <1>10, <1>11, <1>12, <1>13, <1>14 DEF Coming

-----------------------------------------------------------------------------
(* What the target knows of the rows that are dropped: the member of a group,      *)
LEMMA MembershipKnown ==
  ASSUME NEW b, NEW s, Apart(b, s), RefersWithin(b),
         NEW k \in Ids(s, "group_membership"), NEW l \in Ids(b, "group_membership"),
         Key("group_membership", Rows(s, "group_membership")[k]) = Key("group_membership", Rows(b, "group_membership")[l])
  PROVE  Fact(Joined(b, s), "group_membership", Rows(s, "group_membership")[k]) \in FactsOf(b, "group_membership")
<1>1. PICK u : u = "group_membership"
  OBVIOUS
<1>2. /\ u \in Tables /\ "recipient" \in Tables /\ UniqueColumns(u) = {"group_id", "recipient_id"}
      /\ u # "thread" /\ u # "message" /\ u # "attachment" /\ u # "recipient" /\ u # "reaction"
  BY <1>1 DEF Tables, UniqueColumns
<1>3. PICK r, q : r = Rows(s, u)[k] /\ q = Rows(b, u)[l]
  OBVIOUS
<1>4. r["group_id"] = q["group_id"] /\ r["recipient_id"] = q["recipient_id"]
  BY <1>1, <1>2, <1>3, KeyEqual
<1>5. q["recipient_id"] \in Ids(b, "recipient") \cup {NULL}
  <2>1. Follows("recipient", u, "recipient_id")
    BY <1>1, <1>2, FollowsAre
  <2>2. l \in Ids(b, u)
    BY <1>1
  <2> QED
    BY <1>2, <1>3, <2>1, <2>2, RefersByColumn
<1>6. Name(Joined(b, s), "recipient", r["recipient_id"]) = Name(b, "recipient", q["recipient_id"])
  BY <1>2, <1>4, <1>5, JoinedNames
<1>7. \A d, e : Fact(d, u, e) = [group |-> e.group_id, member |-> Name(d, "recipient", e.recipient_id)]
  BY <1>1, <1>2 DEF Fact
<1>8. Fact(Joined(b, s), u, r) = Fact(b, u, q)
  BY <1>4, <1>6, <1>7
<1>9. q \in Contents(b, u)
  BY <1>1, <1>3 DEF Contents, Range, Ids
<1> QED
  BY <1>1, <1>3, <1>8, <1>9 DEF FactsOf

(* a thread of the name of one it has,                                            *)
LEMMA ThreadKnown ==
  ASSUME Importable(src), NEW b, ThreadsNamed(b), NEW s, NEW t, Brought(b, s, PartOf(src, t)),
         NEW h \in Ids(b, "thread"), Rows(b, "thread")[h].who = Rows(src, "thread")[t].who,
         NEW k \in Ids(s, "thread")
  PROVE  Fact(Joined(b, s), "thread", Rows(s, "thread")[k]) \in FactsOf(b, "thread")
<1>1. PICK u : u = "thread"
  OBVIOUS
<1>2. u \in Tables /\ Kind(u) = "thread"
  BY <1>1 DEF Tables, Kind
<1>3. PICK f : f = Fact(Joined(b, s), u, Rows(s, u)[k])
  OBVIOUS
<1>4. f \in Says(b, s, u)
  BY <1>1, <1>3 DEF Says, Contents, Range, Ids
<1>5. f \in PartOf(src, t).thread
  <2>1. f \in PartOf(src, t)["thread"]
    BY <1>2, <1>4 DEF Brought
  <2> QED
    BY <2>1
<1>6. f \in Facts(src).thread /\ f.who = Rows(src, "thread")[t].who
  BY <1>5 DEF PartOf, Merge!Part
<1>7. f.recipient = f.who
  BY <1>6 DEF Importable, ThreadsNamed
<1>8. PICK q : q = Rows(b, u)[h]
  OBVIOUS
<1>9. \A d, e : Fact(d, u, e) = [who |-> e.who, recipient |-> Name(d, "recipient", e.recipient_id)]
  BY <1>1 DEF Fact
<1>10. PICK g : g = Fact(b, u, q)
  OBVIOUS
<1>11. g \in FactsOf(b, u)
  BY <1>1, <1>8, <1>10 DEF FactsOf, Contents, Range, Ids
<1>12. g \in Facts(b).thread
  <2>1. Facts(b)["thread"] = FactsOf(b, u)
    BY <1>2, FactsByTable
  <2> QED
    BY <1>11, <2>1
<1>13. g.recipient = g.who
  BY <1>12 DEF ThreadsNamed
<1>14. g.who = f.who
  BY <1>1, <1>6, <1>8, <1>9, <1>10
<1>15. f = g
  BY <1>3, <1>7, <1>9, <1>10, <1>13, <1>14
<1> QED
  BY <1>1, <1>3, <1>11, <1>15

(* and a recipient of the name of one.                                           *)
LEMMA RecipientKnown ==
  ASSUME NEW b, NEW s, NEW i \in Ids(b, "recipient"), NEW j \in Ids(s, "recipient"),
         Rows(s, "recipient")[j].who = Rows(b, "recipient")[i].who
  PROVE  Fact(Joined(b, s), "recipient", Rows(s, "recipient")[j]) \in FactsOf(b, "recipient")
<1>1. PICK v : v = "recipient"
  OBVIOUS
<1>2. \A d, r : Fact(d, v, r) = r.who
  BY <1>1 DEF Fact
<1>3. Rows(b, v)[i] \in Contents(b, v)
  BY <1>1 DEF Contents, Range, Ids
<1> QED
  BY <1>1, <1>2, <1>3 DEF FactsOf

-----------------------------------------------------------------------------
(* What DropExisting leaves.                                                     *)
Redundant(b, s, t, u, k) ==
  CASE u = "group_membership" -> \E l \in Ids(b, u) : Key(u, Rows(s, u)[k]) = Key(u, Rows(b, u)[l])
    [] u = "thread"           -> t # NULL
    [] u = "recipient"        -> t # NULL /\ \E i \in Ids(b, u) : Rows(s, u)[k].who = Rows(b, u)[i].who
    [] OTHER                  -> FALSE

OnlyNeeded(b, s, c, t) ==
  /\ Lessened(s, c)
  /\ \A u \in Tables : \A k \in Ids(s, u) : k \in Ids(c, u) <=> ~ Redundant(b, s, t, u, k)
  /\ t # NULL => c.d_avatars = {}

LEMMA DropsRedundant ==
  ASSUME BackupOk(source), NEW c, KnownApart(target, c),
         Contents(source, "recipient") \subseteq Contents(c, "recipient"), DropExisting
  PROVE  OnlyNeeded(target, source, source', targetthread)
<1>1. /\ "thread" \in Tables /\ "recipient" \in Tables /\ "group_membership" \in Tables
  BY DEF Tables
<1>2. PICK e : /\ e = (IF targetthread = NULL
                       THEN [source EXCEPT !.d_avatars =
                               {a \in @ : \A b \in target.d_avatars : a.recipient # b.recipient}]
                       ELSE [Dropped(Dropped(source, "thread", Ids(source, "thread")), "recipient",
                                     UNION {Doubles(row) : row \in Contents(target, "recipient")})
                               EXCEPT !.d_avatars = {}])
               /\ source' = WithoutExisting(e)
  BY DEF DropExisting
<1>3. PICK D : D = UNION {Doubles(row) : row \in Contents(target, "recipient")}
  OBVIOUS
<1>4. \A j : j \in D <=> j \in Ids(source, "recipient")
                         /\ \E i \in Ids(target, "recipient") :
                              Rows(source, "recipient")[j].who = Rows(target, "recipient")[i].who
  <2>1. \A j : j \in D <=> \E i \in Ids(target, "recipient") : j \in Doubles(Rows(target, "recipient")[i])
    BY <1>3 DEF Contents, Range, Ids
  <2>2. ASSUME NEW i \in Ids(target, "recipient"), NEW j
        PROVE  j \in Doubles(Rows(target, "recipient")[i]) <=>
                 j \in Ids(source, "recipient")
                 /\ Rows(source, "recipient")[j].who = Rows(target, "recipient")[i].who
    BY DoublesAreNamed DEF SameNamed
  <2> QED
    BY <2>1, <2>2
<1>5. /\ Lessened(source, e)
      /\ \A u \in Tables : \A k \in Ids(source, u) :
           k \in Ids(e, u) <=> u = "group_membership" \/ ~ Redundant(target, source, targetthread, u, k)
      /\ targetthread # NULL => e.d_avatars = {}
  <2>1. CASE targetthread = NULL
    <3>1. PICK A : A = {a \in source.d_avatars : \A b \in target.d_avatars : a.recipient # b.recipient}
      OBVIOUS
    <3>2. e = [source EXCEPT !.d_avatars = A]
      BY <1>2, <2>1, <3>1
    <3>3. A \subseteq source.d_avatars
      BY <3>1
    <3>4. Lessened(source, e) /\ \A u \in Tables : Ids(e, u) = Ids(source, u)
      BY <3>2, <3>3, FewerAvatars
    <3>5. \A u \in Tables : \A k : u # "group_membership" => ~ Redundant(target, source, targetthread, u, k)
      BY <2>1 DEF Redundant, Tables
    <3> QED
      BY <2>1, <3>4, <3>5
  <2>2. CASE targetthread # NULL
    <3>1. PICK x : x = Dropped(source, "thread", Ids(source, "thread"))
      OBVIOUS
    <3>2. Lessened(source, x) /\ DroppedFrom(source, x, "thread", Ids(source, "thread"))
      BY <1>1, <3>1, DroppedIs
    <3>3. PICK y : y = Dropped(x, "recipient", D)
      OBVIOUS
    <3>4. Lessened(x, y) /\ DroppedFrom(x, y, "recipient", D)
      BY <1>1, <3>2, <3>3, DroppedIs DEF Lessened
    <3>5. e = [y EXCEPT !.d_avatars = {}]
      BY <1>2, <1>3, <2>2, <3>1, <3>3
    <3>6. Lessened(y, e) /\ e.d_avatars = {} /\ \A u \in Tables : Ids(e, u) = Ids(y, u)
      <4>1. BackupOk(y) /\ {} \subseteq y.d_avatars
        BY <3>4 DEF Lessened
      <4> QED
        BY <3>5, <4>1, FewerAvatars
    <3>7. Lessened(source, e)
      BY <3>2, <3>4, <3>6, LessenedTwice
    <3>8. ASSUME NEW u \in Tables, NEW k \in Ids(source, u)
          PROVE  k \in Ids(e, u) <=> u = "group_membership" \/ ~ Redundant(target, source, targetthread, u, k)
      <4>1. k \in Ids(e, u) <=> u # "thread" /\ (u = "recipient" => k \notin D)
        BY <1>1, <3>2, <3>4, <3>6 DEF DroppedFrom
      <4>2. CASE u = "thread"
        BY <2>2, <4>1, <4>2 DEF Redundant
      <4>3. CASE u = "recipient"
        BY <1>4, <2>2, <4>1, <4>3 DEF Redundant
      <4>4. CASE u = "group_membership"
        BY <4>1, <4>4
      <4>5. CASE u \notin {"thread", "recipient", "group_membership"}
        BY <4>1, <4>5 DEF Redundant
      <4> QED
        BY <4>2, <4>3, <4>4, <4>5
    <3> QED
      BY <3>6, <3>7, <3>8
  <2> QED
    BY <2>1, <2>2
<1>6. PICK K : K = {i \in Ids(e, "group_membership") :
                      Key("group_membership", Rows(e, "group_membership")[i]) \in MembershipKeys}
  OBVIOUS
<1>7. source' = Dropped(e, "group_membership", K)
  BY <1>2, <1>6 DEF WithoutExisting
<1>8. Lessened(e, source') /\ DroppedFrom(e, source', "group_membership", K) /\ (source').d_avatars = e.d_avatars
  BY <1>1, <1>5, <1>7, DroppedIs DEF Lessened
<1>9. ASSUME NEW u \in Tables, NEW k \in Ids(source, u)
      PROVE  k \in Ids(source', u) <=> ~ Redundant(target, source, targetthread, u, k)
  <2>1. CASE u = "group_membership"
    <3>1. k \in Ids(e, u) /\ Rows(e, u)[k] = Rows(source, u)[k]
      BY <1>5, <2>1 DEF Lessened
    <3>2. k \in Ids(source', u) <=> k \notin K
      BY <1>1, <1>8, <2>1, <3>1 DEF DroppedFrom
    <3>3. k \in K <=> Key(u, Rows(source, u)[k]) \in MembershipKeys
      BY <1>6, <2>1, <3>1
    <3>4. \A y : y \in MembershipKeys <=> \E l \in Ids(target, u) : y = Key(u, Rows(target, u)[l])
      BY <2>1 DEF MembershipKeys, Contents, Range, Ids
    <3>5. Redundant(target, source, targetthread, u, k) <=> Key(u, Rows(source, u)[k]) \in MembershipKeys
      BY <2>1, <3>4 DEF Redundant
    <3> QED
      BY <3>2, <3>3, <3>5
  <2>2. CASE u # "group_membership"
    <3>1. Ids(source', u) = Ids(e, u)
      BY <1>8, <2>2 DEF DroppedFrom
    <3> QED
      BY <1>5, <2>2, <3>1
  <2> QED
    BY <2>1, <2>2
<1>10. Lessened(source, source')
  BY <1>5, <1>8, LessenedTwice
<1> QED
  BY <1>5, <1>8, <1>9, <1>10 DEF OnlyNeeded

-----------------------------------------------------------------------------
(* What is left to insert in b is not there already.                              *)
Inserting(b, s, t) ==
  /\ \A i \in Ids(b, "recipient"), j \in Ids(s, "recipient") :
       Rows(b, "recipient")[i].who # Rows(s, "recipient")[j].who
  /\ \A k \in Ids(s, "group_membership"), l \in Ids(b, "group_membership") :
       Key("group_membership", Rows(s, "group_membership")[k]) # Key("group_membership", Rows(b, "group_membership")[l])
  /\ t # NULL => Ids(s, "thread") = {}

LEMMA NeededStay ==
  ASSUME NEW b, NEW s, NEW c, NEW t, Coming(b, s), Matching(b, s, {}, t), OnlyNeeded(b, s, c, t),
         t # NULL => t \in Ids(b, "thread")
                     /\ \A k \in Ids(s, "message") : Rows(s, "message")[k]["thread_id"] = t
  PROVE  /\ NotNeeded(s, c, "group_membership")
         /\ FramesAcross(b, c)
         /\ \A u \in {"message", "attachment", "reaction"} : Ids(c, u) = Ids(s, u)
<1>1. /\ "message" \in Tables /\ "thread" \in Tables /\ "recipient" \in Tables
      /\ "attachment" \in Tables /\ "reaction" \in Tables /\ "group_membership" \in Tables
  BY DEF Tables
<1>2. /\ \A u \in Tables : \A k \in Ids(c, u) : k \in Ids(s, u) /\ Rows(c, u)[k] = Rows(s, u)[k]
      /\ \A u \in Tables : \A k \in Ids(s, u) : k \in Ids(c, u) <=> ~ Redundant(b, s, t, u, k)
      /\ c.d_attachments = s.d_attachments /\ c.d_avatars \subseteq s.d_avatars
      /\ t # NULL => c.d_avatars = {}
  BY DEF OnlyNeeded, Lessened
<1>3. \A u \in {"message", "attachment", "reaction"} : Ids(c, u) = Ids(s, u)
  <2> SUFFICES ASSUME NEW u \in {"message", "attachment", "reaction"}
               PROVE  Ids(c, u) = Ids(s, u)
    OBVIOUS
  <2>1. u \in Tables
    BY DEF Tables
  <2>2. \A k : ~ Redundant(b, s, t, u, k)
    BY DEF Redundant
  <2>3. \A k : k \in Ids(c, u) <=> k \in Ids(s, u)
    BY <1>2, <2>1, <2>2
  <2> QED
    BY <2>3
<1>4. ASSUME NEW u \in Tables, NEW v \in Tables, NEW x, Follows(v, u, x), v # "group_membership",
             NEW k \in Ids(c, u), Rows(s, u)[k][x] \in Ids(s, v)
      PROVE  Rows(s, u)[k][x] \in Ids(c, v)
  <2>1. k \in Ids(s, u)
    BY <1>2
  <2>2. PICK y : y = Rows(s, u)[k][x]
    OBVIOUS
  <2>3. CASE v \in {"message", "attachment", "reaction"}
    BY <1>3, <1>4, <2>3
  <2>4. CASE v = "thread"
    <3>1. u = "message" /\ x = "thread_id"
      BY <1>1, <1>4, <2>4, FollowsAre
    <3>2. t = NULL
      <4> SUFFICES ASSUME t # NULL PROVE FALSE
        OBVIOUS
      <4>1. y = t /\ t \in Ids(b, "thread")
        BY <2>1, <2>2, <3>1
      <4>2. Ids(s, "thread") \cap Ids(b, "thread") = {}
        BY <1>1 DEF Coming, Apart
      <4> QED
        BY <1>4, <2>2, <2>4, <4>1, <4>2
    <3>3. ~ Redundant(b, s, t, v, y)
      BY <2>4, <3>2 DEF Redundant
    <3> QED
      BY <1>2, <1>4, <2>2, <3>3
  <2>5. CASE v = "recipient"
    <3>1. Unmatched(b, s, {}, y)
      BY <1>1, <1>4, <2>1, <2>2, <2>5 DEF Matching
    <3>2. ~ Redundant(b, s, t, v, y)
      BY <2>5, <3>1 DEF Redundant, Unmatched
    <3> QED
      BY <1>2, <1>4, <2>2, <3>2
  <2> QED
    BY <1>4, <2>3, <2>4, <2>5 DEF Tables
<1>5. NotNeeded(s, c, "group_membership")
  BY <1>4 DEF NotNeeded
<1>6. FramesAcross(b, c)
  <2>1. DOMAIN c.d_attachments \subseteq Ids(c, "attachment")
    BY <1>2, <1>3 DEF Coming, FramesAcross
  <2>2. ASSUME NEW a \in c.d_avatars
        PROVE  a.recipient \in Ids(b, "recipient") \cup Ids(c, "recipient")
    <3>1. t = NULL /\ a \in s.d_avatars
      BY <1>2
    <3>2. \A k : ~ Redundant(b, s, t, "recipient", k)
      BY <3>1 DEF Redundant
    <3>3. Ids(s, "recipient") \subseteq Ids(c, "recipient")
      BY <1>1, <1>2, <3>2
    <3>4. a.recipient \in Ids(b, "recipient") \cup Ids(s, "recipient")
      BY <3>1 DEF Coming, FramesAcross
    <3> QED
      BY <3>3, <3>4
  <2> QED
    BY <2>1, <2>2 DEF FramesAcross
<1> QED
  BY <1>3, <1>5, <1>6

LEMMA DropKeeps ==
  ASSUME Importable(src), ImportedInto(target, src), ComingInv,
         Matching(target, source, todo, targetthread), DropExisting
  PROVE  ComingInv' /\ Inserting(target', source', targetthread')
<1>1. /\ pc = "recipients" /\ todo = {}
      /\ target' = target /\ src' = src /\ threads' = threads /\ targetthread' = targetthread
  BY DEF DropExisting
<1>2. PICK b, s, c, p, t, h : /\ b = target /\ s = source /\ c = source' /\ p = PartOf(src, h)
                              /\ t = targetthread /\ h = thread
  OBVIOUS
<1>3. /\ "message" \in Tables /\ "thread" \in Tables /\ "recipient" \in Tables
      /\ "attachment" \in Tables /\ "reaction" \in Tables /\ "group_membership" \in Tables
  BY DEF Tables
<1>4. /\ Coming(b, s) /\ Brought(b, s, p) /\ Matching(b, s, {}, t) /\ Apart(b, s)
      /\ RefersWithin(b) /\ ThreadsNamed(b) /\ KnownApart(b, src) /\ h \in Ids(src, "thread")
      /\ Contents(s, "recipient") \subseteq Contents(src, "recipient")
  BY <1>1, <1>2 DEF ComingInv, Coming, ImportedInto
<1>5. OnlyNeeded(b, s, c, t)
  BY <1>2, <1>4, DropsRedundant DEF Apart
<1>6. /\ \A u \in Tables : \A k \in Ids(c, u) : k \in Ids(s, u) /\ Rows(c, u)[k] = Rows(s, u)[k]
      /\ \A u \in Tables : \A k \in Ids(s, u) : k \in Ids(c, u) <=> ~ Redundant(b, s, t, u, k)
      /\ Lessened(s, c)
  BY <1>5 DEF OnlyNeeded, Lessened
<1>7. t # NULL => t \in Ids(b, "thread") /\ Rows(b, "thread")[t].who = Rows(src, "thread")[h].who
                  /\ \A k \in Ids(s, "message") : Rows(s, "message")[k]["thread_id"] = t
  BY <1>2, <1>4, FoundIsNamed DEF ComingInv
<1>8. KnownTo(b, s, c)
  <2> SUFFICES ASSUME NEW u \in Tables, NEW k \in Ids(s, u), Redundant(b, s, t, u, k)
               PROVE  Fact(Joined(b, s), u, Rows(s, u)[k]) \in FactsOf(b, u)
    BY <1>6 DEF KnownTo
  <2>1. CASE u = "group_membership"
    <3>1. PICK l \in Ids(b, u) : Key(u, Rows(s, u)[k]) = Key(u, Rows(b, u)[l])
      BY <2>1 DEF Redundant
    <3> QED
      BY <1>4, <2>1, <3>1, MembershipKnown
  <2>2. CASE u = "thread"
    <3>1. t # NULL
      BY <2>2 DEF Redundant
    <3>2. t \in Ids(b, "thread") /\ Rows(b, "thread")[t].who = Rows(src, "thread")[h].who
      BY <1>7, <3>1
    <3> QED
      BY <1>2, <1>4, <2>2, <3>2, ThreadKnown
  <2>3. CASE u = "recipient"
    <3>1. PICK i \in Ids(b, u) : Rows(s, u)[k].who = Rows(b, u)[i].who
      BY <2>3 DEF Redundant
    <3> QED
      BY <2>3, <3>1, RecipientKnown
  <2>4. CASE u \notin {"group_membership", "thread", "recipient"}
    BY <2>4 DEF Redundant
  <2> QED
    BY <2>1, <2>2, <2>3, <2>4
<1>9. /\ NotNeeded(s, c, "group_membership")
      /\ FramesAcross(b, c)
      /\ \A u \in {"message", "attachment", "reaction"} : Ids(c, u) = Ids(s, u)
  BY <1>4, <1>5, <1>7, NeededStay
<1>10. Coming(b, c) /\ Brought(b, c, p)
  BY <1>4, <1>6, <1>8, <1>9, LessBrings
<1>11. Inserting(b, c, t)
  <2>1. ASSUME NEW i \in Ids(b, "recipient"), NEW j \in Ids(c, "recipient")
        PROVE  Rows(b, "recipient")[i].who # Rows(c, "recipient")[j].who
    <3>1. /\ j \in Ids(s, "recipient") /\ Rows(c, "recipient")[j] = Rows(s, "recipient")[j]
          /\ ~ Redundant(b, s, t, "recipient", j)
      BY <1>3, <1>6
    <3>2. CASE t = NULL
      <4>1. Unmatched(b, s, {}, j)
        BY <1>4, <3>1, <3>2 DEF Matching
      <4> QED
        BY <3>1, <4>1 DEF Unmatched
    <3>3. CASE t # NULL
      BY <3>1, <3>3 DEF Redundant
    <3> QED
      BY <3>2, <3>3
  <2>2. ASSUME NEW k \in Ids(c, "group_membership"), NEW l \in Ids(b, "group_membership")
        PROVE  Key("group_membership", Rows(c, "group_membership")[k])
                 # Key("group_membership", Rows(b, "group_membership")[l])
    <3>1. /\ k \in Ids(s, "group_membership")
          /\ Rows(c, "group_membership")[k] = Rows(s, "group_membership")[k]
          /\ ~ Redundant(b, s, t, "group_membership", k)
      BY <1>3, <1>6
    <3> QED
      BY <3>1 DEF Redundant
  <2>3. t # NULL => Ids(c, "thread") = {}
    <3>1. t # NULL => \A k : Redundant(b, s, t, "thread", k)
      BY DEF Redundant
    <3> QED
      BY <1>3, <1>6, <3>1
  <2> QED
    BY <2>1, <2>2, <2>3 DEF Inserting
<1>12. Contents(c, "recipient") \subseteq Contents(src, "recipient")
  <2>1. Contents(c, "recipient") \subseteq Contents(s, "recipient")
    BY <1>3, <1>6 DEF Contents, Range, Ids
  <2> QED
    BY <1>4, <2>1
<1>13. t # NULL => \A k \in Ids(c, "message") : Rows(c, "message")[k]["thread_id"] = t
  BY <1>3, <1>6, <1>7
<1>14. thread' = thread /\ FoundThread' = FoundThread
  <2>1. thread' = thread
    BY <1>1 DEF thread
  <2> QED
    BY <1>1, <2>1 DEF FoundThread, Candidates, getThreadIdFromRecipient
<1>15. PartOf(src, thread)' = p
  BY <1>1, <1>2, <1>14
<1>16. ComingInv'
  BY <1>1, <1>2, <1>10, <1>12, <1>13, <1>14, <1>15 DEF ComingInv
<1> QED
  BY <1>1, <1>2, <1>11, <1>16

-----------------------------------------------------------------------------
(* Inserting *)

NoneCoincide(b, p) == \A m \in FactsOf(b, "message"), n \in p.message : ~ Coincide(m, n)

(* No two rows of the two backups have the same unique columns.                   *)
KeysApart(b, s, u) ==
  \A k \in Ids(s, u), i \in Ids(b, u) :
     UniqueColumns(u) # {} => Key(u, Rows(s, u)[k]) # Key(u, Rows(b, u)[i])

(* References that are equal name the same.                                      *)
LEMMA NamedAlike ==
  ASSUME NEW b, NEW s, Apart(b, s), RefersWithin(b), NEW u \in Tables, NEW v \in Tables, NEW x, Follows(v, u, x),
         NEW k \in Ids(s, u), NEW i \in Ids(b, u), Rows(s, u)[k][x] = Rows(b, u)[i][x]
  PROVE  Name(Joined(b, s), v, Rows(s, u)[k][x]) = Name(b, v, Rows(b, u)[i][x])
<1>1. Rows(b, u)[i][x] \in Ids(b, v) \cup {NULL}
  BY RefersByColumn
<1> QED
  BY <1>1, JoinedNames

LEMMA ThreadKeysApart ==
  ASSUME ImportedInto(target, src), Importable(src), ComingInv, Inserting(target, source, targetthread)
  PROVE  KeysApart(target, source, "thread")
<1>1. PICK b, s, h, u : b = target /\ s = source /\ h = thread /\ u = "thread"
  OBVIOUS
<1>2. /\ u \in Tables /\ "recipient" \in Tables /\ Kind(u) = "thread"
      /\ UniqueColumns(u) = {"recipient_id"} /\ Follows("recipient", u, "recipient_id")
  <2>1. u \in Tables /\ "recipient" \in Tables
    BY <1>1 DEF Tables
  <2> QED
    BY <1>1, <2>1, FollowsAre DEF UniqueColumns, Kind
<1>3. Apart(b, s) /\ RefersWithin(b) /\ ThreadsNamed(b) /\ Brought(b, s, PartOf(src, h))
  BY <1>1 DEF ComingInv, Coming, ImportedInto
<1> SUFFICES ASSUME NEW k \in Ids(s, u), NEW i \in Ids(b, u), Key(u, Rows(s, u)[k]) = Key(u, Rows(b, u)[i])
             PROVE  FALSE
  BY <1>1 DEF KeysApart
<1>4. PICK r, q : r = Rows(s, u)[k] /\ q = Rows(b, u)[i]
  OBVIOUS
<1>5. r["recipient_id"] = q["recipient_id"]
  BY <1>2, <1>4, KeyEqual
<1>6. Name(Joined(b, s), "recipient", r["recipient_id"]) = Name(b, "recipient", q["recipient_id"])
  BY <1>2, <1>3, <1>4, <1>5, NamedAlike
<1>7. Name(b, "recipient", q["recipient_id"]) = q.who
  BY <1>1, <1>3, <1>4, ThreadsAreNamed
<1>8. PICK f : f = Fact(Joined(b, s), u, r)
  OBVIOUS
<1>9. f.who = r.who /\ f.recipient = Name(Joined(b, s), "recipient", r["recipient_id"])
  BY <1>1, <1>8 DEF Fact
<1>10. f \in PartOf(src, h).thread
  <2>1. f \in Says(b, s, u)
    BY <1>4, <1>8 DEF Says, Contents, Range, Ids
  <2>2. f \in PartOf(src, h)["thread"]
    BY <1>2, <1>3, <2>1 DEF Brought
  <2> QED
    BY <2>2
<1>11. f \in Facts(src).thread /\ f.who = Rows(src, "thread")[h].who
  BY <1>10 DEF PartOf, Merge!Part
<1>12. f.recipient = f.who
  BY <1>11 DEF Importable, ThreadsNamed
<1>13. Rows(target, "thread")[i].who = Rows(src, "thread")[thread].who
  BY <1>1, <1>4, <1>6, <1>7, <1>9, <1>11, <1>12
<1>14. targetthread = NULL /\ FoundThread = NULL /\ thread \in Ids(src, "thread")
  BY <1>1 DEF Inserting, ComingInv
<1> QED
  BY <1>1, <1>13, <1>14, NotFoundIsNotThere

LEMMA MessageKeysApart ==
  ASSUME NEW b, NEW s, NEW p, Coming(b, s), RefersWithin(b), Brought(b, s, p), NoneCoincide(b, p)
  PROVE  KeysApart(b, s, "message")
<1>1. PICK u : u = "message"
  OBVIOUS
<1>2. /\ u \in Tables /\ "recipient" \in Tables /\ "thread" \in Tables /\ Kind(u) = "message"
      /\ UniqueColumns(u) = {"date_sent", "from_recipient_id", "thread_id"}
      /\ Follows("recipient", u, "from_recipient_id") /\ Follows("thread", u, "thread_id")
  <2>1. u \in Tables /\ "recipient" \in Tables /\ "thread" \in Tables
    BY <1>1 DEF Tables
  <2> QED
    BY <1>1, <2>1, FollowsAre DEF UniqueColumns, Kind
<1> SUFFICES ASSUME NEW k \in Ids(s, u), NEW i \in Ids(b, u), Key(u, Rows(s, u)[k]) = Key(u, Rows(b, u)[i])
             PROVE  FALSE
  BY <1>1 DEF KeysApart
<1>3. PICK r, q : r = Rows(s, u)[k] /\ q = Rows(b, u)[i]
  OBVIOUS
<1>4. /\ r["date_sent"] = q["date_sent"] /\ r["from_recipient_id"] = q["from_recipient_id"]
      /\ r["thread_id"] = q["thread_id"]
  BY <1>2, <1>3, KeyEqual
<1>5. /\ Name(Joined(b, s), "recipient", r["from_recipient_id"]) = Name(b, "recipient", q["from_recipient_id"])
      /\ Name(Joined(b, s), "thread", r["thread_id"]) = Name(b, "thread", q["thread_id"])
  BY <1>2, <1>3, <1>4, NamedAlike DEF Coming
<1>6. PICK m, n : m = Fact(b, u, q) /\ n = Fact(Joined(b, s), u, r)
  OBVIOUS
<1>7. /\ m.date_sent = q["date_sent"] /\ m.from = Name(b, "recipient", q["from_recipient_id"])
      /\ m.thread = Name(b, "thread", q["thread_id"])
  BY <1>1, <1>6 DEF Fact
<1>8. /\ n.date_sent = r["date_sent"] /\ n.from = Name(Joined(b, s), "recipient", r["from_recipient_id"])
      /\ n.thread = Name(Joined(b, s), "thread", r["thread_id"])
  BY <1>1, <1>6 DEF Fact
<1>9. Coincide(m, n)
  BY <1>4, <1>5, <1>7, <1>8 DEF Coincide
<1>10. m \in FactsOf(b, u)
  BY <1>3, <1>6 DEF FactsOf, Contents, Range, Ids
<1>11. n \in p.message
  <2>1. n \in Says(b, s, u)
    BY <1>3, <1>6 DEF Says, Contents, Range, Ids
  <2>2. n \in p["message"]
    BY <1>2, <2>1 DEF Brought
  <2> QED
    BY <2>2
<1> QED
  BY <1>1, <1>9, <1>10, <1>11 DEF NoneCoincide

LEMMA ReactionKeysApart ==
  ASSUME NEW b, NEW s, Coming(b, s), RefersWithin(b)
  PROVE  KeysApart(b, s, "reaction")
<1>1. PICK u : u = "reaction"
  OBVIOUS
<1>2. /\ u \in Tables /\ "message" \in Tables
      /\ UniqueColumns(u) = {"message_id", "author_id"} /\ Follows("message", u, "message_id")
  <2>1. u \in Tables /\ "message" \in Tables
    BY <1>1 DEF Tables
  <2> QED
    BY <1>1, <2>1, FollowsAre DEF UniqueColumns
<1> SUFFICES ASSUME NEW k \in Ids(s, u), NEW i \in Ids(b, u), Key(u, Rows(s, u)[k]) = Key(u, Rows(b, u)[i])
             PROVE  FALSE
  BY <1>1 DEF KeysApart
<1>3. Rows(s, u)[k]["message_id"] = Rows(b, u)[i]["message_id"]
  BY <1>2, KeyEqual
<1>4. Rows(s, u)[k]["message_id"] \in Ids(s, "message")
  BY <1>1 DEF Coming, ReactsWithin
<1>5. Rows(b, u)[i]["message_id"] \in Ids(b, "message") \cup {NULL}
  BY <1>2, RefersByColumn
<1>6. Ids(s, "message") \cap Ids(b, "message") = {} /\ NULL \notin Ids(s, "message")
  BY <1>2 DEF Coming, Apart, BackupOk, NULL
<1> QED
  BY <1>3, <1>4, <1>5, <1>6

LEMMA AllKeysApart ==
  ASSUME ImportedInto(target, src), Importable(src), ComingInv, Inserting(target, source, targetthread),
         NoneCoincide(target, PartOf(src, thread))
  PROVE  \A u \in Tables : KeysApart(target, source, u)
<1>1. Coming(target, source) /\ Brought(target, source, PartOf(src, thread)) /\ RefersWithin(target)
  BY DEF ComingInv, ImportedInto
<1>2. KeysApart(target, source, "thread")
  BY ThreadKeysApart
<1>3. KeysApart(target, source, "message")
  BY <1>1, MessageKeysApart
<1>4. KeysApart(target, source, "reaction")
  BY <1>1, ReactionKeysApart
<1>5. KeysApart(target, source, "group_membership")
  BY DEF Inserting, KeysApart
<1>6. KeysApart(target, source, "attachment") /\ KeysApart(target, source, "recipient")
  BY DEF KeysApart, UniqueColumns
<1> QED
  BY <1>2, <1>3, <1>4, <1>5, <1>6 DEF Tables
-----------------------------------------------------------------------------
(* Every row of the source is accepted, and none of the target is replaced.        *)
LEMMA InsertJoins ==
  ASSUME ImportedInto(target, src), Importable(src), ComingInv, Inserting(target, source, targetthread),
         NoneCoincide(target, PartOf(src, thread)), Insert
  PROVE  target' = Joined(target, source)
<1>1. Apart(target, source) /\ KnownApart(target, src) /\ Contents(source, "recipient") \subseteq Contents(src, "recipient")
  BY DEF ComingInv, Coming, ImportedInto
<1>2. ASSUME NEW u \in Tables, NEW k \in Ids(source, u)
      PROVE  Clashes(u, Rows(source, u)[k]) = {}
  <2> SUFFICES ASSUME NEW i \in Ids(target, u),
                      \/ UniqueColumns(u) # {} /\ Key(u, Rows(source, u)[k]) = Key(u, Rows(target, u)[i])
                      \/ u = "recipient" /\ Same(Rows(source, u)[k], Rows(target, u)[i], Fields)
               PROVE  FALSE
    BY DEF Clashes
  <2>1. ~ (UniqueColumns(u) # {} /\ Key(u, Rows(source, u)[k]) = Key(u, Rows(target, u)[i]))
    BY AllKeysApart DEF KeysApart
  <2>2. u = "recipient" /\ Same(Rows(source, u)[k], Rows(target, u)[i], Fields)
    BY <2>1
  <2>3. PICK r, q : r = Rows(source, "recipient")[k] /\ q = Rows(target, "recipient")[i]
    OBVIOUS
  <2>4. Same(q, r, Fields)
    BY <2>2, <2>3 DEF Same
  <2>5. q \in Contents(target, "recipient") /\ r \in Contents(source, "recipient")
    BY <2>2, <2>3 DEF Contents, Range, Ids
  <2>6. q.who = r.who
    BY <1>1, <2>4, <2>5 DEF KnownApart
  <2>7. q.who # r.who
    BY <1>2, <2>2, <2>3 DEF Inserting
  <2> QED
    BY <2>6, <2>7
<1>3. ASSUME NEW u \in Tables
      PROVE  Accepted(u) = Ids(source, u)
  <2>1. Ids(source, u) \cap Ids(target, u) = {}
    BY <1>1 DEF Apart
  <2> QED
    BY <1>2, <2>1 DEF Accepted
<1>4. ASSUME NEW u \in Tables
      PROVE  Merged(u) = [i \in Ids(target, u) \cup Ids(source, u) |->
                            IF i \in Ids(source, u) THEN Rows(source, u)[i] ELSE Rows(target, u)[i]]
  <2>1. PICK replaced : replaced = IF u # "reaction" THEN {}
                                   ELSE UNION {Clashes(u, Rows(source, u)[i]) : i \in Accepted(u)}
    OBVIOUS
  <2>2. replaced = {}
    BY <1>2, <1>3, <2>1
  <2>3. Merged(u) = [i \in (Ids(target, u) \ replaced) \cup Accepted(u) |->
                       IF i \in Accepted(u) THEN Rows(source, u)[i] ELSE Rows(target, u)[i]]
    BY <2>1 DEF Merged
  <2>4. Ids(target, u) \ replaced = Ids(target, u)
    BY <2>2
  <2> QED
    BY <1>3, <2>3, <2>4
<1>5. [u \in Tables |-> Merged(u)]
        = [u \in Tables |-> [i \in Ids(target, u) \cup Ids(source, u) |->
                               IF i \in Ids(source, u) THEN Rows(source, u)[i] ELSE Rows(target, u)[i]]]
  BY <1>4
<1> QED
  BY <1>5 DEF Insert, Joined

-----------------------------------------------------------------------------
LEMMA FactsAreRecords ==
  ASSUME NEW b
  PROVE  Facts(b) = [k \in {"thread", "message", "attachment", "recipient", "reaction", "membership",
                            "data", "avatar"} |-> Facts(b)[k]]
BY DEF Facts

LEMMA DataApart ==
  ASSUME NEW b, NEW s, Coming(b, s), HaveRows(b)
  PROVE  DOMAIN s.d_attachments \cap DOMAIN b.d_attachments = {}
<1>1. "attachment" \in Tables
  BY DEF Tables
<1> QED
  BY <1>1 DEF Coming, Apart, FramesAcross, HaveRows

(* The union of the facts is what the import promises.                            *)
LEMMA JoinedSays ==
  ASSUME NEW b, NEW s, NEW p, Coming(b, s), RefersWithin(b), HaveRows(b), Brought(b, s, p),
         NEW j, j = Joined(b, s)
  PROVE  Facts(j) = Merge!With(Facts(b), p, SaysAvatars(b, s)) /\ SaysAvatars(b, s) \subseteq p.avatar
<1>1. /\ \A u \in Tables : FactsOf(j, u) = FactsOf(b, u) \cup p[Kind(u)]
      /\ Facts(j).data = Facts(b).data \cup p.data
      /\ Facts(j).avatar = Facts(b).avatar \cup SaysAvatars(b, s)
  <2>1. Apart(b, s) /\ DOMAIN s.d_attachments \cap DOMAIN b.d_attachments = {}
    BY DataApart DEF Coming
  <2> QED
    BY <2>1, JoinedFacts
<1>2. PICK K : K = {"thread", "message", "attachment", "recipient", "reaction", "membership",
                    "data", "avatar"}
  OBVIOUS
<1>3. \A u \in Tables : Facts(j)[Kind(u)] = Facts(b)[Kind(u)] \cup p[Kind(u)]
  BY <1>1, FactsByTable
<1>4. \A k \in K \ {"data", "avatar"} : \E u \in Tables : k = Kind(u)
  BY <1>2 DEF Tables, Kind
<1>5. \A k \in K : Facts(j)[k] = Facts(b)[k] \cup IF k = "avatar" THEN SaysAvatars(b, s) ELSE p[k]
  <2> SUFFICES ASSUME NEW k \in K
               PROVE  Facts(j)[k] = Facts(b)[k] \cup IF k = "avatar" THEN SaysAvatars(b, s) ELSE p[k]
    OBVIOUS
  <2>1. CASE k \notin {"data", "avatar"}
    BY <1>3, <1>4, <2>1
  <2>2. CASE k = "data"
    BY <1>1, <2>2
  <2>3. CASE k = "avatar"
    BY <1>1, <2>3
  <2> QED
    BY <2>1, <2>2, <2>3
<1>6. Facts(j) = [k \in K |-> Facts(j)[k]] /\ Facts(b) = [k \in K |-> Facts(b)[k]]
  BY <1>2, FactsAreRecords
<1>7. DOMAIN Facts(b) = K
  BY <1>6
<1>8. Merge!With(Facts(b), p, SaysAvatars(b, s))
        = [k \in K |-> Facts(b)[k] \cup IF k = "avatar" THEN SaysAvatars(b, s) ELSE p[k]]
  BY <1>7 DEF Merge!With
<1>9. Facts(j) = Merge!With(Facts(b), p, SaysAvatars(b, s))
  BY <1>5, <1>6, <1>8
<1> QED
  BY <1>9 DEF Brought

-----------------------------------------------------------------------------
(* The two together are a backup that the next thread can be imported into.       *)
LEMMA JoinedInto ==
  ASSUME NEW b, NEW s, NEW x, NEW h, ImportedInto(b, x), Importable(x), Coming(b, s),
         Brought(b, s, PartOf(x, h)), Contents(s, "recipient") \subseteq Contents(x, "recipient"),
         \A u \in Tables : KeysApart(b, s, u), NEW t, Inserting(b, s, t),
         NEW j, j = Joined(b, s)
  PROVE  ImportedInto(j, x)
<1>1. /\ "thread" \in Tables /\ "recipient" \in Tables /\ "attachment" \in Tables
  BY DEF Tables
<1>2. Apart(b, s) /\ RefersWithin(b) /\ HaveRows(b) /\ RowsOk(b) /\ RowsOk(s)
  BY DEF Coming, ImportedInto
<1>3. \A u \in Tables :
         /\ Ids(j, u) = Ids(b, u) \cup Ids(s, u)
         /\ \A i \in Ids(s, u) : Rows(j, u)[i] = Rows(s, u)[i]
         /\ \A i \in Ids(b, u) : Rows(j, u)[i] = Rows(b, u)[i]
  BY <1>2, JoinedRows
<1>4. \A u \in Tables : Contents(j, u) = Contents(b, u) \cup Contents(s, u)
  BY <1>2, JoinedRows
<1>5. BackupOk(j)
  <2>1. /\ j = [d_database |-> j.d_database, d_attachments |-> j.d_attachments, d_avatars |-> j.d_avatars]
        /\ DOMAIN j.d_database = Tables
    BY DEF Joined
  <2>2. \A u \in Tables : Ids(j, u) \subseteq Nat \ {0}
    BY <1>2, <1>3 DEF Apart, BackupOk
  <2> QED
    BY <2>1, <2>2 DEF BackupOk
<1>6. RowsOk(j)
  <2> SUFFICES ASSUME NEW u \in Tables, NEW k \in Ids(j, u), NEW l \in Ids(j, u)
               PROVE  /\ ColumnsOf(u) \subseteq DOMAIN Rows(j, u)[k]
                      /\ UniqueColumns(u) # {} /\ Key(u, Rows(j, u)[k]) = Key(u, Rows(j, u)[l]) => k = l
    BY DEF RowsOk
  <2>1. ColumnsOf(u) \subseteq DOMAIN Rows(j, u)[k]
    BY <1>2, <1>3 DEF RowsOk
  <2>2. ASSUME UniqueColumns(u) # {}, Key(u, Rows(j, u)[k]) = Key(u, Rows(j, u)[l])
        PROVE  k = l
    <3>1. CASE k \in Ids(b, u) /\ l \in Ids(b, u)
      BY <1>2, <1>3, <2>2, <3>1 DEF RowsOk
    <3>2. CASE k \in Ids(s, u) /\ l \in Ids(s, u)
      BY <1>2, <1>3, <2>2, <3>2 DEF RowsOk
    <3>3. CASE k \in Ids(b, u) /\ l \in Ids(s, u)
      BY <1>3, <2>2, <3>3 DEF KeysApart
    <3>4. CASE k \in Ids(s, u) /\ l \in Ids(b, u)
      BY <1>3, <2>2, <3>4 DEF KeysApart
    <3> QED
      BY <1>3, <3>1, <3>2, <3>3, <3>4
  <2> QED
    BY <2>1, <2>2
<1>7. RefersWithin(j)
  <2> SUFFICES ASSUME NEW v \in Tables, NEW c \in ConnectionsTo(v), NEW row \in Contents(j, c.table)
               PROVE  row[c.column] \in Ids(j, v) \cup {NULL}
    BY DEF RefersWithin
  <2>1. PICK u, y : u = c.table /\ y = c.column
    OBVIOUS
  <2>2. Follows(v, u, y)
    BY <2>1 DEF Follows
  <2>3. u \in Tables
    BY <2>2, FollowsOne
  <2>4. CASE row \in Contents(b, u)
    <3>1. row[y] \in Ids(b, v) \cup {NULL}
      BY <1>2, <2>1, <2>4 DEF RefersWithin
    <3> QED
      BY <1>3, <2>1, <3>1
  <2>5. CASE row \in Contents(s, u)
    <3>1. PICK k \in Ids(s, u) : row = Rows(s, u)[k]
      BY <2>5 DEF Contents, Range, Ids
    <3>2. row[y] \in Ids(b, v) \cup Ids(s, v) \cup {NULL}
      BY <2>2, <2>3, <3>1 DEF Coming, RefersAcross
    <3> QED
      BY <1>3, <2>1, <3>2
  <2> QED
    BY <1>4, <2>1, <2>3, <2>4, <2>5
<1>8. HaveRows(j)
  <2>1. /\ DOMAIN j.d_attachments = DOMAIN b.d_attachments \cup DOMAIN s.d_attachments
        /\ j.d_avatars = b.d_avatars \cup s.d_avatars
    BY DEF Joined
  <2>2. DOMAIN j.d_attachments \subseteq Ids(j, "attachment")
    BY <1>1, <1>2, <1>3, <2>1 DEF HaveRows, Coming, FramesAcross
  <2>3. \A a \in j.d_avatars : a.recipient \in Ids(j, "recipient")
    BY <1>1, <1>2, <1>3, <2>1 DEF HaveRows, Coming, FramesAcross
  <2> QED
    BY <2>2, <2>3 DEF HaveRows
<1>9. UniqueNames(j, "recipient")
  <2> SUFFICES ASSUME NEW k \in Ids(j, "recipient"), NEW l \in Ids(j, "recipient"),
                      Rows(j, "recipient")[k].who = Rows(j, "recipient")[l].who
               PROVE  k = l
    BY DEF UniqueNames
  <2>1. CASE k \in Ids(b, "recipient") /\ l \in Ids(b, "recipient")
    BY <1>1, <1>3, <2>1 DEF ImportedInto, UniqueNames
  <2>2. CASE k \in Ids(s, "recipient") /\ l \in Ids(s, "recipient")
    BY <1>1, <1>3, <2>2 DEF Coming, UniqueNames
  <2>3. CASE k \in Ids(b, "recipient") /\ l \in Ids(s, "recipient")
    BY <1>1, <1>3, <2>3 DEF Inserting
  <2>4. CASE k \in Ids(s, "recipient") /\ l \in Ids(b, "recipient")
    BY <1>1, <1>3, <2>4 DEF Inserting
  <2> QED
    BY <1>1, <1>3, <2>1, <2>2, <2>3, <2>4
<1>10. ThreadsNamed(j)
  <2> SUFFICES ASSUME NEW f \in Facts(j).thread
               PROVE  f.who = f.recipient
    BY DEF ThreadsNamed
  <2>1. PICK u : u = "thread"
    OBVIOUS
  <2>2. u \in Tables /\ Kind(u) = "thread"
    BY <1>1, <2>1 DEF Kind
  <2>3. FactsOf(j, u) = FactsOf(b, u) \cup PartOf(x, h)[Kind(u)]
    <3>1. DOMAIN s.d_attachments \cap DOMAIN b.d_attachments = {}
      BY <1>2, DataApart
    <3> QED
      BY <1>2, <2>2, <3>1, JoinedFacts
  <2>4. f \in Facts(b).thread \/ f \in PartOf(x, h).thread
    BY <2>2, <2>3, FactsByTable
  <2>5. PartOf(x, h).thread \subseteq Facts(x).thread
    BY DEF PartOf, Merge!Part
  <2> QED
    BY <2>4, <2>5 DEF ImportedInto, Importable, ThreadsNamed
<1>11. KnownApart(j, x)
  <2>1. Contents(j, "recipient") \cup Contents(x, "recipient")
          = Contents(b, "recipient") \cup Contents(x, "recipient")
    BY <1>1, <1>4
  <2>2. KnownApart(b, x)
    BY DEF ImportedInto
  <2> QED
    BY <2>1, <2>2 DEF KnownApart
<1> QED
  BY <1>5, <1>6, <1>7, <1>8, <1>9, <1>10, <1>11 DEF ImportedInto

-----------------------------------------------------------------------------
(* The list of threads *)

(* The names of the threads of a list.                                           *)
NamesOf(b, list) == [i \in DOMAIN list |-> IF list[i] \in Ids(b, "thread") THEN Rows(b, "thread")[list[i]].who
                                                                          ELSE "no thread"]

LEMMA LeftIs ==
  Left = NamesOf(src, IF pc = "check" THEN Tail(threads) ELSE threads)
BY DEF Left, NamesOf, ThreadName

LEMMA NamesOfTail ==
  ASSUME NEW b, NEW list \in Seq(Int), list # <<>>
  PROVE  /\ NamesOf(b, Tail(list)) = Tail(NamesOf(b, list))
         /\ NamesOf(b, list) # <<>>
         /\ Head(NamesOf(b, list)) = IF Head(list) \in Ids(b, "thread") THEN Rows(b, "thread")[Head(list)].who
                                                                        ELSE "no thread"
         /\ DOMAIN NamesOf(b, list) = DOMAIN list
         /\ 1 \in DOMAIN list /\ list[1] = Head(list)
         /\ \A i \in DOMAIN Tail(list) : i + 1 \in DOMAIN list /\ Tail(list)[i] = list[i + 1] /\ i + 1 # 1
<1>1. PICK n : n = Len(list)
  OBVIOUS
<1>2. n \in Nat \ {0} /\ DOMAIN list = 1 .. n /\ Head(list) = list[1]
  BY <1>1
<1>3. DOMAIN Tail(list) = 1 .. n - 1 /\ \A i \in 1 .. n - 1 : Tail(list)[i] = list[i + 1]
  BY <1>1, <1>2
<1>4. PICK S : S = {NamesOf(b, list)[i] : i \in 1 .. n}
  OBVIOUS
<1>5. PICK q : q = NamesOf(b, list)
  OBVIOUS
<1>6. q \in Seq(S) /\ Len(q) = n /\ DOMAIN q = 1 .. n
  <2>1. q = [i \in 1 .. n |-> q[i]] /\ \A i \in 1 .. n : q[i] \in S
    BY <1>2, <1>4, <1>5 DEF NamesOf
  <2>2. q \in [1 .. n -> S]
    BY <2>1
  <2> QED
    BY <1>2, <2>2
<1>7. DOMAIN Tail(q) = 1 .. n - 1 /\ \A i \in 1 .. n - 1 : Tail(q)[i] = q[i + 1]
  BY <1>2, <1>6
<1>8. Tail(q) = [i \in 1 .. n - 1 |-> q[i + 1]]
  <2>1. Tail(q) \in Seq(S) /\ Len(Tail(q)) = n - 1
    BY <1>2, <1>6
  <2>2. PICK w \in Seq(S) : w = Tail(q)
    BY <2>1
  <2>3. w \in [1 .. Len(w) -> S]
    OBVIOUS
  <2>4. w = [i \in 1 .. n - 1 |-> w[i]]
    BY <2>1, <2>2, <2>3
  <2> QED
    BY <1>7, <2>2, <2>4
<1>9. NamesOf(b, Tail(list)) = [i \in 1 .. n - 1 |-> q[i + 1]]
  <2>1. \A i \in 1 .. n - 1 : i + 1 \in DOMAIN list
    BY <1>2
  <2>2. \A i \in 1 .. n - 1 : q[i + 1] = IF Tail(list)[i] \in Ids(b, "thread") THEN Rows(b, "thread")[Tail(list)[i]].who
                                                                         ELSE "no thread"
    BY <1>3, <1>5, <2>1 DEF NamesOf
  <2> QED
    BY <1>3, <2>2 DEF NamesOf
<1>10. q # <<>> /\ Head(q) = q[1]
  BY <1>2, <1>6
<1>11. q[1] = IF list[1] \in Ids(b, "thread") THEN Rows(b, "thread")[list[1]].who ELSE "no thread"
  <2>1. 1 \in DOMAIN list
    BY <1>2
  <2> QED
    BY <1>5, <2>1 DEF NamesOf
<1>12. \A i \in DOMAIN Tail(list) : i + 1 \in DOMAIN list /\ Tail(list)[i] = list[i + 1] /\ i + 1 # 1
  BY <1>2, <1>3
<1>13. DOMAIN NamesOf(b, list) = DOMAIN list
  BY DEF NamesOf
<1>14. 1 \in DOMAIN list /\ list[1] = Head(list)
  BY <1>2
<1>15. NamesOf(b, Tail(list)) = Tail(NamesOf(b, list))
  BY <1>5, <1>8, <1>9
<1>16. NamesOf(b, list) # <<>>
  BY <1>5, <1>10
<1>17. Head(NamesOf(b, list)) = IF Head(list) \in Ids(b, "thread") THEN Rows(b, "thread")[Head(list)].who
                                                                     ELSE "no thread"
  BY <1>2, <1>5, <1>10, <1>11
<1> QED
  BY <1>12, <1>13, <1>14, <1>15, <1>16, <1>17

-----------------------------------------------------------------------------
(* A step leaves the list of threads as it is, for the abstract specification, or  *)
(* takes the first from it.                                                      *)
LEMMA LeftStays ==
  ASSUME MainOk,
         \/ Crop \/ MakeUnique \/ SetThread \/ MatchRecipient \/ DropExisting \/ checkDbIntegrity
         \/ ReorderDown \/ ReorderUp \/ UNCHANGED vars
  PROVE  Left' = Left /\ src' = src /\ compatible' = compatible
<1>1. src' = src /\ compatible' = compatible
  BY DEF Crop, MakeUnique, SetThread, MatchRecipient, DropExisting, checkDbIntegrity, ReorderDown, ReorderUp,
         vars, mainVars
<1>2. (IF pc = "check" THEN Tail(threads) ELSE threads)' = IF pc = "check" THEN Tail(threads) ELSE threads
  <2>1. CASE checkDbIntegrity
    <3>1. pc = "check" /\ threads' = Tail(threads) /\ pc' # "check"
      BY <2>1 DEF checkDbIntegrity, Return
    <3> QED
      BY <3>1
  <2>2. CASE UNCHANGED vars
    BY <2>2 DEF vars, mainVars
  <2>3. CASE MakeUnique
    BY <2>3 DEF MakeUnique, mainVars
  <2>4. CASE Crop \/ SetThread \/ MatchRecipient \/ DropExisting \/ ReorderDown \/ ReorderUp
    <3>1. threads' = threads /\ pc # "check" /\ pc' # "check"
      BY <2>4 DEF Crop, SetThread, MatchRecipient, DropExisting, ReorderDown, ReorderUp
    <3> QED
      BY <3>1
  <2> QED
    BY <2>1, <2>2, <2>3, <2>4
<1>3. PICK list : list = IF pc = "check" THEN Tail(threads) ELSE threads
  OBVIOUS
<1>4. Left = NamesOf(src, list) /\ Left' = NamesOf(src, list)
  <2>1. Left' = NamesOf(src, IF pc = "check" THEN Tail(threads) ELSE threads)'
    BY DEF Left, NamesOf, ThreadName
  <2>2. NamesOf(src, IF pc = "check" THEN Tail(threads) ELSE threads)' = NamesOf(src, list)
    BY <1>1, <1>2, <1>3 DEF NamesOf
  <2> QED
    BY <1>3, <2>1, <2>2, LeftIs
<1> QED
  BY <1>1, <1>4

LEMMA LeftGoesOn ==
  ASSUME MainOk, Incompatible \/ SkipThread \/ Insert
  PROVE  /\ Left # <<>> /\ Left' = Tail(Left) /\ src' = src /\ compatible' = compatible
         /\ Head(Left) = IF thread \in Ids(src, "thread") THEN Rows(src, "thread")[thread].who ELSE "no thread"
         /\ \A i \in DOMAIN Left' : i + 1 \in DOMAIN Left /\ Left'[i] = Left[i + 1]
         /\ 1 \in DOMAIN Left /\ Left[1] = Head(Left)
<1>1. /\ pc # "check" /\ threads # <<>> /\ threads \in Seq(Int)
      /\ (IF pc = "check" THEN Tail(threads) ELSE threads)' = Tail(threads)
      /\ src' = src /\ compatible' = compatible
  BY DEF MainOk, Incompatible, SkipThread, Insert, Return
<1>2. PICK list : list = threads
  OBVIOUS
<1>3. Left = NamesOf(src, list)
  BY <1>1, <1>2, LeftIs
<1>4. Left' = NamesOf(src, Tail(list))
  <2>1. Left' = NamesOf(src, IF pc = "check" THEN Tail(threads) ELSE threads)'
    BY DEF Left, NamesOf, ThreadName
  <2>2. NamesOf(src, IF pc = "check" THEN Tail(threads) ELSE threads)' = NamesOf(src, Tail(list))
    BY <1>1, <1>2 DEF NamesOf
  <2> QED
    BY <2>1, <2>2
<1>5. /\ NamesOf(src, Tail(list)) = Tail(NamesOf(src, list)) /\ NamesOf(src, list) # <<>>
      /\ Head(NamesOf(src, list)) = IF Head(list) \in Ids(src, "thread") THEN Rows(src, "thread")[Head(list)].who
                                                                         ELSE "no thread"
      /\ DOMAIN NamesOf(src, list) = DOMAIN list /\ 1 \in DOMAIN list /\ list[1] = Head(list)
      /\ \A i \in DOMAIN Tail(list) : i + 1 \in DOMAIN list /\ Tail(list)[i] = list[i + 1]
  BY <1>1, <1>2, NamesOfTail
<1>6. DOMAIN NamesOf(src, Tail(list)) = DOMAIN Tail(list)
  BY DEF NamesOf
<1>7. \A i \in DOMAIN Tail(list) : NamesOf(src, Tail(list))[i] = NamesOf(src, list)[i + 1]
  BY <1>5 DEF NamesOf
<1>8. NamesOf(src, list)[1] = Head(NamesOf(src, list))
  BY <1>5 DEF NamesOf
<1> QED
  BY <1>1, <1>2, <1>3, <1>4, <1>5, <1>6, <1>7, <1>8 DEF thread

-----------------------------------------------------------------------------
(* The copy while it is renumbered *)

(* The rows of recipients move as they are: all by the same distance, or not.      *)
RecipientsMove(b, c) ==
  \E d \in Int : \A k \in Ids(c, "recipient") :
     k - d \in Ids(b, "recipient") /\ Rows(c, "recipient")[k] = Rows(b, "recipient")[k - d]

LEMMA NoRecipientColumns ==
  /\ \A t \in Tables : {c.column : c \in {d \in ConnectionsTo(t) : d.table = "recipient"}} = {}
  /\ at \in 1 .. 6 => ConnectionIn("recipient") = {}
<1>1. \A t \in Tables : \A x : ~ Follows(t, "recipient", x)
  BY FollowsAre
<1>2. \A t \in Tables : \A d \in ConnectionsTo(t) : d.table # "recipient"
  BY <1>1 DEF Follows
<1>3. ASSUME at \in 1 .. 6 PROVE ConnectionIn("recipient") = {}
  <2>1. Link.connections = ConnectionsTo(Link.table) /\ Link.table \in Tables
    BY <1>3, LinksOfTable, LinkTables DEF Link
  <2> QED
    BY <1>2, <2>1 DEF ConnectionIn
<1> QED
  BY <1>2, <1>3

LEMMA MakeUniqueMoves ==
  ASSUME IInv, FramesInv, MakeUnique
  PROVE  RecipientsMove(source, source')
<1>1. pc = "unique" /\ BackupOk(source) /\ "recipient" \in Tables
  BY DEF MakeUnique, IInv, Tables
<1>2. ASSUME Rows(source', "recipient") = Rows(source, "recipient")
      PROVE  RecipientsMove(source, source')
  <2>1. \A k \in Ids(source', "recipient") : k \in Ids(source, "recipient") /\ k \in Int
    BY <1>1, <1>2 DEF Ids, BackupOk
  <2>2. \A k \in Ids(source', "recipient") : k - 0 \in Ids(source, "recipient")
                                             /\ Rows(source', "recipient")[k] = Rows(source, "recipient")[k - 0]
    BY <1>2, <2>1
  <2> QED
    BY <2>2 DEF RecipientsMove
<1>3. CASE SkipTable \/ Compacted
  <2>1. source' = source
    BY <1>3 DEF SkipTable, Compacted
  <2> QED
    BY <1>2, <2>1
<1>4. CASE ShiftTable
  <2>1. at \in 1 .. 6 /\ Link.table \in Tables
    BY <1>4, LinkTables DEF ShiftTable, IInv, Link
  <2>2. PICK offset \in Int :
           /\ source' = [d_database    |-> ShiftedTables(offset),
                         d_attachments |-> ShiftedAttachments(offset),
                         d_avatars     |-> updateAvatars(offset)]
           /\ \A i \in Ids(source, Link.table) : i + offset \in Nat \ {0}
    BY <1>1, <1>4, ShiftKeepsNamed
  <2>3. Rows(source', "recipient") = IF Link.table = "recipient" THEN setMinimumId(Rows(source, "recipient"), offset)
                                                                ELSE Rows(source, "recipient")
    <3>1. ConnectionIn("recipient") = {}
      BY <2>1, NoRecipientColumns
    <3>2. Rows(source', "recipient") = ShiftedTables(offset)["recipient"]
      BY <2>2 DEF Rows
    <3> QED
      BY <1>1, <3>1, <3>2 DEF ShiftedTables
  <2>4. CASE Link.table # "recipient"
    BY <1>2, <2>3, <2>4
  <2>5. CASE Link.table = "recipient"
    <3>1. PICK rows : rows = Rows(source, "recipient")
      OBVIOUS
    <3>2. DOMAIN rows \subseteq Nat \ {0} /\ \A i \in DOMAIN rows : i + offset > 0
      BY <1>1, <2>2, <2>5, <3>1 DEF BackupOk, Ids
    <3>3. DOMAIN setMinimumId(rows, offset) = {i + offset : i \in DOMAIN rows}
      BY <3>2, MinimumIdDomain
    <3>4. \A i \in DOMAIN rows : setMinimumId(rows, offset)[i + offset] = rows[i]
      BY <3>2, MinimumIdRows
    <3>5. PICK new : new = setMinimumId(rows, offset)
      OBVIOUS
    <3>6. \A k \in DOMAIN new : k - offset \in DOMAIN rows /\ new[k] = rows[k - offset]
      <4> SUFFICES ASSUME NEW k \in DOMAIN new
                   PROVE  k - offset \in DOMAIN rows /\ new[k] = rows[k - offset]
        OBVIOUS
      <4>1. PICK i \in DOMAIN rows : k = i + offset
        BY <3>3, <3>5
      <4>2. k - offset = i
        BY <3>2, <4>1
      <4> QED
        BY <3>4, <3>5, <4>1, <4>2
    <3>7. Rows(source', "recipient") = new
      BY <2>3, <2>5, <3>1, <3>5
    <3> QED
      BY <3>1, <3>6, <3>7 DEF RecipientsMove, Ids
  <2> QED
    BY <2>4, <2>5
<1>5. CASE CloseGap
  <2>1. compacting /\ at \in 1 .. 6 /\ Link.compact
    BY <1>5, LinkTables DEF CloseGap, IInv, FramesInv
  <2>2. Link.table # "recipient" /\ Link.table \in Tables
    <3>1. s_databaselinks[4].compact = FALSE /\ s_databaselinks[4].table = "recipient"
      BY DEF s_databaselinks
    <3>2. /\ s_databaselinks[1].table = "thread" /\ s_databaselinks[2].table = "message"
          /\ s_databaselinks[3].table = "attachment"
          /\ s_databaselinks[5].table = "reaction" /\ s_databaselinks[6].table = "group_membership"
      BY DEF s_databaselinks
    <3>3. at = 1 \/ at = 2 \/ at = 3 \/ at = 4 \/ at = 5 \/ at = 6
      BY <2>1
    <3> QED
      BY <2>1, <3>1, <3>2, <3>3 DEF Link, Tables
  <2>3. PICK g \in Gaps(Ids(source, Link.table)) :
          source' = [source EXCEPT !.d_database = CompactedTables(g[1], g[2]),
                                   !.d_attachments = CompactedAttachments(g[1], g[2])]
    BY <1>5 DEF CloseGap
  <2>4. Rows(source', "recipient") = CompactedTables(g[1], g[2])["recipient"]
    BY <1>1, <2>3 DEF Rows, BackupOk
  <2>5. PICK rows : rows = Rekey(Rows(source, Link.table), LAMBDA i : Renamed(i, g[1], g[2]))
    OBVIOUS
  <2>6. PICK tables : tables = [source.d_database EXCEPT ![Link.table] = rows]
    OBVIOUS
  <2>7. CompactedTables(g[1], g[2]) = Redirected(tables, Link.table, g[1], g[2])
    BY <2>5, <2>6 DEF CompactedTables
  <2>8. Redirected(tables, Link.table, g[1], g[2])["recipient"] = tables["recipient"]
    BY <1>1, <2>2, NoRecipientColumns DEF Redirected
  <2>9. tables["recipient"] = Rows(source, "recipient")
    BY <1>1, <2>2, <2>6 DEF Rows, BackupOk
  <2> QED
    BY <1>2, <2>4, <2>7, <2>8, <2>9
<1> QED
  BY <1>3, <1>4, <1>5 DEF MakeUnique, makeIdsUnique

-----------------------------------------------------------------------------
LEMMA MakeUniqueKeepsCopy ==
  ASSUME IInv, FramesInv, CopyInv, MakeUnique
  PROVE  CopyInv'
<1>1. PICK d \in Int : \A k \in Ids(source', "recipient") :
         k - d \in Ids(source, "recipient") /\ Rows(source', "recipient")[k] = Rows(source, "recipient")[k - d]
  BY MakeUniqueMoves DEF RecipientsMove
<1>2. target' = target /\ src' = src /\ threads' = threads /\ targetthread' = targetthread
  BY DEF MakeUnique, mainVars, makeIdsUnique, SkipTable, ShiftTable, CloseGap, Compacted
<1>3. Contents(source', "recipient") \subseteq Contents(source, "recipient")
  BY <1>1 DEF Contents, Range, Ids
<1>4. UniqueNames(source', "recipient")
  <2> SUFFICES ASSUME NEW k \in Ids(source', "recipient"), NEW l \in Ids(source', "recipient"),
                      Rows(source', "recipient")[k].who = Rows(source', "recipient")[l].who
               PROVE  k = l
    BY DEF UniqueNames
  <2>1. k - d = l - d
    BY <1>1 DEF CopyInv, UniqueNames
  <2>2. k \in Int /\ l \in Int
    <3>1. BackupOk(source')
      <4>1. pc = "unique" /\ UNCHANGED mainVars
        BY DEF MakeUnique
      <4>2. IInv'
        BY MakeUniquePreserves
      <4> QED
        BY <4>2 DEF IInv
    <3>2. "recipient" \in Tables
      BY DEF Tables
    <3> QED
      BY <3>1, <3>2 DEF BackupOk
  <2> QED
    BY <2>1, <2>2
<1>5. thread' = thread /\ FoundThread' = FoundThread
  <2>1. thread' = thread
    BY <1>2 DEF thread
  <2> QED
    BY <1>2, <2>1 DEF FoundThread, Candidates, getThreadIdFromRecipient
<1> QED
  BY <1>2, <1>3, <1>4, <1>5 DEF CopyInv

LEMMA CropStartsCopy ==
  ASSUME Importable(src), Crop
  PROVE  CopyInv'
<1>1. /\ target' = target /\ src' = src /\ threads' = threads /\ targetthread' = FoundThread
      /\ thread \in Ids(src, "thread") /\ source' = CropToThread(src, thread)
  BY DEF Crop
<1>2. \A i \in Ids(source', "recipient") :
         i \in Ids(src, "recipient") /\ Rows(source', "recipient")[i] = Rows(src, "recipient")[i]
  <2>1. "recipient" \in Tables
    BY DEF Tables
  <2> QED
    BY <1>1, <2>1, CropRows
<1>3. Contents(source', "recipient") \subseteq Contents(src, "recipient")
  BY <1>2 DEF Contents, Range, Ids
<1>4. UniqueNames(source', "recipient")
  <2>1. UniqueNames(src, "recipient")
    BY DEF Importable, RowsNamed, NamesApart
  <2> QED
    BY <1>2, <2>1 DEF UniqueNames
<1>5. thread' = thread /\ FoundThread' = FoundThread
  <2>1. thread' = thread
    BY <1>1 DEF thread
  <2> QED
    BY <1>1, <2>1 DEF FoundThread, Candidates, getThreadIdFromRecipient
<1> QED
  BY <1>1, <1>3, <1>4, <1>5 DEF CopyInv

-----------------------------------------------------------------------------
(* Reordering *)

(* The messages of b are numbered by f in c, and what the facts are made of has    *)
(* followed; the snippets may have stayed behind.                                *)
ReorderedRows(b, c, f, u) ==
  /\ \A k : k \in Ids(c, u) <=> \E i \in Ids(b, u) : k = Goes("message", f, u, i)
  /\ \A i \in Ids(b, u) : \A x \in Told(u) :
       /\ Follows("message", u, x) => Rows(b, u)[i][x] \in Ids(b, "message") \cup {NULL}
       /\ Rows(c, u)[Goes("message", f, u, i)][x]
            = IF Follows("message", u, x) THEN f[Rows(b, u)[i][x]] ELSE Rows(b, u)[i][x]

Reordered(b, c, f) ==
  /\ c.d_attachments = b.d_attachments /\ c.d_avatars = b.d_avatars
  /\ NULL \notin Ids(b, "message") /\ Injects(f, Ids(b, "message"))
  /\ \A u \in Tables : ReorderedRows(b, c, f, u)

LEMMA ReorderedNames ==
  ASSUME NEW b, NEW c, NEW f, Reordered(b, c, f),
         NEW v \in {"thread", "message", "attachment", "recipient"},
         NEW y, v = "message" => y \in Ids(b, "message") \cup {NULL}
  PROVE  Name(c, v, Goes("message", f, v, y)) = Name(b, v, y)
<1>1. v \in Tables /\ "message" \in Tables /\ "who" \in Told(v)
  BY DEF Tables, Told
<1>2. ~ Follows("message", v, "who")
  BY <1>1, FollowsOne
<1>3. \A i \in Ids(b, v) : /\ Goes("message", f, v, i) \in Ids(c, v)
                           /\ Rows(c, v)[Goes("message", f, v, i)]["who"] = Rows(b, v)[i]["who"]
  BY <1>1, <1>2 DEF Reordered, ReorderedRows
<1>4. CASE v # "message"
  <2>1. Goes("message", f, v, y) = y /\ \A i : Goes("message", f, v, i) = i
    BY <1>4 DEF Goes
  <2>2. y \in Ids(c, v) <=> y \in Ids(b, v)
    BY <1>1, <2>1 DEF Reordered, ReorderedRows
  <2>3. y \in Ids(b, v) => Rows(c, v)[y]["who"] = Rows(b, v)[y]["who"]
    BY <1>3, <2>1
  <2> QED
    BY <2>1, <2>2, <2>3 DEF Name
<1>5. CASE v = "message"
  <2>1. Goes("message", f, v, y) = f[y]
    BY <1>5 DEF Goes
  <2>2. CASE y = NULL
    BY <2>1, <2>2 DEF Reordered, Injects, Name
  <2>3. CASE y \in Ids(b, "message")
    <3>1. y # NULL /\ f[y] # NULL
      BY <2>3 DEF Reordered, Injects
    <3>2. f[y] \in Ids(c, v) /\ Rows(c, v)[f[y]]["who"] = Rows(b, v)[y]["who"]
      BY <1>3, <1>5, <2>1, <2>3
    <3> QED
      BY <1>5, <2>1, <2>3, <3>1, <3>2 DEF Name
  <2> QED
    BY <1>5, <2>2, <2>3
<1> QED
  BY <1>4, <1>5

LEMMA ReorderedSays ==
  ASSUME NEW b, NEW c, NEW f, Reordered(b, c, f), NEW u \in Tables, NEW i \in Ids(b, u)
  PROVE  Fact(c, u, Rows(c, u)[Goes("message", f, u, i)]) = Fact(b, u, Rows(b, u)[i])
<1>1. PICK r, q : r = Rows(c, u)[Goes("message", f, u, i)] /\ q = Rows(b, u)[i]
  OBVIOUS
<1>2. "message" \in Tables
  BY DEF Tables
<1>3. \A x \in Told(u) :
         /\ Follows("message", u, x) => q[x] \in Ids(b, "message") \cup {NULL}
         /\ r[x] = IF Follows("message", u, x) THEN f[q[x]] ELSE q[x]
  BY <1>1 DEF Reordered, ReorderedRows
<1>4. ASSUME NEW x \in Told(u), NEW v \in Tables, Follows(v, u, x)
      PROVE  Name(c, v, r[x]) = Name(b, v, q[x])
  <2>1. v \in {"thread", "message", "attachment", "recipient"}
    BY <1>4, FollowsAre DEF Tables
  <2>2. CASE v = "message"
    <3>1. r[x] = Goes("message", f, v, q[x]) /\ q[x] \in Ids(b, "message") \cup {NULL}
      BY <1>3, <1>4, <2>2 DEF Goes
    <3> QED
      BY <2>1, <3>1, ReorderedNames
  <2>3. CASE v # "message"
    <3>1. ~ Follows("message", u, x)
      BY <1>2, <1>4, <2>3, FollowsOne
    <3>2. r[x] = q[x] /\ Goes("message", f, v, q[x]) = q[x]
      BY <1>3, <2>3, <3>1 DEF Goes
    <3> QED
      BY <2>1, <2>3, <3>2, ReorderedNames
  <2> QED
    BY <2>2, <2>3
<1>5. ASSUME NEW x \in Told(u), \A v \in Tables : ~ Follows(v, u, x)
      PROVE  r[x] = q[x]
  BY <1>2, <1>3, <1>5
<1>6. SaysTheSame(c, r, b, q, u)
  BY <1>4, <1>5 DEF SaysTheSame
<1> QED
  BY <1>1, <1>6, SameFact

(* Reordering changes no fact.                                                   *)
LEMMA ReorderedFacts ==
  ASSUME NEW b, NEW c, NEW f, Reordered(b, c, f)
  PROVE  Facts(c) = Facts(b)
<1>1. ASSUME NEW u \in Tables
      PROVE  FactsOf(c, u) = FactsOf(b, u)
  <2>1. \A k : k \in Ids(c, u) <=> \E i \in Ids(b, u) : k = Goes("message", f, u, i)
    BY DEF Reordered, ReorderedRows
  <2>2. \A e : e \in FactsOf(c, u) <=> \E k \in Ids(c, u) : e = Fact(c, u, Rows(c, u)[k])
    BY DEF FactsOf, Contents, Range, Ids
  <2>3. \A e : e \in FactsOf(b, u) <=> \E i \in Ids(b, u) : e = Fact(b, u, Rows(b, u)[i])
    BY DEF FactsOf, Contents, Range, Ids
  <2>4. \A i \in Ids(b, u) : Fact(c, u, Rows(c, u)[Goes("message", f, u, i)]) = Fact(b, u, Rows(b, u)[i])
    BY ReorderedSays
  <2>5. \A e : e \in FactsOf(c, u) => e \in FactsOf(b, u)
    BY <2>1, <2>2, <2>3, <2>4
  <2>6. \A e : e \in FactsOf(b, u) => e \in FactsOf(c, u)
    BY <2>1, <2>2, <2>3, <2>4
  <2> QED
    BY <2>5, <2>6
<1>2. PICK S : S = {"attachment", "recipient"}
  OBVIOUS
<1>3. ASSUME NEW v \in S, NEW y
      PROVE  Name(c, v, y) = Name(b, v, y)
  <2>1. v \in {"thread", "message", "attachment", "recipient"} /\ v # "message"
    BY <1>2
  <2>2. Goes("message", f, v, y) = y
    BY <2>1 DEF Goes
  <2> QED
    BY <2>1, <2>2, ReorderedNames
<1>4. Facts(c).data = Facts(b).data
  <2>1. \A i : Name(c, "attachment", i) = Name(b, "attachment", i)
    BY <1>2, <1>3
  <2> QED
    BY <2>1 DEF Facts, Reordered
<1>5. Facts(c).avatar = Facts(b).avatar
  <2>1. \A i : Name(c, "recipient", i) = Name(b, "recipient", i)
    BY <1>2, <1>3
  <2> QED
    BY <2>1 DEF Facts, Reordered
<1>6. PICK K : K = {"thread", "message", "attachment", "recipient", "reaction", "membership",
                    "data", "avatar"}
  OBVIOUS
<1>7. \A u \in Tables : Facts(c)[Kind(u)] = Facts(b)[Kind(u)]
  BY <1>1, FactsByTable
<1>8. \A k \in K \ {"data", "avatar"} : \E u \in Tables : k = Kind(u)
  BY <1>6 DEF Tables, Kind
<1>9. \A k \in K : Facts(c)[k] = Facts(b)[k]
  <2> SUFFICES ASSUME NEW k \in K
               PROVE  Facts(c)[k] = Facts(b)[k]
    OBVIOUS
  <2>1. CASE k \notin {"data", "avatar"}
    BY <1>7, <1>8, <2>1
  <2>2. CASE k \in {"data", "avatar"}
    BY <1>4, <1>5, <2>2
  <2> QED
    BY <2>1, <2>2
<1> QED
  BY <1>6, <1>9, FactsAreRecords

-----------------------------------------------------------------------------
(* Of the columns that facts are made of those are reordered that follow.         *)
LEMMA ReorderedColumnsAre ==
  ASSUME NEW u \in Tables, NEW x \in Told(u)
  PROVE  x \in ReorderedColumns[u] <=> Follows("message", u, x)
<1>1. "message" \in Tables
  BY DEF Tables
<1>2. CASE u = "thread"
  BY <1>1, <1>2, FollowsAre DEF ReorderedColumns, Told
<1>3. CASE u = "message"
  BY <1>1, <1>3, FollowsAre DEF ReorderedColumns, Told
<1>4. CASE u = "attachment"
  BY <1>1, <1>4, FollowsAre DEF ReorderedColumns, Told
<1>5. CASE u = "recipient"
  BY <1>1, <1>5, FollowsAre DEF ReorderedColumns, Told
<1>6. CASE u = "reaction"
  BY <1>1, <1>6, FollowsAre DEF ReorderedColumns, Told
<1>7. CASE u = "group_membership"
  BY <1>1, <1>7, FollowsAre DEF ReorderedColumns, Told
<1> QED
  BY <1>2, <1>3, <1>4, <1>5, <1>6, <1>7 DEF Tables

(* What facts are made of refers to messages there are.                           *)
RefersToMessages(b) ==
  \A u \in Tables : \A i \in Ids(b, u) : \A x \in Told(u) :
    /\ x \in DOMAIN Rows(b, u)[i]
    /\ Follows("message", u, x) => Rows(b, u)[i][x] \in Ids(b, "message") \cup {NULL}

Reordering(b) == RefersToMessages(b) /\ UniqueIn("reaction", Rows(b, "reaction"))

-----------------------------------------------------------------------------
(* Every message gets a negative number of its own.                               *)
NegatedIn(rows, old) ==
  /\ \A i \in DOMAIN old : Negated(i) \in Int /\ Negated(i) < 0
  /\ \A i, j \in DOMAIN old : Negated(i) = Negated(j) => i = j
  /\ \A k : k \in DOMAIN rows <=> \E i \in DOMAIN old : k = Negated(i)
  /\ \A i \in DOMAIN old : rows[Negated(i)] = old[i]

LEMMA NegatedRows ==
  ASSUME BackupOk(target), MessagesOk(target), NEW old, old = Rows(target, "message"),
         NEW rows, rows = Rekey(old, Negated)
  PROVE  NegatedIn(rows, old)
<1>1. PICK S : S = Ids(target, "message")
  OBVIOUS
<1>2. S = DOMAIN old /\ S \subseteq Nat \ {0}
  <2>1. "message" \in Tables
    BY DEF Tables
  <2> QED
    BY <1>1, <2>1 DEF Ids, BackupOk
<1>3. Cardinality(S) \in Nat
  BY <1>1, FS_CardinalityType DEF MessagesOk
<1>4. \A i \in S : Negated(i) = -Place(i) /\ Place(i) \in 1 .. Cardinality(S) /\ i \in Nat \ {0}
  BY <1>1, <1>2, PlaceInRange DEF Negated
<1>5. \A i \in S : Negated(i) \in Int /\ Negated(i) < 0
  BY <1>3, <1>4
<1>6. ASSUME NEW i \in S, NEW j \in S, Negated(i) = Negated(j)
      PROVE  i = j
  <2>1. Place(i) \in Int /\ Place(j) \in Int /\ -Place(i) = -Place(j)
    BY <1>3, <1>4, <1>6
  <2>2. Place(i) = Place(j)
    BY <2>1
  <2> QED
    BY <1>1, <2>2, PlacesDiffer
<1>7. ~ \E i, j \in S : i < j /\ Negated(i) \in {j, Negated(j)}
  BY <1>2, <1>5, <1>6
<1>8. /\ DOMAIN rows = {Negated(i) : i \in S}
      /\ \A k \in DOMAIN rows : rows[k] = old[CHOOSE i \in S : Negated(i) = k]
  BY <1>2, <1>7 DEF Rekey
<1>9. \A i \in S : rows[Negated(i)] = old[i]
  <2> SUFFICES ASSUME NEW i \in S
               PROVE  rows[Negated(i)] = old[i]
    OBVIOUS
  <2>1. PICK k : k = Negated(i)
    OBVIOUS
  <2>2. PICK m : m = CHOOSE j \in S : Negated(j) = k
    OBVIOUS
  <2>3. m \in S /\ Negated(m) = k
    BY <2>1, <2>2
  <2>4. m = i
    BY <1>6, <2>1, <2>3
  <2>5. k \in DOMAIN rows
    BY <1>8, <2>1
  <2>6. rows[k] = old[m]
    BY <1>8, <2>2, <2>5
  <2> QED
    BY <2>1, <2>4, <2>6
<1> QED
  BY <1>2, <1>5, <1>6, <1>8, <1>9 DEF NegatedIn

LEMMA ReorderDownReorders ==
  ASSUME BackupOk(target), MessagesOk(target), RowsOk(target), RefersWithin(target), ReorderDown
  PROVE  Facts(target') = Facts(target) /\ Reordering(target')
<1>1. "message" \in Tables /\ "reaction" \in Tables
  BY DEF Tables
<1>2. PICK b, c : b = target /\ c = target'
  OBVIOUS
<1>3. PICK f : f = [v \in Ids(b, "message") \cup {NULL} |-> Negated(v)]
  OBVIOUS
<1>4. PICK old, moved : old = Rows(target, "message") /\ moved = Rekey(old, Negated)
  OBVIOUS
<1>5. DOMAIN old = Ids(b, "message") /\ NULL \notin Ids(b, "message")
  BY <1>1, <1>2, <1>4 DEF Ids, BackupOk, NULL
<1>6. /\ \A i \in Ids(b, "message") : f[i] \in Int /\ f[i] < 0 /\ f[i] = Negated(i)
      /\ \A i, j \in Ids(b, "message") : f[i] = f[j] => i = j
      /\ \A k : k \in DOMAIN moved <=> \E i \in Ids(b, "message") : k = f[i]
      /\ \A i \in Ids(b, "message") : moved[f[i]] = old[i]
      /\ f[NULL] = NULL
  <2>1. \A i \in Ids(b, "message") \cup {NULL} : f[i] = Negated(i)
    BY <1>3
  <2>2. Negated(NULL) = NULL
    BY <1>2, <1>5 DEF Negated
  <2>3. /\ \A i \in DOMAIN old : Negated(i) \in Int /\ Negated(i) < 0
        /\ \A i, j \in DOMAIN old : Negated(i) = Negated(j) => i = j
        /\ \A k : k \in DOMAIN moved <=> \E i \in DOMAIN old : k = Negated(i)
        /\ \A i \in DOMAIN old : moved[Negated(i)] = old[i]
    <3>1. NegatedIn(moved, old)
      BY <1>4, NegatedRows
    <3> QED
      BY <3>1 DEF NegatedIn
  <2> QED
    BY <1>5, <2>1, <2>2, <2>3
<1>7. Injects(f, Ids(b, "message"))
  BY <1>6 DEF Injects, NULL
<1>8. \A u \in Tables : Rows(c, u) = EachColumn(IF u = "message" THEN moved ELSE Rows(b, u),
                                                ReorderedColumns[u], Negated)
  BY <1>2, <1>4 DEF ReorderDown, Rows, BackupOk
<1>9. /\ c.d_attachments = b.d_attachments /\ c.d_avatars = b.d_avatars
  BY <1>2 DEF ReorderDown, BackupOk
<1>10. ASSUME NEW u \in Tables
       PROVE  /\ \A k : k \in Ids(c, u) <=> \E i \in Ids(b, u) : k = Goes("message", f, u, i)
              /\ \A i \in Ids(b, u) :
                   /\ DOMAIN Rows(c, u)[Goes("message", f, u, i)] = DOMAIN Rows(b, u)[i]
                   /\ \A x \in DOMAIN Rows(b, u)[i] :
                        Rows(c, u)[Goes("message", f, u, i)][x]
                          = IF x \in ReorderedColumns[u] THEN Negated(Rows(b, u)[i][x]) ELSE Rows(b, u)[i][x]
  <2>1. PICK rows : rows = IF u = "message" THEN moved ELSE Rows(b, u)
    OBVIOUS
  <2>2. /\ \A k : k \in DOMAIN rows <=> \E i \in Ids(b, u) : k = Goes("message", f, u, i)
        /\ \A i \in Ids(b, u) : rows[Goes("message", f, u, i)] = Rows(b, u)[i]
    <3>1. CASE u = "message"
      BY <1>2, <1>4, <1>6, <2>1, <3>1 DEF Goes
    <3>2. CASE u # "message"
      BY <2>1, <3>2 DEF Goes, Ids
    <3> QED
      BY <3>1, <3>2
  <2>3. PICK new : new = Rows(c, u)
    OBVIOUS
  <2>4. new = EachColumn(rows, ReorderedColumns[u], Negated)
    BY <1>8, <2>1, <2>3
  <2>5. /\ DOMAIN new = DOMAIN rows
        /\ \A k \in DOMAIN rows :
             /\ DOMAIN new[k] = DOMAIN rows[k]
             /\ \A x \in DOMAIN rows[k] :
                  new[k][x] = IF x \in ReorderedColumns[u] THEN Negated(rows[k][x]) ELSE rows[k][x]
    BY <2>4 DEF EachColumn
  <2> QED
    BY <2>2, <2>3, <2>5 DEF Ids
<1>11. \A u \in Tables : \A i \in Ids(b, u) : \A x \in ColumnsOf(u) :
          /\ x \in DOMAIN Rows(b, u)[i]
          /\ Follows("message", u, x) => Rows(b, u)[i][x] \in Ids(b, "message") \cup {NULL}
  <2>1. \A u \in Tables : \A i \in Ids(b, u) : ColumnsOf(u) \subseteq DOMAIN Rows(b, u)[i]
    BY <1>2 DEF RowsOk
  <2>2. RefersWithin(b)
    BY <1>2
  <2> QED
    BY <1>1, <2>1, <2>2, RefersByColumn
<1>12. \A v \in Ids(b, "message") \cup {NULL} : f[v] = Negated(v)
  BY <1>3
<1>13. ASSUME NEW u \in Tables
       PROVE  ReorderedRows(b, c, f, u)
  <2>1. ASSUME NEW i \in Ids(b, u), NEW x \in Told(u)
        PROVE  /\ Follows("message", u, x) => Rows(b, u)[i][x] \in Ids(b, "message") \cup {NULL}
               /\ Rows(c, u)[Goes("message", f, u, i)][x]
                    = IF Follows("message", u, x) THEN f[Rows(b, u)[i][x]] ELSE Rows(b, u)[i][x]
    <3>1. x \in ColumnsOf(u)
      BY ToldThere
    <3>2. x \in ReorderedColumns[u] <=> Follows("message", u, x)
      BY ReorderedColumnsAre
    <3> QED
      BY <1>10, <1>11, <1>12, <3>1, <3>2
  <2> QED
    BY <1>10, <2>1 DEF ReorderedRows
<1>14. Reordered(b, c, f)
  BY <1>5, <1>7, <1>9, <1>13 DEF Reordered
<1>15. RefersToMessages(c)
  <2> SUFFICES ASSUME NEW u \in Tables, NEW k \in Ids(c, u), NEW x \in Told(u)
               PROVE  /\ x \in DOMAIN Rows(c, u)[k]
                      /\ Follows("message", u, x) => Rows(c, u)[k][x] \in Ids(c, "message") \cup {NULL}
    BY DEF RefersToMessages
  <2>1. PICK i \in Ids(b, u) : k = Goes("message", f, u, i)
    BY <1>10
  <2>2. x \in ColumnsOf(u)
    BY ToldThere
  <2>3. x \in DOMAIN Rows(c, u)[k]
    BY <1>10, <1>11, <2>1, <2>2
  <2>4. ASSUME Follows("message", u, x)
        PROVE  Rows(c, u)[k][x] \in Ids(c, "message") \cup {NULL}
    <3>1. PICK y : y = Rows(b, u)[i][x]
      OBVIOUS
    <3>2. y \in Ids(b, "message") \cup {NULL} /\ Rows(c, u)[k][x] = f[y]
      BY <1>13, <2>1, <2>4, <3>1 DEF ReorderedRows
    <3>3. y \in Ids(b, "message") => f[y] \in Ids(c, "message")
      BY <1>1, <1>10 DEF Goes
    <3> QED
      BY <1>6, <3>2, <3>3
  <2> QED
    BY <2>3, <2>4
<1>16. UniqueIn("reaction", Rows(c, "reaction"))
  <2>1. UniqueColumns("reaction") = {"message_id", "author_id"} /\ UniqueColumns("reaction") \subseteq Told("reaction")
    BY DEF UniqueColumns, Told
  <2>2. PICK u : u = "reaction"
    OBVIOUS
  <2>3. \A i : Goes("message", f, u, i) = i
    BY <2>2 DEF Goes
  <2>4. Follows("message", u, "message_id") /\ ~ Follows("message", u, "author_id")
    BY <1>1, <2>2, FollowsAre
  <2> SUFFICES ASSUME NEW k \in Ids(c, u), NEW l \in Ids(c, u), Key(u, Rows(c, u)[k]) = Key(u, Rows(c, u)[l])
               PROVE  k = l
    BY <2>2 DEF UniqueIn, Ids
  <2>5. k \in Ids(b, u) /\ l \in Ids(b, u)
    BY <1>1, <1>10, <2>2, <2>3
  <2>6. \A i \in Ids(b, u) : /\ Rows(b, u)[i]["message_id"] \in Ids(b, "message") \cup {NULL}
                             /\ Rows(c, u)[i]["message_id"] = f[Rows(b, u)[i]["message_id"]]
                             /\ Rows(c, u)[i]["author_id"] = Rows(b, u)[i]["author_id"]
    BY <1>1, <1>13, <2>1, <2>2, <2>3, <2>4 DEF ReorderedRows
  <2>7. /\ Rows(c, u)[k]["message_id"] = Rows(c, u)[l]["message_id"]
        /\ Rows(c, u)[k]["author_id"] = Rows(c, u)[l]["author_id"]
    BY <2>1, <2>2, KeyEqual
  <2>8. PICK y, z : y = Rows(b, u)[k]["message_id"] /\ z = Rows(b, u)[l]["message_id"]
    OBVIOUS
  <2>9. y \in Ids(b, "message") \cup {NULL} /\ z \in Ids(b, "message") \cup {NULL} /\ f[y] = f[z]
    BY <2>5, <2>6, <2>7, <2>8
  <2>10. y = z
    BY <1>7, <2>9 DEF Injects
  <2>11. Key(u, Rows(b, u)[k]) = Key(u, Rows(b, u)[l])
    BY <2>1, <2>2, <2>5, <2>6, <2>7, <2>8, <2>10, KeyEqual
  <2> QED
    BY <1>1, <1>2, <2>1, <2>2, <2>5, <2>11 DEF RowsOk
<1>17. Facts(c) = Facts(b)
  BY <1>14, ReorderedFacts
<1> QED
  BY <1>2, <1>15, <1>16, <1>17 DEF Reordering

-----------------------------------------------------------------------------
(* Every message gets back a positive number.                                     *)
RestoredIn(rows, old) ==
  /\ \A i \in DOMAIN old : i \in Int /\ i < 0 /\ Restored(i) = -i
  /\ \A k : k \in DOMAIN rows <=> \E i \in DOMAIN old : k = Restored(i)
  /\ \A i \in DOMAIN old : rows[Restored(i)] = old[i]

LEMMA RestoredRows ==
  ASSUME NEW old, Reversed(old), NEW rows, rows = Rekey(old, Restored)
  PROVE  RestoredIn(rows, old)
<1>1. PICK n \in Nat : DOMAIN old = {-k : k \in 1 .. n}
  BY DEF Reversed
<1>2. \A i \in DOMAIN old : i \in Int /\ i < 0 /\ Restored(i) = -i
  <2> SUFFICES ASSUME NEW i \in DOMAIN old
               PROVE  i \in Int /\ i < 0 /\ Restored(i) = -i
    OBVIOUS
  <2>1. PICK k \in 1 .. n : i = -k
    BY <1>1
  <2>2. i \in Int /\ i < 0
    BY <2>1
  <2> QED
    BY <2>2 DEF Restored
<1>3. ~ \E i, j \in DOMAIN old : i < j /\ Restored(i) \in {j, Restored(j)}
  BY <1>2
<1>4. /\ DOMAIN rows = {Restored(i) : i \in DOMAIN old}
      /\ \A k \in DOMAIN rows : rows[k] = old[CHOOSE i \in DOMAIN old : Restored(i) = k]
  BY <1>3 DEF Rekey
<1>5. ASSUME NEW h \in DOMAIN old
      PROVE  rows[Restored(h)] = old[h]
  <2>1. PICK k : k = Restored(h)
    OBVIOUS
  <2>2. PICK m : m = CHOOSE i \in DOMAIN old : Restored(i) = k
    OBVIOUS
  <2>3. m \in DOMAIN old /\ Restored(m) = k
    BY <2>1, <2>2
  <2>4. h \in Int /\ m \in Int /\ -h = -m
    BY <1>2, <2>1, <2>3
  <2>5. m = h
    BY <2>4
  <2>6. k \in DOMAIN rows
    BY <1>4, <2>1
  <2>7. rows[k] = old[m]
    BY <1>4, <2>2, <2>6
  <2> QED
    BY <2>1, <2>5, <2>7
<1> QED
  BY <1>2, <1>4, <1>5 DEF RestoredIn

-----------------------------------------------------------------------------
(* The references to messages are restored where rows turns into new; those of    *)
(* reactions are to messages with negative numbers.                               *)
Restorable(u, rows, new) ==
  /\ DOMAIN new = DOMAIN rows /\ new = [i \in DOMAIN new |-> new[i]]
  /\ \A i \in DOMAIN rows : \A x \in UniqueColumns(u) :
       IF x \in ReorderedColumns[u]
       THEN /\ rows[i][x] \in Int /\ rows[i][x] <= 0
            /\ new[i][x] = Restored(rows[i][x])
       ELSE new[i][x] = rows[i][x]
  /\ UniqueColumns(u) \cap ReorderedColumns[u] # {} => UniqueIn(u, rows)

LEMMA UpdateRestores ==
  ASSUME NEW u \in Tables, NEW rows, NEW new, Restorable(u, rows, new)
  PROVE  Update(u, rows, new) = new
<1>1. /\ DOMAIN new = DOMAIN rows /\ new = [i \in DOMAIN new |-> new[i]]
      /\ \A i \in DOMAIN rows : \A x \in UniqueColumns(u) :
           /\ x \in ReorderedColumns[u] => /\ rows[i][x] \in Int /\ rows[i][x] <= 0
                                           /\ new[i][x] = -rows[i][x]
           /\ x \notin ReorderedColumns[u] => new[i][x] = rows[i][x]
  BY DEF Restorable, Restored
<1>2. ASSUME NEW i \in DOMAIN rows, NEW j \in DOMAIN rows, Meets(u, rows, new, i, j)
      PROVE  FALSE
  <2>1. i # j /\ Key(u, new[i]) # Key(u, rows[i])
    BY <1>2 DEF Meets
  <2>2. PICK c \in UniqueColumns(u) : new[i][c] # rows[i][c]
    BY <2>1, KeyEqual
  <2>3. c \in ReorderedColumns[u]
    BY <1>1, <2>2
  <2>4. UniqueIn(u, rows)
    BY <2>2, <2>3 DEF Restorable
  <2>5. Key(u, new[i]) = Key(u, new[j]) \/ Key(u, new[i]) = Key(u, rows[j])
    BY <1>2 DEF Meets
  <2>6. CASE Key(u, new[i]) = Key(u, rows[j])
    <3>1. new[i][c] = rows[j][c]
      BY <2>2, <2>6, KeyEqual
    <3>2. /\ rows[i][c] \in Int /\ rows[i][c] <= 0 /\ rows[j][c] \in Int /\ rows[j][c] <= 0
          /\ new[i][c] = -rows[i][c]
      BY <1>1, <2>2, <2>3
    <3> QED
      BY <2>2, <3>1, <3>2
  <2>7. CASE Key(u, new[i]) = Key(u, new[j])
    <3>1. ASSUME NEW x \in UniqueColumns(u)
          PROVE  rows[i][x] = rows[j][x]
      <4>1. new[i][x] = new[j][x]
        BY <2>7, KeyEqual
      <4>2. CASE x \in ReorderedColumns[u]
        <5>1. /\ rows[i][x] \in Int /\ rows[j][x] \in Int
              /\ new[i][x] = -rows[i][x] /\ new[j][x] = -rows[j][x]
          BY <1>1, <4>2
        <5>2. PICK y, z : y = rows[i][x] /\ z = rows[j][x]
          OBVIOUS
        <5>3. y \in Int /\ z \in Int /\ -y = -z
          BY <4>1, <5>1, <5>2
        <5>4. y = z
          BY <5>3
        <5> QED
          BY <5>2, <5>4
      <4>3. CASE x \notin ReorderedColumns[u]
        BY <1>1, <4>1, <4>3
      <4> QED
        BY <4>2, <4>3
    <3>2. Key(u, rows[i]) = Key(u, rows[j])
      BY <3>1, KeyEqual
    <3> QED
      BY <2>1, <2>4, <3>2 DEF UniqueIn
  <2> QED
    BY <2>5, <2>6, <2>7
<1>3. \A i, j \in DOMAIN rows : ~ Meets(u, rows, new, i, j)
  BY <1>2
<1>4. Displaced(u, rows, new) = {}
  BY <1>3, Zenon DEF Displaced
<1> QED
  BY <1>1, <1>4 DEF Update, Restrict

-----------------------------------------------------------------------------
LEMMA ReorderUpReorders ==
  ASSUME OthersOk(target), Reordering(target), Reversed(Rows(target, "message")), ReorderUp
  PROVE  Facts(target') = Facts(target)
<1>1. "message" \in Tables /\ "reaction" \in Tables
  BY DEF Tables
<1>2. PICK b, c : b = target /\ c = target'
  OBVIOUS
<1>3. PICK f : f = [v \in Ids(b, "message") \cup {NULL} |-> Restored(v)]
  OBVIOUS
<1>4. PICK old, moved : old = Rows(target, "message") /\ moved = Rekey(old, Restored)
  OBVIOUS
<1>5. RestoredIn(moved, old) /\ DOMAIN old = Ids(b, "message")
  BY <1>2, <1>4, RestoredRows DEF Ids
<1>6. /\ \A i \in Ids(b, "message") : i \in Int /\ i < 0 /\ f[i] = -i /\ Restored(i) = -i
      /\ f[NULL] = NULL /\ Restored(NULL) = NULL
      /\ NULL \notin Ids(b, "message")
  BY <1>3, <1>5 DEF RestoredIn, Restored, NULL
<1>7. Injects(f, Ids(b, "message"))
  BY <1>6 DEF Injects, NULL
<1>8. \A u \in Tables : LET rows == IF u = "message" THEN moved ELSE Rows(b, u)
                        IN  Rows(c, u) = Update(u, rows, EachColumn(rows, ReorderedColumns[u], Restored))
  BY <1>2, <1>4 DEF ReorderUp, Rows, OthersOk
<1>9. /\ c.d_attachments = b.d_attachments /\ c.d_avatars = b.d_avatars
  BY <1>2 DEF ReorderUp, OthersOk
<1>10. ASSUME NEW u \in Tables, NEW i \in Ids(b, u), NEW x \in Told(u)
       PROVE  /\ x \in DOMAIN Rows(b, u)[i]
              /\ Follows("message", u, x) => Rows(b, u)[i][x] \in Ids(b, "message") \cup {NULL}
  BY <1>2 DEF Reordering, RefersToMessages
<1>11. ASSUME NEW u \in Tables
       PROVE  ReorderedRows(b, c, f, u)
  <2>1. PICK rows : rows = IF u = "message" THEN moved ELSE Rows(b, u)
    OBVIOUS
  <2>2. /\ \A k : k \in DOMAIN rows <=> \E i \in Ids(b, u) : k = Goes("message", f, u, i)
        /\ \A i \in Ids(b, u) : rows[Goes("message", f, u, i)] = Rows(b, u)[i]
    <3>1. CASE u = "message"
      <4>1. rows = moved /\ Rows(b, u) = old /\ Ids(b, u) = DOMAIN old
        BY <1>2, <1>4, <1>5, <2>1, <3>1
      <4>2. \A i \in DOMAIN old : Goes("message", f, u, i) = Restored(i)
        BY <1>5, <1>6, <3>1 DEF Goes
      <4>3. /\ \A k : k \in DOMAIN moved <=> \E i \in DOMAIN old : k = Restored(i)
            /\ \A i \in DOMAIN old : moved[Restored(i)] = old[i]
        BY <1>5 DEF RestoredIn
      <4> QED
        BY <4>1, <4>2, <4>3
    <3>2. CASE u # "message"
      BY <2>1, <3>2 DEF Goes, Ids
    <3> QED
      BY <3>1, <3>2
  <2>3. PICK new : new = EachColumn(rows, ReorderedColumns[u], Restored)
    OBVIOUS
  <2>4. Rows(c, u) = Update(u, rows, new)
    BY <1>8, <2>1, <2>3
  <2>5. /\ DOMAIN new = DOMAIN rows /\ new = [k \in DOMAIN new |-> new[k]]
        /\ \A k \in DOMAIN rows :
             /\ DOMAIN new[k] = DOMAIN rows[k]
             /\ \A x \in DOMAIN rows[k] :
                  new[k][x] = IF x \in ReorderedColumns[u] THEN Restored(rows[k][x]) ELSE rows[k][x]
    BY <2>3 DEF EachColumn
  <2>6. ASSUME NEW k \in DOMAIN rows, NEW x \in Told(u)
        PROVE  /\ x \in DOMAIN rows[k]
               /\ x \in ReorderedColumns[u] => rows[k][x] \in Ids(b, "message") \cup {NULL}
    <3>1. PICK i \in Ids(b, u) : rows[k] = Rows(b, u)[i]
      BY <2>2
    <3>2. x \in ReorderedColumns[u] <=> Follows("message", u, x)
      BY ReorderedColumnsAre
    <3> QED
      BY <1>10, <3>1, <3>2
  <2>7. UniqueColumns(u) \subseteq Told(u)
    BY DEF UniqueColumns, Told, Tables
  <2>8. UniqueColumns(u) \cap ReorderedColumns[u] # {} => u = "reaction"
    BY DEF UniqueColumns, ReorderedColumns, Tables
  <2>9. UniqueColumns(u) \cap ReorderedColumns[u] # {} => UniqueIn(u, rows)
    BY <1>2, <2>1, <2>8 DEF Reordering
  <2>10. ASSUME NEW k \in DOMAIN rows, NEW x \in UniqueColumns(u)
         PROVE  IF x \in ReorderedColumns[u]
                THEN /\ rows[k][x] \in Int /\ rows[k][x] <= 0
                     /\ new[k][x] = Restored(rows[k][x])
                ELSE new[k][x] = rows[k][x]
    <3>1. x \in DOMAIN rows[k]
      BY <2>6, <2>7
    <3>2. x \in ReorderedColumns[u] => rows[k][x] \in Int /\ rows[k][x] <= 0
      BY <1>6, <2>6, <2>7 DEF NULL
    <3> QED
      BY <2>5, <3>1, <3>2
  <2>11. Restorable(u, rows, new)
    BY <2>5, <2>9, <2>10 DEF Restorable
  <2>12. Rows(c, u) = new
    BY <2>4, <2>11, UpdateRestores
  <2>13. \A k : k \in Ids(c, u) <=> \E i \in Ids(b, u) : k = Goes("message", f, u, i)
    BY <2>2, <2>5, <2>12 DEF Ids
  <2>14. ASSUME NEW i \in Ids(b, u), NEW x \in Told(u)
         PROVE  Rows(c, u)[Goes("message", f, u, i)][x]
                  = IF Follows("message", u, x) THEN f[Rows(b, u)[i][x]] ELSE Rows(b, u)[i][x]
    <3>1. PICK k \in DOMAIN rows : k = Goes("message", f, u, i)
      BY <2>2
    <3>2. rows[k] = Rows(b, u)[i] /\ x \in DOMAIN rows[k]
      BY <2>2, <2>6, <3>1
    <3>3. x \in ReorderedColumns[u] <=> Follows("message", u, x)
      BY ReorderedColumnsAre
    <3>4. new[k][x] = IF x \in ReorderedColumns[u] THEN Restored(rows[k][x]) ELSE rows[k][x]
      BY <2>5, <3>2
    <3>5. Follows("message", u, x) => Restored(rows[k][x]) = f[rows[k][x]]
      BY <1>6, <2>6, <3>3
    <3> QED
      BY <2>12, <3>1, <3>2, <3>3, <3>4, <3>5
  <2> QED
    BY <1>10, <2>13, <2>14 DEF ReorderedRows
<1>12. Reordered(b, c, f)
  BY <1>6, <1>7, <1>9, <1>11 DEF Reordered
<1>13. Facts(c) = Facts(b)
  BY <1>12, ReorderedFacts
<1> QED
  BY <1>2, <1>13

-----------------------------------------------------------------------------
(* The invariant, and what each step is to the abstract specification *)

(* No message of the target coincides with one of a thread that is still to come, *)
(* as no thread comes twice.                                                     *)
ComesOnce(b, c, names) ==
  \A m \in FactsOf(b, "message"), n \in FactsOf(c, "message") :
     Coincide(m, n) => \A i \in DOMAIN names : n.thread # names[i]

NamesOnce(names) ==
  \A i, j \in DOMAIN names : names[i] = names[j] /\ names[i] # "no thread" => i = j

MergeInv ==
  /\ Importable(src)
  /\ pc \notin {"reorder", "done"} =>
       ImportedInto(target, src) /\ ComesOnce(target, src, Left) /\ NamesOnce(Left)
  /\ pc \in {"unique", "recipients", "insert"} => compatible
  /\ pc = "unique" => CopyInv
  /\ pc = "recipients" => ComingInv /\ Matching(target, source, todo, targetthread)
  /\ pc = "insert" => ComingInv /\ Inserting(target, source, targetthread)
  /\ pc = "reorder" => Reordering(target)

(* Backups that can be merged start so.                                          *)
LEMMA MergeStart ==
  ASSUME \A input \in Inputs : Mergeable(input), Init
  PROVE  MergeInv
<1>1. PICK input \in Inputs :
        /\ target = input.target /\ src = input.source
        /\ threads = input.threads /\ pc = "pick"
  BY DEF Init
<1>2. PICK b, c : b = target /\ c = src
  OBVIOUS
<1>3. Mergeable(input)
  BY <1>1
<1>4. /\ RowsOk(b) /\ RefersWithin(b) /\ HaveRows(b)
      /\ UniqueNames(b, "recipient") /\ ThreadsNamed(b)
      /\ RowsNamed(c) /\ ThreadsNamed(c) /\ GroupsNamed(c)
      /\ KnownApart(b, c)
  BY <1>1, <1>2, <1>3 DEF Mergeable
<1>5. BackupOk(b) /\ BackupOk(c) /\ threads \in Seq(Int)
  BY <1>1, <1>2, ImportAssumption DEF InputOk
<1>6. Importable(src) /\ ImportedInto(target, src)
  BY <1>2, <1>4, <1>5 DEF Importable, ImportedInto
<1>7. \A m \in Facts(b).message, n \in Facts(c).message : ~ Coincide(m, n)
  BY <1>1, <1>2, <1>3 DEF Mergeable
<1>8. "message" \in Tables /\ Kind("message") = "message" /\ "thread" \in Tables
  BY DEF Tables, Kind
<1>9. \A m \in FactsOf(b, "message"), n \in FactsOf(c, "message") : ~ Coincide(m, n)
  BY <1>7, <1>8, FactsByTable
<1>10. ComesOnce(target, src, Left)
  BY <1>2, <1>9 DEF ComesOnce
<1>11. PICK list : list = threads
  OBVIOUS
<1>12. \A i, j \in DOMAIN list : list[i] = list[j] => i = j
  BY <1>1, <1>3, <1>11 DEF Mergeable
<1>13. UniqueNames(c, "thread")
  BY <1>4 DEF RowsNamed, NamesApart
<1>14. DOMAIN Left = DOMAIN list /\ \A i \in DOMAIN list : Left[i] = ThreadName(list[i])
  BY <1>1, <1>11 DEF Left
<1>15. ASSUME NEW i \in DOMAIN list, NEW j \in DOMAIN list,
              ThreadName(list[i]) = ThreadName(list[j]), ThreadName(list[i]) # "no thread"
       PROVE  i = j
  <2>1. list[i] \in Ids(c, "thread") /\ list[j] \in Ids(c, "thread")
    BY <1>2, <1>15 DEF ThreadName
  <2>2. Rows(c, "thread")[list[i]].who = Rows(c, "thread")[list[j]].who
    BY <1>2, <1>15, <2>1 DEF ThreadName
  <2>3. list[i] = list[j]
    BY <1>13, <2>1, <2>2 DEF UniqueNames
  <2> QED
    BY <1>12, <2>3
<1>16. NamesOnce(Left)
  BY <1>14, <1>15 DEF NamesOnce
<1> QED
  BY <1>1, <1>6, <1>10, <1>16 DEF MergeInv

-----------------------------------------------------------------------------
(* What is to come is still to come, and one thread less of it.                    *)
LEMMA ComesLess ==
  ASSUME NEW b, NEW c, NEW names, NEW rest, ComesOnce(b, c, names), NamesOnce(names),
         \A i \in DOMAIN rest : i + 1 \in DOMAIN names /\ rest[i] = names[i + 1]
  PROVE  ComesOnce(b, c, rest)
BY DEF ComesOnce

LEMMA SamePlusOne ==
  ASSUME NEW k \in Int, NEW l \in Int, k + 1 = l + 1
  PROVE  k = l
OBVIOUS

LEMMA NamesLess ==
  ASSUME NEW names, NEW rest, NamesOnce(names), DOMAIN rest \subseteq Int,
         \A i \in DOMAIN rest : i + 1 \in DOMAIN names /\ rest[i] = names[i + 1]
  PROVE  NamesOnce(rest)
<1> SUFFICES ASSUME NEW i \in DOMAIN rest, NEW j \in DOMAIN rest,
                    rest[i] = rest[j], rest[i] # "no thread"
             PROVE  i = j
  BY DEF NamesOnce
<1>1. i + 1 = j + 1
  BY DEF NamesOnce
<1>2. i \in Int /\ j \in Int
  OBVIOUS
<1> QED
  BY <1>1, <1>2, SamePlusOne

(* The rest of the list of names.                                                 *)
LEMMA LeftFromOne ==
  ASSUME MainOk, Incompatible \/ SkipThread \/ Insert
  PROVE  DOMAIN Left' \subseteq Nat \ {0}
<1>1. /\ threads # <<>> /\ threads \in Seq(Int)
      /\ (IF pc = "check" THEN Tail(threads) ELSE threads)' = Tail(threads)
  BY DEF MainOk, Incompatible, SkipThread, Insert, Return
<1>2. DOMAIN Left' = DOMAIN Tail(threads)
  <2>1. Left' = [i \in DOMAIN (IF pc = "check" THEN Tail(threads) ELSE threads) |->
                   ThreadName((IF pc = "check" THEN Tail(threads) ELSE threads)[i])]'
    BY DEF Left
  <2> QED
    BY <1>1, <2>1
<1>3. DOMAIN Tail(threads) = 1 .. Len(threads) - 1
  BY <1>1
<1> QED
  BY <1>1, <1>2, <1>3

-----------------------------------------------------------------------------
(* To insert is to import.                                                       *)
LEMMA InsertMerges ==
  ASSUME MainOk, MergeInv, Insert
  PROVE  MergeInv' /\ (compatible => Merge!Import)
<1>1. /\ pc = "insert" /\ pc' = "check" /\ src' = src
      /\ Importable(src) /\ ImportedInto(target, src) /\ ComesOnce(target, src, Left) /\ NamesOnce(Left)
      /\ ComingInv /\ Inserting(target, source, targetthread)
  BY DEF Insert, MergeInv
<1>2. PICK b, s, x, j, h, n, p, t :
        /\ b = target /\ s = source /\ x = src /\ j = Joined(b, s) /\ h = thread
        /\ n = Rows(x, "thread")[h].who /\ p = PartOf(x, h) /\ t = targetthread
  OBVIOUS
<1>3. PICK names, rest : names = Left /\ rest = Left'
  OBVIOUS
<1>4. /\ h \in Ids(x, "thread") /\ Coming(b, s) /\ Brought(b, s, p)
      /\ Contents(s, "recipient") \subseteq Contents(x, "recipient")
  BY <1>1, <1>2 DEF ComingInv
<1>5. /\ names # <<>> /\ rest = Tail(names) /\ compatible' = compatible
      /\ \A i \in DOMAIN rest : i + 1 \in DOMAIN names /\ rest[i] = names[i + 1]
      /\ 1 \in DOMAIN names /\ names[1] = n /\ Head(names) = n
  BY <1>2, <1>3, <1>4, LeftGoesOn
<1>6. /\ "message" \in Tables /\ "thread" \in Tables
      /\ Kind("message") = "message" /\ Kind("thread") = "thread"
  BY DEF Tables, Kind
<1>7. \A m \in p.message : m.thread = n /\ m \in FactsOf(x, "message")
  <2>1. \A m \in p.message : m.thread = n /\ m \in Facts(x).message
    BY <1>1, <1>2, PartMessages
  <2> QED
    BY <1>6, <2>1, FactsByTable
<1>8. NoneCoincide(b, p)
  BY <1>1, <1>2, <1>3, <1>5, <1>7 DEF NoneCoincide, ComesOnce
<1>9. target' = j
  BY <1>1, <1>2, <1>8, InsertJoins
<1>10. \A u \in Tables : KeysApart(b, s, u)
  BY <1>1, <1>2, <1>8, AllKeysApart
<1>11. ImportedInto(j, x)
  BY <1>1, <1>2, <1>4, <1>10, JoinedInto
<1>12. RefersWithin(b) /\ HaveRows(b)
  BY <1>1, <1>2 DEF ImportedInto
<1>13. /\ Facts(j) = Merge!With(Facts(b), p, SaysAvatars(b, s))
       /\ SaysAvatars(b, s) \subseteq p.avatar
  BY <1>2, <1>4, <1>12, JoinedSays
<1>14. FactsOf(j, "message") = FactsOf(b, "message") \cup p.message
  <2>1. Apart(b, s) /\ DOMAIN s.d_attachments \cap DOMAIN b.d_attachments = {}
    BY <1>4, <1>12, DataApart DEF Coming
  <2> QED
    BY <1>2, <1>4, <1>6, <1>12, <2>1, JoinedFacts
<1>15. n # "no thread"
  BY <1>1, <1>2, <1>4, RecipientOfThread
<1>16. ComesOnce(b, x, rest)
  BY <1>1, <1>2, <1>3, <1>5, ComesLess
<1>17. \A i \in DOMAIN rest : rest[i] # n
  <2> SUFFICES ASSUME NEW i \in DOMAIN rest, rest[i] = n
               PROVE  FALSE
    OBVIOUS
  <2>1. i + 1 \in DOMAIN names /\ names[i + 1] = names[1] /\ names[1] # "no thread"
    BY <1>5, <1>15
  <2>2. i + 1 = 1
    BY <1>1, <1>3, <1>5, <2>1 DEF NamesOnce
  <2>3. DOMAIN rest \subseteq Nat \ {0}
    BY <1>3, LeftFromOne
  <2> QED
    BY <2>2, <2>3
<1>18. ASSUME NEW m \in FactsOf(j, "message"), NEW o \in FactsOf(x, "message"), Coincide(m, o),
              NEW i \in DOMAIN rest
       PROVE  o.thread # rest[i]
  <2>1. CASE m \in FactsOf(b, "message")
    BY <1>16, <1>18, <2>1 DEF ComesOnce
  <2>2. CASE m \in p.message
    <3>1. m.thread = n /\ o.thread = m.thread
      BY <1>7, <1>18, <2>2 DEF Coincide
    <3> QED
      BY <1>17, <3>1
  <2> QED
    BY <1>14, <2>1, <2>2
<1>19. ComesOnce(j, x, rest)
  BY <1>18 DEF ComesOnce
<1>20. NamesOnce(rest)
  <2>1. DOMAIN rest \subseteq Int
    BY <1>3, LeftFromOne
  <2> QED
    BY <1>1, <1>3, <1>5, <2>1, NamesLess
<1>21. MergeInv'
  <2>1. ImportedInto(target', src') /\ ComesOnce(target', src', Left') /\ NamesOnce(Left')
    BY <1>1, <1>2, <1>3, <1>9, <1>11, <1>19, <1>20
  <2>2. Importable(src)'
    BY <1>1
  <2>3. ImportedInto(target, src)' /\ ComesOnce(target, src, Left)' /\ NamesOnce(Left)'
    BY <2>1
  <2> QED
    BY <1>1, <2>2, <2>3 DEF MergeInv
<1>22. ASSUME compatible
       PROVE  Merge!Import
  <2>1. p = Merge!Part(Facts(x), n)
    BY <1>2 DEF PartOf
  <2>2. \E f \in Facts(x).thread : f.who = n
    <3>1. Rows(x, "thread")[h] \in Contents(x, "thread")
      BY <1>4 DEF Contents, Range, Ids
    <3>2. Fact(x, "thread", Rows(x, "thread")[h]) \in Facts(x).thread
      BY <1>6, <3>1, FactsByTable DEF FactsOf
    <3>3. Fact(x, "thread", Rows(x, "thread")[h]).who = n
      BY <1>2 DEF Fact
    <3> QED
      BY <3>2, <3>3
  <2>3. \E avatars \in SUBSET p.avatar : Facts(target') = Merge!With(Facts(b), p, avatars)
    BY <1>9, <1>13
  <2>4. Facts(target)' = Facts(target') /\ Facts(src)' = Facts(src)
    BY <1>1
  <2> QED
    BY <1>2, <1>3, <1>5, <1>22, <2>1, <2>2, <2>3, <2>4 DEF Merge!Import
<1> QED
  BY <1>21, <1>22

-----------------------------------------------------------------------------
(* To pass a thread over is to skip it.                                          *)
LEMMA SkipMerges ==
  ASSUME MainOk, MergeInv, Incompatible \/ SkipThread
  PROVE  MergeInv' /\ Merge!Skip
<1>1. /\ pc = "pick" /\ pc' \in {"pick", "aborted"}
      /\ target' = target /\ src' = src
      /\ ~ compatible \/ thread \notin Ids(src, "thread")
  BY DEF Incompatible, SkipThread, Return, idVars
<1>2. Importable(src) /\ ImportedInto(target, src) /\ ComesOnce(target, src, Left) /\ NamesOnce(Left)
  BY <1>1 DEF MergeInv
<1>3. PICK b, x, names, rest : b = target /\ x = src /\ names = Left /\ rest = Left'
  OBVIOUS
<1>4. /\ names # <<>> /\ rest = Tail(names) /\ compatible' = compatible
      /\ \A i \in DOMAIN rest : i + 1 \in DOMAIN names /\ rest[i] = names[i + 1]
      /\ Head(names) = IF thread \in Ids(x, "thread") THEN Rows(x, "thread")[thread].who ELSE "no thread"
  BY <1>3, LeftGoesOn
<1>5. DOMAIN rest \subseteq Int
  BY <1>3, LeftFromOne
<1>6. ComesOnce(b, x, rest) /\ NamesOnce(rest)
  BY <1>2, <1>3, <1>4, <1>5, ComesLess, NamesLess
<1>7. MergeInv'
  <2>1. Importable(src)' /\ ImportedInto(target, src)'
    BY <1>1, <1>2
  <2>2. ComesOnce(target, src, Left)' /\ NamesOnce(Left)'
    BY <1>1, <1>3, <1>6
  <2> QED
    BY <1>1, <2>1, <2>2 DEF MergeInv
<1>8. ~ compatible \/ ~ \E f \in Facts(src).thread : f.who = Head(Left)
  <2> SUFFICES ASSUME thread \notin Ids(x, "thread"), NEW f \in Facts(x).thread, f.who = Head(names)
               PROVE  FALSE
    BY <1>1, <1>3
  <2>1. Facts(x).thread = FactsOf(x, "thread")
    BY FactsByTable DEF Kind, Tables
  <2>2. PICK r \in Contents(x, "thread") : f = Fact(x, "thread", r)
    BY <2>1 DEF FactsOf
  <2>3. f.who = r.who
    BY <2>2 DEF Fact
  <2>4. r.who # "no thread"
    BY <1>2, <1>3 DEF Importable, RowsNamed, NamesApart
  <2> QED
    BY <1>4, <2>3, <2>4
<1>9. Facts(target)' = Facts(target) /\ Facts(src)' = Facts(src)
  BY <1>1
<1> QED
  BY <1>3, <1>4, <1>7, <1>8, <1>9 DEF Merge!Skip

-----------------------------------------------------------------------------
(* All else is not seen.                                                         *)
Unseen == Facts(target') = Facts(target) /\ src' = src /\ Left' = Left /\ compatible' = compatible

LEMMA TargetStays ==
  ASSUME MergeInv, target' = target, src' = src, Left' = Left, compatible' = compatible,
         pc \notin {"reorder", "done"}, pc' \notin {"reorder", "done"},
         pc' \in {"unique", "recipients", "insert"} => compatible,
         pc' = "unique" => CopyInv',
         pc' = "recipients" => ComingInv' /\ Matching(target', source', todo', targetthread'),
         pc' = "insert" => ComingInv' /\ Inserting(target', source', targetthread')
  PROVE  MergeInv' /\ Unseen
<1>1. Importable(src) /\ ImportedInto(target, src) /\ ComesOnce(target, src, Left) /\ NamesOnce(Left)
  BY DEF MergeInv
<1>2. Importable(src)' /\ ImportedInto(target, src)'
  BY <1>1
<1>3. ComesOnce(target, src, Left)' /\ NamesOnce(Left)'
  BY <1>1
<1>4. MergeInv'
  BY <1>2, <1>3 DEF MergeInv
<1> QED
  BY <1>4 DEF Unseen

LEMMA StutterMerges ==
  ASSUME MainOk, MergeInv, UNCHANGED vars
  PROVE  MergeInv' /\ Unseen
<1>1. /\ target' = target /\ source' = source /\ pc' = pc /\ src' = src /\ threads' = threads
      /\ targetthread' = targetthread /\ todo' = todo /\ compatible' = compatible
  BY DEF vars, idVars, mainVars
<1>2. Left' = Left
  BY LeftStays
<1>3. thread' = thread /\ FoundThread' = FoundThread
  BY <1>1 DEF thread, FoundThread, Candidates, RecipientOf, getThreadIdFromRecipient
<1>4. CopyInv' <=> CopyInv
  BY <1>1, <1>3 DEF CopyInv
<1>5. ComingInv' <=> ComingInv
  BY <1>1, <1>3 DEF ComingInv
<1>6. MergeInv'
  <2>1. Importable(src)' <=> Importable(src)
    BY <1>1
  <2>2. (ImportedInto(target, src) /\ ComesOnce(target, src, Left) /\ NamesOnce(Left))'
          <=> ImportedInto(target, src) /\ ComesOnce(target, src, Left) /\ NamesOnce(Left)
    BY <1>1, <1>2
  <2>3. Matching(target, source, todo, targetthread)' <=> Matching(target, source, todo, targetthread)
    BY <1>1
  <2>4. Inserting(target, source, targetthread)' <=> Inserting(target, source, targetthread)
    BY <1>1
  <2>5. Reordering(target)' <=> Reordering(target)
    BY <1>1
  <2>6. pc' = pc /\ compatible' = compatible
    BY <1>1
  <2> QED
    BY <1>4, <1>5, <2>1, <2>2, <2>3, <2>4, <2>5, <2>6 DEF MergeInv
<1> QED
  BY <1>1, <1>2, <1>6 DEF Unseen

LEMMA UnseenMerges ==
  ASSUME IInv, FramesInv, MessagesInv, LinksInv, MainOk, MergeInv,
         \/ Crop \/ MakeUnique \/ SetThread \/ MatchRecipient \/ DropExisting \/ checkDbIntegrity
         \/ ReorderDown \/ ReorderUp
  PROVE  MergeInv' /\ Unseen
<1>1. Left' = Left /\ src' = src /\ compatible' = compatible
  BY LeftStays
<1>2. Importable(src) /\ (pc \notin {"reorder", "done"} => ImportedInto(target, src))
  BY DEF MergeInv
<1>3. CASE Crop
  <2>1. pc = "pick" /\ pc' = "unique" /\ target' = target /\ compatible
    BY <1>3 DEF Crop
  <2>2. CopyInv'
    BY <1>2, <1>3, CropStartsCopy
  <2> QED
    BY <1>1, <2>1, <2>2, TargetStays
<1>4. CASE MakeUnique
  <2>1. pc = "unique" /\ pc' = "unique" /\ target' = target
    BY <1>4, MakeUniqueMessages DEF MakeUnique, mainVars, MessagesInv
  <2>2. CopyInv /\ compatible
    BY <2>1 DEF MergeInv
  <2>3. CopyInv'
    BY <1>4, <2>2, MakeUniqueKeepsCopy
  <2> QED
    BY <1>1, <2>1, <2>2, <2>3, TargetStays
<1>5. CASE SetThread
  <2>1. pc = "unique" /\ pc' = "recipients" /\ target' = target
    BY <1>5 DEF SetThread
  <2>2. CopyInv /\ compatible /\ ImportedInto(target, src)
    BY <1>2, <2>1 DEF MergeInv
  <2>3. ComingInv' /\ Matching(target', source', todo', targetthread')
    BY <1>2, <1>5, <2>2, SetThreadStarts
  <2> QED
    BY <1>1, <2>1, <2>2, <2>3, TargetStays
<1>6. CASE MatchRecipient
  <2>1. pc = "recipients" /\ pc' = "recipients" /\ target' = target
    BY <1>6 DEF MatchRecipient
  <2>2. ComingInv /\ Matching(target, source, todo, targetthread) /\ compatible /\ ImportedInto(target, src)
    BY <1>2, <2>1 DEF MergeInv
  <2>3. ComingInv' /\ Matching(target', source', todo', targetthread')
    BY <1>6, <2>2, MatchKeeps
  <2> QED
    BY <1>1, <2>1, <2>2, <2>3, TargetStays
<1>7. CASE DropExisting
  <2>1. pc = "recipients" /\ pc' = "insert" /\ target' = target
    BY <1>7 DEF DropExisting
  <2>2. ComingInv /\ Matching(target, source, todo, targetthread) /\ compatible /\ ImportedInto(target, src)
    BY <1>2, <2>1 DEF MergeInv
  <2>3. ComingInv' /\ Inserting(target', source', targetthread')
    BY <1>2, <1>7, <2>2, DropKeeps
  <2> QED
    BY <1>1, <2>1, <2>2, <2>3, TargetStays
<1>8. CASE checkDbIntegrity
  <2>1. pc = "check" /\ pc' \in {"pick", "aborted"} /\ target' = target
    BY <1>8 DEF checkDbIntegrity, Return, idVars
  <2> QED
    BY <1>1, <2>1, TargetStays
<1>9. CASE ReorderDown
  <2>1. pc = "pick" /\ pc' = "reorder"
    BY <1>9 DEF ReorderDown
  <2>2. BackupOk(target) /\ MessagesOk(target) /\ RowsOk(target) /\ RefersWithin(target)
    BY <1>2, <2>1 DEF ImportedInto, MessagesInv
  <2>3. Facts(target') = Facts(target) /\ Reordering(target')
    BY <1>9, <2>2, ReorderDownReorders
  <2>4. Importable(src)' /\ Reordering(target)'
    BY <1>1, <1>2, <2>3
  <2>5. MergeInv'
    BY <2>1, <2>4 DEF MergeInv
  <2> QED
    BY <1>1, <2>3, <2>5 DEF Unseen
<1>10. CASE ReorderUp
  <2>1. pc = "reorder" /\ pc' = "done"
    BY <1>10 DEF ReorderUp
  <2>2. OthersOk(target) /\ Reordering(target) /\ Reversed(Rows(target, "message"))
    BY <2>1 DEF FramesInv, MergeInv, MessagesInv
  <2>3. Facts(target') = Facts(target)
    BY <1>10, <2>2, ReorderUpReorders
  <2>4. Importable(src)'
    BY <1>1, <1>2
  <2>5. MergeInv'
    BY <2>1, <2>4 DEF MergeInv
  <2> QED
    BY <1>1, <2>3, <2>5 DEF Unseen
<1> QED
  BY <1>3, <1>4, <1>5, <1>6, <1>7, <1>8, <1>9, <1>10

-----------------------------------------------------------------------------
LEMMA MergeStep ==
  ASSUME IInv, FramesInv, MessagesInv, LinksInv, MainOk, MergeInv, [Next]_vars
  PROVE  MergeInv' /\ [Merge!Import \/ Merge!Skip]_<<Facts(target), Facts(src), Left, compatible>>
<1>1. CASE Insert
  <2>1. compatible
    BY <1>1 DEF Insert, MergeInv
  <2> QED
    BY <1>1, <2>1, InsertMerges
<1>2. CASE Incompatible \/ SkipThread
  BY <1>2, SkipMerges
<1>3. ASSUME Unseen
      PROVE  UNCHANGED <<Facts(target), Facts(src), Left, compatible>>
  <2>1. Facts(target)' = Facts(target) /\ Facts(src)' = Facts(src)
    BY <1>3 DEF Unseen
  <2> QED
    BY <1>3, <2>1 DEF Unseen
<1>4. CASE UNCHANGED vars
  BY <1>3, <1>4, StutterMerges
<1>5. CASE \/ Crop \/ MakeUnique \/ SetThread \/ MatchRecipient \/ DropExisting \/ checkDbIntegrity
           \/ ReorderDown \/ ReorderUp
  BY <1>3, <1>5, UnseenMerges
<1> QED
  BY <1>1, <1>2, <1>4, <1>5 DEF Next

(* The theorem: for all backups and lists of threads that can be merged, what the   *)
(* target says in the end of each thread is what it said, what the source says of  *)
(* the thread, and nothing else; renumbering, matching and reordering change       *)
(* nothing that is said.                                                          *)
THEOREM ImportIsAMerge ==
  ASSUME \A input \in Inputs : Mergeable(input)
  PROVE  Spec => ImplementsImport
<1>1. Init => MergeInv
  BY MergeStart
<1>2. \A input \in Inputs : Renumberable(input)
  BY DEF Mergeable
<1>3. Init => LinksInv
  BY <1>2, LinksStart
<1>4. Init => MainOk
  <2> SUFFICES ASSUME Init
               PROVE  MainOk
    OBVIOUS
  <2>1. threads \in Seq(Int)
    BY ImportAssumption DEF Init
  <2> QED
    BY <2>1 DEF Init, MainOk, NULL
<1>5. Spec => [](IInv /\ FramesInv /\ MessagesInv /\ LinksInv /\ MainOk)
  BY <1>3, <1>4, LinksInvariance, MainInvariance, ImportInvariants, PTL DEF Spec
<1>6. IInv /\ FramesInv /\ MessagesInv /\ LinksInv /\ MainOk /\ MergeInv /\ [Next]_vars
        => MergeInv' /\ [Merge!Import \/ Merge!Skip]_<<Facts(target), Facts(src), Left, compatible>>
  BY MergeStep
<1> QED
  BY <1>1, <1>5, <1>6, PTL DEF Spec, ImplementsImport, Merge!MergedSpec
=============================================================================
