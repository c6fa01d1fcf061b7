----------------------------- MODULE MCEditDatabase -----------------------------
(* A backup with an edited message, doubles, a quote, a link preview, a contact    *)
(* with an old and a new number, two groups, mentions and formats, one from the      *)
(* start of a body, and a message of two attachments of different kinds; and what may be asked for, no      *)
(* more than two operations at once.                                              *)
EXTENDS EditDatabase

Contact(who, e164) == [who |-> who, e164 |-> e164]
Thread(snippet, r, n) == [who |-> "thread", recipient_id |-> r, meaningful_messages |-> n,
                      active |-> n > 0, snippet |-> snippet]
Message(who, t, from, to, date, body) ==
  [who |-> who, thread_id |-> t, from_recipient_id |-> from, to_recipient_id |-> to,
   quote_author |-> NULL, date_sent |-> date, date_received |-> date, body |-> body,
   mention |-> 0, range |-> 0, silent |-> FALSE, link_previews |-> NULL,
   original_message_id |-> NULL, latest_revision_id |-> NULL]
Attachment(who, m) == [who |-> who, message_id |-> m, data_size |-> 2, content_type |-> "image"]
Reaction(m, author) == [who |-> "reaction", message_id |-> m, author_id |-> author]
Member(g, r) == [who |-> "member", group_id |-> g, recipient_id |-> r]
Named(g, r) == [who |-> "group", group_id |-> g, recipient_id |-> r]

Self == 1  Alice == 2  Bob == 3  Fam == 4  Alice2 == 5  Club == 6

MCPieces == {"hi", "hello", "you", "x", "y", Note}

(* clash: messages of the same time in both groups, and of both Alices in one;     *)
(* idle: nobody wrote to the new number yet; lost: rows that the backup has lost.  *)
MCBackup(clash, idle, lost) ==
  LET message ==
        << [Message("m1", 1, Alice, Self, 1, <<"hi">>) EXCEPT !.link_previews = 1, !.latest_revision_id = 2],
           [Message("m2", 1, Alice, Self, 4, <<"hello", "you">>) EXCEPT !.original_message_id = 1,
                                                            !.mention = 2, !.range = 2],
           [Message("m3", 3, Bob, Fam, 2, <<"x">>) EXCEPT !.date_received = 3],
           [Message("m4", 3, Bob, Fam, 3, <<"x">>) EXCEPT !.mention = 1, !.range = 1],
           [Message("m5", 2, Alice2, Self, 5, <<>>) EXCEPT !.quote_author = Bob],
           Message("m6", 4, Bob, Club, IF clash THEN 2 ELSE 6, <<"x">>),
           [Message("m7", 1, Alice, Self, 7, <<>>) EXCEPT !.silent = TRUE],
           Message("m8", 3, Alice, Fam, 8, <<"y">>),
           [Message("m9", 3, Alice2, Fam, IF clash THEN 8 ELSE 9, <<"y">>) EXCEPT !.quote_author = Alice] >>
      here == {i \in 1 .. 9 : idle => i # 5}
      Left(t, rows) == Restrict(rows, DOMAIN rows \ {r[2] : r \in {x \in lost : x[1] = t}})
  IN  [d_database |->
         [recipient |-> Left("recipient",
                          << Contact("self", "tel-self"), Contact("alice", "tel-old"), Contact("bob", "tel-bob"),
                             Contact("fam", ""), Contact("alice2", "tel-new"), Contact("club", "") >>),
          groups |-> << Named(11, Fam), Named(12, Club) >>,
          group_membership |-> << Member(11, Self), Member(11, Alice), Member(11, Bob),
                                  Member(12, Self), Member(12, Bob) >>,
          thread |-> Left("thread", << Thread("m2", Alice, 3), Thread("m5", Alice2, IF idle THEN 0 ELSE 1),
                                       Thread("m9", Fam, 4), Thread("m6", Club, 1) >>),
          message |-> Left("message", Restrict(message, here)),
          attachment |-> Restrict(<< Attachment("p1", 1), Attachment("p2", 2), Attachment("p3", 2),
                                     Attachment("p4", 3), Attachment("p5", 4), Attachment("p6", 5),
                                     [Attachment("p7", 5) EXCEPT !.content_type = "audio"] >>,
                                  {i \in 1 .. 7 : idle => i < 6}),
          reaction |-> << Reaction(4, Alice), Reaction(4, Alice2), Reaction(2, Self), Reaction(6, Bob) >>],
       d_attachments |-> [i \in 1 .. IF idle THEN 5 ELSE 7 |-> 2],
       d_avatars |-> {[recipient |-> Bob, picture |-> "bob's"], [recipient |-> Club, picture |-> "club's"]}]

None == [removedoubles |-> -1, croptodates |-> <<>>, croptothreads |-> {}, mergerecipients |-> <<>>,
         mergegroups |-> <<>>, deleteattachments |-> <<>>, autofixfkc |-> FALSE, force |-> FALSE]

Dates(first, last) == [first |-> first, last |-> last, text |-> FALSE]
Id(i) == [phone |-> "", id |-> i]
Phone(p) == [phone |-> p, id |-> NULL]
Delete(threads, before, after, larger) ==
  [threads |-> threads, before |-> before, after |-> after, larger |-> larger,
   mimetypes |-> {}, append |-> 0, prepend |-> 0, bytes |-> 0, replace |-> FALSE, size |-> 3]
All == Delete({}, 0, 0, -1)

Asked ==
  [removedoubles |-> {-1, 0, 1},
   croptodates |-> {<<>>, <<Dates(2, 3), Dates(5, 6)>>, <<[Dates(1, 2) EXCEPT !.text = TRUE]>>,
                    <<Dates(4, 9)>>, <<Dates(NoDate, 3)>>},
   croptothreads |-> {{}, {1, 2}, {2, 3}},
   mergerecipients |-> {<<>>, <<Id(Alice), Id(Alice2)>>, <<Id(Alice2), Id(Alice)>>,
                        <<Phone("tel-old"), Id(Alice2)>>, <<Phone("tel-old"), Phone("tel-new")>>,
                        <<Phone("tel-none"), Id(Alice)>>, <<Id(Alice)>>},
   mergegroups |-> {<<>>, <<Club, Fam>>, <<Fam, Club>>, <<Club, Alice2, Fam>>, <<Fam>>},
   deleteattachments |-> {<<>>, <<All>>, <<Delete({1}, 0, 3, 1)>>, <<Delete({}, NoDate, 0, -1)>>,
                          <<[Delete({2}, 0, 0, 1) EXCEPT !.mimetypes = {"image"}]>>,
                          <<[All EXCEPT !.append = 1]>>,
                          <<[All EXCEPT !.append = 1, !.prepend = 2, !.bytes = 2]>>,
                          <<[Delete({}, 4, 0, -1) EXCEPT !.replace = TRUE]>>},
   autofixfkc |-> BOOLEAN]

(* Two operations of all.                                                          *)
MCCommands ==
  UNION {{[[None EXCEPT ![f] = v] EXCEPT ![g] = w] : v \in Asked[f], w \in Asked[g]} :
           f \in DOMAIN Asked, g \in DOMAIN Asked}

Forced(c) == [c EXCEPT !.force = TRUE]

MCOpenings ==
  {[backup |-> MCBackup(clash, idle, {}), command |-> c] :
     clash \in BOOLEAN, idle \in BOOLEAN, c \in MCCommands \cup {Forced(c) : c \in MCCommands}}
  \cup {[backup |-> MCBackup(FALSE, FALSE, lost), command |-> [None EXCEPT !.autofixfkc = TRUE]] :
          lost \in SUBSET {<<"recipient", Bob>>, <<"recipient", Club>>, <<"thread", 1>>,
                           <<"message", 1>>, <<"message", 4>>}}

(* An old number and a new one, as the documentation has it.                       *)
NumberOpenings ==
  {[backup |-> MCBackup(FALSE, idle, {}),
    command |-> [None EXCEPT !.mergerecipients = <<Phone("tel-old"), Phone("tel-new")>>]] : idle \in BOOLEAN}
=============================================================================
