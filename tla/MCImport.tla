-------------------------------- MODULE MCImport --------------------------------
(* Two small backups with contacts, a group and threads in common, or not.        *)
EXTENDS ImportImplements, TLC

Contact(who, aci, e164) == [who |-> who, aci |-> aci, e164 |-> e164, group_id |-> ""]
Group(who) == [who |-> who, aci |-> "", e164 |-> "", group_id |-> who]
Thread(who, r, snippet) == [who |-> who, recipient_id |-> r, snippet_message_id |-> snippet]
Message(who, t, from, date, preview, original) ==
  [who |-> who, thread_id |-> t, from_recipient_id |-> from, date_sent |-> date,
   link_previews |-> preview, original_message_id |-> original]
Attachment(who, m) == [who |-> who, message_id |-> m]
Reaction(who, m, author) == [who |-> who, message_id |-> m, author_id |-> author]
Member(g, r) == [who |-> "member", group_id |-> g, recipient_id |-> r]
Avatar(r, picture) == [recipient |-> r, picture |-> picture]

(* The _ids of the source: the k-th of n rows.                                   *)
Layouts == {"dense", "gaps", "reverse"}
Id(layout, n, k) == CASE layout = "dense"   -> k
                      [] layout = "gaps"    -> 2 * k
                      [] layout = "reverse" -> n + 1 - k

Source(l) ==
  LET alice == Id(l, 3, 1)  bob == Id(l, 3, 2)  fam == Id(l, 3, 3)
      m1 == Id(l, 3, 1)  m2 == Id(l, 3, 2)  m3 == Id(l, 3, 3)
      p1 == Id(l, 3, 1)  p2 == Id(l, 3, 2)  p3 == Id(l, 3, 3)
  IN  [d_database |->
         [recipient |-> alice :> Contact("alice", "aci-alice", "tel-alice")
                     @@ bob   :> Contact("bob", "aci-bob", "tel-bob")
                     @@ fam   :> Group("fam"),
          thread |-> 1 :> Thread("alice", alice, m1) @@ 2 :> Thread("fam", fam, m3),
          message |-> m1 :> Message("m1", 1, alice, 2, p1, NULL)
                   @@ m2 :> Message("m2", 2, bob, 4, NULL, NULL)
                   @@ m3 :> Message("m3", 2, alice, 6, NULL, m2),
          attachment |-> p1 :> Attachment("p1", m1) @@ p2 :> Attachment("p2", m2)
                      @@ p3 :> Attachment("p3", m3),
          reaction |-> 2 :> Reaction("x1", m2, alice) @@ 3 :> Reaction("x2", m2, bob)
                    @@ 5 :> Reaction("x3", m3, bob),
          group_membership |-> 1 :> Member("fam", alice) @@ 4 :> Member("fam", bob)],
       d_attachments |-> p1 :> "data1" @@ p2 :> "data2" @@ p3 :> "data3",
       d_avatars |-> {Avatar(alice, "alice's"), Avatar(fam, "fam's")}]

(* The target: carol, whose message has the _id "last", and those it knows and    *)
(* talks to.  alice may be known by one of her numbers only.                     *)
TargetId == [alice |-> 5, bob |-> 3, fam |-> 4, carol |-> 6]

Target(known, chats, by, last) ==
  LET alice == Contact("alice", IF by = "phone" THEN "" ELSE "aci-alice",
                                IF by = "aci" THEN "" ELSE "tel-alice")
      contact == [alice |-> alice, bob |-> Contact("bob", "aci-bob", ""), fam |-> Group("fam"),
                  carol |-> Contact("carol", "aci-carol", "tel-carol")]
      chat == [carol |-> 3, alice |-> 1, fam |-> 2]
      message == [carol |-> last, alice |-> 3, fam |-> 2]
      date == [carol |-> 1, alice |-> 3, fam |-> 4]
      here == known \cup {"carol"}
      talks == chats \cup {"carol"}
  IN  [d_database |->
         [recipient |-> [i \in {TargetId[w] : w \in here} |->
                           contact[CHOOSE w \in here : TargetId[w] = i]],
          thread |-> [i \in {chat[w] : w \in talks} |->
                        LET w == CHOOSE x \in talks : chat[x] = i
                        IN  Thread(w, TargetId[w], message[w])],
          message |-> [i \in {message[w] : w \in talks} |->
                         LET w == CHOOSE x \in talks : message[x] = i
                         IN  Message(w, chat[w], TargetId["carol"], date[w],
                                     IF w = "carol" THEN 2 ELSE NULL, NULL)],
          attachment |-> 2 :> Attachment("q", last),
          reaction |-> 1 :> Reaction("y", last, TargetId["carol"]),
          group_membership |-> IF "fam" \notin known THEN <<>>
                               ELSE [i \in {TargetId[w] : w \in known \ {"fam"}} |-> Member("fam", i)]],
       d_attachments |-> 2 :> "data-q",
       d_avatars |-> IF "alice" \in known /\ by = "aci" THEN {Avatar(TargetId["alice"], "old")} ELSE {}]

Input(t, s, c) == [target |-> t, source |-> s, threads |-> <<1, 9, 2>>, compatible |-> c]

(* Anyone known to both, by whichever number, with a thread in both or in one.   *)
(* The target is the larger backup: its _ids reach as far as those of the source. *)
MCInputs ==
  {Input(t, Source(l), TRUE) :
     l \in Layouts,
     t \in UNION {{Target(known, chats, by, 6) : chats \in SUBSET (known \ {"bob"})} :
                    known \in SUBSET {"alice", "bob", "fam"}, by \in {"both", "phone", "aci"}}}
  \cup {Input(Target({}, {}, "both", 6), Source("dense"), FALSE)}

(* So what the theorems ask of the backups is true of these.                      *)
ASSUME MCMergeable == \A input \in MCInputs : Mergeable(input)

(* A target with fewer messages than the source.                                 *)
SmallTargetInputs == {Input(Target({}, {}, "both", 1), Source("dense"), TRUE)}
=============================================================================
