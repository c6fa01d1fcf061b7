------------------------------ MODULE MergedBackup ------------------------------
(* What importing threads promises, with no _ids, tables or order of statements:  *)
(* the facts of the target stay, the facts about the thread are added, and what   *)
(* both backups know is there once.  Facts are records as Facts of Database makes *)
(* them; a group goes by the same name as member of a fact and as recipient.      *)
EXTENDS Sequences

VARIABLES held,       \* the facts of the backup that is imported into
          other,      \* the facts of the source
          left,       \* the threads that are to be imported, by name
          possible    \* the two backups go together

Part(f, t) ==
  LET message    == {m \in f.message : m.thread = t}
      named      == {m.who : m \in message}
      attachment == {a \in f.attachment : a.message \in named}
      reaction   == {r \in f.reaction : r.message \in named}
      member     == {m \in f.membership : m.group = t /\ message # {}}
      thread     == {r \in f.thread : r.who = t /\ message # {}}
      people     == {r.recipient : r \in thread} \cup {m.from : m \in message}
                       \cup {r.author : r \in reaction} \cup {m.member : m \in member}
  IN  [thread |-> thread, message |-> message, attachment |-> attachment,
       recipient |-> f.recipient \cap people, reaction |-> reaction, membership |-> member,
       data |-> {d \in f.data : d.row \in {a.who : a \in attachment}},
       avatar |-> {a \in f.avatar : a.of \in people}]

With(f, part, avatars) ==
  [k \in DOMAIN f |-> f[k] \cup IF k = "avatar" THEN avatars ELSE part[k]]

(* All of the thread, save for avatars: those of people the target knows stay.   *)
Import ==
  /\ left # <<>> /\ possible
  /\ \E t \in other.thread : t.who = Head(left)
  /\ LET part == Part(other, Head(left))
     IN  \E avatars \in SUBSET part.avatar : held' = With(held, part, avatars)
  /\ left' = Tail(left)
  /\ UNCHANGED <<other, possible>>

(* A thread that is not there, or that cannot be imported, changes nothing.      *)
Skip ==
  /\ left # <<>>
  /\ ~ possible \/ ~ \E t \in other.thread : t.who = Head(left)
  /\ left' = Tail(left)
  /\ UNCHANGED <<held, other, possible>>

MergedSpec == [][Import \/ Skip]_<<held, other, left, possible>>
=============================================================================
