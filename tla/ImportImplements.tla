----------------------------- MODULE ImportImplements -----------------------------
(* importThread implements MergedBackup: what the target says is the union, step  *)
(* by step, and renumbering, matching and reordering are steps nobody sees.       *)
EXTENDS ImportThread

ThreadName(t) == IF t \in Ids(src, "thread") THEN Rows(src, "thread")[t].who ELSE "no thread"

Left == LET rest == IF pc = "check" THEN Tail(threads) ELSE threads
        IN  [i \in DOMAIN rest |-> ThreadName(rest[i])]

Merge == INSTANCE MergedBackup WITH held <- Facts(target), other <- Facts(src),
                                    left <- Left, possible <- compatible

(* Each imported thread is in the target with all its messages, their senders,   *)
(* attachments, edits, reactions and members, nothing of the target has changed, *)
(* and no other thread of the source is there.                                   *)
ImplementsImport == Merge!MergedSpec

-----------------------------------------------------------------------------
(* The backups that this is promised for.  "who" tells rows apart, and a thread   *)
(* goes by the name of the contact or group it is with.                          *)
UniqueNames(b, t) == \A i, j \in Ids(b, t) : Rows(b, t)[i].who = Rows(b, t)[j].who => i = j

ThreadsNamed(b) == \A f \in Facts(b).thread : f.who = f.recipient

NamesApart(b, t) ==
  UniqueNames(b, t) /\ \A r \in Contents(b, t) : r.who \notin {"nothing", "dangling", "no thread"}

RowsNamed(b) == \A t \in {"thread", "message", "attachment", "recipient"} : NamesApart(b, t)

(* Of a thread with a group, and of no other, there are members of that name.     *)
GroupsNamed(b) ==
  \A r \in Contents(b, "thread"), m \in Contents(b, "group_membership") :
     m.group_id # "" /\ (m.group_id = r.who <=> m.group_id = Rows(b, "recipient")[r.recipient_id].group_id)

(* Two recipients share a number, or the identifier of a group, when they are the *)
(* same.                                                                         *)
KnownApart(b, c) ==
  \A r \in Contents(b, "recipient") \cup Contents(c, "recipient"), s \in Contents(c, "recipient") :
     Same(r, s, Fields) <=> r.who = s.who

(* A message that is in both backups, as the UNIQUE constraint sees it.           *)
Coincide(m, n) == m.date_sent = n.date_sent /\ m.from = n.from /\ m.thread = n.thread

Mergeable(input) ==
  LET b == input.target
      c == input.source
  IN  /\ Renumberable(input)
      /\ RowsOk(b) /\ RefersWithin(b) /\ HaveRows(b)
      /\ UniqueNames(b, "recipient") /\ ThreadsNamed(b)
      /\ RowsNamed(c) /\ ThreadsNamed(c) /\ GroupsNamed(c)
      /\ KnownApart(b, c)
      /\ \A m \in Facts(b).message, n \in Facts(c).message : ~ Coincide(m, n)
      /\ \A i, j \in DOMAIN input.threads : input.threads[i] = input.threads[j] => i = j
=============================================================================
