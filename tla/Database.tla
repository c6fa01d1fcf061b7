------------------------------- MODULE Database -------------------------------
(* The tables of a backup that refer to each other by _id, what SQLite does with *)
(* an UPDATE that meets a UNIQUE constraint on the way, and the links the program *)
(* knows of (s_databaselinks).  Of the some forty tables the six are kept that    *)
(* show every kind of link: plain, to the own table, inside a JSON value, into a  *)
(* table with a UNIQUE constraint of either kind.  A row also carries "who": what *)
(* it stands for, whatever its _id is.  The program does not know of it.          *)
EXTENDS Integers, FiniteSets, Sequences, Functions

NULL == 0               \* no reference; the _ids of rows start at 1

Tables == {"thread", "message", "attachment", "recipient", "reaction", "group_membership"}

(* A column that is declared to hold the _id of a row of another table.  Only    *)
(* columns of this kind are renumbered; `json` is a value inside a JSON document. *)
Connection(t, c)     == [table |-> t, column |-> c, json |-> FALSE, uniquely |-> FALSE]
JsonConnection(t, c) == [Connection(t, c) EXCEPT !.json = TRUE]
UniqueConnection(t, c) == [Connection(t, c) EXCEPT !.uniquely = TRUE]

(* The tables in the order in which they are renumbered.                         *)
s_databaselinks ==
  << [table |-> "thread", compact |-> FALSE,
      connections |-> {Connection("message", "thread_id")}],
     [table |-> "message", compact |-> TRUE,
      connections |-> {Connection("attachment", "message_id"),
                       Connection("reaction", "message_id"),
                       Connection("message", "original_message_id"),
                       Connection("thread", "snippet_message_id")}],
     [table |-> "attachment", compact |-> TRUE,
      connections |-> {JsonConnection("message", "link_previews")}],
     [table |-> "recipient", compact |-> FALSE,
      connections |-> {Connection("message", "from_recipient_id"),
                       Connection("thread", "recipient_id"),
                       Connection("reaction", "author_id"),
                       UniqueConnection("group_membership", "recipient_id")}],
     [table |-> "reaction", compact |-> TRUE, connections |-> {}],
     [table |-> "group_membership", compact |-> TRUE, connections |-> {}] >>

Connections == UNION {s_databaselinks[i].connections : i \in DOMAIN s_databaselinks}

(* The columns that refer to table t: never more than one of the same table.     *)
ConnectionsTo(t) ==
  UNION {s_databaselinks[i].connections :
           i \in {j \in DOMAIN s_databaselinks : s_databaselinks[j].table = t}}

-----------------------------------------------------------------------------
(* Columns no two rows of a table may agree in.  A reaction that would, replaces *)
(* the other one (ON CONFLICT REPLACE); any other statement fails as a whole.    *)
UniqueColumns(t) ==
  CASE t = "thread"           -> {"recipient_id"}
    [] t = "message"          -> {"date_sent", "from_recipient_id", "thread_id"}
    [] t = "reaction"         -> {"message_id", "author_id"}
    [] t = "group_membership" -> {"group_id", "recipient_id"}
    [] OTHER                  -> {}

Key(t, row) == [c \in UniqueColumns(t) |-> row[c]]

(* SQLite changes row after row, in the order of their _ids, and looks at the    *)
(* constraint each time: i meets j when j still has, or has already been given,  *)
(* the key that i gets.                                                          *)
Meets(t, old, new, i, j) ==
  /\ UniqueColumns(t) # {} /\ i # j
  /\ Key(t, new[i]) # Key(t, old[i])
  /\ Key(t, new[i]) = Key(t, IF j < i THEN new[j] ELSE old[j])

Displaced(t, old, new) ==
  LET alive[i \in DOMAIN old] ==
        ~ \E h \in DOMAIN old : h < i /\ alive[h] /\ Meets(t, old, new, h, i)
  IN  {j \in DOMAIN old : \E i \in DOMAIN old : alive[i] /\ Meets(t, old, new, i, j)}

(* The rows after UPDATE t, which would turn old into new.  Errors are ignored.  *)
Update(t, old, new) ==
  LET displaced == Displaced(t, old, new)
  IN  IF displaced # {} /\ t # "reaction" THEN old
                                          ELSE Restrict(new, DOMAIN new \ displaced)

(* The rows with column c of each changed by f.                                  *)
WithColumn(rows, c, f(_)) == [i \in DOMAIN rows |-> [rows[i] EXCEPT ![c] = f(@)]]

(* UPDATE t SET _id = f(_id).  The _id is the primary key.                       *)
Rekey(rows, f(_)) ==
  LET collides == \E i, j \in DOMAIN rows : i < j /\ f(i) \in {j, f(j)}
  IN  IF collides THEN rows
      ELSE [k \in {f(i) : i \in DOMAIN rows} |-> rows[CHOOSE i \in DOMAIN rows : f(i) = k]]

(* Every reference to one row of table t made a reference to another.            *)
Renamed(value, new, old) == IF value = old THEN new ELSE value

Redirected(tables, t, new, old) ==
  [u \in Tables |->
     LET columns == {c.column : c \in {d \in ConnectionsTo(t) : d.table = u}}
     IN  IF columns = {} THEN tables[u]
         ELSE Update(u, tables[u], WithColumn(tables[u], CHOOSE c \in columns : TRUE,
                                              LAMBDA v : Renamed(v, new, old)))]

-----------------------------------------------------------------------------
(* A backup in memory: its tables, the data of its attachments by row and its    *)
(* avatars, each with the recipient it is of.                                    *)
Rows(b, t) == b.d_database[t]
Ids(b, t) == DOMAIN Rows(b, t)
Contents(b, t) == Range(Rows(b, t))

(* What a backup says, whatever its _ids are: a set of facts per table, in which *)
(* every reference is replaced by what it refers to.                             *)
Name(b, t, id) ==
  CASE id = NULL                       -> "nothing"
    [] id # NULL /\ id \in Ids(b, t)   -> Rows(b, t)[id].who
    [] id # NULL /\ id \notin Ids(b, t) -> "dangling"

Facts(b) ==
  [thread     |-> {[who |-> r.who, recipient |-> Name(b, "recipient", r.recipient_id)]
                     : r \in Contents(b, "thread")},
   message    |-> {[who |-> r.who, date_sent |-> r.date_sent,
                    thread   |-> Name(b, "thread", r.thread_id),
                    from     |-> Name(b, "recipient", r.from_recipient_id),
                    preview  |-> Name(b, "attachment", r.link_previews),
                    original |-> Name(b, "message", r.original_message_id)]
                     : r \in Contents(b, "message")},
   attachment |-> {[who |-> r.who, message |-> Name(b, "message", r.message_id)]
                     : r \in Contents(b, "attachment")},
   recipient  |-> {r.who : r \in Contents(b, "recipient")},
   reaction   |-> {[who |-> r.who, message |-> Name(b, "message", r.message_id),
                    author |-> Name(b, "recipient", r.author_id)]
                     : r \in Contents(b, "reaction")},
   membership |-> {[group |-> r.group_id, member |-> Name(b, "recipient", r.recipient_id)]
                     : r \in Contents(b, "group_membership")},
   data       |-> {[row |-> Name(b, "attachment", i), data |-> b.d_attachments[i]]
                     : i \in DOMAIN b.d_attachments},
   avatar     |-> {[of |-> Name(b, "recipient", a.recipient), picture |-> a.picture]
                     : a \in b.d_avatars}]

(* The message a thread says its snippet was taken from.                         *)
Snippets(b) ==
  {[thread |-> r.who, message |-> Name(b, "message", r.snippet_message_id)]
     : r \in Contents(b, "thread")}

=============================================================================
