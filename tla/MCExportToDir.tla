----------------------------- MODULE MCExportToDir -----------------------------
(* ExportToDir on three small backups and a directory that is empty or holds an *)
(* older one.                                                                   *)
EXTENDS ExportToDir

M(id, uniqueid, data, good) == [id |-> id, uniqueid |-> uniqueid, data |-> data, good |-> good]

(* All is well: two attachments, one of them without a unique id, more avatars  *)
(* than have one digit.                                                         *)
Sound ==
  [version |-> TRUE, rows |-> <<"a1", "a2", "message">>,
   attachments |-> <<M(1, 0, "a1", TRUE), M(2, 7, "a2", TRUE)>>,
   avatars |-> <<M(8, 0, "v8", TRUE), M(9, 0, "v9", TRUE)>>,
   sharedprefs |-> <<<<"p1">>, <<"p2">>>>, keyvalues |-> <<>>, stickers |-> <<>>]

(* Data that is damaged or has no size. *)
Damaged ==
  [version |-> TRUE, rows |-> <<"a1", "a2">>,
   attachments |-> <<M(1, 7, "a1", FALSE), M(2, 7, "a2", TRUE)>>,
   avatars |-> <<M(8, 0, "", TRUE), M(9, 0, "v9", FALSE)>>,
   sharedprefs |-> <<<<"p1">>>>, keyvalues |-> <<>>,
   stickers |-> <<M(4, 0, "s4", FALSE)>>]

(* An attachment without a row, an avatar without size; all else is well.       *)
Sizeless ==
  [version |-> TRUE, rows |-> <<"message">>, attachments |-> <<M(5, 7, "a5", TRUE)>>,
   avatars |-> <<M(8, 0, "", TRUE)>>, sharedprefs |-> <<>>, keyvalues |-> <<<<"k1">>>>,
   stickers |-> <<M(4, 0, "s4", TRUE)>>]

(* Loading broke off before the version frame. *)
Versionless ==
  [version |-> FALSE, rows |-> <<"message">>, attachments |-> <<>>, avatars |-> <<>>,
   sharedprefs |-> <<<<"p1">>>>, keyvalues |-> <<>>, stickers |-> <<>>]

MCBackups == {Sound, Damaged, Sizeless, Versionless}

(* What the directory was used for before. *)
MCOldBackups ==
  {[version |-> TRUE, rows |-> <<"b1">>, attachments |-> <<M(1, 7, "b1", TRUE)>>,
    avatars |-> <<M(6, 0, "v6", TRUE)>>, sharedprefs |-> <<<<"q1">>, <<"q2">>>>,
    keyvalues |-> <<>>, stickers |-> <<>>]}

Command(o, d, i) == [overwrite |-> o, onlydb |-> d, inputinside |-> i]

MCCommands ==
  {Command(TRUE, FALSE, FALSE), Command(TRUE, FALSE, TRUE), Command(TRUE, TRUE, FALSE),
   Command(FALSE, FALSE, TRUE)}

(* What the theorems about the runs suppose. *)
ASSUME \A b \in MCBackups : WithoutBreaks(b) /\ RowsTell(b)

(* A preference with a line break in it. *)
TwoLines == {[Sound EXCEPT !.sharedprefs = <<<<"p1", "more">>, <<"p2">>>>]}
=============================================================================
