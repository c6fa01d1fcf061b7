-------------------------------- MODULE MCSession --------------------------------
(* Session on a small backup with any one of its blocks damaged, one attachment *)
(* of which may have been declared with the wrong size or none, and one         *)
(* statement of which is there twice.                                           *)
EXTENDS SessionImplements, SampleBackups

Layout(s) ==
  <<F("HEADER", 1, "none"), F("DATABASEVERSION", 1, "none"), F("SQLSTATEMENT", 1, "none"),
    F("ATTACHMENT", 1, "fits"), F("SQLSTATEMENT", 2, "none"), F("ATTACHMENT", 2, s),
    F("SQLSTATEMENT", 1, "none"), F("SQLSTATEMENT", 3, "none"), F("STICKER", 3, "fits"),
    F("SHAREDPREFERENCE", 1, "none"), F("KEYVALUE", 1, "none"), F("AVATAR", 1, "fits"),
    F("AVATAR", 2, "fits"), F("END", 1, "none")>>

Command(ok, version, keep, html, flush) ==
  [keyok |-> ok, d_backupfileversion |-> version, d_stoponerror |-> FALSE,
   d_fulldecode |-> FALSE, keepattachmentdatainmemory |-> keep, dumpmedia |-> TRUE,
   exporthtml |-> html, FlushMayFail |-> flush]

(* A version 1 file, media dumped and dropped after use; a version 0 file, also *)
(* exported to HTML, with the data kept and a disk that fills up in the end.    *)
MCCommands ==
  UNION {{Command(ok, 1, FALSE, FALSE, FALSE), Command(ok, 0, TRUE, TRUE, TRUE)} : ok \in BOOLEAN}

HtmlCommands ==
  {[Command(ok, 1, FALSE, TRUE, FALSE) EXCEPT !.dumpmedia = FALSE] : ok \in BOOLEAN}

Hurts(s) == IF s = "fits" THEN {"none", "length", "body"} ELSE {"none", "body"}

MCFiles ==
  UNION {LET b == Written(Layout(s), FirstCounter)
         IN  {Hurt(b, j, d) : j \in 2 .. Len(b), d \in Hurts(s)} : s \in Sizes}
=============================================================================
