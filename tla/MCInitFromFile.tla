----------------------------- MODULE MCInitFromFile -----------------------------
(* InitFromFile on every file that damage to two blocks, or a cut at one block, *)
(* makes of two small backups.                                                  *)
EXTENDS InitFromFile, SampleBackups

CONSTANTS MisfitSizes   \* whether some attachment's declared size may be wrong

Layouts ==
  { <<F("HEADER", 1, "none"), F("DATABASEVERSION", 1, "none"), F("SQLSTATEMENT", 1, "none"),
      F("ATTACHMENT", 1, s), F("SQLSTATEMENT", 2, "none"), F("ATTACHMENT", 2, "fits"),
      F("AVATAR", 1, "fits"), F("END", 1, "none")>>
      : s \in {"fits"} \cup (IF MisfitSizes THEN {"misfit"} ELSE {}) }
  \cup
  { <<F("HEADER", 1, "none"), F("SQLSTATEMENT", 1, "none"), F("UNKNOWN", 1, "none"),
      F("STICKER", 1, "fits"), F("ATTACHMENT", 1, "none"), F("STICKER", 1, "fits"),
      F("KEYVALUE", 1, "none"), F("SHAREDPREFERENCE", 1, "none"), F("AVATAR", 2, "fits"),
      F("END", 1, "none")>> }

Command(ok, version, stop, full) ==
  [keyok |-> ok, d_backupfileversion |-> version, d_stoponerror |-> stop, d_fulldecode |-> full,
   keepattachmentdatainmemory |-> FALSE, dumpmedia |-> FALSE, exporthtml |-> FALSE,
   FlushMayFail |-> FALSE]

(* Version 1; version 0 with the search; version 0 without.                     *)
MCCommands ==
  UNION {{Command(ok, 1, FALSE, FALSE), Command(ok, 0, FALSE, FALSE), Command(ok, 0, TRUE, TRUE)}
         : ok \in BOOLEAN}

MCFiles ==
  LET files == {Written(l, FirstCounter) : l \in Layouts}
  IN  UNION {Damaged(b) \cup CutShortFiles(b) : b \in files}
=============================================================================
