----------------------------- MODULE OfferedBackup -----------------------------
(* What unpacking a backup into a directory promises to who opens the directory *)
(* at any time: what was in it, with ever more of it missing, then nothing,     *)
(* shortly perhaps a backup without rows, and the new one with the last step.   *)
EXTENDS Naturals, Sequences

CONSTANTS Part(_, _),    \* the first is the second with something missing
          Left(_, _),    \* the first is what may be left when the second failed
          Blank(_)       \* nothing opens, or a backup with a blank database

VARIABLES offered,  \* what opening the directory would give
          new,      \* the backup that is unpacked
          status    \* "before", "replacing", "begun", "complete", "refused", "broken"

Lose ==
  /\ status \in {"before", "replacing"} /\ status' = "replacing"
  /\ Part(offered', offered)

Refuse ==
  /\ status \in {"before", "replacing"} /\ status' = "refused"
  /\ offered' = offered

Begin ==
  /\ status = "replacing" /\ ~offered.ok
  /\ status' = "begun"
  /\ Blank(offered')

Complete ==
  /\ status = "begun" /\ status' = "complete"
  /\ offered' = new

BreakOff ==
  /\ status = "begun" \/ (status = "replacing" /\ ~offered.ok)
  /\ status' = "broken"
  /\ Left(offered', new)

OfferedNext == (Lose \/ Refuse \/ Begin \/ Complete \/ BreakOff) /\ UNCHANGED new

OfferedSpec == status = "before" /\ [][OfferedNext]_<<offered, new, status>>
=============================================================================
