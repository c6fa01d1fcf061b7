------------------------------- MODULE BackupCopy -------------------------------
(* What exporting a backup promises: the frames are copied in their order, none *)
(* but those whose data does not verify is left out, and the copy is either     *)
(* complete or broken off.                                                      *)
EXTENDS Naturals, Sequences

VARIABLES todo,    \* the frames that are still to be copied, in their order
          copied,  \* the frames of the copy
          status,  \* "idle", "open", "complete" or "broken"
          bad      \* the frames whose data does not verify

CopyInit == todo = <<>> /\ copied = <<>> /\ status = "idle"

Begin ==
  /\ status = "idle"
  /\ status' = "open"
  /\ Len(copied') = 1

Copy ==
  /\ status = "open" /\ todo # <<>>
  /\ copied' = Append(copied, Head(todo))
  /\ todo' = Tail(todo)
  /\ status' = IF todo' = <<>> THEN "complete" ELSE "open"

LeaveOut ==
  /\ status = "open" /\ todo # <<>>
  /\ Head(todo) \in bad
  /\ todo' = Tail(todo)
  /\ UNCHANGED <<copied, status>>

(* What is left of a copy that is broken off is the beginning of one, or it     *)
(* breaks off right after a frame was copied.                                   *)
BreakOff ==
  /\ status \in {"idle", "open"}
  /\ status' = "broken" /\ todo' = <<>>
  /\ \/ \E n \in 0 .. Len(copied) : copied' = SubSeq(copied, 1, n)
     \/ todo # <<>> /\ copied' = Append(copied, Head(todo))

CopyNext == Begin \/ Copy \/ LeaveOut \/ BreakOff

CopySpec == CopyInit /\ [][CopyNext]_<<todo, copied, status>>
=============================================================================
