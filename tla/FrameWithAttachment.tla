-------------------------- MODULE FrameWithAttachment --------------------------
(* FrameWithAttachment and the readers behind it: the data of an attachment,    *)
(* avatar or sticker is read when first asked for and kept until clearData().   *)
(* A state of one such frame is a record; the operators give the results of a   *)
(* call as the set of records [att, data, badmac] it may end in.                *)
EXTENDS Naturals

Contents == {"none", "good", "corrupt"}

(* data      d_attachmentdata: nothing held, or bytes that are right or wrong   *)
(* reader    d_attachmentreader is set                                          *)
(* noclear   d_noclear: the data came from memory, nothing can read it back     *)
Attachments == [data : Contents, reader : BOOLEAN, noclear : BOOLEAN]

Backed   == [data |-> "none", reader |-> TRUE, noclear |-> FALSE]
Unread   == [data |-> "none", reader |-> FALSE, noclear |-> FALSE]
InMemory == [data |-> "good", reader |-> FALSE, noclear |-> TRUE]

(* What getAttachment can come to, from what the disk holds.                    *)
ReturnCode == {"OK", "BADMAC", "ERROR"}

Reading(att, data, badmac) == [att |-> att, data |-> data, badmac |-> badmac]

(* AndroidAttachmentReader::getAttachment.  The decrypted bytes are handed to   *)
(* the frame before the result of comparing the MACs is returned.               *)
getAttachment(att, result) ==
  CASE result = "OK"     -> [att EXCEPT !.data = "good"]
    [] result = "BADMAC" -> [att EXCEPT !.data = "corrupt"]
    [] result = "ERROR"  -> att

(* Mutant: what was read is given out whatever the MAC said.                    *)
attachmentData_Unverified(att, result) ==
  IF att.data # "none" THEN Reading(att, att.data, FALSE)
  ELSE IF ~att.reader THEN Reading(att, "none", FALSE)
  ELSE Reading(getAttachment(att, result), getAttachment(att, result).data, result = "BADMAC")

(* FrameWithAttachment::attachmentData, where the disk gives result.            *)
attachmentData(att, result) ==
  IF att.data # "none" THEN Reading(att, att.data, FALSE)
  ELSE IF ~att.reader THEN Reading(att, "none", FALSE)
  ELSE Reading(getAttachment(att, result),
               IF result = "OK" THEN "good" ELSE "none",
               result = "BADMAC")

(* FrameWithAttachment::clearData.  It is a call through d_attachmentreader,    *)
(* so a frame that can be cleared needs one.                                    *)
ClearIsDefined(att) == att.noclear \/ att.reader

clearData(att) == IF att.noclear THEN att ELSE [att EXCEPT !.data = "none"]
=============================================================================
