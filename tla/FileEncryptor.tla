----------------------------- MODULE FileEncryptor -----------------------------
(* FileEncryptor and the ofstream behind it: blocks are appended to a new file, *)
(* each under the next value of the encryptor's own counter.                    *)
EXTENDS BackupFile

VARIABLES out,        \* the blocks written so far
          e_counter,  \* FileEncryptor::d_counter
          laundered   \* history: the blocks of out whose data is not the original's

encryptorVars == <<out, e_counter, laundered>>

(* init: the counter is the one in the header's iv; the header itself is plain. *)
OpenEncryptor(header, first) ==
  /\ out' = <<Block("frame", header, 0)>>
  /\ e_counter' = first
  /\ laundered' = {}

(* Mutant: the counter stays.                                                   *)
EncryptFrame_SameIv(f) ==
  /\ out' = Append(out, Block("frame", f, e_counter))
  /\ UNCHANGED <<e_counter, laundered>>

(* encryptFrame, and the frame's bytes written.                                 *)
EncryptFrame(f) ==
  /\ out' = Append(out, Block("frame", f, e_counter))
  /\ e_counter' = e_counter + 1
  /\ UNCHANGED laundered

(* encryptFrame, then encryptAttachment: the length in the frame is the length  *)
(* of the data that is written, whatever it was in the file it was read from.   *)
(* Mutant: the length that was read is written again.                           *)
Sized_AsRead(f) == f

Sized(f) == IF f.size = "none" THEN f ELSE [f EXCEPT !.size = "fits"]

EncryptWithAttachment(f, data) ==
  LET g == Sized(f)
  IN  /\ out' = out \o <<Block("frame", g, e_counter), Block("data", g, e_counter + 1)>>
      /\ e_counter' = e_counter + 2
      /\ laundered' = IF data = "corrupt" THEN laundered \cup {Len(out) + 2} ELSE laundered

(* A write fails: of what was handed to the stream, a beginning is on disk, and *)
(* its last block need not be whole.                                            *)
WriteFails ==
  /\ \E k \in 1 .. Len(out), d \in {"none", "cut", "cutmac"} :
       /\ out' = [SubSeq(out, 1, k) EXCEPT ![k].damage = d]
       /\ laundered' = laundered \cap (1 .. k)
  /\ UNCHANGED e_counter
=============================================================================
