------------------------------ MODULE BackupFile ------------------------------
(* The encrypted Android backup file, as FileEncryptor writes it and            *)
(* FileDecryptor reads it: one plain header, then frames, each encrypted with   *)
(* AES-CTR under an iv whose first four bytes are a counter, each authenticated *)
(* with a MAC.  A frame of a type that carries data is followed by the data,    *)
(* encrypted under the next counter value.                                      *)
(*                                                                              *)
(* The file is a sequence of blocks.  A block is what one counter value         *)
(* encrypts, so the bytes inside it matter only as far as they are intact.      *)
EXTENDS Naturals, Sequences

CONSTANT IvSpace    \* number of values of the counter bytes of an iv (2^32)

ASSUME IvSpaceAssumption == IvSpace \in Nat \ {0}

(* BackupFrame::FRAMETYPE.  "UNKNOWN" is a field number no class registered     *)
(* for; "INVALID" is the InvalidFrame the decryptor returns in its place.       *)
FRAMETYPE == {"HEADER", "SQLSTATEMENT", "SHAREDPREFERENCE", "ATTACHMENT",
              "DATABASEVERSION", "END", "AVATAR", "STICKER", "KEYVALUE",
              "UNKNOWN", "INVALID"}

(* The types whose frame may be followed by a block of data.                    *)
WithAttachment == {"ATTACHMENT", "AVATAR", "STICKER"}

(* attachmentSize() of a frame, and whether it is the size of what follows:     *)
(* "misfit" is the wrong length some Signal releases wrote (issue 9154).        *)
Sizes == {"none", "fits", "misfit"}

(* What happened to a block since it was written:                               *)
(*   length  the four bytes of a frame's length changed                         *)
(*   body    its other bytes changed                                            *)
(*   cut     the file ends inside it                                            *)
(*   cutmac  the file ends inside its MAC, the data before it is all there      *)
Damage == {"none", "length", "body", "cut", "cutmac"}

Frames(Ids) == [type : FRAMETYPE, id : Ids, size : Sizes]

Blocks(Ids) == [kind : {"frame", "data"}, frame : Frames(Ids),
                iv : 0 .. IvSpace - 1, damage : Damage]

(* CryptBase::uintToFourBytes: the low 32 bits of the 64 bit counter.           *)
uintToFourBytes(counter) == counter % IvSpace

(* attachmentSize() > 0 and the type is one that owns a block of data.          *)
CarriesData(f) == f.size # "none" /\ f.type \in WithAttachment

Block(kind, f, counter) ==
  [kind |-> kind, frame |-> f, iv |-> uintToFourBytes(counter), damage |-> "none"]

(* A file whose blocks are in the order a writer produces: the header, then     *)
(* frames, with data exactly after the frames that carry it, and one counter    *)
(* value for each block after the header; an end frame is the last one.         *)
WellFormed(file, first) ==
  /\ Len(file) > 0 => file[1].kind = "frame" /\ file[1].frame.type = "HEADER"
                                             /\ file[1].frame.size = "none"
  /\ \A k \in 2 .. Len(file) :
        /\ file[k].iv = uintToFourBytes(first + (k - 2))
        /\ file[k].kind = "data" <=> /\ file[k - 1].kind = "frame"
                                     /\ CarriesData(file[k - 1].frame)
        /\ file[k].kind = "data" => file[k].frame = file[k - 1].frame
        /\ file[k].frame.type # "HEADER"
        /\ file[k].frame.type = "END" => k = Len(file)

Intact(file) == \A k \in 1 .. Len(file) : file[k].damage = "none"
=============================================================================
