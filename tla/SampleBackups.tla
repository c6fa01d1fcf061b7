---------------------------- MODULE SampleBackups ----------------------------
(* Small backup files for model checking, and the ways they may be damaged.     *)
EXTENDS BackupFile, SequencesExt

F(t, i, s) == [type |-> t, id |-> i, size |-> s]

(* The blocks a writer makes of a sequence of frames, from counter first on.    *)
Written(frames, first) ==
  FoldLeft(LAMBDA blocks, f :
             LET c == first + Len(blocks) - 1
             IN  IF blocks = <<>> THEN <<Block("frame", f, 0)>>
                 ELSE IF CarriesData(f)
                 THEN blocks \o <<Block("frame", f, c), Block("data", f, c + 1)>>
                 ELSE Append(blocks, Block("frame", f, c)),
           <<>>, frames)

Hurt(b, k, d) == [b EXCEPT ![k].damage = d]

(* At most two of the blocks behind the header are damaged.                     *)
Damaged(b) ==
  LET kinds == {"none", "length", "body"}
  IN  {Hurt(Hurt(b, j, c), k, d) : j \in 2 .. Len(b), k \in 2 .. Len(b), c \in kinds, d \in kinds}

(* The file ends after a block, or within it.                                   *)
CutShortFiles(b) ==
  {Hurt(SubSeq(b, 1, k), k, d) : k \in 2 .. Len(b), d \in {"none", "cut", "cutmac"}}
=============================================================================
