------------------------------ MODULE Load_proofs ------------------------------
(* What a load delivers, for files of any length and any damage to them: it keeps *)
(* its types and never goes back, every frame's reader has that frame's data, an  *)
(* end frame means that nothing is missing, what was not damaged is not lost,     *)
(* without a search a beginning of the file is delivered, and with one all that   *)
(* is still whole.                                                                *)
EXTENDS InitFromFile, SequenceTheorems, Induction, TLAPS

(* The iv a counter value gives is one of the ivs.                              *)
LEMMA IvType ==
  ASSUME NEW n \in Nat
  PROVE  uintToFourBytes(n) \in 0 .. IvSpace - 1
BY IvSpaceAssumption, SMT DEF uintToFourBytes

(* The frame that stands for one no class is registered for.                    *)
LEMMA InvalidFrameType == InvalidFrame \in Frames(Ids) /\ ~CarriesData(InvalidFrame)
<1>1. (CHOOSE i \in Ids : TRUE) \in Ids
  BY DecryptorAssumption
<1> QED
  BY <1>1 DEF InvalidFrame, Frames, FRAMETYPE, Sizes, CarriesData

(* What the decryptor returns has its type.                                     *)
LEMMA ReturnedType ==
  ASSUME NEW f \in Frames(Ids), NEW n \in Nat, NEW k \in Nat, frame' = Returned(f, n, k)
  PROVE  FrameTypeOK'
<1>1. 0 \in 0 .. IvSpace - 1
  BY IvSpaceAssumption
<1> QED
  BY <1>1 DEF Returned, Returnable, FrameTypeOK

(* So has a frame with a reader for the data behind it.                         *)
LEMMA ReturnedWithReaderType ==
  ASSUME NEW f \in Frames(Ids), NEW n \in Nat, NEW k \in Nat, NEW c \in Nat,
         frame' = ReturnedWithReader(f, n, k, c)
  PROVE  FrameTypeOK'
<1>1. uintToFourBytes(c) \in 0 .. IvSpace - 1
  BY IvType
<1> QED
  BY <1>1 DEF ReturnedWithReader, Returnable, FrameTypeOK

(* No frame is a result of getFrame, too.                                       *)
LEMMA NoFrameType ==
  ASSUME frame' = <<>>
  PROVE  FrameTypeOK'
BY DEF FrameTypeOK

(* Every block of a file that may be opened has its type.                       *)
LEMMA FileType ==
  ASSUME FileTypeOK
  PROVE  /\ Len(file) \in Nat \ {0}
         /\ \A k \in 1 .. Len(file) : file[k] \in Blocks(Ids) /\ file[k].frame \in Frames(Ids)
<1>1. file \in Seq(Blocks(Ids)) /\ Len(file) > 0
  BY DEF FileTypeOK
<1>2. \A k \in 1 .. Len(file) : file[k] \in Blocks(Ids)
  BY <1>1
<1> QED
  BY <1>1, <1>2 DEF Blocks

-----------------------------------------------------------------------------
(* Type correctness *)

(* The stream after a frame was given, by getFrame or by a brute force search.  *)
LEMMA GiveFrameType ==
  ASSUME NEW f \in Frames(Ids), NEW n \in Nat, NEW k \in Nat, NEW c \in Nat,
         GiveFrame(f, n, k, c)
  PROVE  /\ pos' \in Nat \ {0} /\ aligned' \in BOOLEAN /\ d_counter' \in Nat
         /\ FrameTypeOK'
<1>1. CASE CarriesData(f)
  <2>1. FrameTypeOK'
    <3>1. frame' = ReturnedWithReader(f, n, k, c + 1)
      BY <1>1 DEF GiveFrame
    <3>2. c + 1 \in Nat
      OBVIOUS
    <3> QED
      BY <3>1, <3>2, ReturnedWithReaderType
  <2>2. pos' \in {k + 1, k + 2} /\ aligned' \in BOOLEAN /\ d_counter' = c + 2
    BY <1>1 DEF GiveFrame
  <2> QED
    BY <2>1, <2>2
<1>2. CASE ~CarriesData(f)
  <2>1. /\ frame' = Returned(f, n, k) /\ d_counter' = c + 1
        /\ pos' = k + 1 /\ aligned' = TRUE
    BY <1>2 DEF GiveFrame
  <2>2. FrameTypeOK'
    BY <2>1, ReturnedType
  <2> QED
    BY <2>1, <2>2
<1> QED
  BY <1>1, <1>2

(* The stream after the data behind a frame was taken, or found too short.      *)
LEMMA TakeDataType ==
  ASSUME StreamTypeOK, NEW f \in Frames(Ids), NEW n \in Nat, TakeData(f, n)
  PROVE  /\ pos' \in Nat \ {0} /\ aligned' \in BOOLEAN /\ d_counter' \in Nat
         /\ FrameTypeOK'
<1>1. CASE GiveFrame(f, n, pos, d_counter)
  BY <1>1, GiveFrameType DEF StreamTypeOK
<1>2. CASE frame' = <<>> /\ pos' = pos + 1 /\ aligned' = TRUE /\ d_counter' = d_counter + 1
  BY <1>2, NoFrameType DEF StreamTypeOK
<1> QED
  BY <1>1, <1>2 DEF TakeData

(* The stream after a search, which ends at a frame or at the end of the file.  *)
LEMMA BruteForceType ==
  ASSUME FileTypeOK, StreamTypeOK,
         NEW c \in Nat, NEW n \in Nat, NEW b \in BOOLEAN, BruteForce(c, n, b)
  PROVE  /\ pos' \in Nat \ {0} /\ aligned' \in BOOLEAN /\ d_counter' \in Nat
         /\ d_framecount' \in Nat /\ d_badmac' \in BOOLEAN
         /\ FrameTypeOK'
<1>1. Len(file) \in Nat /\ \A k \in 1 .. Len(file) : file[k].frame \in Frames(Ids)
  BY FileType
<1>2. CASE FindsNothing(c, n, b)
  <2>1. d_badmac' \in BOOLEAN
    BY <1>2, Zenon DEF FindsNothing
  <2>2. pos' \in Nat \ {0} /\ FrameTypeOK'
    BY <1>1, <1>2, NoFrameType DEF FindsNothing
  <2>3. aligned' \in BOOLEAN /\ d_counter' \in Nat /\ d_framecount' \in Nat
    BY <1>2 DEF FindsNothing
  <2> QED
    BY <2>1, <2>2, <2>3
<1>3. CASE Finds(c, n)
  <2>1. PICK k \in pos + 1 .. Len(file), s \in 0 .. Len(file) :
               /\ d_badmac' = FALSE
               /\ d_framecount' = n + s + 1
               /\ GiveFrame(file[k].frame, n + s, k, c + s)
    BY <1>3 DEF Finds
  <2>2. /\ k \in Nat /\ k \in 1 .. Len(file) /\ s \in Nat
        /\ n + s \in Nat /\ c + s \in Nat
    BY <1>1 DEF StreamTypeOK
  <2>3. file[k].frame \in Frames(Ids)
    BY <1>1, <2>2
  <2>4. /\ pos' \in Nat \ {0} /\ aligned' \in BOOLEAN /\ d_counter' \in Nat
        /\ FrameTypeOK'
    BY <2>1, <2>2, <2>3, GiveFrameType
  <2>5. d_framecount' \in Nat
    BY <2>1, <2>2
  <2>6. d_badmac' \in BOOLEAN
    BY <2>1, Zenon
  <2> QED
    BY <2>4, <2>5, <2>6
<1> QED
  BY <1>2, <1>3 DEF BruteForce

(* A frame that is returned in spite of its MAC leaves the stream behind it.    *)
LEMMA OvershootsAhead ==
  ASSUME pos \in Nat \ {0}, Len(file) \in Nat, Overshoots
  PROVE  pos' \in Nat \ {0} /\ pos < pos' /\ aligned' \in BOOLEAN
<1>1. CASE file[pos].damage = "length"
  <2>1. aligned' = FALSE \/ aligned' = TRUE
    BY <1>1, Zenon DEF Overshoots
  <2>2. pos' \in pos + 1 .. Len(file) \/ pos' \in pos + 2 .. Len(file) + 1
    BY <1>1, Zenon DEF Overshoots
  <2>3. pos' \in Nat \ {0} /\ pos < pos'
    BY <2>2
  <2>4. aligned' \in BOOLEAN
    BY <2>1, Zenon
  <2> QED
    BY <2>3, <2>4
<1>2. CASE file[pos].damage # "length"
  BY <1>2 DEF Overshoots
<1> QED
  BY <1>1, <1>2

(* Whatever the file holds, a call of getFrame keeps the decryptor's types.     *)
LEMMA GetFrameType ==
  ASSUME FileTypeOK, StreamTypeOK, getFrame, file' = file
  PROVE  StreamTypeOK'
<1>1. /\ Len(file) \in Nat \ {0}
      /\ \A k \in 1 .. Len(file) : file[k].frame \in Frames(Ids)
  BY FileType
<1>2. CASE GetEof
  BY <1>2, NoFrameType DEF GetEof, StreamTypeOK
<1>3. CASE GetHeader
  <2>1. FrameTypeOK'
    BY <1>1, <1>3, ReturnedType DEF GetHeader
  <2>2. d_headerframe' \in BOOLEAN /\ d_badmac' \in BOOLEAN /\ aligned' \in BOOLEAN
    BY <1>3, Zenon DEF GetHeader, StreamTypeOK
  <2>3. pos' \in Nat \ {0} /\ d_counter' \in Nat /\ d_framecount' \in Nat
    BY <1>3 DEF GetHeader, StreamTypeOK
  <2> QED
    BY <2>1, <2>2, <2>3 DEF StreamTypeOK
<1>4. CASE GetFrame
  <2>1. PICK f \in Frames(Ids) : TakeData(f, d_framecount)
    BY <1>1, <1>4, InvalidFrameType DEF GetFrame, Eof, StreamTypeOK
  <2>2. d_framecount \in Nat
    BY DEF StreamTypeOK
  <2> QED
    BY <1>4, <2>1, <2>2, TakeDataType DEF GetFrame, StreamTypeOK
<1>5. CASE GetFrameBadMac
  BY <1>5, NoFrameType DEF GetFrameBadMac, StreamTypeOK
<1>6. CASE GetFrameNoise
  <2>1. d_badmac' \in BOOLEAN /\ d_headerframe' \in BOOLEAN /\ aligned' \in BOOLEAN
    BY <1>6, Zenon DEF GetFrameNoise, StreamTypeOK
  <2>2. d_counter' \in Nat /\ pos' \in Nat \ {0} /\ d_framecount' \in Nat
    <3>1. /\ d_counter' = d_counter \/ d_counter' = d_counter + 1
          /\ pos' = pos /\ d_framecount' = d_framecount
      BY <1>6, Zenon DEF GetFrameNoise
    <3> QED
      BY <3>1 DEF StreamTypeOK
  <2>3. FrameTypeOK'
    BY <1>6, NoFrameType DEF GetFrameNoise
  <2> QED
    BY <2>1, <2>2, <2>3 DEF StreamTypeOK
<1>7. CASE GetFrameOld
  <2>1. PICK f \in Frames(Ids) : TakeData(f, d_framecount)
    BY <1>1, <1>7, InvalidFrameType DEF GetFrameOld, Eof, StreamTypeOK
  <2>2. d_framecount \in Nat
    BY DEF StreamTypeOK
  <2>3. /\ pos' \in Nat \ {0} /\ aligned' \in BOOLEAN /\ d_counter' \in Nat
        /\ FrameTypeOK'
    BY <2>1, <2>2, TakeDataType
  <2>4. d_badmac' \in BOOLEAN /\ d_headerframe' \in BOOLEAN
    BY <1>7, Zenon DEF GetFrameOld, StreamTypeOK
  <2>5. d_framecount' \in Nat
    BY <1>7, <2>2 DEF GetFrameOld
  <2> QED
    BY <2>3, <2>4, <2>5 DEF StreamTypeOK
<1>8. CASE GetFrameOldNoise
  <2>1. CASE BruteForce(d_counter, d_framecount, d_badmac)
    BY <1>8, <2>1, BruteForceType DEF GetFrameOldNoise, StreamTypeOK
  <2>2. CASE /\ frame' = <<>>
             /\ UNCHANGED <<pos, aligned, d_counter, d_framecount, d_badmac>>
    BY <1>8, <2>2, NoFrameType DEF GetFrameOldNoise, StreamTypeOK
  <2> QED
    BY <1>8, <2>1, <2>2 DEF GetFrameOldNoise
<1>9. CASE GetFrameOldBadMac
  <2>1. CASE BruteForce(d_counter + 1, d_framecount + 1, TRUE)
    <3>1. d_counter + 1 \in Nat /\ d_framecount + 1 \in Nat
      BY DEF StreamTypeOK
    <3> QED
      BY <1>9, <2>1, <3>1, BruteForceType DEF GetFrameOldBadMac, StreamTypeOK
  <2>2. CASE /\ frame' = <<>> /\ d_badmac' = TRUE
             /\ UNCHANGED <<pos, aligned, d_counter, d_framecount>>
    BY <1>9, <2>2, NoFrameType DEF GetFrameOldBadMac, StreamTypeOK
  <2>3. CASE /\ frame' = Returned(file[pos].frame, d_framecount, pos)
             /\ d_badmac' = TRUE /\ Overshoots
             /\ d_counter' = d_counter + 1 /\ d_framecount' = d_framecount + 1
    <3>1. FrameTypeOK'
      BY <1>1, <1>9, <2>3, ReturnedType DEF GetFrameOldBadMac, Eof, StreamTypeOK
    <3>2. pos' \in Nat \ {0} /\ aligned' \in BOOLEAN
      BY <1>1, <2>3, OvershootsAhead DEF StreamTypeOK
    <3> QED
      BY <1>9, <2>3, <3>1, <3>2 DEF GetFrameOldBadMac, StreamTypeOK
  <2> QED
    BY <1>9, <2>1, <2>2, <2>3 DEF GetFrameOldBadMac
<1> QED
  BY <1>2, <1>3, <1>4, <1>5, <1>6, <1>7, <1>8, <1>9
     DEF getFrame, getFrame1, getFrameOld

(* Handling a frame adds it to the history, at most once.                       *)
LEMMA DeliveredType ==
  ASSUME delivered \in Seq(Returnable), FrameTypeOK, HandleFrame
  PROVE  delivered' \in Seq(Returnable)
<1>1. frame[1] \in Returnable
  BY DEF FrameTypeOK, HandleFrame
<1>2. delivered' = delivered \/ delivered' = Append(delivered, frame[1])
  BY Zenon DEF HandleFrame
<1> QED
  BY <1>1, <1>2

(* A file that was just opened, by the first run or by a later one.             *)
LEMMA LoadStarts == FileTypeOK /\ command \in CommandLines /\ StartLoad => TypeOK
<1> SUFFICES ASSUME FileTypeOK, command \in CommandLines, StartLoad
             PROVE  TypeOK
  OBVIOUS
<1>1. StreamTypeOK
  <2>1. FrameTypeOK
    BY DEF StartLoad, OpenFile, FrameTypeOK
  <2>2. aligned \in BOOLEAN /\ d_badmac \in BOOLEAN /\ d_headerframe \in BOOLEAN
    BY Zenon DEF StartLoad, OpenFile
  <2>3. pos \in Nat \ {0} /\ d_counter \in Nat /\ d_framecount \in Nat
    BY LoadAssumption DEF StartLoad, OpenFile
  <2> QED
    BY <2>1, <2>2, <2>3 DEF StreamTypeOK
<1>2. d_ok \in BOOLEAN /\ transaction \in BOOLEAN
  BY Zenon DEF StartLoad
<1>3. pc \in {"get", "handle", "done", "crashed"} /\ delivered \in Seq(Returnable)
  BY DEF StartLoad
<1> QED
  BY <1>1, <1>2, <1>3 DEF TypeOK

(* The files and command lines there are.                                       *)
LEMMA InitialFiles == Init => FileTypeOK /\ command \in CommandLines /\ StartLoad
<1> SUFFICES ASSUME Init
             PROVE  FileTypeOK /\ command \in CommandLines /\ StartLoad
  OBVIOUS
<1>1. FileTypeOK
  BY LoadAssumption DEF Init, FileTypeOK
<1>2. command \in CommandLines /\ StartLoad
  BY DecryptorAssumption, Zenon DEF Init
<1> QED
  BY <1>1, <1>2

(* No step of the load leaves the types.                                        *)
LEMMA TypeInductive == TypeOK /\ [LoadNext]_loadVars => TypeOK'
<1> SUFFICES ASSUME TypeOK, [LoadNext]_loadVars
             PROVE  TypeOK'
  OBVIOUS
<1> USE DEF TypeOK
<1>1. CASE CallGetFrame
  <2>1. StreamTypeOK'
    BY <1>1, GetFrameType DEF CallGetFrame
  <2>2. FileTypeOK'
    BY <1>1 DEF CallGetFrame, FileTypeOK
  <2> QED
    BY <1>1, <2>1, <2>2, Zenon DEF CallGetFrame
<1>2. CASE HandleFrame
  <2>1. StreamTypeOK' /\ FileTypeOK'
    BY <1>2 DEF HandleFrame, StreamTypeOK, FileTypeOK, FrameTypeOK, decryptorVars
  <2>2. delivered' \in Seq(Returnable)
    BY <1>2, DeliveredType DEF StreamTypeOK
  <2>3. pc' \in {"get", "handle", "done", "crashed"}
    BY <1>2, Zenon DEF HandleFrame
  <2>4. command' \in CommandLines /\ d_ok' \in BOOLEAN /\ transaction' \in BOOLEAN
    BY <1>2, Zenon DEF HandleFrame
  <2> QED
    BY <2>1, <2>2, <2>3, <2>4
<1>3. CASE HandleCrash
  <2>1. StreamTypeOK' /\ FileTypeOK'
    BY <1>3 DEF HandleCrash, StreamTypeOK, FileTypeOK, FrameTypeOK, decryptorVars
  <2> QED
    BY <1>3, <2>1, Zenon DEF HandleCrash
<1>4. CASE Finish
  <2>1. StreamTypeOK' /\ FileTypeOK'
    BY <1>4 DEF Finish, StreamTypeOK, FileTypeOK, FrameTypeOK, decryptorVars
  <2>2. d_ok' \in BOOLEAN /\ transaction' \in BOOLEAN /\ command' \in CommandLines
    BY <1>4, Zenon DEF Finish
  <2> QED
    BY <1>4, <2>1, <2>2, Zenon DEF Finish
<1>5. CASE UNCHANGED loadVars
  <2>1. StreamTypeOK' /\ FileTypeOK'
    BY <1>5 DEF loadVars, StreamTypeOK, FileTypeOK, FrameTypeOK, decryptorVars
  <2> QED
    BY <1>5, <2>1, Zenon DEF loadVars
<1> QED
  BY <1>1, <1>2, <1>3, <1>4, <1>5 DEF LoadNext

(* The typing invariant of loading a backup, for files of any length: the        *)
(* decryptor's position, counters and last frame, and the loop's own state.     *)
THEOREM TypeCorrect == Spec => []TypeOK
<1>1. Init => TypeOK
  BY InitialFiles, LoadStarts
<1> QED
  BY <1>1, TypeInductive, PTL DEF Spec
-----------------------------------------------------------------------------
(* The blocks a frame takes up in the file.                                     *)
Span(r) == IF CarriesData(r.frame) THEN 2 ELSE 1

(* The block behind everything that was delivered.                              *)
NextAt ==
  IF delivered = <<>> THEN 1
  ELSE delivered[Len(delivered)].at + Span(delivered[Len(delivered)])

(* Before a call the stream stands at that block, unless a wrong size has left  *)
(* it somewhere inside one, where nothing can be read again.                    *)
StandsAtNext ==
  /\ d_headerframe = (delivered = <<>>)
  /\ aligned => pos = NextAt

(* After a call the frame is the one of that block.                             *)
ReturnedNext ==
  /\ ~d_headerframe
  /\ frame[1].at = NextAt /\ NextAt <= Len(file)
  /\ aligned => pos = NextAt + Span(frame[1])

NothingSkipped ==
  /\ Unbroken
  /\ pc = "get" => StandsAtNext
  /\ pc = "handle" /\ frame # <<>> => ReturnedNext

(* What holds of a load that does not search.                                   *)
NothingSkippedYet == NoSearch => NothingSkipped
-----------------------------------------------------------------------------
(* GiveFrame, asked for the block the stream stands at.                         *)
LEMMA GivesNext ==
  ASSUME pos \in Nat \ {0}, NEW f, NEW n, NEW c, GiveFrame(f, n, pos, c)
  PROVE  frame'[1].at = pos /\ (aligned' => pos' = pos + Span(frame'[1]))
<1>1. CASE CarriesData(f)
  <2>1. frame' = ReturnedWithReader(f, n, pos, c + 1)
    BY <1>1, Zenon DEF GiveFrame
  <2>2. frame'[1].at = pos /\ frame'[1].frame = f
    BY <2>1 DEF ReturnedWithReader
  <2>3. aligned' => pos' = pos + 2
    BY <1>1, Zenon DEF GiveFrame
  <2> QED
    BY <1>1, <2>2, <2>3 DEF Span
<1>2. CASE ~CarriesData(f)
  <2>1. frame' = Returned(f, n, pos) /\ pos' = pos + 1
    BY <1>2, Zenon DEF GiveFrame
  <2>2. frame'[1].at = pos /\ frame'[1].frame = f
    BY <2>1 DEF Returned
  <2> QED
    BY <1>2, <2>1, <2>2 DEF Span
<1> QED
  BY <1>1, <1>2

(* TakeData, likewise, unless the data is not there.                            *)
LEMMA TakesNext ==
  ASSUME pos \in Nat \ {0}, NEW f, NEW n, TakeData(f, n)
  PROVE  \/ frame' = <<>>
         \/ frame'[1].at = pos /\ (aligned' => pos' = pos + Span(frame'[1]))
BY GivesNext, Zenon DEF TakeData

(* A frame that verifies is read at the block behind what was delivered.        *)
LEMMA VerifiedIsNext ==
  ASSUME TypeOK, StandsAtNext, ~Eof, ~d_headerframe, LengthIsRight,
         d_headerframe' = d_headerframe, NEW f, NEW n, TakeData(f, n)
  PROVE  frame' = <<>> \/ (/\ ~d_headerframe'
                           /\ frame'[1].at = NextAt /\ NextAt <= Len(file)
                           /\ aligned' => pos' = NextAt + Span(frame'[1]))
<1>1. pos = NextAt
  BY Zenon DEF StandsAtNext, LengthIsRight
<1>2. pos \in Nat \ {0} /\ Len(file) \in Nat
  BY FileType DEF TypeOK, StreamTypeOK
<1>3. pos <= Len(file)
  BY <1>2 DEF Eof
<1>4. \/ frame' = <<>>
      \/ frame'[1].at = pos /\ (aligned' => pos' = pos + Span(frame'[1]))
  BY <1>2, TakesNext
<1> QED
  BY <1>1, <1>3, <1>4, Zenon

(* A call without a search returns the next frame, or none.                     *)
LEMMA NextFrame ==
  ASSUME TypeOK, StandsAtNext, NoSearch, getFrame
  PROVE  frame' = <<>> \/ (/\ ~d_headerframe'
                           /\ frame'[1].at = NextAt /\ NextAt <= Len(file)
                           /\ aligned' => pos' = NextAt + Span(frame'[1]))
<1>1. CASE GetEof
  BY <1>1, Zenon DEF GetEof
<1>2. CASE GetHeader
  <2>1. frame' = Returned(file[1].frame, 0, 1) /\ pos' = 2 /\ ~d_headerframe'
    BY <1>2, Zenon DEF GetHeader
  <2>2. frame'[1].at = 1 /\ frame'[1].frame = file[1].frame
    BY <2>1 DEF Returned
  <2>3. ~CarriesData(file[1].frame)
    BY FileType DEF TypeOK, FileTypeOK, WellFormed, CarriesData
  <2>4. delivered = <<>>
    BY <1>2, Zenon DEF GetHeader, StandsAtNext
  <2>5. NextAt = 1
    BY <2>4 DEF NextAt
  <2>6. Len(file) \in Nat \ {0}
    BY FileType DEF TypeOK
  <2>7. Span(frame'[1]) = 1
    BY <2>2, <2>3 DEF Span
  <2>8. NextAt <= Len(file) /\ pos' = NextAt + Span(frame'[1])
    BY <2>1, <2>5, <2>6, <2>7
  <2> QED
    BY <2>1, <2>2, <2>5, <2>8, Zenon
<1>3. CASE GetFrame
  <2>1. ~Eof /\ ~d_headerframe /\ LengthIsRight /\ d_headerframe' = d_headerframe
    BY <1>3, Zenon DEF GetFrame
  <2>2. PICK f : TakeData(f, d_framecount)
    BY <1>3, Zenon DEF GetFrame
  <2> QED
    BY <2>1, <2>2, VerifiedIsNext
<1>4. CASE GetFrameBadMac
  BY <1>4, Zenon DEF GetFrameBadMac
<1>5. CASE GetFrameNoise
  BY <1>5, Zenon DEF GetFrameNoise
<1>6. CASE GetFrameOld
  <2>1. ~Eof /\ ~d_headerframe /\ LengthIsRight /\ d_headerframe' = d_headerframe
    BY <1>6, Zenon DEF GetFrameOld, Verifies
  <2>2. PICK f : TakeData(f, d_framecount)
    BY <1>6, Zenon DEF GetFrameOld
  <2> QED
    BY <2>1, <2>2, VerifiedIsNext
<1>7. CASE d_backupfileversion = 0 /\ GetFrameOldNoise
  <2>1. d_stoponerror
    BY <1>7 DEF NoSearch
  <2> QED
    BY <1>7, <2>1, Zenon DEF GetFrameOldNoise
<1>8. CASE d_backupfileversion = 0 /\ GetFrameOldBadMac
  <2>1. d_stoponerror
    BY <1>8 DEF NoSearch
  <2> QED
    BY <1>8, <2>1, Zenon DEF GetFrameOldBadMac
<1> QED
  BY <1>1, <1>2, <1>3, <1>4, <1>5, <1>6, <1>7, <1>8, Zenon DEF getFrame, getFrame1, getFrameOld

(* Adding the next frame keeps the sequence unbroken, and the block behind it   *)
(* is the next one.                                                             *)
LEMMA DeliverNext ==
  ASSUME delivered \in Seq(Returnable), FrameTypeOK, frame # <<>>, file' = file,
         Unbroken, ReturnedNext, delivered' = Append(delivered, frame[1])
  PROVE  Unbroken' /\ NextAt' = NextAt + Span(frame[1])
<1> DEFINE n == Len(delivered)
<1>1. frame[1] \in Returnable
  BY DEF FrameTypeOK
<1>2. /\ n \in Nat /\ Len(delivered') = n + 1 /\ delivered'[n + 1] = frame[1]
      /\ \A i \in 1 .. n : delivered'[i] = delivered[i]
  BY <1>1
<1>3. frame[1].at = NextAt /\ NextAt <= Len(file)
  BY DEF ReturnedNext
<1>4. \A i \in 1 .. n + 1 : delivered'[i].at <= Len(file)
  <2> SUFFICES ASSUME NEW i \in 1 .. n + 1
               PROVE  delivered'[i].at <= Len(file)
    OBVIOUS
  <2>1. CASE i = n + 1
    BY <2>1, <1>2, <1>3
  <2>2. CASE i \in 1 .. n
    BY <2>2, <1>2 DEF Unbroken
  <2> QED
    BY <1>2, <2>1, <2>2
<1>5. delivered'[1].at = 1
  <2>1. CASE n = 0
    <3>1. delivered = <<>>
      BY <2>1
    <3> QED
      BY <2>1, <3>1, <1>2, <1>3 DEF NextAt
  <2>2. CASE n > 0
    BY <2>2, <1>2 DEF Unbroken
  <2> QED
    BY <1>2, <2>1, <2>2
<1>6. \A i \in 1 .. n : NoGap(delivered'[i], delivered'[i + 1])
  <2> SUFFICES ASSUME NEW i \in 1 .. n
               PROVE  NoGap(delivered'[i], delivered'[i + 1])
    OBVIOUS
  <2>1. CASE i = n
    <3>1. delivered # <<>> /\ delivered'[i] = delivered[n] /\ delivered'[i + 1] = frame[1]
      BY <2>1, <1>2
    <3>2. NextAt = delivered[n].at + Span(delivered[n])
      BY <3>1 DEF NextAt
    <3> QED
      BY <3>1, <3>2, <1>3 DEF NoGap, Span
  <2>2. CASE i \in 1 .. n - 1
    <3>1. delivered'[i] = delivered[i] /\ delivered'[i + 1] = delivered[i + 1]
      BY <2>2, <1>2
    <3> QED
      BY <2>2, <3>1 DEF Unbroken
  <2> QED
    BY <1>2, <2>1, <2>2
<1>7. Unbroken'
  BY <1>2, <1>4, <1>5, <1>6 DEF Unbroken
<1>8. NextAt' = frame[1].at + Span(frame[1])
  <2>1. delivered' # <<>>
    BY <1>2
  <2> QED
    BY <2>1, <1>2 DEF NextAt, Span
<1> QED
  BY <1>3, <1>7, <1>8

(* Nothing changes what was delivered, or how far the stream is.                *)
LEMMA NothingSkippedStutter ==
  ASSUME NothingSkipped, UNCHANGED <<file, decryptorVars, delivered>>,
         pc' = "done" \/ pc' = "crashed" \/ pc' = pc
  PROVE  NothingSkipped'
<1>1. Unbroken' = Unbroken /\ StandsAtNext' = StandsAtNext
      /\ ReturnedNext' = ReturnedNext /\ frame' = frame
  BY DEF Unbroken, StandsAtNext, ReturnedNext, NextAt, decryptorVars
<1> QED
  BY <1>1, Zenon DEF NothingSkipped

(* Nothing was skipped when the file was just opened.                           *)
LEMMA NothingSkippedStarts == StartLoad => NothingSkippedYet
<1> SUFFICES ASSUME StartLoad
             PROVE  NothingSkipped
  BY DEF NothingSkippedYet
<1>1. delivered = <<>> /\ pc = "get" /\ pos = 1
  BY DEF StartLoad, OpenFile
<1>2. d_headerframe = TRUE
  BY Zenon DEF StartLoad, OpenFile
<1>3. NextAt = 1
  BY <1>1 DEF NextAt
<1>4. StandsAtNext
  BY <1>1, <1>2, <1>3, Zenon DEF StandsAtNext
<1>5. Unbroken
  BY <1>1 DEF Unbroken
<1> QED
  BY <1>1, <1>4, <1>5 DEF NothingSkipped

(* Whatever a step of the load does, nothing is skipped by it.                  *)
LEMMA NothingSkippedInductive ==
  TypeOK /\ NothingSkippedYet /\ [LoadNext]_loadVars => NothingSkippedYet'
<1> SUFFICES ASSUME TypeOK, NothingSkippedYet, [LoadNext]_loadVars, NoSearch'
             PROVE  NothingSkipped'
  BY DEF NothingSkippedYet
<1>a. NoSearch /\ NothingSkipped
  <2>1. command' = command
    BY Zenon DEF LoadNext, CallGetFrame, HandleFrame, HandleCrash, Finish, loadVars
  <2>2. NoSearch
    BY <2>1, Zenon DEF NoSearch, d_backupfileversion, d_stoponerror
  <2> QED
    BY <2>2 DEF NothingSkippedYet
<1>1. CASE CallGetFrame
  <2>1. pc = "get" /\ getFrame /\ pc' = "handle" /\ file' = file /\ delivered' = delivered
    BY <1>1, Zenon DEF CallGetFrame
  <2>2. StandsAtNext
    BY <1>a, <2>1 DEF NothingSkipped
  <2>3. frame' = <<>> \/ ReturnedNext'
    <3>1. NextAt' = NextAt
      BY <2>1, Zenon DEF NextAt
    <3> QED
      BY <1>a, <2>1, <2>2, <3>1, NextFrame, Zenon DEF ReturnedNext, Span
  <2>4. Unbroken'
    BY <1>a, <2>1, Zenon DEF NothingSkipped, Unbroken, NoGap
  <2> QED
    BY <2>1, <2>3, <2>4 DEF NothingSkipped
<1>2. CASE HandleFrame
  <2>1. frame # <<>> /\ pc = "handle" /\ UNCHANGED <<file, decryptorVars>>
    BY <1>2, Zenon DEF HandleFrame
  <2>2. CASE StopsOnBadMac
    <3>1. pc' = "done" /\ delivered' = delivered
      BY <1>2, <2>2, Zenon DEF HandleFrame
    <3> QED
      BY <2>1, <3>1, <1>a, NothingSkippedStutter
  <2>3. CASE ~StopsOnBadMac
    <3>1. pc' = "get" /\ delivered' = Append(delivered, frame[1])
      BY <1>2, <2>3, Zenon DEF HandleFrame
    <3>2. ReturnedNext /\ Unbroken
      BY <1>a, <2>1 DEF NothingSkipped
    <3>3. Unbroken' /\ NextAt' = NextAt + Span(frame[1])
      BY <2>1, <3>1, <3>2, DeliverNext DEF TypeOK, StreamTypeOK
    <3>4. delivered' # <<>>
      <4>1. delivered \in Seq(Returnable) /\ frame[1] \in Returnable
        BY <2>1 DEF TypeOK, StreamTypeOK, FrameTypeOK
      <4> QED
        BY <3>1, <4>1
    <3>5. d_headerframe' = FALSE
      <4>1. d_headerframe \in BOOLEAN /\ ~d_headerframe
        BY <3>2 DEF ReturnedNext, TypeOK, StreamTypeOK
      <4> QED
        BY <4>1, <2>1, Zenon DEF decryptorVars
    <3>6. aligned' => pos' = NextAt'
      BY <2>1, <3>2, <3>3, Zenon DEF ReturnedNext, decryptorVars
    <3>7. StandsAtNext'
      BY <3>4, <3>5, <3>6, Zenon DEF StandsAtNext
    <3> QED
      BY <3>1, <3>3, <3>7 DEF NothingSkipped
  <2> QED
    BY <2>2, <2>3
<1>3. CASE HandleCrash
  BY <1>3, <1>a, NothingSkippedStutter, Zenon DEF HandleCrash
<1>4. CASE Finish
  BY <1>4, <1>a, NothingSkippedStutter, Zenon DEF Finish
<1>5. CASE UNCHANGED loadVars
  BY <1>5, <1>a, NothingSkippedStutter, Zenon DEF loadVars
<1> QED
  BY <1>1, <1>2, <1>3, <1>4, <1>5 DEF LoadNext

(* What was shown of every step is what the property says.                      *)
LEMMA NothingSkippedIsPrefix == NothingSkippedYet => DeliversPrefix
BY DEF NothingSkippedYet, NothingSkipped, DeliversPrefix

(* DeliversPrefix, for files of any length and any damage to them: a load of a  *)
(* version 1 file, or of any file with --stoponerror, has handled the frames of *)
(* the file from its first on without a gap.                                    *)
THEOREM PrefixDelivered == Spec => []DeliversPrefix
<1>1. Init => NothingSkippedYet
  BY InitialFiles, NothingSkippedStarts
<1> QED
  BY <1>1, TypeCorrect, NothingSkippedInductive, NothingSkippedIsPrefix, PTL DEF Spec

(* A call of getFrame that returns the frame of block k, or an InvalidFrame in  *)
(* its place, decrypted with counter c.                                         *)
Reads(f, n, k, c) ==
  /\ k \in pos .. Len(file) /\ file[k].kind = "frame"
  /\ n \in Nat /\ d_framecount <= n /\ d_framecount' = n + 1
  /\ c \in Nat
  /\ \/ f = InvalidFrame
     \/ f = file[k].frame /\ Instantiates(f) /\ keyok /\ file[k].iv = uintToFourBytes(c)
  /\ GiveFrame(f, n, k, c)

(* One that returns the frame at the stream although its MAC is bad.            *)
ReadsDamaged ==
  /\ pos <= Len(file) /\ file[pos].kind = "frame" /\ file[pos].damage # "none" /\ keyok
  /\ frame' = Returned(file[pos].frame, d_framecount, pos)
  /\ pos < pos' /\ d_framecount' = d_framecount + 1

-----------------------------------------------------------------------------
(* Invariants *)

(* Everything delivered lies before the stream, and has a number that was used. *)
Passed(r) == r.at < pos /\ r.number < d_framecount

BeforeStream == \A i \in 1 .. Len(delivered) : Passed(delivered[i])

BeforeFrame ==
  \A i \in 1 .. Len(delivered) :
     delivered[i].at < frame[1].at /\ delivered[i].number < frame[1].number

Forward ==
  /\ DeliversInOrder
  /\ d_framecount > 0
  /\ d_headerframe => delivered = <<>>
  /\ pc = "get" => BeforeStream
  /\ pc = "handle" /\ frame # <<>> => Passed(frame[1]) /\ BeforeFrame /\ ~d_headerframe

(* The reader of a frame has the data behind the frame.                         *)
Own(r) ==
  r.data # 0 /\ r.data <= Len(file) =>
    /\ file[r.data].kind = "data" /\ file[r.data].frame = r.frame
    /\ file[r.data].iv = r.iv

OwnData ==
  /\ \A i \in 1 .. Len(delivered) : Own(delivered[i])
  /\ pc = "handle" /\ frame # <<>> => Own(frame[1])

(* In a version 1 file: what lies before the next block was delivered as it was *)
(* written, and an end frame was read only if nothing lies behind it.           *)
AsWritten(k) ==
  file[k].kind = "frame" /\ Instantiates(file[k].frame) =>
     \E i \in 1 .. Len(delivered) : delivered[i].at = k /\ delivered[i].frame = file[k].frame

FrameAt(k) == IF Instantiates(file[k].frame) THEN file[k].frame ELSE InvalidFrame

CompleteSoFar ==
  /\ \A k \in 1 .. Len(file) : k < NextAt => AsWritten(k)
  /\ d_endframe = "read" => NextAt > Len(file)
  /\ pc = "handle" /\ frame # <<>> =>
       file[frame[1].at].kind = "frame" /\ frame[1].frame = FrameAt(frame[1].at)

Complete == d_backupfileversion = 1 => CompleteSoFar

(* Nothing was damaged up to block k.                                           *)
Untouched(k) == \A j \in 1 .. k : file[j].damage = "none" /\ file[j].frame.size # "misfit"

Good(k) == file[k].kind = "frame" /\ HasItsData(k) /\ Untouched(k)

(* The stream stands at a block it can read.                                    *)
OnTrack ==
  /\ aligned /\ ~d_badmac
  /\ IF d_headerframe THEN pos = 1 /\ d_counter = FirstCounter
     ELSE pos > 1 /\ file[pos].kind = "frame" /\ d_counter + 2 = FirstCounter + pos

OnTrackBeforeDamage == pos <= Len(file) /\ Untouched(pos) => OnTrack

NoLoss ==
  /\ pc = "get" =>
       /\ \A k \in 1 .. Len(file) : Good(k) /\ k < pos => Delivered(k)
       /\ OnTrackBeforeDamage
       /\ d_headerframe => pos = 1
  /\ pc = "handle" /\ frame # <<>> =>
       /\ \A k \in 1 .. Len(file) :
             Good(k) /\ k < pos => Delivered(k) \/ (k = frame[1].at /\ ~StopsOnBadMac)
       /\ OnTrackBeforeDamage /\ ~d_headerframe
  /\ pc = "done" \/ (pc = "handle" /\ frame = <<>>) =>
       \A k \in 1 .. Len(file) : Good(k) => Delivered(k)

NoLossWithKey == keyok => NoLoss
-----------------------------------------------------------------------------
(* The outcomes of a call of getFrame *)

(* The frame GiveFrame returns.                                                 *)
LEMMA Gives ==
  ASSUME NEW f, NEW n, NEW k \in Nat, NEW c, GiveFrame(f, n, k, c)
  PROVE  /\ frame' # <<>> /\ k < pos'
         /\ frame'[1].frame = f /\ frame'[1].number = n /\ frame'[1].at = k
         /\ CarriesData(f) => frame'[1].data = k + 1 /\ frame'[1].iv = uintToFourBytes(c + 1)
         /\ ~CarriesData(f) => frame'[1].data = 0
<1>1. CASE CarriesData(f)
  <2>1. frame' = ReturnedWithReader(f, n, k, c + 1) /\ (pos' = k + 1 \/ pos' = k + 2)
    BY <1>1 DEF GiveFrame
  <2> QED
    BY <1>1, <2>1 DEF ReturnedWithReader
<1>2. CASE ~CarriesData(f)
  <2>1. frame' = Returned(f, n, k) /\ pos' = k + 1
    BY <1>2 DEF GiveFrame
  <2> QED
    BY <1>2, <2>1 DEF Returned
<1> QED
  BY <1>1, <1>2

(* The frame at the stream, where TakeData finds its data.                      *)
LEMMA TakesFrame ==
  ASSUME TypeOK, ~Eof, file[pos].kind = "frame", NEW f,
         \/ f = InvalidFrame
         \/ /\ f = file[pos].frame /\ Instantiates(f)
            /\ keyok /\ file[pos].iv = uintToFourBytes(d_counter),
         d_framecount' = d_framecount + 1, TakeData(f, d_framecount)
  PROVE  frame' = <<>> \/ Reads(f, d_framecount, pos, d_counter)
<1>1. pos \in Nat \ {0} /\ d_framecount \in Nat /\ d_counter \in Nat /\ Len(file) \in Nat
  BY FileType DEF TypeOK, StreamTypeOK
<1>2. pos \in pos .. Len(file)
  BY <1>1 DEF Eof
<1>3. frame' = <<>> \/ GiveFrame(f, d_framecount, pos, d_counter)
  BY Zenon DEF TakeData
<1>4. d_framecount <= d_framecount
  BY <1>1
<1> QED
  BY <1>1, <1>2, <1>3, <1>4, Zenon DEF Reads

(* The frame a search ends at.                                                  *)
LEMMA SearchReads ==
  ASSUME TypeOK, NEW c \in Nat, NEW n \in Nat, d_framecount <= n, NEW b, BruteForce(c, n, b)
  PROVE  frame' = <<>> \/ \E f, m, k, e : Reads(f, m, k, e)
<1>1. CASE FindsNothing(c, n, b)
  BY <1>1, Zenon DEF FindsNothing
<1>2. CASE Finds(c, n)
  <2>1. PICK k \in pos + 1 .. Len(file), s \in 0 .. Len(file) :
               /\ Found(c, k, s)
               /\ d_framecount' = n + s + 1
               /\ GiveFrame(file[k].frame, n + s, k, c + s)
    BY <1>2, Zenon DEF Finds
  <2>2. pos \in Nat /\ Len(file) \in Nat /\ s \in Nat /\ d_framecount \in Nat
    BY FileType DEF TypeOK, StreamTypeOK
  <2>3. k \in pos .. Len(file)
    BY <2>2
  <2>4. n + s \in Nat /\ d_framecount <= n + s /\ c + s \in Nat
    BY <2>2
  <2>5. VerifiesAt(k) /\ Acceptable(k) /\ SkipsTo(k, c, s)
    BY <2>1, Zenon DEF Found
  <2>6. keyok /\ file[k].kind = "frame" /\ Instantiates(file[k].frame)
        /\ file[k].iv = uintToFourBytes(c + s)
    BY <2>5, Zenon DEF VerifiesAt, Acceptable, SkipsTo
  <2>7. Reads(file[k].frame, n + s, k, c + s)
    BY <2>1, <2>3, <2>4, <2>6, Zenon DEF Reads
  <2> QED
    BY <2>7, Zenon
<1> QED
  BY <1>1, <1>2 DEF BruteForce

(* A call of getFrame comes to nothing, or to the header, or to a frame at the  *)
(* stream or behind it.                                                         *)
LEMMA Outcome ==
  ASSUME TypeOK, getFrame
  PROVE  \/ frame' = <<>>
         \/ GetHeader
         \/ /\ ~d_headerframe /\ ~d_headerframe'
            /\ (\E f, n, k, c : Reads(f, n, k, c)) \/ ReadsDamaged
<1>t. pos \in Nat \ {0} /\ d_framecount \in Nat /\ d_counter \in Nat /\ Len(file) \in Nat
  BY FileType DEF TypeOK, StreamTypeOK
<1>1. CASE GetEof
  BY <1>1, Zenon DEF GetEof
<1>2. CASE GetHeader
  BY <1>2
<1>3. CASE GetFrame
  <2>1. /\ ~Eof /\ ~d_headerframe /\ ~d_headerframe' /\ LengthIsRight /\ Decrypts
        /\ d_framecount' = d_framecount + 1
    BY <1>3, Zenon DEF GetFrame
  <2>2. file[pos].kind = "frame"
    BY <2>1, Zenon DEF LengthIsRight
  <2>3. PICK f : /\ \/ f = InvalidFrame
                    \/ f = file[pos].frame /\ Instantiates(f)
                 /\ TakeData(f, d_framecount)
    BY <1>3, Zenon DEF GetFrame
  <2>4. frame' = <<>> \/ Reads(f, d_framecount, pos, d_counter)
    BY <2>1, <2>2, <2>3, TakesFrame, Zenon DEF Decrypts
  <2> QED
    BY <2>1, <2>4, Zenon
<1>4. CASE GetFrameBadMac
  BY <1>4, Zenon DEF GetFrameBadMac
<1>5. CASE GetFrameNoise
  BY <1>5, Zenon DEF GetFrameNoise
<1>6. CASE GetFrameOld
  <2>1. /\ ~Eof /\ ~d_headerframe /\ ~d_headerframe' /\ Verifies
        /\ d_framecount' = d_framecount + 1
    BY <1>6, Zenon DEF GetFrameOld
  <2>2. file[pos].kind = "frame"
    BY <2>1, Zenon DEF Verifies, LengthIsRight
  <2>3. PICK f : /\ \/ f = InvalidFrame
                    \/ f = file[pos].frame /\ Instantiates(f) /\ Decrypts
                 /\ TakeData(f, d_framecount)
    BY <1>6, Zenon DEF GetFrameOld
  <2>4. frame' = <<>> \/ Reads(f, d_framecount, pos, d_counter)
    BY <2>1, <2>2, <2>3, TakesFrame, Zenon DEF Decrypts
  <2> QED
    BY <2>1, <2>4, Zenon
<1>7. CASE GetFrameOldNoise
  <2>1. ~d_headerframe /\ ~d_headerframe'
    BY <1>7, Zenon DEF GetFrameOldNoise
  <2>2. frame' = <<>> \/ BruteForce(d_counter, d_framecount, d_badmac)
    BY <1>7, Zenon DEF GetFrameOldNoise
  <2>3. d_framecount <= d_framecount
    BY <1>t
  <2>4. frame' = <<>> \/ \E f, n, k, c : Reads(f, n, k, c)
    BY <1>t, <2>2, <2>3, SearchReads, Zenon
  <2> QED
    BY <2>1, <2>4, Zenon
<1>8. CASE GetFrameOldBadMac
  <2>1. ~Eof /\ ~d_headerframe /\ ~d_headerframe'
    BY <1>8, Zenon DEF GetFrameOldBadMac
  <2>2. \/ frame' = <<>>
        \/ /\ file[pos].kind = "frame" /\ file[pos].damage # "none" /\ keyok
           /\ frame' = Returned(file[pos].frame, d_framecount, pos)
           /\ Overshoots /\ d_framecount' = d_framecount + 1
        \/ BruteForce(d_counter + 1, d_framecount + 1, TRUE)
    <3>1. "none" # "length"
      OBVIOUS
    <3> QED
      BY <1>8, <3>1, Zenon DEF GetFrameOldBadMac, Verifies, LengthIsRight, Decrypts
  <2>3. d_counter + 1 \in Nat /\ d_framecount + 1 \in Nat /\ d_framecount <= d_framecount + 1
    BY <1>t
  <2>4. pos <= Len(file)
    BY <1>t, <2>1 DEF Eof
  <2>5. BruteForce(d_counter + 1, d_framecount + 1, TRUE) =>
          frame' = <<>> \/ \E f, n, k, c : Reads(f, n, k, c)
    BY <2>3, SearchReads, Zenon
  <2>6. Overshoots => pos < pos'
    BY <1>t, OvershootsAhead
  <2> QED
    BY <2>1, <2>2, <2>4, <2>5, <2>6, Zenon DEF ReadsDamaged
<1> QED
  BY <1>1, <1>2, <1>3, <1>4, <1>5, <1>6, <1>7, <1>8, Zenon DEF getFrame, getFrame1, getFrameOld

(* The steps that hand on nothing: the load goes on where it stands, or ends.   *)
LEMMA Handles ==
  ASSUME HandleFrame
  PROVE  \/ /\ pc' = "done" /\ StopsOnBadMac
            /\ UNCHANGED <<file, command, decryptorVars, delivered, d_endframe>>
         \/ /\ pc' = "get" /\ delivered' = Append(delivered, frame[1]) /\ ~StopsOnBadMac
            /\ UNCHANGED <<file, command, decryptorVars>>
            /\ d_endframe' = IF frame[1].frame.type = "END" THEN "read" ELSE d_endframe
BY Zenon DEF HandleFrame, Dispatch

(* The types of what was delivered and of what was returned.                    *)
LEMMA ElementTypes ==
  ASSUME TypeOK
  PROVE  /\ \A i \in 1 .. Len(delivered) :
               /\ delivered[i] \in Returnable
               /\ delivered[i].at \in Nat /\ delivered[i].number \in Nat
         /\ frame # <<>> =>
               /\ frame[1] \in Returnable
               /\ frame[1].at \in Nat /\ frame[1].number \in Nat
<1>1. \A r \in Returnable : r.at \in Nat /\ r.number \in Nat
  BY DEF Returnable
<1>2. \A i \in 1 .. Len(delivered) : delivered[i] \in Returnable
  BY DEF TypeOK
<1>3. frame # <<>> => frame[1] \in Returnable
  BY DEF TypeOK, StreamTypeOK, FrameTypeOK
<1> QED
  BY <1>1, <1>2, <1>3

(* The history after a frame was handled.                                       *)
LEMMA Appended ==
  ASSUME TypeOK, frame # <<>>, delivered' = Append(delivered, frame[1])
  PROVE  /\ Len(delivered) \in Nat /\ Len(delivered') = Len(delivered) + 1
         /\ delivered' # <<>> /\ delivered'[Len(delivered) + 1] = frame[1]
         /\ \A i \in 1 .. Len(delivered) : delivered'[i] = delivered[i]
<1>1. delivered \in Seq(Returnable) /\ frame[1] \in Returnable
  BY DEF TypeOK, StreamTypeOK, FrameTypeOK
<1> QED
  BY <1>1

-----------------------------------------------------------------------------
(* The load never goes back *)

LEMMA ForwardStutter ==
  ASSUME Forward, UNCHANGED <<decryptorVars, delivered>>,
         pc' = "done" \/ pc' = "crashed" \/ pc' = pc
  PROVE  Forward'
<1>1. /\ DeliversInOrder' = DeliversInOrder /\ BeforeStream' = BeforeStream
      /\ BeforeFrame' = BeforeFrame /\ Passed(frame[1])' = Passed(frame[1])
      /\ frame' = frame /\ d_headerframe' = d_headerframe
      /\ d_framecount' = d_framecount /\ delivered' = delivered
  BY DEF DeliversInOrder, BeforeStream, BeforeFrame, Passed, decryptorVars
<1> QED
  BY <1>1, Zenon DEF Forward

(* What a call returns lies behind everything delivered, and the stream behind  *)
(* what it returns.                                                             *)
LEMMA GetsForward ==
  ASSUME TypeOK, Forward, BeforeStream, getFrame, UNCHANGED <<file, delivered>>, frame' # <<>>
  PROVE  Passed(frame[1])' /\ BeforeFrame' /\ ~d_headerframe' /\ d_framecount' > 0
<1>t. pos \in Nat \ {0} /\ d_framecount \in Nat /\ Len(file) \in Nat
  BY FileType DEF TypeOK, StreamTypeOK
<1>d. \A i \in 1 .. Len(delivered) : delivered[i].at \in Nat /\ delivered[i].number \in Nat
  BY ElementTypes
<1>1. CASE GetHeader
  <2>1. d_headerframe /\ frame' = Returned(file[1].frame, 0, 1) /\ pos' = 2
        /\ d_framecount' = d_framecount /\ ~d_headerframe'
    BY <1>1, Zenon DEF GetHeader
  <2>2. frame'[1].at = 1 /\ frame'[1].number = 0
    BY <2>1 DEF Returned
  <2>3. delivered' = <<>> /\ d_framecount' > 0
    BY <2>1, Zenon DEF Forward
  <2> QED
    BY <1>t, <2>1, <2>2, <2>3 DEF Passed, BeforeFrame
<1>2. ASSUME ~d_headerframe', NEW f, NEW n, NEW k, NEW c, Reads(f, n, k, c)
      PROVE  Passed(frame[1])' /\ BeforeFrame' /\ ~d_headerframe' /\ d_framecount' > 0
  <2>1. /\ k \in pos .. Len(file) /\ n \in Nat /\ d_framecount <= n /\ d_framecount' = n + 1
        /\ GiveFrame(f, n, k, c)
    BY <1>2, Zenon DEF Reads
  <2>2. k \in Nat
    BY <1>t, <2>1
  <2>3. frame'[1].at = k /\ frame'[1].number = n /\ k < pos'
    BY <2>1, <2>2, Gives
  <2>4. Passed(frame[1])'
    BY <2>1, <2>3 DEF Passed
  <2>5. \A i \in 1 .. Len(delivered) : delivered[i].at < k /\ delivered[i].number < n
    BY <1>t, <1>d, <2>1, <2>2 DEF BeforeStream, Passed
  <2>6. BeforeFrame'
    BY <2>3, <2>5 DEF BeforeFrame
  <2> QED
    BY <1>2, <2>1, <2>4, <2>6
<1>3. CASE ReadsDamaged /\ ~d_headerframe'
  <2>1. frame'[1].at = pos /\ frame'[1].number = d_framecount
    BY <1>3 DEF ReadsDamaged, Returned
  <2>2. pos < pos' /\ d_framecount' = d_framecount + 1
    BY <1>3 DEF ReadsDamaged
  <2>3. BeforeFrame'
    BY <2>1 DEF BeforeFrame, BeforeStream, Passed
  <2> QED
    BY <1>t, <1>3, <2>1, <2>2, <2>3 DEF Passed
<1> QED
  BY <1>1, <1>2, <1>3, Outcome, Zenon

(* Handing on a frame that lies behind all the others keeps them in order.      *)
LEMMA DeliversForward ==
  ASSUME TypeOK, Forward, pc = "handle", frame # <<>>, UNCHANGED decryptorVars,
         delivered' = Append(delivered, frame[1])
  PROVE  DeliversInOrder' /\ BeforeStream'
<1>1. /\ Len(delivered) \in Nat /\ Len(delivered') = Len(delivered) + 1
      /\ delivered'[Len(delivered) + 1] = frame[1]
      /\ \A i \in 1 .. Len(delivered) : delivered'[i] = delivered[i]
  BY Appended
<1>2. Passed(frame[1]) /\ BeforeFrame /\ DeliversInOrder
  BY DEF Forward
<1>3. DeliversInOrder'
  <2> SUFFICES ASSUME NEW i \in 1 .. Len(delivered'), NEW j \in 1 .. Len(delivered'), i < j
               PROVE  /\ delivered'[i].at < delivered'[j].at
                      /\ delivered'[i].number < delivered'[j].number
    BY Zenon DEF DeliversInOrder
  <2>1. i \in 1 .. Len(delivered) /\ delivered'[i] = delivered[i]
    BY <1>1
  <2>2. CASE j = Len(delivered) + 1
    BY <1>1, <1>2, <2>1, <2>2 DEF BeforeFrame
  <2>3. CASE j \in 1 .. Len(delivered)
    BY <1>1, <1>2, <2>1, <2>3 DEF DeliversInOrder
  <2> QED
    BY <1>1, <2>2, <2>3
<1>4. BeforeStream'
  <2> SUFFICES ASSUME NEW i \in 1 .. Len(delivered')
               PROVE  delivered'[i].at < pos' /\ delivered'[i].number < d_framecount'
    BY Zenon DEF BeforeStream, Passed
  <2>t. /\ pos' = pos /\ d_framecount' = d_framecount
        /\ pos \in Nat /\ d_framecount \in Nat
        /\ frame[1].at \in Nat /\ frame[1].number \in Nat
    BY ElementTypes DEF TypeOK, StreamTypeOK, decryptorVars
  <2>1. CASE i = Len(delivered) + 1
    BY <1>1, <1>2, <2>t, <2>1 DEF Passed
  <2>2. CASE i \in 1 .. Len(delivered)
    <3>1. delivered[i].at \in Nat /\ delivered[i].number \in Nat
      BY <2>2, ElementTypes
    <3>2. delivered[i].at < frame[1].at /\ delivered[i].number < frame[1].number
      BY <1>2, <2>2 DEF BeforeFrame
    <3>3. frame[1].at < pos /\ frame[1].number < d_framecount
      BY <1>2 DEF Passed
    <3>4. delivered[i].at < pos /\ delivered[i].number < d_framecount
      BY <2>t, <3>1, <3>2, <3>3
    <3>5. delivered'[i] = delivered[i]
      BY <1>1, <2>2
    <3> QED
      BY <2>t, <3>4, <3>5
  <2> QED
    BY <1>1, <2>1, <2>2
<1> QED
  BY <1>3, <1>4

(* A call that returns nothing does not count down.                             *)
LEMMA CountsUp ==
  ASSUME TypeOK, getFrame, frame' = <<>>
  PROVE  d_framecount <= d_framecount' /\ (d_headerframe' => d_headerframe)
<1>t. d_framecount \in Nat
  BY DEF TypeOK, StreamTypeOK
<1>n. \A f, n, k, c : GiveFrame(f, n, k, c) => frame' # <<>>
  BY DEF GiveFrame, Returned, ReturnedWithReader
<1>b. ASSUME NEW c, NEW n, NEW b, BruteForce(c, n, b)
      PROVE  d_framecount' = n
  BY <1>b, <1>n, Zenon DEF BruteForce, Finds, FindsNothing
<1>1. \/ d_framecount' = d_framecount
      \/ d_framecount' = d_framecount + 1
  BY <1>b, Zenon DEF getFrame, getFrame1, getFrameOld, GetEof, GetHeader, GetFrame, GetFrameBadMac,
     GetFrameNoise, GetFrameOld, GetFrameOldNoise, GetFrameOldBadMac
<1>2. d_headerframe' => d_headerframe
  BY Zenon DEF getFrame, getFrame1, getFrameOld, GetEof, GetHeader, GetFrame, GetFrameBadMac,
     GetFrameNoise, GetFrameOld, GetFrameOldNoise, GetFrameOldBadMac
<1> QED
  BY <1>t, <1>1, <1>2

LEMMA ForwardStarts == StartLoad => Forward
<1> SUFFICES ASSUME StartLoad
             PROVE  Forward
  OBVIOUS
<1>1. delivered = <<>> /\ pc = "get" /\ d_framecount = 1
  BY DEF StartLoad, OpenFile
<1> QED
  BY <1>1 DEF Forward, DeliversInOrder, BeforeStream

LEMMA ForwardInductive == TypeOK /\ Forward /\ [LoadNext]_loadVars => Forward'
<1> SUFFICES ASSUME TypeOK, Forward, [LoadNext]_loadVars
             PROVE  Forward'
  OBVIOUS
<1>1. CASE CallGetFrame
  <2>1. pc = "get" /\ getFrame /\ pc' = "handle" /\ UNCHANGED <<file, delivered>>
    BY <1>1, Zenon DEF CallGetFrame
  <2>2. BeforeStream /\ DeliversInOrder'
    BY <2>1 DEF Forward, DeliversInOrder
  <2>3. frame' # <<>> => Passed(frame[1])' /\ BeforeFrame' /\ ~d_headerframe'
    BY <2>1, <2>2, GetsForward, Zenon
  <2>4. d_framecount' > 0 /\ (d_headerframe' => d_headerframe)
    <3>1. CASE frame' = <<>>
      <4>1. d_framecount <= d_framecount' /\ (d_headerframe' => d_headerframe)
        BY <2>1, <3>1, CountsUp
      <4>2. d_framecount \in Nat /\ d_framecount > 0 /\ d_framecount' \in Nat
        BY <2>1, FileType, GetFrameType DEF TypeOK, StreamTypeOK, Forward
      <4> QED
        BY <4>1, <4>2
    <3>2. CASE frame' # <<>>
      BY <2>1, <2>2, <3>2, GetsForward, Zenon
    <3> QED
      BY <3>1, <3>2
  <2> QED
    BY <2>1, <2>2, <2>3, <2>4, Zenon DEF Forward
<1>2. CASE HandleFrame
  <2>0. frame # <<>> /\ pc = "handle"
    BY <1>2, Zenon DEF HandleFrame
  <2>1. CASE pc' = "done" /\ UNCHANGED <<decryptorVars, delivered>>
    BY <2>1, ForwardStutter
  <2>2. CASE /\ pc' = "get" /\ delivered' = Append(delivered, frame[1])
             /\ UNCHANGED decryptorVars
    <3>1. DeliversInOrder' /\ BeforeStream'
      BY <2>0, <2>2, DeliversForward
    <3>2. d_framecount' = d_framecount /\ ~d_headerframe'
      BY <2>0, <2>2, Zenon DEF Forward, decryptorVars
    <3>3. d_framecount > 0
      BY DEF Forward
    <3> QED
      BY <2>2, <3>1, <3>2, <3>3 DEF Forward
  <2> QED
    BY <1>2, <2>1, <2>2, Handles, Zenon
<1>3. CASE HandleCrash
  BY <1>3, ForwardStutter, Zenon DEF HandleCrash
<1>4. CASE Finish
  BY <1>4, ForwardStutter, Zenon DEF Finish
<1>5. CASE UNCHANGED loadVars
  BY <1>5, ForwardStutter, Zenon DEF loadVars
<1> QED
  BY <1>1, <1>2, <1>3, <1>4, <1>5 DEF LoadNext

(* DeliversInOrder, for files of any length and any damage to them: frames are  *)
(* handled in the order they have in the file, each once, under rising numbers, *)
(* also when damage is searched past.                                           *)
THEOREM NeverGoesBack == Spec => []DeliversInOrder
<1>1. Init => Forward
  BY InitialFiles, ForwardStarts
<1>2. Forward => DeliversInOrder
  BY DEF Forward
<1> QED
  BY <1>1, <1>2, TypeCorrect, ForwardInductive, PTL DEF Spec

-----------------------------------------------------------------------------
(* A reader has the data of its frame *)

(* A multiple of N that is less than N away from 0 is 0.                        *)
LEMMA SmallMultiple ==
  ASSUME NEW N \in Nat \ {0}, NEW d \in Int, N * d < N, -N < N * d
  PROVE  d = 0
<1>1. CASE d >= 1
  <2>1. N * d >= N
    BY <1>1, SMT
  <2> QED
    BY <2>1
<1>2. CASE d <= -1
  <2>1. N * d <= -N
    BY <1>2, SMT
  <2> QED
    BY <2>1
<1> QED
  BY <1>1, <1>2

(* A remainder is the only one.                                                 *)
LEMMA Remainder ==
  ASSUME NEW N \in Nat \ {0}, NEW q \in Int, NEW r \in 0 .. N - 1, NEW a \in Int, a = N * q + r
  PROVE  a % N = r
<1> DEFINE p == a \div N
           s == a % N
<1>1. a = N * p + s /\ s \in 0 .. N - 1 /\ p \in Int
  BY SMT
<1> HIDE DEF p, s
<1>2. N * p - N * q = r - s
  BY <1>1
<1>3. N * p - N * q = N * (p - q)
  BY <1>1
<1>4. p - q = 0
  BY <1>1, <1>2, <1>3, SmallMultiple
<1>5. r = s
  BY <1>1, <1>4
<1> QED
  BY <1>5 DEF s

LEMMA Divided ==
  ASSUME NEW N \in Nat \ {0}, NEW a \in Int
  PROVE  a % N \in 0 .. N - 1 /\ \E q \in Int : a = N * q + (a % N)
<1>1. a % N \in 0 .. N - 1 /\ a = N * (a \div N) + (a % N) /\ a \div N \in Int
  BY SMT
<1> QED
  BY <1>1, Zenon

(* Counters that are equal in their low bytes stay so when both are counted up. *)
LEMMA NextRemainder ==
  ASSUME NEW N \in Nat \ {0}, NEW a \in Nat, NEW b \in Nat, a % N = b % N
  PROVE  (a + 1) % N = (b + 1) % N
<1> DEFINE r == a % N
<1>0. a \in Int /\ b \in Int
  OBVIOUS
<1>1. r \in 0 .. N - 1
  BY <1>0, Divided, Zenon
<1>2. PICK p \in Int : a = N * p + (a % N)
  BY <1>0, Divided, Zenon
<1>3. PICK q \in Int : b = N * q + (b % N)
  BY <1>0, Divided, Zenon
<1>4. a = N * p + r /\ b = N * q + r
  BY <1>2, <1>3
<1> HIDE DEF r
<1> DEFINE x == a + 1
           y == b + 1
<1>5. x \in Int /\ y \in Int
  OBVIOUS
<1>6. CASE r < N - 1
  <2> DEFINE t == r + 1
  <2>1. t \in 0 .. N - 1
    BY <1>1, <1>6
  <2>2. x = N * p + t /\ y = N * q + t
    BY <1>1, <1>4
  <2> HIDE DEF x, y, t
  <2>3. x % N = t /\ y % N = t
    BY <1>5, <2>1, <2>2, Remainder
  <2> QED
    BY <2>3 DEF x, y
<1>7. CASE r = N - 1
  <2> DEFINE u == p + 1
             v == q + 1
  <2>1. \A k \in Int : N * (k + 1) = N * k + N
    BY SMT
  <2>2. 0 \in 0 .. N - 1 /\ u \in Int /\ v \in Int
    OBVIOUS
  <2>3. x = N * u + 0 /\ y = N * v + 0
    BY <1>4, <1>7, <2>1
  <2> HIDE DEF x, y, u, v
  <2>4. x % N = 0 /\ y % N = 0
    BY <1>5, <2>2, <2>3, Remainder
  <2> QED
    BY <2>4 DEF x, y
<1> QED
  BY <1>1, <1>6, <1>7

(* The iv of a block tells the one of the block behind it.                      *)
LEMMA NextIv ==
  ASSUME FileTypeOK, NEW k \in 2 .. Len(file), k + 1 <= Len(file),
         NEW c \in Nat, file[k].iv = uintToFourBytes(c)
  PROVE  file[k + 1].iv = uintToFourBytes(c + 1)
<1> DEFINE a == FirstCounter + (k - 2)
<1>1. Len(file) \in Nat /\ FirstCounter \in Nat /\ IvSpace \in Nat \ {0}
  BY FileType, LoadAssumption, IvSpaceAssumption
<1>2. a \in Nat /\ k + 1 \in 2 .. Len(file) /\ FirstCounter + ((k + 1) - 2) = a + 1
  BY <1>1
<1>3. \A j \in 2 .. Len(file) : file[j].iv = uintToFourBytes(FirstCounter + (j - 2))
  BY DEF FileTypeOK, WellFormed
<1>4. file[k].iv = uintToFourBytes(a) /\ file[k + 1].iv = uintToFourBytes(a + 1)
  BY <1>2, <1>3
<1> HIDE DEF a
<1>5. a % IvSpace = c % IvSpace
  BY <1>4 DEF uintToFourBytes
<1>6. (a + 1) % IvSpace = (c + 1) % IvSpace
  BY <1>1, <1>2, <1>5, NextRemainder
<1> QED
  BY <1>4, <1>6 DEF uintToFourBytes

(* A frame that owns data is not the header; the data is the block behind it.   *)
LEMMA DataBehind ==
  ASSUME FileTypeOK, NEW k \in 1 .. Len(file), file[k].kind = "frame",
         CarriesData(file[k].frame), k + 1 <= Len(file)
  PROVE  /\ k \in 2 .. Len(file)
         /\ file[k + 1].kind = "data" /\ file[k + 1].frame = file[k].frame
<1>1. Len(file) \in Nat \ {0}
  BY FileType
<1>2. k # 1
  BY <1>1 DEF FileTypeOK, WellFormed, CarriesData
<1>3. k + 1 \in 2 .. Len(file) /\ (k + 1) - 1 = k
  BY <1>1
<1>4. file[k + 1].kind = "data" /\ (file[k + 1].kind = "data" => file[k + 1].frame = file[k].frame)
  BY <1>3 DEF FileTypeOK, WellFormed
<1> QED
  BY <1>1, <1>2, <1>4

LEMMA ReadsOwn ==
  ASSUME TypeOK, file' = file, NEW f, NEW n, NEW k, NEW c, Reads(f, n, k, c)
  PROVE  Own(frame[1])'
<1>1. /\ k \in pos .. Len(file) /\ file[k].kind = "frame" /\ c \in Nat
      /\ f = InvalidFrame \/ (f = file[k].frame /\ file[k].iv = uintToFourBytes(c))
      /\ GiveFrame(f, n, k, c)
  BY Zenon DEF Reads
<1>2. k \in Nat /\ k \in 1 .. Len(file)
  BY <1>1 DEF TypeOK, StreamTypeOK
<1>3. /\ frame'[1].frame = f
      /\ CarriesData(f) => frame'[1].data = k + 1 /\ frame'[1].iv = uintToFourBytes(c + 1)
      /\ ~CarriesData(f) => frame'[1].data = 0
  BY <1>1, <1>2, Gives
<1>4. CASE CarriesData(f) /\ k + 1 <= Len(file)
  <2>1. f = file[k].frame /\ file[k].iv = uintToFourBytes(c)
    BY <1>1, <1>4, InvalidFrameType
  <2>2. k \in 2 .. Len(file) /\ file[k + 1].kind = "data" /\ file[k + 1].frame = f
    BY <1>1, <1>2, <1>4, <2>1, DataBehind DEF TypeOK
  <2>3. file[k + 1].iv = uintToFourBytes(c + 1)
    BY <1>1, <1>4, <2>1, <2>2, NextIv DEF TypeOK
  <2> QED
    BY <1>3, <1>4, <2>2, <2>3 DEF Own
<1>5. CASE CarriesData(f) /\ ~(k + 1 <= Len(file))
  BY <1>3, <1>5 DEF Own
<1>6. CASE ~CarriesData(f)
  BY <1>3, <1>6 DEF Own
<1> QED
  BY <1>4, <1>5, <1>6

(* Whatever getFrame returns, its reader is right.                              *)
LEMMA GetsOwn ==
  ASSUME TypeOK, getFrame, file' = file, frame' # <<>>
  PROVE  Own(frame[1])'
<1>1. CASE GetHeader
  <2>1. frame' = Returned(file[1].frame, 0, 1)
    BY <1>1, Zenon DEF GetHeader
  <2> QED
    BY <2>1 DEF Returned, Own
<1>2. CASE ReadsDamaged
  BY <1>2 DEF ReadsDamaged, Returned, Own
<1>3. CASE \E f, n, k, c : Reads(f, n, k, c)
  BY <1>3, ReadsOwn
<1> QED
  BY <1>1, <1>2, <1>3, Outcome, Zenon

LEMMA OwnDataStutter ==
  ASSUME OwnData, UNCHANGED <<file, decryptorVars, delivered>>,
         pc' = "get" \/ pc' = "done" \/ pc' = "crashed" \/ pc' = pc
  PROVE  OwnData'
<1>1. frame' = frame /\ delivered' = delivered /\ \A r : Own(r)' = Own(r)
  BY DEF Own, decryptorVars
<1> QED
  BY <1>1 DEF OwnData

LEMMA OwnDataStarts == StartLoad => OwnData
BY DEF StartLoad, OwnData

LEMMA OwnDataInductive == TypeOK /\ OwnData /\ [LoadNext]_loadVars => OwnData'
<1> SUFFICES ASSUME TypeOK, OwnData, [LoadNext]_loadVars
             PROVE  OwnData'
  OBVIOUS
<1>1. CASE CallGetFrame
  <2>1. getFrame /\ UNCHANGED <<file, delivered>>
    BY <1>1, Zenon DEF CallGetFrame
  <2>2. frame' # <<>> => Own(frame[1])'
    BY <2>1, GetsOwn
  <2>3. \A i \in 1 .. Len(delivered) : Own(delivered[i])'
    BY <2>1 DEF OwnData, Own
  <2> QED
    BY <2>1, <2>2, <2>3 DEF OwnData
<1>2. CASE HandleFrame
  <2>0. frame # <<>> /\ pc = "handle"
    BY <1>2, Zenon DEF HandleFrame
  <2>1. CASE pc' = "done" /\ UNCHANGED <<file, decryptorVars, delivered>>
    BY <2>1, OwnDataStutter
  <2>2. CASE pc' = "get" /\ delivered' = Append(delivered, frame[1]) /\ file' = file
    <3>1. Own(frame[1]) /\ \A i \in 1 .. Len(delivered) : Own(delivered[i])
      BY <2>0 DEF OwnData
    <3>2. /\ Len(delivered) \in Nat /\ Len(delivered') = Len(delivered) + 1
          /\ delivered'[Len(delivered) + 1] = frame[1]
          /\ \A i \in 1 .. Len(delivered) : delivered'[i] = delivered[i]
      BY <2>0, <2>2, Appended
    <3>3. ASSUME NEW i \in 1 .. Len(delivered')
          PROVE  Own(delivered[i])'
      <4>1. CASE i = Len(delivered) + 1
        BY <2>2, <3>1, <3>2, <4>1 DEF Own
      <4>2. CASE i \in 1 .. Len(delivered)
        BY <2>2, <3>1, <3>2, <4>2 DEF Own
      <4> QED
        BY <3>2, <4>1, <4>2
    <3> QED
      BY <2>2, <3>3 DEF OwnData
  <2> QED
    BY <1>2, <2>1, <2>2, Handles, Zenon
<1>3. CASE HandleCrash
  BY <1>3, OwnDataStutter, Zenon DEF HandleCrash
<1>4. CASE Finish
  BY <1>4, OwnDataStutter, Zenon DEF Finish
<1>5. CASE UNCHANGED loadVars
  BY <1>5, OwnDataStutter, Zenon DEF loadVars
<1> QED
  BY <1>1, <1>2, <1>3, <1>4, <1>5 DEF LoadNext

LEMMA OwnDataIsRead == OwnData => ReadsOwnData
BY DEF OwnData, Own, ReadsOwnData

(* ReadsOwnData, for files of any length, any damage and any number of ivs: the *)
(* reader a frame is given stands before that frame's data and has the iv the   *)
(* data was encrypted with, also where the counter's low bytes have wrapped or  *)
(* a search has had to find it again.                                           *)
THEOREM DataIsItsOwn == Spec => []ReadsOwnData
<1>1. Init => OwnData
  BY InitialFiles, OwnDataStarts
<1> QED
  BY <1>1, TypeCorrect, OwnDataInductive, OwnDataIsRead, PTL DEF Spec

-----------------------------------------------------------------------------
(* An end frame means that nothing is missing *)

(* In a version 1 file a frame is the one of the block it was read at.          *)
LEMMA GetsFrameAt ==
  ASSUME TypeOK, d_backupfileversion = 1, getFrame, frame' # <<>>
  PROVE  /\ file[frame'[1].at].kind = "frame"
         /\ frame'[1].frame = FrameAt(frame'[1].at)
<1>t. pos \in Nat
  BY DEF TypeOK, StreamTypeOK
<1>1. CASE GetHeader
  <2>1. frame' = Returned(file[1].frame, 0, 1)
    BY <1>1, Zenon DEF GetHeader
  <2>2. frame'[1].at = 1 /\ frame'[1].frame = file[1].frame
    BY <2>1 DEF Returned
  <2>3. file[1].kind = "frame" /\ Instantiates(file[1].frame)
    BY DEF TypeOK, FileTypeOK, WellFormed, Instantiates
  <2> QED
    BY <2>2, <2>3 DEF FrameAt
<1>2. CASE GetFrame
  <2>1. file[pos].kind = "frame"
    BY <1>2, Zenon DEF GetFrame, LengthIsRight
  <2>2. TakeData(FrameAt(pos), d_framecount)
    BY <1>2, Zenon DEF GetFrame, FrameAt
  <2>3. GiveFrame(FrameAt(pos), d_framecount, pos, d_counter)
    BY <2>2, Zenon DEF TakeData
  <2>4. frame'[1].at = pos /\ frame'[1].frame = FrameAt(pos)
    BY <1>t, <2>3, Gives
  <2> QED
    BY <2>1, <2>4
<1>3. d_backupfileversion # 0
  OBVIOUS
<1> QED
  BY <1>1, <1>2, <1>3, Zenon DEF getFrame, getFrame1, GetEof, GetFrameBadMac, GetFrameNoise

(* A block that was delivered stays so.                                         *)
LEMMA AsWrittenStays ==
  ASSUME TypeOK, file' = file, frame # <<>>,
         delivered' = delivered \/ delivered' = Append(delivered, frame[1]),
         NEW k, AsWritten(k)
  PROVE  AsWritten(k)'
<1>1. CASE delivered' = delivered
  BY <1>1 DEF AsWritten
<1>2. CASE delivered' = Append(delivered, frame[1])
  <2>1. /\ Len(delivered) \in Nat /\ Len(delivered') = Len(delivered) + 1
        /\ \A i \in 1 .. Len(delivered) : delivered'[i] = delivered[i]
    BY <1>2, Appended
  <2>2. SUFFICES ASSUME file[k].kind = "frame", Instantiates(file[k].frame)
                 PROVE  \E i \in 1 .. Len(delivered') :
                           delivered'[i].at = k /\ delivered'[i].frame = file[k].frame
    BY DEF AsWritten
  <2>3. PICK i \in 1 .. Len(delivered) :
                delivered[i].at = k /\ delivered[i].frame = file[k].frame
    BY <2>2 DEF AsWritten
  <2>4. i \in 1 .. Len(delivered') /\ delivered'[i] = delivered[i]
    BY <2>1
  <2> QED
    BY <2>3, <2>4
<1> QED
  BY <1>1, <1>2

(* The next block is a block number.                                            *)
LEMMA NextAtType ==
  ASSUME TypeOK
  PROVE  NextAt \in Nat \ {0}
<1>1. CASE delivered = <<>>
  BY <1>1 DEF NextAt
<1>2. CASE delivered # <<>>
  <2>1. Len(delivered) \in 1 .. Len(delivered)
    BY <1>2 DEF TypeOK
  <2>2. delivered[Len(delivered)].at \in Nat
    BY <2>1, ElementTypes
  <2> QED
    BY <1>2, <2>2 DEF NextAt, Span
<1> QED
  BY <1>1, <1>2

(* The blocks of the frame that is handed on are delivered then.                *)
LEMMA DeliversAsWritten ==
  ASSUME TypeOK, CompleteSoFar, ReturnedNext, pc = "handle", frame # <<>>, file' = file,
         delivered' = Append(delivered, frame[1]), NextAt' = NextAt + Span(frame[1]),
         NEW k \in 1 .. Len(file), k < NextAt'
  PROVE  AsWritten(k)'
<1> DEFINE r == frame[1]
<1>t. r.at \in Nat /\ Len(file) \in Nat /\ r.at = NextAt /\ NextAt <= Len(file)
  BY ElementTypes, FileType DEF ReturnedNext, TypeOK
<1>1. file[r.at].kind = "frame" /\ r.frame = FrameAt(r.at)
  BY DEF CompleteSoFar
<1>2. CASE k < NextAt
  <2>1. AsWritten(k)
    BY <1>2 DEF CompleteSoFar
  <2> QED
    BY <2>1, AsWrittenStays
<1>3. CASE k = NextAt
  <2>1. SUFFICES ASSUME Instantiates(file[k].frame)
                 PROVE  \E i \in 1 .. Len(delivered') :
                           delivered'[i].at = k /\ delivered'[i].frame = file[k].frame
    BY DEF AsWritten
  <2>2. r.at = k /\ r.frame = file[k].frame
    BY <1>t, <1>1, <1>3, <2>1 DEF FrameAt
  <2>3. /\ Len(delivered) + 1 \in 1 .. Len(delivered')
        /\ delivered'[Len(delivered) + 1] = r
    BY Appended
  <2> QED
    BY <2>2, <2>3
<1>4. CASE k > NextAt
  <2>1. CarriesData(r.frame) /\ k = NextAt + 1
    BY <1>t, <1>4 DEF Span
  <2>2. r.frame = file[r.at].frame
    BY <1>1, <2>1, InvalidFrameType DEF FrameAt
  <2>3. r.at \in 1 .. Len(file) /\ r.at + 1 <= Len(file) /\ k = r.at + 1
    <3>1. NextAt \in Nat \ {0}
      BY NextAtType
    <3> QED
      BY <1>t, <2>1, <3>1
  <2>4. file[k].kind = "data"
    BY <1>1, <2>1, <2>2, <2>3, DataBehind DEF TypeOK
  <2> QED
    BY <2>4 DEF AsWritten
<1> QED
  BY <1>t, <1>2, <1>3, <1>4

(* The end frame is the last.                                                   *)
LEMMA EndIsLast ==
  ASSUME TypeOK, CompleteSoFar, ReturnedNext, pc = "handle", frame # <<>>,
         frame[1].frame.type = "END", NextAt' = NextAt + Span(frame[1])
  PROVE  NextAt' > Len(file)
<1> DEFINE r == frame[1]
<1>t. r.at \in Nat /\ Len(file) \in Nat /\ r.at = NextAt /\ NextAt <= Len(file)
  BY ElementTypes, FileType DEF ReturnedNext, TypeOK
<1>0. NextAt \in Nat \ {0}
  BY NextAtType
<1>1. r.frame = FrameAt(r.at)
  BY DEF CompleteSoFar
<1>2. r.frame = file[r.at].frame
  BY <1>1 DEF FrameAt, InvalidFrame
<1>3. r.at # 1
  BY <1>2, <1>t DEF TypeOK, FileTypeOK, WellFormed
<1>4. r.at \in 2 .. Len(file)
  BY <1>t, <1>0, <1>3
<1>5. r.at = Len(file)
  BY <1>2, <1>4 DEF TypeOK, FileTypeOK, WellFormed
<1> QED
  BY <1>t, <1>5 DEF Span

LEMMA CompleteStutter ==
  ASSUME CompleteSoFar, UNCHANGED <<file, decryptorVars, delivered>>,
         pc' = "done" \/ pc' = "crashed" \/ pc' = pc,
         d_endframe' = "read" => d_endframe = "read"
  PROVE  CompleteSoFar'
<1>1. /\ NextAt' = NextAt /\ frame' = frame /\ file' = file
      /\ \A k : AsWritten(k)' = AsWritten(k) /\ FrameAt(k)' = FrameAt(k)
  BY DEF NextAt, AsWritten, FrameAt, decryptorVars
<1> QED
  BY <1>1, Zenon DEF CompleteSoFar

LEMMA CompleteStarts == FileTypeOK /\ StartLoad => Complete
<1> SUFFICES ASSUME FileTypeOK, StartLoad
             PROVE  CompleteSoFar
  BY DEF Complete
<1>1. NextAt = 1 /\ d_endframe = "none" /\ pc = "get"
  BY DEF StartLoad, NextAt
<1>2. Len(file) \in Nat
  BY FileType
<1> QED
  BY <1>1, <1>2 DEF CompleteSoFar

LEMMA CompleteInductive ==
  TypeOK /\ NothingSkippedYet /\ Complete /\ [LoadNext]_loadVars => Complete'
<1> SUFFICES ASSUME TypeOK, NothingSkippedYet, Complete, [LoadNext]_loadVars,
                    d_backupfileversion' = 1
             PROVE  CompleteSoFar'
  BY DEF Complete
<1>a. d_backupfileversion = 1 /\ CompleteSoFar /\ NothingSkipped
  <2>1. command' = command
    BY Zenon DEF LoadNext, CallGetFrame, HandleFrame, HandleCrash, Finish, loadVars
  <2>2. d_backupfileversion = 1
    BY <2>1, Zenon DEF d_backupfileversion
  <2> QED
    BY <2>2 DEF Complete, NothingSkippedYet, NoSearch
<1>1. CASE CallGetFrame
  <2>1. getFrame /\ UNCHANGED <<file, delivered, d_endframe>>
    BY <1>1, Zenon DEF CallGetFrame, contentVars
  <2>2. frame' # <<>> => /\ file'[frame'[1].at].kind = "frame"
                         /\ frame'[1].frame = FrameAt(frame'[1].at)
    BY <1>a, <2>1, GetsFrameAt
  <2>3. /\ NextAt' = NextAt
        /\ \A k : AsWritten(k)' = AsWritten(k) /\ FrameAt(k)' = FrameAt(k)
    BY <2>1 DEF NextAt, AsWritten, FrameAt
  <2> QED
    BY <1>a, <2>1, <2>2, <2>3 DEF CompleteSoFar
<1>2. CASE HandleFrame
  <2>0. frame # <<>> /\ pc = "handle"
    BY <1>2, Zenon DEF HandleFrame
  <2>1. CASE pc' = "done" /\ UNCHANGED <<file, decryptorVars, delivered, d_endframe>>
    BY <1>a, <2>1, CompleteStutter
  <2>2. CASE /\ pc' = "get" /\ delivered' = Append(delivered, frame[1]) /\ file' = file
             /\ d_endframe' = IF frame[1].frame.type = "END" THEN "read" ELSE d_endframe
    <3>1. ReturnedNext /\ Unbroken
      BY <1>a, <2>0 DEF NothingSkipped
    <3>2. NextAt' = NextAt + Span(frame[1])
      BY <2>0, <2>2, <3>1, DeliverNext DEF TypeOK, StreamTypeOK
    <3>3. \A k \in 1 .. Len(file') : k < NextAt' => AsWritten(k)'
      BY <1>a, <2>0, <2>2, <3>1, <3>2, DeliversAsWritten
    <3>4. d_endframe' = "read" => NextAt' > Len(file')
      <4>1. CASE frame[1].frame.type = "END"
        BY <1>a, <2>0, <2>2, <3>1, <3>2, <4>1, EndIsLast
      <4>2. CASE frame[1].frame.type # "END"
        <5>1. NextAt <= Len(file) /\ NextAt \in Nat /\ Len(file) \in Nat
          BY <3>1, NextAtType, FileType DEF ReturnedNext, TypeOK
        <5>2. ~(NextAt > Len(file))
          BY <5>1
        <5> QED
          BY <1>a, <2>2, <4>2, <5>2 DEF CompleteSoFar
      <4> QED
        BY <4>1, <4>2
    <3> QED
      BY <2>2, <3>3, <3>4 DEF CompleteSoFar
  <2> QED
    BY <1>2, <2>1, <2>2, Handles, Zenon
<1>3. CASE HandleCrash
  BY <1>3, <1>a, CompleteStutter, Zenon DEF HandleCrash, contentVars
<1>4. CASE Finish
  <2>1. d_endframe' = "read" => d_endframe = "read"
    BY <1>4 DEF Finish
  <2> QED
    BY <1>4, <1>a, <2>1, CompleteStutter, Zenon DEF Finish
<1>5. CASE UNCHANGED loadVars
  BY <1>5, <1>a, CompleteStutter, Zenon DEF loadVars, contentVars
<1> QED
  BY <1>1, <1>2, <1>3, <1>4, <1>5 DEF LoadNext

LEMMA CompleteIsEnd == TypeOK /\ Complete => EndMeansComplete
<1> SUFFICES ASSUME TypeOK, CompleteSoFar, d_endframe = "read", NEW k \in 1 .. Len(file)
             PROVE  AsWritten(k)
  BY DEF Complete, EndMeansComplete, AsWritten
<1>1. NextAt > Len(file) /\ NextAt \in Nat /\ Len(file) \in Nat
  BY NextAtType, FileType DEF CompleteSoFar, TypeOK
<1>2. k < NextAt
  BY <1>1
<1> QED
  BY <1>2 DEF CompleteSoFar

(* EndMeansComplete, for files of any length and any damage to them: when the   *)
(* load of a version 1 file has read an end frame, it has handled every frame   *)
(* there is, and handled it as it was written.                                  *)
THEOREM NothingMissing == Spec => []EndMeansComplete
<1>1. Init => NothingSkippedYet /\ Complete
  BY InitialFiles, NothingSkippedStarts, CompleteStarts
<1> QED
  BY <1>1, TypeCorrect, NothingSkippedInductive, CompleteInductive, CompleteIsEnd, PTL DEF Spec

-----------------------------------------------------------------------------
(* What was not damaged is not lost *)

LEMMA UntouchedBefore ==
  ASSUME NEW j \in Nat, NEW k \in Nat, j <= k, Untouched(k)
  PROVE  Untouched(j)
BY DEF Untouched

(* A block of a frame without data is followed by a frame.                      *)
LEMMA FrameBehind ==
  ASSUME FileTypeOK, NEW k \in 1 .. Len(file), k + 1 <= Len(file),
         ~(file[k].kind = "frame" /\ CarriesData(file[k].frame))
  PROVE  file[k + 1].kind = "frame"
<1>1. k + 1 \in 2 .. Len(file) /\ (k + 1) - 1 = k /\ k + 1 \in 1 .. Len(file)
  BY FileType
<1>2. file[k + 1].kind # "data"
  BY <1>1 DEF FileTypeOK, WellFormed
<1>3. file[k + 1] \in Blocks(Ids)
  BY <1>1, FileType
<1> QED
  BY <1>2, <1>3 DEF Blocks

(* A frame that is where the stream expects it is decrypted, and nothing else   *)
(* can come of the call.                                                        *)
LEMMA OnTrackGets ==
  ASSUME TypeOK, keyok, getFrame, OnTrack, pos <= Len(file), Untouched(pos), ~d_headerframe
  PROVE  TakeData(FrameAt(pos), d_framecount) /\ ~d_badmac' /\ ~d_headerframe'
<1>t. pos \in Nat \ {0} /\ Len(file) \in Nat /\ d_counter \in Nat /\ FirstCounter \in Nat
  BY FileType, LoadAssumption DEF TypeOK, StreamTypeOK
<1>1. aligned /\ ~d_badmac
  BY Zenon DEF OnTrack
<1>2. pos \in 2 .. Len(file) /\ file[pos].kind = "frame" /\ d_counter = FirstCounter + (pos - 2)
  BY <1>t DEF OnTrack
<1>3. file[pos].damage = "none"
  BY <1>t DEF Untouched
<1>4. file[pos].iv = uintToFourBytes(d_counter)
  BY <1>2 DEF TypeOK, FileTypeOK, WellFormed
<1>5. LengthIsRight /\ Decrypts /\ ~CutShort /\ Verifies
  <2>1. "none" # "length" /\ "none" \notin {"cut", "cutmac"}
    OBVIOUS
  <2> QED
    BY <1>1, <1>2, <1>3, <1>4, <2>1, Zenon
       DEF LengthIsRight, Decrypts, CutShort, Verifies
<1>6. ~Eof
  BY <1>t DEF Eof
<1>7. ~GetFrameBadMac /\ ~GetFrameNoise
  BY <1>3, <1>5, Zenon DEF GetFrameBadMac, GetFrameNoise
<1>8. ~GetFrameOldNoise /\ ~GetFrameOldBadMac
  BY <1>5, Zenon DEF GetFrameOldNoise, GetFrameOldBadMac
<1>9. GetFrame \/ GetFrameOld
  BY <1>6, <1>7, <1>8, Zenon DEF getFrame, getFrame1, getFrameOld, GetEof, GetHeader
<1>10. CASE GetFrame
  BY <1>1, <1>10, Zenon DEF GetFrame, FrameAt
<1>11. CASE GetFrameOld
  <2>1. ~d_badmac' /\ ~d_headerframe'
    BY <1>11, Zenon DEF GetFrameOld
  <2>2. TakeData(IF Decrypts /\ Instantiates(file[pos].frame)
                 THEN file[pos].frame ELSE InvalidFrame, d_framecount)
    BY <1>11, Zenon DEF GetFrameOld
  <2>3. FrameAt(pos) = IF Decrypts /\ Instantiates(file[pos].frame)
                       THEN file[pos].frame ELSE InvalidFrame
    BY <1>5, Zenon DEF FrameAt
  <2> QED
    BY <2>1, <2>2, <2>3, Zenon
<1> QED
  BY <1>9, <1>10, <1>11

(* From there the stream goes on to the next frame, and if it does not, what    *)
(* follows is damaged.                                                          *)
LEMMA OnTrackTakes ==
  ASSUME TypeOK, OnTrack, pos <= Len(file), Untouched(pos), ~d_headerframe,
         TakeData(FrameAt(pos), d_framecount), ~d_badmac', ~d_headerframe', file' = file
  PROVE  /\ frame' = <<>> => \A k \in 1 .. Len(file) : Good(k) => k < pos
         /\ frame' # <<>> =>
              /\ \A k \in 1 .. Len(file) :
                    Good(k) /\ k < pos' => k < pos \/ k = frame'[1].at
              /\ pos' <= Len(file) => OnTrack'
<1> DEFINE f == FrameAt(pos)
<1>t. /\ pos \in 1 .. Len(file) /\ Len(file) \in Nat /\ pos \in Nat
      /\ d_counter \in Nat /\ FirstCounter \in Nat
  BY FileType, LoadAssumption DEF TypeOK, StreamTypeOK
<1>0. pos > 1 /\ file[pos].kind = "frame" /\ d_counter + 2 = FirstCounter + pos
  BY DEF OnTrack
<1>1. CarriesData(f) <=> CarriesData(file[pos].frame)
  BY InvalidFrameType DEF FrameAt, Instantiates, CarriesData, WithAttachment
<1>2. CarriesData(f) => f = file[pos].frame /\ f.size = "fits"
  <2>1. file[pos].frame.size # "misfit"
    BY <1>t DEF Untouched
  <2>2. file[pos].frame.size \in Sizes
    BY <1>t, FileType DEF TypeOK, Frames
  <2>3. CarriesData(f) => f = file[pos].frame
    BY InvalidFrameType DEF FrameAt
  <2> QED
    BY <2>1, <2>2, <2>3 DEF CarriesData, Sizes
<1>3. CASE GiveFrame(f, d_framecount, pos, d_counter)
  <2>1. frame' # <<>> /\ frame'[1].at = pos
    BY <1>t, <1>3, Gives
  <2>2. CASE CarriesData(f)
    <3>1. pos' = pos + 2 /\ aligned' = TRUE /\ d_counter' = d_counter + 2
      BY <1>2, <1>3, <2>2, Zenon DEF GiveFrame
    <3>2. pos + 1 <= Len(file) => file[pos + 1].kind = "data"
      BY <1>t, <1>0, <1>1, <2>2, DataBehind DEF TypeOK
    <3>3. \A k \in 1 .. Len(file) : Good(k) /\ k < pos' => k < pos \/ k = frame'[1].at
      BY <1>t, <2>1, <3>1, <3>2 DEF Good
    <3>4. pos' <= Len(file) => file[pos'].kind = "frame"
      <4>1. SUFFICES ASSUME pos + 2 <= Len(file)
                     PROVE  file[(pos + 1) + 1].kind = "frame"
        BY <1>t, <3>1
      <4>2. pos + 1 \in 1 .. Len(file) /\ (pos + 1) + 1 <= Len(file)
        BY <1>t, <4>1
      <4>3. file[pos + 1].kind # "frame"
        BY <3>2, <4>2
      <4> QED
        BY <4>2, <4>3, FrameBehind DEF TypeOK
    <3>5. pos' > 1 /\ d_counter' + 2 = FirstCounter + pos'
      BY <1>t, <1>0, <3>1
    <3>6. pos' <= Len(file) => OnTrack'
      BY <3>1, <3>4, <3>5, Zenon DEF OnTrack
    <3> QED
      BY <2>1, <3>3, <3>6
  <2>3. CASE ~CarriesData(f)
    <3>1. pos' = pos + 1 /\ aligned' = TRUE /\ d_counter' = d_counter + 1
      BY <1>3, <2>3, Zenon DEF GiveFrame
    <3>2. \A k \in 1 .. Len(file) : k < pos' => k < pos \/ k = frame'[1].at
      BY <1>t, <2>1, <3>1
    <3>3. pos' <= Len(file) => file[pos'].kind = "frame"
      BY <1>t, <1>1, <2>3, <3>1, FrameBehind DEF TypeOK
    <3>4. pos' > 1 /\ d_counter' + 2 = FirstCounter + pos'
      BY <1>t, <1>0, <3>1
    <3>5. pos' <= Len(file) => OnTrack'
      BY <3>1, <3>3, <3>4, Zenon DEF OnTrack
    <3> QED
      BY <2>1, <3>2, <3>5
  <2> QED
    BY <2>2, <2>3
<1>4. CASE /\ CarriesData(f) /\ frame' = <<>>
           /\ pos < Len(file) /\ f.size = "fits" => file[pos + 1].damage = "cut"
  <2>1. pos < Len(file) => file[pos + 1].damage = "cut"
    BY <1>2, <1>4
  <2>2. ASSUME NEW k \in 1 .. Len(file), Good(k), k >= pos
        PROVE  FALSE
    <3>1. CASE k = pos
      BY <1>1, <1>4, <2>1, <2>2, <3>1 DEF Good, HasItsData
    <3>2. CASE k > pos
      <4>1. pos + 1 \in 1 .. k /\ pos < Len(file)
        BY <1>t, <3>2
      <4>2. file[pos + 1].damage = "none"
        BY <2>2, <4>1 DEF Good, Untouched
      <4> QED
        BY <2>1, <4>1, <4>2
    <3> QED
      BY <1>t, <2>2, <3>1, <3>2
  <2>3. \A k \in 1 .. Len(file) : Good(k) => k < pos
    BY <1>t, <2>2
  <2> QED
    BY <1>4, <2>3
<1> QED
  BY <1>3, <1>4, Zenon DEF TakeData

(* The header, of a file that was just opened.                                  *)
LEMMA HeaderLosesNothing ==
  ASSUME TypeOK, GetHeader, file' = file, OnTrackBeforeDamage, pos = 1
  PROVE  /\ frame' # <<>> /\ ~d_headerframe'
         /\ \A k \in 1 .. Len(file) :
               Good(k) /\ k < pos' => k = frame'[1].at /\ ~StopsOnBadMac'
         /\ pos' <= Len(file) /\ Untouched(pos') => OnTrack'
<1>t. Len(file) \in Nat \ {0} /\ FirstCounter \in Nat
  BY FileType, LoadAssumption DEF TypeOK
<1>1. /\ frame' = Returned(file[1].frame, 0, 1) /\ pos' = 2 /\ aligned' = TRUE
      /\ ~d_headerframe' /\ d_counter' = d_counter /\ d_badmac' = d_badmac /\ d_headerframe
  BY Zenon DEF GetHeader
<1>2. frame' # <<>> /\ frame'[1].at = 1
  BY <1>1 DEF Returned
<1>3. Untouched(1) => ~d_badmac /\ d_counter = FirstCounter
  <2>1. pos <= Len(file)
    BY <1>t
  <2> QED
    BY <1>1, <2>1, Zenon DEF OnTrackBeforeDamage, OnTrack
<1>4. ASSUME NEW k \in 1 .. Len(file), Good(k), k < pos'
      PROVE  k = frame'[1].at /\ ~StopsOnBadMac'
  <2>1. k = 1
    BY <1>1, <1>4
  <2>2. Untouched(1)
    BY <1>4, <2>1 DEF Good
  <2> QED
    BY <1>1, <1>2, <1>3, <2>1, <2>2, Zenon DEF StopsOnBadMac
<1>5. ASSUME pos' <= Len(file), Untouched(pos')
      PROVE  OnTrack'
  <2>1. Untouched(1)
    BY <1>1, <1>5, UntouchedBefore
  <2>2. file[2].kind = "frame"
    <3>1. ~CarriesData(file[1].frame) /\ 1 \in 1 .. Len(file) /\ 1 + 1 <= Len(file) /\ 1 + 1 = 2
      BY <1>t, <1>1, <1>5 DEF TypeOK, FileTypeOK, WellFormed, CarriesData
    <3> QED
      BY <3>1, FrameBehind DEF TypeOK
  <2>3. pos' > 1 /\ d_counter' + 2 = FirstCounter + pos'
    BY <1>t, <1>1, <1>3, <2>1
  <2>4. ~d_badmac' /\ aligned'
    BY <1>1, <1>3, <2>1, Zenon
  <2>5. file'[pos'].kind = "frame"
    BY <1>1, <2>2
  <2> QED
    BY <1>1, <2>3, <2>4, <2>5, Zenon DEF OnTrack
<1> QED
  BY <1>1, <1>2, <1>4, <1>5

(* A call that returns nothing has left nothing undamaged behind the stream,    *)
(* and one that returns a frame has passed over nothing undamaged.              *)
LEMMA CallLosesNothing ==
  ASSUME TypeOK, keyok, getFrame, file' = file, OnTrackBeforeDamage, d_headerframe => pos = 1
  PROVE  /\ frame' = <<>> => \A k \in 1 .. Len(file) : Good(k) => k < pos
         /\ frame' # <<>> =>
              /\ ~d_headerframe'
              /\ \A k \in 1 .. Len(file) :
                    Good(k) /\ k < pos' => k < pos \/ (k = frame'[1].at /\ ~StopsOnBadMac')
              /\ pos' <= Len(file) /\ Untouched(pos') => OnTrack'
<1>t. pos \in Nat \ {0} /\ Len(file) \in Nat
  BY FileType DEF TypeOK, StreamTypeOK
<1>1. CASE pos > Len(file)
  <2>1. frame' = <<>>
    <3>1. Eof
      BY <1>1 DEF Eof
    <3> QED
      BY <3>1, Zenon DEF getFrame, getFrame1, getFrameOld, GetEof, GetHeader, GetFrame,
         GetFrameBadMac, GetFrameNoise, GetFrameOld, GetFrameOldNoise, GetFrameOldBadMac
  <2>2. \A k \in 1 .. Len(file) : k < pos
    BY <1>t, <1>1
  <2> QED
    BY <2>1, <2>2
<1>2. CASE pos <= Len(file) /\ d_headerframe
  <2>1. pos = 1 /\ GetHeader
    <3>1. ~Eof
      BY <1>t, <1>2 DEF Eof
    <3> QED
      BY <1>2, <3>1, Zenon DEF getFrame, getFrame1, getFrameOld, GetEof, GetHeader, GetFrame,
         GetFrameBadMac, GetFrameNoise, GetFrameOld, GetFrameOldNoise, GetFrameOldBadMac
  <2> QED
    BY <2>1, HeaderLosesNothing, Zenon
<1>3. CASE pos <= Len(file) /\ ~d_headerframe /\ Untouched(pos)
  <2>1. OnTrack
    BY <1>3 DEF OnTrackBeforeDamage
  <2>2. TakeData(FrameAt(pos), d_framecount) /\ ~d_badmac' /\ ~d_headerframe'
    BY <1>3, <2>1, OnTrackGets
  <2>3. /\ frame' = <<>> => \A k \in 1 .. Len(file) : Good(k) => k < pos
        /\ frame' # <<>> =>
             /\ \A k \in 1 .. Len(file) :
                   Good(k) /\ k < pos' => k < pos \/ k = frame'[1].at
             /\ pos' <= Len(file) => OnTrack'
    BY <1>3, <2>1, <2>2, OnTrackTakes
  <2>4. ~StopsOnBadMac'
    BY <2>2, Zenon DEF StopsOnBadMac
  <2> QED
    BY <2>2, <2>3, <2>4, Zenon
<1>4. CASE pos <= Len(file) /\ ~d_headerframe /\ ~Untouched(pos)
  <2>1. \A k \in Nat : Untouched(k) => k < pos
    BY <1>t, <1>4, UntouchedBefore
  <2>2. \A k \in 1 .. Len(file) : Good(k) => k < pos
    BY <1>t, <2>1 DEF Good
  <2>3. frame' # <<>> => ~d_headerframe' /\ pos' \in Nat /\ pos < pos'
    <3>1. SUFFICES ASSUME frame' # <<>>
                   PROVE  ~d_headerframe' /\ pos' \in Nat /\ pos < pos'
      OBVIOUS
    <3>2. pos' \in Nat
      BY GetFrameType DEF TypeOK, StreamTypeOK
    <3>3. ASSUME NEW f, NEW n, NEW k, NEW c, Reads(f, n, k, c)
          PROVE  pos < pos'
      <4>1. k \in pos .. Len(file) /\ GiveFrame(f, n, k, c)
        BY <3>3, Zenon DEF Reads
      <4>2. k \in Nat /\ pos <= k
        BY <1>t, <4>1
      <4>3. k < pos'
        BY <4>1, <4>2, Gives
      <4> QED
        BY <1>t, <3>2, <4>2, <4>3
    <3>4. ReadsDamaged => pos < pos'
      BY <1>t DEF ReadsDamaged
    <3>5. ~GetHeader
      BY <1>4, Zenon DEF GetHeader
    <3> QED
      BY <3>1, <3>2, <3>3, <3>4, <3>5, Outcome, Zenon
  <2>4. frame' # <<>> => ~Untouched(pos')
    BY <1>t, <2>1, <2>3
  <2> QED
    BY <2>2, <2>3, <2>4, Zenon
<1> QED
  BY <1>t, <1>1, <1>2, <1>3, <1>4

(* What is delivered once stays delivered.                                      *)
LEMMA DeliveredStays ==
  ASSUME TypeOK, frame # <<>>, delivered' = Append(delivered, frame[1])
  PROVE  \A k : Delivered(k) \/ k = frame[1].at => Delivered(k)'
<1>1. /\ Len(delivered) \in Nat /\ Len(delivered') = Len(delivered) + 1
      /\ delivered'[Len(delivered) + 1] = frame[1]
      /\ \A i \in 1 .. Len(delivered) : delivered'[i] = delivered[i]
  BY Appended
<1>2. Len(delivered) + 1 \in 1 .. Len(delivered')
      /\ \A i \in 1 .. Len(delivered) : i \in 1 .. Len(delivered')
  BY <1>1
<1>3. ASSUME NEW k, k = frame[1].at
      PROVE  Delivered(k)'
  BY <1>1, <1>2, <1>3, Zenon DEF Delivered
<1>4. ASSUME NEW k, Delivered(k)
      PROVE  Delivered(k)'
  <2>1. PICK i \in 1 .. Len(delivered) : delivered[i].at = k
    BY <1>4 DEF Delivered
  <2>2. i \in 1 .. Len(delivered') /\ delivered'[i].at = k
    BY <1>1, <1>2, <2>1
  <2> QED
    BY <2>2 DEF Delivered
<1> QED
  BY <1>3, <1>4

LEMMA NoLossStutter ==
  ASSUME NoLoss, UNCHANGED <<file, command, decryptorVars, delivered>>,
         pc' = pc \/ pc' = "crashed" \/ (pc' = "done" /\ pc = "handle" /\ frame = <<>>)
  PROVE  NoLoss'
<1>1. /\ frame' = frame /\ pos' = pos /\ file' = file /\ d_headerframe' = d_headerframe
      /\ OnTrackBeforeDamage' = OnTrackBeforeDamage /\ StopsOnBadMac' = StopsOnBadMac
      /\ \A k : Good(k)' = Good(k) /\ Delivered(k)' = Delivered(k)
  BY DEF OnTrackBeforeDamage, OnTrack, Untouched, StopsOnBadMac, d_stoponerror, Good,
         HasItsData, Delivered, decryptorVars
<1> QED
  BY <1>1, Zenon DEF NoLoss

LEMMA NoLossStarts == StartLoad => NoLossWithKey
<1> SUFFICES ASSUME StartLoad
             PROVE  NoLoss
  BY DEF NoLossWithKey
<1>1. pc = "get" /\ pos = 1 /\ d_counter = FirstCounter
  BY DEF StartLoad, OpenFile
<1>2. aligned /\ ~d_badmac /\ d_headerframe
  BY Zenon DEF StartLoad, OpenFile
<1>3. OnTrack
  BY <1>1, <1>2, Zenon DEF OnTrack
<1>4. \A k \in 1 .. Len(file) : ~(k < pos)
  BY <1>1
<1> QED
  BY <1>1, <1>3, <1>4 DEF NoLoss, OnTrackBeforeDamage

(* The call of getFrame, and the frame it returned being handed on or refused.  *)
LEMMA NoLossCall ==
  ASSUME TypeOK, keyok, NoLoss, CallGetFrame
  PROVE  NoLoss'
<1>1. /\ pc = "get" /\ getFrame /\ pc' = "handle"
      /\ UNCHANGED <<file, command, delivered>>
  BY Zenon DEF CallGetFrame
<1>2. /\ \A k \in 1 .. Len(file) : Good(k) /\ k < pos => Delivered(k)
      /\ OnTrackBeforeDamage /\ (d_headerframe => pos = 1)
  BY <1>1, Zenon DEF NoLoss
<1>3. /\ frame' = <<>> => \A k \in 1 .. Len(file) : Good(k) => k < pos
      /\ frame' # <<>> =>
           /\ ~d_headerframe'
           /\ \A k \in 1 .. Len(file) :
                 Good(k) /\ k < pos' => k < pos \/ (k = frame'[1].at /\ ~StopsOnBadMac')
           /\ pos' <= Len(file) /\ Untouched(pos') => OnTrack'
  BY <1>1, <1>2, CallLosesNothing
<1>4. \A k : Good(k)' = Good(k) /\ Delivered(k)' = Delivered(k)
  BY <1>1 DEF Good, HasItsData, Untouched, Delivered
<1>5. OnTrackBeforeDamage' = (pos' <= Len(file) /\ Untouched(pos') => OnTrack')
  BY <1>1 DEF OnTrackBeforeDamage, Untouched
<1> QED
  BY <1>1, <1>2, <1>3, <1>4, <1>5 DEF NoLoss

LEMMA NoLossHandle ==
  ASSUME TypeOK, NoLoss, HandleFrame
  PROVE  NoLoss'
<1>t. pos \in Nat /\ Len(file) \in Nat
  BY FileType DEF TypeOK, StreamTypeOK
<1>0. frame # <<>> /\ pc = "handle"
  BY Zenon DEF HandleFrame
<1>1. /\ \A k \in 1 .. Len(file) :
            Good(k) /\ k < pos => Delivered(k) \/ (k = frame[1].at /\ ~StopsOnBadMac)
      /\ OnTrackBeforeDamage /\ ~d_headerframe
  BY <1>0, Zenon DEF NoLoss
<1>2. CASE /\ pc' = "done" /\ StopsOnBadMac
           /\ UNCHANGED <<file, command, decryptorVars, delivered>>
  <2>1. \A k : Good(k)' = Good(k) /\ Delivered(k)' = Delivered(k)
    BY <1>2 DEF Good, HasItsData, Untouched, Delivered
  <2>2. ASSUME NEW k \in 1 .. Len(file), Good(k)
        PROVE  k < pos
    <3>1. SUFFICES ASSUME pos <= k
                   PROVE  FALSE
      BY <1>t
    <3>2. pos <= Len(file) /\ Untouched(pos)
      BY <1>t, <2>2, <3>1, UntouchedBefore DEF Good
    <3>3. ~d_badmac
      BY <1>1, <3>2, Zenon DEF OnTrackBeforeDamage, OnTrack
    <3> QED
      BY <1>2, <3>3, Zenon DEF StopsOnBadMac
  <2>3. \A k \in 1 .. Len(file) : Good(k) => Delivered(k)
    BY <1>1, <1>2, <2>2
  <2> QED
    BY <1>2, <2>1, <2>3 DEF NoLoss
<1>3. CASE /\ pc' = "get" /\ delivered' = Append(delivered, frame[1]) /\ ~StopsOnBadMac
           /\ UNCHANGED <<file, command, decryptorVars>>
  <2>1. \A k : Delivered(k) \/ k = frame[1].at => Delivered(k)'
    BY <1>0, <1>3, DeliveredStays
  <2>2. \A k : Good(k)' = Good(k)
    BY <1>3 DEF Good, HasItsData, Untouched
  <2>3. OnTrackBeforeDamage' = OnTrackBeforeDamage
    BY <1>3 DEF OnTrackBeforeDamage, OnTrack, Untouched, decryptorVars
  <2>4. ~d_headerframe' /\ pos' = pos /\ file' = file
    BY <1>1, <1>3, Zenon DEF decryptorVars
  <2>5. \A k \in 1 .. Len(file) : Good(k) /\ k < pos => Delivered(k)'
    BY <1>1, <2>1
  <2> QED
    BY <1>1, <1>3, <2>2, <2>3, <2>4, <2>5 DEF NoLoss
<1> QED
  BY <1>2, <1>3, Handles, Zenon

LEMMA NoLossInductive == TypeOK /\ NoLossWithKey /\ [LoadNext]_loadVars => NoLossWithKey'
<1> SUFFICES ASSUME TypeOK, NoLossWithKey, [LoadNext]_loadVars, keyok'
             PROVE  NoLoss'
  BY DEF NoLossWithKey
<1>a. keyok /\ NoLoss
  <2>1. command' = command
    BY Zenon DEF LoadNext, CallGetFrame, HandleFrame, HandleCrash, Finish, loadVars
  <2>2. keyok
    BY <2>1, Zenon DEF keyok
  <2> QED
    BY <2>2 DEF NoLossWithKey
<1>1. CASE CallGetFrame
  BY <1>a, <1>1, NoLossCall
<1>2. CASE HandleFrame
  BY <1>a, <1>2, NoLossHandle
<1>3. CASE HandleCrash
  BY <1>3, <1>a, NoLossStutter, Zenon DEF HandleCrash
<1>4. CASE Finish
  BY <1>4, <1>a, NoLossStutter, Zenon DEF Finish
<1>5. CASE UNCHANGED loadVars
  BY <1>5, <1>a, NoLossStutter, Zenon DEF loadVars
<1> QED
  BY <1>1, <1>2, <1>3, <1>4, <1>5 DEF LoadNext

LEMMA NoLossIsDelivered == NoLossWithKey => DeliversUntouched
BY Zenon DEF NoLossWithKey, NoLoss, DeliversUntouched, Good, Untouched

(* DeliversUntouched, for files of any length and any damage to them, in both   *)
(* layouts: with the right passphrase, what comes before the first damage is    *)
(* never lost, whatever the load does when it meets the damage.                 *)
THEOREM UntouchedIsDelivered == Spec => []DeliversUntouched
<1>1. Init => NoLossWithKey
  BY InitialFiles, NoLossStarts
<1> QED
  BY <1>1, TypeCorrect, NoLossInductive, NoLossIsDelivered, PTL DEF Spec
-----------------------------------------------------------------------------
(* What is whole is recovered *)

(* The counter is the one the block at the stream was encrypted with.           *)
Counted == pos \in 2 .. Len(file) => file[pos].iv = uintToFourBytes(d_counter)

(* The stream stands where a block begins, with its counter.                    *)
OnCourse ==
  /\ IF d_headerframe THEN pos = 1 /\ d_counter = FirstCounter ELSE pos > 1
  /\ Counted /\ aligned

(* Frame r is block k as it was written, or took what is behind it along.       *)
Brings(r, k) ==
  \/ r.at = k /\ r.frame = file[k].frame
  \/ r.at \in 2 .. k - 1 /\ file[r.at].damage = "length"

Recovered(k) == \E i \in 1 .. Len(delivered) : Brings(delivered[i], k)

(* All that is whole was recovered, or all that lies before the stream, which   *)
(* is on course.                                                                *)
Settled ==
  \/ \A k \in 1 .. Len(file) : StillWhole(k) => Recovered(k)
  \/ OnCourse /\ \A k \in 1 .. Len(file) : StillWhole(k) /\ k < pos => Recovered(k)

SettledWithFrame ==
  \/ \A k \in 1 .. Len(file) : StillWhole(k) => Recovered(k) \/ Brings(frame[1], k)
  \/ /\ OnCourse
     /\ \A k \in 1 .. Len(file) :
           StillWhole(k) /\ k < pos => Recovered(k) \/ Brings(frame[1], k)

NothingLost ==
  /\ pc = "get" => Settled
  /\ pc = "handle" /\ frame # <<>> => SettledWithFrame
  /\ pc = "done" \/ (pc = "handle" /\ frame = <<>>) =>
       \A k \in 1 .. Len(file) : StillWhole(k) => Recovered(k)

(* The loads that search for what can be found.                                 *)
Recovering == keyok /\ ~NoSearch /\ RightSizes

NothingLostWhileRecovering == EndsAtCut(file) /\ (Recovering => NothingLost)

(* Counters that are equal in their low bytes stay so when both go on as far.   *)
LEMMA ShiftedRemainder ==
  ASSUME NEW N \in Nat \ {0}, NEW a \in Nat, NEW b \in Nat, a % N = b % N, NEW m \in Nat
  PROVE  (a + m) % N = (b + m) % N
<1> DEFINE S == {n \in Nat : (a + n) % N = (b + n) % N}
<1>1. 0 \in S
  OBVIOUS
<1>2. ASSUME NEW n \in Nat, n \in S PROVE n + 1 \in S
  <2>1. a + n \in Nat /\ b + n \in Nat /\ a + (n + 1) = (a + n) + 1 /\ b + (n + 1) = (b + n) + 1
    OBVIOUS
  <2>2. ((a + n) + 1) % N = ((b + n) + 1) % N
    BY <1>2, <2>1, NextRemainder
  <2> QED
    BY <2>1, <2>2
<1>3. Nat \subseteq S
  <2> HIDE DEF S
  <2> QED
    BY <1>1, <1>2, SetInduction
<1> QED
  BY <1>3

(* The iv of a block tells the one of every block behind it.                    *)
LEMMA IvBehind ==
  ASSUME FileTypeOK, NEW k \in 2 .. Len(file), NEW j \in k .. Len(file),
         NEW c \in Nat, file[k].iv = uintToFourBytes(c)
  PROVE  file[j].iv = uintToFourBytes(c + (j - k))
<1> DEFINE a == FirstCounter + (k - 2)
           m == j - k
<1>1. Len(file) \in Nat /\ FirstCounter \in Nat /\ IvSpace \in Nat \ {0}
  BY FileType, LoadAssumption, IvSpaceAssumption
<1>2. a \in Nat /\ m \in Nat /\ j \in 2 .. Len(file) /\ FirstCounter + (j - 2) = a + m
  BY <1>1
<1>3. \A i \in 2 .. Len(file) : file[i].iv = uintToFourBytes(FirstCounter + (i - 2))
  BY DEF FileTypeOK, WellFormed
<1>4. file[k].iv = uintToFourBytes(a) /\ file[j].iv = uintToFourBytes(a + m)
  BY <1>2, <1>3
<1> HIDE DEF a, m
<1>5. a % IvSpace = c % IvSpace
  BY <1>4 DEF uintToFourBytes
<1>6. (a + m) % IvSpace = (c + m) % IvSpace
  BY <1>1, <1>2, <1>5, ShiftedRemainder, ZenonT(30)
<1>7. file[j].iv = uintToFourBytes(c + m)
  BY <1>4, <1>6 DEF uintToFourBytes
<1> QED
  BY <1>7 DEF m

(* A whole frame behind the stream is one the search accepts.                   *)
LEMMA WholeIsAccepted ==
  ASSUME FileTypeOK, keyok, NEW k \in 2 .. Len(file), StillWhole(k)
  PROVE  VerifiesAt(k) /\ Acceptable(k)
<1>1. Len(file) \in Nat
  BY FileType
<1>2. VerifiesAt(k)
  BY Zenon DEF VerifiesAt, StillWhole
<1>3. Instantiates(file[k].frame) /\ Validates(file[k].frame, k)
  BY Zenon DEF StillWhole, HasItsData, Validates
<1>4. file[k].frame.type # "HEADER" /\ (file[k].frame.type = "END" => k = Len(file))
  BY DEF FileTypeOK, WellFormed
<1> QED
  BY <1>2, <1>3, <1>4, Zenon DEF Acceptable

(* So the search does not pass over it.                                         *)
LEMMA WholeIsFound ==
  ASSUME TypeOK, keyok, NEW k \in pos + 1 .. Len(file), StillWhole(k), pos > 1, Counted, aligned,
         NEW c \in Nat, c = d_counter \/ c = d_counter + 1
  PROVE  IsFound(k, c)
<1>t. pos \in Nat /\ d_counter \in Nat /\ Len(file) \in Nat /\ FileTypeOK
  BY FileType DEF TypeOK, StreamTypeOK
<1>1. pos \in 2 .. Len(file) /\ k \in pos .. Len(file) /\ k \in 2 .. Len(file)
  BY <1>t
<1>2. VerifiesAt(k) /\ Acceptable(k)
  BY <1>t, <1>1, WholeIsAccepted
<1>3. file[k].iv = uintToFourBytes(d_counter + (k - pos))
  BY <1>t, <1>1, IvBehind DEF Counted
<1>4. PICK t \in 0 .. k - pos : c + t = d_counter + (k - pos)
  <2>1. CASE c = d_counter
    <3>1. k - pos \in 0 .. k - pos /\ c + (k - pos) = d_counter + (k - pos)
      BY <1>t, <1>1, <2>1
    <3> QED
      BY <3>1, Zenon
  <2>2. CASE c = d_counter + 1
    <3>1. (k - pos) - 1 \in 0 .. k - pos /\ c + ((k - pos) - 1) = d_counter + (k - pos)
      BY <1>t, <1>1, <2>2
    <3> QED
      BY <3>1, Zenon
  <2> QED
    BY <2>1, <2>2
<1>5. SkipsTo(k, c, t) /\ Tried(k) = k - pos
  BY <1>3, <1>4, Zenon DEF SkipsTo, Tried
<1> QED
  BY <1>2, <1>4, <1>5, Zenon DEF IsFound

(* What a frame that was given leaves behind it.                                *)
LEMMA GivesOnCourse ==
  ASSUME TypeOK, RightSizes, file' = file, ~d_headerframe',
         NEW k \in 2 .. Len(file), file[k].kind = "frame", NEW f \in Frames(Ids), NEW n, NEW c \in Nat,
         f = file[k].frame \/ ~CarriesData(f),
         file[k].iv = uintToFourBytes(c),
         GiveFrame(f, n, k, c)
  PROVE  /\ OnCourse' /\ frame' # <<>> /\ frame'[1].at = k /\ frame'[1].frame = f
         /\ \A j \in 1 .. Len(file) : StillWhole(j) /\ j < pos' => j < k \/ j = k
<1>t. Len(file) \in Nat /\ FileTypeOK /\ k \in Nat /\ k \in 1 .. Len(file)
  BY FileType DEF TypeOK
<1>1. frame' # <<>> /\ frame'[1].at = k /\ frame'[1].frame = f
  BY <1>t, Gives
<1>2. CASE CarriesData(f)
  <2>0. f = file[k].frame
    BY <1>2
  <2>1. f.size = "fits"
    <3>1. file[k].frame.size # "misfit"
      BY <1>t DEF RightSizes
    <3>2. f.size \in Sizes
      BY DEF Frames
    <3> QED
      BY <1>2, <2>0, <3>1, <3>2 DEF CarriesData, Sizes
  <2>2. pos' = k + 2 /\ aligned' = TRUE /\ d_counter' = c + 2
    BY <1>2, <2>1, Zenon DEF GiveFrame
  <2>3. k + 1 <= Len(file) => file[k + 1].kind = "data"
    BY <1>t, <1>2, <2>0, DataBehind
  <2>4. \A j \in 1 .. Len(file) : StillWhole(j) /\ j < pos' => j < k \/ j = k
    <3> SUFFICES ASSUME NEW j \in 1 .. Len(file), StillWhole(j), j < pos', j > k
                 PROVE  FALSE
      BY <1>t
    <3>1. j = k + 1
      BY <1>t, <2>2
    <3>2. file[j].kind = "frame"
      BY Zenon DEF StillWhole
    <3> QED
      BY <2>3, <3>1, <3>2
  <2>5. pos' <= Len(file) => file[pos'].iv = uintToFourBytes(d_counter')
    <3> SUFFICES ASSUME k + 2 <= Len(file)
                 PROVE  file[k + 2].iv = uintToFourBytes(c + 2)
      BY <2>2
    <3>1. k + 2 \in k .. Len(file) /\ c + ((k + 2) - k) = c + 2
      BY <1>t
    <3>2. file[k + 2].iv = uintToFourBytes(c + ((k + 2) - k))
      BY <1>t, <3>1, IvBehind
    <3> QED
      BY <3>1, <3>2
  <2>6. pos' > 1
    BY <1>t, <2>2
  <2>7. OnCourse'
    BY <1>t, <2>2, <2>5, <2>6 DEF OnCourse, Counted
  <2> QED
    BY <1>1, <2>4, <2>7
<1>3. CASE ~CarriesData(f)
  <2>2. pos' = k + 1 /\ aligned' = TRUE /\ d_counter' = c + 1
    BY <1>3, Zenon DEF GiveFrame
  <2>4. \A j \in 1 .. Len(file) : StillWhole(j) /\ j < pos' => j < k \/ j = k
    BY <1>t, <2>2
  <2>5. pos' <= Len(file) => file[pos'].iv = uintToFourBytes(d_counter')
    <3> SUFFICES ASSUME k + 1 <= Len(file)
                 PROVE  file[k + 1].iv = uintToFourBytes(c + 1)
      BY <2>2
    <3> QED
      BY <1>t, NextIv
  <2>6. pos' > 1
    BY <1>t, <2>2
  <2>7. OnCourse'
    BY <1>t, <2>2, <2>5, <2>6 DEF OnCourse, Counted
  <2> QED
    BY <1>1, <2>4, <2>7
<1> QED
  BY <1>2, <1>3

(* A call that returns nothing has left nothing whole behind the stream, and    *)
(* one that returns a frame has passed over nothing whole, unless its length    *)
(* took that along.                                                             *)
Took(k) == frame'[1].at \in 2 .. k - 1 /\ file[frame'[1].at].damage = "length"

KeepsWhole ==
  /\ frame' = <<>> => \A k \in 1 .. Len(file) : StillWhole(k) => k < pos
  /\ frame' # <<>> =>
       \/ \A k \in 1 .. Len(file) : StillWhole(k) => k < pos \/ Took(k)
       \/ /\ OnCourse'
          /\ \A k \in 1 .. Len(file) :
                StillWhole(k) /\ k < pos' =>
                  k < pos \/ (k = frame'[1].at /\ frame'[1].frame = file[k].frame)

(* A search from a block that is not whole passes over nothing whole.           *)
LEMMA SearchKeeps ==
  ASSUME TypeOK, Recovering, file' = file, ~d_headerframe', ~StillWhole(pos), pos > 1, Counted, aligned,
         NEW c \in Nat, c = d_counter \/ c = d_counter + 1, NEW n, NEW b, BruteForce(c, n, b)
  PROVE  KeepsWhole
<1>t. pos \in Nat \ {0} /\ Len(file) \in Nat
  BY FileType DEF TypeOK, StreamTypeOK
<1>0. keyok /\ RightSizes
  BY Zenon DEF Recovering
<1>1. \A k \in pos + 1 .. Len(file) : StillWhole(k) => IsFound(k, c)
  BY <1>0, WholeIsFound
<1>2. CASE FindsNothing(c, n, b)
  <2>1. frame' = <<>>
    BY <1>2, Zenon DEF FindsNothing
  <2>2. \A k \in pos + 1 .. Len(file) : ~IsFound(k, c)
    BY <1>2, Zenon DEF FindsNothing
  <2>3. \A k \in 1 .. Len(file) : StillWhole(k) => k < pos
    <3> SUFFICES ASSUME NEW k \in 1 .. Len(file), StillWhole(k), ~(k < pos)
                 PROVE  FALSE
      OBVIOUS
    <3>1. k # pos
      OBVIOUS
    <3>2. k \in pos + 1 .. Len(file)
      BY <1>t, <3>1
    <3> QED
      BY <1>1, <2>2, <3>2
  <2> QED
    BY <2>1, <2>3, Zenon DEF KeepsWhole
<1>3. CASE Finds(c, n)
  <2>1. PICK k \in pos + 1 .. Len(file), s \in 0 .. Len(file) :
               Found(c, k, s) /\ GiveFrame(file[k].frame, n + s, k, c + s)
    BY <1>3, Zenon DEF Finds
  <2>2. k \in 2 .. Len(file) /\ k \in 1 .. Len(file) /\ s \in Nat /\ c + s \in Nat
    BY <1>t
  <2>3. file[k].frame \in Frames(Ids)
    BY <2>2, FileType DEF TypeOK
  <2>4. /\ VerifiesAt(k) /\ SkipsTo(k, c, s)
        /\ \A j \in pos + 1 .. k - 1 : ~IsFound(j, c)
    BY <2>1, Zenon DEF Found
  <2>5. file[k].kind = "frame" /\ file[k].iv = uintToFourBytes(c + s)
    BY <2>4, Zenon DEF VerifiesAt, SkipsTo
  <2>6. /\ OnCourse' /\ frame' # <<>> /\ frame'[1].at = k /\ frame'[1].frame = file[k].frame
        /\ \A j \in 1 .. Len(file) : StillWhole(j) /\ j < pos' => j < k \/ j = k
    BY <1>0, <2>1, <2>2, <2>3, <2>5, GivesOnCourse
  <2>7. \A j \in 1 .. Len(file) : StillWhole(j) /\ j < k => j < pos
    <3> SUFFICES ASSUME NEW j \in 1 .. Len(file), StillWhole(j), j < k, ~(j < pos)
                 PROVE  FALSE
      OBVIOUS
    <3>1. j # pos
      OBVIOUS
    <3>2. j \in pos + 1 .. Len(file) /\ j \in pos + 1 .. k - 1
      BY <1>t, <2>2, <3>1
    <3> QED
      BY <1>1, <2>4, <3>2
  <2>8. \A j \in 1 .. Len(file) :
           StillWhole(j) /\ j < pos' =>
             j < pos \/ (j = frame'[1].at /\ frame'[1].frame = file[j].frame)
    BY <2>6, <2>7
  <2> QED
    BY <2>6, <2>8, Zenon DEF KeepsWhole
<1> QED
  BY <1>2, <1>3, Zenon DEF BruteForce

(* A frame at the stream that verifies is returned, or its data is not there.   *)
LEMMA VerifiedKeeps ==
  ASSUME TypeOK, Recovering, EndsAtCut(file), file' = file, OnCourse, GetFrameOld
  PROVE  KeepsWhole
<1>t. /\ pos \in Nat \ {0} /\ Len(file) \in Nat /\ d_counter \in Nat
      /\ d_framecount \in Nat /\ FileTypeOK
  BY FileType DEF TypeOK, StreamTypeOK
<1>0. keyok /\ RightSizes
  BY Zenon DEF Recovering
<1>1. ~Eof /\ ~d_headerframe /\ ~d_headerframe' /\ Verifies
  BY Zenon DEF GetFrameOld
<1>2. pos > 1 /\ pos \in 2 .. Len(file) /\ file[pos].iv = uintToFourBytes(d_counter)
  BY <1>t, <1>1 DEF Eof, OnCourse, Counted
<1>3. file[pos].kind = "frame" /\ file[pos].damage = "none"
  BY <1>1, Zenon DEF Verifies, LengthIsRight
<1>4. Decrypts
  BY <1>0, <1>2, Zenon DEF Decrypts
<1>5. file[pos].frame \in Frames(Ids) /\ pos \in 1 .. Len(file)
  BY <1>t, <1>2, FileType
<1>6. PICK f \in Frames(Ids) : /\ TakeData(f, d_framecount)
                               /\ f = file[pos].frame \/ (~CarriesData(f) /\ ~Instantiates(file[pos].frame))
  BY <1>4, <1>5, InvalidFrameType, Zenon DEF GetFrameOld
<1>7. CASE GiveFrame(f, d_framecount, pos, d_counter)
  <2>1. /\ OnCourse' /\ frame' # <<>> /\ frame'[1].at = pos /\ frame'[1].frame = f
        /\ \A j \in 1 .. Len(file) : StillWhole(j) /\ j < pos' => j < pos \/ j = pos
    BY <1>t, <1>0, <1>1, <1>2, <1>3, <1>6, <1>7, GivesOnCourse
  <2>2. StillWhole(pos) => f = file[pos].frame
    BY <1>6, Zenon DEF StillWhole
  <2> QED
    BY <2>1, <2>2, Zenon DEF KeepsWhole
<1>8. CASE /\ CarriesData(f) /\ frame' = <<>>
           /\ pos < Len(file) /\ f.size = "fits" => file[pos + 1].damage = "cut"
  <2>1. f = file[pos].frame
    BY <1>6, <1>8
  <2>2. f.size = "fits"
    <3>1. file[pos].frame.size # "misfit"
      BY <1>0, <1>5 DEF RightSizes
    <3>2. f.size \in Sizes
      BY DEF Frames
    <3> QED
      BY <1>8, <2>1, <3>1, <3>2 DEF CarriesData, Sizes
  <2>3. pos < Len(file) => file[pos + 1].damage = "cut" /\ pos + 1 = Len(file)
    <3>1. pos < Len(file) => file[pos + 1].damage = "cut"
      BY <1>8, <2>2
    <3>2. pos < Len(file) /\ pos + 1 # Len(file) => pos + 1 \in 1 .. Len(file) - 1
      BY <1>t
    <3> QED
      BY <3>1, <3>2 DEF EndsAtCut
  <2>4. \A k \in 1 .. Len(file) : StillWhole(k) => k < pos
    <3> SUFFICES ASSUME NEW k \in 1 .. Len(file), StillWhole(k), ~(k < pos)
                 PROVE  FALSE
      OBVIOUS
    <3>1. CASE k = pos
      BY <1>8, <2>1, <2>3, <3>1 DEF StillWhole, HasItsData
    <3>2. CASE k # pos
      <4>1. pos < Len(file) /\ k = pos + 1
        BY <1>t, <2>3, <3>2
      <4>2. file[k].damage = "none"
        BY Zenon DEF StillWhole
      <4> QED
        BY <2>3, <4>1, <4>2
    <3> QED
      BY <3>1, <3>2
  <2> QED
    BY <1>8, <2>4, Zenon DEF KeepsWhole
<1> QED
  BY <1>6, <1>7, <1>8, Zenon DEF TakeData

(* The stream is at no frame that is whole if that one does not verify.         *)
LEMMA NothingWholeHere ==
  ASSUME OnCourse, keyok, pos <= Len(file), ~d_headerframe, ~Verifies
  PROVE  ~StillWhole(pos)
<1> SUFFICES ASSUME StillWhole(pos)
             PROVE  FALSE
  OBVIOUS
<1>1. file[pos].kind = "frame" /\ file[pos].damage = "none"
  BY Zenon DEF StillWhole
<1>2. aligned
  BY Zenon DEF OnCourse
<1>3. "none" # "length"
  OBVIOUS
<1> QED
  BY <1>1, <1>2, <1>3, Zenon DEF Verifies, LengthIsRight

(* In a file that ends in the block at the stream nothing whole is left.        *)
LEMMA NothingBehindCut ==
  ASSUME FileTypeOK, EndsAtCut(file), pos \in 1 .. Len(file), CutShort
  PROVE  \A k \in 1 .. Len(file) : StillWhole(k) => k < pos
<1>1. pos = Len(file)
  <2>1. Len(file) \in Nat /\ (pos # Len(file) => pos \in 1 .. Len(file) - 1)
    BY FileType
  <2> QED
    BY <2>1 DEF EndsAtCut, CutShort
<1>2. ~StillWhole(pos)
  BY DEF StillWhole, CutShort
<1> QED
  BY <1>1, <1>2, FileType

(* Nor does a call that found no length, or the end of the file in the block.   *)
LEMMA NoiseKeeps ==
  ASSUME TypeOK, Recovering, EndsAtCut(file), file' = file, OnCourse, GetFrameOldNoise
  PROVE  KeepsWhole
<1>t. pos \in Nat \ {0} /\ Len(file) \in Nat /\ d_counter \in Nat /\ FileTypeOK
  BY FileType DEF TypeOK, StreamTypeOK
<1>0. keyok /\ ~d_stoponerror
  BY Zenon DEF Recovering, NoSearch
<1>1. ~Eof /\ ~d_headerframe /\ ~d_headerframe' /\ (~LengthIsRight \/ CutShort)
  BY Zenon DEF GetFrameOldNoise
<1>2. pos > 1 /\ pos \in 1 .. Len(file) /\ Counted
  BY <1>t, <1>1 DEF Eof, OnCourse
<1>a. aligned
  BY Zenon DEF OnCourse
<1>3. CASE CutShort /\ frame' = <<>>
  BY <1>t, <1>2, <1>3, NothingBehindCut, Zenon DEF KeepsWhole
<1>4. CASE BruteForce(d_counter, d_framecount, d_badmac)
  <2>1. ~Verifies
    <3>1. "none" \notin {"cut", "cutmac"}
      OBVIOUS
    <3> QED
      BY <1>1, <3>1, Zenon DEF Verifies, CutShort
  <2>2. ~StillWhole(pos)
    BY <1>0, <1>1, <1>2, <2>1, NothingWholeHere
  <2> QED
    BY <1>t, <1>1, <1>2, <1>a, <1>4, <2>2, SearchKeeps
<1> QED
  BY <1>0, <1>a, <1>3, <1>4, Zenon DEF GetFrameOldNoise, MayEndHere

(* Nor one that found a bad MAC: the frame is returned, or searched over.       *)
LEMMA BadMacKeeps ==
  ASSUME TypeOK, Recovering, EndsAtCut(file), file' = file, OnCourse, GetFrameOldBadMac
  PROVE  KeepsWhole
<1>t. pos \in Nat \ {0} /\ Len(file) \in Nat /\ d_counter \in Nat /\ FileTypeOK
  BY FileType DEF TypeOK, StreamTypeOK
<1>0. keyok /\ ~d_stoponerror
  BY Zenon DEF Recovering, NoSearch
<1>1. ~Eof /\ ~d_headerframe /\ ~d_headerframe' /\ ~Verifies
  BY Zenon DEF GetFrameOldBadMac
<1>2. pos > 1 /\ pos \in 2 .. Len(file) /\ Counted
  BY <1>t, <1>1 DEF Eof, OnCourse
<1>a. aligned
  BY Zenon DEF OnCourse
<1>3. ~StillWhole(pos)
  <2>1. pos <= Len(file)
    BY <1>t, <1>2
  <2> QED
    BY <1>0, <1>1, <2>1, NothingWholeHere
<1>4. CASE frame' = Returned(file[pos].frame, d_framecount, pos) /\ file[pos].damage = "length"
  <2>1. frame' # <<>> /\ frame'[1].at = pos
    BY <1>4 DEF Returned
  <2>2. \A k \in 1 .. Len(file) : k < pos \/ k = pos \/ pos \in 2 .. k - 1
    BY <1>t, <1>2
  <2> QED
    BY <1>3, <1>4, <2>1, <2>2, Zenon DEF KeepsWhole, Took
<1>5. CASE /\ frame' = Returned(file[pos].frame, d_framecount, pos) /\ file[pos].damage # "length"
           /\ Overshoots /\ d_counter' = d_counter + 1
  <2>1. frame' # <<>> /\ frame'[1].at = pos /\ frame'[1].frame = file[pos].frame
    BY <1>5 DEF Returned
  <2>2. pos' = pos + 1 /\ aligned' = TRUE
    BY <1>5, Zenon DEF Overshoots
  <2>3. \A k \in 1 .. Len(file) : k < pos' => k < pos \/ k = pos
    BY <1>t, <2>2
  <2>4. pos' <= Len(file) => file[pos'].iv = uintToFourBytes(d_counter')
    <3> SUFFICES ASSUME pos + 1 <= Len(file)
                 PROVE  file[pos + 1].iv = uintToFourBytes(d_counter + 1)
      BY <1>5, <2>2
    <3>1. file[pos].iv = uintToFourBytes(d_counter)
      BY <1>2 DEF Counted
    <3> QED
      BY <1>t, <1>2, <3>1, NextIv
  <2>5. pos' > 1
    BY <1>t, <2>2
  <2>6. OnCourse'
    BY <1>t, <1>1, <2>2, <2>4, <2>5 DEF OnCourse, Counted
  <2> QED
    BY <2>1, <2>3, <2>6, Zenon DEF KeepsWhole
<1>6. CASE BruteForce(d_counter + 1, d_framecount + 1, TRUE)
  <2>1. d_counter + 1 \in Nat
    BY <1>t
  <2> QED
    BY <1>1, <1>2, <1>a, <1>3, <1>6, <2>1, SearchKeeps
<1> QED
  BY <1>0, <1>4, <1>5, <1>6, Zenon DEF GetFrameOldBadMac

(* Nor the first call.                                                          *)
LEMMA HeaderKeeps ==
  ASSUME TypeOK, file' = file, OnCourse, GetHeader
  PROVE  KeepsWhole
<1>t. Len(file) \in Nat \ {0} /\ FirstCounter \in Nat
  BY FileType, LoadAssumption DEF TypeOK
<1>1. /\ frame' = Returned(file[1].frame, 0, 1) /\ pos' = 2 /\ aligned' = TRUE
      /\ ~d_headerframe' /\ d_counter' = d_counter /\ d_headerframe
  BY Zenon DEF GetHeader
<1>2. frame' # <<>> /\ frame'[1].at = 1 /\ frame'[1].frame = file[1].frame
  BY <1>1 DEF Returned
<1>3. \A k \in 1 .. Len(file) :
         k < pos' => k = frame'[1].at /\ frame'[1].frame = file[k].frame
  BY <1>t, <1>1, <1>2
<1>4. pos' \in 2 .. Len(file) => file[pos'].iv = uintToFourBytes(d_counter')
  <2>1. d_counter' = FirstCounter + (2 - 2)
    BY <1>t, <1>1 DEF OnCourse
  <2> QED
    BY <1>1, <2>1 DEF TypeOK, FileTypeOK, WellFormed
<1>5. OnCourse'
  BY <1>1, <1>4 DEF OnCourse, Counted
<1> QED
  BY <1>2, <1>3, <1>5, Zenon DEF KeepsWhole

(* Nor any other call of getFrame.                                              *)
LEMMA CallKeeps ==
  ASSUME TypeOK, Recovering, EndsAtCut(file), file' = file, OnCourse, getFrame
  PROVE  KeepsWhole
<1>t. pos \in Nat \ {0} /\ Len(file) \in Nat
  BY FileType DEF TypeOK, StreamTypeOK
<1>1. CASE GetEof
  <2>1. frame' = <<>> /\ pos > Len(file)
    BY <1>1 DEF GetEof, Eof
  <2>2. \A k \in 1 .. Len(file) : k < pos
    BY <1>t, <2>1
  <2> QED
    BY <2>1, <2>2, Zenon DEF KeepsWhole
<1>2. CASE GetHeader
  BY <1>2, HeaderKeeps
<1>3. CASE getFrameOld
  BY <1>3, VerifiedKeeps, NoiseKeeps, BadMacKeeps, Zenon DEF getFrameOld
<1>4. d_backupfileversion # 1
  BY Zenon DEF Recovering, NoSearch
<1> QED
  BY <1>1, <1>2, <1>3, <1>4, Zenon DEF getFrame

(* The file and the command line are those of before.                           *)
LEMMA SameLoad == ASSUME [LoadNext]_loadVars PROVE file' = file /\ command' = command
BY Zenon DEF LoadNext, CallGetFrame, HandleFrame, HandleCrash, Finish, loadVars

(* So what is to be recovered stays what it was.                                *)
LEMMA SameRecovering ==
  ASSUME file' = file, command' = command
  PROVE  /\ Recovering' = Recovering /\ EndsAtCut(file)' = EndsAtCut(file)
         /\ \A k : StillWhole(k)' = StillWhole(k)
BY DEF Recovering, keyok, NoSearch, d_backupfileversion, d_stoponerror, RightSizes, EndsAtCut,
       StillWhole, HasItsData

(* A frame that brings a block is the one that brings it when it is handed on.  *)
LEMMA RecoveredStays ==
  ASSUME TypeOK, file' = file, frame # <<>>, delivered' = Append(delivered, frame[1])
  PROVE  \A k : Recovered(k) \/ Brings(frame[1], k) => Recovered(k)'
<1>1. /\ Len(delivered) \in Nat /\ Len(delivered') = Len(delivered) + 1
      /\ delivered'[Len(delivered) + 1] = frame[1]
      /\ \A i \in 1 .. Len(delivered) : delivered'[i] = delivered[i]
  BY Appended
<1>2. Len(delivered) + 1 \in 1 .. Len(delivered')
      /\ \A i \in 1 .. Len(delivered) : i \in 1 .. Len(delivered')
  BY <1>1
<1>3. ASSUME NEW k, Brings(frame[1], k)
      PROVE  Recovered(k)'
  BY <1>1, <1>2, <1>3, Zenon DEF Recovered, Brings
<1>4. ASSUME NEW k, Recovered(k)
      PROVE  Recovered(k)'
  <2>1. PICK i \in 1 .. Len(delivered) : Brings(delivered[i], k)
    BY <1>4, Zenon DEF Recovered
  <2>2. i \in 1 .. Len(delivered') /\ delivered'[i] = delivered[i]
    BY <1>1, <1>2
  <2> QED
    BY <2>1, <2>2, Zenon DEF Recovered, Brings
<1> QED
  BY <1>3, <1>4

(* The steps of the loop: the call,                                             *)
LEMMA NothingLostCall ==
  ASSUME TypeOK, Recovering, EndsAtCut(file), NothingLost, CallGetFrame
  PROVE  NothingLost'
<1>1. pc = "get" /\ pc' = "handle" /\ getFrame /\ file' = file /\ command' = command /\ delivered' = delivered
  BY Zenon DEF CallGetFrame
<1>2. Settled
  BY <1>1, Zenon DEF NothingLost
<1>3. \A k : StillWhole(k)' = StillWhole(k) /\ Recovered(k)' = Recovered(k)
  <2>1. \A k : Recovered(k)' = Recovered(k)
    BY <1>1 DEF Recovered, Brings
  <2> QED
    BY <1>1, <2>1, SameRecovering
<1>4. pc' # "get" /\ pc' # "done"
  BY <1>1
<1>5. CASE \A k \in 1 .. Len(file) : StillWhole(k) => Recovered(k)
  BY <1>1, <1>3, <1>4, <1>5, Zenon DEF NothingLost, SettledWithFrame
<1>6. CASE OnCourse /\ \A k \in 1 .. Len(file) : StillWhole(k) /\ k < pos => Recovered(k)
  <2>1. KeepsWhole
    BY <1>1, <1>6, CallKeeps
  <2>2. frame' = <<>> => \A k \in 1 .. Len(file) : StillWhole(k) => Recovered(k)
    BY <1>6, <2>1, Zenon DEF KeepsWhole
  <2>3. \A k : Took(k) \/ (k = frame'[1].at /\ frame'[1].frame = file[k].frame) => Brings(frame[1], k)'
    BY <1>1, Zenon DEF Took, Brings
  <2>4. frame' # <<>> => SettledWithFrame'
    <3>1. CASE \A k \in 1 .. Len(file) : StillWhole(k) => k < pos \/ Took(k)
      <4>1. \A k \in 1 .. Len(file) : StillWhole(k)' => Recovered(k)' \/ Brings(frame[1], k)'
        BY <1>3, <1>6, <2>3, <3>1, Zenon
      <4> QED
        BY <1>1, <4>1, Zenon DEF SettledWithFrame
    <3>2. CASE /\ OnCourse'
               /\ \A k \in 1 .. Len(file) :
                     StillWhole(k) /\ k < pos' =>
                       k < pos \/ (k = frame'[1].at /\ frame'[1].frame = file[k].frame)
      <4>1. \A k \in 1 .. Len(file) :
               StillWhole(k)' /\ k < pos' => Recovered(k)' \/ Brings(frame[1], k)'
        BY <1>3, <1>6, <2>3, <3>2, Zenon
      <4> QED
        BY <1>1, <3>2, <4>1, Zenon DEF SettledWithFrame
    <3> QED
      BY <2>1, <3>1, <3>2, Zenon DEF KeepsWhole
  <2> QED
    BY <1>1, <1>3, <1>4, <2>2, <2>4, Zenon DEF NothingLost
<1> QED
  BY <1>2, <1>5, <1>6, Zenon DEF Settled

(* the frame that is handled,                                                   *)
LEMMA NothingLostHandle ==
  ASSUME TypeOK, Recovering, NothingLost, HandleFrame
  PROVE  NothingLost'
<1>0. frame # <<>> /\ pc = "handle"
  BY Zenon DEF HandleFrame
<1>1. SettledWithFrame
  BY <1>0, Zenon DEF NothingLost
<1>2. ~StopsOnBadMac
  BY Zenon DEF Recovering, NoSearch, StopsOnBadMac
<1>3. /\ pc' = "get" /\ delivered' = Append(delivered, frame[1])
      /\ UNCHANGED <<file, command, decryptorVars>>
  BY <1>2, Handles, Zenon
<1>4. \A k : Recovered(k) \/ Brings(frame[1], k) => Recovered(k)'
  BY <1>0, <1>3, RecoveredStays
<1>5. \A k : StillWhole(k)' = StillWhole(k)
  BY <1>3, SameRecovering
<1>6. OnCourse' = OnCourse /\ pos' = pos /\ file' = file
  BY <1>3 DEF OnCourse, Counted, decryptorVars
<1>7. Settled'
  BY <1>1, <1>4, <1>5, <1>6, Zenon DEF SettledWithFrame, Settled
<1>8. pc' # "handle" /\ pc' # "done"
  BY <1>3
<1> QED
  BY <1>7, <1>8, Zenon DEF NothingLost

(* The end of the loop, a crash and a stutter lose nothing.                     *)
LEMMA NothingLostStutter ==
  ASSUME NothingLost, UNCHANGED <<file, command, decryptorVars, delivered>>,
         \/ pc' = pc
         \/ pc' = "crashed"
         \/ pc = "handle" /\ frame = <<>> /\ pc' = "done"
  PROVE  NothingLost'
<1>1. /\ OnCourse' = OnCourse /\ pos' = pos /\ file' = file /\ frame' = frame
      /\ \A k : /\ StillWhole(k)' = StillWhole(k) /\ Recovered(k)' = Recovered(k)
                /\ Brings(frame[1], k)' = Brings(frame[1], k)
  BY DEF OnCourse, Counted, decryptorVars, StillWhole, HasItsData, Recovered, Brings
<1>2. Settled' = Settled /\ SettledWithFrame' = SettledWithFrame
  BY <1>1 DEF Settled, SettledWithFrame
<1> QED
  BY <1>1, <1>2 DEF NothingLost

(* At the start nothing lies before the stream.                                 *)
LEMMA NothingLostStarts == ASSUME Init PROVE NothingLostWhileRecovering
<1>1. EndsAtCut(file)
  BY CutAssumption, Zenon DEF Init
<1>2. pc = "get" /\ OpenFile(FirstCounter)
  BY Zenon DEF Init, StartLoad
<1>3. OnCourse
  BY <1>2 DEF OpenFile, OnCourse, Counted
<1>4. pos = 1
  BY <1>2 DEF OpenFile
<1>5. pc # "handle" /\ pc # "done"
  BY <1>2
<1>6. \A k \in 1 .. Len(file) : ~(k < pos)
  BY <1>4
<1>7. Settled
  BY <1>3, <1>6, Zenon DEF Settled
<1> QED
  BY <1>1, <1>2, <1>5, <1>7, Zenon DEF NothingLostWhileRecovering, NothingLost

(* No step loses anything whole.                                                *)
LEMMA NothingLostInductive ==
  TypeOK /\ NothingLostWhileRecovering /\ [LoadNext]_loadVars => NothingLostWhileRecovering'
<1> SUFFICES ASSUME TypeOK, NothingLostWhileRecovering, [LoadNext]_loadVars
             PROVE  NothingLostWhileRecovering'
  OBVIOUS
<1>0. EndsAtCut(file) /\ EndsAtCut(file)' /\ Recovering' = Recovering
  BY SameLoad, SameRecovering, Zenon DEF NothingLostWhileRecovering
<1> SUFFICES ASSUME Recovering PROVE NothingLost'
  BY <1>0, Zenon DEF NothingLostWhileRecovering
<1>a. NothingLost
  BY Zenon DEF NothingLostWhileRecovering
<1>1. CASE CallGetFrame
  BY <1>0, <1>a, <1>1, NothingLostCall
<1>2. CASE HandleFrame
  BY <1>a, <1>2, NothingLostHandle
<1>3. CASE HandleCrash
  BY <1>3, <1>a, NothingLostStutter, Zenon DEF HandleCrash
<1>4. CASE Finish
  BY <1>4, <1>a, NothingLostStutter, Zenon DEF Finish
<1>5. CASE UNCHANGED loadVars
  BY <1>5, <1>a, NothingLostStutter, Zenon DEF loadVars
<1> QED
  BY <1>1, <1>2, <1>3, <1>4, <1>5 DEF LoadNext

(* So it is all there when the load is done.                                    *)
LEMMA NothingLostIsRecovered == NothingLostWhileRecovering => Recovers
<1> SUFFICES ASSUME NothingLostWhileRecovering, pc = "done", Recovering,
                    NEW k \in 1 .. Len(file), StillWhole(k), ~Overshot(k)
             PROVE  \E i \in 1 .. Len(delivered) :
                       delivered[i].at = k /\ delivered[i].frame = file[k].frame
  BY Zenon DEF Recovers, Recovering
<1>1. Recovered(k)
  BY Zenon DEF NothingLostWhileRecovering, NothingLost
<1> QED
  BY <1>1, Zenon DEF Recovered, Brings, Overshot

(* Recovers, for files of any length and any damage to them but misfitting      *)
(* sizes, in version 0 without --stoponerror: the search the decryptor makes    *)
(* after damage finds every frame that is still whole, and the counter that     *)
(* decrypts it, up to the first frame that is taken with a length that is not   *)
(* its own.                                                                     *)
THEOREM WholeIsRecovered == Spec => []Recovers
<1>1. Init => NothingLostWhileRecovering
  BY NothingLostStarts
<1> QED
  BY <1>1, TypeCorrect, NothingLostInductive, NothingLostIsRecovered, PTL DEF Spec
=============================================================================
