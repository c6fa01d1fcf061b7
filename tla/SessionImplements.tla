--------------------------- MODULE SessionImplements ---------------------------
(* Session implements BackupCopy.                                               *)
EXTENDS Session

PlainList(type, ids) == [i \in 1 .. Len(ids) |-> Plain(type, ids[i])]

(* What is left of a list of frames, and of a list of such lists.               *)
From(s, n) == SubSeq(s, n, Len(s))

JoinedLast(lists) ==
  LET joined[k \in 0 .. Len(lists)] ==
        IF k = 0 THEN <<>> ELSE lists[Len(lists) + 1 - k] \o joined[k - 1]
  IN  joined

JoinedFrom(lists, n) == JoinedLast(lists)[Len(lists) + 1 - n]

(* The frames WriteRow and what follows it write for one row.                   *)
DataFrames(id) ==
  CASE id \in PartRows /\ id \in DOMAIN d_attachments -> <<Sized(d_attachments[id].frame)>>
    [] id \in StickerRows /\ id \in DOMAIN d_stickers -> <<Sized(d_stickers[id].frame)>>
    [] OTHER -> <<>>

RowFrames == [i \in 1 .. Len(d_database) |-> <<Plain("SQLSTATEMENT", d_database[i])>> \o DataFrames(d_database[i])]

Avatars == [i \in 1 .. Len(d_avatars) |-> Sized(d_avatars[i].frame)]

SharedPrefs == PlainList("SHAREDPREFERENCE", d_sharedpreferenceframes)

KeyValues == PlainList("KEYVALUE", d_keyvalueframes)

(* What is written from the n-th element of a list on.                          *)
End == <<Plain("END", AnyId)>>

FromAvatar(n) == From(Avatars, n) \o End

FromKeyValue(n) == From(KeyValues, n) \o FromAvatar(1)

FromSharedPref(n) == From(SharedPrefs, n) \o FromKeyValue(1)

FromRow(n) == JoinedFrom(RowFrames, n) \o FromSharedPref(1)

(* What the exporter has yet to write, from where it stands.                    *)
Remaining ==
  CASE stage = "version"     -> <<Plain("DATABASEVERSION", AnyId)>> \o FromRow(1)
    [] stage = "rows"        -> FromRow(next)
    [] stage \in {"attachment", "sticker"} -> DataFrames(RowId) \o FromRow(next + 1)
    [] stage = "sharedprefs" -> FromSharedPref(next)
    [] stage = "keyvalues"   -> FromKeyValue(next)
    [] stage = "avatars"     -> FromAvatar(next)
    [] stage = "end"         -> End
    [] OTHER                 -> <<>>

FramesAmong(blocks) ==
  LET frames[k \in 0 .. Len(blocks)] ==
        IF k = 0 THEN <<>>
        ELSE IF blocks[k].kind = "frame" THEN Append(frames[k - 1], blocks[k].frame)
        ELSE frames[k - 1]
  IN  frames

FramesIn(blocks) == FramesAmong(blocks)[Len(blocks)]

(* A copy without an end frame is broken off, whatever the program says of it.  *)
Status ==
  LET ended == out # <<>> /\ out[Len(out)].frame.type = "END"
  IN  CASE stage = "idle" -> "idle"
        [] stage = "written" /\ ended -> "complete"
        [] stage = "written" /\ ~ended -> "broken"
        [] stage \in {"failed", "crashed"} -> "broken"
        [] OTHER -> "open"

Unverified ==
  UNION {{Sized(map[i].frame) : i \in {j \in DOMAIN map : "BADMAC" \in Results(map[j])}}
         : map \in {d_attachments, d_stickers, d_avatars}}

C == INSTANCE BackupCopy WITH todo <- Remaining, copied <- FramesIn(out),
                              status <- Status, bad <- Unverified

(* The export copies every frame of the backup in memory, in order, but for     *)
(* those whose data does not verify, or breaks off.                             *)
ImplementsCopy == C!CopySpec
=============================================================================
