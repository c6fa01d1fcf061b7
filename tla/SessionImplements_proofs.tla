------------------------ MODULE SessionImplements_proofs ------------------------
(* What an export writes, and what loading it again gives, for backups of any size. *)
(* The export is a copy as BackupCopy describes it: what Remaining says is still to *)
(* be written is what is written, frame by frame, wherever the export stops, fails  *)
(* or crashes.  What has been written by then is, at every step, what loading it    *)
(* would put together, and the second run puts together what a whole export holds.  *)
EXTENDS SessionImplements, Session_proofs, Induction

-----------------------------------------------------------------------------
(* Lists of frames *)

(* What JoinedFrom computes.                                                       *)
LEMMA JoinedFromIs ==
  ASSUME NEW S, NEW lists \in Seq(Seq(S))
  PROVE  /\ JoinedFrom(lists, Len(lists) + 1) = <<>>
         /\ \A n \in 1 .. Len(lists) + 1 : JoinedFrom(lists, n) \in Seq(S)
         /\ \A n \in 1 .. Len(lists) : JoinedFrom(lists, n) = lists[n] \o JoinedFrom(lists, n + 1)
<1> DEFINE l == Len(lists)
           G == [k \in 1 .. l |-> [x \in Seq(S) |-> lists[l + 1 - k] \o x]]
           Is(f) == f = [k \in 0 .. l |-> IF k = 0 THEN <<>> ELSE lists[l + 1 - k] \o f[k - 1]]
           j == JoinedLast(lists)
<1>1. l \in Nat /\ \A n \in 1 .. l : lists[n] \in Seq(S)
  BY LenProperties, ElementOfSeq
<1>2. <<>> \in Seq(S) /\ G \in [1 .. l -> [Seq(S) -> Seq(S)]]
  <2>1. ASSUME NEW k \in 1 .. l, NEW x \in Seq(S) PROVE lists[l + 1 - k] \o x \in Seq(S)
    <3>1. l + 1 - k \in 1 .. l
      BY <1>1
    <3>2. lists[l + 1 - k] \in Seq(S)
      BY <1>1, <3>1
    <3> QED BY <3>2, ConcatProperties
  <2> QED BY <2>1, EmptySeq
<1> HIDE DEF l
<1>3. PICK f \in [0 .. l -> Seq(S)] : f[0] = <<>> /\ \A k \in 1 .. l : f[k] = G[k][f[k - 1]]
  <2> DEFINE Q == Seq(S)
             e == <<>>
  <2>1. l \in Nat /\ e \in Q /\ G \in [1 .. l -> [Q -> Q]]
    BY <1>1, <1>2
  <2>2. \E f \in [0 .. l -> Q] : Steps(f, l, e, G)
    <3> HIDE DEF G, Q, e
    <3> QED BY <2>1, Recursion
  <2> QED BY <2>2 DEF Steps
<1>4. Is(f)
  <2>1. ASSUME NEW k \in 0 .. l PROVE f[k] = IF k = 0 THEN <<>> ELSE lists[l + 1 - k] \o f[k - 1]
    <3>1. CASE k = 0
      BY <1>3, <3>1
    <3>2. CASE k # 0
      <4>1. k \in 1 .. l /\ k - 1 \in 0 .. l
        BY <1>1, <3>2
      <4> QED BY <1>3, <3>2, <4>1
    <3> QED BY <3>1, <3>2
  <2> QED BY <1>3, <2>1
<1>5. Is(j)
  <2>1. j = CHOOSE g : Is(g)
    BY Zenon DEF JoinedLast, l
  <2> HIDE DEF Is, j
  <2> QED BY <1>4, <2>1
<1>6. /\ j[0] = <<>>
      /\ \A k \in 1 .. l : j[k] = lists[l + 1 - k] \o j[k - 1]
  <2>1. \A k \in 0 .. l : j[k] = IF k = 0 THEN <<>> ELSE lists[l + 1 - k] \o j[k - 1]
    <3> HIDE DEF j
    <3> QED BY <1>5
  <2> HIDE DEF j
  <2>2. 0 \in 0 .. l /\ \A k \in 1 .. l : k \in 0 .. l /\ k # 0
    BY <1>1
  <2> QED BY <2>1, <2>2, Zenon
<1> DEFINE P == {k \in Nat : k <= l => j[k] \in Seq(S)}
<1>7. Nat \subseteq P
  <2>1. 0 \in P
    BY <1>2, <1>6
  <2>2. ASSUME NEW k \in Nat, k \in P PROVE k + 1 \in P
    <3> SUFFICES ASSUME k + 1 <= l PROVE j[k + 1] \in Seq(S)
      OBVIOUS
    <3>1. k + 1 \in 1 .. l /\ (k + 1) - 1 = k /\ l + 1 - (k + 1) \in 1 .. l
      BY <1>1
    <3>2. j[k + 1] = lists[l + 1 - (k + 1)] \o j[k]
      BY <1>6, <3>1
    <3>3. lists[l + 1 - (k + 1)] \in Seq(S) /\ j[k] \in Seq(S)
      BY <1>1, <2>2, <3>1 DEF l
    <3> QED BY <3>2, <3>3, ConcatProperties
  <2> HIDE DEF P
  <2> QED BY <2>1, <2>2, SetInduction
<1>8. \A n : JoinedFrom(lists, n) = j[l + 1 - n]
  BY DEF JoinedFrom, l
<1>9. ASSUME NEW n \in 1 .. l + 1 PROVE JoinedFrom(lists, n) \in Seq(S)
  <2>1. l + 1 - n \in Nat /\ l + 1 - n <= l
    BY <1>1
  <2> QED BY <1>7, <1>8, <2>1
<1>10. ASSUME NEW n \in 1 .. l PROVE JoinedFrom(lists, n) = lists[n] \o JoinedFrom(lists, n + 1)
  <2>1. l + 1 - n \in 1 .. l /\ l + 1 - (l + 1 - n) = n /\ (l + 1 - n) - 1 = l + 1 - (n + 1)
    BY <1>1
  <2> QED BY <1>6, <1>8, <2>1
<1>11. JoinedFrom(lists, l + 1) = <<>>
  <2>1. l + 1 - (l + 1) = 0
    BY <1>1
  <2> QED BY <1>6, <1>8, <2>1
<1> QED BY <1>9, <1>10, <1>11 DEF l

(* What FramesIn computes, block by block.                                         *)
Collects(f, blocks, S) ==
  /\ f[0] = <<>>
  /\ \A k \in 0 .. Len(blocks) : f[k] \in Seq(S)
  /\ \A k \in 1 .. Len(blocks) :
       f[k] = IF blocks[k].kind = "frame" THEN Append(f[k - 1], blocks[k].frame) ELSE f[k - 1]

LEMMA FramesAmongIs ==
  ASSUME NEW S, NEW blocks, Len(blocks) \in Nat, \A k \in 1 .. Len(blocks) : blocks[k].frame \in S
  PROVE  Collects(FramesAmong(blocks), blocks, S)
<1> DEFINE l == Len(blocks)
           Next1(k, x) == IF blocks[k].kind = "frame" THEN Append(x, blocks[k].frame) ELSE x
           Q == Seq(S)
           e == <<>>
           G == [k \in 1 .. l |-> [x \in Q |-> Next1(k, x)]]
           Is(f) == f = [k \in 0 .. l |-> IF k = 0 THEN <<>>
                                          ELSE IF blocks[k].kind = "frame" THEN Append(f[k - 1], blocks[k].frame)
                                          ELSE f[k - 1]]
           j == FramesAmong(blocks)
<1>1. l \in Nat
  OBVIOUS
<1>2. e \in Q /\ G \in [1 .. l -> [Q -> Q]]
  <2>1. ASSUME NEW k \in 1 .. l, NEW x \in Q PROVE Next1(k, x) \in Q
    <3>1. blocks[k].frame \in S
      OBVIOUS
    <3>2. Append(x, blocks[k].frame) \in Seq(S)
      BY <3>1, AppendProperties
    <3> QED BY <3>2
  <2> QED BY <2>1, EmptySeq
<1>3. PICK f \in [0 .. l -> Q] : Steps(f, l, e, G)
  <2> HIDE DEF G, Q, e, l
  <2> QED BY <1>1, <1>2, Recursion
<1> HIDE DEF l
<1>4. Is(f)
  <2>1. ASSUME NEW k \in 0 .. l PROVE f[k] = IF k = 0 THEN <<>> ELSE Next1(k, f[k - 1])
    <3>1. CASE k = 0
      BY <1>3, <3>1 DEF Steps
    <3>2. CASE k # 0
      <4>1. k \in 1 .. l /\ k - 1 \in 0 .. l
        BY <1>1, <3>2
      <4>2. f[k] = G[k][f[k - 1]] /\ f[k - 1] \in Q
        BY <1>3, <4>1 DEF Steps
      <4> QED BY <3>2, <4>1, <4>2
    <3> QED BY <3>1, <3>2
  <2> QED BY <1>3, <2>1
<1>5. Is(j)
  <2>1. j = CHOOSE g : Is(g)
    BY Zenon DEF FramesAmong, l
  <2> HIDE DEF Is, j
  <2> QED BY <1>4, <2>1
<1>6. /\ j[0] = <<>>
      /\ \A k \in 1 .. l : j[k] = Next1(k, j[k - 1])
  <2>1. \A k \in 0 .. l : j[k] = IF k = 0 THEN <<>> ELSE Next1(k, j[k - 1])
    <3> HIDE DEF j
    <3> QED BY <1>5
  <2> HIDE DEF j, Next1
  <2>2. 0 \in 0 .. l /\ \A k \in 1 .. l : k \in 0 .. l /\ k # 0
    BY <1>1
  <2> QED BY <2>1, <2>2, Zenon
<1> DEFINE P == {k \in Nat : k <= l => j[k] \in Q}
<1>7. Nat \subseteq P
  <2>1. 0 \in P
    BY <1>2, <1>6
  <2>2. ASSUME NEW k \in Nat, k \in P PROVE k + 1 \in P
    <3> SUFFICES ASSUME k + 1 <= l PROVE j[k + 1] \in Q
      OBVIOUS
    <3>1. k + 1 \in 1 .. l /\ (k + 1) - 1 = k
      BY <1>1
    <3>2. j[k + 1] = Next1(k + 1, j[k]) /\ j[k] \in Q
      <4> HIDE DEF Next1, j
      <4> QED BY <1>1, <1>6, <2>2, <3>1
    <3>3. blocks[k + 1].frame \in S
      BY <3>1 DEF l
    <3>4. Append(j[k], blocks[k + 1].frame) \in Seq(S)
      BY <3>2, <3>3, AppendProperties
    <3> QED BY <3>2, <3>4
  <2> HIDE DEF P
  <2> QED BY <2>1, <2>2, SetInduction
<1> QED BY <1>1, <1>6, <1>7 DEF l, Collects

(* The frames of a file that agrees with another as far as it goes.                *)
LEMMA SameFrames ==
  ASSUME NEW S, NEW b, Len(b) \in Nat, \A k \in 1 .. Len(b) : b[k].frame \in S,
         NEW c, Len(c) \in Nat, Len(c) <= Len(b),
         \A k \in 1 .. Len(c) : c[k].kind = b[k].kind /\ c[k].frame = b[k].frame
  PROVE  \A k \in 0 .. Len(c) : FramesAmong(c)[k] = FramesAmong(b)[k]
<1> DEFINE f == FramesAmong(b)
           g == FramesAmong(c)
           P == {k \in Nat : k <= Len(c) => f[k] = g[k]}
<1>1. /\ f[0] = <<>>
      /\ \A k \in 1 .. Len(b) : f[k] = IF b[k].kind = "frame" THEN Append(f[k - 1], b[k].frame) ELSE f[k - 1]
  BY FramesAmongIs DEF Collects
<1>2. \A k \in 1 .. Len(c) : k \in 1 .. Len(b)
  OBVIOUS
<1>3. /\ g[0] = <<>>
      /\ \A k \in 1 .. Len(c) : g[k] = IF c[k].kind = "frame" THEN Append(g[k - 1], c[k].frame) ELSE g[k - 1]
  <2>1. \A k \in 1 .. Len(c) : c[k].frame \in S
    BY <1>2
  <2>2. Collects(g, c, S)
    BY <2>1, FramesAmongIs
  <2> QED BY <2>2 DEF Collects
<1> HIDE DEF f, g
<1>4. Nat \subseteq P
  <2>1. 0 \in P
    BY <1>1, <1>3
  <2>2. ASSUME NEW k \in Nat, k \in P PROVE k + 1 \in P
    <3> SUFFICES ASSUME k + 1 <= Len(c) PROVE f[k + 1] = g[k + 1]
      OBVIOUS
    <3>1. k + 1 \in 1 .. Len(c) /\ k + 1 \in 1 .. Len(b) /\ (k + 1) - 1 = k /\ f[k] = g[k]
      BY <2>2
    <3> QED BY <1>1, <1>3, <3>1
  <2> HIDE DEF P
  <2> QED BY <2>1, <2>2, SetInduction
<1> QED BY <1>4 DEF f, g

(* What was written first of it.                                                  *)
Begins(s, t) == \E n \in 0 .. Len(t) : s = SubSeq(t, 1, n)

LEMMA BeginsAppend ==
  ASSUME NEW S, NEW t \in Seq(S), NEW x \in S, NEW s, Begins(s, t)
  PROVE  Begins(s, Append(t, x))
<1>1. PICK n \in 0 .. Len(t) : s = SubSeq(t, 1, n)
  BY DEF Begins
<1>2. Len(t) \in Nat /\ Len(Append(t, x)) = Len(t) + 1
  BY LenProperties, AppendProperties
<1>3. \A i \in 1 .. n : t[i] \in S /\ Append(t, x)[i] = t[i]
  BY <1>2, ElementOfSeq, AppendProperties
<1>4. SubSeq(Append(t, x), 1, n) = SubSeq(t, 1, n)
  <2>1. /\ SubSeq(t, 1, n) \in Seq(S) /\ Len(SubSeq(t, 1, n)) = n
        /\ \A i \in 1 .. n : SubSeq(t, 1, n)[i] = t[i]
    BY <1>2, <1>3, SubSeqProperties
  <2>2. /\ SubSeq(Append(t, x), 1, n) \in Seq(S) /\ Len(SubSeq(Append(t, x), 1, n)) = n
        /\ \A i \in 1 .. n : SubSeq(Append(t, x), 1, n)[i] = Append(t, x)[i]
    BY <1>2, <1>3, SubSeqProperties
  <2> HIDE DEF Begins
  <2> QED BY <1>3, <2>1, <2>2, SeqEqual
<1>5. n \in 0 .. Len(Append(t, x))
  BY <1>2
<1> QED BY <1>1, <1>4, <1>5 DEF Begins

LEMMA BeginningOfFrames ==
  ASSUME NEW S, NEW b, Len(b) \in Nat, \A k \in 1 .. Len(b) : b[k].frame \in S, NEW k \in 0 .. Len(b)
  PROVE  Begins(FramesAmong(b)[k], FramesIn(b))
<1> DEFINE f == FramesAmong(b)
           P == {d \in Nat : k + d <= Len(b) => Begins(f[k], f[k + d])}
<1>1. /\ \A i \in 0 .. Len(b) : f[i] \in Seq(S)
      /\ \A i \in 1 .. Len(b) : f[i] = IF b[i].kind = "frame" THEN Append(f[i - 1], b[i].frame) ELSE f[i - 1]
  <2>1. Collects(f, b, S)
    BY FramesAmongIs
  <2> QED BY <2>1 DEF Collects
<1> HIDE DEF f
<1>2. 0 \in P
  <2>1. f[k] \in Seq(S)
    BY <1>1
  <2>2. SubSeq(f[k], 1, Len(f[k])) = f[k] /\ Len(f[k]) \in 0 .. Len(f[k])
    BY <2>1, SubSeqFull, LenProperties
  <2>3. Begins(f[k], f[k])
    BY <2>2 DEF Begins
  <2>4. k + 0 = k
    OBVIOUS
  <2> QED BY <2>3, <2>4
<1>3. ASSUME NEW d \in Nat, d \in P PROVE d + 1 \in P
  <2> SUFFICES ASSUME k + (d + 1) <= Len(b) PROVE Begins(f[k], f[k + (d + 1)])
    OBVIOUS
  <2>1. /\ k + (d + 1) \in 1 .. Len(b) /\ (k + (d + 1)) - 1 = k + d /\ k + d \in 0 .. Len(b)
    OBVIOUS
  <2>2. Begins(f[k], f[k + d]) /\ f[k + d] \in Seq(S) /\ b[k + (d + 1)].frame \in S
    BY <1>1, <1>3, <2>1
  <2>3. \/ f[k + (d + 1)] = f[k + d]
        \/ f[k + (d + 1)] = Append(f[k + d], b[k + (d + 1)].frame)
    BY <1>1, <2>1
  <2> HIDE DEF P
  <2> QED BY <2>2, <2>3, BeginsAppend
<1>4. Nat \subseteq P
  <2> HIDE DEF P
  <2> QED BY <1>2, <1>3, SetInduction
<1>5. Len(b) - k \in P /\ k + (Len(b) - k) = Len(b)
  BY <1>4
<1> QED BY <1>5 DEF FramesIn, f

(* A list that is written from some element on, and what follows it.               *)
Unrolls(s, rest, S) ==
  /\ From(s, Len(s) + 1) \o rest = rest
  /\ \A n \in 1 .. Len(s) + 1 : From(s, n) \o rest \in Seq(S)
  /\ \A n \in 1 .. Len(s) : From(s, n) \o rest = <<s[n]>> \o (From(s, n + 1) \o rest)

LEMMA FromList ==
  ASSUME NEW S, NEW s \in Seq(S), NEW rest \in Seq(S)
  PROVE  Unrolls(s, rest, S)
<1>1. Len(s) \in Nat /\ \A i \in 1 .. Len(s) : s[i] \in S
  BY LenProperties, ElementOfSeq
<1>2. ASSUME NEW n \in 1 .. Len(s) + 1 PROVE From(s, n) \in Seq(S)
  <2>1. n \in Int /\ Len(s) \in Int /\ \A i \in n .. Len(s) : s[i] \in S
    BY <1>1
  <2> QED BY <2>1, SubSeqProperties DEF From
<1>3. From(s, Len(s) + 1) = <<>>
  BY <1>1, SubSeqEmpty DEF From
<1>4. <<>> \o rest = rest
  BY ConcatEmptySeq
<1>5. ASSUME NEW n \in 1 .. Len(s) PROVE From(s, n) \o rest = <<s[n]>> \o (From(s, n + 1) \o rest)
  <2>1. Len(s) \in n .. Len(s)
    BY <1>1
  <2>2. From(s, n) = <<s[n]>> \o From(s, n + 1)
    BY <2>1, SubSeqRecursiveFirst DEF From
  <2>3. n + 1 \in 1 .. Len(s) + 1 /\ s[n] \in S
    BY <1>1
  <2>4. From(s, n + 1) \in Seq(S) /\ <<s[n]>> \in Seq(S)
    BY <1>2, <2>3
  <2> QED BY <2>2, <2>4, ConcatAssociative
<1>6. ASSUME NEW n \in 1 .. Len(s) + 1 PROVE From(s, n) \o rest \in Seq(S)
  BY <1>2, ConcatProperties
<1> QED BY <1>3, <1>4, <1>5, <1>6 DEF Unrolls

LEMMA HeadTail ==
  ASSUME NEW S, NEW x \in S, NEW r \in Seq(S)
  PROVE  /\ <<x>> \o r \in Seq(S) /\ <<x>> \o r # <<>>
         /\ Head(<<x>> \o r) = x /\ Tail(<<x>> \o r) = r
<1> DEFINE s == <<x>> \o r
<1>1. <<x>> \in Seq(S) /\ Len(<<x>>) = 1 /\ <<x>>[1] = x
  OBVIOUS
<1>2. /\ s \in Seq(S) /\ Len(s) = 1 + Len(r)
      /\ \A i \in 1 .. 1 + Len(r) : s[i] = IF i <= 1 THEN <<x>>[i] ELSE r[i - 1]
  <2> DEFINE o == <<x>>
  <2>1. o \in Seq(S) /\ Len(o) = 1
    BY <1>1
  <2> HIDE DEF o
  <2>2. /\ o \o r \in Seq(S) /\ Len(o \o r) = Len(o) + Len(r)
        /\ \A i \in 1 .. Len(o) + Len(r) : (o \o r)[i] = IF i <= Len(o) THEN o[i] ELSE r[i - Len(o)]
    BY <2>1, ConcatProperties
  <2> QED BY <2>1, <2>2 DEF o
<1>3. Len(r) \in Nat
  BY LenProperties
<1> HIDE DEF s
<1>4. s # <<>> /\ s[1] = x
  BY <1>1, <1>2, <1>3
<1>5. /\ Tail(s) \in Seq(S) /\ Len(Tail(s)) = Len(r)
      /\ \A i \in 1 .. Len(Tail(s)) : Tail(s)[i] = s[i + 1]
  BY <1>2, <1>3, <1>4, HeadTailProperties
<1>6. \A i \in 1 .. Len(r) : Tail(s)[i] = r[i]
  BY <1>2, <1>3, <1>5
<1>7. Tail(s) = r
  BY <1>5, <1>6, SeqEqual
<1>8. Head(s) = x
  BY <1>2, <1>4
<1> QED BY <1>2, <1>4, <1>7, <1>8 DEF s
-----------------------------------------------------------------------------
(* What is yet to be written *)

(* It ends with the end frame, and each of its parts goes over into the next.       *)
LEMMA RemainingParts ==
  ASSUME ContentOK
  PROVE  /\ End \in Seq(Frames(Ids)) /\ End = <<Plain("END", AnyId)>>
         /\ FromAvatar(Len(d_avatars) + 1) = End
         /\ \A n \in 1 .. Len(d_avatars) + 1 : FromAvatar(n) \in Seq(Frames(Ids))
         /\ \A n \in 1 .. Len(d_avatars) :
              FromAvatar(n) = <<Sized(d_avatars[n].frame)>> \o FromAvatar(n + 1)
         /\ FromKeyValue(Len(d_keyvalueframes) + 1) = FromAvatar(1)
         /\ \A n \in 1 .. Len(d_keyvalueframes) + 1 : FromKeyValue(n) \in Seq(Frames(Ids))
         /\ \A n \in 1 .. Len(d_keyvalueframes) :
              FromKeyValue(n) = <<Plain("KEYVALUE", d_keyvalueframes[n])>> \o FromKeyValue(n + 1)
         /\ FromSharedPref(Len(d_sharedpreferenceframes) + 1) = FromKeyValue(1)
         /\ \A n \in 1 .. Len(d_sharedpreferenceframes) + 1 : FromSharedPref(n) \in Seq(Frames(Ids))
         /\ \A n \in 1 .. Len(d_sharedpreferenceframes) :
              FromSharedPref(n) = <<Plain("SHAREDPREFERENCE", d_sharedpreferenceframes[n])>> \o FromSharedPref(n + 1)
<1> DEFINE Fr == Frames(Ids)
<1>1. End \in Seq(Fr) /\ End = <<Plain("END", AnyId)>>
  <2>1. Plain("END", AnyId) \in Fr
    BY AnyIdType, PlainType DEF FRAMETYPE
  <2> QED BY <2>1 DEF End
<1>2. /\ Avatars \in Seq(Fr) /\ Len(Avatars) = Len(d_avatars)
      /\ \A n \in 1 .. Len(d_avatars) : Avatars[n] = Sized(d_avatars[n].frame)
  <2>1. Len(d_avatars) \in Nat /\ \A n \in 1 .. Len(d_avatars) : d_avatars[n] \in KeptFrames("AVATAR")
    BY LenProperties, ElementOfSeq DEF ContentOK
  <2>2. \A n \in 1 .. Len(d_avatars) : Sized(d_avatars[n].frame) \in Fr
    BY <2>1, SizedType DEF KeptFrames, Sized
  <2> QED BY <2>1, <2>2 DEF Avatars
<1>3. ASSUME NEW t \in FRAMETYPE, NEW ids \in Seq(Ids)
      PROVE  /\ PlainList(t, ids) \in Seq(Fr) /\ Len(PlainList(t, ids)) = Len(ids)
             /\ \A n \in 1 .. Len(ids) : PlainList(t, ids)[n] = Plain(t, ids[n])
  <2>1. Len(ids) \in Nat /\ \A n \in 1 .. Len(ids) : Plain(t, ids[n]) \in Fr
    BY LenProperties, ElementOfSeq, PlainType
  <2> QED BY <2>1 DEF PlainList
<1>4. /\ KeyValues \in Seq(Fr) /\ Len(KeyValues) = Len(d_keyvalueframes)
      /\ \A n \in 1 .. Len(d_keyvalueframes) : KeyValues[n] = Plain("KEYVALUE", d_keyvalueframes[n])
  BY <1>3 DEF KeyValues, ContentOK, FRAMETYPE
<1>5. /\ SharedPrefs \in Seq(Fr) /\ Len(SharedPrefs) = Len(d_sharedpreferenceframes)
      /\ \A n \in 1 .. Len(d_sharedpreferenceframes) :
           SharedPrefs[n] = Plain("SHAREDPREFERENCE", d_sharedpreferenceframes[n])
  BY <1>3 DEF SharedPrefs, ContentOK, FRAMETYPE
<1> HIDE DEF Fr
<1>6. /\ FromAvatar(Len(d_avatars) + 1) = End
      /\ \A n \in 1 .. Len(d_avatars) + 1 : FromAvatar(n) \in Seq(Fr)
      /\ \A n \in 1 .. Len(d_avatars) : FromAvatar(n) = <<Sized(d_avatars[n].frame)>> \o FromAvatar(n + 1)
  <2>1. Unrolls(Avatars, End, Fr)
    BY <1>1, <1>2, FromList
  <2> QED BY <1>2, <2>1, Zenon DEF FromAvatar, Unrolls
<1>7. FromAvatar(1) \in Seq(Fr)
  <2>1. Len(d_avatars) \in Nat
    BY LenProperties DEF ContentOK
  <2> QED BY <1>6, <2>1
<1>8. /\ FromKeyValue(Len(d_keyvalueframes) + 1) = FromAvatar(1)
      /\ \A n \in 1 .. Len(d_keyvalueframes) + 1 : FromKeyValue(n) \in Seq(Fr)
      /\ \A n \in 1 .. Len(d_keyvalueframes) :
           FromKeyValue(n) = <<Plain("KEYVALUE", d_keyvalueframes[n])>> \o FromKeyValue(n + 1)
  <2>1. Unrolls(KeyValues, FromAvatar(1), Fr)
    BY <1>4, <1>7, FromList
  <2> QED BY <1>4, <2>1, Zenon DEF FromKeyValue, Unrolls
<1>9. FromKeyValue(1) \in Seq(Fr)
  <2>1. Len(d_keyvalueframes) \in Nat
    BY LenProperties DEF ContentOK
  <2> QED BY <1>8, <2>1
<1>10. /\ FromSharedPref(Len(d_sharedpreferenceframes) + 1) = FromKeyValue(1)
       /\ \A n \in 1 .. Len(d_sharedpreferenceframes) + 1 : FromSharedPref(n) \in Seq(Fr)
       /\ \A n \in 1 .. Len(d_sharedpreferenceframes) :
            FromSharedPref(n) = <<Plain("SHAREDPREFERENCE", d_sharedpreferenceframes[n])>> \o FromSharedPref(n + 1)
  <2>1. Unrolls(SharedPrefs, FromKeyValue(1), Fr)
    BY <1>5, <1>9, FromList
  <2> QED BY <1>5, <2>1, Zenon DEF FromSharedPref, Unrolls
<1> QED BY <1>1, <1>6, <1>8, <1>10 DEF Fr

(* The rows, each with the data that belongs to it.                                *)
LEMMA DataFramesType ==
  ASSUME ContentOK, NEW id
  PROVE  DataFrames(id) \in Seq(Frames(Ids))
<1>1. ASSUME NEW map, NEW t, KeptMap(map, t), id \in DOMAIN map PROVE Sized(map[id].frame) \in Frames(Ids)
  <2>1. map[id].frame \in Frames(Ids)
    BY <1>1 DEF KeptMap, KeptFrames
  <2> QED BY <2>1, SizedType DEF Sized
<1>2. id \in DOMAIN d_attachments => Sized(d_attachments[id].frame) \in Frames(Ids)
  BY <1>1 DEF ContentOK
<1>3. id \in DOMAIN d_stickers => Sized(d_stickers[id].frame) \in Frames(Ids)
  BY <1>1 DEF ContentOK
<1>4. \A x \in Frames(Ids) : <<x>> \in Seq(Frames(Ids))
  OBVIOUS
<1>5. <<>> \in Seq(Frames(Ids))
  OBVIOUS
<1>6. \/ DataFrames(id) = <<>>
      \/ id \in DOMAIN d_attachments /\ DataFrames(id) = <<Sized(d_attachments[id].frame)>>
      \/ id \in DOMAIN d_stickers /\ DataFrames(id) = <<Sized(d_stickers[id].frame)>>
  BY DEF DataFrames
<1> QED BY <1>2, <1>3, <1>4, <1>5, <1>6, Zenon

LEMMA RemainingRows ==
  ASSUME ContentOK
  PROVE  /\ FromRow(Len(d_database) + 1) = FromSharedPref(1)
         /\ \A n \in 1 .. Len(d_database) + 1 : FromRow(n) \in Seq(Frames(Ids))
         /\ \A n \in 1 .. Len(d_database) :
              FromRow(n) = <<Plain("SQLSTATEMENT", d_database[n])>> \o (DataFrames(d_database[n]) \o FromRow(n + 1))
<1> DEFINE Fr == Frames(Ids)
           db == d_database
           row(n) == <<Plain("SQLSTATEMENT", db[n])>>
           data(n) == DataFrames(db[n])
           r == FromSharedPref(1)
           j(n) == JoinedFrom(RowFrames, n)
<1>1. Len(db) \in Nat /\ \A n \in 1 .. Len(db) : db[n] \in Ids
  BY LenProperties, ElementOfSeq DEF ContentOK
<1>2. ASSUME NEW n \in 1 .. Len(db) PROVE row(n) \in Seq(Fr) /\ data(n) \in Seq(Fr) /\ row(n) \o data(n) \in Seq(Fr)
  <2>1. Plain("SQLSTATEMENT", db[n]) \in Fr
    BY <1>1, PlainType DEF FRAMETYPE
  <2>2. row(n) \in Seq(Fr)
    BY <2>1
  <2>3. data(n) \in Seq(Fr)
    BY DataFramesType
  <2> HIDE DEF row, data
  <2>4. row(n) \o data(n) \in Seq(Fr)
    BY <2>2, <2>3, ConcatProperties
  <2> QED BY <2>2, <2>3, <2>4
<1>3. RowFrames = [n \in 1 .. Len(db) |-> row(n) \o data(n)]
  BY DEF RowFrames
<1>4. RowFrames \in Seq(Seq(Fr)) /\ Len(RowFrames) = Len(db)
  <2> HIDE DEF row, data, Fr
  <2> QED BY <1>1, <1>2, <1>3
<1>5. \A n \in 1 .. Len(db) : RowFrames[n] = row(n) \o data(n)
  BY <1>3
<1>6. /\ j(Len(db) + 1) = <<>>
      /\ \A n \in 1 .. Len(db) + 1 : j(n) \in Seq(Fr)
      /\ \A n \in 1 .. Len(db) : j(n) = RowFrames[n] \o j(n + 1)
  BY <1>4, JoinedFromIs
<1>7. r \in Seq(Fr)
  <2>1. Len(d_sharedpreferenceframes) \in Nat
    BY LenProperties DEF ContentOK
  <2> QED BY <2>1, RemainingParts
<1>8. \A n : FromRow(n) = j(n) \o r
  BY DEF FromRow
<1> HIDE DEF j, r, row, data, Fr
<1>9. FromRow(Len(db) + 1) = r
  BY <1>6, <1>7, <1>8, ConcatEmptySeq
<1>10. \A n \in 1 .. Len(db) + 1 : FromRow(n) \in Seq(Fr)
  BY <1>6, <1>7, <1>8, ConcatProperties
<1>11. ASSUME NEW n \in 1 .. Len(db) PROVE FromRow(n) = row(n) \o (data(n) \o FromRow(n + 1))
  <2>1. n + 1 \in 1 .. Len(db) + 1
    BY <1>1
  <2>2. j(n + 1) \in Seq(Fr) /\ row(n) \in Seq(Fr) /\ data(n) \in Seq(Fr) /\ row(n) \o data(n) \in Seq(Fr)
    BY <1>2, <1>6, <2>1
  <2> DEFINE x == row(n) \o data(n)
             y == j(n + 1) \o r
  <2>3. x \in Seq(Fr) /\ y \in Seq(Fr)
    BY <1>7, <2>2, ConcatProperties
  <2>4. x \o y = row(n) \o (data(n) \o y)
    <3> DEFINE u == row(n)
               v == data(n)
    <3>1. u \in Seq(Fr) /\ v \in Seq(Fr) /\ x = u \o v
      BY <2>2
    <3> HIDE DEF x, y, u, v
    <3>2. (u \o v) \o y = u \o (v \o y)
      BY <2>3, <3>1, ConcatAssociative
    <3> QED BY <3>1, <3>2 DEF u, v
  <2>5. j(n) = x \o j(n + 1) /\ FromRow(n) = j(n) \o r /\ FromRow(n + 1) = y
    BY <1>5, <1>6, <1>8
  <2>6. (x \o j(n + 1)) \o r = x \o y
    <3> HIDE DEF x
    <3> QED BY <1>7, <2>2, <2>3, ConcatAssociative
  <2> HIDE DEF x, y
  <2> QED BY <2>4, <2>5, <2>6
<1> QED BY <1>9, <1>10, <1>11 DEF r, row, data, Fr

(* It does not depend on what is cached of the data.                               *)
SameContent ==
  /\ UNCHANGED <<d_database, d_sharedpreferenceframes, d_keyvalueframes>>
  /\ DOMAIN d_attachments' = DOMAIN d_attachments
  /\ \A i \in DOMAIN d_attachments : d_attachments'[i].frame = d_attachments[i].frame
  /\ DOMAIN d_stickers' = DOMAIN d_stickers
  /\ \A i \in DOMAIN d_stickers : d_stickers'[i].frame = d_stickers[i].frame
  /\ Len(d_avatars') = Len(d_avatars)
  /\ \A i \in 1 .. Len(d_avatars) : d_avatars'[i].frame = d_avatars[i].frame

LEMMA RemainingStays ==
  ASSUME SameContent
  PROVE  /\ End' = End
         /\ \A n : FromAvatar(n)' = FromAvatar(n)
         /\ \A n : FromKeyValue(n)' = FromKeyValue(n)
         /\ \A n : FromSharedPref(n)' = FromSharedPref(n)
         /\ \A n : FromRow(n)' = FromRow(n)
         /\ \A id : DataFrames(id)' = DataFrames(id)
<1>1. End' = End
  BY DEF End, AnyId, Plain
<1>2. Avatars' = Avatars
  BY DEF SameContent, Avatars, Sized
<1>3. KeyValues' = KeyValues /\ SharedPrefs' = SharedPrefs
  BY DEF SameContent, KeyValues, SharedPrefs, PlainList, Plain
<1>4. ASSUME NEW id PROVE DataFrames(id)' = DataFrames(id)
  BY DEF SameContent, DataFrames, Sized
<1>5. RowFrames' = RowFrames
  BY <1>4 DEF SameContent, RowFrames, Plain
<1>6. \A n : FromAvatar(n)' = FromAvatar(n)
  BY <1>1, <1>2 DEF FromAvatar, From
<1>7. \A n : FromKeyValue(n)' = FromKeyValue(n)
  BY <1>1, <1>2, <1>3 DEF FromKeyValue, FromAvatar, From
<1>8. \A n : FromSharedPref(n)' = FromSharedPref(n)
  BY <1>1, <1>2, <1>3 DEF FromSharedPref, FromKeyValue, FromAvatar, From
<1>9. \A n : FromRow(n)' = FromRow(n)
  BY <1>1, <1>2, <1>3, <1>5 DEF FromRow, JoinedFrom, JoinedLast, FromSharedPref, FromKeyValue, FromAvatar, From
<1> QED BY <1>1, <1>4, <1>6, <1>7, <1>8, <1>9
-----------------------------------------------------------------------------
(* What was copied *)

(* The frames of a file, and of one with another block.                            *)
LEMMA FramesInAppend ==
  ASSUME NEW s \in Seq(Blocks(Ids)), NEW b \in Blocks(Ids)
  PROVE  /\ FramesIn(s) \in Seq(Frames(Ids))
         /\ FramesIn(Append(s, b)) = IF b.kind = "frame" THEN Append(FramesIn(s), b.frame) ELSE FramesIn(s)
<1> DEFINE n == Len(s)
           t == Append(s, b)
           Fr == Frames(Ids)
<1>1. n \in Nat /\ \A k \in 1 .. n : s[k] \in Blocks(Ids)
  BY LenProperties, ElementOfSeq
<1>2. t \in Seq(Blocks(Ids)) /\ Len(t) = n + 1 /\ t[n + 1] = b /\ \A k \in 1 .. n : t[k] = s[k]
  BY <1>1, AppendProperties
<1>3. \A x \in Blocks(Ids) : x.frame \in Fr
  BY DEF Blocks
<1> HIDE DEF t, Fr
<1>4. Collects(FramesAmong(s), s, Fr)
  BY <1>1, <1>3, FramesAmongIs
<1>5. \A k \in 1 .. n + 1 : t[k].frame \in Fr
  BY <1>1, <1>2, <1>3
<1>6. Collects(FramesAmong(t), t, Fr)
  <2>1. Len(t) \in Nat /\ \A k \in 1 .. Len(t) : t[k].frame \in Fr
    BY <1>1, <1>2, <1>5
  <2> QED BY <2>1, FramesAmongIs
<1>7. FramesAmong(s)[n] = FramesAmong(t)[n]
  <2>1. /\ Len(t) \in Nat /\ \A k \in 1 .. Len(t) : t[k].frame \in Fr
        /\ Len(s) \in Nat /\ Len(s) <= Len(t)
        /\ \A k \in 1 .. Len(s) : s[k].kind = t[k].kind /\ s[k].frame = t[k].frame
        /\ n \in 0 .. Len(s)
    BY <1>1, <1>2, <1>5
  <2> QED BY <2>1, SameFrames
<1>8. FramesIn(s) \in Seq(Fr)
  BY <1>1, <1>4 DEF Collects, FramesIn
<1>9. FramesIn(t) = IF t[n + 1].kind = "frame" THEN Append(FramesAmong(t)[n], t[n + 1].frame) ELSE FramesAmong(t)[n]
  <2>1. n + 1 \in 1 .. Len(t) /\ (n + 1) - 1 = n
    BY <1>1, <1>2
  <2> QED BY <1>2, <1>6, <2>1 DEF Collects, FramesIn
<1> QED BY <1>2, <1>7, <1>8, <1>9 DEF FramesIn, t, Fr

LEMMA FramesInNothing == FramesIn(<<>>) = <<>>
<1> DEFINE s == <<>>
<1>1. Len(s) = 0 /\ Len(s) \in Nat /\ \A k \in 1 .. Len(s) : s[k].frame \in {}
  OBVIOUS
<1> HIDE DEF s
<1>2. Collects(FramesAmong(s), s, {})
  BY <1>1, FramesAmongIs
<1> QED BY <1>1, <1>2 DEF Collects, FramesIn, s

(* What the encryptor writes is the frame it is given, in the size of its data.    *)
LEMMA WritesFrame ==
  ASSUME OutputOK, NEW f \in Frames(Ids), EncryptFrame(f)
  PROVE  FramesIn(out') = Append(FramesIn(out), f)
<1>1. out \in Seq(Blocks(Ids)) /\ e_counter \in Nat /\ out' = Append(out, Block("frame", f, e_counter))
  BY DEF OutputOK, EncryptFrame
<1>2. /\ Block("frame", f, e_counter) \in Blocks(Ids) /\ Block("frame", f, e_counter).kind = "frame"
      /\ Block("frame", f, e_counter).frame = f
  BY <1>1, BlockType
<1> QED BY <1>1, <1>2, FramesInAppend

LEMMA WritesFrameWithData ==
  ASSUME OutputOK, NEW f \in Frames(Ids), NEW data, EncryptWithAttachment(f, data)
  PROVE  FramesIn(out') = Append(FramesIn(out), Sized(f))
<1> DEFINE g == Sized(f)
           a == Block("frame", g, e_counter)
           b == Block("data", g, e_counter + 1)
           s == Append(out, a)
<1>1. out \in Seq(Blocks(Ids)) /\ e_counter \in Nat /\ e_counter + 1 \in Nat
  BY DEF OutputOK
<1>2. g \in Frames(Ids)
  BY SizedType DEF Sized
<1>3. /\ a \in Blocks(Ids) /\ a.kind = "frame" /\ a.frame = g
      /\ b \in Blocks(Ids) /\ b.kind = "data"
  BY <1>1, <1>2, BlockType
<1>4. out' = out \o <<a, b>>
  BY Zenon DEF EncryptWithAttachment
<1> HIDE DEF a, b, g
<1>5. out' = Append(s, b) /\ s \in Seq(Blocks(Ids))
  BY <1>1, <1>3, <1>4
<1>6. FramesIn(s) = Append(FramesIn(out), g)
  BY <1>1, <1>3, FramesInAppend
<1> HIDE DEF s
<1>7. FramesIn(out') = FramesIn(s)
  BY <1>3, <1>5, FramesInAppend
<1> QED BY <1>6, <1>7 DEF g

(* Of a file that is cut off, the first of its frames are left, and no end.        *)
LEMMA FailedWriteBegins ==
  ASSUME OutputOK, Continues, WriteFails
  PROVE  Begins(FramesIn(out'), FramesIn(out)) /\ out'[Len(out')].frame.type # "END"
<1>1. out \in Seq(Blocks(Ids)) /\ \A k \in 1 .. Len(out) : out[k].frame.type # "END"
  BY DEF OutputOK, Continues
<1>2. PICK k \in 1 .. Len(out), d \in {"none", "cut", "cutmac"} :
             out' = [SubSeq(out, 1, k) EXCEPT ![k].damage = d]
  BY Zenon DEF WriteFails
<1>3. Len(out) \in Nat /\ \A i \in 1 .. Len(out) : out[i] \in Blocks(Ids)
  BY <1>1, LenProperties, ElementOfSeq
<1> DEFINE s == SubSeq(out, 1, k)
<1>4. /\ s \in Seq(Blocks(Ids)) /\ Len(s) = k /\ k \in Nat \ {0}
      /\ \A i \in 1 .. k : s[i] = out[i] /\ out[i] \in Blocks(Ids)
  BY <1>1
<1> HIDE DEF s
<1>5. out' = [s EXCEPT ![k].damage = d]
  BY <1>2 DEF s
<1>6. /\ Len(out') = k
      /\ \A i \in 1 .. k : out'[i].kind = out[i].kind /\ out'[i].frame = out[i].frame
  <2>1. DOMAIN s = 1 .. k
    BY <1>4
  <2>2. \A i \in 1 .. k : out'[i] = IF i = k THEN [s[k] EXCEPT !.damage = d] ELSE s[i]
    BY <1>4, <1>5, <2>1
  <2>3. [s[k] EXCEPT !.damage = d].kind = s[k].kind /\ [s[k] EXCEPT !.damage = d].frame = s[k].frame
    <3>1. s[k] \in Blocks(Ids)
      BY <1>4
    <3> QED BY <3>1 DEF Blocks
  <2>4. [s[k] EXCEPT !.damage = d] \in Blocks(Ids)
    <3>1. s[k] \in Blocks(Ids)
      BY <1>4
    <3> QED BY <3>1 DEF Blocks, Damage
  <2>5. out' \in Seq(Blocks(Ids)) /\ Len(out') = k
    BY <1>4, <1>5, <2>4, ExceptSeq
  <2> QED BY <1>4, <2>2, <2>3, <2>5
<1>7. \A i \in 1 .. Len(out) : out[i].frame \in Frames(Ids)
  BY <1>3 DEF Blocks
<1>8. FramesIn(out') = FramesAmong(out)[k]
  <2>1. /\ Len(out) \in Nat /\ Len(out') \in Nat /\ Len(out') <= Len(out)
        /\ \A i \in 1 .. Len(out') : out'[i].kind = out[i].kind /\ out'[i].frame = out[i].frame
        /\ k \in 0 .. Len(out')
    BY <1>3, <1>4, <1>6
  <2>2. FramesAmong(out')[k] = FramesAmong(out)[k]
    BY <1>7, <2>1, SameFrames
  <2> QED BY <1>6, <2>2 DEF FramesIn
<1>9. Begins(FramesAmong(out)[k], FramesIn(out))
  <2>1. k \in 0 .. Len(out)
    BY <1>3
  <2> QED BY <1>3, <1>7, <2>1, BeginningOfFrames
<1> QED BY <1>1, <1>4, <1>6, <1>8, <1>9
-----------------------------------------------------------------------------
(* The steps of the copy *)

(* Where the lists stand that are written from an index on.                        *)
CopyPlace ==
  /\ stage = "attachment" => RowId \in PartRows
  /\ stage = "sticker" => RowId \in StickerRows
  /\ stage = "sharedprefs" => next <= Len(d_sharedpreferenceframes) + 1
  /\ stage = "keyvalues" => next <= Len(d_keyvalueframes) + 1
  /\ stage = "avatars" => next <= Len(d_avatars) + 1

CopyInv == SessionInv /\ CopyPlace

CopyStep == [C!CopyNext]_<<Remaining, FramesIn(out), Status>>

(* There is more to write until the end frame is.                                  *)
LEMMA Unfinished ==
  ASSUME ContentOK
  PROVE  /\ End # <<>>
         /\ \A n \in 1 .. Len(d_avatars) + 1 : FromAvatar(n) # <<>>
         /\ \A n \in 1 .. Len(d_keyvalueframes) + 1 : FromKeyValue(n) # <<>>
         /\ \A n \in 1 .. Len(d_sharedpreferenceframes) + 1 : FromSharedPref(n) # <<>>
         /\ \A n \in 1 .. Len(d_database) + 1 : FromRow(n) # <<>>
<1> DEFINE Fr == Frames(Ids)
<1>1. /\ Len(d_avatars) \in Nat /\ Len(d_keyvalueframes) \in Nat
      /\ Len(d_sharedpreferenceframes) \in Nat /\ Len(d_database) \in Nat
  BY LenProperties DEF ContentOK
<1>2. ASSUME NEW x, NEW r \in Seq(Fr) PROVE <<x>> \o r # <<>>
  <2>1. x \in Fr \cup {x} /\ r \in Seq(Fr \cup {x})
    <3>1. Len(r) \in Nat /\ r = [i \in 1 .. Len(r) |-> r[i]] /\ \A i \in 1 .. Len(r) : r[i] \in Fr
      BY LenProperties, ElementOfSeq
    <3> QED BY <3>1
  <2> QED BY <2>1, HeadTail
<1>3. End # <<>>
  BY DEF End
<1>4. ASSUME NEW n \in 1 .. Len(d_avatars) + 1 PROVE FromAvatar(n) # <<>>
  <2>1. CASE n = Len(d_avatars) + 1
    BY <1>3, <2>1, RemainingParts
  <2>2. CASE n # Len(d_avatars) + 1
    <3>1. n \in 1 .. Len(d_avatars) /\ n + 1 \in 1 .. Len(d_avatars) + 1
      BY <1>1, <2>2
    <3>2. FromAvatar(n) = <<Sized(d_avatars[n].frame)>> \o FromAvatar(n + 1) /\ FromAvatar(n + 1) \in Seq(Fr)
      BY <3>1, RemainingParts
    <3> QED BY <1>2, <3>2
  <2> QED BY <2>1, <2>2
<1>5. ASSUME NEW n \in 1 .. Len(d_keyvalueframes) + 1 PROVE FromKeyValue(n) # <<>>
  <2>1. CASE n = Len(d_keyvalueframes) + 1
    <3>1. FromKeyValue(n) = FromAvatar(1) /\ 1 \in 1 .. Len(d_avatars) + 1
      BY <1>1, <2>1, RemainingParts
    <3> QED BY <1>4, <3>1
  <2>2. CASE n # Len(d_keyvalueframes) + 1
    <3>1. n \in 1 .. Len(d_keyvalueframes) /\ n + 1 \in 1 .. Len(d_keyvalueframes) + 1
      BY <1>1, <2>2
    <3>2. FromKeyValue(n) = <<Plain("KEYVALUE", d_keyvalueframes[n])>> \o FromKeyValue(n + 1)
          /\ FromKeyValue(n + 1) \in Seq(Fr)
      BY <3>1, RemainingParts
    <3> QED BY <1>2, <3>2
  <2> QED BY <2>1, <2>2
<1>6. ASSUME NEW n \in 1 .. Len(d_sharedpreferenceframes) + 1 PROVE FromSharedPref(n) # <<>>
  <2>1. CASE n = Len(d_sharedpreferenceframes) + 1
    <3>1. FromSharedPref(n) = FromKeyValue(1) /\ 1 \in 1 .. Len(d_keyvalueframes) + 1
      BY <1>1, <2>1, RemainingParts
    <3> QED BY <1>5, <3>1
  <2>2. CASE n # Len(d_sharedpreferenceframes) + 1
    <3>1. n \in 1 .. Len(d_sharedpreferenceframes) /\ n + 1 \in 1 .. Len(d_sharedpreferenceframes) + 1
      BY <1>1, <2>2
    <3>2. FromSharedPref(n) = <<Plain("SHAREDPREFERENCE", d_sharedpreferenceframes[n])>> \o FromSharedPref(n + 1)
          /\ FromSharedPref(n + 1) \in Seq(Fr)
      BY <3>1, RemainingParts
    <3> QED BY <1>2, <3>2
  <2> QED BY <2>1, <2>2
<1>7. ASSUME NEW n \in 1 .. Len(d_database) + 1 PROVE FromRow(n) # <<>>
  <2>1. CASE n = Len(d_database) + 1
    <3>1. FromRow(n) = FromSharedPref(1) /\ 1 \in 1 .. Len(d_sharedpreferenceframes) + 1
      BY <1>1, <2>1, RemainingRows
    <3> QED BY <1>6, <3>1
  <2>2. CASE n # Len(d_database) + 1
    <3>1. n \in 1 .. Len(d_database) /\ n + 1 \in 1 .. Len(d_database) + 1
      BY <1>1, <2>2
    <3> DEFINE data == DataFrames(d_database[n])
               rows == FromRow(n + 1)
               r == data \o rows
    <3>2. FromRow(n) = <<Plain("SQLSTATEMENT", d_database[n])>> \o r /\ rows \in Seq(Fr)
      BY <3>1, RemainingRows
    <3>3. data \in Seq(Fr)
      BY DataFramesType
    <3>4. r \in Seq(Fr)
      <4> HIDE DEF data, rows
      <4> QED BY <3>2, <3>3, ConcatProperties
    <3> HIDE DEF r
    <3> QED BY <1>2, <3>2, <3>4
  <2> QED BY <2>1, <2>2
<1> QED BY <1>3, <1>4, <1>5, <1>6, <1>7

(* What is left after a step, from the place it leads to.                          *)
LEMMA RemainingNext ==
  ASSUME SameContent
  PROVE  /\ stage' = "version" => Remaining' = <<Plain("DATABASEVERSION", AnyId)>> \o FromRow(1)
         /\ stage' = "rows" => Remaining' = FromRow(next')
         /\ stage' \in {"attachment", "sticker"} =>
              Remaining' = DataFrames(d_database[next']) \o FromRow(next' + 1)
         /\ stage' = "sharedprefs" => Remaining' = FromSharedPref(next')
         /\ stage' = "keyvalues" => Remaining' = FromKeyValue(next')
         /\ stage' = "avatars" => Remaining' = FromAvatar(next')
         /\ stage' = "end" => Remaining' = End
         /\ stage' \in {"idle", "written", "failed", "crashed"} => Remaining' = <<>>
<1>1. d_database' = d_database
  BY DEF SameContent
<1>2. FromRow(next)' = FromRow(next')
  BY RemainingStays
<1> QED BY RemainingStays, <1>1, <1>2 DEF Remaining, RowId

(* What the place says of the copy.                                                *)
LEMMA StatusIs ==
  /\ stage = "idle" => Status = "idle"
  /\ Writing /\ stage \in Stages => Status = "open"
  /\ stage \in {"failed", "crashed"} => Status = "broken"
BY DEF Status, Writing, Stages

LEMMA StatusNext ==
  /\ stage' = "idle" => Status' = "idle"
  /\ stage' \in {"version", "rows", "attachment", "sticker", "sharedprefs", "keyvalues", "avatars", "end"}
       => Status' = "open"
  /\ stage' \in {"failed", "crashed"} => Status' = "broken"
  /\ stage' = "written" /\ out' # <<>> =>
       Status' = IF out'[Len(out')].frame.type = "END" THEN "complete" ELSE "broken"
BY DEF Status

LEMMA FramesNext == FramesIn(out)' = FramesIn(out')
BY DEF FramesIn, FramesAmong

(* The next frame is copied, or left out, and perhaps the copy breaks off at once. *)
LEMMA OneFrame ==
  ASSUME NEW x \in Frames(Ids), NEW r \in Seq(Frames(Ids)), r # <<>>,
         Status = "open", Remaining = <<x>> \o r,
         FramesIn(out) \in Seq(Frames(Ids)),
         \/ FramesIn(out') = Append(FramesIn(out), x)
         \/ FramesIn(out') = FramesIn(out) /\ x \in Unverified,
         \/ Status' = "open" /\ Remaining' = r
         \/ Status' = "broken" /\ Remaining' = <<>>
  PROVE  CopyStep
<1> DEFINE f == FramesIn(out)
           s == Remaining
<1>1. s # <<>> /\ Head(s) = x /\ Tail(s) = r
  BY HeadTail
<1>2. FramesIn(out)' = FramesIn(out')
  BY FramesNext
<1>3. f = SubSeq(f, 1, Len(f)) /\ Len(f) \in 0 .. Len(f)
  BY SubSeqFull, LenProperties
<1>4. CASE FramesIn(out') = Append(f, x) /\ Status' = "open" /\ Remaining' = r
  <2>1. C!Copy
    BY <1>1, <1>2, <1>4 DEF C!Copy
  <2> QED BY <2>1 DEF CopyStep, C!CopyNext
<1>5. CASE FramesIn(out') = f /\ x \in Unverified /\ Status' = "open" /\ Remaining' = r
  <2>1. C!LeaveOut
    BY <1>1, <1>2, <1>5 DEF C!LeaveOut
  <2> QED BY <2>1 DEF CopyStep, C!CopyNext
<1>6. CASE Status' = "broken" /\ Remaining' = <<>>
  <2>1. C!BreakOff
    BY <1>1, <1>2, <1>3, <1>6 DEF C!BreakOff
  <2> QED BY <2>1 DEF CopyStep, C!CopyNext
<1> QED BY <1>4, <1>5, <1>6

(* The copy is given up: what was written of it, or the first of that, stays.      *)
LEMMA GivenUp ==
  ASSUME Status \in {"idle", "open"}, Status' = "broken", Remaining' = <<>>,
         Begins(FramesIn(out'), FramesIn(out))
  PROVE  CopyStep
<1>1. FramesIn(out)' = FramesIn(out')
  BY FramesNext
<1>2. C!BreakOff
  BY <1>1 DEF C!BreakOff, Begins
<1> QED BY <1>2 DEF CopyStep, C!CopyNext

LEMMA BeginsItself ==
  ASSUME out \in Seq(Blocks(Ids))
  PROVE  Begins(FramesIn(out), FramesIn(out)) /\ FramesIn(out) \in Seq(Frames(Ids))
<1> DEFINE f == FramesIn(out)
           b == Block("frame", Plain("END", AnyId), 0)
<1>1. f \in Seq(Frames(Ids))
  <2>1. Plain("END", AnyId) \in Frames(Ids)
    BY PlainType, AnyIdType DEF FRAMETYPE
  <2>2. b \in Blocks(Ids)
    BY <2>1, BlockType
  <2> QED BY <2>2, FramesInAppend
<1>2. f = SubSeq(f, 1, Len(f)) /\ Len(f) \in 0 .. Len(f)
  BY <1>1, SubSeqFull, LenProperties
<1> QED BY <1>1, <1>2 DEF Begins

(* The copy is as it was.                                                          *)
LEMMA NothingCopied ==
  ASSUME Status' = Status, Remaining' = Remaining, FramesIn(out') = FramesIn(out)
  PROVE  CopyStep
BY FramesNext DEF CopyStep

(* What is kept of a frame is written, or left out as it does not verify.          *)
LEMMA WrittenOrLeftOut ==
  ASSUME OutputOK, NEW t, NEW k \in KeptFrames(t), NEW result \in Results(k),
         Writes(k, attachmentData(k.att, result))
  PROVE  \/ FramesIn(out') = Append(FramesIn(out), Sized(k.frame))
         \/ FramesIn(out') = FramesIn(out) /\ "BADMAC" \in Results(k)
<1> DEFINE reading == attachmentData(k.att, result)
<1>1. k.frame \in Frames(Ids)
  BY DEF KeptFrames
<1>2. CASE WritesPlain(k)
  <2>1. EncryptFrame(k.frame) /\ Sized(k.frame) = k.frame
    BY <1>2 DEF WritesPlain, Sized
  <2> QED BY <1>1, <2>1, WritesFrame
<1>3. CASE WritesData(k, reading)
  <2>1. EncryptWithAttachment(k.frame, reading.data)
    BY <1>3 DEF WritesData
  <2> QED BY <1>1, <2>1, WritesFrameWithData
<1>4. CASE Skips(k, reading)
  <2>1. out' = out /\ reading.badmac
    BY <1>4 DEF Skips, encryptorVars
  <2>2. reading.badmac => result = "BADMAC"
    BY Zenon DEF attachmentData, Reading
  <2> QED BY <2>1, <2>2
<1> QED BY <1>2, <1>3, <1>4 DEF Writes

-----------------------------------------------------------------------------
(* One lemma per action: it is a step of the copy, or leaves the copy alone        *)

(* Before the export nothing is left to copy, and after it.                        *)
LEMMA LoadCopies ==
  ASSUME CopyInv, Load
  PROVE  CopyStep /\ CopyPlace'
<1>1. LoadNext /\ UNCHANGED <<out, stage, next>> /\ pc # "done" /\ SessionInv
  BY Zenon DEF CopyInv, Load, exportVars, encryptorVars, LoadNext, CallGetFrame, HandleFrame, HandleCrash, Finish
<1>2. stage \in {"idle", "written", "failed", "crashed"}
  BY <1>1 DEF SessionInv, PlaceOK, Writing
<1>3. Remaining = <<>> /\ Remaining' = <<>> /\ Status' = Status
  BY <1>1, <1>2 DEF Remaining, Status
<1>4. CopyPlace'
  BY <1>1, <1>2 DEF CopyPlace
<1> QED BY <1>1, <1>3, <1>4, NothingCopied

LEMMA TaskCopies ==
  ASSUME CopyInv, StartTask
  PROVE  CopyStep /\ CopyPlace'
<1>1. UNCHANGED <<out, stage, next>> /\ stage = "idle"
  BY DEF StartTask, Opened, exportVars, encryptorVars
<1>2. Remaining = <<>> /\ Remaining' = <<>> /\ Status' = Status
  BY <1>1 DEF Remaining, Status
<1>3. CopyPlace'
  BY <1>1 DEF CopyPlace
<1> QED BY <1>1, <1>2, <1>3, NothingCopied

LEMMA ReopenCopies ==
  ASSUME CopyInv, Reopen
  PROVE  CopyStep /\ CopyPlace'
<1>1. UNCHANGED <<out, stage, next>> /\ stage \in {"written", "failed"}
  BY DEF Reopen, exportVars, encryptorVars
<1>2. Remaining = <<>> /\ Remaining' = <<>> /\ Status' = Status
  BY <1>1 DEF Remaining, Status
<1>3. CopyPlace'
  BY <1>1 DEF CopyPlace
<1> QED BY <1>1, <1>2, <1>3, NothingCopied

LEMMA MediaCopies ==
  ASSUME CopyInv, UseMedia
  PROVE  CopyStep /\ CopyPlace'
<1>1. UNCHANGED <<out, next>> /\ stage = "idle" /\ stage' \in {"idle", "crashed"}
  <2>1. PICK i \in todo : DumpMedia(i) \/ HTMLwriteAttachment(i) \/ PassOver(i)
    BY DEF UseMedia
  <2>2. PICK s, att : Use(s, i, att) /\ stage' \in {"idle", "crashed"}
    <3>1. CASE DumpMedia(i)
      BY <3>1, Zenon DEF DumpMedia
    <3>2. CASE HTMLwriteAttachment(i)
      BY <3>2, Zenon DEF HTMLwriteAttachment
    <3>3. CASE PassOver(i)
      BY <3>3 DEF PassOver, Use
    <3> QED BY <2>1, <3>1, <3>2, <3>3
  <2> QED BY <2>2 DEF Use, encryptorVars
<1>2. Remaining = <<>> /\ Remaining' = <<>> /\ Status = "idle"
  BY <1>1 DEF Remaining, Status
<1>3. CopyPlace'
  BY <1>1 DEF CopyPlace
<1>4. CASE stage' = "idle"
  <2>1. Status' = Status
    BY <1>2, <1>4, StatusNext
  <2> QED BY <1>1, <1>2, <1>3, <2>1, NothingCopied
<1>5. CASE stage' = "crashed"
  <2>1. Status' = "broken"
    BY <1>5, StatusNext
  <2>2. Begins(FramesIn(out'), FramesIn(out))
    BY <1>1, BeginsItself DEF CopyInv, SessionInv, OutputOK
  <2> QED BY <1>2, <1>3, <2>1, <2>2, GivenUp
<1> QED BY <1>1, <1>4, <1>5

(* The header, and the export that is refused.                                     *)
LEMMA StartCopies ==
  ASSUME CopyInv, StartExport \/ RefuseExport
  PROVE  CopyStep /\ CopyPlace'
<1>1. TypeOK /\ OutputOK /\ stage = "idle" /\ stage' \in {"version", "failed"} /\ Status = "idle"
  BY StatusIs DEF CopyInv, SessionInv, StartExport, RefuseExport, Goto
<1>2. CopyPlace'
  BY <1>1 DEF CopyPlace
<1>3. CASE StartExport
  <2>1. out' = <<Block("frame", file[1].frame, 0)>> /\ stage' = "version"
    BY <1>3 DEF StartExport, OpenEncryptor, Goto
  <2>2. Block("frame", file[1].frame, 0) \in Blocks(Ids) /\ Block("frame", file[1].frame, 0).kind = "frame"
    <3>1. file[1] \in Blocks(Ids)
      BY <1>1 DEF TypeOK, FileTypeOK
    <3>2. file[1].frame \in Frames(Ids)
      BY <3>1 DEF Blocks
    <3> QED BY <3>2, BlockType
  <2> DEFINE b == Block("frame", file[1].frame, 0)
             e == <<>>
  <2>3. Len(FramesIn(out')) = 1
    <3>1. e \in Seq(Blocks(Ids)) /\ out' = Append(e, b)
      BY <2>1
    <3> HIDE DEF b
    <3>2. FramesIn(e) = <<>>
      BY FramesInNothing
    <3>3. FramesIn(Append(e, b)) = Append(FramesIn(e), b.frame)
      <4> HIDE DEF e
      <4> QED BY <2>2, <3>1, FramesInAppend DEF b
    <3>4. FramesIn(out') = <<b.frame>>
      BY <3>1, <3>2, <3>3
    <3> QED BY <3>4
  <2>4. Status' = "open"
    BY <2>1, StatusNext
  <2>5. C!Begin
    BY <1>1, <2>3, <2>4, FramesNext DEF C!Begin
  <2> QED BY <1>2, <2>5 DEF CopyStep, C!CopyNext
<1>4. CASE RefuseExport
  <2>1. out' = out /\ stage' = "failed"
    BY <1>4 DEF RefuseExport, encryptorVars, Goto
  <2>2. Status' = "broken" /\ Remaining' = <<>>
    BY <2>1, StatusNext DEF Remaining
  <2>3. Begins(FramesIn(out'), FramesIn(out))
    BY <1>1, <2>1, BeginsItself DEF OutputOK
  <2> QED BY <1>1, <1>2, <2>2, <2>3, GivenUp
<1> QED BY <1>3, <1>4

LEMMA SameWhenKept == UNCHANGED <<restVars, keptVars>> => SameContent
BY DEF restVars, keptVars, SameContent

(* A frame without data is written, and r is what is left.                         *)
LEMMA OnePlain ==
  ASSUME CopyInv, Writing, NEW t \in FRAMETYPE, NEW id \in Ids, EncryptFrame(Plain(t, id)),
         NEW r \in Seq(Frames(Ids)), r # <<>>, Remaining = <<Plain(t, id)>> \o r,
         Status' = "open", Remaining' = r
  PROVE  CopyStep
<1>1. OutputOK /\ Status = "open"
  BY StatusIs DEF CopyInv, SessionInv, PlaceOK
<1> DEFINE x == Plain(t, id)
<1>2. x \in Frames(Ids) /\ EncryptFrame(x) /\ Remaining = <<x>> \o r
  BY PlainType
<1> HIDE DEF x
<1>3. FramesIn(out') = Append(FramesIn(out), x)
  BY <1>1, <1>2, WritesFrame
<1>4. FramesIn(out) \in Seq(Frames(Ids))
  BY <1>1, BeginsItself DEF OutputOK
<1> QED BY <1>1, <1>2, <1>3, <1>4, OneFrame

(* The lengths and the places of the lists.                                        *)
LEMMA ListLengths ==
  ASSUME CopyInv
  PROVE  /\ next \in Nat \ {0}
         /\ Len(d_avatars) \in Nat /\ Len(d_keyvalueframes) \in Nat
         /\ Len(d_sharedpreferenceframes) \in Nat /\ Len(d_database) \in Nat
BY LenProperties DEF CopyInv, SessionInv, ContentOK, PlaceOK

LEMMA VersionCopies ==
  ASSUME CopyInv, WriteVersion
  PROVE  CopyStep /\ CopyPlace'
<1>1. /\ stage = "version" /\ Writing /\ ContentOK /\ OutputOK /\ SameContent
      /\ d_sharedpreferenceframes' = d_sharedpreferenceframes
  BY SameWhenKept DEF WriteVersion, Writing, CopyInv, SessionInv, SameContent
<1>2. /\ stage' \in {"rows", "sharedprefs", "failed"} /\ next' = 1
      /\ stage' = "sharedprefs" => d_database = <<>>
      /\ stage' = "failed" => out' = out
      /\ stage' # "failed" => EncryptFrame(Plain("DATABASEVERSION", AnyId))
  BY DEF WriteVersion, Goto, encryptorVars
<1>3. CopyPlace'
  BY <1>1, <1>2, ListLengths DEF CopyPlace
<1>4. Remaining = <<Plain("DATABASEVERSION", AnyId)>> \o FromRow(1) /\ Status = "open"
  BY <1>1, StatusIs DEF Remaining, Stages
<1>5. CASE stage' = "failed"
  <2>1. Status' = "broken" /\ Remaining' = <<>>
    BY <1>1, <1>5, StatusNext, RemainingNext
  <2>2. Begins(FramesIn(out'), FramesIn(out))
    BY <1>1, <1>2, <1>5, BeginsItself DEF OutputOK
  <2> QED BY <1>3, <1>4, <2>1, <2>2, GivenUp
<1>6. CASE stage' # "failed"
  <2>1. Status' = "open"
    BY <1>2, <1>6, StatusNext
  <2>2. Remaining' = FromRow(1)
    <3>1. CASE stage' = "rows"
      BY <1>1, <1>2, <3>1, RemainingNext
    <3>2. CASE stage' = "sharedprefs"
      <4>1. FromRow(1) = FromSharedPref(1)
        <5>1. Len(d_database) + 1 = 1
          BY <1>2, <3>2
        <5> QED BY <1>1, <5>1, RemainingRows
      <4> QED BY <1>1, <1>2, <3>2, <4>1, RemainingNext
    <3> QED BY <1>2, <1>6, <3>1, <3>2
  <2>3. FromRow(1) \in Seq(Frames(Ids)) /\ FromRow(1) # <<>>
    <3>1. 1 \in 1 .. Len(d_database) + 1
      BY ListLengths
    <3> QED BY <1>1, <3>1, RemainingRows, Unfinished
  <2>4. "DATABASEVERSION" \in FRAMETYPE /\ AnyId \in Ids
    BY AnyIdType DEF FRAMETYPE
  <2> QED BY <1>1, <1>2, <1>3, <1>4, <1>6, <2>1, <2>2, <2>3, <2>4, OnePlain
<1> QED BY <1>5, <1>6

(* Behind the last row come the shared preferences.                                *)
LEMMA NextRowRemains ==
  ASSUME CopyInv, SameContent, next \in 1 .. Len(d_database), NextRow
  PROVE  /\ stage' \in {"rows", "sharedprefs"} /\ CopyPlace'
         /\ Remaining' = FromRow(next + 1) /\ Status' = "open"
         /\ FromRow(next + 1) \in Seq(Frames(Ids)) /\ FromRow(next + 1) # <<>>
<1>1. ContentOK /\ Len(d_database) \in Nat /\ d_sharedpreferenceframes' = d_sharedpreferenceframes
  BY ListLengths DEF CopyInv, SessionInv, SameContent
<1>2. next + 1 \in 1 .. Len(d_database) + 1
  BY <1>1
<1>3. FromRow(next + 1) \in Seq(Frames(Ids)) /\ FromRow(next + 1) # <<>>
  BY <1>1, <1>2, RemainingRows, Unfinished
<1>4. CASE next < Len(d_database)
  <2>1. stage' = "rows" /\ next' = next + 1
    BY <1>4 DEF NextRow, AfterList, Goto
  <2>2. Remaining' = FromRow(next + 1) /\ Status' = "open"
    BY <2>1, RemainingNext, StatusNext
  <2>3. CopyPlace'
    BY <2>1 DEF CopyPlace
  <2> QED BY <1>3, <2>1, <2>2, <2>3
<1>5. CASE ~(next < Len(d_database))
  <2>1. stage' = "sharedprefs" /\ next' = 1
    BY <1>5 DEF NextRow, AfterList, Goto
  <2>2. next + 1 = Len(d_database) + 1
    BY <1>1, <1>5
  <2>3. Remaining' = FromRow(next + 1) /\ Status' = "open"
    BY <1>1, <2>1, <2>2, RemainingRows, RemainingNext, StatusNext
  <2>4. CopyPlace'
    BY <1>1, <2>1, ListLengths DEF CopyPlace
  <2> QED BY <1>3, <2>1, <2>3, <2>4
<1> QED BY <1>4, <1>5

LEMMA RowCopies ==
  ASSUME CopyInv, WriteRow
  PROVE  CopyStep /\ CopyPlace'
<1>1. /\ stage = "rows" /\ Writing /\ ContentOK /\ SameContent
      /\ EncryptFrame(Plain("SQLSTATEMENT", RowId))
      /\ next \in 1 .. Len(d_database) /\ RowId = d_database[next] /\ d_database' = d_database
  BY SameWhenKept DEF WriteRow, Writing, CopyInv, SessionInv, RowOK, RowId, SameContent
<1>2. RowId \in Ids /\ "SQLSTATEMENT" \in FRAMETYPE /\ next + 1 \in 1 .. Len(d_database) + 1
  <2>1. Len(d_database) \in Nat
    BY ListLengths
  <2> QED BY <1>1, <2>1, ElementOfSeq DEF ContentOK, FRAMETYPE
<1> DEFINE data == DataFrames(RowId)
           rows == FromRow(next + 1)
           r == data \o rows
<1>3. data \in Seq(Frames(Ids)) /\ rows \in Seq(Frames(Ids)) /\ rows # <<>>
  BY <1>1, <1>2, DataFramesType, RemainingRows, Unfinished
<1>4. Remaining = <<Plain("SQLSTATEMENT", RowId)>> \o r
  BY <1>1, RemainingRows DEF Remaining
<1>5. r \in Seq(Frames(Ids)) /\ r # <<>>
  <2> HIDE DEF data, rows
  <2>1. r \in Seq(Frames(Ids)) /\ Len(r) = Len(data) + Len(rows) /\ Len(data) \in Nat
    BY <1>3, ConcatProperties, LenProperties
  <2>2. Len(rows) \in Nat /\ Len(rows) # 0
    BY <1>3, LenProperties, EmptySeq
  <2>3. Len(r) # 0
    BY <2>1, <2>2
  <2> QED BY <2>1, <2>3, EmptySeq
<1>6. Remaining' = r /\ Status' = "open" /\ CopyPlace'
  <2>1. ASSUME NEW s \in {"attachment", "sticker"}, Goto(s, next),
               s = "attachment" => RowId \in PartRows, s = "sticker" => RowId \in StickerRows
        PROVE  Remaining' = r /\ Status' = "open" /\ CopyPlace'
    <3>1. stage' = s /\ next' = next
      BY <2>1 DEF Goto
    <3>2. Remaining' = r /\ Status' = "open"
      BY <1>1, <3>1, RemainingNext, StatusNext
    <3>3. RowId' = RowId
      BY <1>1, <3>1 DEF RowId
    <3> QED BY <2>1, <3>1, <3>2, <3>3 DEF CopyPlace
  <2>2. CASE RowId \in PartRows /\ RowId \in DOMAIN d_attachments
    <3>1. Goto("attachment", next)
      BY <2>2, ExportAssumption DEF WriteRow
    <3> QED BY <2>1, <2>2, <3>1
  <2>3. CASE /\ ~(RowId \in PartRows /\ RowId \in DOMAIN d_attachments)
             /\ RowId \in StickerRows /\ RowId \in DOMAIN d_stickers
    <3>1. Goto("sticker", next)
      BY <2>3 DEF WriteRow
    <3> QED BY <2>1, <2>3, <3>1
  <2>4. CASE /\ ~(RowId \in PartRows /\ RowId \in DOMAIN d_attachments)
             /\ ~(RowId \in StickerRows /\ RowId \in DOMAIN d_stickers)
    <3>1. NextRow
      BY <2>4 DEF WriteRow
    <3>2. data = <<>>
      BY <2>4 DEF DataFrames
    <3>3. r = rows
      BY <1>3, <3>2, ConcatEmptySeq
    <3>4. Remaining' = rows /\ Status' = "open" /\ CopyPlace'
      BY <1>1, <3>1, NextRowRemains
    <3> QED BY <3>3, <3>4
  <2> QED BY <2>2, <2>3, <2>4
<1> HIDE DEF r
<1> QED BY <1>1, <1>2, <1>4, <1>5, <1>6, OnePlain

(* What does not verify may be left out.                                           *)
LEMMA UnverifiedIs ==
  ASSUME NEW map \in {d_attachments, d_stickers, d_avatars}, NEW i \in DOMAIN map,
         "BADMAC" \in Results(map[i])
  PROVE  Sized(map[i].frame) \in Unverified
BY Zenon DEF Unverified

(* A frame behind its row: r is what is left when the row is done.                 *)
LEMMA KeptCopies ==
  ASSUME CopyInv, Writing, SameContent, next \in 1 .. Len(d_database),
         NEW t, NEW k \in KeptFrames(t), NEW att, WriteKept(k, att),
         Remaining = <<Sized(k.frame)>> \o FromRow(next + 1),
         "BADMAC" \in Results(k) => Sized(k.frame) \in Unverified
  PROVE  CopyStep /\ CopyPlace'
<1>1. OutputOK /\ Status = "open"
  BY StatusIs DEF CopyInv, SessionInv, PlaceOK
<1>2. FromRow(next + 1) \in Seq(Frames(Ids)) /\ FromRow(next + 1) # <<>>
  <2>1. ContentOK /\ next + 1 \in 1 .. Len(d_database) + 1
    BY ListLengths DEF CopyInv, SessionInv
  <2> QED BY <2>1, RemainingRows, Unfinished
<1>3. /\ Sized(k.frame) \in Frames(Ids)
      /\ FramesIn(out) \in Seq(Frames(Ids)) /\ Begins(FramesIn(out), FramesIn(out))
  BY <1>1, SizedType, BeginsItself DEF KeptFrames, OutputOK, Sized
<1>4. PICK result \in Results(k) :
         \/ /\ Writes(k, attachmentData(k.att, result))
            /\ NextRow \/ Goto("crashed", 1)
         \/ FailsToRead(k, attachmentData(k.att, result)) /\ Goto("failed", 1)
  BY Zenon DEF WriteKept
<1>5. stage' \in {"crashed", "failed"} => CopyPlace' /\ Status' = "broken" /\ Remaining' = <<>>
  BY StatusNext, RemainingNext DEF CopyPlace
<1>6. CASE Writes(k, attachmentData(k.att, result)) /\ (NextRow \/ Goto("crashed", 1))
  <2>1. \/ FramesIn(out') = Append(FramesIn(out), Sized(k.frame))
        \/ FramesIn(out') = FramesIn(out) /\ Sized(k.frame) \in Unverified
    BY <1>1, <1>6, WrittenOrLeftOut
  <2>2. /\ CopyPlace'
        /\ \/ Status' = "open" /\ Remaining' = FromRow(next + 1)
           \/ Status' = "broken" /\ Remaining' = <<>>
    <3>1. CASE NextRow
      BY <3>1, NextRowRemains
    <3>2. CASE Goto("crashed", 1)
      BY <1>5, <3>2 DEF Goto
    <3> QED BY <1>6, <3>1, <3>2
  <2> QED BY <1>1, <1>2, <1>3, <2>1, <2>2, OneFrame
<1>7. CASE FailsToRead(k, attachmentData(k.att, result)) /\ Goto("failed", 1)
  <2>1. out' = out /\ stage' = "failed"
    BY <1>7 DEF FailsToRead, encryptorVars, Goto
  <2> QED BY <1>1, <1>3, <1>5, <2>1, GivenUp
<1> QED BY <1>4, <1>6, <1>7

LEMMA DataCopies ==
  ASSUME CopyInv, WriteAttachment \/ WriteSticker
  PROVE  CopyStep /\ CopyPlace'
<1>1. /\ ContentOK /\ RowOK /\ CopyPlace /\ stage \in {"attachment", "sticker"} /\ Writing
      /\ next \in 1 .. Len(d_database) /\ UNCHANGED restVars
  BY DEF WriteAttachment, WriteSticker, Writing, CopyInv, SessionInv, RowOK
<1>2. UNCHANGED <<d_database, d_sharedpreferenceframes, d_keyvalueframes>>
  BY <1>1 DEF restVars
<1>3. Remaining = DataFrames(RowId) \o FromRow(next + 1)
  BY <1>1 DEF Remaining
<1>4. CASE WriteAttachment
  <2>1. PICK att \in Attachments :
           /\ WriteKept(d_attachments[RowId], att)
           /\ d_attachments' = [d_attachments EXCEPT ![RowId].att = att]
           /\ d_stickers' = d_stickers
    BY <1>4, Zenon DEF WriteAttachment
  <2>2. /\ stage = "attachment" /\ RowId \in PartRows /\ RowId \in DOMAIN d_attachments
        /\ KeptMap(d_attachments, "ATTACHMENT") /\ d_avatars' = d_avatars
    BY <1>1, <1>4 DEF WriteAttachment, RowOK, ContentOK, CopyPlace
  <2>3. SameContent
    <3>1. /\ DOMAIN d_attachments' = DOMAIN d_attachments
          /\ \A i \in DOMAIN d_attachments : d_attachments'[i].frame = d_attachments[i].frame
      BY <2>1, <2>2, CachedAt
    <3> QED BY <1>2, <2>1, <2>2, <3>1 DEF SameContent
  <2>4. DataFrames(RowId) = <<Sized(d_attachments[RowId].frame)>>
    BY <2>2, ExportAssumption DEF DataFrames
  <2>5. d_attachments[RowId] \in KeptFrames("ATTACHMENT")
    BY <2>2, KeptMapType
  <2>6. "BADMAC" \in Results(d_attachments[RowId]) => Sized(d_attachments[RowId].frame) \in Unverified
    BY <2>2, UnverifiedIs
  <2> QED BY <1>1, <1>3, <2>1, <2>3, <2>4, <2>5, <2>6, KeptCopies
<1>5. CASE WriteSticker
  <2>1. PICK att \in Attachments :
           /\ WriteKept(d_stickers[RowId], att)
           /\ d_stickers' = [d_stickers EXCEPT ![RowId].att = att]
           /\ d_attachments' = d_attachments
    BY <1>5, Zenon DEF WriteSticker
  <2>2. /\ stage = "sticker" /\ RowId \in StickerRows /\ RowId \in DOMAIN d_stickers
        /\ KeptMap(d_stickers, "STICKER") /\ d_avatars' = d_avatars
    BY <1>1, <1>5 DEF WriteSticker, RowOK, ContentOK, CopyPlace
  <2>3. SameContent
    <3>1. /\ DOMAIN d_stickers' = DOMAIN d_stickers
          /\ \A i \in DOMAIN d_stickers : d_stickers'[i].frame = d_stickers[i].frame
      BY <2>1, <2>2, CachedAt
    <3> QED BY <1>2, <2>1, <2>2, <3>1 DEF SameContent
  <2>4. DataFrames(RowId) = <<Sized(d_stickers[RowId].frame)>>
    <3>1. RowId \notin PartRows
      BY <2>2, ExportAssumption
    <3> QED BY <2>2, <3>1 DEF DataFrames
  <2>5. d_stickers[RowId] \in KeptFrames("STICKER")
    BY <2>2, KeptMapType
  <2>6. "BADMAC" \in Results(d_stickers[RowId]) => Sized(d_stickers[RowId].frame) \in Unverified
    BY <2>2, UnverifiedIs
  <2> QED BY <1>1, <1>3, <2>1, <2>3, <2>4, <2>5, <2>6, KeptCopies
<1> QED BY <1>4, <1>5

LEMMA SharedPrefCopies ==
  ASSUME CopyInv, WriteSharedPref
  PROVE  CopyStep /\ CopyPlace'
<1> DEFINE l == Len(d_sharedpreferenceframes)
<1>1. /\ stage = "sharedprefs" /\ Writing /\ ContentOK /\ SameContent
      /\ next \in 1 .. l + 1 /\ l \in Nat
      /\ UNCHANGED <<d_sharedpreferenceframes, d_keyvalueframes>>
  BY SameWhenKept, ListLengths DEF WriteSharedPref, Writing, CopyInv, CopyPlace, SessionInv, SameContent
<1>2. Remaining = FromSharedPref(next) /\ Status = "open"
  BY <1>1, StatusIs DEF Remaining, Stages
<1>3. CASE next <= l
  <2>1. /\ EncryptFrame(Plain("SHAREDPREFERENCE", d_sharedpreferenceframes[next]))
        /\ stage' = "sharedprefs" /\ next' = next + 1
    BY <1>1, <1>3 DEF WriteSharedPref, Goto
  <2>2. /\ next \in 1 .. l /\ next + 1 \in 1 .. l + 1
        /\ d_sharedpreferenceframes[next] \in Ids /\ "SHAREDPREFERENCE" \in FRAMETYPE
    BY <1>1, <1>3, ElementOfSeq DEF ContentOK, FRAMETYPE
  <2>3. /\ FromSharedPref(next + 1) \in Seq(Frames(Ids)) /\ FromSharedPref(next + 1) # <<>>
        /\ FromSharedPref(next) = <<Plain("SHAREDPREFERENCE", d_sharedpreferenceframes[next])>>
                                  \o FromSharedPref(next + 1)
    BY <1>1, <2>2, RemainingParts, Unfinished
  <2>4. Status' = "open" /\ Remaining' = FromSharedPref(next + 1) /\ CopyPlace'
    BY <1>1, <2>1, <2>2, StatusNext, RemainingNext DEF CopyPlace
  <2> QED BY <1>1, <1>2, <2>1, <2>2, <2>3, <2>4, OnePlain
<1>4. CASE ~(next <= l)
  <2>1. out' = out /\ stage' = "keyvalues" /\ next' = 1
    BY <1>1, <1>4 DEF WriteSharedPref, Goto, encryptorVars
  <2>2. next = l + 1
    BY <1>1, <1>4
  <2>3. Status' = Status /\ Remaining' = Remaining
    BY <1>1, <1>2, <2>1, <2>2, StatusNext, RemainingNext, RemainingParts
  <2>4. CopyPlace'
    BY <1>1, <2>1, ListLengths DEF CopyPlace
  <2> QED BY <2>1, <2>3, <2>4, NothingCopied
<1> QED BY <1>3, <1>4

LEMMA KeyValueCopies ==
  ASSUME CopyInv, WriteKeyValue
  PROVE  CopyStep /\ CopyPlace'
<1> DEFINE l == Len(d_keyvalueframes)
<1>1. /\ stage = "keyvalues" /\ Writing /\ ContentOK /\ SameContent
      /\ next \in 1 .. l + 1 /\ l \in Nat
      /\ UNCHANGED <<d_keyvalueframes, d_avatars>>
  BY SameWhenKept, ListLengths DEF WriteKeyValue, Writing, CopyInv, CopyPlace, SessionInv, SameContent, keptVars
<1>2. Remaining = FromKeyValue(next) /\ Status = "open"
  BY <1>1, StatusIs DEF Remaining, Stages
<1>3. CASE next <= l
  <2>1. /\ EncryptFrame(Plain("KEYVALUE", d_keyvalueframes[next]))
        /\ stage' = "keyvalues" /\ next' = next + 1
    BY <1>1, <1>3 DEF WriteKeyValue, Goto
  <2>2. /\ next \in 1 .. l /\ next + 1 \in 1 .. l + 1
        /\ d_keyvalueframes[next] \in Ids /\ "KEYVALUE" \in FRAMETYPE
    BY <1>1, <1>3, ElementOfSeq DEF ContentOK, FRAMETYPE
  <2>3. /\ FromKeyValue(next + 1) \in Seq(Frames(Ids)) /\ FromKeyValue(next + 1) # <<>>
        /\ FromKeyValue(next) = <<Plain("KEYVALUE", d_keyvalueframes[next])>> \o FromKeyValue(next + 1)
    BY <1>1, <2>2, RemainingParts, Unfinished
  <2>4. Status' = "open" /\ Remaining' = FromKeyValue(next + 1) /\ CopyPlace'
    BY <1>1, <2>1, <2>2, StatusNext, RemainingNext DEF CopyPlace
  <2> QED BY <1>1, <1>2, <2>1, <2>2, <2>3, <2>4, OnePlain
<1>4. CASE ~(next <= l)
  <2>1. out' = out /\ stage' = "avatars" /\ next' = 1
    BY <1>1, <1>4 DEF WriteKeyValue, Goto, encryptorVars
  <2>2. next = l + 1
    BY <1>1, <1>4
  <2>3. Status' = Status /\ Remaining' = Remaining
    BY <1>1, <1>2, <2>1, <2>2, StatusNext, RemainingNext, RemainingParts
  <2>4. CopyPlace'
    BY <1>1, <2>1, ListLengths DEF CopyPlace
  <2> QED BY <2>1, <2>3, <2>4, NothingCopied
<1> QED BY <1>3, <1>4

LEMMA AvatarCopies ==
  ASSUME CopyInv, WriteAvatar
  PROVE  CopyStep /\ CopyPlace'
<1> DEFINE l == Len(d_avatars)
           k == d_avatars[next]
           r == FromAvatar(next + 1)
<1>1. /\ stage = "avatars" /\ Writing /\ ContentOK /\ OutputOK
      /\ next \in 1 .. l /\ next + 1 \in 1 .. l + 1 /\ l \in Nat
      /\ UNCHANGED <<restVars, d_attachments, d_stickers>>
  BY ListLengths DEF WriteAvatar, Writing, CopyInv, SessionInv
<1>2. /\ k \in KeptFrames("AVATAR") /\ next \in DOMAIN d_avatars
      /\ d_avatars \in Seq(KeptFrames("AVATAR"))
  BY <1>1, ElementOfSeq DEF ContentOK
<1>3. PICK result \in Results(k) :
         LET reading == attachmentData(k.att, result)
         IN  /\ \/ Writes(k, reading) /\ Goto(stage, next + 1)
                \/ FailsToRead(k, reading) /\ Goto("failed", 1)
             /\ d_avatars' = [d_avatars EXCEPT ![next].att = CacheAfter(k, reading)]
  BY Zenon DEF WriteAvatar
<1> DEFINE reading == attachmentData(k.att, result)
           cache == CacheAfter(k, reading)
<1>4. /\ \/ Writes(k, reading) /\ Goto("avatars", next + 1)
         \/ FailsToRead(k, reading) /\ Goto("failed", 1)
      /\ d_avatars' = [d_avatars EXCEPT ![next].att = cache]
  BY <1>1, <1>3
<1>5. SameContent /\ Len(d_avatars') = l
  <2> DEFINE kept == [k EXCEPT !.att = cache]
  <2>1. kept.frame = k.frame
    BY <1>2 DEF KeptFrames
  <2>2. d_avatars' = [d_avatars EXCEPT ![next] = kept]
    BY <1>4
  <2> HIDE DEF kept, cache, reading
  <2>3. /\ Len(d_avatars') = l
        /\ \A i \in 1 .. l : d_avatars'[i] = IF i = next THEN kept ELSE d_avatars[i]
    BY <1>1, <1>2, <2>2
  <2>4. \A i \in 1 .. l : d_avatars'[i].frame = d_avatars[i].frame
    BY <2>1, <2>3
  <2> QED BY <1>1, <2>3, <2>4 DEF SameContent, restVars
<1>6. Remaining = <<Sized(k.frame)>> \o r /\ Status = "open" /\ r \in Seq(Frames(Ids)) /\ r # <<>>
  <2>1. Remaining = FromAvatar(next) /\ Status = "open"
    BY <1>1, StatusIs DEF Remaining, Stages
  <2> QED BY <1>1, <2>1, RemainingParts, Unfinished
<1>7. /\ Sized(k.frame) \in Frames(Ids)
      /\ FramesIn(out) \in Seq(Frames(Ids)) /\ Begins(FramesIn(out), FramesIn(out))
  BY <1>1, <1>2, SizedType, BeginsItself DEF KeptFrames, OutputOK, Sized
<1>8. CASE Writes(k, reading) /\ Goto("avatars", next + 1)
  <2>1. \/ FramesIn(out') = Append(FramesIn(out), Sized(k.frame))
        \/ FramesIn(out') = FramesIn(out) /\ Sized(k.frame) \in Unverified
    <3>1. \/ FramesIn(out') = Append(FramesIn(out), Sized(k.frame))
          \/ FramesIn(out') = FramesIn(out) /\ "BADMAC" \in Results(k)
      BY <1>1, <1>2, <1>8, WrittenOrLeftOut
    <3>2. "BADMAC" \in Results(k) => Sized(k.frame) \in Unverified
      BY <1>2, UnverifiedIs
    <3> QED BY <3>1, <3>2
  <2>2. Status' = "open" /\ Remaining' = r /\ CopyPlace'
    <3>1. stage' = "avatars" /\ next' = next + 1
      BY <1>8 DEF Goto
    <3> QED BY <1>1, <1>5, <3>1, StatusNext, RemainingNext DEF CopyPlace
  <2> HIDE DEF k, r
  <2> QED BY <1>6, <1>7, <2>1, <2>2, OneFrame
<1>9. CASE FailsToRead(k, reading) /\ Goto("failed", 1)
  <2>1. out' = out /\ stage' = "failed"
    BY <1>9 DEF FailsToRead, encryptorVars, Goto
  <2>2. Status' = "broken" /\ Remaining' = <<>> /\ CopyPlace'
    BY <1>5, <2>1, StatusNext, RemainingNext DEF CopyPlace
  <2> QED BY <1>6, <1>7, <2>1, <2>2, GivenUp
<1> QED BY <1>4, <1>8, <1>9

(* Behind the last avatar comes the end frame, and that is all.                    *)
LEMMA EndCopies ==
  ASSUME CopyInv, AvatarsWritten \/ WriteEnd
  PROVE  CopyStep /\ CopyPlace'
<1>1. /\ ContentOK /\ OutputOK /\ SameContent /\ Writing /\ Status = "open"
      /\ stage \in {"avatars", "end"} /\ stage' \in {"end", "written"}
  BY SameWhenKept, StatusIs DEF AvatarsWritten, WriteEnd, Writing, CopyInv, SessionInv, PlaceOK, Goto
<1>2. CopyPlace'
  BY <1>1 DEF CopyPlace
<1>3. CASE AvatarsWritten
  <2>1. stage = "avatars" /\ next = Len(d_avatars) + 1 /\ stage' = "end" /\ out' = out
    BY <1>3, ListLengths DEF AvatarsWritten, CopyInv, CopyPlace, Goto, encryptorVars
  <2>2. Remaining = End
    BY <1>1, <2>1, RemainingParts DEF Remaining
  <2>3. Remaining' = End /\ Status' = "open"
    BY <1>1, <2>1, StatusNext, RemainingNext
  <2> QED BY <1>1, <1>2, <2>1, <2>2, <2>3, NothingCopied
<1>4. CASE WriteEnd
  <2> DEFINE x == Plain("END", AnyId)
             b == Block("frame", x, e_counter)
  <2>1. stage = "end" /\ stage' = "written" /\ EncryptFrame(x) /\ out' = Append(out, b)
    BY <1>4 DEF WriteEnd, Goto, EncryptFrame
  <2>2. x \in Frames(Ids) /\ x.type = "END"
    BY PlainType, AnyIdType DEF FRAMETYPE
  <2>3. b \in Blocks(Ids) /\ b.frame = x
    <3>1. e_counter \in Nat
      BY <1>1 DEF OutputOK
    <3> HIDE DEF x
    <3> QED BY <2>2, <3>1, BlockType
  <2>4. Remaining = <<x>> /\ Remaining' = <<>>
    <3>1. Remaining = End
      BY <2>1 DEF Remaining
    <3> QED BY <1>1, <2>1, <3>1, RemainingNext DEF End
  <2> HIDE DEF x, b
  <2>5. out' # <<>> /\ out'[Len(out')] = b
    <3>1. out \in Seq(Blocks(Ids)) /\ Len(out) \in Nat
      BY <1>1, LenProperties DEF OutputOK
    <3> QED BY <2>1, <2>3, <3>1, AppendProperties
  <2>6. Status' = "complete"
    BY <2>1, <2>2, <2>3, <2>5, StatusNext
  <2>7. FramesIn(out') = Append(FramesIn(out), x)
    BY <1>1, <2>1, <2>2, WritesFrame
  <2>8. Remaining # <<>> /\ Head(Remaining) = x /\ Tail(Remaining) = <<>>
    BY <2>4
  <2>9. C!Copy
    BY <1>1, <2>4, <2>6, <2>7, <2>8, FramesNext DEF C!Copy
  <2> QED BY <1>2, <2>9 DEF CopyStep, C!CopyNext
<1> QED BY <1>3, <1>4

(* A write that fails, the last flush or any before it.                            *)
LEMMA FailureCopies ==
  ASSUME CopyInv, FlushFails \/ DiskFull
  PROVE  CopyStep /\ CopyPlace'
<1>1. /\ OutputOK /\ Continues /\ SameContent /\ WriteFails /\ Status = "open"
      /\ stage' \in {"failed", "written"}
  BY SameWhenKept, StatusIs DEF FlushFails, DiskFull, Writing, CopyInv, SessionInv, PlaceOK, OutputOK, Goto
<1>2. CopyPlace'
  BY <1>1 DEF CopyPlace
<1>3. Begins(FramesIn(out'), FramesIn(out)) /\ out'[Len(out')].frame.type # "END"
  BY <1>1, FailedWriteBegins
<1>4. out' # <<>>
  BY <1>1, FailedWriteLeaves DEF OutputOK
<1>5. Status' = "broken" /\ Remaining' = <<>>
  BY <1>1, <1>3, <1>4, StatusNext, RemainingNext
<1> QED BY <1>1, <1>2, <1>3, <1>5, GivenUp

(* Every step of a session is one of the copy, or leaves it alone.                 *)
LEMMA StepCopies ==
  ASSUME CopyInv, [SessionNext]_vars
  PROVE  CopyStep /\ CopyPlace'
<1>1. CASE UNCHANGED vars
  <2>1. UNCHANGED <<restVars, keptVars, out, stage, next>>
    BY <1>1 DEF vars, loadVars, contentVars, restVars, keptVars, exportVars, encryptorVars
  <2>2. SameContent /\ UNCHANGED <<d_database, d_sharedpreferenceframes, d_keyvalueframes, d_avatars>>
    BY <2>1, SameWhenKept DEF restVars, keptVars
  <2>3. Remaining' = Remaining
    BY <2>1, <2>2, RemainingNext DEF Remaining, RowId, CopyInv, SessionInv, PlaceOK, Stages
  <2>4. Status' = Status
    BY <2>1 DEF Status
  <2>5. CopyPlace'
    BY <2>1, <2>2 DEF CopyInv, CopyPlace, RowId
  <2> QED BY <2>1, <2>3, <2>4, <2>5, NothingCopied
<1>2. CASE Output
  <2>1. ExportStep
    BY <1>2 DEF Output
  <2> QED BY <2>1, StartCopies, VersionCopies, RowCopies, DataCopies, SharedPrefCopies,
             KeyValueCopies, AvatarCopies, EndCopies, FailureCopies DEF ExportStep
<1> QED BY <1>1, <1>2, LoadCopies, TaskCopies, MediaCopies, ReopenCopies DEF SessionNext

(* A session's export is a copy: every frame of the backup in memory is written,   *)
(* in order, but for those whose data does not verify, and the copy is complete,   *)
(* to its end frame, or it is broken off - wherever the export stops, fails or     *)
(* crashes, and for backups of any size (SignalBackup::exportBackupToFile).        *)
THEOREM ExportIsACopy == SessionSpec => ImplementsCopy
<1>1. SessionInit => CopyInv /\ C!CopyInit
  <2> SUFFICES ASSUME SessionInit PROVE CopyInv /\ C!CopyInit
    OBVIOUS
  <2>1. SessionInv
    BY SessionStarts
  <2>2. stage = "idle" /\ out = <<>>
    BY DEF SessionInit
  <2>3. Remaining = <<>> /\ Status = "idle" /\ FramesIn(out) = <<>>
    BY <2>2, FramesInNothing DEF Remaining, Status
  <2> QED BY <2>1, <2>2, <2>3 DEF CopyInv, CopyPlace, C!CopyInit
<1>2. CopyInv /\ [SessionNext]_vars => CopyInv' /\ [C!CopyNext]_<<Remaining, FramesIn(out), Status>>
  BY SessionInductive, StepCopies DEF CopyInv, CopyStep
<1> QED BY <1>1, <1>2, PTL DEF SessionSpec, ImplementsCopy, C!CopySpec

-----------------------------------------------------------------------------
(* What is loaded of a file *)

Contained == [db    : Seq(Ids), prefs : Seq(Ids), kvs : Seq(Ids),
              att   : SUBSET Frames(Ids), stk : SUBSET Frames(Ids), ava : SUBSET Frames(Ids),
              end   : {"none", "read"}]

Nothing == [db |-> <<>>, prefs |-> <<>>, kvs |-> <<>>,
            att |-> {}, stk |-> {}, ava |-> {}, end |-> "none"]

(* What one more frame makes of it, where nothing is damaged.                      *)
AddId(list, f, t) == IF f.type = t THEN Append(list, f.id) ELSE list

AddOnce(frames, f, t) ==
  IF f.type = t /\ (\A g \in frames : g.id # f.id) THEN frames \cup {f} ELSE frames

AddRow(list, f) ==
  IF f.type = "SQLSTATEMENT" /\ (\A i \in DOMAIN list : list[i] # f.id) THEN Append(list, f.id) ELSE list

Add(c, f) ==
  [db    |-> AddRow(c.db, f),
   prefs |-> AddId(c.prefs, f, "SHAREDPREFERENCE"),
   kvs   |-> AddId(c.kvs, f, "KEYVALUE"),
   att   |-> AddOnce(c.att, f, "ATTACHMENT"),
   stk   |-> AddOnce(c.stk, f, "STICKER"),
   ava   |-> IF f.type = "AVATAR" THEN c.ava \cup {f} ELSE c.ava,
   end   |-> IF f.type = "END" THEN "read" ELSE c.end]

AddBlock(c, b) == IF b.kind = "frame" THEN Add(c, b.frame) ELSE c

LoadedAmong(blocks) ==
  LET loaded[k \in 0 .. Len(blocks)] == IF k = 0 THEN Nothing ELSE AddBlock(loaded[k - 1], blocks[k])
  IN  loaded

LoadedBy(blocks) == LoadedAmong(blocks)[Len(blocks)]

(* A block adds to what is of its kind.                                            *)
LEMMA AddType ==
  ASSUME NEW c \in Contained, NEW b \in Blocks(Ids)
  PROVE  AddBlock(c, b) \in Contained
<1> DEFINE f == b.frame
<1>1. /\ f \in Frames(Ids) /\ f.id \in Ids
      /\ c.db \in Seq(Ids) /\ c.prefs \in Seq(Ids) /\ c.kvs \in Seq(Ids)
      /\ c.att \subseteq Frames(Ids) /\ c.stk \subseteq Frames(Ids) /\ c.ava \subseteq Frames(Ids)
      /\ c.end \in {"none", "read"}
  BY DEF Contained, Blocks, Frames
<1> HIDE DEF f
<1>2. AddRow(c.db, f) \in Seq(Ids)
  BY <1>1, AppendProperties DEF AddRow
<1>3. AddId(c.prefs, f, "SHAREDPREFERENCE") \in Seq(Ids) /\ AddId(c.kvs, f, "KEYVALUE") \in Seq(Ids)
  BY <1>1, AppendProperties DEF AddId
<1>4. /\ AddOnce(c.att, f, "ATTACHMENT") \subseteq Frames(Ids)
      /\ AddOnce(c.stk, f, "STICKER") \subseteq Frames(Ids)
  BY <1>1 DEF AddOnce
<1>5. Add(c, f) \in Contained
  BY <1>1, <1>2, <1>3, <1>4 DEF Add, Contained
<1> QED BY <1>5 DEF AddBlock, f

(* What LoadedAmong computes, block by block.                                      *)
Adds(l, blocks) ==
  /\ l[0] = Nothing
  /\ \A k \in 0 .. Len(blocks) : l[k] \in Contained
  /\ \A k \in 1 .. Len(blocks) : l[k] = AddBlock(l[k - 1], blocks[k])

(* Each block adds to what was loaded before it.                                   *)
LEMMA LoadedAmongIs ==
  ASSUME NEW blocks \in Seq(Blocks(Ids))
  PROVE  Adds(LoadedAmong(blocks), blocks)
<1> DEFINE n == Len(blocks)
           G == [k \in 1 .. n |-> [x \in Contained |-> AddBlock(x, blocks[k])]]
           Is(l) == l = [k \in 0 .. n |-> IF k = 0 THEN Nothing ELSE AddBlock(l[k - 1], blocks[k])]
           j == LoadedAmong(blocks)
<1>1. n \in Nat /\ \A k \in 1 .. n : blocks[k] \in Blocks(Ids)
  BY LenProperties, ElementOfSeq
<1>2. Nothing \in Contained /\ G \in [1 .. n -> [Contained -> Contained]]
  <2>1. \A k \in 1 .. n : \A x \in Contained : AddBlock(x, blocks[k]) \in Contained
    BY <1>1, AddType
  <2>2. Nothing \in Contained
    BY EmptySeq DEF Nothing, Contained
  <2> HIDE DEF n
  <2> QED BY <2>1, <2>2
<1>3. PICK l \in [0 .. n -> Contained] : Steps(l, n, Nothing, G)
  <2> HIDE DEF G, n
  <2> QED BY <1>1, <1>2, Recursion
<1> HIDE DEF n
<1>4. \A k \in 0 .. n : l[k] = IF k = 0 THEN Nothing ELSE AddBlock(l[k - 1], blocks[k])
  <2>1. ASSUME NEW k \in 0 .. n PROVE l[k] = IF k = 0 THEN Nothing ELSE AddBlock(l[k - 1], blocks[k])
    <3>1. CASE k = 0
      BY <1>3, <3>1 DEF Steps
    <3>2. CASE k # 0
      <4>1. k \in 1 .. n /\ k - 1 \in 0 .. n
        BY <1>1, <3>2
      <4>2. l[k] = G[k][l[k - 1]] /\ l[k - 1] \in Contained
        BY <1>3, <4>1 DEF Steps
      <4> QED BY <3>2, <4>1, <4>2
    <3> QED BY <3>1, <3>2
  <2> QED BY <2>1
<1>5. Is(l)
  BY <1>3, <1>4
<1>6. Is(j)
  <2>1. j = CHOOSE g : Is(g)
    BY Zenon DEF LoadedAmong, n
  <2> HIDE DEF Is, j
  <2> QED BY <1>5, <2>1
<1>7. \A k \in 0 .. n : j[k] = IF k = 0 THEN Nothing ELSE AddBlock(j[k - 1], blocks[k])
  <2> HIDE DEF j
  <2> QED BY <1>6
<1>8. j[0] = Nothing /\ \A k \in 1 .. n : j[k] = AddBlock(j[k - 1], blocks[k])
  <2> HIDE DEF j
  <2>1. 0 \in 0 .. n /\ \A k \in 1 .. n : k \in 0 .. n /\ k # 0
    BY <1>1
  <2> QED BY <1>7, <2>1, Zenon
<1> DEFINE P == {k \in Nat : k <= n => j[k] \in Contained}
<1> HIDE DEF j
<1>9. Nat \subseteq P
  <2>1. 0 \in P
    BY <1>2, <1>8
  <2>2. ASSUME NEW k \in Nat, k \in P PROVE k + 1 \in P
    <3> SUFFICES ASSUME k + 1 <= n PROVE j[k + 1] \in Contained
      OBVIOUS
    <3>1. k + 1 \in 1 .. n /\ (k + 1) - 1 = k /\ j[k] \in Contained
      BY <1>1, <2>2
    <3> QED BY <1>1, <1>8, <3>1, AddType
  <2> HIDE DEF P
  <2> QED BY <2>1, <2>2, SetInduction
<1> QED BY <1>1, <1>8, <1>9 DEF Adds, n, j

(* What another block adds.                                                        *)
LEMMA LoadedAppend ==
  ASSUME NEW s \in Seq(Blocks(Ids)), NEW b \in Blocks(Ids)
  PROVE  /\ LoadedBy(s) \in Contained
         /\ LoadedBy(Append(s, b)) = AddBlock(LoadedBy(s), b)
<1> DEFINE t == Append(s, b)
           n == Len(s)
           f == LoadedAmong(s)
           g == LoadedAmong(t)
           P == {k \in Nat : k <= n => f[k] = g[k]}
<1>1. /\ t \in Seq(Blocks(Ids)) /\ Len(t) = n + 1 /\ n \in Nat
      /\ t[n + 1] = b /\ \A k \in 1 .. n : t[k] = s[k]
  BY AppendProperties, LenProperties
<1>2. /\ f[0] = Nothing /\ \A k \in 0 .. n : f[k] \in Contained
      /\ \A k \in 1 .. n : f[k] = AddBlock(f[k - 1], s[k])
  <2>1. Adds(f, s)
    BY LoadedAmongIs
  <2> QED BY <2>1 DEF Adds
<1>3. /\ g[0] = Nothing
      /\ \A k \in 1 .. n + 1 : g[k] = AddBlock(g[k - 1], t[k])
  <2>1. Adds(g, t)
    <3> HIDE DEF t
    <3> QED BY <1>1, LoadedAmongIs
  <2> HIDE DEF t, n, g
  <2> QED BY <1>1, <2>1 DEF Adds
<1>4. LoadedBy(s) = f[n] /\ LoadedBy(t) = g[n + 1]
  BY <1>1 DEF LoadedBy
<1> HIDE DEF f, g, t, n
<1>5. Nat \subseteq P
  <2>1. 0 \in P
    BY <1>2, <1>3
  <2>2. ASSUME NEW k \in Nat, k \in P PROVE k + 1 \in P
    <3> SUFFICES ASSUME k + 1 <= n PROVE f[k + 1] = g[k + 1]
      OBVIOUS
    <3>1. k + 1 \in 1 .. n /\ k + 1 \in 1 .. n + 1 /\ (k + 1) - 1 = k /\ f[k] = g[k]
      BY <1>1, <2>2
    <3>2. t[k + 1] = s[k + 1]
      BY <1>1, <3>1
    <3> QED BY <1>2, <1>3, <3>1, <3>2
  <2> HIDE DEF P
  <2> QED BY <2>1, <2>2, SetInduction
<1>6. n \in P /\ n \in 0 .. n /\ n + 1 \in 1 .. n + 1 /\ (n + 1) - 1 = n
  BY <1>1, <1>5
<1>7. f[n] = g[n]
  BY <1>6
<1> QED BY <1>1, <1>2, <1>3, <1>4, <1>6, <1>7 DEF t

-----------------------------------------------------------------------------
(* What the second run has in memory *)

Memory ==
  [db |-> d_database, prefs |-> d_sharedpreferenceframes, kvs |-> d_keyvalueframes,
   att |-> FramesOf(d_attachments), stk |-> FramesOf(d_stickers), ava |-> FramesOf(d_avatars),
   end |-> IF d_endframe = "read" THEN "read" ELSE "none"]

(* A frame is kept under its own id.                                               *)
ById(map) == \A i \in DOMAIN map : map[i].frame.id = i

KeyedById == ById(d_attachments) /\ ById(d_stickers)

(* A map without a frame of that id has one more, any other stays as it is.        *)
LEMMA EmplaceAdds ==
  ASSUME NEW map, ById(map), NEW v, NEW t, v.frame.type = t
  PROVE  /\ ById(Emplace(map, v.frame.id, v))
         /\ FramesOf(Emplace(map, v.frame.id, v)) = AddOnce(FramesOf(map), v.frame, t)
<1> DEFINE id == v.frame.id
           e == Emplace(map, id, v)
<1>1. CASE id \in DOMAIN map
  <2>1. e = map
    BY <1>1 DEF Emplace
  <2>2. map[id].frame \in FramesOf(map) /\ map[id].frame.id = id
    BY <1>1 DEF FramesOf, ById
  <2>3. AddOnce(FramesOf(map), v.frame, t) = FramesOf(map)
    BY <2>2 DEF AddOnce
  <2> QED BY <2>1, <2>3
<1>2. CASE id \notin DOMAIN map
  <2>1. e = [i \in DOMAIN map \cup {id} |-> IF i = id THEN v ELSE map[i]]
    BY <1>2 DEF Emplace
  <2> HIDE DEF e
  <2>2. /\ DOMAIN e = DOMAIN map \cup {id} /\ e[id] = v
        /\ \A i \in DOMAIN map : e[i] = map[i]
    BY <1>2, <2>1
  <2>3. ById(e)
    BY <2>2 DEF ById
  <2>4. \A g \in FramesOf(map) : g.id # id
    BY <1>2 DEF FramesOf, ById
  <2>5. AddOnce(FramesOf(map), v.frame, t) = FramesOf(map) \cup {v.frame}
    BY <2>4 DEF AddOnce
  <2>6. FramesOf(e) = FramesOf(map) \cup {v.frame}
    <3>1. ASSUME NEW g, g \in FramesOf(e) PROVE g \in FramesOf(map) \cup {v.frame}
      BY <2>2, <3>1 DEF FramesOf
    <3>2. ASSUME NEW g, g \in FramesOf(map) \cup {v.frame} PROVE g \in FramesOf(e)
      BY <2>2, <3>2 DEF FramesOf
    <3> QED BY <3>1, <3>2
  <2> QED BY <2>3, <2>5, <2>6 DEF e
<1> QED BY <1>1, <1>2

(* Where the load keeps a frame is where Add puts it.                              *)
LEMMA DispatchAdds ==
  ASSUME ContentOK, KeyedById, NEW r \in Returnable, Dispatch(r)
  PROVE  Memory' = Add(Memory, r.frame) /\ KeyedById'
<1> DEFINE f == r.frame
           k == Kept(r)
<1>k. k.frame = f
  BY KeptType
<1>1. d_database' = AddRow(d_database, f)
  BY DEF Dispatch, Executes, AddRow
<1>2. /\ d_sharedpreferenceframes' = AddId(d_sharedpreferenceframes, f, "SHAREDPREFERENCE")
      /\ d_keyvalueframes' = AddId(d_keyvalueframes, f, "KEYVALUE")
  BY DEF Dispatch, AddId
<1>3. FramesOf(d_attachments') = AddOnce(FramesOf(d_attachments), f, "ATTACHMENT") /\ ById(d_attachments')
  <2>1. d_attachments' = IF f.type = "ATTACHMENT" THEN Emplace(d_attachments, f.id, k) ELSE d_attachments
    BY DEF Dispatch
  <2>2. ById(d_attachments)
    BY DEF KeyedById
  <2> HIDE DEF k, f
  <2>3. CASE f.type = "ATTACHMENT"
    BY <1>k, <2>1, <2>2, <2>3, EmplaceAdds
  <2>4. CASE f.type # "ATTACHMENT"
    BY <2>1, <2>2, <2>4 DEF AddOnce
  <2> QED BY <2>3, <2>4
<1>4. FramesOf(d_stickers') = AddOnce(FramesOf(d_stickers), f, "STICKER") /\ ById(d_stickers')
  <2>1. d_stickers' = IF f.type = "STICKER" THEN Emplace(d_stickers, f.id, k) ELSE d_stickers
    BY DEF Dispatch
  <2>2. ById(d_stickers)
    BY DEF KeyedById
  <2> HIDE DEF k, f
  <2>3. CASE f.type = "STICKER"
    BY <1>k, <2>1, <2>2, <2>3, EmplaceAdds
  <2>4. CASE f.type # "STICKER"
    BY <2>1, <2>2, <2>4 DEF AddOnce
  <2> QED BY <2>3, <2>4
<1>5. FramesOf(d_avatars') = IF f.type = "AVATAR" THEN FramesOf(d_avatars) \cup {f} ELSE FramesOf(d_avatars)
  <2>1. d_avatars' = IF f.type = "AVATAR" THEN Append(d_avatars, k) ELSE d_avatars
    BY DEF Dispatch
  <2>2. CASE f.type = "AVATAR"
    <3> DEFINE a == d_avatars'
               n == Len(d_avatars)
    <3>1. d_avatars \in Seq(KeptFrames("AVATAR")) /\ k \in KeptFrames("AVATAR")
      BY <2>2, KeptType DEF ContentOK
    <3>2. a = Append(d_avatars, k)
      BY <2>1, <2>2
    <3> HIDE DEF k, f
    <3>3. /\ DOMAIN a = 1 .. n + 1 /\ a[n + 1] = k /\ n \in Nat
          /\ DOMAIN d_avatars = 1 .. n /\ \A i \in 1 .. n : a[i] = d_avatars[i]
      BY <3>1, <3>2, AppendProperties, LenProperties
    <3> HIDE DEF a, n
    <3>4. ASSUME NEW g, g \in FramesOf(a) PROVE g \in FramesOf(d_avatars) \cup {f}
      <4>1. PICK i \in 1 .. n + 1 : g = a[i].frame
        BY <3>3, <3>4 DEF FramesOf
      <4>2. CASE i = n + 1
        BY <1>k, <3>3, <4>1, <4>2
      <4>3. CASE i # n + 1
        <5>1. i \in 1 .. n
          BY <3>3, <4>3
        <5> QED BY <3>3, <4>1, <5>1 DEF FramesOf
      <4> QED BY <4>2, <4>3
    <3>5. ASSUME NEW g, g \in FramesOf(d_avatars) \cup {f} PROVE g \in FramesOf(a)
      <4>1. CASE g = f
        <5>1. n + 1 \in DOMAIN a /\ a[n + 1].frame = g
          BY <1>k, <3>3, <4>1
        <5> QED BY <5>1 DEF FramesOf
      <4>2. CASE g \in FramesOf(d_avatars)
        <5>1. PICK i \in 1 .. n : g = d_avatars[i].frame
          BY <3>3, <4>2 DEF FramesOf
        <5>2. i \in DOMAIN a /\ a[i].frame = g
          BY <3>3, <5>1
        <5> QED BY <5>2 DEF FramesOf
      <4> QED BY <3>5, <4>1, <4>2
    <3>6. FramesOf(a) = FramesOf(d_avatars) \cup {f}
      BY <3>4, <3>5
    <3> QED BY <2>2, <3>6 DEF a
  <2>3. CASE f.type # "AVATAR"
    BY <2>1, <2>3
  <2> QED BY <2>2, <2>3
<1>6. d_endframe' = IF f.type = "END" THEN "read" ELSE d_endframe
  BY DEF Dispatch
<1>7. KeyedById'
  BY <1>3, <1>4 DEF KeyedById, ById
<1>8. Memory' =
      [db |-> d_database', prefs |-> d_sharedpreferenceframes', kvs |-> d_keyvalueframes',
       att |-> FramesOf(d_attachments'), stk |-> FramesOf(d_stickers'), ava |-> FramesOf(d_avatars'),
       end |-> IF d_endframe' = "read" THEN "read" ELSE "none"]
  BY DEF Memory, FramesOf
<1>9. Add(Memory, f) =
      [db    |-> AddRow(d_database, f),
       prefs |-> AddId(d_sharedpreferenceframes, f, "SHAREDPREFERENCE"),
       kvs   |-> AddId(d_keyvalueframes, f, "KEYVALUE"),
       att   |-> AddOnce(FramesOf(d_attachments), f, "ATTACHMENT"),
       stk   |-> AddOnce(FramesOf(d_stickers), f, "STICKER"),
       ava   |-> IF f.type = "AVATAR" THEN FramesOf(d_avatars) \cup {f} ELSE FramesOf(d_avatars),
       end   |-> IF f.type = "END" THEN "read" ELSE IF d_endframe = "read" THEN "read" ELSE "none"]
  BY DEF Add, Memory
<1>10. (IF d_endframe' = "read" THEN "read" ELSE "none")
         = IF f.type = "END" THEN "read" ELSE IF d_endframe = "read" THEN "read" ELSE "none"
  BY <1>6
<1> HIDE DEF f
<1>11. Memory' = Add(Memory, f)
  BY <1>1, <1>2, <1>3, <1>4, <1>5, <1>8, <1>9, <1>10
<1> QED BY <1>7, <1>11 DEF f

(* A file that was written to its end.                                             *)
Ended(blocks) == blocks # <<>> /\ blocks[Len(blocks)].frame.type = "END"

Whole(blocks) ==
  /\ Ended(blocks) /\ Sound(blocks) /\ Intact(blocks)
  /\ \A k \in 1 .. Len(blocks) : Instantiates(blocks[k].frame)

(* Of a whole file everything that the stream has passed is in memory, but for     *)
(* the frame that has just been returned.                                          *)
LoadedSoFar ==
  /\ pc = "get" => pos <= Len(file) + 1 /\ Memory = LoadedAmong(file)[pos - 1]
  /\ pc = "handle" /\ frame # <<>> =>
       pos <= Len(file) + 1 /\ ~d_badmac /\ Add(Memory, frame[1].frame) = LoadedAmong(file)[pos - 1]
  /\ pc = "done" \/ (pc = "handle" /\ frame = <<>>) => Memory = LoadedBy(file)

(* The header, or the frame the stream stands at, comes next, with its data.       *)
LEMMA WholeFileGets ==
  ASSUME TypeOK, keyok, NoLoss, Whole(file), LoadedSoFar, pc = "get", getFrame, pos <= Len(file),
         file' = file
  PROVE  /\ frame' # <<>> /\ ~d_badmac' /\ pos' <= Len(file) + 1
         /\ Add(Memory, frame'[1].frame) = LoadedAmong(file)[pos' - 1]
<1> DEFINE l == LoadedAmong(file)
           n == Len(file)
<1>1. /\ pos \in 1 .. n /\ n \in Nat /\ pos \in Nat \ {0} /\ FileTypeOK
      /\ file \in Seq(Blocks(Ids)) /\ WellFormed(file, FirstCounter)
  BY FileType DEF TypeOK, StreamTypeOK, FileTypeOK
<1>2. \A k \in 1 .. n : l[k] = AddBlock(l[k - 1], file[k])
  <2>1. Adds(l, file)
    BY <1>1, LoadedAmongIs
  <2> HIDE DEF l
  <2> QED BY <2>1 DEF Adds
<1>3. Memory = l[pos - 1]
  BY DEF LoadedSoFar
<1> HIDE DEF l
<1>4. Untouched(pos) /\ OnTrack
  <2>1. \A k \in 1 .. n : file[k].damage = "none" /\ file[k].frame.size # "misfit"
    BY DEF Whole, Sound, Intact
  <2>2. Untouched(pos)
    BY <1>1, <2>1 DEF Untouched
  <2> QED BY <2>2 DEF NoLoss, OnTrackBeforeDamage
<1>5. ASSUME file[pos].kind = "frame"
      PROVE  l[pos] = Add(Memory, file[pos].frame)
  BY <1>1, <1>2, <1>3, <1>5 DEF AddBlock
<1>6. CASE d_headerframe
  <2>1. pos = 1 /\ ~d_badmac /\ file[1].kind = "frame"
    BY <1>1, <1>4, <1>6 DEF OnTrack, WellFormed
  <2>e. ~Eof
    BY <1>1 DEF Eof
  <2>2. GetHeader
    BY <1>6, <2>e, Zenon DEF getFrame, GetEof, getFrame1, getFrameOld, GetFrame, GetFrameBadMac,
       GetFrameNoise, GetFrameOld, GetFrameOldNoise, GetFrameOldBadMac
  <2>3. frame' = Returned(file[1].frame, 0, 1) /\ pos' = 2 /\ d_badmac' = d_badmac
    BY <2>2 DEF GetHeader
  <2>4. frame' # <<>> /\ frame'[1].frame = file[1].frame
    BY <2>3 DEF Returned
  <2>5. l[1] = Add(Memory, file[1].frame)
    BY <1>5, <2>1
  <2> QED BY <1>1, <2>1, <2>3, <2>4, <2>5 DEF l
<1>7. CASE ~d_headerframe
  <2>1. TakeData(FrameAt(pos), d_framecount) /\ ~d_badmac'
    BY <1>1, <1>4, <1>7, OnTrackGets
  <2> DEFINE f == file[pos].frame
  <2>2. FrameAt(pos) = f /\ file[pos].kind = "frame" /\ pos > 1
    BY <1>1, <1>4, <1>7 DEF FrameAt, Whole, OnTrack
  <2>3. f \in Frames(Ids) /\ f.size \in Sizes /\ f.size # "misfit"
    BY <1>1, FileType DEF Whole, Sound, Frames
  <2>4. CarriesData(f) => pos + 1 \in 1 .. n /\ f.size = "fits" /\ file[pos + 1].damage = "none"
    <3>1. pos = n => f.type = "END"
      BY DEF Whole, Ended
    <3>2. CarriesData(f) => pos # n
      BY <3>1 DEF CarriesData, WithAttachment
    <3>3. CarriesData(f) => f.size = "fits"
      BY <2>3 DEF CarriesData, Sizes
    <3> HIDE DEF f
    <3>4. CarriesData(f) => pos + 1 \in 1 .. n
      BY <1>1, <3>2
    <3> QED BY <3>3, <3>4 DEF Whole, Intact
  <2>5. GiveFrame(f, d_framecount, pos, d_counter)
    <3>1. \/ GiveFrame(f, d_framecount, pos, d_counter)
          \/ CarriesData(f) /\ (pos < n /\ f.size = "fits" => file[pos + 1].damage = "cut")
      BY <2>1, <2>2, Zenon DEF TakeData
    <3>2. CarriesData(f) => pos < n
      BY <1>1, <2>4
    <3>3. "none" # "cut"
      OBVIOUS
    <3> HIDE DEF f
    <3> QED BY <2>4, <3>1, <3>2, <3>3
  <2>6. frame' # <<>> /\ frame'[1].frame = f
    BY <1>1, <2>5, Gives
  <2>7. l[pos] = Add(Memory, f)
    BY <1>5, <2>2
  <2>8. CASE CarriesData(f)
    <3>1. pos' = pos + 2
      BY <2>4, <2>5, <2>8, Zenon DEF GiveFrame
    <3>2. file[pos + 1].kind = "data"
      BY <1>1, <2>2, <2>4, <2>8, DataBehind
    <3>3. l[pos + 1] = l[pos]
      <4>1. pos + 1 \in 1 .. n /\ (pos + 1) - 1 = pos
        BY <1>1, <2>4, <2>8
      <4>2. l[pos + 1] = AddBlock(l[pos], file[pos + 1])
        <5> HIDE DEF n
        <5> QED BY <1>2, <4>1
      <4> QED BY <3>2, <4>2 DEF AddBlock
    <3>4. pos' - 1 = pos + 1 /\ pos' <= n + 1
      BY <1>1, <2>4, <2>8, <3>1
    <3> QED BY <2>1, <2>6, <2>7, <3>3, <3>4 DEF l
  <2>9. CASE ~CarriesData(f)
    <3>1. pos' = pos + 1
      BY <2>5, <2>9, Zenon DEF GiveFrame
    <3>2. pos' - 1 = pos /\ pos' <= n + 1
      BY <1>1, <3>1
    <3> QED BY <2>1, <2>6, <2>7, <3>2 DEF l
  <2> QED BY <2>8, <2>9
<1> QED BY <1>6, <1>7

(* The calls of getFrame leave the memory alone, and so does the end of the loop.  *)
LEMMA MemoryStays ==
  ASSUME UNCHANGED <<d_database, d_attachments, d_stickers, d_avatars, d_sharedpreferenceframes,
                     d_keyvalueframes>>,
         d_endframe' = "read" <=> d_endframe = "read"
  PROVE  Memory' = Memory
BY DEF Memory, FramesOf

(* Every step of the load of a whole file keeps that.                              *)
LEMMA WholeFileLoads ==
  ASSUME TypeOK, ContentOK, KeyedById, keyok, NoLoss, Whole(file), LoadedSoFar, LoadNext
  PROVE  LoadedSoFar'
<1>0. file' = file
  BY Zenon DEF LoadNext, CallGetFrame, HandleFrame, HandleCrash, Finish
<1>t. pos \in Nat \ {0} /\ Len(file) \in Nat
  BY FileType DEF TypeOK, StreamTypeOK
<1>f. LoadedBy(file)' = LoadedBy(file) /\ LoadedAmong(file)' = LoadedAmong(file)
  BY <1>0
<1>1. CASE CallGetFrame
  <2>1. pc = "get" /\ pc' = "handle" /\ getFrame
    BY <1>1 DEF CallGetFrame
  <2>2. Memory' = Memory
    BY <1>1, MemoryStays DEF CallGetFrame, contentVars
  <2>3. CASE pos <= Len(file)
    <3>1. /\ frame' # <<>> /\ ~d_badmac' /\ pos' <= Len(file) + 1
          /\ Add(Memory, frame'[1].frame) = LoadedAmong(file)[pos' - 1]
      BY <1>0, <2>1, <2>3, WholeFileGets
    <3>2. Len(file') + 1 = Len(file) + 1
      BY <1>0
    <3> QED BY <1>f, <2>1, <2>2, <3>1, <3>2 DEF LoadedSoFar
  <2>4. CASE pos > Len(file)
    <3>1. pos - 1 = Len(file) /\ Memory = LoadedBy(file)
      BY <1>t, <2>1, <2>4 DEF LoadedSoFar, LoadedBy
    <3>2. Eof
      BY <2>4 DEF Eof
    <3>3. GetEof
      BY <2>1, <3>2, Zenon DEF getFrame, GetHeader, getFrame1, getFrameOld, GetFrame, GetFrameBadMac,
         GetFrameNoise, GetFrameOld, GetFrameOldNoise, GetFrameOldBadMac
    <3>4. frame' = <<>>
      BY <3>3 DEF GetEof
    <3> QED BY <1>f, <2>1, <2>2, <3>1, <3>4 DEF LoadedSoFar
  <2> QED BY <1>t, <2>3, <2>4
<1>2. CASE HandleFrame
  <2>1. pc = "handle" /\ frame # <<>> /\ UNCHANGED <<decryptorVars, command>>
    BY <1>2 DEF HandleFrame
  <2>2. ~StopsOnBadMac
    BY <2>1 DEF LoadedSoFar, StopsOnBadMac
  <2>3. pc' = "get" /\ Dispatch(frame[1])
    BY <1>2, <2>2, Zenon DEF HandleFrame
  <2>4. frame[1] \in Returnable
    BY <2>1, ElementTypes
  <2>5. Memory' = Add(Memory, frame[1].frame)
    BY <2>3, <2>4, DispatchAdds
  <2>6. pos' = pos
    BY <2>1 DEF decryptorVars
  <2>7. pos <= Len(file) + 1 /\ Add(Memory, frame[1].frame) = LoadedAmong(file)[pos - 1]
    BY <2>1 DEF LoadedSoFar
  <2> QED BY <1>0, <1>f, <2>3, <2>5, <2>6, <2>7 DEF LoadedSoFar
<1>3. CASE HandleCrash
  BY <1>3 DEF HandleCrash, LoadedSoFar
<1>4. CASE Finish
  <2>1. pc = "handle" /\ frame = <<>> /\ pc' = "done" /\ UNCHANGED decryptorVars
    BY <1>4 DEF Finish
  <2>2. d_endframe' = "read" <=> d_endframe = "read"
    BY <1>4, Zenon DEF Finish
  <2>3. Memory' = Memory
    BY <1>4, <2>2, MemoryStays DEF Finish
  <2>4. Memory = LoadedBy(file)
    BY <2>1 DEF LoadedSoFar
  <2> QED BY <1>f, <2>1, <2>3, <2>4 DEF LoadedSoFar
<1> QED BY <1>1, <1>2, <1>3, <1>4 DEF LoadNext

-----------------------------------------------------------------------------
(* What was written of the backup in memory *)

(* The first n statements of some table whose data was not left out, and the data. *)
Places(s, rows, map, n) ==
  {i \in 1 .. n : d_database[i] \in rows \cap DOMAIN map /\ <<s, i>> \notin skipped}

DataUpTo(s, rows, map, n) == {Sized(map[d_database[i]].frame) : i \in Places(s, rows, map, n)}

AvatarsUpTo(n) == {Sized(d_avatars[i].frame) : i \in {m \in 1 .. n : <<"avatars", m>> \notin skipped}}

(* So many statements, the data of so many of them, so many preferences, key       *)
(* values and avatars.                                                             *)
UpTo(r, d, p, k, a, e) ==
  [db    |-> SubSeq(d_database, 1, r),
   prefs |-> SubSeq(d_sharedpreferenceframes, 1, p),
   kvs   |-> SubSeq(d_keyvalueframes, 1, k),
   att   |-> DataUpTo("attachment", PartRows, d_attachments, d),
   stk   |-> DataUpTo("sticker", StickerRows, d_stickers, d),
   ava   |-> AvatarsUpTo(a),
   end   |-> e]

(* Nothing has been written yet.                                                   *)
LEMMA UpToNothing == UpTo(0, 0, 0, 0, 0, "none") = Nothing
<1>1. \A s : SubSeq(s, 1, 0) = <<>>
  OBVIOUS
<1>2. \A s, rows, map : Places(s, rows, map, 0) = {}
  BY DEF Places
<1>3. \A s, rows, map : DataUpTo(s, rows, map, 0) = {}
  BY <1>2 DEF DataUpTo
<1>4. AvatarsUpTo(0) = {}
  BY DEF AvatarsUpTo
<1> QED BY <1>1, <1>3, <1>4 DEF UpTo, Nothing

(* One more of a list.                                                             *)
LEMMA OneMore ==
  ASSUME NEW S, NEW s \in Seq(S), NEW n \in 1 .. Len(s)
  PROVE  /\ SubSeq(s, 1, n) = Append(SubSeq(s, 1, n - 1), s[n])
         /\ DOMAIN SubSeq(s, 1, n - 1) = 1 .. n - 1
         /\ \A i \in 1 .. n - 1 : SubSeq(s, 1, n - 1)[i] = s[i]
<1> DEFINE t == SubSeq(s, 1, n)
           u == SubSeq(s, 1, n - 1)
           x == s[n]
           v == Append(u, x)
<1>1. Len(s) \in Nat /\ n \in Nat /\ n - 1 \in Nat /\ \A i \in 1 .. n : s[i] \in S
  BY LenProperties, ElementOfSeq
<1>2. t \in Seq(S) /\ Len(t) = n /\ \A i \in 1 .. n : t[i] = s[i]
  BY <1>1, SubSeqProperties
<1>3. u \in Seq(S) /\ Len(u) = n - 1 /\ \A i \in 1 .. n - 1 : u[i] = s[i]
  BY <1>1, SubSeqProperties
<1>4. x \in S
  BY <1>1
<1> HIDE DEF t, u, x
<1>5. v \in Seq(S) /\ Len(v) = n /\ v[n] = x /\ \A i \in 1 .. n - 1 : v[i] = u[i]
  BY <1>1, <1>3, <1>4, AppendProperties
<1> HIDE DEF v
<1>6. \A i \in 1 .. n : t[i] = v[i]
  <2>1. ASSUME NEW i \in 1 .. n, i # n PROVE t[i] = v[i]
    <3>1. i \in 1 .. n - 1
      BY <1>1, <2>1
    <3> QED BY <1>2, <1>3, <1>5, <3>1
  <2>2. t[n] = v[n]
    BY <1>1, <1>2, <1>5 DEF x
  <2> QED BY <2>1, <2>2
<1>7. t = v
  BY <1>1, <1>2, <1>5, <1>6, SeqEqual
<1>8. DOMAIN u = 1 .. n - 1
  BY <1>1, <1>3, LenProperties
<1> QED BY <1>3, <1>7, <1>8 DEF t, u, v, x

(* The fields a frame of some type has no part in.                                 *)
LEMMA AddElsewhere ==
  ASSUME NEW f
  PROVE  /\ \A l : f.type # "SQLSTATEMENT" => AddRow(l, f) = l
         /\ \A l, t : f.type # t => AddId(l, f, t) = l
         /\ \A s, t : f.type # t => AddOnce(s, f, t) = s
BY DEF AddRow, AddId, AddOnce

(* A frame is written with the right size, and is the same frame otherwise.        *)
LEMMA SizedIs ==
  ASSUME NEW f \in Frames(Ids)
  PROVE  Sized(f) \in Frames(Ids) /\ Sized(f).type = f.type /\ Sized(f).id = f.id
<1>1. CASE f.size = "none"
  BY <1>1 DEF Sized
<1>2. CASE f.size # "none"
  BY <1>2, SizedType
<1> QED BY <1>1, <1>2

AddsTo(f, r, d, p, k, a, e, r2, d2, p2, k2, a2, e2) ==
  /\ AddRow(SubSeq(d_database, 1, r), f) = SubSeq(d_database, 1, r2)
  /\ AddId(SubSeq(d_sharedpreferenceframes, 1, p), f, "SHAREDPREFERENCE")
       = SubSeq(d_sharedpreferenceframes, 1, p2)
  /\ AddId(SubSeq(d_keyvalueframes, 1, k), f, "KEYVALUE") = SubSeq(d_keyvalueframes, 1, k2)
  /\ AddOnce(DataUpTo("attachment", PartRows, d_attachments, d), f, "ATTACHMENT")
       = DataUpTo("attachment", PartRows, d_attachments, d2)
  /\ AddOnce(DataUpTo("sticker", StickerRows, d_stickers, d), f, "STICKER")
       = DataUpTo("sticker", StickerRows, d_stickers, d2)
  /\ (IF f.type = "AVATAR" THEN AvatarsUpTo(a) \cup {f} ELSE AvatarsUpTo(a)) = AvatarsUpTo(a2)
  /\ (IF f.type = "END" THEN "read" ELSE e) = e2

(* A frame adds what each of the lists has more.                                   *)
LEMMA UpToAdd ==
  ASSUME NEW f, NEW r, NEW d, NEW p, NEW k, NEW a, NEW e,
         NEW r2, NEW d2, NEW p2, NEW k2, NEW a2, NEW e2,
         AddsTo(f, r, d, p, k, a, e, r2, d2, p2, k2, a2, e2)
  PROVE  Add(UpTo(r, d, p, k, a, e), f) = UpTo(r2, d2, p2, k2, a2, e2)
<1> DEFINE c == UpTo(r, d, p, k, a, e)
<1>1. /\ c.db = SubSeq(d_database, 1, r) /\ c.prefs = SubSeq(d_sharedpreferenceframes, 1, p)
      /\ c.kvs = SubSeq(d_keyvalueframes, 1, k)
      /\ c.att = DataUpTo("attachment", PartRows, d_attachments, d)
      /\ c.stk = DataUpTo("sticker", StickerRows, d_stickers, d)
      /\ c.ava = AvatarsUpTo(a) /\ c.end = e
  BY DEF UpTo
<1> HIDE DEF c
<1>2. Add(c, f) = UpTo(r2, d2, p2, k2, a2, e2)
  BY <1>1, Zenon DEF Add, UpTo, AddsTo
<1> QED BY <1>2 DEF c

(* A statement, of a row that was not written before.                              *)
LEMMA RowAdds ==
  ASSUME ContentOK, RowsDistinct, NEW n \in 1 .. Len(d_database),
         NEW d, NEW p, NEW k, NEW a, NEW e
  PROVE  Add(UpTo(n - 1, d, p, k, a, e), Plain("SQLSTATEMENT", d_database[n])) = UpTo(n, d, p, k, a, e)
<1> DEFINE f == Plain("SQLSTATEMENT", d_database[n])
           u == SubSeq(d_database, 1, n - 1)
<1>1. d_database \in Seq(Ids)
  BY DEF ContentOK
<1>2. /\ SubSeq(d_database, 1, n) = Append(u, d_database[n])
      /\ DOMAIN u = 1 .. n - 1 /\ \A i \in 1 .. n - 1 : u[i] = d_database[i]
  BY <1>1, OneMore
<1>3. f.type = "SQLSTATEMENT" /\ f.id = d_database[n]
  BY DEF Plain
<1>4. \A i \in DOMAIN u : u[i] # f.id
  <2>1. ASSUME NEW i \in 1 .. n - 1 PROVE d_database[i] # d_database[n]
    <3>1. Len(d_database) \in Nat /\ DOMAIN d_database = 1 .. Len(d_database)
      BY <1>1, LenProperties
    <3>2. i \in DOMAIN d_database /\ n \in DOMAIN d_database /\ i # n
      BY <3>1
    <3> QED BY <3>2 DEF RowsDistinct
  <2> QED BY <1>2, <1>3, <2>1
<1>5. AddRow(u, f) = SubSeq(d_database, 1, n)
  BY <1>2, <1>3, <1>4 DEF AddRow
<1> HIDE DEF f
<1>6. f.type = "SQLSTATEMENT"
  BY <1>3
<1>9. AddsTo(f, n - 1, d, p, k, a, e, n, d, p, k, a, e)
  <2>1. /\ f.type # "SHAREDPREFERENCE" /\ f.type # "KEYVALUE" /\ f.type # "ATTACHMENT"
        /\ f.type # "STICKER" /\ f.type # "AVATAR" /\ f.type # "END"
    BY <1>6
  <2>2. AddRow(SubSeq(d_database, 1, n - 1), f) = SubSeq(d_database, 1, n)
    BY <1>5
  <2> QED BY ONLY <2>1, <2>2, AddElsewhere, Zenon DEF AddsTo
<1> QED BY <1>9, UpToAdd DEF f

(* A preference, and a key value.                                                  *)
LEMMA SharedPrefAdds ==
  ASSUME ContentOK, NEW n \in 1 .. Len(d_sharedpreferenceframes),
         NEW r, NEW d, NEW k, NEW a, NEW e
  PROVE  Add(UpTo(r, d, n - 1, k, a, e), Plain("SHAREDPREFERENCE", d_sharedpreferenceframes[n]))
           = UpTo(r, d, n, k, a, e)
<1> DEFINE f == Plain("SHAREDPREFERENCE", d_sharedpreferenceframes[n])
<1>1. SubSeq(d_sharedpreferenceframes, 1, n)
        = Append(SubSeq(d_sharedpreferenceframes, 1, n - 1), d_sharedpreferenceframes[n])
  BY OneMore DEF ContentOK
<1>2. f.type = "SHAREDPREFERENCE" /\ f.id = d_sharedpreferenceframes[n]
  BY DEF Plain
<1>3. AddId(SubSeq(d_sharedpreferenceframes, 1, n - 1), f, "SHAREDPREFERENCE")
        = SubSeq(d_sharedpreferenceframes, 1, n)
  BY <1>1, <1>2 DEF AddId
<1> HIDE DEF f
<1>9. AddsTo(f, r, d, n - 1, k, a, e, r, d, n, k, a, e)
  BY <1>2, <1>3, AddElsewhere DEF AddsTo
<1> QED BY <1>9, UpToAdd DEF f

(* A key value.                                                                    *)
LEMMA KeyValueAdds ==
  ASSUME ContentOK, NEW n \in 1 .. Len(d_keyvalueframes),
         NEW r, NEW d, NEW p, NEW a, NEW e
  PROVE  Add(UpTo(r, d, p, n - 1, a, e), Plain("KEYVALUE", d_keyvalueframes[n])) = UpTo(r, d, p, n, a, e)
<1> DEFINE f == Plain("KEYVALUE", d_keyvalueframes[n])
<1>1. SubSeq(d_keyvalueframes, 1, n) = Append(SubSeq(d_keyvalueframes, 1, n - 1), d_keyvalueframes[n])
  BY OneMore DEF ContentOK
<1>2. f.type = "KEYVALUE" /\ f.id = d_keyvalueframes[n]
  BY DEF Plain
<1>3. AddId(SubSeq(d_keyvalueframes, 1, n - 1), f, "KEYVALUE") = SubSeq(d_keyvalueframes, 1, n)
  BY <1>1, <1>2 DEF AddId
<1> HIDE DEF f
<1>9. AddsTo(f, r, d, p, n - 1, a, e, r, d, p, n, a, e)
  BY <1>2, <1>3, AddElsewhere DEF AddsTo
<1> QED BY <1>9, UpToAdd DEF f

(* The end frame, and the frames that only begin a file.                           *)
LEMMA EndAdds ==
  ASSUME NEW r, NEW d, NEW p, NEW k, NEW a, NEW e
  PROVE  Add(UpTo(r, d, p, k, a, e), Plain("END", AnyId)) = UpTo(r, d, p, k, a, "read")
<1> DEFINE f == Plain("END", AnyId)
<1>1. f.type = "END"
  BY DEF Plain
<1> HIDE DEF f
<1>9. AddsTo(f, r, d, p, k, a, e, r, d, p, k, a, "read")
  BY <1>1, AddElsewhere DEF AddsTo
<1> QED BY <1>9, UpToAdd DEF f

(* The header and the version, which are not kept.                                 *)
LEMMA BeginningAdds ==
  ASSUME NEW f, f.type \in {"HEADER", "DATABASEVERSION"}, NEW r, NEW d, NEW p, NEW k, NEW a, NEW e
  PROVE  Add(UpTo(r, d, p, k, a, e), f) = UpTo(r, d, p, k, a, e)
<1>9. AddsTo(f, r, d, p, k, a, e, r, d, p, k, a, e)
  BY AddElsewhere DEF AddsTo
<1> QED BY <1>9, UpToAdd

(* One more place of a table, where its data was not left out or there is none.    *)
LEMMA OneMorePlace ==
  ASSUME NEW s, NEW rows, NEW map, NEW n \in Nat \ {0}
  PROVE  DataUpTo(s, rows, map, n) =
           IF d_database[n] \in rows \cap DOMAIN map /\ <<s, n>> \notin skipped
           THEN DataUpTo(s, rows, map, n - 1) \cup {Sized(map[d_database[n]].frame)}
           ELSE DataUpTo(s, rows, map, n - 1)
<1>1. 1 .. n = (1 .. n - 1) \cup {n}
  OBVIOUS
<1>2. Places(s, rows, map, n) =
        IF d_database[n] \in rows \cap DOMAIN map /\ <<s, n>> \notin skipped
        THEN Places(s, rows, map, n - 1) \cup {n} ELSE Places(s, rows, map, n - 1)
  BY <1>1, Zenon DEF Places
<1>3. CASE d_database[n] \in rows \cap DOMAIN map /\ <<s, n>> \notin skipped
  <2>1. Places(s, rows, map, n) = Places(s, rows, map, n - 1) \cup {n}
    BY <1>2, <1>3
  <2> QED BY <1>3, <2>1 DEF DataUpTo
<1>4. CASE ~(d_database[n] \in rows \cap DOMAIN map /\ <<s, n>> \notin skipped)
  <2>1. Places(s, rows, map, n) = Places(s, rows, map, n - 1)
    BY <1>2, <1>4
  <2> QED BY <1>4, <2>1 DEF DataUpTo
<1> QED BY <1>3, <1>4

(* The data of a row is of an id that no row before it has.                        *)
LEMMA DataIsNew ==
  ASSUME ContentOK, RowsDistinct, NEW s, NEW rows, NEW map, NEW t, KeptMap(map, t), ById(map),
         NEW n \in 1 .. Len(d_database), d_database[n] \in DOMAIN map
  PROVE  AddOnce(DataUpTo(s, rows, map, n - 1), Sized(map[d_database[n]].frame), t)
           = DataUpTo(s, rows, map, n - 1) \cup {Sized(map[d_database[n]].frame)}
<1> DEFINE f == Sized(map[d_database[n]].frame)
<1>1. f.type = t /\ f.id = d_database[n]
  <2>1. map[d_database[n]].frame \in Frames(Ids) /\ map[d_database[n]].frame.type = t
    BY KeptMapType
  <2> QED BY <2>1, SizedIs DEF ById
<1>2. ASSUME NEW g \in DataUpTo(s, rows, map, n - 1) PROVE g.id # f.id
  <2>1. PICK i \in Places(s, rows, map, n - 1) : g = Sized(map[d_database[i]].frame)
    BY DEF DataUpTo
  <2>2. i \in 1 .. n - 1 /\ d_database[i] \in DOMAIN map
    BY <2>1 DEF Places
  <2>3. map[d_database[i]].frame \in Frames(Ids)
    BY <2>2, KeptMapType
  <2>4. g.id = d_database[i]
    BY <2>1, <2>2, <2>3, SizedIs DEF ById
  <2>5. Len(d_database) \in Nat /\ DOMAIN d_database = 1 .. Len(d_database)
    BY LenProperties DEF ContentOK
  <2>6. i \in DOMAIN d_database /\ n \in DOMAIN d_database /\ i # n
    BY <2>2, <2>5
  <2> QED BY <1>1, <2>4, <2>6 DEF RowsDistinct
<1> HIDE DEF f
<1>3. AddOnce(DataUpTo(s, rows, map, n - 1), f, t) = DataUpTo(s, rows, map, n - 1) \cup {f}
  BY <1>1, <1>2 DEF AddOnce
<1> QED BY <1>3 DEF f

(* The attachment behind a row, which no row before it had.                        *)
LEMMA AttachmentAdds ==
  ASSUME ContentOK, RowsDistinct, KeyedById, NEW n \in 1 .. Len(d_database),
         d_database[n] \in PartRows, d_database[n] \in DOMAIN d_attachments,
         <<"attachment", n>> \notin skipped,
         NEW r, NEW p, NEW k, NEW a, NEW e
  PROVE  Add(UpTo(r, n - 1, p, k, a, e), Sized(d_attachments[d_database[n]].frame))
           = UpTo(r, n, p, k, a, e)
<1> DEFINE f == Sized(d_attachments[d_database[n]].frame)
<1>1. KeptMap(d_attachments, "ATTACHMENT") /\ ById(d_attachments) 
  BY DEF ContentOK, KeyedById
<1>n. n \in Nat \ {0}
  BY LenProperties DEF ContentOK
<1>2. f.type = "ATTACHMENT"
  BY <1>1, KeptMapType, SizedIs
<1>3. AddOnce(DataUpTo("attachment", PartRows, d_attachments, n - 1), f, "ATTACHMENT")
        = DataUpTo("attachment", PartRows, d_attachments, n)
  <2>1. DataUpTo("attachment", PartRows, d_attachments, n) =
          IF d_database[n] \in PartRows \cap DOMAIN d_attachments /\ <<"attachment", n>> \notin skipped
          THEN DataUpTo("attachment", PartRows, d_attachments, n - 1) \cup {f}
          ELSE DataUpTo("attachment", PartRows, d_attachments, n - 1)
    BY ONLY <1>n, OneMorePlace, Zenon
  <2>2. AddOnce(DataUpTo("attachment", PartRows, d_attachments, n - 1), f, "ATTACHMENT")
          = DataUpTo("attachment", PartRows, d_attachments, n - 1) \cup {f}
    BY ONLY <1>1, ContentOK, RowsDistinct, d_database[n] \in DOMAIN d_attachments, n \in 1 .. Len(d_database), DataIsNew
  <2> HIDE DEF f
  <2> QED BY <2>1, <2>2
<1>4. d_database[n] \notin StickerRows
  BY ExportAssumption
<1>5. DataUpTo("sticker", StickerRows, d_stickers, n - 1) = DataUpTo("sticker", StickerRows, d_stickers, n)
  <2>1. DataUpTo("sticker", StickerRows, d_stickers, n) =
          IF d_database[n] \in StickerRows \cap DOMAIN d_stickers /\ <<"sticker", n>> \notin skipped
          THEN DataUpTo("sticker", StickerRows, d_stickers, n - 1) \cup {Sized(d_stickers[d_database[n]].frame)}
          ELSE DataUpTo("sticker", StickerRows, d_stickers, n - 1)
    BY ONLY <1>n, OneMorePlace, Zenon
  <2> QED BY <1>4, <2>1
<1> HIDE DEF f
<1>9. AddsTo(f, r, n - 1, p, k, a, e, r, n, p, k, a, e)
  BY <1>2, <1>3, <1>5, AddElsewhere DEF AddsTo
<1> QED BY <1>9, UpToAdd DEF f

(* The sticker behind a row.                                                       *)
LEMMA StickerAdds ==
  ASSUME ContentOK, RowsDistinct, KeyedById, NEW n \in 1 .. Len(d_database),
         d_database[n] \in StickerRows, d_database[n] \in DOMAIN d_stickers,
         <<"sticker", n>> \notin skipped,
         NEW r, NEW p, NEW k, NEW a, NEW e
  PROVE  Add(UpTo(r, n - 1, p, k, a, e), Sized(d_stickers[d_database[n]].frame))
           = UpTo(r, n, p, k, a, e)
<1> DEFINE f == Sized(d_stickers[d_database[n]].frame)
<1>1. KeptMap(d_stickers, "STICKER") /\ ById(d_stickers) 
  BY DEF ContentOK, KeyedById
<1>n. n \in Nat \ {0}
  BY LenProperties DEF ContentOK
<1>2. f.type = "STICKER"
  BY <1>1, KeptMapType, SizedIs
<1>3. AddOnce(DataUpTo("sticker", StickerRows, d_stickers, n - 1), f, "STICKER")
        = DataUpTo("sticker", StickerRows, d_stickers, n)
  <2>1. DataUpTo("sticker", StickerRows, d_stickers, n) =
          IF d_database[n] \in StickerRows \cap DOMAIN d_stickers /\ <<"sticker", n>> \notin skipped
          THEN DataUpTo("sticker", StickerRows, d_stickers, n - 1) \cup {f}
          ELSE DataUpTo("sticker", StickerRows, d_stickers, n - 1)
    BY ONLY <1>n, OneMorePlace, Zenon
  <2>2. AddOnce(DataUpTo("sticker", StickerRows, d_stickers, n - 1), f, "STICKER")
          = DataUpTo("sticker", StickerRows, d_stickers, n - 1) \cup {f}
    BY ONLY <1>1, ContentOK, RowsDistinct, d_database[n] \in DOMAIN d_stickers, n \in 1 .. Len(d_database), DataIsNew
  <2> HIDE DEF f
  <2> QED BY <2>1, <2>2
<1>4. d_database[n] \notin PartRows
  BY ExportAssumption
<1>5. DataUpTo("attachment", PartRows, d_attachments, n - 1) = DataUpTo("attachment", PartRows, d_attachments, n)
  <2>1. DataUpTo("attachment", PartRows, d_attachments, n) =
          IF d_database[n] \in PartRows \cap DOMAIN d_attachments /\ <<"attachment", n>> \notin skipped
          THEN DataUpTo("attachment", PartRows, d_attachments, n - 1) \cup {Sized(d_attachments[d_database[n]].frame)}
          ELSE DataUpTo("attachment", PartRows, d_attachments, n - 1)
    BY ONLY <1>n, OneMorePlace, Zenon
  <2> QED BY <1>4, <2>1
<1> HIDE DEF f
<1>9. AddsTo(f, r, n - 1, p, k, a, e, r, n, p, k, a, e)
  BY <1>2, <1>3, <1>5, AddElsewhere DEF AddsTo
<1> QED BY <1>9, UpToAdd DEF f

(* A row without data, or whose data was left out.                                 *)
LEMMA NoDataAdds ==
  ASSUME NEW n \in Nat \ {0},
         d_database[n] \in PartRows \cap DOMAIN d_attachments => <<"attachment", n>> \in skipped,
         d_database[n] \in StickerRows \cap DOMAIN d_stickers => <<"sticker", n>> \in skipped,
         NEW r, NEW p, NEW k, NEW a, NEW e
  PROVE  UpTo(r, n - 1, p, k, a, e) = UpTo(r, n, p, k, a, e)
<1>1. DataUpTo("sticker", StickerRows, d_stickers, n - 1) = DataUpTo("sticker", StickerRows, d_stickers, n)
  BY OneMorePlace
<1>2. DataUpTo("attachment", PartRows, d_attachments, n - 1) = DataUpTo("attachment", PartRows, d_attachments, n)
  BY OneMorePlace
<1> QED BY <1>1, <1>2 DEF UpTo

(* An avatar, written or left out.                                                 *)
LEMMA OneMoreAvatar ==
  ASSUME NEW n \in Nat \ {0}
  PROVE  AvatarsUpTo(n) = IF <<"avatars", n>> \notin skipped
                          THEN AvatarsUpTo(n - 1) \cup {Sized(d_avatars[n].frame)}
                          ELSE AvatarsUpTo(n - 1)
<1>1. 1 .. n = (1 .. n - 1) \cup {n}
  OBVIOUS
<1> DEFINE Q(m) == {i \in 1 .. m : <<"avatars", i>> \notin skipped}
<1>2. Q(n) = IF <<"avatars", n>> \notin skipped THEN Q(n - 1) \cup {n} ELSE Q(n - 1)
  BY <1>1, Zenon
<1>3. \A m : AvatarsUpTo(m) = {Sized(d_avatars[i].frame) : i \in Q(m)}
  BY DEF AvatarsUpTo
<1> HIDE DEF Q
<1>4. CASE <<"avatars", n>> \notin skipped
  <2>1. Q(n) = Q(n - 1) \cup {n}
    BY <1>2, <1>4
  <2> QED BY <1>3, <1>4, <2>1
<1>5. CASE <<"avatars", n>> \in skipped
  BY <1>2, <1>3, <1>5
<1> QED BY <1>4, <1>5

(* An avatar.                                                                      *)
LEMMA AvatarAdds ==
  ASSUME ContentOK, NEW n \in 1 .. Len(d_avatars), <<"avatars", n>> \notin skipped,
         NEW r, NEW d, NEW p, NEW k, NEW e
  PROVE  Add(UpTo(r, d, p, k, n - 1, e), Sized(d_avatars[n].frame)) = UpTo(r, d, p, k, n, e)
<1> DEFINE f == Sized(d_avatars[n].frame)
<1>1. d_avatars[n] \in KeptFrames("AVATAR") /\ n \in Nat \ {0}
  BY ElementOfSeq, LenProperties DEF ContentOK
<1>2. f.type = "AVATAR"
  BY <1>1, SizedIs DEF KeptFrames
<1>3. AvatarsUpTo(n - 1) \cup {f} = AvatarsUpTo(n)
  BY <1>1, OneMoreAvatar
<1> HIDE DEF f
<1>9. AddsTo(f, r, d, p, k, n - 1, e, r, d, p, k, n, e)
  BY <1>2, <1>3, AddElsewhere DEF AddsTo
<1> QED BY <1>9, UpToAdd DEF f

-----------------------------------------------------------------------------
(* What a step leaves of it *)

(* The data of as many places, but for those that were left out.                   *)
DataOf(db, sk, s, rows, map, n) ==
  {Sized(map[db[i]].frame) : i \in {j \in 1 .. n : db[j] \in rows \cap DOMAIN map /\ <<s, j>> \notin sk}}

(* What is cached of the data makes no difference.                                 *)
LEMMA SameData ==
  ASSUME NEW db, NEW s, NEW rows, NEW map, NEW map2,
         DOMAIN map2 = DOMAIN map, \A i \in DOMAIN map : map2[i].frame = map[i].frame,
         NEW sk, NEW sk2, NEW m, NEW n,
         \A i : i \in 1 .. m /\ <<s, i>> \notin sk2 <=> i \in 1 .. n /\ <<s, i>> \notin sk
  PROVE  DataOf(db, sk2, s, rows, map2, m) = DataOf(db, sk, s, rows, map, n)
<1> DEFINE P == {j \in 1 .. m : db[j] \in rows \cap DOMAIN map2 /\ <<s, j>> \notin sk2}
           Q == {j \in 1 .. n : db[j] \in rows \cap DOMAIN map /\ <<s, j>> \notin sk}
<1>1. P = Q
  OBVIOUS
<1>2. \A i \in P : db[i] \in DOMAIN map
  OBVIOUS
<1> HIDE DEF P, Q
<1>3. \A i \in P : map2[db[i]].frame = map[db[i]].frame
  BY <1>2
<1>4. {Sized(map2[db[i]].frame) : i \in P} = {Sized(map[db[i]].frame) : i \in Q}
  BY <1>1, <1>3
<1> QED BY <1>4 DEF DataOf, P, Q

(* The attachments that were written stay the same ones,                           *)
LEMMA AttachmentsStay ==
  ASSUME SameContent, NEW m, NEW n,
         \A i : i \in 1 .. m /\ <<"attachment", i>> \notin skipped'
                  <=> i \in 1 .. n /\ <<"attachment", i>> \notin skipped
  PROVE  DataUpTo("attachment", PartRows, d_attachments, m)'
           = DataUpTo("attachment", PartRows, d_attachments, n)
<1>1. /\ d_database' = d_database /\ DOMAIN d_attachments' = DOMAIN d_attachments
      /\ \A i \in DOMAIN d_attachments : d_attachments'[i].frame = d_attachments[i].frame
  BY DEF SameContent
<1>2. DataOf(d_database, skipped', "attachment", PartRows, d_attachments', m)
        = DataOf(d_database, skipped, "attachment", PartRows, d_attachments, n)
  <2>1. \A i : i \in 1 .. m /\ <<"attachment", i>> \notin skipped'
                 <=> i \in 1 .. n /\ <<"attachment", i>> \notin skipped
    OBVIOUS
  <2> QED BY ONLY <1>1, <2>1, SameData
<1>3. DataUpTo("attachment", PartRows, d_attachments, m)'
        = DataOf(d_database', skipped', "attachment", PartRows, d_attachments', m)
  BY DEF DataUpTo, Places, DataOf, Sized
<1>4. DataUpTo("attachment", PartRows, d_attachments, n)
        = DataOf(d_database, skipped, "attachment", PartRows, d_attachments, n)
  BY DEF DataUpTo, Places, DataOf
<1> QED BY <1>1, <1>2, <1>3, <1>4

(* the stickers,                                                                   *)
LEMMA StickersStay ==
  ASSUME SameContent, NEW m, NEW n,
         \A i : i \in 1 .. m /\ <<"sticker", i>> \notin skipped'
                  <=> i \in 1 .. n /\ <<"sticker", i>> \notin skipped
  PROVE  DataUpTo("sticker", StickerRows, d_stickers, m)'
           = DataUpTo("sticker", StickerRows, d_stickers, n)
<1>1. /\ d_database' = d_database /\ DOMAIN d_stickers' = DOMAIN d_stickers
      /\ \A i \in DOMAIN d_stickers : d_stickers'[i].frame = d_stickers[i].frame
  BY DEF SameContent
<1>2. DataOf(d_database, skipped', "sticker", StickerRows, d_stickers', m)
        = DataOf(d_database, skipped, "sticker", StickerRows, d_stickers, n)
  <2>1. \A i : i \in 1 .. m /\ <<"sticker", i>> \notin skipped'
                 <=> i \in 1 .. n /\ <<"sticker", i>> \notin skipped
    OBVIOUS
  <2> QED BY ONLY <1>1, <2>1, SameData
<1>3. DataUpTo("sticker", StickerRows, d_stickers, m)'
        = DataOf(d_database', skipped', "sticker", StickerRows, d_stickers', m)
  BY DEF DataUpTo, Places, DataOf, Sized
<1>4. DataUpTo("sticker", StickerRows, d_stickers, n)
        = DataOf(d_database, skipped, "sticker", StickerRows, d_stickers, n)
  BY DEF DataUpTo, Places, DataOf
<1> QED BY <1>1, <1>2, <1>3, <1>4

(* and the avatars.                                                                *)
LEMMA AvatarsStay ==
  ASSUME SameContent, ContentOK, NEW m, NEW n \in 0 .. Len(d_avatars),
         \A i : i \in 1 .. m /\ <<"avatars", i>> \notin skipped'
                  <=> i \in 1 .. n /\ <<"avatars", i>> \notin skipped
  PROVE  AvatarsUpTo(m)' = AvatarsUpTo(n)
<1> DEFINE P == {j \in 1 .. m : <<"avatars", j>> \notin skipped'}
           Q == {j \in 1 .. n : <<"avatars", j>> \notin skipped}
<1>0. Len(d_avatars) \in Nat
  BY LenProperties DEF ContentOK
<1>1. P = Q /\ Q \subseteq 1 .. Len(d_avatars)
  BY <1>0
<1>2. \A i \in 1 .. Len(d_avatars) : d_avatars'[i].frame = d_avatars[i].frame
  BY DEF SameContent
<1>3. AvatarsUpTo(n) = {Sized(d_avatars[i].frame) : i \in Q}
  BY DEF AvatarsUpTo
<1>4. AvatarsUpTo(m)' = {Sized(d_avatars'[i].frame) : i \in P}
  BY DEF AvatarsUpTo, Sized
<1> HIDE DEF P, Q
<1>5. {Sized(d_avatars'[i].frame) : i \in P} = {Sized(d_avatars[i].frame) : i \in Q}
  BY <1>1, <1>2
<1> QED BY <1>3, <1>4, <1>5

(* So does all that was written.                                                   *)
LEMMA UpToIs ==
  ASSUME SameContent, NEW d, NEW d2, NEW a, NEW a2,
         DataUpTo("attachment", PartRows, d_attachments, d)' = DataUpTo("attachment", PartRows, d_attachments, d2),
         DataUpTo("sticker", StickerRows, d_stickers, d)' = DataUpTo("sticker", StickerRows, d_stickers, d2),
         AvatarsUpTo(a)' = AvatarsUpTo(a2)
  PROVE  \A r, p, k, e : UpTo(r, d, p, k, a, e)' = UpTo(r, d2, p, k, a2, e)
<1>1. UNCHANGED <<d_database, d_sharedpreferenceframes, d_keyvalueframes>>
  BY DEF SameContent
<1> QED BY <1>1, Zenon DEF UpTo

(* Nothing is left out.                                                            *)
LEMMA UpToStays ==
  ASSUME SameContent, ContentOK, skipped' = skipped, NEW d, NEW a \in 0 .. Len(d_avatars)
  PROVE  \A r, p, k, e : UpTo(r, d, p, k, a, e)' = UpTo(r, d, p, k, a, e)
<1>1. DataUpTo("attachment", PartRows, d_attachments, d)' = DataUpTo("attachment", PartRows, d_attachments, d)
  BY AttachmentsStay
<1>2. DataUpTo("sticker", StickerRows, d_stickers, d)' = DataUpTo("sticker", StickerRows, d_stickers, d)
  BY StickersStay
<1>3. AvatarsUpTo(a)' = AvatarsUpTo(a)
  BY AvatarsStay
<1> QED BY <1>1, <1>2, <1>3, UpToIs

(* The data of a row was left out, or an avatar.                                   *)
LEMMA UpToLeftOut ==
  ASSUME SameContent, ContentOK, NEW n \in Nat \ {0}, NEW s \in {"attachment", "sticker"},
         skipped' = skipped \cup {<<s, n>>},
         s = "attachment" => d_database[n] \in PartRows,
         s = "sticker" => d_database[n] \in StickerRows
  PROVE  \A r, p, k, e : UpTo(r, n, p, k, 0, e)' = UpTo(r, n - 1, p, k, 0, e)
<1>0. d_database[n] \notin PartRows \/ d_database[n] \notin StickerRows
  BY ExportAssumption
<1>1. DataUpTo("attachment", PartRows, d_attachments, n)' = DataUpTo("attachment", PartRows, d_attachments, n - 1)
  <2>1. CASE s = "attachment"
    <3>1. \A i : i \in 1 .. n /\ <<"attachment", i>> \notin skipped'
                  <=> i \in 1 .. n - 1 /\ <<"attachment", i>> \notin skipped
      BY <2>1
    <3>2. n - 1 \in Nat
      OBVIOUS
    <3> QED BY <3>1, <3>2, AttachmentsStay
  <2>2. CASE s = "sticker"
    <3>1. \A i : <<"attachment", i>> \notin skipped' <=> <<"attachment", i>> \notin skipped
      BY <2>2
    <3>2. DataUpTo("attachment", PartRows, d_attachments, n)' = DataUpTo("attachment", PartRows, d_attachments, n)
      BY <3>1, AttachmentsStay
    <3>3. d_database[n] \notin PartRows
      BY <1>0, <2>2
    <3>4. DataUpTo("attachment", PartRows, d_attachments, n) =
            IF d_database[n] \in PartRows \cap DOMAIN d_attachments /\ <<"attachment", n>> \notin skipped
            THEN DataUpTo("attachment", PartRows, d_attachments, n - 1) \cup {Sized(d_attachments[d_database[n]].frame)}
            ELSE DataUpTo("attachment", PartRows, d_attachments, n - 1)
      BY ONLY n \in Nat \ {0}, OneMorePlace, Zenon
    <3> QED BY <3>2, <3>3, <3>4
  <2> QED BY <2>1, <2>2
<1>2. DataUpTo("sticker", StickerRows, d_stickers, n)' = DataUpTo("sticker", StickerRows, d_stickers, n - 1)
  <2>1. CASE s = "sticker"
    <3>1. \A i : i \in 1 .. n /\ <<"sticker", i>> \notin skipped'
                  <=> i \in 1 .. n - 1 /\ <<"sticker", i>> \notin skipped
      BY <2>1
    <3>2. n - 1 \in Nat
      OBVIOUS
    <3> QED BY <3>1, <3>2, StickersStay
  <2>2. CASE s = "attachment"
    <3>1. \A i : <<"sticker", i>> \notin skipped' <=> <<"sticker", i>> \notin skipped
      BY <2>2
    <3>2. DataUpTo("sticker", StickerRows, d_stickers, n)' = DataUpTo("sticker", StickerRows, d_stickers, n)
      BY <3>1, StickersStay
    <3>3. d_database[n] \notin StickerRows
      BY <1>0, <2>2
    <3>4. DataUpTo("sticker", StickerRows, d_stickers, n) =
            IF d_database[n] \in StickerRows \cap DOMAIN d_stickers /\ <<"sticker", n>> \notin skipped
            THEN DataUpTo("sticker", StickerRows, d_stickers, n - 1) \cup {Sized(d_stickers[d_database[n]].frame)}
            ELSE DataUpTo("sticker", StickerRows, d_stickers, n - 1)
      BY ONLY n \in Nat \ {0}, OneMorePlace, Zenon
    <3> QED BY <3>2, <3>3, <3>4
  <2> QED BY <2>1, <2>2
<1>3. AvatarsUpTo(0)' = AvatarsUpTo(0)
  <2>1. \A i : i \in 1 .. 0 /\ <<"avatars", i>> \notin skipped' <=> i \in 1 .. 0 /\ <<"avatars", i>> \notin skipped
    OBVIOUS
  <2>2. 0 \in 0 .. Len(d_avatars)
    BY LenProperties DEF ContentOK
  <2> QED BY <2>1, <2>2, AvatarsStay
<1> QED BY <1>1, <1>2, <1>3, UpToIs

(* An avatar was left out.                                                         *)
LEMMA UpToAvatarLeftOut ==
  ASSUME SameContent, ContentOK, NEW n \in 1 .. Len(d_avatars), skipped' = skipped \cup {<<"avatars", n>>},
         NEW d
  PROVE  \A r, p, k, e : UpTo(r, d, p, k, n, e)' = UpTo(r, d, p, k, n - 1, e)
<1>1. DataUpTo("attachment", PartRows, d_attachments, d)' = DataUpTo("attachment", PartRows, d_attachments, d)
  <2>1. \A i : <<"attachment", i>> \notin skipped' <=> <<"attachment", i>> \notin skipped
    OBVIOUS
  <2> QED BY <2>1, AttachmentsStay
<1>2. DataUpTo("sticker", StickerRows, d_stickers, d)' = DataUpTo("sticker", StickerRows, d_stickers, d)
  <2>1. \A i : <<"sticker", i>> \notin skipped' <=> <<"sticker", i>> \notin skipped
    OBVIOUS
  <2> QED BY <2>1, StickersStay
<1>3. AvatarsUpTo(n)' = AvatarsUpTo(n - 1)
  <2>0. Len(d_avatars) \in Nat
    BY LenProperties DEF ContentOK
  <2>1. \A i : i \in 1 .. n /\ <<"avatars", i>> \notin skipped'
                 <=> i \in 1 .. n - 1 /\ <<"avatars", i>> \notin skipped
    BY <2>0
  <2>2. n - 1 \in 0 .. Len(d_avatars)
    BY <2>0
  <2> QED BY <2>1, <2>2, AvatarsStay
<1> QED BY <1>1, <1>2, <1>3, UpToIs
-----------------------------------------------------------------------------
(* What is written adds to it *)

Known(blocks) == \A k \in 1 .. Len(blocks) : Instantiates(blocks[k].frame)

(* Nothing is written that could not be told apart by its type.                    *)
LEMMA KnownAppend ==
  ASSUME NEW s \in Seq(Blocks(Ids)), Known(s), NEW b \in Blocks(Ids), Instantiates(b.frame)
  PROVE  Known(Append(s, b))
<1> DEFINE t == Append(s, b)
           n == Len(s)
<1>1. n \in Nat /\ Len(t) = n + 1 /\ t[n + 1] = b /\ \A k \in 1 .. n : t[k] = s[k]
  BY LenProperties, AppendProperties
<1>2. \A k \in 1 .. n : Instantiates(s[k].frame)
  BY DEF Known
<1> HIDE DEF t, n
<1>3. ASSUME NEW k \in 1 .. Len(t) PROVE Instantiates(t[k].frame)
  BY <1>1, <1>2
<1> QED BY <1>3 DEF Known, t

(* A frame without data.                                                           *)
LEMMA LoadedFrame ==
  ASSUME OutputOK, Known(out), NEW f \in Frames(Ids), Instantiates(f), EncryptFrame(f)
  PROVE  LoadedBy(out') = Add(LoadedBy(out), f) /\ Known(out')
<1>1. out \in Seq(Blocks(Ids)) /\ e_counter \in Nat /\ out' = Append(out, Block("frame", f, e_counter))
  BY DEF OutputOK, EncryptFrame
<1> DEFINE b == Block("frame", f, e_counter)
<1>2. b \in Blocks(Ids) /\ b.kind = "frame" /\ b.frame = f
  BY <1>1, BlockType
<1>3. out' = Append(out, b)
  BY <1>1
<1> HIDE DEF b
<1>4. LoadedBy(out') = AddBlock(LoadedBy(out), b)
  BY <1>1, <1>2, <1>3, LoadedAppend
<1>5. Known(out')
  BY <1>1, <1>2, <1>3, KnownAppend
<1> QED BY <1>2, <1>4, <1>5 DEF AddBlock

(* A frame and its data.                                                           *)
LEMMA LoadedWithData ==
  ASSUME OutputOK, Known(out), NEW f \in Frames(Ids), Instantiates(f),
         NEW data, EncryptWithAttachment(f, data)
  PROVE  LoadedBy(out') = Add(LoadedBy(out), Sized(f)) /\ Known(out')
<1> DEFINE g == Sized(f)
           a == Block("frame", g, e_counter)
           b == Block("data", g, e_counter + 1)
           s == Append(out, a)
<1>1. out \in Seq(Blocks(Ids)) /\ e_counter \in Nat /\ e_counter + 1 \in Nat
  BY DEF OutputOK
<1>2. g \in Frames(Ids) /\ Instantiates(g)
  BY SizedIs DEF Instantiates
<1>3. /\ a \in Blocks(Ids) /\ a.kind = "frame" /\ a.frame = g
      /\ b \in Blocks(Ids) /\ b.kind = "data" /\ b.frame = g
  BY <1>1, <1>2, BlockType
<1>4. out' = out \o <<a, b>>
  BY Zenon DEF EncryptWithAttachment
<1> HIDE DEF a, b, g
<1>5. out' = Append(s, b) /\ s \in Seq(Blocks(Ids))
  BY <1>1, <1>3, <1>4
<1>6. LoadedBy(s) = AddBlock(LoadedBy(out), a) /\ Known(s)
  BY <1>1, <1>2, <1>3, LoadedAppend, KnownAppend
<1> HIDE DEF s
<1>7. LoadedBy(out') = AddBlock(LoadedBy(s), b) /\ Known(out')
  BY <1>2, <1>3, <1>5, <1>6, LoadedAppend, KnownAppend
<1>8. LoadedBy(out') = Add(LoadedBy(out), g)
  BY <1>3, <1>6, <1>7 DEF AddBlock
<1> QED BY <1>7, <1>8 DEF g

(* What is kept of a frame is written, or left out at its place.                   *)
LEMMA LoadedKept ==
  ASSUME OutputOK, Known(out), NEW t \in WithAttachment, NEW k \in KeptFrames(t), NEW reading,
         Writes(k, reading)
  PROVE  /\ \/ LoadedBy(out') = Add(LoadedBy(out), Sized(k.frame)) /\ skipped' = skipped
            \/ out' = out /\ skipped' = skipped \cup {<<stage, next>>}
         /\ Known(out')
<1>1. k.frame \in Frames(Ids) /\ Instantiates(k.frame)
  BY DEF KeptFrames, Instantiates, WithAttachment
<1>2. CASE WritesPlain(k)
  <2>1. EncryptFrame(k.frame) /\ Sized(k.frame) = k.frame /\ skipped' = skipped
    BY <1>2 DEF WritesPlain, Sized
  <2> QED BY <1>1, <2>1, LoadedFrame
<1>3. CASE WritesData(k, reading)
  <2>1. EncryptWithAttachment(k.frame, reading.data) /\ skipped' = skipped
    BY <1>3 DEF WritesData
  <2> QED BY <1>1, <2>1, LoadedWithData
<1>4. CASE Skips(k, reading)
  BY <1>4 DEF Skips, encryptorVars
<1> QED BY <1>2, <1>3, <1>4 DEF Writes

(* What is written without data is a frame of a known type.                        *)
LEMMA PlainIs ==
  ASSUME NEW t \in FRAMETYPE \ {"UNKNOWN"}, NEW id \in Ids
  PROVE  Plain(t, id) \in Frames(Ids) /\ Instantiates(Plain(t, id))
BY PlainType DEF Instantiates

-----------------------------------------------------------------------------
(* Where the export stands *)

Rows == Len(d_database)
Prefs == Len(d_sharedpreferenceframes)
Keys == Len(d_keyvalueframes)

(* What a load of the blocks written so far would put together.                    *)
Written ==
  CASE stage = "version"     -> UpTo(0, 0, 0, 0, 0, "none")
    [] stage = "rows"        -> UpTo(next - 1, next - 1, 0, 0, 0, "none")
    [] stage \in {"attachment", "sticker"} -> UpTo(next, next - 1, 0, 0, 0, "none")
    [] stage = "sharedprefs" -> UpTo(Rows, Rows, next - 1, 0, 0, "none")
    [] stage = "keyvalues"   -> UpTo(Rows, Rows, Prefs, next - 1, 0, "none")
    [] stage = "avatars"     -> UpTo(Rows, Rows, Prefs, Keys, next - 1, "none")
    [] stage = "end"         -> UpTo(Rows, Rows, Prefs, Keys, Len(d_avatars), "none")
    [] OTHER                 -> UpTo(Rows, Rows, Prefs, Keys, Len(d_avatars), "read")

(* Only what the export has come past was left out.                                *)
Behind(s, n) == \A i \in Nat : <<s, i>> \in skipped => i < n

Ahead ==
  /\ stage = "version" => skipped = {}
  /\ stage \in {"rows", "attachment", "sticker"} => Behind("attachment", next) /\ Behind("sticker", next)
  /\ stage \in {"rows", "attachment", "sticker", "sharedprefs", "keyvalues"} => Behind("avatars", 0)
  /\ stage = "avatars" => Behind("avatars", next)

LoadableOutput ==
  /\ Known(out)
  /\ Ahead
  /\ Writing => LoadedBy(out) = Written
  /\ Ended(out) => stage = "written" /\ Intact(out)
  /\ Ended(out) /\ run = 1 => LoadedBy(out) = Written
  /\ stage = "written" /\ ~FlushMayFail => Ended(out)
  /\ stage = "written" /\ run = 1 => pc = "done"

(* The same of the next state, by the place it is at.                              *)
LEMMA WrittenNext ==
  ASSUME SameContent
  PROVE  /\ stage' = "version" => Written' = UpTo(0, 0, 0, 0, 0, "none")'
         /\ stage' = "rows" => Written' = UpTo(next - 1, next - 1, 0, 0, 0, "none")'
         /\ stage' \in {"attachment", "sticker"} => Written' = UpTo(next, next - 1, 0, 0, 0, "none")'
         /\ stage' = "sharedprefs" => Written' = UpTo(Rows, Rows, next - 1, 0, 0, "none")'
         /\ stage' = "keyvalues" => Written' = UpTo(Rows, Rows, Prefs, next - 1, 0, "none")'
         /\ stage' = "avatars" => Written' = UpTo(Rows, Rows, Prefs, Keys, next - 1, "none")'
         /\ stage' = "end" => Written' = UpTo(Rows, Rows, Prefs, Keys, Len(d_avatars), "none")'
         /\ stage' = "written" => Written' = UpTo(Rows, Rows, Prefs, Keys, Len(d_avatars), "read")'
         /\ Rows' = Rows /\ Prefs' = Prefs /\ Keys' = Keys /\ Len(d_avatars') = Len(d_avatars)
<1>1. Rows' = Rows /\ Prefs' = Prefs /\ Keys' = Keys /\ Len(d_avatars') = Len(d_avatars)
  BY DEF SameContent, Rows, Prefs, Keys
<1> QED BY <1>1 DEF Written

-----------------------------------------------------------------------------
(* Where the export stands, by the place it is at *)

(* What is written by the time the export comes to a place.                        *)
LEMMA WrittenIs ==
  /\ stage = "version" => Written = UpTo(0, 0, 0, 0, 0, "none")
  /\ stage = "rows" => Written = UpTo(next - 1, next - 1, 0, 0, 0, "none")
  /\ stage \in {"attachment", "sticker"} => Written = UpTo(next, next - 1, 0, 0, 0, "none")
  /\ stage = "sharedprefs" => Written = UpTo(Rows, Rows, next - 1, 0, 0, "none")
  /\ stage = "keyvalues" => Written = UpTo(Rows, Rows, Prefs, next - 1, 0, "none")
  /\ stage = "avatars" => Written = UpTo(Rows, Rows, Prefs, Keys, next - 1, "none")
  /\ stage = "end" => Written = UpTo(Rows, Rows, Prefs, Keys, Len(d_avatars), "none")
  /\ stage = "written" => Written = UpTo(Rows, Rows, Prefs, Keys, Len(d_avatars), "read")
BY DEF Written

(* Where nothing was left out, what comes next is added to the same.               *)
LEMMA WrittenStays ==
  ASSUME SameContent, ContentOK, skipped' = skipped, next' \in Nat \ {0}
  PROVE  /\ stage' = "version" => Written' = UpTo(0, 0, 0, 0, 0, "none")
         /\ stage' = "rows" => Written' = UpTo(next' - 1, next' - 1, 0, 0, 0, "none")
         /\ stage' \in {"attachment", "sticker"} => Written' = UpTo(next', next' - 1, 0, 0, 0, "none")
         /\ stage' = "sharedprefs" => Written' = UpTo(Rows, Rows, next' - 1, 0, 0, "none")
         /\ stage' = "keyvalues" => Written' = UpTo(Rows, Rows, Prefs, next' - 1, 0, "none")
         /\ stage' = "avatars" /\ next' <= Len(d_avatars) + 1 =>
              Written' = UpTo(Rows, Rows, Prefs, Keys, next' - 1, "none")
         /\ stage' = "end" => Written' = UpTo(Rows, Rows, Prefs, Keys, Len(d_avatars), "none")
         /\ stage' = "written" => Written' = UpTo(Rows, Rows, Prefs, Keys, Len(d_avatars), "read")
<1>0. PICK m, rs, ps, ks, av : m = next' /\ rs = Rows /\ ps = Prefs /\ ks = Keys /\ av = Len(d_avatars)
  OBVIOUS
<1>1. m \in Nat \ {0} /\ av \in Nat /\ Rows' = rs /\ Prefs' = ps /\ Keys' = ks /\ Len(d_avatars') = av
  BY <1>0, WrittenNext, LenProperties DEF ContentOK
<1>2. \A d, r, p, k, e : UpTo(r, d, p, k, 0, e)' = UpTo(r, d, p, k, 0, e)
  <2>1. 0 \in 0 .. Len(d_avatars)
    BY <1>0, <1>1
  <2> QED BY <2>1, UpToStays
<1>3. \A d, r, p, k, e : UpTo(r, d, p, k, av, e)' = UpTo(r, d, p, k, av, e)
  <2>1. av \in 0 .. Len(d_avatars)
    BY <1>0, <1>1
  <2> QED BY <2>1, UpToStays
<1>4. m <= Len(d_avatars) + 1 => \A d, r, p, k, e : UpTo(r, d, p, k, m - 1, e)' = UpTo(r, d, p, k, m - 1, e)
  <2> SUFFICES ASSUME m <= Len(d_avatars) + 1
               PROVE  \A d, r, p, k, e : UpTo(r, d, p, k, m - 1, e)' = UpTo(r, d, p, k, m - 1, e)
    OBVIOUS
  <2> DEFINE a == m - 1
  <2>0. Len(d_avatars) = av /\ m \in Nat \ {0} /\ av \in Nat
    BY <1>0, <1>1
  <2>1. a \in 0 .. Len(d_avatars)
    BY ONLY <2>0, m <= Len(d_avatars) + 1
  <2> HIDE DEF a
  <2>2. \A d, r, p, k, e : UpTo(r, d, p, k, a, e)' = UpTo(r, d, p, k, a, e)
    BY <2>1, UpToStays
  <2> QED BY <2>2 DEF a
<1> QED BY <1>0, <1>1, <1>2, <1>3, <1>4, WrittenNext

(* It goes on.                                                                     *)
LEMMA GoesOn ==
  ASSUME OutputOK', Writing', Known(out'), Ahead', LoadedBy(out') = Written'
  PROVE  LoadableOutput'
<1>1. Continues'
  BY DEF OutputOK
<1>2. stage' # "written" /\ ~Ended(out')
  <2>1. stage' # "written"
    BY DEF Writing
  <2>2. out' # <<>> /\ Len(out') \in Nat /\ \A k \in 1 .. Len(out') : out'[k].frame.type # "END"
    BY <1>1, LenProperties DEF Continues, OutputOK
  <2>3. Len(out') # 0
    BY <2>2, EmptySeq DEF OutputOK
  <2>4. Len(out') \in 1 .. Len(out')
    BY <2>2, <2>3
  <2> QED BY <2>1, <2>2, <2>4 DEF Ended
<1> QED BY <1>2 DEF LoadableOutput

(* It is given up.                                                                 *)
LEMMA BreaksOff ==
  ASSUME stage' \in {"failed", "crashed"}, Known(out'), ~Ended(out')
  PROVE  LoadableOutput'
BY DEF LoadableOutput, Ahead, Writing

(* As long as more can be appended the end frame was not written.                  *)
LEMMA NotEnded == out \in Seq(Blocks(Ids)) /\ Continues => ~Ended(out)
<1> SUFFICES ASSUME out \in Seq(Blocks(Ids)), Continues PROVE ~Ended(out)
  OBVIOUS
<1>1. out # <<>> /\ Len(out) \in Nat /\ \A k \in 1 .. Len(out) : out[k].frame.type # "END"
  BY LenProperties DEF Continues
<1>2. Len(out) # 0
  BY <1>1, EmptySeq
<1>3. Len(out) \in 1 .. Len(out)
  BY <1>1, <1>2
<1> QED BY <1>1, <1>3 DEF Ended

(* The same of the next state.                                                     *)
LEMMA NotEndedNext == (out \in Seq(Blocks(Ids)) /\ Continues)' => ~Ended(out')
<1>1. (out \in Seq(Blocks(Ids)) /\ Continues)' => (~Ended(out))'
  BY NotEnded, PTL
<1> QED BY <1>1

(* A frame without data, by its type and id.                                       *)
LEMMA LoadedPlain ==
  ASSUME OutputOK, Known(out), NEW t \in FRAMETYPE \ {"UNKNOWN"}, NEW id \in Ids, EncryptFrame(Plain(t, id))
  PROVE  LoadedBy(out') = Add(LoadedBy(out), Plain(t, id)) /\ Known(out')
<1> DEFINE f == Plain(t, id)
<1>1. f \in Frames(Ids) /\ Instantiates(f) /\ EncryptFrame(f)
  BY PlainIs
<1> HIDE DEF f
<1>2. LoadedBy(out') = Add(LoadedBy(out), f) /\ Known(out')
  BY <1>1, LoadedFrame
<1> QED BY <1>2 DEF f

(* What a step of the export starts from.                                          *)
LEMMA WritingIs ==
  ASSUME CopyInv, LoadableOutput, Writing
  PROVE  /\ ContentOK /\ OutputOK /\ Known(out) /\ Ahead /\ LoadedBy(out) = Written
         /\ next \in Nat \ {0} /\ ~Ended(out)
         /\ Rows \in Nat /\ Prefs \in Nat /\ Keys \in Nat /\ Len(d_avatars) \in Nat
<1>1. Continues /\ out \in Seq(Blocks(Ids))
  BY DEF CopyInv, SessionInv, OutputOK
<1>2. ~Ended(out)
  BY <1>1, NotEnded
<1> QED BY <1>2, ListLengths DEF CopyInv, SessionInv, LoadableOutput, Rows, Prefs, Keys

-----------------------------------------------------------------------------
(* What every step of the export writes can be loaded *)

(* The version.                                                                    *)
LEMMA VersionLoads ==
  ASSUME CopyInv, LoadableOutput, WriteVersion, OutputOK'
  PROVE  LoadableOutput'
<1>1. stage = "version" /\ Writing /\ SameContent /\ skipped' = skipped
  BY SameWhenKept DEF WriteVersion, Writing
<1>2. /\ ContentOK /\ OutputOK /\ Known(out) /\ ~Ended(out)
      /\ skipped = {} /\ LoadedBy(out) = UpTo(0, 0, 0, 0, 0, "none")
  BY <1>1, WritingIs, WrittenIs DEF Ahead
<1>3. /\ stage' \in {"rows", "sharedprefs", "failed"} /\ next' = 1
      /\ stage' = "sharedprefs" => d_database = <<>>
      /\ stage' = "failed" => out' = out
      /\ stage' # "failed" => EncryptFrame(Plain("DATABASEVERSION", AnyId))
  BY DEF WriteVersion, Goto, encryptorVars
<1>4. CASE stage' = "failed"
  BY <1>2, <1>3, <1>4, BreaksOff
<1>5. CASE stage' # "failed"
  <2> DEFINE f == Plain("DATABASEVERSION", AnyId)
  <2>1. f.type = "DATABASEVERSION" /\ AnyId \in Ids /\ "DATABASEVERSION" \in FRAMETYPE \ {"UNKNOWN"}
    BY AnyIdType DEF Plain, FRAMETYPE
  <2>2. LoadedBy(out') = Add(LoadedBy(out), f) /\ Known(out')
    BY <1>2, <1>3, <1>5, <2>1, LoadedPlain
  <2> HIDE DEF f
  <2>3. LoadedBy(out') = UpTo(0, 0, 0, 0, 0, "none")
    BY <1>2, <2>1, <2>2, BeginningAdds
  <2>4. Written' = UpTo(0, 0, 0, 0, 0, "none")
    <3>1. CASE stage' = "rows"
      <4>1. next' \in Nat \ {0} /\ next' - 1 = 0
        BY <1>3
      <4> QED BY <1>1, <1>2, <3>1, <4>1, WrittenStays
    <3>2. CASE stage' = "sharedprefs"
      <4>1. next' \in Nat \ {0} /\ next' - 1 = 0 /\ Rows = 0
        BY <1>3, <3>2 DEF Rows
      <4> QED BY <1>1, <1>2, <3>2, <4>1, WrittenStays
    <3> QED BY <1>3, <1>5, <3>1, <3>2
  <2>5. Ahead' /\ Writing'
    BY <1>1, <1>2, <1>3, <1>5 DEF Ahead, Behind, Writing
  <2> QED BY <2>2, <2>3, <2>4, <2>5, GoesOn
<1> QED BY <1>4, <1>5

(* A preference.                                                                   *)
LEMMA SharedPrefLoads ==
  ASSUME CopyInv, LoadableOutput, WriteSharedPref, OutputOK'
  PROVE  LoadableOutput'
<1>1. /\ stage = "sharedprefs" /\ Writing /\ SameContent /\ skipped' = skipped
      /\ next <= Prefs + 1
  BY SameWhenKept DEF WriteSharedPref, Writing, CopyInv, CopyPlace, Prefs
<1>2. /\ ContentOK /\ OutputOK /\ Known(out) /\ Prefs \in Nat /\ next \in Nat \ {0}
      /\ LoadedBy(out) = UpTo(Rows, Rows, next - 1, 0, 0, "none")
  BY <1>1, WritingIs, WrittenIs
<1>3. Ahead' /\ Writing' /\ next' \in Nat \ {0} /\ stage' \in {"sharedprefs", "keyvalues"}
  <2>1. Behind("avatars", 0)
    BY <1>1, WritingIs DEF Ahead
  <2>2. stage' \in {"sharedprefs", "keyvalues"} /\ next' \in Nat \ {0}
    BY <1>1, <1>2 DEF WriteSharedPref, Goto
  <2> QED BY <1>1, <2>1, <2>2 DEF Ahead, Behind, Writing
<1>4. CASE next <= Prefs
  <2>1. /\ EncryptFrame(Plain("SHAREDPREFERENCE", d_sharedpreferenceframes[next]))
        /\ stage' = "sharedprefs" /\ next' = next + 1
    BY <1>1, <1>4 DEF WriteSharedPref, Goto, Prefs
  <2>2. /\ next \in 1 .. Len(d_sharedpreferenceframes) /\ next' - 1 = next
        /\ d_sharedpreferenceframes[next] \in Ids /\ "SHAREDPREFERENCE" \in FRAMETYPE \ {"UNKNOWN"}
    BY <1>2, <1>4, <2>1, ElementOfSeq DEF ContentOK, FRAMETYPE, Prefs
  <2>3. /\ LoadedBy(out') = Add(LoadedBy(out), Plain("SHAREDPREFERENCE", d_sharedpreferenceframes[next]))
        /\ Known(out')
    BY <1>2, <2>1, <2>2, LoadedPlain
  <2>4. LoadedBy(out') = UpTo(Rows, Rows, next, 0, 0, "none")
    BY <1>2, <2>2, <2>3, SharedPrefAdds
  <2>5. Written' = UpTo(Rows, Rows, next, 0, 0, "none")
    BY <1>1, <1>2, <1>3, <2>1, <2>2, WrittenStays
  <2> QED BY <1>3, <2>3, <2>4, <2>5, GoesOn
<1>5. CASE ~(next <= Prefs)
  <2>1. out' = out /\ stage' = "keyvalues" /\ next' - 1 = 0 /\ next - 1 = Prefs
    BY <1>1, <1>2, <1>5 DEF WriteSharedPref, Goto, encryptorVars, Prefs
  <2>2. Written' = UpTo(Rows, Rows, Prefs, 0, 0, "none")
    BY <1>1, <1>2, <1>3, <2>1, WrittenStays
  <2> QED BY <1>2, <1>3, <2>1, <2>2, GoesOn
<1> QED BY <1>4, <1>5

(* A key value.                                                                    *)
LEMMA KeyValueLoads ==
  ASSUME CopyInv, LoadableOutput, WriteKeyValue, OutputOK'
  PROVE  LoadableOutput'
<1>1. /\ stage = "keyvalues" /\ Writing /\ SameContent /\ skipped' = skipped
      /\ next <= Keys + 1
  BY SameWhenKept DEF WriteKeyValue, Writing, CopyInv, CopyPlace, Keys
<1>2. /\ ContentOK /\ OutputOK /\ Known(out) /\ Keys \in Nat /\ next \in Nat \ {0} /\ Len(d_avatars) \in Nat
      /\ LoadedBy(out) = UpTo(Rows, Rows, Prefs, next - 1, 0, "none")
  BY <1>1, WritingIs, WrittenIs
<1>3. /\ Ahead' /\ Writing' /\ next' \in Nat \ {0} /\ stage' \in {"keyvalues", "avatars"}
      /\ stage' = "avatars" => next' = 1
  <2>1. Behind("avatars", 0)
    BY <1>1, WritingIs DEF Ahead
  <2>2. stage' \in {"keyvalues", "avatars"} /\ next' \in Nat \ {0} /\ (stage' = "avatars" => next' = 1)
    BY <1>1, <1>2 DEF WriteKeyValue, Goto
  <2> QED BY <1>1, <2>1, <2>2 DEF Ahead, Behind, Writing
<1>4. CASE next <= Keys
  <2>1. /\ EncryptFrame(Plain("KEYVALUE", d_keyvalueframes[next]))
        /\ stage' = "keyvalues" /\ next' = next + 1
    BY <1>1, <1>4 DEF WriteKeyValue, Goto, Keys
  <2>2. /\ next \in 1 .. Len(d_keyvalueframes) /\ next' - 1 = next
        /\ d_keyvalueframes[next] \in Ids /\ "KEYVALUE" \in FRAMETYPE \ {"UNKNOWN"}
    BY <1>2, <1>4, <2>1, ElementOfSeq DEF ContentOK, FRAMETYPE, Keys
  <2>3. /\ LoadedBy(out') = Add(LoadedBy(out), Plain("KEYVALUE", d_keyvalueframes[next]))
        /\ Known(out')
    BY <1>2, <2>1, <2>2, LoadedPlain
  <2>4. LoadedBy(out') = UpTo(Rows, Rows, Prefs, next, 0, "none")
    BY <1>2, <2>2, <2>3, KeyValueAdds
  <2>5. Written' = UpTo(Rows, Rows, Prefs, next, 0, "none")
    BY <1>1, <1>2, <1>3, <2>1, <2>2, WrittenStays
  <2> QED BY <1>3, <2>3, <2>4, <2>5, GoesOn
<1>5. CASE ~(next <= Keys)
  <2>1. out' = out /\ stage' = "avatars" /\ next' - 1 = 0 /\ next - 1 = Keys /\ next' <= Len(d_avatars) + 1
    BY <1>1, <1>2, <1>5 DEF WriteKeyValue, Goto, encryptorVars, Keys
  <2>2. Written' = UpTo(Rows, Rows, Prefs, Keys, 0, "none")
    BY <1>1, <1>2, <1>3, <2>1, WrittenStays
  <2> QED BY <1>2, <1>3, <2>1, <2>2, GoesOn
<1> QED BY <1>4, <1>5

(* Behind a row, its data is written or there is none, or it was left out.         *)
LEMMA NextRowLoads ==
  ASSUME CopyInv, LoadableOutput, OutputOK', Writing, SameContent, next \in 1 .. Len(d_database), NextRow,
         stage \in {"rows", "attachment", "sticker"}, NEW n, n = next, Known(out'),
         skipped' = skipped \/ skipped' = skipped \cup {<<stage, next>>},
         LoadedBy(out') = UpTo(n, n, 0, 0, 0, "none")'
  PROVE  LoadableOutput'
<1>1. Rows \in Nat /\ next \in Nat \ {0} /\ Rows = Len(d_database) /\ Rows' = Rows /\ Ahead
  BY WritingIs, WrittenNext DEF Rows
<1>2. Behind("attachment", next) /\ Behind("sticker", next) /\ Behind("avatars", 0)
  BY <1>1 DEF Ahead
<1>3. CASE next < Len(d_database)
  <2>1. stage' = "rows" /\ next' = next + 1 /\ Writing'
    BY <1>3 DEF NextRow, AfterList, Goto, Writing
  <2>2. Written' = UpTo(next - 1, next - 1, 0, 0, 0, "none")'
    BY <2>1, WrittenNext
  <2>3. next' - 1 = n
    BY <1>1, <2>1
  <2>4. Written' = UpTo(n, n, 0, 0, 0, "none")'
    BY <2>2, <2>3
  <2>5. Behind("attachment", next)' /\ Behind("sticker", next)' /\ Behind("avatars", 0)'
    <3>1. \A i \in Nat : i < next => i < next + 1
      BY <1>1
    <3>2. next < next + 1
      BY <1>1
    <3> QED BY <1>2, <2>1, <3>1, <3>2 DEF Behind
  <2>6. Ahead'
    BY <2>1, <2>5 DEF Ahead
  <2> QED BY <2>1, <2>4, <2>6, GoesOn
<1>4. CASE ~(next < Len(d_database))
  <2>1. stage' = "sharedprefs" /\ next' = 1 /\ Writing' /\ next = Rows
    BY <1>1, <1>4 DEF NextRow, AfterList, Goto, Writing
  <2>2. Written' = UpTo(Rows, Rows, next - 1, 0, 0, "none")'
    BY <2>1, WrittenNext
  <2>3. Rows' = n /\ next' - 1 = 0
    BY <1>1, <2>1
  <2>4. Written' = UpTo(n, n, 0, 0, 0, "none")'
    BY <2>2, <2>3
  <2>5. Ahead'
    BY <1>2, <2>1 DEF Ahead, Behind
  <2> QED BY <2>1, <2>4, <2>5, GoesOn
<1> QED BY <1>3, <1>4

(* The statement of a row.                                                         *)
LEMMA RowLoads ==
  ASSUME CopyInv, RowsDistinct, LoadableOutput, WriteRow, OutputOK'
  PROVE  LoadableOutput'
<1>1. /\ stage = "rows" /\ Writing /\ SameContent /\ skipped' = skipped
      /\ EncryptFrame(Plain("SQLSTATEMENT", RowId))
      /\ next \in 1 .. Len(d_database) /\ RowId = d_database[next]
  BY SameWhenKept DEF WriteRow, Writing, CopyInv, SessionInv, RowOK, RowId
<1>2. /\ ContentOK /\ OutputOK /\ Known(out) /\ next \in Nat \ {0} /\ Len(d_avatars) \in Nat
      /\ LoadedBy(out) = UpTo(next - 1, next - 1, 0, 0, 0, "none")
      /\ Behind("attachment", next) /\ Behind("sticker", next) /\ Behind("avatars", 0)
  BY <1>1, WritingIs, WrittenIs DEF Ahead
<1>3. RowId \in Ids /\ "SQLSTATEMENT" \in FRAMETYPE \ {"UNKNOWN"}
  BY <1>1, <1>2, ElementOfSeq DEF ContentOK, FRAMETYPE
<1>4. LoadedBy(out') = UpTo(next, next - 1, 0, 0, 0, "none") /\ Known(out')
  <2>1. LoadedBy(out') = Add(LoadedBy(out), Plain("SQLSTATEMENT", RowId)) /\ Known(out')
    BY <1>1, <1>2, <1>3, LoadedPlain
  <2> QED BY <1>1, <1>2, <2>1, RowAdds
<1>5. ASSUME NEW s \in {"attachment", "sticker"}, Goto(s, next)
      PROVE  LoadableOutput'
  <2>1. stage' = s /\ next' = next /\ Writing'
    BY <1>5 DEF Goto, Writing
  <2>2. Written' = UpTo(next, next - 1, 0, 0, 0, "none")
    BY <1>1, <1>2, <2>1, WrittenStays
  <2>3. Ahead'
    BY <1>1, <1>2, <2>1 DEF Ahead, Behind
  <2> QED BY <1>4, <2>1, <2>2, <2>3, GoesOn
<1>6. CASE RowId \in PartRows /\ RowId \in DOMAIN d_attachments
  <2>1. Goto("attachment", next)
    BY <1>6, ExportAssumption DEF WriteRow
  <2> QED BY <1>5, <2>1
<1>7. CASE /\ ~(RowId \in PartRows /\ RowId \in DOMAIN d_attachments)
           /\ RowId \in StickerRows /\ RowId \in DOMAIN d_stickers
  <2>1. Goto("sticker", next)
    BY <1>7 DEF WriteRow
  <2> QED BY <1>5, <2>1
<1>8. CASE /\ ~(RowId \in PartRows /\ RowId \in DOMAIN d_attachments)
           /\ ~(RowId \in StickerRows /\ RowId \in DOMAIN d_stickers)
  <2>1. NextRow
    BY <1>8 DEF WriteRow
  <2>2. PICK n : n = next
    OBVIOUS
  <2>3. LoadedBy(out') = UpTo(n, n, 0, 0, 0, "none")
    <3>1. /\ d_database[n] \in PartRows \cap DOMAIN d_attachments => <<"attachment", n>> \in skipped
          /\ d_database[n] \in StickerRows \cap DOMAIN d_stickers => <<"sticker", n>> \in skipped
          /\ n \in Nat \ {0}
      BY <1>1, <1>2, <1>8, <2>2
    <3>2. \A r, p, k, a, e : UpTo(r, n - 1, p, k, a, e) = UpTo(r, n, p, k, a, e)
      BY <3>1, NoDataAdds
    <3> QED BY <1>4, <2>2, <3>2
  <2>4. LoadedBy(out') = UpTo(n, n, 0, 0, 0, "none")'
    <3>1. 0 \in 0 .. Len(d_avatars)
      BY <1>2
    <3>2. UpTo(n, n, 0, 0, 0, "none")' = UpTo(n, n, 0, 0, 0, "none")
      BY <1>1, <1>2, <3>1, UpToStays
    <3> QED BY <2>3, <3>2
  <2> QED BY <1>1, <1>4, <2>1, <2>2, <2>4, NextRowLoads
<1> QED BY <1>6, <1>7, <1>8

(* A frame behind its row.                                                         *)
LEMMA KeptLoads ==
  ASSUME CopyInv, LoadableOutput, OutputOK', Writing, SameContent, next \in 1 .. Len(d_database),
         stage \in {"attachment", "sticker"},
         stage = "attachment" => d_database[next] \in PartRows,
         stage = "sticker" => d_database[next] \in StickerRows,
         NEW t \in WithAttachment, NEW k \in KeptFrames(t), NEW att, WriteKept(k, att),
         Add(UpTo(next, next - 1, 0, 0, 0, "none"), Sized(k.frame)) = UpTo(next, next, 0, 0, 0, "none")
  PROVE  LoadableOutput'
<1>1. /\ ContentOK /\ OutputOK /\ Known(out) /\ next \in Nat \ {0} /\ Len(d_avatars) \in Nat
      /\ LoadedBy(out) = UpTo(next, next - 1, 0, 0, 0, "none")
      /\ Continues /\ stage \in Stages /\ skipped \subseteq Stages \X Nat
  BY WritingIs, WrittenIs DEF CopyInv, SessionInv, OutputOK, PlaceOK
<1>2. PICK result \in Results(k) :
         \/ /\ Writes(k, attachmentData(k.att, result))
            /\ NextRow \/ Goto("crashed", 1)
         \/ FailsToRead(k, attachmentData(k.att, result)) /\ Goto("failed", 1)
  BY Zenon DEF WriteKept
<1> DEFINE reading == attachmentData(k.att, result)
<1>3. Continues' /\ out' \in Seq(Blocks(Ids))
  <2> HIDE DEF reading
  <2>1. Writes(k, reading) \/ FailsToRead(k, reading)
    BY <1>2 DEF reading
  <2> QED BY <1>1, <2>1, WritesType
<1>4. ~Ended(out')
  BY <1>3, NotEndedNext
<1>5. CASE Writes(k, reading)
  <2> HIDE DEF reading
  <2>1. /\ \/ LoadedBy(out') = Add(LoadedBy(out), Sized(k.frame)) /\ skipped' = skipped
           \/ out' = out /\ skipped' = skipped \cup {<<stage, next>>}
        /\ Known(out')
    BY <1>1, <1>5, LoadedKept
  <2>2. PICK n, s : n = next /\ s = stage
    OBVIOUS
  <2>3. n \in Nat \ {0} /\ s \in {"attachment", "sticker"} /\ 0 \in 0 .. Len(d_avatars)
    BY <1>1, <2>2
  <2>4. LoadedBy(out') = UpTo(n, n, 0, 0, 0, "none")'
    <3>1. CASE LoadedBy(out') = Add(LoadedBy(out), Sized(k.frame)) /\ skipped' = skipped
      <4>1. LoadedBy(out') = UpTo(n, n, 0, 0, 0, "none")
        BY <1>1, <2>2, <3>1
      <4>2. UpTo(n, n, 0, 0, 0, "none")' = UpTo(n, n, 0, 0, 0, "none")
        BY <1>1, <2>3, <3>1, UpToStays
      <4> QED BY <4>1, <4>2
    <3>2. CASE out' = out /\ skipped' = skipped \cup {<<stage, next>>}
      <4>1. LoadedBy(out') = UpTo(n, n - 1, 0, 0, 0, "none")
        BY <1>1, <2>2, <3>2
      <4>2. /\ skipped' = skipped \cup {<<s, n>>}
            /\ s = "attachment" => d_database[n] \in PartRows
            /\ s = "sticker" => d_database[n] \in StickerRows
        BY <2>2, <3>2
      <4>3. UpTo(n, n, 0, 0, 0, "none")' = UpTo(n, n - 1, 0, 0, 0, "none")
        BY <1>1, <2>3, <4>2, UpToLeftOut
      <4> QED BY <4>1, <4>3
    <3> QED BY <2>1, <3>1, <3>2
  <2>5. CASE NextRow
    BY <2>1, <2>2, <2>4, <2>5, NextRowLoads
  <2>6. CASE Goto("crashed", 1)
    BY <1>4, <2>1, <2>6, BreaksOff DEF Goto
  <2>7. CASE Goto("failed", 1)
    BY <1>4, <2>1, <2>7, BreaksOff DEF Goto
  <2> QED BY <1>2, <2>5, <2>6, <2>7
<1>6. CASE FailsToRead(k, reading) /\ Goto("failed", 1)
  <2>1. out' = out /\ stage' = "failed"
    BY <1>6 DEF FailsToRead, encryptorVars, Goto
  <2> QED BY <1>1, <1>4, <2>1, BreaksOff
<1> QED BY <1>2, <1>5, <1>6

(* The attachment or sticker behind it.                                            *)
LEMMA DataLoads ==
  ASSUME CopyInv, RowsDistinct, KeyedById, LoadableOutput, OutputOK', WriteAttachment \/ WriteSticker
  PROVE  LoadableOutput'
<1>1. /\ ContentOK /\ RowOK /\ CopyPlace /\ stage \in {"attachment", "sticker"} /\ Writing
      /\ next \in 1 .. Len(d_database) /\ UNCHANGED restVars /\ next \in Nat \ {0}
      /\ Behind("attachment", next) /\ Behind("sticker", next)
  BY WritingIs DEF WriteAttachment, WriteSticker, Writing, CopyInv, SessionInv, RowOK, Ahead
<1>2. UNCHANGED <<d_database, d_sharedpreferenceframes, d_keyvalueframes>> /\ RowId = d_database[next]
  BY <1>1 DEF restVars, RowId
<1>n. PICK n : n = next
  OBVIOUS
<1>3. <<"attachment", n>> \notin skipped /\ <<"sticker", n>> \notin skipped
  BY <1>1, <1>n DEF Behind
<1>4. CASE WriteAttachment
  <2>1. PICK att \in Attachments :
           /\ WriteKept(d_attachments[RowId], att)
           /\ d_attachments' = [d_attachments EXCEPT ![RowId].att = att]
           /\ d_stickers' = d_stickers
    BY <1>4, Zenon DEF WriteAttachment
  <2>2. /\ stage = "attachment" /\ RowId \in PartRows /\ RowId \in DOMAIN d_attachments
        /\ KeptMap(d_attachments, "ATTACHMENT") /\ d_avatars' = d_avatars
    BY <1>1, <1>4 DEF WriteAttachment, RowOK, ContentOK, CopyPlace
  <2>3. SameContent
    <3>1. /\ DOMAIN d_attachments' = DOMAIN d_attachments
          /\ \A i \in DOMAIN d_attachments : d_attachments'[i].frame = d_attachments[i].frame
      BY <2>1, <2>2, CachedAt
    <3> QED BY <1>2, <2>1, <2>2, <3>1 DEF SameContent
  <2> DEFINE k == d_attachments[RowId]
  <2>5. k \in KeptFrames("ATTACHMENT") /\ "ATTACHMENT" \in WithAttachment
    BY <2>2, KeptMapType DEF WithAttachment
  <2>6. Add(UpTo(next, next - 1, 0, 0, 0, "none"), Sized(k.frame)) = UpTo(next, next, 0, 0, 0, "none")
    <3>1. /\ n \in 1 .. Len(d_database) /\ d_database[n] \in PartRows /\ d_database[n] \in DOMAIN d_attachments
      BY <1>1, <1>2, <1>n, <2>2
    <3>2. \A r, p, q, a, e : Add(UpTo(r, n - 1, p, q, a, e), Sized(d_attachments[d_database[n]].frame))
                               = UpTo(r, n, p, q, a, e)
      BY <1>1, <1>3, <3>1, AttachmentAdds
    <3> QED BY <1>2, <1>n, <3>2
  <2>7. d_database[next] \in PartRows /\ stage # "sticker"
    BY <1>2, <2>2
  <2> HIDE DEF k
  <2>8. WriteKept(k, att)
    BY <2>1 DEF k
  <2> QED BY <1>1, <2>3, <2>5, <2>6, <2>7, <2>8, KeptLoads
<1>5. CASE WriteSticker
  <2>1. PICK att \in Attachments :
           /\ WriteKept(d_stickers[RowId], att)
           /\ d_stickers' = [d_stickers EXCEPT ![RowId].att = att]
           /\ d_attachments' = d_attachments
    BY <1>5, Zenon DEF WriteSticker
  <2>2. /\ stage = "sticker" /\ RowId \in StickerRows /\ RowId \in DOMAIN d_stickers
        /\ KeptMap(d_stickers, "STICKER") /\ d_avatars' = d_avatars
    BY <1>1, <1>5 DEF WriteSticker, RowOK, ContentOK, CopyPlace
  <2>3. SameContent
    <3>1. /\ DOMAIN d_stickers' = DOMAIN d_stickers
          /\ \A i \in DOMAIN d_stickers : d_stickers'[i].frame = d_stickers[i].frame
      BY <2>1, <2>2, CachedAt
    <3> QED BY <1>2, <2>1, <2>2, <3>1 DEF SameContent
  <2> DEFINE k == d_stickers[RowId]
  <2>5. k \in KeptFrames("STICKER") /\ "STICKER" \in WithAttachment
    BY <2>2, KeptMapType DEF WithAttachment
  <2>6. Add(UpTo(next, next - 1, 0, 0, 0, "none"), Sized(k.frame)) = UpTo(next, next, 0, 0, 0, "none")
    <3>1. /\ n \in 1 .. Len(d_database) /\ d_database[n] \in StickerRows /\ d_database[n] \in DOMAIN d_stickers
      BY <1>1, <1>2, <1>n, <2>2
    <3>2. \A r, p, q, a, e : Add(UpTo(r, n - 1, p, q, a, e), Sized(d_stickers[d_database[n]].frame))
                               = UpTo(r, n, p, q, a, e)
      BY <1>1, <1>3, <3>1, StickerAdds
    <3> QED BY <1>2, <1>n, <3>2
  <2>7. d_database[next] \in StickerRows /\ stage # "attachment"
    BY <1>2, <2>2
  <2> HIDE DEF k
  <2>8. WriteKept(k, att)
    BY <2>1 DEF k
  <2> QED BY <1>1, <2>3, <2>5, <2>6, <2>7, <2>8, KeptLoads
<1> QED BY <1>4, <1>5

(* An avatar.                                                                      *)
LEMMA AvatarLoads ==
  ASSUME CopyInv, LoadableOutput, OutputOK', WriteAvatar
  PROVE  LoadableOutput'
<1> DEFINE l == Len(d_avatars)
           k == d_avatars[next]
<1>1. /\ stage = "avatars" /\ Writing /\ ContentOK /\ OutputOK /\ Known(out) /\ Continues
      /\ next \in 1 .. l /\ l \in Nat /\ next \in Nat \ {0}
      /\ stage \in Stages /\ skipped \subseteq Stages \X Nat /\ Behind("avatars", next)
      /\ LoadedBy(out) = UpTo(Rows, Rows, Prefs, Keys, next - 1, "none")
      /\ UNCHANGED <<restVars, d_attachments, d_stickers>>
  <2>1. stage = "avatars" /\ Writing /\ next <= l /\ UNCHANGED <<restVars, d_attachments, d_stickers>>
    BY DEF WriteAvatar, Writing
  <2>2. l \in Nat /\ next \in Nat \ {0}
    BY <2>1, WritingIs
  <2>3. next \in 1 .. l
    BY <2>1, <2>2
  <2> QED BY <2>1, <2>2, <2>3, WritingIs, WrittenIs DEF CopyInv, SessionInv, Ahead, OutputOK, PlaceOK
<1>2. /\ k \in KeptFrames("AVATAR") /\ next \in DOMAIN d_avatars /\ "AVATAR" \in WithAttachment
      /\ d_avatars \in Seq(KeptFrames("AVATAR"))
  BY <1>1, ElementOfSeq DEF ContentOK, WithAttachment
<1>3. PICK result \in Results(k) :
         LET reading == attachmentData(k.att, result)
         IN  /\ \/ Writes(k, reading) /\ Goto(stage, next + 1)
                \/ FailsToRead(k, reading) /\ Goto("failed", 1)
             /\ d_avatars' = [d_avatars EXCEPT ![next].att = CacheAfter(k, reading)]
  BY Zenon DEF WriteAvatar
<1> DEFINE reading == attachmentData(k.att, result)
           cache == CacheAfter(k, reading)
<1>4. /\ \/ Writes(k, reading) /\ Goto("avatars", next + 1)
         \/ FailsToRead(k, reading) /\ Goto("failed", 1)
      /\ d_avatars' = [d_avatars EXCEPT ![next].att = cache]
  BY <1>1, <1>3
<1>5. SameContent
  <2> DEFINE kept == [k EXCEPT !.att = cache]
  <2>1. kept.frame = k.frame
    BY <1>2 DEF KeptFrames
  <2>2. d_avatars' = [d_avatars EXCEPT ![next] = kept]
    BY <1>4
  <2> HIDE DEF kept, cache, reading
  <2>3. /\ Len(d_avatars') = l
        /\ \A i \in 1 .. l : d_avatars'[i] = IF i = next THEN kept ELSE d_avatars[i]
    BY <1>1, <1>2, <2>2
  <2>4. \A i \in 1 .. l : d_avatars'[i].frame = d_avatars[i].frame
    BY <2>1, <2>3
  <2> QED BY <1>1, <2>3, <2>4 DEF SameContent, restVars
<1>6. PICK n, rs, ps, ks : n = next /\ rs = Rows /\ ps = Prefs /\ ks = Keys
  OBVIOUS
<1>7. CASE Writes(k, reading) /\ Goto("avatars", next + 1)
  <2>0. stage' = "avatars" /\ next' - 1 = n /\ Writing'
    BY <1>1, <1>6, <1>7 DEF Goto, Writing
  <2>1. /\ \/ LoadedBy(out') = Add(LoadedBy(out), Sized(k.frame)) /\ skipped' = skipped
           \/ out' = out /\ skipped' = skipped \cup {<<stage, next>>}
        /\ Known(out')
    <3> HIDE DEF k, reading
    <3> QED BY <1>1, <1>2, <1>7, LoadedKept
  <2>2. /\ n \in 1 .. Len(d_avatars) /\ n \in 0 .. Len(d_avatars)
        /\ <<"avatars", n>> \notin skipped /\ k.frame = d_avatars[n].frame
    BY <1>1, <1>6 DEF Behind
  <2>3. LoadedBy(out') = UpTo(rs, rs, ps, ks, n, "none")'
    <3>1. CASE LoadedBy(out') = Add(LoadedBy(out), Sized(k.frame)) /\ skipped' = skipped
      <4>1. LoadedBy(out') = UpTo(rs, rs, ps, ks, n, "none")
        <5>1. \A r, d, p, q, e : Add(UpTo(r, d, p, q, n - 1, e), Sized(d_avatars[n].frame))
                                   = UpTo(r, d, p, q, n, e)
          BY <1>1, <2>2, AvatarAdds
        <5> QED BY <1>1, <1>6, <2>2, <3>1, <5>1
      <4>2. UpTo(rs, rs, ps, ks, n, "none")' = UpTo(rs, rs, ps, ks, n, "none")
        BY <1>1, <1>5, <2>2, <3>1, UpToStays
      <4> QED BY <4>1, <4>2
    <3>2. CASE out' = out /\ skipped' = skipped \cup {<<stage, next>>}
      <4>1. LoadedBy(out') = UpTo(rs, rs, ps, ks, n - 1, "none")
        BY <1>1, <1>6, <3>2
      <4>2. skipped' = skipped \cup {<<"avatars", n>>}
        BY <1>1, <1>6, <3>2
      <4>3. UpTo(rs, rs, ps, ks, n, "none")' = UpTo(rs, rs, ps, ks, n - 1, "none")
        BY <1>1, <1>5, <2>2, <4>2, UpToAvatarLeftOut
      <4> QED BY <4>1, <4>3
    <3> QED BY <2>1, <3>1, <3>2
  <2>4. Written' = UpTo(rs, rs, ps, ks, n, "none")'
    <3>1. Written' = UpTo(Rows, Rows, Prefs, Keys, next - 1, "none")'
      BY <1>5, <2>0, WrittenNext
    <3>2. Rows' = rs /\ Prefs' = ps /\ Keys' = ks
      BY <1>5, <1>6, WrittenNext
    <3> QED BY <2>0, <3>1, <3>2
  <2>5. Ahead'
    <3>1. Behind("avatars", next)'
      <4>1. \A i \in Nat : i < next => i < next + 1
        BY <1>1
      <4>2. next' = next + 1 /\ next < next + 1
        BY <1>1, <1>7 DEF Goto
      <4> QED BY <1>1, <2>1, <4>1, <4>2 DEF Behind
    <3> QED BY <2>0, <3>1 DEF Ahead
  <2> QED BY <2>0, <2>1, <2>3, <2>4, <2>5, GoesOn
<1>8. CASE FailsToRead(k, reading) /\ Goto("failed", 1)
  <2>1. out' = out /\ stage' = "failed"
    BY <1>8 DEF FailsToRead, encryptorVars, Goto
  <2>2. ~Ended(out)
    BY <1>1, WritingIs
  <2> QED BY <1>1, <2>1, <2>2, BreaksOff
<1> QED BY <1>4, <1>7, <1>8

(* The end of the avatars, and the end frame.                                      *)
LEMMA EndLoads ==
  ASSUME CopyInv, SoundOutput, SoundOutput', LoadableOutput, OutputOK', AvatarsWritten \/ WriteEnd
  PROVE  LoadableOutput'
<1>1. /\ SameContent /\ Writing /\ skipped' = skipped
      /\ stage \in {"avatars", "end"} /\ stage' \in {"end", "written"} /\ next' = 1
  BY SameWhenKept DEF AvatarsWritten, WriteEnd, Writing, Goto
<1>2. /\ ContentOK /\ OutputOK /\ Known(out) /\ LoadedBy(out) = Written /\ Len(d_avatars) \in Nat
      /\ next \in Nat \ {0} /\ next' \in Nat \ {0}
  BY <1>1, WritingIs
<1>3. CASE AvatarsWritten
  <2>1. stage = "avatars" /\ next - 1 = Len(d_avatars) /\ stage' = "end" /\ out' = out /\ Writing'
    BY <1>2, <1>3 DEF AvatarsWritten, CopyInv, CopyPlace, Goto, encryptorVars, Writing
  <2>2. LoadedBy(out) = UpTo(Rows, Rows, Prefs, Keys, Len(d_avatars), "none")
    BY <1>2, <2>1, WrittenIs
  <2>3. Written' = UpTo(Rows, Rows, Prefs, Keys, Len(d_avatars), "none")
    BY <1>1, <1>2, <2>1, WrittenStays
  <2> QED BY <1>2, <2>1, <2>2, <2>3, GoesOn DEF Ahead
<1>4. CASE WriteEnd
  <2> DEFINE f == Plain("END", AnyId)
             b == Block("frame", f, e_counter)
  <2>1. /\ stage = "end" /\ stage' = "written" /\ EncryptFrame(f) /\ out' = Append(out, b)
        /\ pc' = pc /\ pc = "done"
    BY <1>1, <1>4 DEF WriteEnd, Goto, EncryptFrame, restVars, CopyInv, SessionInv, PlaceOK
  <2>2. f \in Frames(Ids) /\ f.type = "END" /\ AnyId \in Ids /\ "END" \in FRAMETYPE \ {"UNKNOWN"}
    BY PlainType, AnyIdType DEF FRAMETYPE
  <2>3. b \in Blocks(Ids) /\ b.frame = f /\ b.damage = "none"
    <3>1. e_counter \in Nat
      BY <1>2 DEF OutputOK
    <3> HIDE DEF f
    <3> QED BY <2>2, <3>1, BlockType DEF Block
  <2>4. LoadedBy(out') = UpTo(Rows, Rows, Prefs, Keys, Len(d_avatars), "read") /\ Known(out')
    <3>1. LoadedBy(out') = Add(LoadedBy(out), f) /\ Known(out')
      BY <1>2, <2>1, <2>2, LoadedPlain
    <3>2. LoadedBy(out) = UpTo(Rows, Rows, Prefs, Keys, Len(d_avatars), "none")
      BY <1>2, <2>1, WrittenIs
    <3> QED BY <3>1, <3>2, EndAdds
  <2>5. Written' = UpTo(Rows, Rows, Prefs, Keys, Len(d_avatars), "read")
    BY <1>1, <1>2, <2>1, WrittenStays
  <2> HIDE DEF f, b
  <2>6. /\ out \in Seq(Blocks(Ids)) /\ Len(out) \in Nat /\ out' # <<>> /\ Len(out') = Len(out) + 1
        /\ out'[Len(out')] = b /\ \A i \in 1 .. Len(out) : out'[i] = out[i]
    <3>1. out \in Seq(Blocks(Ids)) /\ Len(out) \in Nat
      BY <1>2, LenProperties DEF OutputOK
    <3> QED BY <2>1, <2>3, <3>1, AppendProperties
  <2>7. Ended(out')
    BY <2>2, <2>3, <2>6 DEF Ended
  <2>8. Intact(out')
    <3>1. Sound(out)' 
      BY DEF SoundOutput
    <3>2. \A i \in 1 .. Len(out') - 1 : out'[i].damage = "none"
      BY <3>1 DEF Sound
    <3>3. \A i \in 1 .. Len(out') : i = Len(out') \/ i \in 1 .. Len(out') - 1
      BY <2>6
    <3> QED BY <2>3, <2>6, <3>2, <3>3 DEF Intact
  <2>9. ~Writing' /\ Ahead'
    BY <2>1 DEF Writing, Ahead
  <2> QED BY <2>1, <2>4, <2>5, <2>7, <2>8, <2>9 DEF LoadableOutput
<1> QED BY <1>3, <1>4

(* What is left after a failed write is of what was written.                       *)
LEMMA KnownAfterFailure ==
  ASSUME OutputOK, Known(out), WriteFails
  PROVE  Known(out')
<1>1. out \in Seq(Blocks(Ids)) /\ Len(out) \in Nat
  BY LenProperties DEF OutputOK
<1>2. PICK k \in 1 .. Len(out), d \in {"none", "cut", "cutmac"} :
             out' = [SubSeq(out, 1, k) EXCEPT ![k].damage = d]
  BY Zenon DEF WriteFails
<1> DEFINE s == SubSeq(out, 1, k)
           b == [out[k] EXCEPT !.damage = d]
<1>3. /\ s \in Seq(Blocks(Ids)) /\ Len(s) = k /\ k \in Nat \ {0}
      /\ \A j \in 1 .. k : s[j] = out[j] /\ out[j] \in Blocks(Ids)
  BY <1>1
<1> HIDE DEF s
<1>4. b \in Blocks(Ids) /\ b.frame = out[k].frame
  BY <1>3 DEF Blocks, Damage
<1>5. [s[k] EXCEPT !.damage = d] = b
  BY <1>3
<1> HIDE DEF b
<1>6. out' = [s EXCEPT ![k] = b]
  BY <1>2, <1>5 DEF s
<1>7. Len(out') = k /\ \A j \in 1 .. k : out'[j] = IF j = k THEN b ELSE out[j]
  BY <1>3, <1>4, <1>6
<1>8. \A j \in 1 .. k : j \in 1 .. Len(out)
  BY <1>1
<1>9. ASSUME NEW j \in 1 .. Len(out') PROVE Instantiates(out'[j].frame)
  <2>1. out'[j].frame = out[j].frame /\ j \in 1 .. Len(out)
    BY <1>4, <1>7, <1>8
  <2> QED BY <2>1 DEF Known
<1> QED BY <1>9 DEF Known

(* A write that fails.                                                             *)
LEMMA FailureLoads ==
  ASSUME CopyInv, LoadableOutput, FlushFails \/ DiskFull
  PROVE  LoadableOutput'
<1>1. /\ Writing /\ WriteFails /\ pc' = pc /\ pc = "done" /\ FlushMayFail' = FlushMayFail
      /\ stage' \in {"failed", "written"} /\ (stage' = "written" => FlushMayFail)
  BY DEF FlushFails, DiskFull, Writing, Goto, restVars, CopyInv, SessionInv, PlaceOK, FlushMayFail
<1>2. OutputOK /\ Known(out) /\ Continues
  BY <1>1, WritingIs DEF CopyInv, SessionInv, OutputOK
<1>3. Known(out') /\ ~Ended(out')
  BY <1>1, <1>2, KnownAfterFailure, FailedWriteBegins DEF Ended
<1>4. ~Writing' /\ Ahead'
  BY <1>1 DEF Writing, Ahead
<1> QED BY <1>1, <1>3, <1>4 DEF LoadableOutput

(* The export starts, or is refused.                                               *)
LEMMA StartLoads ==
  ASSUME CopyInv, LoadableOutput, OutputOK', StartExport \/ RefuseExport
  PROVE  LoadableOutput'
<1>1. stage = "idle" /\ TypeOK /\ Known(out) /\ ~Ended(out)
  BY DEF StartExport, RefuseExport, CopyInv, SessionInv, LoadableOutput
<1>2. CASE RefuseExport
  <2>1. stage' = "failed" /\ out' = out
    BY <1>2 DEF RefuseExport, Goto, encryptorVars
  <2> QED BY <1>1, <2>1, BreaksOff
<1>3. CASE StartExport
  <2> DEFINE b == Block("frame", file[1].frame, 0)
             e == <<>>
  <2>1. out' = <<b>> /\ stage' = "version" /\ skipped' = {}
    BY <1>3 DEF StartExport, OpenEncryptor, Goto
  <2>2. file[1].frame \in Frames(Ids) /\ file[1].frame.type = "HEADER"
    <3>1. file[1] \in Blocks(Ids) /\ file[1].frame.type = "HEADER"
      BY <1>1, FileType DEF TypeOK, FileTypeOK, WellFormed
    <3> QED BY <3>1 DEF Blocks
  <2>3. b \in Blocks(Ids) /\ b.kind = "frame" /\ b.frame = file[1].frame
    BY <2>2, BlockType
  <2>4. Instantiates(b.frame)
    BY <2>2, <2>3 DEF Instantiates
  <2>5. e \in Seq(Blocks(Ids)) /\ out' = Append(e, b) /\ LoadedBy(e) = Nothing /\ Known(e)
    <3>1. e \in Seq(Blocks(Ids)) /\ out' = Append(e, b) /\ Len(e) = 0
      BY <2>1
    <3>2. Known(e)
      BY <3>1 DEF Known
    <3>3. LoadedBy(e) = Nothing
      <4> HIDE DEF e
      <4>1. Adds(LoadedAmong(e), e)
        BY <3>1, LoadedAmongIs
      <4> QED BY <3>1, <4>1 DEF Adds, LoadedBy
    <3> QED BY <3>1, <3>2, <3>3
  <2> HIDE DEF e, b
  <2>6. LoadedBy(out') = Add(Nothing, b.frame) /\ Known(out')
    BY <2>3, <2>4, <2>5, LoadedAppend, KnownAppend DEF AddBlock
  <2>7. Add(Nothing, b.frame) = Nothing
    BY <2>2, <2>3, UpToNothing, BeginningAdds
  <2>8. Written' = Nothing
    <3>1. Written' = UpTo(0, 0, 0, 0, 0, "none")'
      BY <2>1 DEF Written
    <3>2. (UpTo(0, 0, 0, 0, 0, "none") = Nothing)'
      BY UpToNothing, PTL
    <3> QED BY <3>1, <3>2 DEF Nothing
  <2>9. Ahead' /\ Writing'
    BY <2>1 DEF Ahead, Writing
  <2> QED BY <2>6, <2>7, <2>8, <2>9, GoesOn
<1> QED BY <1>2, <1>3

-----------------------------------------------------------------------------
(* What a session does to the memory and to its output *)

(* What is cached of the data has no part in where it is kept.                     *)
LEMMA KeyedStays ==
  ASSUME KeyedById,
         DOMAIN d_attachments' = DOMAIN d_attachments,
         \A i \in DOMAIN d_attachments : d_attachments'[i].frame = d_attachments[i].frame,
         DOMAIN d_stickers' = DOMAIN d_stickers,
         \A i \in DOMAIN d_stickers : d_stickers'[i].frame = d_stickers[i].frame
  PROVE  KeyedById'
BY DEF KeyedById, ById

(* Frames are kept by their ids at every step.                                     *)
LEMMA KeyedInductive ==
  ASSUME SessionInv, KeyedById, [SessionNext]_vars
  PROVE  KeyedById'
<1>0. CASE UNCHANGED <<d_attachments, d_stickers>>
  BY <1>0, KeyedStays
<1>1. CASE Load
  <2>1. CASE HandleFrame /\ ~StopsOnBadMac
    <3>1. frame # <<>> /\ Dispatch(frame[1])
      BY <2>1, Zenon DEF HandleFrame
    <3>2. frame[1] \in Returnable
      BY <3>1, ElementTypes DEF SessionInv
    <3> QED BY <3>1, <3>2, DispatchAdds DEF SessionInv
  <2> QED BY <1>0, <1>1, <2>1, Zenon DEF Load, LoadNext, CallGetFrame, HandleFrame, HandleCrash, Finish, contentVars
<1>2. CASE Reopen
  <2>1. d_attachments' = <<>> /\ d_stickers' = <<>>
    BY <1>2 DEF Reopen
  <2> QED BY <2>1 DEF KeyedById, ById
<1>3. CASE UseMedia
  <2>1. PICK i \in todo : DumpMedia(i) \/ HTMLwriteAttachment(i) \/ PassOver(i)
    BY <1>3 DEF UseMedia
  <2>2. PICK s, att : Use(s, i, att)
    <3>1. CASE DumpMedia(i)
      BY <3>1, Zenon DEF DumpMedia
    <3>2. CASE HTMLwriteAttachment(i)
      BY <3>2, Zenon DEF HTMLwriteAttachment
    <3>3. CASE PassOver(i)
      BY <3>3 DEF PassOver
    <3> QED BY <2>1, <3>1, <3>2, <3>3
  <2>3. /\ d_attachments' = [d_attachments EXCEPT ![i].att = att] /\ d_stickers' = d_stickers
        /\ i \in DOMAIN d_attachments /\ KeptMap(d_attachments, "ATTACHMENT")
    BY <2>2 DEF Use, SessionInv, PlaceOK, ContentOK
  <2>4. /\ DOMAIN d_attachments' = DOMAIN d_attachments
        /\ \A j \in DOMAIN d_attachments : d_attachments'[j].frame = d_attachments[j].frame
    BY <2>3, CachedAt
  <2> QED BY <2>3, <2>4, KeyedStays
<1>4. CASE Output
  <2>1. ExportStep
    BY <1>4 DEF Output
  <2>2. CASE WriteAttachment
    <3>1. PICK att \in Attachments :
             /\ d_attachments' = [d_attachments EXCEPT ![RowId].att = att]
             /\ d_stickers' = d_stickers
      BY <2>2, Zenon DEF WriteAttachment
    <3>2. RowId \in DOMAIN d_attachments /\ KeptMap(d_attachments, "ATTACHMENT")
      BY <2>2 DEF WriteAttachment, SessionInv, RowOK, ContentOK
    <3>3. /\ DOMAIN d_attachments' = DOMAIN d_attachments
          /\ \A j \in DOMAIN d_attachments : d_attachments'[j].frame = d_attachments[j].frame
      BY <3>1, <3>2, CachedAt
    <3> QED BY <3>1, <3>3, KeyedStays
  <2>3. CASE WriteSticker
    <3>1. PICK att \in Attachments :
             /\ d_stickers' = [d_stickers EXCEPT ![RowId].att = att]
             /\ d_attachments' = d_attachments
      BY <2>3, Zenon DEF WriteSticker
    <3>2. RowId \in DOMAIN d_stickers /\ KeptMap(d_stickers, "STICKER")
      BY <2>3 DEF WriteSticker, SessionInv, RowOK, ContentOK
    <3>3. /\ DOMAIN d_stickers' = DOMAIN d_stickers
          /\ \A j \in DOMAIN d_stickers : d_stickers'[j].frame = d_stickers[j].frame
      BY <3>1, <3>2, CachedAt
    <3> QED BY <3>1, <3>3, KeyedStays
  <2>4. CASE WriteAvatar
    BY <1>0, <2>4 DEF WriteAvatar
  <2> QED BY <1>0, <2>1, <2>2, <2>3, <2>4 DEF ExportStep, StartExport, RefuseExport, WriteVersion, WriteRow,
       WriteSharedPref, WriteKeyValue, AvatarsWritten, WriteEnd, FlushFails, DiskFull, keptVars
<1>5. CASE StartTask \/ UNCHANGED vars
  BY <1>0, <1>5 DEF StartTask, vars, loadVars, contentVars
<1> QED BY <1>1, <1>2, <1>3, <1>4, <1>5 DEF SessionNext

(* What has been written can be loaded at every step.                              *)
LEMMA LoadableStays ==
  ASSUME LoadableOutput, UNCHANGED <<out, stage, skipped, next>>, ~Writing,
         stage # "written" \/ run # 1, FlushMayFail' = FlushMayFail, stage # "written" \/ run' # 1
  PROVE  LoadableOutput'
<1>1. Ahead'
  BY DEF LoadableOutput, Ahead, Behind
<1>2. ~Writing' /\ Known(out') /\ (Ended(out') => stage' = "written" /\ Intact(out'))
  BY DEF LoadableOutput, Writing
<1>3. Ended(out') => run' # 1
  BY DEF LoadableOutput
<1> QED BY <1>1, <1>2, <1>3 DEF LoadableOutput

(* The export goes through all of them.                                            *)
LEMMA LoadableInductive ==
  ASSUME CopyInv, CopyInv', RowsDistinct, KeyedById, SoundOutput, SoundOutput', LoadableOutput,
         [SessionNext]_vars
  PROVE  LoadableOutput'
<1>0. OutputOK' /\ TypeOK
  BY DEF CopyInv, SessionInv
<1>1. CASE Load
  <2>1. UNCHANGED <<out, stage, skipped, next, run>> /\ pc # "done" /\ command' = command
    BY <1>1, Zenon DEF Load, exportVars, encryptorVars, taskVars, LoadNext, CallGetFrame, HandleFrame, HandleCrash, Finish
  <2>2. ~Writing /\ FlushMayFail' = FlushMayFail
    BY <2>1 DEF CopyInv, SessionInv, PlaceOK, FlushMayFail
  <2>3. stage # "written" \/ run # 1
    BY <2>1 DEF LoadableOutput
  <2> QED BY <2>1, <2>2, <2>3, LoadableStays
<1>2. CASE StartTask
  <2>1. UNCHANGED <<out, stage, skipped, next, run>> /\ stage = "idle" /\ command' = command
    BY <1>2 DEF StartTask, Opened, exportVars, encryptorVars, loadVars
  <2> QED BY <2>1, LoadableStays DEF Writing, FlushMayFail
<1>3. CASE Reopen
  <2>1. /\ UNCHANGED <<out, stage, skipped, next>> /\ run' = 2 /\ stage \in {"written", "failed"}
        /\ command' = [command EXCEPT !.keyok = TRUE]
    BY <1>3 DEF Reopen, exportVars, encryptorVars
  <2>2. FlushMayFail' = FlushMayFail
    <3>1. command \in CommandLines
      BY <1>0 DEF TypeOK
    <3>2. command'.FlushMayFail = command.FlushMayFail
      BY <2>1, <3>1 DEF CommandLines
    <3> QED BY <3>2 DEF FlushMayFail
  <2>3. Ahead' /\ ~Writing'
    BY <2>1 DEF Ahead, Writing
  <2> QED BY <2>1, <2>2, <2>3 DEF LoadableOutput
<1>4. CASE UseMedia
  <2>1. /\ UNCHANGED <<out, next, skipped, run>> /\ stage = "idle" /\ stage' \in {"idle", "crashed"}
        /\ command' = command
    <3>1. PICK i \in todo : DumpMedia(i) \/ HTMLwriteAttachment(i) \/ PassOver(i)
      BY <1>4 DEF UseMedia
    <3>2. PICK s, att : Use(s, i, att) /\ stage' \in {"idle", "crashed"}
      <4>1. CASE DumpMedia(i)
        BY <4>1, Zenon DEF DumpMedia
      <4>2. CASE HTMLwriteAttachment(i)
        BY <4>2, Zenon DEF HTMLwriteAttachment
      <4>3. CASE PassOver(i)
        BY <4>3 DEF PassOver, Use
      <4> QED BY <3>1, <4>1, <4>2, <4>3
    <3> QED BY <3>2 DEF Use, encryptorVars, restVars
  <2>2. Known(out') /\ ~Ended(out') /\ ~Writing' /\ Ahead'
    BY <2>1 DEF LoadableOutput, Writing, Ahead
  <2> QED BY <2>1, <2>2 DEF LoadableOutput
<1>5. CASE Output
  <2>1. ExportStep
    BY <1>5 DEF Output
  <2> QED BY <1>0, <2>1, StartLoads, VersionLoads, RowLoads, DataLoads, SharedPrefLoads, KeyValueLoads,
       AvatarLoads, EndLoads, FailureLoads DEF ExportStep
<1>6. CASE UNCHANGED vars
  <2>1. UNCHANGED <<restVars, keptVars, out, stage, next, skipped, run, pc, command>>
    BY <1>6 DEF vars, loadVars, contentVars, restVars, keptVars, exportVars, encryptorVars, taskVars
  <2>2. SameContent /\ FlushMayFail' = FlushMayFail
    BY <2>1, SameWhenKept DEF FlushMayFail
  <2>3. Ahead' /\ (Writing' <=> Writing)
    BY <2>1 DEF LoadableOutput, Ahead, Behind, Writing
  <2>4. Writing \/ stage = "written" => Written' = Written
    <3>1. next' \in Nat \ {0} /\ ContentOK /\ (stage' = "avatars" => next' <= Len(d_avatars) + 1)
      BY <2>1 DEF CopyInv, SessionInv, PlaceOK, CopyPlace
    <3>2. Writing \/ stage = "written" => stage \in {"version", "rows", "attachment", "sticker", "sharedprefs",
             "keyvalues", "avatars", "end", "written"}
      BY DEF Writing, CopyInv, SessionInv, PlaceOK, Stages
    <3> QED BY <2>1, <2>2, <3>1, <3>2, WrittenStays, WrittenIs
  <2> QED BY <2>1, <2>2, <2>3, <2>4 DEF LoadableOutput
<1> QED BY <1>1, <1>2, <1>3, <1>4, <1>5, <1>6 DEF SessionNext

-----------------------------------------------------------------------------
(* What the second run loads *)

(* Of a table's rows that were not left out, what is behind them.                  *)
RowsOf(s, rows, db, frames, sk) ==
  {frames[id] : id \in {db[n] : n \in {m \in DOMAIN db : <<s, m>> \notin sk}} \cap rows \cap DOMAIN frames}

(* Written of a whole table is what is behind its rows.                            *)
LEMMA RowsOfIs ==
  ASSUME d_database \in Seq(Ids), NEW s, NEW rows, NEW map
  PROVE  DataUpTo(s, rows, map, Rows)
           = {Sized(f) : f \in RowsOf(s, rows, d_database, [i \in DOMAIN map |-> map[i].frame], skipped)}
<1> DEFINE frames == [i \in DOMAIN map |-> map[i].frame]
           P == Places(s, rows, map, Rows)
           R == RowsOf(s, rows, d_database, frames, skipped)
<1>1. DOMAIN d_database = 1 .. Rows
  BY LenProperties DEF Rows
<1>2. ASSUME NEW g, g \in DataUpTo(s, rows, map, Rows)
      PROVE  g \in {Sized(f) : f \in R}
  <2>1. PICK n \in P : g = Sized(map[d_database[n]].frame)
    BY <1>2 DEF DataUpTo
  <2>2. n \in DOMAIN d_database /\ d_database[n] \in rows \cap DOMAIN map /\ <<s, n>> \notin skipped
    BY <1>1 DEF Places
  <2>3. frames[d_database[n]] \in R /\ frames[d_database[n]] = map[d_database[n]].frame
    BY <2>2 DEF RowsOf
  <2> QED BY <2>1, <2>3
<1>3. ASSUME NEW g, g \in {Sized(f) : f \in R}
      PROVE  g \in DataUpTo(s, rows, map, Rows)
  <2>1. PICK f \in R : g = Sized(f)
    BY <1>3
  <2>2. PICK n \in DOMAIN d_database :
           <<s, n>> \notin skipped /\ d_database[n] \in rows \cap DOMAIN map /\ f = frames[d_database[n]]
    BY DEF RowsOf
  <2>3. n \in P /\ f = map[d_database[n]].frame
    BY <1>1, <2>2 DEF Places
  <2> QED BY <2>1, <2>3 DEF DataUpTo
<1> QED BY <1>2, <1>3

(* What was exported, but for what was left out.                                   *)
Matches(c) ==
  /\ c.db = original.statements
  /\ c.prefs = original.sharedprefs
  /\ c.kvs = original.keyvalues
  /\ c.att = {Sized(f) : f \in OfRows("attachment", PartRows, original.attachments)}
  /\ c.stk = {Sized(f) : f \in OfRows("sticker", StickerRows, original.stickers)}
  /\ c.ava = {Sized(f) : f \in NotSkipped("avatars", original.avatars)}
  /\ c.end = "read"

(* Written of all avatars are those that were not left out.                        *)
LEMMA AllAvatars ==
  ASSUME ContentOK
  PROVE  AvatarsUpTo(Len(d_avatars)) =
           {Sized(f) : f \in {d_avatars[n].frame : n \in {m \in DOMAIN d_avatars : <<"avatars", m>> \notin skipped}}}
<1>1. DOMAIN d_avatars = 1 .. Len(d_avatars)
  BY LenProperties DEF ContentOK
<1> QED BY <1>1 DEF AvatarsUpTo

(* A whole export has all of it.                                                   *)
LEMMA WholeExportMatches ==
  ASSUME ContentOK, original' = Content, NEW c, c = UpTo(Rows, Rows, Prefs, Keys, Len(d_avatars), "read")
  PROVE  Matches(c)'
<1>0. /\ d_database \in Seq(Ids) /\ d_sharedpreferenceframes \in Seq(Ids) /\ d_keyvalueframes \in Seq(Ids)
  BY DEF ContentOK
<1>1. /\ c.db = SubSeq(d_database, 1, Rows) /\ c.prefs = SubSeq(d_sharedpreferenceframes, 1, Prefs)
      /\ c.kvs = SubSeq(d_keyvalueframes, 1, Keys)
      /\ c.att = DataUpTo("attachment", PartRows, d_attachments, Rows)
      /\ c.stk = DataUpTo("sticker", StickerRows, d_stickers, Rows)
      /\ c.ava = AvatarsUpTo(Len(d_avatars)) /\ c.end = "read"
  BY DEF UpTo
<1>2. /\ SubSeq(d_database, 1, Rows) = d_database
      /\ SubSeq(d_sharedpreferenceframes, 1, Prefs) = d_sharedpreferenceframes
      /\ SubSeq(d_keyvalueframes, 1, Keys) = d_keyvalueframes
  BY <1>0, SubSeqFull DEF Rows, Prefs, Keys
<1>3. /\ original'.statements = d_database /\ original'.sharedprefs = d_sharedpreferenceframes
      /\ original'.keyvalues = d_keyvalueframes /\ original'.skipped = skipped
      /\ original'.attachments = [i \in DOMAIN d_attachments |-> d_attachments[i].frame]
      /\ original'.stickers = [i \in DOMAIN d_stickers |-> d_stickers[i].frame]
      /\ original'.avatars = [i \in DOMAIN d_avatars |-> d_avatars[i].frame]
  BY DEF Content
<1>4. /\ OfRows("attachment", PartRows, original.attachments)'
           = RowsOf("attachment", PartRows, original'.statements, original'.attachments, original'.skipped)
      /\ OfRows("sticker", StickerRows, original.stickers)'
           = RowsOf("sticker", StickerRows, original'.statements, original'.stickers, original'.skipped)
  BY DEF OfRows, NotSkipped, RowsOf
<1>5. c.att = {Sized(f) : f \in OfRows("attachment", PartRows, original.attachments)}'
  <2> DEFINE R == RowsOf("attachment", PartRows, d_database, [i \in DOMAIN d_attachments |-> d_attachments[i].frame], skipped)
  <2>1. DataUpTo("attachment", PartRows, d_attachments, Rows) = {Sized(f) : f \in R}
    BY ONLY <1>0, RowsOfIs
  <2>2. OfRows("attachment", PartRows, original.attachments)' = R
    BY <1>3, <1>4
  <2> HIDE DEF R
  <2>3. {Sized(f) : f \in OfRows("attachment", PartRows, original.attachments)}' = {Sized(f) : f \in R}
    BY <2>2 DEF Sized
  <2> QED BY <1>1, <2>1, <2>3
<1>6. c.stk = {Sized(f) : f \in OfRows("sticker", StickerRows, original.stickers)}'
  <2> DEFINE R == RowsOf("sticker", StickerRows, d_database, [i \in DOMAIN d_stickers |-> d_stickers[i].frame], skipped)
  <2>1. DataUpTo("sticker", StickerRows, d_stickers, Rows) = {Sized(f) : f \in R}
    BY ONLY <1>0, RowsOfIs
  <2>2. OfRows("sticker", StickerRows, original.stickers)' = R
    BY <1>3, <1>4
  <2> HIDE DEF R
  <2>3. {Sized(f) : f \in OfRows("sticker", StickerRows, original.stickers)}' = {Sized(f) : f \in R}
    BY <2>2 DEF Sized
  <2> QED BY <1>1, <2>1, <2>3
<1>7. NotSkipped("avatars", original.avatars)'
        = {d_avatars[n].frame : n \in {m \in DOMAIN d_avatars : <<"avatars", m>> \notin skipped}}
  BY <1>3 DEF NotSkipped
<1>8. c.ava = {Sized(f) : f \in NotSkipped("avatars", original.avatars)}'
  BY <1>1, <1>7, AllAvatars DEF Sized
<1>9. c.db = original'.statements /\ c.prefs = original'.sharedprefs /\ c.kvs = original'.keyvalues
  BY <1>1, <1>2, <1>3
<1> QED BY <1>1, <1>5, <1>6, <1>8, <1>9 DEF Matches

(* Where the second run stands: what it has loaded of a whole export.              *)
SecondLoad ==
  run = 2 =>
    /\ file = out /\ keyok
    /\ original.written <=> stage = "written"
    /\ Ended(out) => LoadedSoFar /\ Matches(LoadedBy(file))

(* What was written to its end is a whole file.                                    *)
LEMMA WholeIs ==
  ASSUME LoadableOutput, SoundOutput, Ended(out), file = out
  PROVE  Whole(file)
BY DEF LoadableOutput, SoundOutput, Known, Whole

(* The second run starts.                                                          *)
LEMMA LoadedStarts ==
  ASSUME CopyInv, LoadableOutput, Reopen
  PROVE  SecondLoad'
<1>1. /\ run = 1 /\ run' = 2 /\ original' = Content /\ file' = out /\ UNCHANGED <<out, stage>>
      /\ command' = [command EXCEPT !.keyok = TRUE]
  BY DEF Reopen, exportVars, encryptorVars
<1>2. keyok'
  <2>1. command \in CommandLines
    BY DEF CopyInv, SessionInv, TypeOK
  <2>2. command'.keyok = TRUE
    BY <1>1, <2>1 DEF CommandLines
  <2> QED BY <2>2 DEF keyok
<1>3. original'.written <=> stage' = "written"
  BY <1>1 DEF Content
<1>4. ASSUME Ended(out)
      PROVE  LoadedSoFar' /\ Matches(LoadedBy(file))'
  <2> DEFINE c == LoadedBy(out)
  <2>1. stage = "written" /\ c = Written
    BY <1>1, <1>4 DEF LoadableOutput
  <2>2. c = UpTo(Rows, Rows, Prefs, Keys, Len(d_avatars), "read")
    BY <2>1 DEF Written
  <2>3. ContentOK /\ out \in Seq(Blocks(Ids))
    BY DEF CopyInv, SessionInv, OutputOK
  <2>4. PICK x : x = c
    OBVIOUS
  <2>5. Matches(x)'
    <3> HIDE DEF c
    <3> QED BY <1>1, <2>2, <2>3, <2>4, WholeExportMatches
  <2>6. LoadedBy(file') = LoadedBy(out)
    BY <1>1
  <2>7. Matches(LoadedBy(file))'
    BY <2>4, <2>5, <2>6
  <2>8. LoadedAmong(out)[0] = Nothing
    BY <2>3, LoadedAmongIs DEF Adds
  <2>9. Memory' = Nothing
    <3>1. /\ d_database' = <<>> /\ d_avatars' = <<>> /\ d_attachments' = <<>> /\ d_stickers' = <<>>
          /\ d_sharedpreferenceframes' = <<>> /\ d_keyvalueframes' = <<>> /\ d_endframe' = "none"
      BY DEF Reopen
    <3>2. FramesOf(<<>>) = {}
      BY DEF FramesOf
    <3> QED BY <3>1, <3>2 DEF Memory, Nothing, FramesOf
  <2>10. pc' = "get" /\ pos' = 1 /\ pos' - 1 = 0
    BY DEF Reopen
  <2>11. pos' <= Len(file') + 1
    BY <1>1, <2>3, <2>10, LenProperties
  <2>12. LoadedAmong(file')[pos' - 1] = Nothing
    BY <1>1, <2>8, <2>10
  <2> QED BY <2>7, <2>9, <2>10, <2>11, <2>12 DEF LoadedSoFar
<1> QED BY <1>1, <1>2, <1>3, <1>4 DEF SecondLoad

(* A step of its load.                                                             *)
LEMMA SecondLoadLoads ==
  ASSUME SessionInv, KeyedById, NoLossWithKey, SoundOutput, LoadableOutput, SecondLoad, run = 2, Load
  PROVE  SecondLoad'
<1>1. LoadNext /\ UNCHANGED <<out, stage, run, original>>
  BY DEF Load, exportVars, encryptorVars, taskVars
<1>2. file' = file /\ command' = command
  BY <1>1, Zenon DEF LoadNext, CallGetFrame, HandleFrame, HandleCrash, Finish
<1>3. /\ file = out /\ keyok
      /\ original.written <=> stage = "written"
      /\ Ended(out) => LoadedSoFar /\ Matches(LoadedBy(file))
  BY DEF SecondLoad
<1>4. keyok' /\ (original'.written <=> stage' = "written") /\ file' = out'
  BY <1>1, <1>2, <1>3 DEF keyok
<1>5. ASSUME Ended(out)
      PROVE  LoadedSoFar' /\ Matches(LoadedBy(file))'
  <2>1. LoadedSoFar'
    <3>1. Whole(file) /\ NoLoss /\ TypeOK /\ ContentOK
      BY <1>3, <1>5, WholeIs DEF NoLossWithKey, SessionInv
    <3> QED BY <1>1, <1>3, <1>5, <3>1, WholeFileLoads
  <2>2. Matches(LoadedBy(file))
    BY <1>3, <1>5
  <2>3. LoadedBy(file)' = LoadedBy(file)
    BY <1>2
  <2>4. PICK x : x = LoadedBy(file)
    OBVIOUS
  <2>5. Matches(x)' <=> Matches(x)
    BY <1>1 DEF Matches, OfRows, NotSkipped, Sized
  <2>6. Matches(LoadedBy(file))'
    BY <2>2, <2>3, <2>4, <2>5
  <2> QED BY <2>1, <2>6
<1> QED BY <1>1, <1>4, <1>5 DEF SecondLoad

(* It stays when nothing happens,                                                  *)
LEMMA SecondLoadStutter ==
  ASSUME SecondLoad, UNCHANGED vars
  PROVE  SecondLoad'
<1>1. /\ UNCHANGED <<file, command, out, stage, run, original, pc, pos, frame, d_badmac>>
      /\ UNCHANGED <<d_database, d_attachments, d_stickers, d_avatars, d_sharedpreferenceframes,
                     d_keyvalueframes, d_endframe>>
  BY DEF vars, loadVars, contentVars, decryptorVars, exportVars, encryptorVars, taskVars
<1>2. Memory' = Memory
  BY <1>1, MemoryStays
<1>3. /\ LoadedAmong(file)' = LoadedAmong(file) /\ LoadedBy(file)' = LoadedBy(file)
  BY <1>1
<1>4. LoadedSoFar' <=> LoadedSoFar
  BY <1>1, <1>2, <1>3 DEF LoadedSoFar
<1>5. Matches(LoadedBy(file))' <=> Matches(LoadedBy(file))
  BY <1>1, <1>3 DEF Matches, OfRows, NotSkipped, Sized
<1>6. keyok' <=> keyok
  BY <1>1 DEF keyok
<1> QED BY <1>1, <1>4, <1>5, <1>6 DEF SecondLoad

(* and at every step of a session.                                                 *)
LEMMA SecondLoadInductive ==
  ASSUME CopyInv, KeyedById, NoLossWithKey, SoundOutput, LoadableOutput, SecondLoad, [SessionNext]_vars
  PROVE  SecondLoad'
<1>0. SessionInv
  BY DEF CopyInv
<1>1. CASE run = 2 /\ SessionNext
  BY <1>0, <1>1, OnlyLoads, SecondLoadLoads
<1>2. CASE UNCHANGED vars
  BY <1>2, SecondLoadStutter
<1>3. CASE run # 2 /\ Reopen
  BY <1>3, LoadedStarts
<1>4. CASE run # 2 /\ ~Reopen /\ SessionNext
  <2>1. run' = run
    <3>1. CASE Load \/ StartTask \/ Output
      BY <3>1 DEF Load, StartTask, Output, taskVars
    <3>2. CASE UseMedia
      BY <3>2, Zenon DEF UseMedia, DumpMedia, HTMLwriteAttachment, PassOver, Use
    <3> QED BY <1>4, <3>1, <3>2 DEF SessionNext
  <2> QED BY <1>4, <2>1 DEF SecondLoad
<1> QED BY <1>1, <1>2, <1>3, <1>4

(* With the right passphrase what comes before the first damage is never lost, in  *)
(* either run.                                                                     *)
LEMMA SessionLosesNothing ==
  ASSUME SessionInv, NoLossWithKey, [SessionNext]_vars
  PROVE  NoLossWithKey'
<1>1. CASE Load
  <2>1. LoadNext /\ TypeOK
    BY <1>1 DEF Load, SessionInv
  <2> QED BY <2>1, NoLossInductive
<1>2. CASE Reopen
  <2>1. StartLoad'
    <3>1. OpenFile(FirstCounter)'
      BY <1>2 DEF Reopen, OpenFile
    <3> QED BY <1>2, <3>1 DEF Reopen, StartLoad
  <2> QED BY <2>1, NoLossStarts, PTL
<1>3. CASE StartTask \/ UseMedia \/ Output \/ UNCHANGED vars
  <2>1. UNCHANGED restVars
    <3>1. CASE StartTask \/ UNCHANGED vars
      BY <3>1 DEF StartTask, vars, loadVars, contentVars, restVars
    <3>2. CASE UseMedia
      BY <3>2, Zenon DEF UseMedia, DumpMedia, HTMLwriteAttachment, PassOver, Use
    <3>3. CASE Output
      BY <3>3 DEF Output, ExportStep, StartExport, RefuseExport, WriteVersion,
         WriteRow, WriteAttachment, WriteSticker, WriteSharedPref, WriteKeyValue, WriteAvatar,
         AvatarsWritten, WriteEnd, FlushFails, DiskFull
    <3> QED BY <1>3, <3>1, <3>2, <3>3
  <2>2. UNCHANGED <<file, command, decryptorVars, delivered>> /\ pc' = pc
    BY <2>1 DEF restVars
  <2>3. keyok' => keyok
    BY <2>2 DEF keyok
  <2> QED BY <2>2, <2>3, NoLossStutter DEF NoLossWithKey
<1> QED BY <1>1, <1>2, <1>3 DEF SessionNext

(* Only from a file that was written to its end an end frame is read.              *)
LEMMA EndIsRead ==
  ASSUME TypeOK, Traced, d_endframe = "read"
  PROVE  Ended(file)
<1> DEFINE n == Len(file)
<1>1. FileTypeOK /\ WellFormed(file, FirstCounter) /\ n \in Nat \ {0} /\ file \in Seq(Blocks(Ids))
  BY FileType DEF TypeOK, FileTypeOK
<1>2. \A k \in 1 .. n : file[k].frame.type = "END" => k = n
  <2>1. file[1].frame.type = "HEADER" /\ \A k \in 2 .. n : file[k].frame.type = "END" => k = n
    BY <1>1 DEF WellFormed
  <2> QED BY <1>1, <2>1
<1>3. PICK e \in 1 .. Len(delivered) : delivered[e].frame.type = "END"
  BY DEF Traced
<1>4. FromFile(delivered[e]) /\ delivered[e].frame # InvalidFrame
  BY <1>3 DEF Traced, InvalidFrame
<1>5. delivered[e].at \in 1 .. n /\ file[delivered[e].at].frame.type = "END"
  BY <1>3, <1>4 DEF FromFile
<1>6. file[n].frame.type = "END"
  BY <1>2, <1>5
<1>7. file # <<>>
  BY <1>1
<1> QED BY <1>6, <1>7 DEF Ended

(* So the second run has what the first one had.                                   *)
LEMMA LoadedIsExported ==
  ASSUME TypeOK, Traced, LoadableOutput, SecondLoad
  PROVE  RoundTrip
<1>1. ASSUME Reloaded, Ended(out)
      PROVE  /\ d_database = original.statements
             /\ d_sharedpreferenceframes = original.sharedprefs
             /\ d_keyvalueframes = original.keyvalues
             /\ FramesOf(d_attachments) = {Sized(f) : f \in OfRows("attachment", PartRows, original.attachments)}
             /\ FramesOf(d_stickers) = {Sized(f) : f \in OfRows("sticker", StickerRows, original.stickers)}
             /\ FramesOf(d_avatars) = {Sized(f) : f \in NotSkipped("avatars", original.avatars)}
             /\ d_endframe = "read" /\ original.written
  <2>1. /\ run = 2 /\ pc = "done" /\ LoadedSoFar /\ Matches(LoadedBy(file))
        /\ original.written <=> stage = "written"
    BY <1>1 DEF Reloaded, SecondLoad
  <2>2. Memory = LoadedBy(file)
    BY <2>1 DEF LoadedSoFar
  <2>3. Matches(Memory)
    BY <2>1, <2>2
  <2>4. /\ Memory.db = d_database /\ Memory.prefs = d_sharedpreferenceframes
        /\ Memory.kvs = d_keyvalueframes /\ Memory.att = FramesOf(d_attachments)
        /\ Memory.stk = FramesOf(d_stickers) /\ Memory.ava = FramesOf(d_avatars)
        /\ Memory.end = IF d_endframe = "read" THEN "read" ELSE "none"
    BY DEF Memory
  <2>5. stage = "written"
    BY <1>1 DEF LoadableOutput
  <2>6. d_endframe = "read"
    <3>1. Memory.end = "read" /\ "none" # "read"
      BY <2>3 DEF Matches
    <3> QED BY <2>4, <3>1
  <2>7. original.written
    BY <2>1, <2>5
  <2> QED BY <2>3, <2>4, <2>6, <2>7 DEF Matches
<1>2. Reloaded /\ original.written /\ ~FlushMayFail => Ended(out)
  BY DEF Reloaded, SecondLoad, LoadableOutput
<1>3. Reloaded /\ d_endframe = "read" => Ended(out)
  BY EndIsRead DEF Reloaded, SecondLoad
<1> QED BY <1>1, <1>2, <1>3 DEF RoundTrip

-----------------------------------------------------------------------------
(* What makes the round trip work, step for step.                                  *)
TripInv ==
  /\ CopyInv /\ RowsDistinct /\ KeyedById
  /\ OwnData /\ Readable /\ NoLossWithKey
  /\ LoadableOutput /\ SecondLoad

(* Before the first run nothing is written or loaded,                              *)
LEMMA TripStarts == SessionInit => TripInv
<1> SUFFICES ASSUME SessionInit PROVE TripInv
  OBVIOUS
<1>1. /\ StartLoad /\ out = <<>> /\ stage = "idle" /\ run = 1 /\ skipped = {}
  BY DEF SessionInit, Init
<1>2. d_database = <<>> /\ d_attachments = <<>> /\ d_stickers = <<>>
  BY <1>1 DEF StartLoad
<1>3. CopyInv
  BY <1>1, SessionStarts DEF CopyInv, CopyPlace
<1>4. RowsDistinct /\ KeyedById
  BY <1>2 DEF RowsDistinct, KeyedById, ById
<1>5. OwnData /\ Traced /\ NoLossWithKey
  BY <1>1, OwnDataStarts, TracedStarts, NoLossStarts
<1>6. Readable
  BY <1>1, <1>5 DEF Readable, SoundOutput, Sound, SecondRun, Writing
<1>7. LoadableOutput
  BY <1>1 DEF LoadableOutput, Known, Ahead, Ended, Writing
<1>8. SecondLoad
  BY <1>1 DEF SecondLoad
<1> QED BY <1>3, <1>4, <1>5, <1>6, <1>7, <1>8 DEF TripInv

(* and every step of a session keeps it.                                           *)
LEMMA TripInductive == TripInv /\ [SessionNext]_vars => TripInv'
<1> SUFFICES ASSUME TripInv, [SessionNext]_vars PROVE TripInv'
  OBVIOUS
<1>1. /\ CopyInv /\ RowsDistinct /\ KeyedById /\ OwnData /\ Readable /\ NoLossWithKey
      /\ LoadableOutput /\ SecondLoad /\ SessionInv /\ SoundOutput
  BY DEF TripInv, CopyInv, Readable
<1>2. CopyInv'
  BY <1>1, SessionInductive, StepCopies DEF CopyInv
<1>3. RowsDistinct'
  BY <1>1, RowsStayDistinct
<1>4. KeyedById'
  BY <1>1, KeyedInductive
<1>5. OwnData' /\ Readable'
  BY <1>1, ReadableInductive
<1>6. NoLossWithKey'
  BY <1>1, SessionLosesNothing
<1>7. LoadableOutput'
  <2>1. SoundOutput'
    BY <1>5 DEF Readable
  <2> QED BY <1>1, <1>2, <2>1, LoadableInductive
<1>8. SecondLoad'
  BY <1>1, SecondLoadInductive
<1> QED BY <1>2, <1>3, <1>4, <1>5, <1>6, <1>7, <1>8 DEF TripInv

(* If the second run reads an end frame, what it has in memory is what the first   *)
(* run exported, whatever the size of the backup: the statements, preferences and  *)
(* key values in their order, and every attachment, sticker and avatar that was    *)
(* not left out; and it reads one whenever the export was reported as done and its *)
(* last flush did not fail.                                                        *)
THEOREM ExportedIsReloaded == SessionSpec => []RoundTrip
<1>1. TripInv => RoundTrip
  BY LoadedIsExported DEF TripInv, CopyInv, SessionInv, Readable
<1> QED BY <1>1, TripStarts, TripInductive, PTL DEF SessionSpec
================================================================================
