------------------------------ MODULE MessageRanges ------------------------------
(* The text of a message in bytes, the ranges that style it, and prepRanges:    *)
(* ranges that overlap are rewritten, two neighbours at a time, until none do.  *)
(* Positions are those of the code, from 0: in the ranges of a message they     *)
(* count UTF-16 units, in a string they count bytes.                            *)
EXTENDS Integers, FiniteSets, SequencesExt

(* Characters, by what the code tells apart: their sizes, the ones HTML has to  *)
(* escape, emoji, the placeholder of a mention, and what links are made of.     *)
Characters == {"plain", "space", "special", "wide", "placeholder", "emoji", "url", "hash"}

Utf8Size(c) ==
  CASE c = "wide" -> 2 [] c = "placeholder" -> 3 [] c = "emoji" -> 4 [] OTHER -> 1

utf16CharSize(c) == IF c = "emoji" THEN 2 ELSE 1

(* A byte is the k-th of what it is part of: a character, an entity that stands *)
(* for one, or a tag.  All tags have two bytes, and both would be escaped.      *)
Piece(kind, name, size) == [k \in 1 .. size |-> [kind |-> kind, name |-> name, k |-> k]]
Character(c) == Piece("char", c, Utf8Size(c))
Open(style) == Piece("open", style, 2)
Close(style) == Piece("close", style, 2)
Entity(b) == Piece("entity", b.name, 5)

Encoded(text) == FlattenSeq([i \in DOMAIN text |-> Character(text[i])])
Units(text) == Len(text) + Cardinality({i \in DOMAIN text : text[i] = "emoji"})

UnitsIn(bytes) ==
  Cardinality({i \in DOMAIN bytes : bytes[i].k = 1})
    + Cardinality({i \in DOMAIN bytes : bytes[i] = Character("emoji")[1]})

(* numBytesInUtf16Substring: whole characters, until there are length units or  *)
(* the text is at its end.                                                      *)
numBytesInUtf16Substring(bytes, length) ==
  Min({n \in 0 .. Len(bytes) :
         \/ n = Len(bytes)
         \/ bytes[n + 1].k = 1 /\ UnitsIn(SubSeq(bytes, 1, n)) >= length})
-----------------------------------------------------------------------------
Span(start, length, pre, replacement, post, nobreak) ==
  [start |-> start, length |-> length, pre |-> pre, replacement |-> replacement,
   post |-> post, nobreak |-> nobreak]

End(r) == r.start + r.length

(* operator<, replacements being told apart only from none.                     *)
Less(a, b) ==
  \/ a.start < b.start
  \/ a.start = b.start /\ End(a) < End(b)
  \/ a.start = b.start /\ End(a) = End(b) /\ a.replacement = <<>> /\ b.replacement # <<>>

(* std::sort of so few elements leaves equal ones in their order.               *)
Sorted(ranges) ==
  LET before(i, j) == \/ Less(ranges[i], ranges[j])
                      \/ ~Less(ranges[j], ranges[i]) /\ i < j
      rank(j)      == Cardinality({i \in DOMAIN ranges : before(i, j)}) + 1
  IN  [n \in DOMAIN ranges |-> ranges[CHOOSE j \in DOMAIN ranges : rank(j) = n]]
-----------------------------------------------------------------------------
(* What may be between two neighbours a and b, by the cases of prepRanges.      *)
Replaces(r) == r.replacement # <<>>

SameSpan(a, b) == b.start = a.start /\ b.length = a.length /\ ~(Replaces(a) /\ Replaces(b))
SameStart(a, b) == b.start = a.start /\ b.length # a.length /\ ~Replaces(b)
SameEnd(a, b) == b.start # a.start /\ End(b) = End(a) /\ ~Replaces(a)
Crossing(a, b) ==
  /\ b.start # a.start /\ b.start < End(a) /\ End(b) > End(a)
  /\ ~Replaces(a) /\ ~Replaces(b)
Inside(a, b) == b.start # a.start /\ End(b) < End(a) /\ ~Replaces(a)

Conflict(a, b) ==
  SameSpan(a, b) \/ SameStart(a, b) \/ SameEnd(a, b) \/ Crossing(a, b) \/ Inside(a, b)

(* (1) One range that opens and closes both.                                    *)
Merge(a, b) ==
  <<[a EXCEPT !.pre = @ \o b.pre, !.post = b.post \o @,
              !.replacement = IF Replaces(b) THEN b.replacement ELSE @]>>

(* Mutant: the longer one starts again where it did.                            *)
OpenLongerFirst_NotMoved(a, b) == <<[a EXCEPT !.pre = b.pre \o @], [b EXCEPT !.pre = <<>>]>>

(* (2) The longer one is opened first, and goes on behind the shorter one.      *)
OpenLongerFirst(a, b) ==
  <<[a EXCEPT !.pre = b.pre \o @],
    [b EXCEPT !.pre = <<>>, !.start = End(a), !.length = @ - a.length]>>

(* (3) The longer one ends where the shorter one starts, which closes both.     *)
CloseTogether(a, b) ==
  <<[a EXCEPT !.post = <<>>, !.length = b.start - a.start], [b EXCEPT !.post = @ \o a.post]>>

(* (4a) The later one is broken where the earlier one ends.                     *)
BreakLater(a, b) ==
  LET inner == Span(b.start, End(a) - b.start, b.pre, <<>>, b.post \o a.post, FALSE)
  IN  <<[a EXCEPT !.length = b.start - a.start, !.post = <<>>],
        [b EXCEPT !.start = End(inner), !.length = @ - inner.length],
        inner>>

(* (4b) The earlier one is broken where the later one starts.                   *)
BreakEarlier(a, b) ==
  LET first == Span(a.start, b.start - a.start, a.pre, <<>>, a.post \o b.pre, FALSE)
  IN  <<[a EXCEPT !.start = b.start, !.length = @ - first.length],
        [b EXCEPT !.start = End(a), !.pre = <<>>, !.length = End(b) - End(a)],
        first>>

(* (5) The outer one is cut where the inner one starts, and goes on behind it.  *)
CutAround(a, b) ==
  <<[a EXCEPT !.post = <<>>, !.length = b.start - a.start], b,
    Span(End(b), End(a) - End(b), <<>>, <<>>, a.post, FALSE)>>

Rewritten(a, b) ==
  CASE SameSpan(a, b)  -> Merge(a, b)
    [] SameStart(a, b) -> OpenLongerFirst(a, b)
    [] SameEnd(a, b)   -> CloseTogether(a, b)
    [] Crossing(a, b)  -> IF b.nobreak /\ ~a.nobreak THEN BreakEarlier(a, b) ELSE BreakLater(a, b)
    [] Inside(a, b)    -> CutAround(a, b)

Conflicts(ranges) ==
  {i \in DOMAIN ranges \ {1} : Conflict(ranges[i - 1], ranges[i])}

(* One call of prepRanges, the ranges being sorted: the first two neighbours    *)
(* that overlap are rewritten, and what is new is put behind all others.        *)
prepRanges(ranges) ==
  LET i   == Min(Conflicts(ranges))
      new == Rewritten(ranges[i - 1], ranges[i])
      two == SubSeq(new, 1, IF Len(new) = 1 THEN 1 ELSE 2)
  IN  SubSeq(ranges, 1, i - 2) \o two \o SubSeq(ranges, i + 1, Len(ranges))
        \o SubSeq(new, 3, Len(new))
=============================================================================
