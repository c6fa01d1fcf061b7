------------------------------- MODULE MessageBody -------------------------------
(* HTMLprepMsgBody: the body of a message is made into HTML by a sequence of    *)
(* passes over one string.  Mentions, styles and links become ranges, which     *)
(* are put into the string as tags; then what is not a tag is escaped, and at   *)
(* last emoji are put into spans.  Each pass moves what the next ones refer to  *)
(* by position.                                                                 *)
EXTENDS MessageRanges

CONSTANTS Messages  \* the messages to render

Breakable == {"bold", "italic", "strikethrough", "monospace"}
Unbreakable == {"spoiler", "link"}

(* A message: its text, the ranges of its mentions, its styles in the order of  *)
(* the body range list, and how it is called.                                   *)
ASSUME MessagesAssumption ==
  \A m \in Messages :
    /\ m.text \in Seq(Characters) \ {<<>>}
    /\ \A r \in ToSet(m.mentions) \cup ToSet(m.styles) :
         r.start \in Nat /\ r.length \in Nat
    /\ \A r \in ToSet(m.styles) : r.style \in Breakable \cup Unbreakable
    /\ m.linkify \in BOOLEAN /\ m.isquote \in BOOLEAN

VARIABLES
  message,
  body,        \* the string
  ranges,
  rangesidx,   \* the range applyRanges is at, from 1
  bodyidx,     \* the byte it is at, from 0
  positions_excluded_from_escape,
  all_emoji,   \* what HTMLemojify returns
  stage        \* "prepare", "apply", "escape", "emojify" or "done"

vars == <<message, body, ranges, rangesidx, bodyidx, positions_excluded_from_escape,
          all_emoji, stage>>
-----------------------------------------------------------------------------
(* The name of a contact holds a character to be escaped.                       *)
Name == Piece("char", "plain", 1) \o Piece("char", "special", 1)

Mention(m, isquote) ==
  Span(m.start, m.length, IF isquote THEN <<>> ELSE Open("mention"), Name,
       IF isquote THEN <<>> ELSE Close("mention"), TRUE)

Style(s) ==
  Span(s.start, s.length, Open(s.style), <<>>, Close(s.style), s.style \in Unbreakable)

(* The first and the last character of the links in the text.                   *)
Links(text) ==
  LET inurl(i) == i \in DOMAIN text /\ text[i] \in {"url", "hash"}
  IN  {l \in (DOMAIN text) \X (DOMAIN text) :
         /\ l[1] <= l[2] /\ text[l[1]] = "url" /\ ~inurl(l[1] - 1) /\ ~inurl(l[2] + 1)
         /\ \A i \in l[1] .. l[2] : inurl(i)}

(* HTMLLinkifyToken: each '#' in a link behind its first is written as three    *)
(* characters in the href, and the range is made longer by as many.             *)
LinkRange(text, l) ==
  LET found  == SubSeq(text, l[1], l[2])
      hashes == Cardinality({i \in DOMAIN found : found[i] = "hash"})
  IN  Span(Units(SubSeq(text, 1, l[1] - 1)),
           Units(found) + (IF hashes > 1 THEN 2 * (hashes - 1) ELSE 0),
           Open("link"), <<>>, Close("link"), TRUE)

HTMLLinkify(text) ==
  LET links == SetToSortSeq(Links(text), LAMBDA a, b : a[1] < b[1])
  IN  [i \in DOMAIN links |-> LinkRange(text, links[i])]

(* Links are looked for only if none of the styles is one.                      *)
RangesOf(m) ==
  LET styles == SelectSeq(m.styles, LAMBDA s : s.length # 0)
  IN  [i \in DOMAIN m.mentions |-> Mention(m.mentions[i], m.isquote)]
        \o [i \in DOMAIN styles |-> Style(styles[i])]
        \o (IF m.linkify /\ \A i \in DOMAIN styles : styles[i].style # "link"
            THEN HTMLLinkify(m.text) ELSE <<>>)

Init ==
  /\ message \in Messages
  /\ body = Encoded(message.text)
  /\ ranges = Sorted(RangesOf(message))
  /\ rangesidx = 1 /\ bodyidx = 0
  /\ positions_excluded_from_escape = {}
  /\ all_emoji = FALSE
  /\ stage = "prepare"
-----------------------------------------------------------------------------
(* prepRanges calls itself after each change.                                   *)
PrepareRanges ==
  /\ stage = "prepare" /\ Conflicts(ranges) # {}
  /\ \E new \in {prepRanges(ranges)} : ranges' = Sorted(new)
  /\ UNCHANGED <<message, body, rangesidx, bodyidx, positions_excluded_from_escape,
                 all_emoji, stage>>

RangesPrepared ==
  /\ stage = "prepare" /\ Conflicts(ranges) = {}
  /\ stage' = "apply"
  /\ UNCHANGED <<message, body, ranges, rangesidx, bodyidx, positions_excluded_from_escape,
                 all_emoji>>

Applying == stage = "apply" /\ bodyidx < Len(body) /\ rangesidx <= Len(ranges)

Moved(from, by) ==
  [i \in DOMAIN ranges |-> IF i >= from THEN [ranges[i] EXCEPT !.start = @ + by] ELSE ranges[i]]

(* The range's characters, or what replaces them, are put between its tags.     *)
ApplyRange ==
  /\ Applying /\ bodyidx = ranges[rangesidx].start
  /\ LET r           == ranges[rangesidx]
         rest        == SubSeq(body, bodyidx + 1, Len(body))
         length      == numBytesInUtf16Substring(rest, r.length)
         replacement == IF Replaces(r) THEN r.replacement ELSE SubSeq(rest, 1, length)
         new         == r.pre \o replacement \o r.post
         post        == bodyidx + Len(r.pre) + Len(replacement)
     IN  /\ body' = SubSeq(body, 1, bodyidx) \o new \o SubSeq(rest, length + 1, Len(rest))
         /\ positions_excluded_from_escape' =
              positions_excluded_from_escape \cup (bodyidx .. bodyidx + Len(r.pre) - 1)
                                             \cup (post .. post + Len(r.post) - 1)
         /\ ranges' = Moved(rangesidx + 1, Len(new) - r.length)
         /\ bodyidx' = bodyidx + Len(new)
  /\ LET ahead == {i \in DOMAIN ranges : i > rangesidx /\ ranges'[i].start >= bodyidx'}
     IN  rangesidx' = IF ahead = {} THEN Len(ranges) + 1 ELSE Min(ahead)
  /\ UNCHANGED <<message, all_emoji, stage>>

(* Mutant: the range that is next is left where it was.                         *)
NextCharacter_NextStays ==
  /\ Applying /\ bodyidx # ranges[rangesidx].start
  /\ LET c == body[bodyidx + 1].name
     IN  /\ ranges' = Moved(rangesidx + 1, Utf8Size(c) - utf16CharSize(c))
         /\ bodyidx' = bodyidx + Utf8Size(c)
  /\ UNCHANGED <<message, body, rangesidx, positions_excluded_from_escape, all_emoji, stage>>

(* The ranges ahead count bytes from here on.                                   *)
NextCharacter ==
  /\ Applying /\ bodyidx # ranges[rangesidx].start
  /\ LET c == body[bodyidx + 1].name
     IN  /\ ranges' = Moved(rangesidx, Utf8Size(c) - utf16CharSize(c))
         /\ bodyidx' = bodyidx + Utf8Size(c)
  /\ UNCHANGED <<message, body, rangesidx, positions_excluded_from_escape, all_emoji, stage>>

RangesApplied ==
  /\ stage = "apply" /\ ~Applying
  /\ stage' = "escape"
  /\ UNCHANGED <<message, body, ranges, rangesidx, bodyidx, positions_excluded_from_escape,
                 all_emoji>>

Special(b) ==
  \/ b.kind \in {"open", "close"}
  \/ b.kind = "char" /\ b.name = "special"

(* HTMLescapeString: positions are compared with those before the escaping.     *)
HTMLescapeString ==
  /\ stage = "escape"
  /\ body' = FlattenSeq([i \in DOMAIN body |->
               IF Special(body[i]) /\ i - 1 \notin positions_excluded_from_escape
               THEN Entity(body[i]) ELSE <<body[i]>>])
  /\ stage' = "emojify"
  /\ UNCHANGED <<message, ranges, rangesidx, bodyidx, positions_excluded_from_escape, all_emoji>>

(* HTMLgetEmojiPos: where an emoji starts, from 1.                              *)
HTMLgetEmojiPos ==
  {i \in DOMAIN body : i + 3 <= Len(body) /\ SubSeq(body, i, i + 3) = Character("emoji")}

(* HTMLemojify: the positions of the tags are compared with, as they were       *)
(* before the escaping.                                                         *)
HTMLemojify ==
  /\ stage = "emojify"
  /\ LET emoji   == HTMLgetEmojiPos
         wrapped == {i \in emoji : i - 1 \notin positions_excluded_from_escape}
     IN  /\ body' = FlattenSeq([i \in DOMAIN body |->
                      (IF i \in wrapped THEN Open("emoji") ELSE <<>>) \o <<body[i]>>
                        \o (IF i - 3 \in wrapped THEN Close("emoji") ELSE <<>>)])
         /\ all_emoji' = ( /\ Cardinality(emoji) <= 5
                           /\ \A i \in DOMAIN body :
                                \/ body[i] = Character("space")[1]
                                \/ \E e \in emoji : i \in e .. e + 3)
  /\ stage' = "done"
  /\ UNCHANGED <<message, ranges, rangesidx, bodyidx, positions_excluded_from_escape>>

Next ==
  PrepareRanges \/ RangesPrepared \/ ApplyRange \/ NextCharacter \/ RangesApplied
  \/ HTMLescapeString \/ HTMLemojify

Spec == Init /\ [][Next]_vars /\ WF_vars(Next)
-----------------------------------------------------------------------------
(* Properties *)

(* What a reader of the string meets: characters, each within the elements that *)
(* are open there.  A closing tag ends the last of its name that was opened.    *)
Read(bytes) ==
  FoldLeft(LAMBDA r, b :
    CASE b.k # 1          -> r
      [] b.kind = "open"  -> [r EXCEPT !.open = Append(@, b.name)]
      [] b.kind = "close" /\ b.name \in ToSet(r.open) ->
           [r EXCEPT !.open = RemoveAt(@, SelectLastInSeq(@, LAMBDA style : style = b.name)),
                     !.nested = @ /\ Last(r.open) = b.name]
      [] b.kind = "close" -> [r EXCEPT !.open = Append(@, "none")]
      [] OTHER            -> [r EXCEPT !.seen = Append(@,
                               [kind |-> b.kind, name |-> b.name, in |-> ToSet(r.open)])],
    [open |-> <<>>, seen |-> <<>>, nested |-> TRUE], bytes)

Size(b) == CASE b.kind = "char" -> Utf8Size(b.name) [] b.kind = "entity" -> 5 [] OTHER -> 2

(* No character, entity or tag is cut in two.                                   *)
Unbroken(bytes) ==
  LET first == SelectSeq(bytes, LAMBDA b : b.k = 1)
  IN  bytes = FlattenSeq([i \in DOMAIN first |->
                Piece(first[i].kind, first[i].name, Size(first[i]))])

Within(r, unit) == r.start <= unit /\ unit < r.start + r.length

(* What a message should look like: every character in the styles of all the    *)
(* ranges it lies in, and names in the place of placeholders.                   *)
Rendering(m) ==
  FlattenSeq([i \in DOMAIN m.text |->
    LET unit      == Units(SubSeq(m.text, 1, i - 1))
        styles    == {s.style : s \in {s \in ToSet(m.styles) : Within(s, unit)}}
        links     == IF /\ m.linkify /\ \A s \in ToSet(m.styles) : s.style # "link"
                        /\ \E l \in Links(m.text) : l[1] <= i /\ i <= l[2]
                     THEN {"link"} ELSE {}
        mentioned == \E r \in ToSet(m.mentions) : Within(r, unit)
        in        == styles \cup links \cup (IF mentioned /\ ~m.isquote THEN {"mention"} ELSE {})
        seen(c)   == [kind |-> IF c = "special" THEN "entity" ELSE "char", name |-> c, in |-> in]
    IN  IF mentioned THEN <<seen("plain"), seen("special")>> ELSE <<seen(m.text[i])>>])

(* Ranges that lie apart or one in the other; or two, however they lie.         *)
Crosses(a, b) == a.start < b.start /\ b.start < End(a) /\ End(a) < End(b)

Regular(m) ==
  LET all == RangesOf(m)
  IN  Len(all) <= 2 \/ \A i, j \in DOMAIN all : ~Crosses(all[i], all[j])

(* HTMLprepMsgBody: every character comes out whole, once, in its place, within *)
(* the elements of all ranges it lies in and no others, mentions are replaced   *)
(* by names, what came from the message is escaped and the tags are not, every  *)
(* element is closed, and emoji are in spans if nothing was escaped.            *)
Renders ==
  stage = "done" /\ Regular(message) =>
    LET read  == Read(body)
        plain == [i \in DOMAIN read.seen |-> [read.seen[i] EXCEPT !.in = @ \ {"emoji"}]]
        escaped == \E i \in DOMAIN read.seen : read.seen[i].kind = "entity"
    IN  /\ Unbroken(body)
        /\ read.open = <<>>
        /\ plain = Rendering(message)
        /\ \A i \in DOMAIN read.seen :
             /\ "emoji" \in read.seen[i].in => read.seen[i].name = "emoji"
             /\ read.seen[i].name = "emoji" => "emoji" \in read.seen[i].in \/ escaped
        /\ all_emoji => ToSet(message.text) \subseteq {"emoji", "space"}

(* prepRanges: the elements are closed in the order they were opened in.        *)
TagsNest == stage = "done" /\ Regular(message) => Read(body).nested

(* prepRanges calls itself until nothing overlaps, which comes to an end.       *)
PrepEnds == <>(stage = "done")
=============================================================================
