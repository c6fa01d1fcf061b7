------------------------------ MODULE MCMessageBody ------------------------------
(* MessageBody on four short texts: one with every kind of character, a mention *)
(* and up to three styles on any stretches of it; the same as a quote; one with *)
(* a link, and up to two styles; and one of emoji.                              *)
EXTENDS MessageBody

(* Stretches of a text, from one character to another.                          *)
Borders(text) == {Units(SubSeq(text, 1, i)) : i \in 0 .. Len(text)}
Stretches(text) ==
  {[start |-> b[1], length |-> b[2] - b[1]] : b \in {b \in Borders(text) \X Borders(text) : b[1] < b[2]}}

(* The lists with at most one range of each of these styles.                    *)
RECURSIVE Styled(_, _)
Styled(text, styles) ==
  IF styles = <<>> THEN {<<>>}
  ELSE {first \o rest : rest \in Styled(text, Tail(styles)),
          first \in {<<>>} \cup {<<[start |-> r.start, length |-> r.length, style |-> Head(styles)]>>
                                 : r \in Stretches(text)}}

Message(text, mentions, styles, linkify, isquote) ==
  [text |-> text, mentions |-> mentions, styles |-> styles, linkify |-> linkify, isquote |-> isquote]

Text == <<"special", "emoji", "placeholder", "wide">>
Contact == [start |-> 3, length |-> 1]
LinkText == <<"wide", "url", "hash", "url", "special">>
Emoji == <<"emoji", "space", "emoji">>

MCMessages ==
  {Message(Text, m, s, FALSE, FALSE)
     : s \in Styled(Text, <<"bold", "spoiler", "italic">>), m \in {<<>>, <<Contact>>}}
  \cup
  {Message(Text, <<Contact>>, s, FALSE, TRUE) : s \in Styled(Text, <<"strikethrough">>)}
  \cup
  {Message(LinkText, <<>>, s, TRUE, FALSE) : s \in Styled(LinkText, <<"monospace", "link">>)}
  \cup
  {Message(Emoji, <<>>, s, TRUE, FALSE) : s \in Styled(Emoji, <<"bold", "spoiler">>)}
=============================================================================
