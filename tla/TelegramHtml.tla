----------------------------- MODULE TelegramHtml -----------------------------
(***************************************************************************)
(* What html_sanitizer makes of a text, and what Telegram takes: a text is *)
(* a sequence of tags and characters.  Line breaks are layout and left out. *)
(***************************************************************************)
EXTENDS Integers, Sequences, SequencesExt

Allowed == {"b", "strong", "i", "em", "u", "ins", "s", "strike", "del",
            "code", "pre", "blockquote", "tg-spoiler"}
Attributed == {"a", "span", "tg-emoji"}     \* kept if they have their attribute: `valid`
Void == {"br", "img", "hr", "input", "meta", "link"}
Nothing == ""                               \* on the stack: a tag that was not emitted

Open(tag, valid) == [kind |-> "open", tag |-> tag, valid |-> valid]
Close(tag) == [kind |-> "close", tag |-> tag, valid |-> TRUE]
Char == [kind |-> "char", tag |-> Nothing, valid |-> TRUE]
Texts == Seq({t \in [kind : {"open", "close", "char"}, tag : STRING \cup {Nothing}, valid : BOOLEAN] :
                  t.kind = "char" <=> t.tag = Nothing})

\* handle_starttag
StartTag(p, t) ==
    LET kept == t.tag \in Allowed \/ (t.tag \in Attributed /\ t.valid) IN
    IF t.tag \in Void THEN p
    ELSE [out |-> IF kept THEN Append(p.out, t) ELSE p.out,
          stack |-> Append(p.stack, IF kept THEN t.tag ELSE Nothing)]

\* What is closed with the entry i of the stack: all that was opened after it.
CloseFrom(p, i) ==
    LET inner == Reverse(SubSeq(p.stack, i, Len(p.stack)))
        closing == [k \in DOMAIN inner |-> IF inner[k] = Nothing THEN <<>> ELSE <<Close(inner[k])>>] IN
    [out |-> p.out \o FlattenSeq(closing), stack |-> SubSeq(p.stack, 1, i - 1)]

\* handle_endtag: the innermost opener of that name or, if there is none, the
\* innermost tag that was not emitted; a stray closing tag is dropped.
EndTag(p, t) ==
    LET openers == {i \in DOMAIN p.stack :
                        \/ p.stack[i] = t.tag
                        \/ p.stack[i] = Nothing /\ t.tag \notin ToSet(p.stack)} IN
    IF t.tag \in Void \/ openers = {} THEN p ELSE CloseFrom(p, Max(openers))

Handle(p, t) ==
    CASE t.kind = "open" -> StartTag(p, t)
      [] t.kind = "close" -> EndTag(p, t)
      [] t.kind = "char" -> [p EXCEPT !.out = Append(@, t)]

Fed(text) ==
    LET fed[n \in 0..Len(text)] == IF n = 0 THEN [out |-> <<>>, stack |-> <<>>] ELSE Handle(fed[n - 1], text[n])
    IN  fed[Len(text)]

\* The slip: what is still open stays open.
SanitizeUnclosed(text) == Fed(text).out

\* sanitize_telegram_html; get_output closes what is still open.
Sanitize(text) == CloseFrom(Fed(text), 1).out

\* strip_custom_emoji: each opening tag goes with the next closing one; an emoji
\* within an emoji keeps its tags.
Strip(p, t) ==
    IF t.tag = "tg-emoji" /\ (t.kind = "open") # p.inside THEN [p EXCEPT !.inside = ~@]
    ELSE [p EXCEPT !.out = Append(@, t)]

StripEmoji(text) ==
    LET stripped[n \in 0..Len(text)] == IF n = 0 THEN [out |-> <<>>, inside |-> FALSE] ELSE Strip(stripped[n - 1], text[n])
    IN  stripped[Len(text)].out
HasEmoji(text) == \E i \in DOMAIN text : text[i].tag = "tg-emoji"
EmojiNested(text) ==
    \E i, j \in DOMAIN text :
        /\ i < j
        /\ \A k \in {i, j} : text[k].tag = "tg-emoji" /\ text[k].kind = "open"
        /\ \A k \in i..j : text[k].tag = "tg-emoji" => text[k].kind = "open"

\* Telegram parses a text if every closing tag closes the innermost open one,
\* nothing stays open, and there are no other tags.
Nest(stack, t) ==
    CASE t.kind = "open" -> Append(stack, t.tag)
      [] t.kind = "close" -> IF stack # <<>> /\ Last(stack) = t.tag THEN Front(stack) ELSE Append(stack, Nothing)
      [] t.kind = "char" -> stack

StillOpen(text) ==
    LET open[n \in 0..Len(text)] == IF n = 0 THEN <<>> ELSE Nest(open[n - 1], text[n])
    IN  open[Len(text)]

Accepts(text) ==
    /\ StillOpen(text) = <<>>
    /\ \A i \in DOMAIN text : text[i].kind = "open" =>
          text[i].tag \in Allowed \/ (text[i].tag \in Attributed /\ text[i].valid)

Chars(text) == Cardinality({i \in DOMAIN text : text[i].kind = "char"})
===============================================================================
