----------------------------- MODULE TelegramPost -----------------------------
(***************************************************************************)
(* TelegramPublisher: one post is several messages, sent by one API call   *)
(* after the other.  If a call fails, the messages sent so far are deleted *)
(* again, and a post whose custom emoji were refused is sent once more     *)
(* without them.                                                           *)
(***************************************************************************)
EXTENDS TelegramHtml

CONSTANTS
    Callers,                        \* what may be posting at the same time
    AlbumMax, CaptionMax, TextMax,  \* Telegram's limits: 10, 1024, 4096
    PostFaults, MaxPostFaults       \* "refuse", "answer", "delete"

ASSUME PostAssumption ==
    /\ AlbumMax \in Nat \ {0} /\ CaptionMax \in Nat /\ TextMax \in Nat \ {0} /\ CaptionMax <= TextMax
    /\ MaxPostFaults \in Nat

VARIABLES
    call,           \* of a caller: the post it is sending
    shown,          \* the messages in the channels, as <<label of the post, attempt, call, position>>
    posts,          \* how many have been started
    postFaults      \* how many there have been

postVars == <<call, shown, posts, postFaults>>

NoLabel == [by |-> "nobody", about |-> {}, at |-> 0, serial |-> 0]
NoPost == [media |-> <<>>, text |-> <<>>, keys |-> FALSE, place |-> FALSE]
NotPosting == [pc |-> "none", label |-> NoLabel, post |-> NoPost, text |-> <<>>, attempt |-> 1, made |-> 0,
               undo |-> <<>>, why |-> "", ok |-> FALSE, stray |-> FALSE]

\* q: how many of the MaxPostFaults faults are used up.
PostInit(q) ==
    /\ call = [c \in Callers |-> NotPosting]
    /\ shown = {}
    /\ posts = 0
    /\ postFaults = q.postFaults

-------------------------------------------------------------------------------
(* What is sent: a sequence of API calls, each a sequence of messages.      *)

\* `item` is a position in the list of media, or one of these.
TextItem == 0
KeysItem == -1
PlaceItem == -2
Message(item, text, keys) == [item |-> item, text |-> text, keys |-> keys]
Cut(s, limit) == SubSeq(s, 1, Min({limit, Len(s)}))
Chunks(s, size) ==
    [k \in 1..((Len(s) + size - 1) \div size) |-> SubSeq(s, (k - 1) * size + 1, Min({k * size, Len(s)}))]

\* _split_media_groups, of the positions in the list of media.
OfTypes(media, types) ==
    LET hits == {i \in DOMAIN media : media[i] \in types}
        Nth(k) == CHOOSE i \in hits : Cardinality({j \in hits : j <= i}) = k
    IN  [k \in 1..Cardinality(hits) |-> Nth(k)]

Groups(media) ==
    Chunks(OfTypes(media, {"photo", "video"}), AlbumMax)
        \o Chunks(OfTypes(media, {"document"}), AlbumMax)
        \o Chunks(OfTypes(media, {"audio"}), AlbumMax)
        \o Chunks(OfTypes(media, {"animation", "voice", "video_note"}), 1)

\* _send_group: an album cannot have a keyboard, a video note no caption.
\* `held`: the ids are kept aside until the keyboard is out too.
Request(messages, held) == [messages |-> messages, held |-> held]

GroupRequests(media, group, caption, keys) ==
    IF Len(group) = 1
    THEN <<Request(<<Message(group[1], IF media[group[1]] = "video_note" THEN <<>> ELSE caption, keys)>>, FALSE)>>
    ELSE <<Request([k \in DOMAIN group |-> Message(group[k], IF k = 1 THEN caption ELSE <<>>, FALSE)], keys)>>
             \o (IF keys THEN <<Request(<<Message(KeysItem, <<>>, TRUE)>>, FALSE)>> ELSE <<>>)

\* The first group has the caption and the buttons; what is longer than a
\* caption follows as a text of its own.
MediaRequests(post, text) ==
    LET groups == Groups(post.media) IN
    FlattenSeq([g \in DOMAIN groups |->
        GroupRequests(post.media, groups[g], IF g = 1 THEN Cut(text, CaptionMax) ELSE <<>>, g = 1 /\ post.keys)])

SaysText(post, text) == <<Request(<<Message(TextItem, text, post.keys)>>, FALSE)>>

Requests(post, whole) ==
    LET text == Cut(whole, TextMax) IN
    (IF post.media = <<>> THEN SaysText(post, text)
     ELSE MediaRequests(post, text) \o (IF Len(text) > CaptionMax THEN SaysText(post, text) ELSE <<>>))
        \o (IF post.place THEN <<Request(<<Message(PlaceItem, <<>>, FALSE)>>, FALSE)>> ELSE <<>>)

RequestsOf(r) == Requests(r.post, r.text)

\* The messages of the n-th call, and of all calls up to it whose ids are known.
IdsOf(r, n) == [k \in DOMAIN RequestsOf(r)[n].messages |-> <<r.label, r.attempt, n, k>>]
Outstanding(r) == r.made > 0 /\ RequestsOf(r)[r.made].held

\* The slip: only the last call's messages are remembered.
KnownOfLast(r) == IF r.made = 0 \/ Outstanding(r) THEN <<>> ELSE IdsOf(r, r.made)

Known(r) ==
    FlattenSeq([n \in 1..(IF Outstanding(r) THEN r.made - 1 ELSE r.made) |-> IdsOf(r, n)])

-------------------------------------------------------------------------------
(* Sending.  The owner of a caller starts the post and takes its result.    *)

StartPost(c, by, about, at, post) ==
    /\ posts' = posts + 1
    /\ call' = [call EXCEPT ![c] = [NotPosting EXCEPT !.pc = "sending", !.post = post, !.text = Sanitize(post.text),
                   !.label = [by |-> by, about |-> {about}, at |-> at, serial |-> posts + 1]]]

PostFault(kind) ==
    /\ kind \in PostFaults /\ postFaults < MaxPostFaults
    /\ postFaults' = postFaults + 1

NextRequest(c) == RequestsOf(call[c])[call[c].made + 1].messages
Sending(c) == call[c].pc = "sending"
Takes(m) == Accepts(m.text) /\ (m.item = TextItem => Chars(m.text) > 0)
Parses(c) == \A k \in DOMAIN NextRequest(c) : Takes(NextRequest(c)[k])
Shows(c) == shown' = shown \cup ToSet(IdsOf(call[c], call[c].made + 1))

Deliver(c) ==
    LET r == call[c] IN
    /\ Sending(c) /\ Parses(c)
    /\ Shows(c)
    /\ call' = [call EXCEPT ![c] = [r EXCEPT !.made = @ + 1,
                    !.pc = IF r.made + 1 = Len(RequestsOf(r)) THEN "over" ELSE "sending",
                    !.ok = r.made + 1 = Len(RequestsOf(r))]]
    /\ UNCHANGED <<posts, postFaults>>

\* The exception handler begins to clean up.
Fails(c, why) ==
    LET r == call[c] IN
    call' = [call EXCEPT ![c] = [r EXCEPT !.pc = "undoing", !.undo = Known(r), !.why = why,
                                          !.stray = r.stray \/ why = "answer" \/ Outstanding(r)]]

\* Telegram cannot parse a text, or refuses for a reason of its own.
Refuse(c) ==
    /\ Sending(c)
    /\ \/ ~Parses(c) /\ Fails(c, "parse") /\ UNCHANGED postFaults
       \/ PostFault("refuse") /\ Fails(c, "refuse")
    /\ UNCHANGED <<posts, shown>>

\* The bot may not use the custom emoji of a text.
RefuseEmoji(c) ==
    /\ Sending(c) /\ Parses(c)
    /\ \E k \in DOMAIN NextRequest(c) : HasEmoji(NextRequest(c)[k].text)
    /\ Fails(c, "emoji")
    /\ UNCHANGED <<shown, posts, postFaults>>

\* Telegram sends it, and the answer is lost.
LoseAnswer(c) ==
    /\ Sending(c) /\ Parses(c)
    /\ PostFault("answer")
    /\ Shows(c)
    /\ Fails(c, "answer")
    /\ UNCHANGED posts

\* Deletes one message; an error is ignored.
Undo(c) ==
    LET r == call[c] IN
    /\ r.pc = "undoing" /\ r.undo # <<>>
    /\ UNCHANGED posts
    /\ \/ /\ shown' = shown \ {Head(r.undo)}
          /\ call' = [call EXCEPT ![c].undo = Tail(@)]
          /\ UNCHANGED postFaults
       \/ /\ PostFault("delete")
          /\ call' = [call EXCEPT ![c].undo = Tail(@), ![c].stray = TRUE]
          /\ UNCHANGED shown

\* publish(): once more without custom emoji, if it was them; else a failure.
\* What is stripped is the text that was sanitized before.
Undone(c) ==
    LET r == call[c]
        again == r.why = "emoji" /\ r.attempt = 1 IN
    /\ r.pc = "undoing" /\ r.undo = <<>>
    /\ call' = [call EXCEPT ![c] = IF again THEN [r EXCEPT !.pc = "sending", !.attempt = 2, !.made = 0,
                                                            !.text = Sanitize(StripEmoji(r.text))]
                                   ELSE [r EXCEPT !.pc = "over"]]
    /\ UNCHANGED <<shown, posts, postFaults>>

PostStep(c) == Deliver(c) \/ Refuse(c) \/ RefuseEmoji(c) \/ LoseAnswer(c) \/ Undo(c) \/ Undone(c)
===============================================================================
