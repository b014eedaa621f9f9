------------------------------ MODULE DeskProofs ------------------------------
(***************************************************************************)
(* What NewsDesk satisfies for all values of its CONSTANTS: any number of  *)
(* handlers at once, of texts, cards and faults.                           *)
(***************************************************************************)
EXTENDS NewsDesk, TLAPS, FiniteSetTheorems

-------------------------------------------------------------------------------
(* What a handler in progress knows of itself. *)

Deletions == {"delete", "bot_delete", "bot_purge"}
Takedowns == Deletions \cup {"unpublish", "bot_unpublish"}
BotWork == {"bot_approve", "bot_now", "bot_reject", "bot_unpublish", "bot_delete", "bot_purge"}
Operations == TextWork \cup CardWork

\* What may be left to do of an operation.
Plans(op) ==
  CASE op = "none" -> {<<>>}
    [] op = "edit" -> {<<"read", "snapshot", "write", "post", "card", "commit">>,
                       <<"snapshot", "write", "post", "card", "commit">>, <<"write", "post", "card", "commit">>,
                       <<"post", "card", "commit">>, <<"card", "commit">>, <<"commit">>}
    [] op \in {"restore", "regenerate"} -> {<<"read", "snapshot", "write", "commit">>, <<"snapshot", "write", "commit">>,
                                            <<"write", "commit">>, <<"commit">>}
    [] op \in {"approve", "reject", "schedule", "cancel"} -> {<<"read", "write", "card", "commit">>, <<"write", "card", "commit">>,
                                                              <<"card", "commit">>, <<"commit">>}
    [] op = "unpublish" -> {<<"read", "takedown", "write", "card", "commit">>, <<"takedown", "write", "card", "commit">>,
                            <<"write", "card", "commit">>, <<"card", "commit">>, <<"commit">>}
    [] op = "delete" -> {<<"read", "takedown", "card", "write", "commit">>, <<"takedown", "card", "write", "commit">>,
                         <<"card", "write", "commit">>, <<"write", "commit">>, <<"commit">>}
    [] op = "publish_now" -> {<<"read", "write", "commit">>, <<"write", "commit">>, <<"commit">>}
    [] op \in {"bot_approve", "bot_now"} -> {<<"take", "fresh", "mark">>, <<"fresh", "mark">>, <<"mark">>}
    [] op = "bot_reject" -> {<<"read", "write", "commit", "fresh", "mark">>, <<"write", "commit", "fresh", "mark">>,
                             <<"commit", "fresh", "mark">>, <<"fresh", "mark">>, <<"mark">>}
    [] op \in {"bot_unpublish", "bot_delete", "bot_purge"} ->
                            {<<"read", "takedown", "write", "commit", "fresh", "mark">>,
                             <<"takedown", "write", "commit", "fresh", "mark">>, <<"write", "commit", "fresh", "mark">>,
                             <<"commit", "fresh", "mark">>, <<"fresh", "mark">>, <<"mark">>}
    [] op = "publish_news" -> {<<"begin", "show", "commit", "card">>, <<"show", "commit", "card">>, <<"commit", "card">>, <<"card">>}
    [] op = "notify" -> {<<"fresh", "offer", "keep">>, <<"offer", "keep">>, <<"keep">>}

\* The next step, and the one after a step.
Due(steps) == IF steps = <<>> THEN "nowhere" ELSE Head(steps)
At(r) == Due(r.steps)
Follows(op, step) ==
  CASE step = "read" -> IF op \in TextWork THEN "snapshot" ELSE IF op \in Takedowns THEN "takedown" ELSE "write"
    [] step = "snapshot" -> "write"
    [] step = "takedown" -> IF op = "delete" THEN "card" ELSE "write"
    [] step = "write" -> IF op = "edit" THEN "post"
                         ELSE IF op \in {"approve", "reject", "schedule", "cancel", "unpublish"} THEN "card" ELSE "commit"
    [] step = "post" -> "card"
    [] step = "card" -> IF op = "delete" THEN "write" ELSE IF op = "publish_news" THEN "nowhere" ELSE "commit"
    [] step = "commit" -> IF op \in BotWork THEN "fresh" ELSE IF op = "publish_news" THEN "card" ELSE "nowhere"
    [] step = "take" -> "fresh"
    [] step = "fresh" -> IF op = "notify" THEN "offer" ELSE "mark"
    [] step = "begin" -> "show"
    [] step = "show" -> "commit"
    [] step = "offer" -> "keep"
    [] step \in {"mark", "keep"} -> "nowhere"

\* The operations that have a step.
Doing(step) ==
  CASE step = "read" -> Operations \ {"publish_news", "notify", "bot_approve", "bot_now"}
    [] step = "snapshot" -> TextWork
    [] step = "takedown" -> Takedowns
    [] step = "write" -> Operations \ {"publish_news", "notify", "bot_approve", "bot_now"}
    [] step = "post" -> {"edit"}
    [] step = "card" -> {"edit", "approve", "reject", "schedule", "cancel", "unpublish", "delete", "publish_news"}
    [] step = "commit" -> Operations \ {"notify", "bot_approve", "bot_now"}
    [] step = "take" -> {"bot_approve", "bot_now"}
    [] step = "fresh" -> BotWork \cup {"notify"}
    [] step = "mark" -> BotWork
    [] step \in {"begin", "show"} -> {"publish_news"}
    [] step \in {"offer", "keep"} -> {"notify"}
Steps == {"read", "snapshot", "takedown", "write", "post", "card", "commit", "take", "fresh", "mark",
          "begin", "show", "offer", "keep"}

\* It has read the row.
HasRead(r) == At(r) \notin {"nowhere", "read", "take", "begin", "fresh"}

\* It has written what it sets.
Written(r) == At(r) \in {"post", "card", "commit"} /\ ~(r.op = "delete" /\ At(r) = "card") /\ r.op # "publish_news"

\* The columns it has set so far.
Down(r) == IF r.op \in Takedowns /\ r.view.up THEN [up |-> FALSE] ELSE Nothing
Posted == [up |-> TRUE, status |-> "published", approved |-> TRUE]
Set(r) ==
  IF At(r) \in {"card", "commit"} /\ r.op = "publish_news" THEN IF r.view.up THEN Nothing ELSE Posted
  ELSE IF At(r) = "write" \/ (At(r) = "card" /\ r.op = "delete") THEN Down(r)
  ELSE IF At(r) \in {"post", "card", "commit"} THEN Over(Sets(r), Down(r))
  ELSE Nothing

ValueOK(r) ==
  /\ r.op \in TextWork => r.value \in Texts
  /\ r.op = "approve" => r.value \in {"approved", "scheduled", "unqueued"}
  /\ r.op \in {"bot_approve", "bot_now"} => r.value \in {"approved", "scheduled"}
  /\ r.op = "publish_news" => r.value \in 0..PublishRetries

Version == [number : Nat \ {0}, text : Texts]

SnapOK(r) ==
  IF r.op \in TextWork /\ At(r) \notin {"read", "snapshot"}
  THEN r.snap[1].number \in Nat \ {0} /\ r.snap = <<[number |-> r.snap[1].number, text |-> r.view.text]>>
  ELSE r.snap = <<>>

SessionOK(r) ==
  /\ DOMAIN r = DOMAIN Nobody
  /\ r.op \in Operations \cup {"none"} /\ r.steps \in Plans(r.op)
  /\ r.view \in Row /\ r.locked \in BOOLEAN /\ r.card \in Nat
  /\ ValueOK(r) /\ SnapOK(r)
  /\ At(r) # "fresh" => r.new = Set(r)
  /\ HasRead(r) /\ At(r) # "mark" => r.view.exists
  /\ r.op \in BotWork => r.card # 0
  /\ r.op = "publish_news" /\ At(r) \in {"show", "commit"} => r.locked
  /\ At(r) = "show" => ~r.view.up
  /\ Written(r) /\ ~r.locked => Changed(r) = {}
  /\ r.op = "notify" => (r.card = 0 <=> At(r) # "keep")

CardType == [text : Texts, status : Statuses, offers : SUBSET DOMAIN Presses]

\* The notifications that may yet send a card.
Offering == {s \in Sessions : desk[s].op = "notify" /\ desk[s].card = 0}

Held == {s \in Sessions : desk[s].locked}

DeskType ==
  /\ row \in Row /\ row.card <= Len(cards)
  /\ versions \in Seq(Version)
  /\ post \in Texts \cup {NoText}
  /\ cards \in Seq(CardType)
  /\ DOMAIN desk = Sessions
  /\ \A s \in Sessions : /\ SessionOK(desk[s])
                         /\ desk[s].card <= Len(cards) /\ (HasRead(desk[s]) => desk[s].view.card <= Len(cards))
  /\ \A s, t \in Held : s = t
  /\ queue \in [publish : Seq(0..PublishRetries), notify : Nat]
  /\ deskFaults \in 0..MaxDeskFaults /\ worked \in 0..MaxWork
  /\ was \subseteq Texts /\ excused \subseteq {"text", "post", "card"}
  /\ Len(cards) + queue.notify + Cardinality(Offering) <= MaxCards

-------------------------------------------------------------------------------
(* The text and its versions. *)

Kept == {v.text : v \in ToSet(versions)}

\* A change of the text under way has read the text that is the row's, and the version it
\* keeps is the next one.
UpToDate(r) ==
  /\ At(r) # "read" => r.view.text = row.text
  /\ At(r) \notin {"read", "snapshot"} =>
        r.snap = <<[number |-> Len(versions) + 1, text |-> row.text]>>

TextInv ==
  /\ row.text \in was /\ Kept \subseteq was
  /\ \A s \in Sessions : desk[s].op \in TextWork /\ At(desk[s]) # "read" => desk[s].view.text \in was
  /\ "text" \notin excused =>
        /\ \A s, t \in Sessions : desk[s].op \in TextWork /\ desk[t].op \in TextWork => s = t
        /\ row.exists => /\ was \subseteq Kept \cup {row.text}
                         /\ \A n \in 1..Len(versions) : versions[n].number = n
                         /\ \A s \in Sessions : desk[s].op \in TextWork => UpToDate(desk[s])

-------------------------------------------------------------------------------
(* The post. *)

\* What the channel should show of an item with the row w.
Wanted(w) == IF w.exists /\ w.up THEN w.text ELSE NoText

\* The handler's work on the post is not begun, or done.
PostSettled(r) == r.op \notin PostWork \/ At(r) \in {"read", "begin", "fresh", "mark"} \/ (r.op = "publish_news" /\ At(r) = "card")

\* What the post, p, has come to when the row is w and the handler is r.
SeesPost(r, w, p) ==
  IF PostSettled(r) THEN p = Wanted(w)
  ELSE /\ w.exists /\ r.view.up = w.up /\ (w.up \/ r.op = "publish_news" => r.view.text = w.text)
       /\ p = IF r.op = "edit" THEN IF w.up THEN IF At(r) \in {"card", "commit"} THEN r.value ELSE w.text ELSE NoText
              ELSE IF r.op = "publish_news" THEN IF At(r) = "commit" \/ w.up THEN w.text ELSE NoText
              ELSE IF At(r) = "takedown" THEN Wanted(w) ELSE NoText

PostInv ==
  "post" \notin excused =>
     /\ \A s, t \in Sessions : desk[s].op \in PostWork /\ desk[t].op \in PostWork => s = t
     /\ (\A s \in Sessions : desk[s].op \notin PostWork) => post = Wanted(row)
     /\ \A s \in Sessions : desk[s].op \in PostWork => SeesPost(desk[s], row, post)

-------------------------------------------------------------------------------
(* The card. *)

\* Of the cards c, the one with number k shows the row as r has it; one offers nothing.
Fits(k, r, c) == c[k].status = r.status /\ c[k].offers \subseteq Offers(r)
Dead(c) == \E x \in ToSet(c) : x.offers = {}

\* With the row w and the publications q enqueued, the card is right, or will be rebuilt when
\* the item has been published.
CardSettled(w, c, q) ==
  w.card # 0 => /\ w.exists /\ q = <<>> => Fits(w.card, w, c)
                /\ ~w.exists => Dead(c)

\* r has read what of the row w its card shows.
SameFor(r, w) ==
  r.view.exists = w.exists /\ r.view.status = w.status /\ r.view.up = w.up /\ r.view.card = w.card

\* The publication is done, but for the card.
Published(r) == r.op = "publish_news" /\ At(r) = "card"

\* A request of the panel has rebuilt the card.
Rebuilt(r) ==
  /\ r.op \in {"edit", "approve", "reject", "schedule", "cancel", "unpublish", "delete"}
  /\ At(r) = "commit" \/ (r.op = "delete" /\ At(r) = "write")

\* What the work on the card has come to, by the next step.
SeesCard(r, w, c, q) ==
  /\ At(r) \in {"read", "take"} \/ r.op = "notify" => CardSettled(w, c, q)
  /\ At(r) = "begin" => (w.card # 0 /\ ~w.exists => Dead(c))
  /\ At(r) \in {"fresh", "mark"} => w.exists \/ r.op \in {"bot_delete", "bot_purge", "notify"}
  /\ HasRead(r) /\ ~Published(r) => SameFor(r, w)
  /\ At(r) = "keep" => Fits(r.card, w, c)
  /\ Published(r) => w.exists /\ r.view.card = w.card /\ Own(r).status = w.status /\ Own(r).up = w.up
  /\ r.op = "publish_now" /\ At(r) = "commit" => q # <<>>
  /\ Rebuilt(r) /\ w.card # 0 => IF r.op = "delete" THEN Dead(c) ELSE Fits(w.card, Own(r), c)

CardInv ==
  "card" \notin excused =>
     /\ \A s, t \in Sessions : desk[s].op \in CardWork /\ desk[t].op \in CardWork => s = t
     /\ (\A s \in Sessions : desk[s].op \notin CardWork) => CardSettled(row, cards, queue.publish)
     /\ \A s \in Sessions : desk[s].op \in CardWork => SeesCard(desk[s], row, cards, queue.publish)

-------------------------------------------------------------------------------
(* The plans. *)

LEMMA Names ==
  /\ TextWork = {"edit", "restore", "regenerate"}
  /\ PostWork = {"edit", "unpublish", "delete", "bot_unpublish", "bot_delete", "bot_purge", "publish_news"}
  /\ CardWork = PostWork \cup {"approve", "reject", "schedule", "cancel", "publish_now",
                              "bot_approve", "bot_now", "bot_reject", "notify"}
  BY DEF TextWork, PostWork, CardWork

\* What is left of a plan is a plan.
Goes1(op, q) ==
  /\ q # <<>> /\ Due(q) \in Steps /\ op \in Doing(Due(q)) /\ Head(q) = Due(q)
  /\ Tail(q) = <<>> <=> Follows(op, Due(q)) = "nowhere"
  /\ Tail(q) # <<>> => Tail(q) \in Plans(op) /\ Due(Tail(q)) = Follows(op, Due(q))

LEMMA Tuples ==
  /\ \A a : Due(<<a>>) = a /\ Head(<<a>>) = a /\ Tail(<<a>>) = <<>> /\ <<a>> # <<>>
  /\ \A a, b : Due(<<a, b>>) = a /\ Head(<<a, b>>) = a /\ Tail(<<a, b>>) = <<b>> /\ <<a, b>> # <<>>
  /\ \A a, b, c : Due(<<a, b, c>>) = a /\ Head(<<a, b, c>>) = a /\ Tail(<<a, b, c>>) = <<b, c>> /\ <<a, b, c>> # <<>>
  /\ \A a, b, c, d : /\ Due(<<a, b, c, d>>) = a /\ Head(<<a, b, c, d>>) = a
                     /\ Tail(<<a, b, c, d>>) = <<b, c, d>> /\ <<a, b, c, d>> # <<>>
  /\ \A a, b, c, d, e : /\ Due(<<a, b, c, d, e>>) = a /\ Head(<<a, b, c, d, e>>) = a
                        /\ Tail(<<a, b, c, d, e>>) = <<b, c, d, e>> /\ <<a, b, c, d, e>> # <<>>
  /\ \A a, b, c, d, e, f : /\ Due(<<a, b, c, d, e, f>>) = a /\ Head(<<a, b, c, d, e, f>>) = a
                           /\ Tail(<<a, b, c, d, e, f>>) = <<b, c, d, e, f>> /\ <<a, b, c, d, e, f>> # <<>>
  BY DEF Due

\* What is left of a plan is a plan.
LEMMA PlanGoesOn == \A op \in Operations : \A q \in Plans(op) : Goes1(op, q)
<1>1. ASSUME NEW op \in {"edit"} PROVE \A q \in Plans(op) : Goes1(op, q)
  <2>1. \A q \in Plans(op) : \/ q = <<"read", "snapshot", "write", "post", "card", "commit">>
                             \/ q = <<"snapshot", "write", "post", "card", "commit">>
                             \/ q = <<"write", "post", "card", "commit">>
                             \/ q = <<"post", "card", "commit">>
                             \/ q = <<"card", "commit">>
                             \/ q = <<"commit">>
    BY <1>1 DEF Plans
  <2>2. /\ Follows(op, "read") = "snapshot" /\ Follows(op, "snapshot") = "write"
        /\ Follows(op, "write") = "post" /\ Follows(op, "post") = "card"
        /\ Follows(op, "card") = "commit" /\ Follows(op, "commit") = "nowhere"
    BY <1>1 DEF Follows, TextWork, Takedowns, Deletions, BotWork
  <2>3. /\ op \in Doing("read") /\ op \in Doing("snapshot") /\ op \in Doing("write")
        /\ op \in Doing("post") /\ op \in Doing("card") /\ op \in Doing("commit")
    BY <1>1 DEF Doing, Operations, TextWork, PostWork, CardWork, Takedowns, Deletions, BotWork
  <2>4. /\ <<"snapshot", "write", "post", "card", "commit">> \in Plans(op)
        /\ <<"write", "post", "card", "commit">> \in Plans(op)
        /\ <<"post", "card", "commit">> \in Plans(op)
        /\ <<"card", "commit">> \in Plans(op)
        /\ <<"commit">> \in Plans(op)
    BY <1>1 DEF Plans
  <2>5. Goes1(op, <<"read", "snapshot", "write", "post", "card", "commit">>)
    BY <2>2, <2>3, <2>4, Tuples DEF Goes1, Steps
  <2>6. Goes1(op, <<"snapshot", "write", "post", "card", "commit">>)
    BY <2>2, <2>3, <2>4, Tuples DEF Goes1, Steps
  <2>7. Goes1(op, <<"write", "post", "card", "commit">>)
    BY <2>2, <2>3, <2>4, Tuples DEF Goes1, Steps
  <2>8. Goes1(op, <<"post", "card", "commit">>)
    BY <2>2, <2>3, <2>4, Tuples DEF Goes1, Steps
  <2>9. Goes1(op, <<"card", "commit">>)
    BY <2>2, <2>3, <2>4, Tuples DEF Goes1, Steps
  <2>10. Goes1(op, <<"commit">>)
    BY <2>2, <2>3, <2>4, Tuples DEF Goes1, Steps
  <2> QED
    BY <2>1, <2>5, <2>6, <2>7, <2>8, <2>9, <2>10
<1>2. ASSUME NEW op \in {"restore", "regenerate"} PROVE \A q \in Plans(op) : Goes1(op, q)
  <2>1. \A q \in Plans(op) : \/ q = <<"read", "snapshot", "write", "commit">>
                             \/ q = <<"snapshot", "write", "commit">>
                             \/ q = <<"write", "commit">>
                             \/ q = <<"commit">>
    BY <1>2 DEF Plans
  <2>2. /\ Follows(op, "read") = "snapshot" /\ Follows(op, "snapshot") = "write"
        /\ Follows(op, "write") = "commit" /\ Follows(op, "commit") = "nowhere"
    BY <1>2 DEF Follows, TextWork, Takedowns, Deletions, BotWork
  <2>3. /\ op \in Doing("read") /\ op \in Doing("snapshot") /\ op \in Doing("write")
        /\ op \in Doing("commit")
    BY <1>2 DEF Doing, Operations, TextWork, PostWork, CardWork, Takedowns, Deletions, BotWork
  <2>4. /\ <<"snapshot", "write", "commit">> \in Plans(op)
        /\ <<"write", "commit">> \in Plans(op)
        /\ <<"commit">> \in Plans(op)
    BY <1>2 DEF Plans
  <2>5. Goes1(op, <<"read", "snapshot", "write", "commit">>)
    BY <2>2, <2>3, <2>4, Tuples DEF Goes1, Steps
  <2>6. Goes1(op, <<"snapshot", "write", "commit">>)
    BY <2>2, <2>3, <2>4, Tuples DEF Goes1, Steps
  <2>7. Goes1(op, <<"write", "commit">>)
    BY <2>2, <2>3, <2>4, Tuples DEF Goes1, Steps
  <2>8. Goes1(op, <<"commit">>)
    BY <2>2, <2>3, <2>4, Tuples DEF Goes1, Steps
  <2> QED
    BY <2>1, <2>5, <2>6, <2>7, <2>8
<1>3. ASSUME NEW op \in {"approve", "reject", "schedule", "cancel"} PROVE \A q \in Plans(op) : Goes1(op, q)
  <2>1. \A q \in Plans(op) : \/ q = <<"read", "write", "card", "commit">>
                             \/ q = <<"write", "card", "commit">>
                             \/ q = <<"card", "commit">>
                             \/ q = <<"commit">>
    BY <1>3 DEF Plans
  <2>2. /\ Follows(op, "read") = "write" /\ Follows(op, "write") = "card"
        /\ Follows(op, "card") = "commit" /\ Follows(op, "commit") = "nowhere"
    BY <1>3 DEF Follows, TextWork, Takedowns, Deletions, BotWork
  <2>3. /\ op \in Doing("read") /\ op \in Doing("write") /\ op \in Doing("card")
        /\ op \in Doing("commit")
    BY <1>3 DEF Doing, Operations, TextWork, PostWork, CardWork, Takedowns, Deletions, BotWork
  <2>4. /\ <<"write", "card", "commit">> \in Plans(op)
        /\ <<"card", "commit">> \in Plans(op)
        /\ <<"commit">> \in Plans(op)
    BY <1>3 DEF Plans
  <2>5. Goes1(op, <<"read", "write", "card", "commit">>)
    BY <2>2, <2>3, <2>4, Tuples DEF Goes1, Steps
  <2>6. Goes1(op, <<"write", "card", "commit">>)
    BY <2>2, <2>3, <2>4, Tuples DEF Goes1, Steps
  <2>7. Goes1(op, <<"card", "commit">>)
    BY <2>2, <2>3, <2>4, Tuples DEF Goes1, Steps
  <2>8. Goes1(op, <<"commit">>)
    BY <2>2, <2>3, <2>4, Tuples DEF Goes1, Steps
  <2> QED
    BY <2>1, <2>5, <2>6, <2>7, <2>8
<1>4. ASSUME NEW op \in {"unpublish"} PROVE \A q \in Plans(op) : Goes1(op, q)
  <2>1. \A q \in Plans(op) : \/ q = <<"read", "takedown", "write", "card", "commit">>
                             \/ q = <<"takedown", "write", "card", "commit">>
                             \/ q = <<"write", "card", "commit">>
                             \/ q = <<"card", "commit">>
                             \/ q = <<"commit">>
    BY <1>4 DEF Plans
  <2>2. /\ Follows(op, "read") = "takedown" /\ Follows(op, "takedown") = "write"
        /\ Follows(op, "write") = "card" /\ Follows(op, "card") = "commit"
        /\ Follows(op, "commit") = "nowhere"
    BY <1>4 DEF Follows, TextWork, Takedowns, Deletions, BotWork
  <2>3. /\ op \in Doing("read") /\ op \in Doing("takedown") /\ op \in Doing("write")
        /\ op \in Doing("card") /\ op \in Doing("commit")
    BY <1>4 DEF Doing, Operations, TextWork, PostWork, CardWork, Takedowns, Deletions, BotWork
  <2>4. /\ <<"takedown", "write", "card", "commit">> \in Plans(op)
        /\ <<"write", "card", "commit">> \in Plans(op)
        /\ <<"card", "commit">> \in Plans(op)
        /\ <<"commit">> \in Plans(op)
    BY <1>4 DEF Plans
  <2>5. Goes1(op, <<"read", "takedown", "write", "card", "commit">>)
    BY <2>2, <2>3, <2>4, Tuples DEF Goes1, Steps
  <2>6. Goes1(op, <<"takedown", "write", "card", "commit">>)
    BY <2>2, <2>3, <2>4, Tuples DEF Goes1, Steps
  <2>7. Goes1(op, <<"write", "card", "commit">>)
    BY <2>2, <2>3, <2>4, Tuples DEF Goes1, Steps
  <2>8. Goes1(op, <<"card", "commit">>)
    BY <2>2, <2>3, <2>4, Tuples DEF Goes1, Steps
  <2>9. Goes1(op, <<"commit">>)
    BY <2>2, <2>3, <2>4, Tuples DEF Goes1, Steps
  <2> QED
    BY <2>1, <2>5, <2>6, <2>7, <2>8, <2>9
<1>5. ASSUME NEW op \in {"delete"} PROVE \A q \in Plans(op) : Goes1(op, q)
  <2>1. \A q \in Plans(op) : \/ q = <<"read", "takedown", "card", "write", "commit">>
                             \/ q = <<"takedown", "card", "write", "commit">>
                             \/ q = <<"card", "write", "commit">>
                             \/ q = <<"write", "commit">>
                             \/ q = <<"commit">>
    BY <1>5 DEF Plans
  <2>2. /\ Follows(op, "read") = "takedown" /\ Follows(op, "takedown") = "card"
        /\ Follows(op, "card") = "write" /\ Follows(op, "write") = "commit"
        /\ Follows(op, "commit") = "nowhere"
    BY <1>5 DEF Follows, TextWork, Takedowns, Deletions, BotWork
  <2>3. /\ op \in Doing("read") /\ op \in Doing("takedown") /\ op \in Doing("card")
        /\ op \in Doing("write") /\ op \in Doing("commit")
    BY <1>5 DEF Doing, Operations, TextWork, PostWork, CardWork, Takedowns, Deletions, BotWork
  <2>4. /\ <<"takedown", "card", "write", "commit">> \in Plans(op)
        /\ <<"card", "write", "commit">> \in Plans(op)
        /\ <<"write", "commit">> \in Plans(op)
        /\ <<"commit">> \in Plans(op)
    BY <1>5 DEF Plans
  <2>5. Goes1(op, <<"read", "takedown", "card", "write", "commit">>)
    BY <2>2, <2>3, <2>4, Tuples DEF Goes1, Steps
  <2>6. Goes1(op, <<"takedown", "card", "write", "commit">>)
    BY <2>2, <2>3, <2>4, Tuples DEF Goes1, Steps
  <2>7. Goes1(op, <<"card", "write", "commit">>)
    BY <2>2, <2>3, <2>4, Tuples DEF Goes1, Steps
  <2>8. Goes1(op, <<"write", "commit">>)
    BY <2>2, <2>3, <2>4, Tuples DEF Goes1, Steps
  <2>9. Goes1(op, <<"commit">>)
    BY <2>2, <2>3, <2>4, Tuples DEF Goes1, Steps
  <2> QED
    BY <2>1, <2>5, <2>6, <2>7, <2>8, <2>9
<1>6. ASSUME NEW op \in {"publish_now"} PROVE \A q \in Plans(op) : Goes1(op, q)
  <2>1. \A q \in Plans(op) : \/ q = <<"read", "write", "commit">>
                             \/ q = <<"write", "commit">>
                             \/ q = <<"commit">>
    BY <1>6 DEF Plans
  <2>2. /\ Follows(op, "read") = "write" /\ Follows(op, "write") = "commit"
        /\ Follows(op, "commit") = "nowhere"
    BY <1>6 DEF Follows, TextWork, Takedowns, Deletions, BotWork
  <2>3. /\ op \in Doing("read") /\ op \in Doing("write") /\ op \in Doing("commit")
    BY <1>6 DEF Doing, Operations, TextWork, PostWork, CardWork, Takedowns, Deletions, BotWork
  <2>4. /\ <<"write", "commit">> \in Plans(op)
        /\ <<"commit">> \in Plans(op)
    BY <1>6 DEF Plans
  <2>5. Goes1(op, <<"read", "write", "commit">>)
    BY <2>2, <2>3, <2>4, Tuples DEF Goes1, Steps
  <2>6. Goes1(op, <<"write", "commit">>)
    BY <2>2, <2>3, <2>4, Tuples DEF Goes1, Steps
  <2>7. Goes1(op, <<"commit">>)
    BY <2>2, <2>3, <2>4, Tuples DEF Goes1, Steps
  <2> QED
    BY <2>1, <2>5, <2>6, <2>7
<1>7. ASSUME NEW op \in {"bot_approve", "bot_now"} PROVE \A q \in Plans(op) : Goes1(op, q)
  <2>1. \A q \in Plans(op) : \/ q = <<"take", "fresh", "mark">>
                             \/ q = <<"fresh", "mark">>
                             \/ q = <<"mark">>
    BY <1>7 DEF Plans
  <2>2. /\ Follows(op, "take") = "fresh" /\ Follows(op, "fresh") = "mark"
        /\ Follows(op, "mark") = "nowhere"
    BY <1>7 DEF Follows, TextWork, Takedowns, Deletions, BotWork
  <2>3. /\ op \in Doing("take") /\ op \in Doing("fresh") /\ op \in Doing("mark")
    BY <1>7 DEF Doing, Operations, TextWork, PostWork, CardWork, Takedowns, Deletions, BotWork
  <2>4. /\ <<"fresh", "mark">> \in Plans(op)
        /\ <<"mark">> \in Plans(op)
    BY <1>7 DEF Plans
  <2>5. Goes1(op, <<"take", "fresh", "mark">>)
    BY <2>2, <2>3, <2>4, Tuples DEF Goes1, Steps
  <2>6. Goes1(op, <<"fresh", "mark">>)
    BY <2>2, <2>3, <2>4, Tuples DEF Goes1, Steps
  <2>7. Goes1(op, <<"mark">>)
    BY <2>2, <2>3, <2>4, Tuples DEF Goes1, Steps
  <2> QED
    BY <2>1, <2>5, <2>6, <2>7
<1>8. ASSUME NEW op \in {"bot_reject"} PROVE \A q \in Plans(op) : Goes1(op, q)
  <2>1. \A q \in Plans(op) : \/ q = <<"read", "write", "commit", "fresh", "mark">>
                             \/ q = <<"write", "commit", "fresh", "mark">>
                             \/ q = <<"commit", "fresh", "mark">>
                             \/ q = <<"fresh", "mark">>
                             \/ q = <<"mark">>
    BY <1>8 DEF Plans
  <2>2. /\ Follows(op, "read") = "write" /\ Follows(op, "write") = "commit"
        /\ Follows(op, "commit") = "fresh" /\ Follows(op, "fresh") = "mark"
        /\ Follows(op, "mark") = "nowhere"
    BY <1>8 DEF Follows, TextWork, Takedowns, Deletions, BotWork
  <2>3. /\ op \in Doing("read") /\ op \in Doing("write") /\ op \in Doing("commit")
        /\ op \in Doing("fresh") /\ op \in Doing("mark")
    BY <1>8 DEF Doing, Operations, TextWork, PostWork, CardWork, Takedowns, Deletions, BotWork
  <2>4. /\ <<"write", "commit", "fresh", "mark">> \in Plans(op)
        /\ <<"commit", "fresh", "mark">> \in Plans(op)
        /\ <<"fresh", "mark">> \in Plans(op)
        /\ <<"mark">> \in Plans(op)
    BY <1>8 DEF Plans
  <2>5. Goes1(op, <<"read", "write", "commit", "fresh", "mark">>)
    BY <2>2, <2>3, <2>4, Tuples DEF Goes1, Steps
  <2>6. Goes1(op, <<"write", "commit", "fresh", "mark">>)
    BY <2>2, <2>3, <2>4, Tuples DEF Goes1, Steps
  <2>7. Goes1(op, <<"commit", "fresh", "mark">>)
    BY <2>2, <2>3, <2>4, Tuples DEF Goes1, Steps
  <2>8. Goes1(op, <<"fresh", "mark">>)
    BY <2>2, <2>3, <2>4, Tuples DEF Goes1, Steps
  <2>9. Goes1(op, <<"mark">>)
    BY <2>2, <2>3, <2>4, Tuples DEF Goes1, Steps
  <2> QED
    BY <2>1, <2>5, <2>6, <2>7, <2>8, <2>9
<1>9. ASSUME NEW op \in {"bot_unpublish", "bot_delete", "bot_purge"} PROVE \A q \in Plans(op) : Goes1(op, q)
  <2>1. \A q \in Plans(op) : \/ q = <<"read", "takedown", "write", "commit", "fresh", "mark">>
                             \/ q = <<"takedown", "write", "commit", "fresh", "mark">>
                             \/ q = <<"write", "commit", "fresh", "mark">>
                             \/ q = <<"commit", "fresh", "mark">>
                             \/ q = <<"fresh", "mark">>
                             \/ q = <<"mark">>
    BY <1>9 DEF Plans
  <2>2. /\ Follows(op, "read") = "takedown" /\ Follows(op, "takedown") = "write"
        /\ Follows(op, "write") = "commit" /\ Follows(op, "commit") = "fresh"
        /\ Follows(op, "fresh") = "mark" /\ Follows(op, "mark") = "nowhere"
    BY <1>9 DEF Follows, TextWork, Takedowns, Deletions, BotWork
  <2>3. /\ op \in Doing("read") /\ op \in Doing("takedown") /\ op \in Doing("write")
        /\ op \in Doing("commit") /\ op \in Doing("fresh") /\ op \in Doing("mark")
    BY <1>9 DEF Doing, Operations, TextWork, PostWork, CardWork, Takedowns, Deletions, BotWork
  <2>4. /\ <<"takedown", "write", "commit", "fresh", "mark">> \in Plans(op)
        /\ <<"write", "commit", "fresh", "mark">> \in Plans(op)
        /\ <<"commit", "fresh", "mark">> \in Plans(op)
        /\ <<"fresh", "mark">> \in Plans(op)
        /\ <<"mark">> \in Plans(op)
    BY <1>9 DEF Plans
  <2>5. Goes1(op, <<"read", "takedown", "write", "commit", "fresh", "mark">>)
    BY <2>2, <2>3, <2>4, Tuples DEF Goes1, Steps
  <2>6. Goes1(op, <<"takedown", "write", "commit", "fresh", "mark">>)
    BY <2>2, <2>3, <2>4, Tuples DEF Goes1, Steps
  <2>7. Goes1(op, <<"write", "commit", "fresh", "mark">>)
    BY <2>2, <2>3, <2>4, Tuples DEF Goes1, Steps
  <2>8. Goes1(op, <<"commit", "fresh", "mark">>)
    BY <2>2, <2>3, <2>4, Tuples DEF Goes1, Steps
  <2>9. Goes1(op, <<"fresh", "mark">>)
    BY <2>2, <2>3, <2>4, Tuples DEF Goes1, Steps
  <2>10. Goes1(op, <<"mark">>)
    BY <2>2, <2>3, <2>4, Tuples DEF Goes1, Steps
  <2> QED
    BY <2>1, <2>5, <2>6, <2>7, <2>8, <2>9, <2>10
<1>10. ASSUME NEW op \in {"publish_news"} PROVE \A q \in Plans(op) : Goes1(op, q)
  <2>1. \A q \in Plans(op) : \/ q = <<"begin", "show", "commit", "card">>
                             \/ q = <<"show", "commit", "card">>
                             \/ q = <<"commit", "card">>
                             \/ q = <<"card">>
    BY <1>10 DEF Plans
  <2>2. /\ Follows(op, "begin") = "show" /\ Follows(op, "show") = "commit"
        /\ Follows(op, "commit") = "card" /\ Follows(op, "card") = "nowhere"
    BY <1>10 DEF Follows, TextWork, Takedowns, Deletions, BotWork
  <2>3. /\ op \in Doing("begin") /\ op \in Doing("show") /\ op \in Doing("commit")
        /\ op \in Doing("card")
    BY <1>10 DEF Doing, Operations, TextWork, PostWork, CardWork, Takedowns, Deletions, BotWork
  <2>4. /\ <<"show", "commit", "card">> \in Plans(op)
        /\ <<"commit", "card">> \in Plans(op)
        /\ <<"card">> \in Plans(op)
    BY <1>10 DEF Plans
  <2>5. Goes1(op, <<"begin", "show", "commit", "card">>)
    BY <2>2, <2>3, <2>4, Tuples DEF Goes1, Steps
  <2>6. Goes1(op, <<"show", "commit", "card">>)
    BY <2>2, <2>3, <2>4, Tuples DEF Goes1, Steps
  <2>7. Goes1(op, <<"commit", "card">>)
    BY <2>2, <2>3, <2>4, Tuples DEF Goes1, Steps
  <2>8. Goes1(op, <<"card">>)
    BY <2>2, <2>3, <2>4, Tuples DEF Goes1, Steps
  <2> QED
    BY <2>1, <2>5, <2>6, <2>7, <2>8
<1>11. ASSUME NEW op \in {"notify"} PROVE \A q \in Plans(op) : Goes1(op, q)
  <2>1. \A q \in Plans(op) : \/ q = <<"fresh", "offer", "keep">>
                             \/ q = <<"offer", "keep">>
                             \/ q = <<"keep">>
    BY <1>11 DEF Plans
  <2>2. /\ Follows(op, "fresh") = "offer" /\ Follows(op, "offer") = "keep"
        /\ Follows(op, "keep") = "nowhere"
    BY <1>11 DEF Follows, TextWork, Takedowns, Deletions, BotWork
  <2>3. /\ op \in Doing("fresh") /\ op \in Doing("offer") /\ op \in Doing("keep")
    BY <1>11 DEF Doing, Operations, TextWork, PostWork, CardWork, Takedowns, Deletions, BotWork
  <2>4. /\ <<"offer", "keep">> \in Plans(op)
        /\ <<"keep">> \in Plans(op)
    BY <1>11 DEF Plans
  <2>5. Goes1(op, <<"fresh", "offer", "keep">>)
    BY <2>2, <2>3, <2>4, Tuples DEF Goes1, Steps
  <2>6. Goes1(op, <<"offer", "keep">>)
    BY <2>2, <2>3, <2>4, Tuples DEF Goes1, Steps
  <2>7. Goes1(op, <<"keep">>)
    BY <2>2, <2>3, <2>4, Tuples DEF Goes1, Steps
  <2> QED
    BY <2>1, <2>5, <2>6, <2>7
<1> QED
  BY <1>1, <1>2, <1>3, <1>4, <1>5, <1>6, <1>7, <1>8, <1>9, <1>10, <1>11 DEF Operations, TextWork, PostWork, CardWork

-------------------------------------------------------------------------------
(* The columns a handler has set, and the row as it has it. *)

LEMMA Fields ==
  /\ DOMAIN Nobody = {"op", "steps", "view", "new", "snap", "value", "locked", "card"}
  /\ Nobody.op = "none" /\ Nobody.steps = <<>> /\ Nobody.new = Nothing /\ Nobody.snap = <<>>
  /\ Nobody.value = NoText /\ Nobody.locked \in BOOLEAN /\ ~Nobody.locked /\ Nobody.card = 0
  /\ \A r \in Row : Nobody.view \in Row
  /\ DOMAIN Nothing = {}
  BY DEF Nobody, Nothing

LEMMA RowFields ==
  /\ \A r \in Row : /\ DOMAIN r = Columns /\ r.exists \in BOOLEAN /\ r.text \in Texts /\ r.status \in Statuses
                    /\ r.approved \in BOOLEAN /\ r.up \in BOOLEAN /\ r.card \in 0..MaxCards /\ r.card \in Nat
  /\ \A r : r \in Row <=>
        /\ r = [c \in Columns |-> r[c]]
        /\ r.exists \in BOOLEAN /\ r.text \in Texts /\ r.status \in Statuses
        /\ r.approved \in BOOLEAN /\ r.up \in BOOLEAN /\ r.card \in 0..MaxCards
<1>1. MaxCards \in Nat
  BY DeskAssumption
<1>2. ASSUME NEW r \in Row
      PROVE  /\ DOMAIN r = Columns /\ r.exists \in BOOLEAN /\ r.text \in Texts /\ r.status \in Statuses
             /\ r.approved \in BOOLEAN /\ r.up \in BOOLEAN /\ r.card \in 0..MaxCards /\ r.card \in Nat
  BY <1>1 DEF Row, Columns
<1>3. ASSUME NEW r, r = [c \in Columns |-> r[c]],
             r.exists \in BOOLEAN, r.text \in Texts, r.status \in Statuses,
             r.approved \in BOOLEAN, r.up \in BOOLEAN, r.card \in 0..MaxCards
      PROVE  r \in Row
  <2>1. r = [exists |-> r.exists, text |-> r.text, status |-> r.status, approved |-> r.approved, up |-> r.up, card |-> r.card]
    BY <1>3 DEF Columns
  <2> QED
    BY <1>3, <2>1 DEF Row
<1>4. ASSUME NEW r \in Row PROVE r = [c \in Columns |-> r[c]]
  BY DEF Row, Columns
<1> QED
  BY <1>2, <1>3, <1>4

\* What an operation has decided on when it has written.
Decided(r) ==
  CASE r.op = "approve" -> IF r.value = "unqueued" THEN "pending" ELSE r.value
    [] r.op = "publish_now" -> "approved"
    [] r.op \in {"reject", "bot_reject"} -> "rejected"
    [] r.op = "schedule" -> "scheduled"
    [] r.op = "cancel" -> IF r.view.status = "scheduled" THEN "pending" ELSE r.view.status
    [] r.op \in {"unpublish", "bot_unpublish"} -> "withdrawn"
    [] OTHER -> r.view.status

TookDown(r) == r.op \in Takedowns /\ At(r) \in {"write", "card", "commit"}
IsUp(r) == r.op = "publish_news" /\ At(r) \in {"card", "commit"}

LEMMA SetsWhat ==
  ASSUME NEW r, r.op \in Operations \ {"publish_news", "notify", "bot_approve", "bot_now"}, ValueOK(r), r.view \in Row
  PROVE  /\ DOMAIN Sets(r) \subseteq {"exists", "text", "status", "approved"}
         /\ "text" \in DOMAIN Sets(r) <=> r.op \in TextWork
         /\ "text" \in DOMAIN Sets(r) => Sets(r)["text"] = r.value /\ r.value \in Texts
         /\ "exists" \in DOMAIN Sets(r) <=> r.op \in Deletions
         /\ "exists" \in DOMAIN Sets(r) => Sets(r)["exists"] = FALSE
         /\ "status" \in DOMAIN Sets(r) => Sets(r)["status"] = Decided(r) /\ Decided(r) \in Statuses
         /\ "status" \notin DOMAIN Sets(r) => Decided(r) = r.view.status
         /\ "approved" \in DOMAIN Sets(r) => Sets(r)["approved"] \in BOOLEAN
<1>0. r.view.status \in Statuses
  BY RowFields
<1>1. CASE r.op \in TextWork
  <2>1. Sets(r) = [text |-> r.value]
    BY <1>1 DEF Sets, TextWork
  <2>2. DOMAIN Sets(r) = {"text"} /\ Sets(r)["text"] = r.value
    BY <2>1
  <2> QED
    BY <1>1, <2>2 DEF ValueOK, TextWork, Deletions, Decided
<1>2. CASE r.op = "approve"
  <2>1. Sets(r) = [status |-> IF r.value = "unqueued" THEN "pending" ELSE r.value, approved |-> r.value = "scheduled"]
    BY <1>2 DEF Sets, TextWork
  <2>2. DOMAIN Sets(r) = {"status", "approved"} /\ Sets(r)["approved"] \in BOOLEAN
    <3>1. DOMAIN Sets(r) = {"status", "approved"}
      BY <2>1
    <3>2. Sets(r)["approved"] = (r.value = "scheduled")
      BY <2>1
    <3>3. (r.value = "scheduled") \in BOOLEAN
      OBVIOUS
    <3> QED
      BY <3>1, <3>2, <3>3
  <2>3. Sets(r)["status"] = IF r.value = "unqueued" THEN "pending" ELSE r.value
    BY <2>1
  <2>4. Decided(r) = IF r.value = "unqueued" THEN "pending" ELSE r.value
    BY <1>2 DEF Decided
  <2>5. Decided(r) \in Statuses
    BY <1>2, <2>4 DEF ValueOK, Statuses
  <2> QED
    BY <1>2, <2>2, <2>3, <2>4, <2>5 DEF TextWork, Deletions
<1>3. CASE r.op = "publish_now"
  <2>1. Sets(r) = [status |-> "approved", approved |-> TRUE]
    BY <1>3 DEF Sets, TextWork
  <2>2. DOMAIN Sets(r) = {"status", "approved"} /\ Sets(r)["status"] = "approved" /\ Sets(r)["approved"] = TRUE
    BY <2>1
  <2> QED
    BY <1>3, <2>2 DEF TextWork, Deletions, Decided, Statuses
<1>4. CASE r.op \in {"reject", "bot_reject"}
  <2>1. Sets(r) = [status |-> "rejected"]
    BY <1>4 DEF Sets, TextWork
  <2>2. DOMAIN Sets(r) = {"status"} /\ Sets(r)["status"] = "rejected"
    BY <2>1
  <2> QED
    BY <1>4, <2>2 DEF TextWork, Deletions, Decided, Statuses
<1>5. CASE r.op = "schedule"
  <2>1. Sets(r) = [status |-> "scheduled"]
    BY <1>5 DEF Sets, TextWork
  <2>2. DOMAIN Sets(r) = {"status"} /\ Sets(r)["status"] = "scheduled"
    BY <2>1
  <2> QED
    BY <1>5, <2>2 DEF TextWork, Deletions, Decided, Statuses
<1>6. CASE r.op = "cancel" /\ r.view.status = "scheduled"
  <2>1. Sets(r) = [status |-> "pending"]
    BY <1>6 DEF Sets, TextWork
  <2>2. DOMAIN Sets(r) = {"status"} /\ Sets(r)["status"] = "pending"
    BY <2>1
  <2> QED
    BY <1>6, <2>2 DEF TextWork, Deletions, Decided, Statuses
<1>7. CASE r.op = "cancel" /\ r.view.status # "scheduled"
  <2>1. Sets(r) = Nothing
    BY <1>7 DEF Sets, TextWork
  <2>2. DOMAIN Sets(r) = {}
    BY <2>1, Fields
  <2> QED
    BY <1>7, <2>2 DEF TextWork, Deletions, Decided
<1>8. CASE r.op \in {"unpublish", "bot_unpublish"}
  <2>1. Sets(r) = [status |-> "withdrawn"]
    BY <1>8 DEF Sets, TextWork
  <2>2. DOMAIN Sets(r) = {"status"} /\ Sets(r)["status"] = "withdrawn"
    BY <2>1
  <2> QED
    BY <1>8, <2>2 DEF TextWork, Deletions, Decided, Statuses
<1>9. CASE r.op \in Deletions
  <2>1. Sets(r) = [exists |-> FALSE]
    BY <1>9 DEF Sets, TextWork, Deletions
  <2>2. DOMAIN Sets(r) = {"exists"} /\ Sets(r)["exists"] = FALSE
    BY <2>1
  <2> QED
    BY <1>9, <2>2 DEF TextWork, Deletions, Decided
<1> QED
  BY <1>1, <1>2, <1>3, <1>4, <1>5, <1>6, <1>7, <1>8, <1>9 DEF Operations, TextWork, PostWork, CardWork, Deletions

LEMMA Working ==
  ASSUME NEW r, SessionOK(r)
  PROVE  /\ r.op = "none" <=> r.steps = <<>>
         /\ r.op = "none" <=> At(r) = "nowhere"
         /\ r.op # "none" => /\ r.op \in Operations /\ At(r) \in Steps /\ r.op \in Doing(At(r)) /\ At(r) = Head(r.steps)
                             /\ Tail(r.steps) = <<>> <=> Follows(r.op, At(r)) = "nowhere"
                             /\ Tail(r.steps) # <<>> => Tail(r.steps) \in Plans(r.op) /\ Due(Tail(r.steps)) = Follows(r.op, At(r))
<1>1. CASE r.op = "none"
  <2>1. Plans(r.op) = {<<>>}
    BY <1>1 DEF Plans
  <2> QED
    BY <1>1, <2>1 DEF SessionOK, At, Due
<1>2. CASE r.op # "none"
  <2>1. r.op \in Operations /\ r.steps \in Plans(r.op)
    BY <1>2 DEF SessionOK
  <2>2. Goes1(r.op, r.steps)
    BY <2>1, PlanGoesOn
  <2>3. At(r) # "nowhere"
    BY <2>2 DEF Goes1, At, Steps
  <2> QED
    BY <1>2, <2>1, <2>2, <2>3 DEF Goes1, At
<1> QED
  BY <1>1, <1>2

LEMMA DownIs ==
  ASSUME NEW r
  PROVE  /\ DOMAIN Down(r) = IF r.op \in Takedowns /\ r.view.up THEN {"up"} ELSE {}
         /\ "up" \in DOMAIN Down(r) => Down(r)["up"] = FALSE
<1>1. DOMAIN [up |-> FALSE] = {"up"} /\ [up |-> FALSE]["up"] = FALSE
  OBVIOUS
<1> QED
  BY <1>1, Fields DEF Down

\* What a handler has set, column by column.
LEMMA NewIs ==
  ASSUME NEW r, SessionOK(r), At(r) # "fresh"
  PROVE  /\ DOMAIN r.new \subseteq Columns \ {"card"}
         /\ "text" \in DOMAIN r.new <=> r.op \in TextWork /\ Written(r)
         /\ "text" \in DOMAIN r.new => r.new["text"] = r.value /\ r.value \in Texts
         /\ "exists" \in DOMAIN r.new <=> r.op \in Deletions /\ Written(r)
         /\ "exists" \in DOMAIN r.new => r.new["exists"] = FALSE
         /\ "status" \in DOMAIN r.new => /\ r.new["status"] = IF IsUp(r) THEN "published" ELSE Decided(r)
                                         /\ r.new["status"] \in Statuses /\ (Written(r) \/ IsUp(r))
         /\ "status" \notin DOMAIN r.new => (Written(r) => Decided(r) = r.view.status) /\ (IsUp(r) => r.view.up)
         /\ "approved" \in DOMAIN r.new => r.new["approved"] \in BOOLEAN
         /\ "up" \in DOMAIN r.new <=> (TookDown(r) /\ r.view.up) \/ (IsUp(r) /\ ~r.view.up)
         /\ "up" \in DOMAIN r.new => (IsUp(r) => r.new["up"] = TRUE) /\ (~IsUp(r) => r.new["up"] = FALSE)
         /\ DOMAIN r.new # {} => Written(r) \/ IsUp(r) \/ TookDown(r)
<1>0. r.new = Set(r) /\ ValueOK(r) /\ r.view \in Row
  BY DEF SessionOK
<1>1. CASE IsUp(r)
  <2>1. r.new = IF r.view.up THEN Nothing ELSE Posted
    BY <1>0, <1>1 DEF IsUp, Set
  <2>2. /\ DOMAIN Posted = {"up", "status", "approved"}
        /\ Posted["up"] = TRUE /\ Posted["status"] = "published" /\ Posted["approved"] = TRUE
    BY DEF Posted
  <2>3. r.op = "publish_news" /\ r.op \notin TextWork /\ r.op \notin Deletions /\ r.op \notin Takedowns /\ ~Written(r)
    BY <1>1 DEF IsUp, TextWork, Deletions, Takedowns, Written
  <2>4. CASE r.view.up
    BY <1>1, <2>1, <2>3, <2>4, Fields DEF TookDown
  <2>5. CASE ~r.view.up
    <3>1. r.new = Posted
      BY <2>1, <2>5
    <3>2. "published" \in Statuses
      BY DEF Statuses
    <3>3. DOMAIN r.new \subseteq Columns \ {"card"}
      BY <2>2, <3>1 DEF Columns
    <3>4. "text" \notin DOMAIN r.new /\ "exists" \notin DOMAIN r.new
      BY <2>2, <3>1
    <3>5. /\ "status" \in DOMAIN r.new /\ r.new["status"] = "published"
          /\ "approved" \in DOMAIN r.new /\ r.new["approved"] = TRUE
          /\ "up" \in DOMAIN r.new /\ r.new["up"] = TRUE
      BY <2>2, <3>1
    <3>6. ~TookDown(r)
      BY <2>3 DEF TookDown
    <3> QED
      BY <1>1, <2>3, <2>5, <3>2, <3>3, <3>4, <3>5, <3>6
  <2> QED
    BY <2>4, <2>5
<1>2. CASE Written(r)
  <2>1. ~IsUp(r)
    BY <1>2 DEF IsUp, Written
  <2>2. r.new = Over(Sets(r), Down(r))
    BY <1>0, <1>2 DEF Set, Written
  <2>3. r.op \in Operations \ {"publish_news", "notify", "bot_approve", "bot_now"}
    <3>1. r.op # "none"
      BY <1>2, Working DEF Written
    <3>2. r.op \in Operations /\ r.op \in Doing(At(r))
      BY <3>1, Working
    <3> QED
      BY <1>2, <3>2 DEF Written, Doing
  <2>4. TookDown(r) <=> r.op \in Takedowns
    <3>1. At(r) = "post" => r.op \in Doing("post")
      BY <2>3, Working DEF Operations, TextWork, CardWork, PostWork
    <3>2. At(r) = "post" => r.op \notin Takedowns
      BY <3>1 DEF Doing, Takedowns, Deletions
    <3> QED
      BY <1>2, <3>2 DEF TookDown, Written
  <2>5. /\ DOMAIN r.new = DOMAIN Sets(r) \cup DOMAIN Down(r)
        /\ \A c \in DOMAIN Sets(r) : r.new[c] = Sets(r)[c]
        /\ \A c \in DOMAIN Down(r) : c \notin DOMAIN Sets(r) => r.new[c] = Down(r)[c]
    BY <2>2 DEF Over
  <2>6. /\ DOMAIN Sets(r) \subseteq {"exists", "text", "status", "approved"}
        /\ DOMAIN Down(r) = IF r.op \in Takedowns /\ r.view.up THEN {"up"} ELSE {}
        /\ "up" \in DOMAIN Down(r) => Down(r)["up"] = FALSE
    BY <1>0, <2>3, SetsWhat, DownIs
  <2>7. DOMAIN r.new \subseteq Columns \ {"card"}
    BY <2>5, <2>6 DEF Columns
  <2>8. "up" \in DOMAIN r.new <=> TookDown(r) /\ r.view.up
    BY <2>4, <2>5, <2>6
  <2>9. "up" \in DOMAIN r.new => r.new["up"] = FALSE
    BY <2>5, <2>6
  <2>10. \A c \in {"exists", "text", "status", "approved"} : /\ c \in DOMAIN r.new <=> c \in DOMAIN Sets(r)
                                                             /\ c \in DOMAIN r.new => r.new[c] = Sets(r)[c]
    BY <2>5, <2>6
  <2>11. /\ "text" \in DOMAIN r.new <=> r.op \in TextWork
         /\ "text" \in DOMAIN r.new => r.new["text"] = r.value /\ r.value \in Texts
         /\ "exists" \in DOMAIN r.new <=> r.op \in Deletions
         /\ "exists" \in DOMAIN r.new => r.new["exists"] = FALSE
    <3>1. /\ "text" \in DOMAIN Sets(r) <=> r.op \in TextWork
          /\ "text" \in DOMAIN Sets(r) => Sets(r)["text"] = r.value /\ r.value \in Texts
          /\ "exists" \in DOMAIN Sets(r) <=> r.op \in Deletions
          /\ "exists" \in DOMAIN Sets(r) => Sets(r)["exists"] = FALSE
      BY <1>0, <2>3, SetsWhat
    <3> QED
      BY <2>10, <3>1
  <2>12. /\ "status" \in DOMAIN r.new => r.new["status"] = Decided(r) /\ Decided(r) \in Statuses
         /\ "status" \notin DOMAIN r.new => Decided(r) = r.view.status
         /\ "approved" \in DOMAIN r.new => r.new["approved"] \in BOOLEAN
    <3>1. /\ "status" \in DOMAIN Sets(r) => Sets(r)["status"] = Decided(r) /\ Decided(r) \in Statuses
          /\ "status" \notin DOMAIN Sets(r) => Decided(r) = r.view.status
          /\ "approved" \in DOMAIN Sets(r) => Sets(r)["approved"] \in BOOLEAN
      BY <1>0, <2>3, SetsWhat
    <3> QED
      BY <2>10, <3>1
  <2> QED
    BY <1>2, <2>1, <2>7, <2>8, <2>9, <2>11, <2>12
<1>3. CASE ~IsUp(r) /\ ~Written(r)
  <2>1. r.new = IF At(r) = "write" \/ (At(r) = "card" /\ r.op = "delete") THEN Down(r) ELSE Nothing
    <3>1. At(r) = "post" => r.op = "edit"
      <4>1. At(r) = "post" => r.op \in Doing("post")
        BY Working
      <4> QED
        BY <4>1 DEF Doing
    <3> QED
      BY <1>0, <1>3, <3>1 DEF IsUp, Written, Set
  <2>2. TookDown(r) <=> r.op \in Takedowns /\ (At(r) = "write" \/ (At(r) = "card" /\ r.op = "delete"))
    <3>1. r.op = "publish_news" => r.op \notin Takedowns
      BY DEF Takedowns, Deletions
    <3> QED
      BY <1>3, <3>1 DEF TookDown, Written, IsUp
  <2>3. /\ DOMAIN r.new = IF TookDown(r) /\ r.view.up THEN {"up"} ELSE {}
        /\ "up" \in DOMAIN r.new => r.new["up"] = FALSE
    <3>1. /\ DOMAIN Down(r) = IF r.op \in Takedowns /\ r.view.up THEN {"up"} ELSE {}
          /\ "up" \in DOMAIN Down(r) => Down(r)["up"] = FALSE
      BY DownIs
    <3> QED
      BY <2>1, <2>2, <3>1, Fields
  <2>4. /\ DOMAIN r.new \subseteq {"up"}
        /\ "up" \in DOMAIN r.new <=> TookDown(r) /\ r.view.up
        /\ DOMAIN r.new # {} => TookDown(r)
    BY <2>3
  <2>6. /\ "text" \notin DOMAIN r.new /\ "exists" \notin DOMAIN r.new
        /\ "status" \notin DOMAIN r.new /\ "approved" \notin DOMAIN r.new
    BY <2>4
  <2>7. "up" \in DOMAIN r.new => r.new["up"] = FALSE
    BY <2>3
  <2>5. DOMAIN r.new \subseteq Columns \ {"card"}
    BY <2>4 DEF Columns
  <2> QED
    BY <1>3, <2>4, <2>5, <2>6, <2>7
<1> QED
  BY <1>1, <1>2, <1>3

\* The row as the handler has it.
LEMMA OwnIs ==
  ASSUME NEW r, SessionOK(r), At(r) # "fresh"
  PROVE  /\ Own(r) \in Row
         /\ Own(r).card = r.view.card
         /\ Own(r).text = IF r.op \in TextWork /\ Written(r) THEN r.value ELSE r.view.text
         /\ Own(r).exists <=> r.view.exists /\ ~(r.op \in Deletions /\ Written(r))
         /\ Own(r).up <=> IsUp(r) \/ (r.view.up /\ ~TookDown(r))
         /\ Own(r).status = IF IsUp(r) THEN IF r.view.up THEN r.view.status ELSE "published"
                            ELSE IF Written(r) THEN Decided(r) ELSE r.view.status
         /\ \A c \in Columns : c \in Changed(r) <=> Own(r)[c] # r.view[c]
         /\ \A c \in Changed(r) : c \in Columns /\ r.new[c] = Own(r)[c]
<1>0. r.view \in Row
  BY DEF SessionOK
<1>1. /\ DOMAIN r.view = Columns /\ r.view.exists \in BOOLEAN /\ r.view.text \in Texts /\ r.view.status \in Statuses
      /\ r.view.approved \in BOOLEAN /\ r.view.up \in BOOLEAN /\ r.view.card \in 0..MaxCards
  BY <1>0, RowFields
<1>2. DOMAIN r.new \subseteq Columns \ {"card"}
  BY NewIs
<1>3. Own(r) = [c \in Columns |-> IF c \in DOMAIN r.new THEN r.new[c] ELSE r.view[c]]
  <2>1. DOMAIN r.new \cup DOMAIN r.view = Columns
    BY <1>1, <1>2
  <2> QED
    BY <2>1 DEF Own, Over
<1>4. {"exists", "text", "status", "approved", "up", "card"} = Columns
  BY DEF Columns
<1>5. Own(r).card = r.view.card
  <2>1. "card" \notin DOMAIN r.new
    BY <1>2
  <2> QED
    BY <2>1, <1>3, <1>4
<1>6. Own(r).text = (IF r.op \in TextWork /\ Written(r) THEN r.value ELSE r.view.text) /\ Own(r).text \in Texts
  <2>1. /\ "text" \in DOMAIN r.new <=> r.op \in TextWork /\ Written(r)
        /\ "text" \in DOMAIN r.new => r.new["text"] = r.value /\ r.value \in Texts
    BY NewIs
  <2>2. Own(r).text = IF "text" \in DOMAIN r.new THEN r.new["text"] ELSE r.view["text"]
    BY <1>3, <1>4
  <2> QED
    BY <1>1, <2>1, <2>2
<1>7. (Own(r).exists <=> r.view.exists /\ ~(r.op \in Deletions /\ Written(r))) /\ Own(r).exists \in BOOLEAN
  <2>1. /\ "exists" \in DOMAIN r.new <=> r.op \in Deletions /\ Written(r)
        /\ "exists" \in DOMAIN r.new => r.new["exists"] = FALSE
    BY NewIs
  <2>2. Own(r).exists = IF "exists" \in DOMAIN r.new THEN r.new["exists"] ELSE r.view["exists"]
    BY <1>3, <1>4
  <2> QED
    BY <1>1, <2>1, <2>2
<1>8. (Own(r).up <=> IsUp(r) \/ (r.view.up /\ ~TookDown(r))) /\ Own(r).up \in BOOLEAN
  <2>1. /\ "up" \in DOMAIN r.new <=> (TookDown(r) /\ r.view.up) \/ (IsUp(r) /\ ~r.view.up)
        /\ "up" \in DOMAIN r.new => (IsUp(r) => r.new["up"] = TRUE) /\ (~IsUp(r) => r.new["up"] = FALSE)
    BY NewIs
  <2>2. Own(r).up = IF "up" \in DOMAIN r.new THEN r.new["up"] ELSE r.view["up"]
    BY <1>3, <1>4
  <2>3. ~(IsUp(r) /\ TookDown(r))
    BY DEF IsUp, TookDown, Takedowns, Deletions
  <2> QED
    BY <1>1, <2>1, <2>2, <2>3
<1>9. /\ Own(r).status = IF IsUp(r) THEN IF r.view.up THEN r.view.status ELSE "published"
                         ELSE IF Written(r) THEN Decided(r) ELSE r.view.status
      /\ Own(r).status \in Statuses
  <2>1. /\ "status" \in DOMAIN r.new => /\ r.new["status"] = IF IsUp(r) THEN "published" ELSE Decided(r)
                                        /\ r.new["status"] \in Statuses /\ (Written(r) \/ IsUp(r))
        /\ "status" \notin DOMAIN r.new => (Written(r) => Decided(r) = r.view.status) /\ (IsUp(r) => r.view.up)
    BY NewIs
  <2>2. Own(r).status = IF "status" \in DOMAIN r.new THEN r.new["status"] ELSE r.view["status"]
    BY <1>3, <1>4
  <2>3. IsUp(r) /\ r.view.up => "status" \notin DOMAIN r.new
    BY Fields DEF IsUp, SessionOK, Set
  <2>4. ~(IsUp(r) /\ Written(r))
    BY DEF IsUp, Written
  <2> QED
    BY <1>1, <2>1, <2>2, <2>3, <2>4
<1>10. Own(r).approved \in BOOLEAN
  <2>1. "approved" \in DOMAIN r.new => r.new["approved"] \in BOOLEAN
    BY NewIs
  <2>2. Own(r).approved = IF "approved" \in DOMAIN r.new THEN r.new["approved"] ELSE r.view["approved"]
    BY <1>3, <1>4
  <2> QED
    BY <1>1, <2>1, <2>2
<1>11. Own(r) \in Row
  <2>1. Own(r) = [c \in Columns |-> Own(r)[c]]
    BY <1>3
  <2>2. Own(r).card \in 0..MaxCards
    BY <1>1, <1>5
  <2> QED
    BY <1>6, <1>7, <1>8, <1>9, <1>10, <2>1, <2>2, RowFields
<1>12. /\ \A c \in Columns : c \in Changed(r) <=> Own(r)[c] # r.view[c]
       /\ \A c \in Changed(r) : c \in Columns /\ r.new[c] = Own(r)[c]
  BY <1>2, <1>3 DEF Changed
<1> QED
  BY <1>5, <1>6, <1>7, <1>8, <1>9, <1>11, <1>12

\* What a commit makes of the row.
LEMMA Merged ==
  ASSUME NEW r, SessionOK(r), At(r) # "fresh", NEW old \in Row, NEW new,
         new = [c \in Columns |-> IF c \in Changed(r) THEN r.new[c] ELSE old[c]]
  PROVE  /\ new \in Row
         /\ new.exists = (IF Own(r).exists # r.view.exists THEN Own(r).exists ELSE old.exists)
         /\ new.text = (IF Own(r).text # r.view.text THEN Own(r).text ELSE old.text)
         /\ new.status = (IF Own(r).status # r.view.status THEN Own(r).status ELSE old.status)
         /\ new.up = (IF Own(r).up # r.view.up THEN Own(r).up ELSE old.up)
         /\ new.card = old.card
         /\ Changed(r) = {} => new = old
<1>1. \A c \in Columns : new[c] = IF Own(r)[c] # r.view[c] THEN Own(r)[c] ELSE old[c]
  BY OwnIs
<1>2. {"exists", "text", "status", "approved", "up", "card"} = Columns
  BY DEF Columns
<1>3. /\ new.exists = (IF Own(r).exists # r.view.exists THEN Own(r).exists ELSE old.exists)
      /\ new.text = (IF Own(r).text # r.view.text THEN Own(r).text ELSE old.text)
      /\ new.status = (IF Own(r).status # r.view.status THEN Own(r).status ELSE old.status)
      /\ new.up = (IF Own(r).up # r.view.up THEN Own(r).up ELSE old.up)
      /\ new.approved = (IF Own(r).approved # r.view.approved THEN Own(r).approved ELSE old.approved)
  BY <1>1, <1>2
<1>4. new.card = old.card
  <2>1. Own(r).card = r.view.card
    BY OwnIs
  <2> QED
    BY <1>1, <1>2, <2>1
<1>5. Own(r) \in Row
  BY OwnIs
<1>6. /\ Own(r).exists \in BOOLEAN /\ Own(r).text \in Texts /\ Own(r).status \in Statuses
      /\ Own(r).approved \in BOOLEAN /\ Own(r).up \in BOOLEAN
  BY <1>5, RowFields
<1>7. /\ old.exists \in BOOLEAN /\ old.text \in Texts /\ old.status \in Statuses
      /\ old.approved \in BOOLEAN /\ old.up \in BOOLEAN /\ old.card \in 0..MaxCards
  BY RowFields
<1>8. new = [c \in Columns |-> new[c]]
  OBVIOUS
<1>9. new \in Row
  BY <1>3, <1>4, <1>6, <1>7, <1>8, RowFields
<1>10. Changed(r) = {} => new = old
  <2>1. old = [c \in Columns |-> old[c]]
    BY RowFields
  <2> QED
    BY <2>1
<1> QED
  BY <1>3, <1>4, <1>9, <1>10

-------------------------------------------------------------------------------
(* What a step makes of the handler that takes it. *)

Moves(s) == desk' = [desk EXCEPT ![s] = desk'[s]]

\* r has gone on to its next step, and has not turned to something else.
Turn(r, n, step) == /\ DOMAIN n = DOMAIN Nobody /\ n.op = r.op /\ n.value = r.value
                    /\ n.steps \in Plans(n.op) /\ At(n) = step

LEMMA NobodySits ==
  ASSUME NEW r \in Row
  PROVE  SessionOK(Nobody) /\ At(Nobody) = "nowhere" /\ ~HasRead(Nobody) /\ Nobody.op = "none"
         /\ ~Nobody.locked /\ Nobody.card = 0
<1>1. At(Nobody) = "nowhere" /\ ~HasRead(Nobody) /\ Nobody.op = "none"
  BY Fields DEF At, Due, HasRead
<1>2. Set(Nobody) = Nothing /\ ValueOK(Nobody) /\ SnapOK(Nobody)
  BY <1>1, Fields DEF Set, ValueOK, SnapOK, TextWork
<1>3. Nobody.steps \in Plans(Nobody.op)
  <2>1. Plans("none") = {<<>>}
    BY DEF Plans
  <2> QED
    BY <2>1, Fields
<1>4. "none" \notin BotWork /\ Nobody.view \in Row /\ Nobody.locked \in BOOLEAN /\ Nobody.card \in Nat
  <2>1. "none" \notin BotWork
    BY DEF BotWork
  <2>2. Nobody.view \in Row
    BY Fields
  <2>3. Nobody.locked \in BOOLEAN /\ Nobody.card = 0
    BY Fields
  <2> QED
    BY <2>1, <2>2, <2>3
<1>5. At(Nobody) \notin {"commit", "show", "keep", "fresh"}
  BY <1>1
<1>6. SessionOK(Nobody)
  BY <1>1, <1>2, <1>3, <1>4, <1>5, Fields DEF SessionOK, Written
<1> QED
  BY <1>1, <1>6, Fields

LEMMA Takings ==
  ASSUME DeskType, NEW s \in Sessions, NEW step \in Steps, Takes(s, step)
  PROVE  /\ At(desk[s]) = step /\ desk[s].op # "none" /\ desk[s].op \in Doing(step) /\ SessionOK(desk[s])
         /\ DOMAIN desk[s] = DOMAIN Nobody /\ DOMAIN desk = Sessions
<1>1. SessionOK(desk[s]) /\ DOMAIN desk = Sessions
  BY DEF DeskType
<1>2. At(desk[s]) = step /\ desk[s].steps # <<>>
  BY DEF Takes, At, Due
<1>3. desk[s].op # "none"
  BY <1>1, <1>2, Working
<1>4. desk[s].op \in Doing(step)
  BY <1>1, <1>2, <1>3, Working
<1> QED
  BY <1>1, <1>2, <1>3, <1>4 DEF SessionOK

\* A handler that goes on to another step.
LEMMA GoesOn ==
  ASSUME DeskType, NEW s \in Sessions, NEW step \in Steps, Takes(s, step), NEW q, Goes(s, q),
         DOMAIN q = DOMAIN Nobody, q.op = desk[s].op, q.value = desk[s].value, q.steps = Tail(desk[s].steps)
  PROVE  /\ Moves(s)
         /\ IF Follows(desk[s].op, step) = "nowhere" THEN desk'[s] = Nobody
            ELSE desk'[s] = q /\ Turn(desk[s], q, Follows(desk[s].op, step))
<1>1. DOMAIN desk = Sessions /\ SessionOK(desk[s]) /\ At(desk[s]) = step /\ desk[s].op # "none"
  BY Takings
<1>2. desk' = [desk EXCEPT ![s] = Ended(q)]
  BY DEF Goes
<1>3. Moves(s) /\ desk'[s] = Ended(q)
  BY <1>1, <1>2 DEF Moves
<1>4. /\ Tail(desk[s].steps) = <<>> <=> Follows(desk[s].op, step) = "nowhere"
      /\ Tail(desk[s].steps) # <<>> => Tail(desk[s].steps) \in Plans(desk[s].op) /\ Due(Tail(desk[s].steps)) = Follows(desk[s].op, step)
  BY <1>1, Working
<1>5. CASE Follows(desk[s].op, step) = "nowhere"
  BY <1>3, <1>4, <1>5 DEF Ended
<1>6. CASE Follows(desk[s].op, step) # "nowhere"
  <2>1. desk'[s] = q
    BY <1>3, <1>4, <1>6 DEF Ended
  <2>2. q.steps \in Plans(q.op) /\ At(q) = Follows(desk[s].op, step)
    BY <1>4, <1>6 DEF At
  <2>3. Turn(desk[s], q, Follows(desk[s].op, step))
    BY <2>2 DEF Turn
  <2> QED
    BY <1>3, <1>6, <2>1, <2>3
<1> QED
  BY <1>5, <1>6

LEMMA Reads ==
  ASSUME DeskType, NEW s \in Sessions, ReadRow(s)
  PROVE  /\ At(desk[s]) = "read" /\ desk[s].op \in Doing("read") /\ Moves(s) /\ SessionOK(desk'[s])
         /\ \/ desk'[s] = Nobody /\ Refused(desk[s], row)
            \/ /\ ~row.exists /\ desk[s].op \in {"bot_delete", "bot_purge"} /\ Turn(desk[s], desk'[s], "fresh")
            \/ /\ row.exists /\ ~Refused(desk[s], row) /\ Turn(desk[s], desk'[s], Follows(desk[s].op, "read"))
               /\ desk'[s].view = row /\ desk'[s].new = Nothing /\ desk'[s].snap = <<>>
         /\ desk'[s].locked => desk[s].locked
         /\ desk'[s].card = desk[s].card \/ desk'[s] = Nobody
         /\ HasRead(desk'[s]) => desk'[s].view = row
<1> DEFINE r == desk[s]
<1>1. "read" \in Steps /\ Takes(s, "read")
  BY DEF Steps, ReadRow
<1>2. /\ At(r) = "read" /\ r.op # "none" /\ r.op \in Doing("read") /\ SessionOK(r)
      /\ DOMAIN r = DOMAIN Nobody /\ DOMAIN desk = Sessions
  BY <1>1, Takings
<1>3. row \in Row
  BY DEF DeskType
<1>4. desk' = [desk EXCEPT ![s] = IF Refused(r, row) THEN Nobody
                                  ELSE IF ~row.exists THEN [r EXCEPT !.steps = <<"fresh", "mark">>]
                                  ELSE [Rest(r) EXCEPT !.view = row]]
  BY DEF ReadRow
<1>5. Moves(s)
  BY <1>2, <1>4 DEF Moves
<1>6. /\ r.new = Nothing /\ r.snap = <<>> /\ r.view \in Row /\ r.locked \in BOOLEAN /\ r.card \in Nat /\ ValueOK(r)
      /\ r.op \in BotWork => r.card # 0
  BY <1>2 DEF SessionOK, Set, SnapOK
<1>7. CASE Refused(r, row)
  <2>1. desk'[s] = Nobody
    BY <1>2, <1>4, <1>7
  <2> QED
    BY <1>2, <1>3, <1>5, <1>7, <2>1, NobodySits
<1>8. CASE ~Refused(r, row) /\ ~row.exists
  <2>1. desk'[s] = [r EXCEPT !.steps = <<"fresh", "mark">>]
    BY <1>2, <1>4, <1>8
  <2>2. /\ desk'[s].steps = <<"fresh", "mark">> /\ desk'[s].op = r.op /\ desk'[s].value = r.value /\ desk'[s].view = r.view
        /\ desk'[s].snap = r.snap /\ desk'[s].locked = r.locked /\ desk'[s].card = r.card /\ DOMAIN desk'[s] = DOMAIN Nobody
    BY <1>2, <2>1, Fields
  <2>3. r.op \in {"bot_delete", "bot_purge"}
    BY <1>8 DEF Refused
  <2>4. At(desk'[s]) = "fresh"
    BY <2>2, Tuples DEF At
  <2>5. <<"fresh", "mark">> \in Plans(r.op)
    BY <2>3 DEF Plans
  <2>6. Turn(r, desk'[s], "fresh")
    BY <2>2, <2>4, <2>5 DEF Turn
  <2>7. ValueOK(desk'[s]) /\ SnapOK(desk'[s])
    BY <2>2, <2>3, <2>4, <1>6 DEF ValueOK, SnapOK, TextWork
  <2>8. ~HasRead(desk'[s]) /\ r.op \in Operations
    BY <2>3, <2>4 DEF HasRead, Operations, CardWork, PostWork
  <2>9. SessionOK(desk'[s])
    BY <1>6, <2>2, <2>3, <2>4, <2>5, <2>7, <2>8 DEF SessionOK, Written
  <2> QED
    BY <1>2, <1>5, <1>8, <2>2, <2>3, <2>6, <2>8, <2>9
<1>9. CASE ~Refused(r, row) /\ row.exists
  <2> DEFINE q == [Rest(r) EXCEPT !.view = row]
  <2>1. /\ q.steps = Tail(r.steps) /\ q.op = r.op /\ q.value = r.value /\ q.view = row /\ q.new = Nothing
        /\ q.snap = <<>> /\ q.locked = r.locked /\ q.card = r.card /\ DOMAIN q = DOMAIN Nobody
    BY <1>2, <1>6, Fields DEF Rest
  <2>2. Follows(r.op, "read") \in {"snapshot", "takedown", "write"}
    BY DEF Follows
  <2>3. /\ Tail(r.steps) # <<>> /\ Tail(r.steps) \in Plans(r.op) /\ At(q) = Follows(r.op, "read")
    BY <1>2, <2>1, <2>2, Working DEF At
  <2>4. desk'[s] = q
    BY <1>2, <1>4, <1>9
  <2> HIDE DEF q
  <2>5. Turn(r, q, Follows(r.op, "read"))
    BY <2>1, <2>3 DEF Turn
  <2>6. ValueOK(q)
    BY <2>1, <1>6 DEF ValueOK
  <2>7. SnapOK(q)
    BY <2>1, <2>2, <2>3 DEF SnapOK, Follows
  <2>8. q.new = Set(q)
    <3>1. Follows(r.op, "read") = "write" => r.op \notin Takedowns
      BY DEF Follows
    <3>2. Down(q) = Nothing \/ At(q) # "write"
      BY <2>1, <2>3, <3>1 DEF Down
    <3> QED
      BY <2>1, <2>2, <2>3, <3>2 DEF Set
  <2>9. r.op \in Operations \ {"publish_news", "notify"}
    BY <1>2, Working DEF Doing
  <2>10. SessionOK(q)
    BY <1>3, <1>6, <1>9, <2>1, <2>2, <2>3, <2>6, <2>7, <2>8, <2>9 DEF SessionOK, Written
  <2> QED
    BY <1>2, <1>5, <1>9, <2>1, <2>4, <2>5, <2>10
<1> QED
  BY <1>7, <1>8, <1>9

\* A handler that leaves.
LEMMA Leaves ==
  ASSUME DeskType, NEW s \in Sessions, Goes(s, Nobody)
  PROVE  Moves(s) /\ desk'[s] = Nobody /\ SessionOK(desk'[s]) /\ ~HasRead(desk'[s])
<1>1. DOMAIN desk = Sessions /\ row \in Row
  BY DEF DeskType
<1>2. desk' = [desk EXCEPT ![s] = Nobody]
  BY DEF Goes, Ended
<1> QED
  BY <1>1, <1>2, NobodySits DEF Moves

\* What does not change when the handler has only gone on.
LEMMA Rests ==
  ASSUME NEW r, DOMAIN r = DOMAIN Nobody
  PROVE  /\ DOMAIN Rest(r) = DOMAIN Nobody /\ Rest(r).steps = Tail(r.steps) /\ Rest(r).op = r.op
         /\ Rest(r).value = r.value /\ Rest(r).view = r.view /\ Rest(r).new = r.new
         /\ Rest(r).snap = r.snap /\ Rest(r).locked = r.locked /\ Rest(r).card = r.card
  BY Fields DEF Rest

LEMMA Snaps ==
  ASSUME DeskType, NEW s \in Sessions, Snapshot(s), NextNumber \in Nat \ {0}
  PROVE  /\ At(desk[s]) = "snapshot" /\ desk[s].op \in TextWork /\ Moves(s) /\ SessionOK(desk'[s])
         /\ Turn(desk[s], desk'[s], "write")
         /\ desk'[s].view = desk[s].view /\ desk'[s].locked = desk[s].locked /\ desk'[s].card = desk[s].card
         /\ desk'[s].snap = <<[number |-> NextNumber, text |-> desk[s].view.text]>>
<1> DEFINE r == desk[s]
           q == [Rest(r) EXCEPT !.snap = <<[number |-> NextNumber, text |-> r.view.text]>>]
<1>1. "snapshot" \in Steps /\ Takes(s, "snapshot") /\ Goes(s, q)
  BY DEF Steps, Snapshot
<1>2. /\ At(r) = "snapshot" /\ r.op # "none" /\ r.op \in Doing("snapshot") /\ SessionOK(r)
      /\ DOMAIN r = DOMAIN Nobody /\ DOMAIN desk = Sessions
  BY <1>1, Takings
<1>3. /\ q.steps = Tail(r.steps) /\ q.op = r.op /\ q.value = r.value /\ q.view = r.view /\ q.new = r.new
      /\ q.snap = <<[number |-> NextNumber, text |-> r.view.text]>>
      /\ q.locked = r.locked /\ q.card = r.card /\ DOMAIN q = DOMAIN Nobody
  BY <1>2, Rests, Fields
<1>4. r.op \in TextWork /\ r.op \notin Takedowns /\ Follows(r.op, "snapshot") = "write" /\ r.op \in Operations
  BY <1>2 DEF Doing, Follows, TextWork, Takedowns, Deletions, Operations
<1> HIDE DEF q
<1>5. desk'[s] = q /\ Turn(r, q, "write") /\ Moves(s)
  BY <1>1, <1>3, <1>4, GoesOn
<1>6. /\ r.new = Nothing /\ r.view \in Row /\ r.view.exists /\ r.locked \in BOOLEAN /\ r.card \in Nat /\ ValueOK(r)
      /\ r.op \in BotWork => r.card # 0
  BY <1>2 DEF SessionOK, Set, HasRead
<1>7. ValueOK(q)
  BY <1>3, <1>6 DEF ValueOK
<1>8. At(q) = "write" /\ q.steps \in Plans(q.op)
  BY <1>5 DEF Turn
<1>9. SnapOK(q)
  <2>1. q.snap[1].number = NextNumber
    BY <1>3
  <2> QED
    BY <1>3, <1>4, <1>8, <2>1 DEF SnapOK
<1>10. q.new = Set(q)
  BY <1>3, <1>4, <1>6, <1>8 DEF Set, Down
<1>11. q.op \notin {"publish_news", "notify"}
  BY <1>3, <1>4 DEF TextWork
<1>12. SessionOK(q)
  BY <1>3, <1>4, <1>6, <1>7, <1>8, <1>9, <1>10, <1>11 DEF SessionOK, Written
<1> QED
  BY <1>2, <1>3, <1>4, <1>5, <1>12

LEMMA TakesDown ==
  ASSUME DeskType, NEW s \in Sessions, Takedown(s)
  PROVE  /\ At(desk[s]) = "takedown" /\ desk[s].op \in Takedowns /\ Moves(s) /\ SessionOK(desk'[s])
         /\ Turn(desk[s], desk'[s], Follows(desk[s].op, "takedown"))
         /\ desk'[s].view = desk[s].view /\ desk'[s].locked = desk[s].locked /\ desk'[s].card = desk[s].card
<1> DEFINE r == desk[s]
           q == IF r.view.up THEN [Rest(r) EXCEPT !.new = [up |-> FALSE]] ELSE Rest(r)
<1>1. "takedown" \in Steps /\ Takes(s, "takedown") /\ Goes(s, q)
  BY DEF Steps, Takedown
<1>2. /\ At(r) = "takedown" /\ r.op # "none" /\ r.op \in Doing("takedown") /\ SessionOK(r)
      /\ DOMAIN r = DOMAIN Nobody /\ DOMAIN desk = Sessions
  BY <1>1, Takings
<1>3. /\ q.steps = Tail(r.steps) /\ q.op = r.op /\ q.value = r.value /\ q.view = r.view
      /\ q.new = (IF r.view.up THEN [up |-> FALSE] ELSE r.new) /\ q.snap = r.snap
      /\ q.locked = r.locked /\ q.card = r.card /\ DOMAIN q = DOMAIN Nobody
  BY <1>2, Rests, Fields
<1>4. /\ r.op \in Takedowns /\ r.op \notin TextWork /\ r.op \in Operations
      /\ Follows(r.op, "takedown") \in {"card", "write"}
      /\ Follows(r.op, "takedown") = "card" <=> r.op = "delete"
  BY <1>2 DEF Doing, Follows, TextWork, Takedowns, Deletions, Operations, CardWork, PostWork
<1> HIDE DEF q
<1>5. desk'[s] = q /\ Turn(r, q, Follows(r.op, "takedown")) /\ Moves(s)
  BY <1>1, <1>3, <1>4, GoesOn
<1>6. /\ r.new = Nothing /\ r.snap = <<>> /\ r.view \in Row /\ r.view.exists /\ r.locked \in BOOLEAN /\ r.card \in Nat
      /\ ValueOK(r)
      /\ r.op \in BotWork => r.card # 0
  BY <1>2, <1>4 DEF SessionOK, Set, HasRead, SnapOK
<1>7. ValueOK(q)
  BY <1>3, <1>6 DEF ValueOK
<1>8. At(q) = Follows(r.op, "takedown") /\ q.steps \in Plans(q.op)
  BY <1>5 DEF Turn
<1>9. SnapOK(q)
  BY <1>3, <1>4, <1>6 DEF SnapOK
<1>10. q.op \notin {"publish_news", "notify"}
  BY <1>3, <1>4 DEF Takedowns, Deletions
<1>11. q.new = Set(q)
  <2>1. q.new = Down(q)
    BY <1>3, <1>4, <1>6 DEF Down
  <2> QED
    BY <1>3, <1>4, <1>8, <1>10, <2>1 DEF Set
<1>12. SessionOK(q)
  BY <1>3, <1>4, <1>6, <1>7, <1>8, <1>9, <1>10, <1>11 DEF SessionOK, Written
<1> QED
  BY <1>2, <1>3, <1>4, <1>5, <1>12

\* A step that only goes on: to show the post, or the card.
LEMMA Shows ==
  ASSUME DeskType, NEW s \in Sessions, NEW step \in {"post", "card"}, Takes(s, step), Goes(s, Rest(desk[s]))
  PROVE  /\ At(desk[s]) = step /\ desk[s].op \in Doing(step) /\ Moves(s) /\ SessionOK(desk'[s])
         /\ desk[s].op = "publish_news" => desk'[s] = Nobody
         /\ desk[s].op # "publish_news" =>
              /\ Turn(desk[s], desk'[s], Follows(desk[s].op, step)) /\ Follows(desk[s].op, step) # "nowhere"
              /\ desk'[s].new = desk[s].new /\ desk'[s].view = desk[s].view /\ desk'[s].snap = desk[s].snap
              /\ desk'[s].locked = desk[s].locked /\ desk'[s].card = desk[s].card
<1> DEFINE r == desk[s]
           q == Rest(r)
<1>1. step \in Steps /\ Takes(s, step) /\ Goes(s, q)
  BY DEF Steps
<1>2. /\ At(r) = step /\ r.op # "none" /\ r.op \in Doing(step) /\ SessionOK(r)
      /\ DOMAIN r = DOMAIN Nobody /\ DOMAIN desk = Sessions /\ row \in Row
  BY <1>1, Takings DEF DeskType
<1>3. /\ q.steps = Tail(r.steps) /\ q.op = r.op /\ q.value = r.value /\ q.view = r.view
      /\ q.new = r.new /\ q.snap = r.snap /\ q.locked = r.locked /\ q.card = r.card /\ DOMAIN q = DOMAIN Nobody
  BY <1>2, Rests
<1>4. /\ r.op \in Operations /\ r.op \notin BotWork /\ r.op # "notify"
      /\ r.op \in TextWork => r.op = "edit"
      /\ r.op \in Takedowns => step = "card"
      /\ Follows(r.op, step) = "nowhere" <=> r.op = "publish_news"
      /\ r.op # "publish_news" => Follows(r.op, step) = IF step = "post" THEN "card" ELSE IF r.op = "delete" THEN "write" ELSE "commit"
  BY <1>2 DEF Doing, Follows, TextWork, Takedowns, Deletions, BotWork, Operations, CardWork, PostWork
<1> HIDE DEF q
<1>5. CASE r.op = "publish_news"
  <2>1. Moves(s) /\ desk'[s] = Nobody
    BY <1>1, <1>3, <1>4, <1>5, GoesOn
  <2> QED
    BY <1>2, <1>5, <2>1, NobodySits
<1>6. CASE r.op # "publish_news"
  <2>1. desk'[s] = q /\ Turn(r, q, Follows(r.op, step)) /\ Moves(s)
    BY <1>1, <1>3, <1>4, <1>6, GoesOn
  <2>2. /\ r.view \in Row /\ r.view.exists /\ r.locked \in BOOLEAN /\ r.card \in Nat /\ ValueOK(r) /\ r.new = Set(r)
        /\ SnapOK(r)
    BY <1>2 DEF SessionOK, HasRead
  <2>3. ValueOK(q)
    BY <1>3, <2>2 DEF ValueOK
  <2>4. At(q) = Follows(r.op, step) /\ q.steps \in Plans(q.op)
    BY <2>1 DEF Turn
  <2>5. SnapOK(q)
    BY <1>2, <1>3, <1>4, <1>6, <2>2, <2>4 DEF SnapOK
  <2>6. Sets(q) = Sets(r) /\ Down(q) = Down(r)
    BY <1>3 DEF Sets, Down
  <2>7. q.new = Set(q)
    <3>1. CASE r.op = "delete" /\ step = "card"
      <4>1. Set(r) = Down(r) /\ Set(q) = Down(q)
        BY <1>2, <1>3, <1>4, <2>4, <3>1 DEF Set
      <4> QED
        BY <1>3, <2>2, <2>6, <4>1
    <3>2. CASE ~(r.op = "delete" /\ step = "card")
      <4>1. At(q) \in {"card", "commit"} /\ ~(At(q) = "card" /\ r.op = "delete")
        BY <1>2, <1>4, <1>6, <2>4, <3>2 DEF Doing
      <4>2. Set(r) = Over(Sets(r), Down(r)) /\ Set(q) = Over(Sets(q), Down(q))
        BY <1>2, <1>3, <1>6, <3>2, <4>1 DEF Set
      <4> QED
        BY <1>3, <2>2, <2>6, <4>2
    <3> QED
      BY <3>1, <3>2
  <2>8. Changed(q) = Changed(r)
    BY <1>3 DEF Changed
  <2>9. Written(q) => Written(r)
    BY <1>2, <1>3, <1>4, <1>6, <2>4 DEF Written
  <2>10. Written(q) /\ ~q.locked => Changed(q) = {}
    BY <1>2, <1>3, <2>8, <2>9 DEF SessionOK
  <2>11. SessionOK(q)
    BY <1>3, <1>4, <1>6, <2>2, <2>3, <2>4, <2>5, <2>7, <2>10 DEF SessionOK
  <2> QED
    BY <1>2, <1>3, <1>4, <1>6, <2>1, <2>11
<1> QED
  BY <1>5, <1>6

\* What a handler will write, and whether it takes the lock for that.
Writing(r) == [Rest(r) EXCEPT !.new = Over(Sets(r), r.new)]
Locks(r) == Changed(Writing(r)) # {} \/ r.op \in {"approve", "publish_now"}

LEMMA Writes ==
  ASSUME DeskType, NEW s \in Sessions, Write(s)
  PROVE  /\ At(desk[s]) = "write" /\ desk[s].op \in Doing("write") /\ Moves(s) /\ SessionOK(desk'[s])
         /\ ~row.exists /\ desk[s].op \notin Deletions => desk'[s] = Nobody
         /\ row.exists \/ desk[s].op \in Deletions =>
              /\ Turn(desk[s], desk'[s], Follows(desk[s].op, "write")) /\ Written(desk'[s])
              /\ desk'[s].view = desk[s].view /\ desk'[s].snap = desk[s].snap /\ desk'[s].card = desk[s].card
         /\ desk'[s].locked => LockFree(s)
<1> DEFINE r == desk[s]
           q == [Writing(r) EXCEPT !.locked = Locks(r)]
<1>1. "write" \in Steps /\ Takes(s, "write")
  BY DEF Steps, Write
<1>2. /\ At(r) = "write" /\ r.op # "none" /\ r.op \in Doing("write") /\ SessionOK(r)
      /\ DOMAIN r = DOMAIN Nobody /\ DOMAIN desk = Sessions /\ row \in Row
  BY <1>1, Takings DEF DeskType
<1>3. /\ Writing(r).steps = Tail(r.steps) /\ Writing(r).op = r.op /\ Writing(r).value = r.value /\ Writing(r).view = r.view
      /\ Writing(r).new = Over(Sets(r), r.new) /\ Writing(r).snap = r.snap
      /\ Writing(r).card = r.card /\ DOMAIN Writing(r) = DOMAIN Nobody
  BY <1>2, Rests, Fields DEF Writing
<1>4. Locks(r) => LockFree(s)
  BY <1>2, <1>3 DEF Write, Locks, Writing
<1>5. Goes(s, IF row.exists \/ Deletes(Writing(r)) THEN q ELSE Nobody)
  BY <1>2, <1>3 DEF Write, Locks, Writing
<1>6. /\ q.steps = Tail(r.steps) /\ q.op = r.op /\ q.value = r.value /\ q.view = r.view
      /\ q.new = Over(Sets(r), r.new) /\ q.snap = r.snap
      /\ q.card = r.card /\ DOMAIN q = DOMAIN Nobody
  BY <1>3, Fields
<1>7. q.locked = Locks(r) /\ q.locked \in BOOLEAN
  <2>1. Locks(r) \in BOOLEAN
    BY DEF Locks
  <2> QED
    BY <1>3, <2>1, Fields
<1> HIDE DEF q
<1>8. /\ r.op \in Operations /\ r.op \notin {"publish_news", "notify", "bot_approve", "bot_now"}
      /\ Follows(r.op, "write") \in {"post", "card", "commit"}
      /\ r.op = "delete" => Follows(r.op, "write") = "commit"
  BY <1>2 DEF Doing, Follows, Operations
<1>9. q.steps \in Plans(q.op) /\ At(q) = Follows(r.op, "write") /\ Tail(r.steps) # <<>>
  BY <1>2, <1>6, <1>8, Working DEF At
<1>10. /\ r.view \in Row /\ r.view.exists /\ r.card \in Nat /\ ValueOK(r) /\ SnapOK(r) /\ r.new = Down(r)
       /\ r.op \in BotWork => r.card # 0
  BY <1>2 DEF SessionOK, Set, HasRead
<1>11. Written(q)
  BY <1>6, <1>8, <1>9 DEF Written
<1>12. q.new = Set(q)
  <2>1. Sets(q) = Sets(r) /\ Down(q) = Down(r)
    BY <1>6 DEF Sets, Down
  <2> QED
    BY <1>6, <1>8, <1>9, <1>10, <1>11, <2>1 DEF Set, Written
<1>13. ValueOK(q)
  BY <1>6, <1>10 DEF ValueOK
<1>14. SnapOK(q)
  BY <1>2, <1>6, <1>8, <1>9, <1>10 DEF SnapOK
<1>15. ~q.locked => Changed(q) = {}
  <2>1. Changed(q) = Changed(Writing(r))
    BY <1>3, <1>6 DEF Changed
  <2> QED
    BY <1>7, <2>1 DEF Locks
<1>16. SessionOK(q)
  BY <1>6, <1>7, <1>8, <1>9, <1>10, <1>12, <1>13, <1>14, <1>15 DEF SessionOK
<1>17. Deletes(Writing(r)) <=> r.op \in Deletions
  <2>1. "exists" \in DOMAIN q.new <=> q.op \in Deletions /\ Written(q)
    <3>1. At(q) # "fresh"
      BY <1>8, <1>9
    <3> QED
      BY <1>16, <3>1, NewIs
  <2> QED
    BY <1>3, <1>6, <1>11, <2>1 DEF Deletes
<1>18. CASE row.exists \/ r.op \in Deletions
  <2>1. Goes(s, q)
    BY <1>5, <1>17, <1>18
  <2>2. desk'[s] = q /\ Turn(r, q, Follows(r.op, "write")) /\ Moves(s)
    <3>1. Follows(r.op, "write") # "nowhere"
      BY <1>8
    <3> QED
      BY <1>1, <1>6, <2>1, <3>1, GoesOn
  <2> QED
    BY <1>2, <1>4, <1>6, <1>7, <1>11, <1>16, <1>18, <2>2
<1>19. CASE ~row.exists /\ r.op \notin Deletions
  <2>1. Goes(s, Nobody)
    BY <1>5, <1>17, <1>19
  <2>2. Moves(s) /\ desk'[s] = Nobody /\ SessionOK(desk'[s])
    BY <2>1, Leaves
  <2> QED
    BY <1>2, <1>19, <2>2, Fields
<1> QED
  BY <1>18, <1>19

\* The row after a commit.
Merge(r) == [c \in Columns |-> IF c \in Changed(r) THEN r.new[c] ELSE row[c]]

LEMMA Commits ==
  ASSUME DeskType, NEW s \in Sessions, Commit(s)
  PROVE  /\ At(desk[s]) = "commit" /\ desk[s].op \in Doing("commit") /\ Moves(s) /\ SessionOK(desk'[s])
         /\ desk[s].view.exists
         /\ ~row.exists /\ desk[s].op \notin Deletions =>
              desk'[s] = Nobody /\ UNCHANGED <<row, versions, queue, was, excused>>
         /\ row.exists \/ desk[s].op \in Deletions =>
              /\ row' = Merge(desk[s]) /\ was' = was \cup {row'.text}
              /\ versions' = IF row'.exists THEN versions \o desk[s].snap ELSE <<>>
              /\ queue' = IF desk[s].op = "approve" /\ desk[s].value = "approved"
                          THEN [queue EXCEPT !.publish = Append(@, 0)] ELSE queue
              /\ excused' = IF desk[s].op \in {"restore", "regenerate"} /\ row.up /\ "text" \in Changed(desk[s])
                            THEN excused \cup {"post"} ELSE excused
              /\ Follows(desk[s].op, "commit") = "nowhere" => desk'[s] = Nobody
              /\ Follows(desk[s].op, "commit") # "nowhere" =>
                    /\ Turn(desk[s], desk'[s], Follows(desk[s].op, "commit")) /\ Follows(desk[s].op, "commit") \in {"fresh", "card"}
                    /\ desk'[s].view = desk[s].view /\ desk'[s].card = desk[s].card /\ desk'[s].new = desk[s].new
         /\ ~desk'[s].locked
<1> DEFINE r == desk[s]
           q == [Rest(r) EXCEPT !.locked = FALSE]
<1>1. "commit" \in Steps /\ Takes(s, "commit")
  BY DEF Steps, Commit
<1>2. /\ At(r) = "commit" /\ r.op # "none" /\ r.op \in Doing("commit") /\ SessionOK(r)
      /\ DOMAIN r = DOMAIN Nobody /\ DOMAIN desk = Sessions /\ row \in Row
  BY <1>1, Takings DEF DeskType
<1>3. r.op = "publish_news" \/ Written(r)
  BY <1>2 DEF Written
<1>4. Deletes(r) <=> r.op \in Deletions
  <2>1. "exists" \in DOMAIN r.new <=> r.op \in Deletions /\ Written(r)
    BY <1>2, NewIs
  <2> QED
    BY <1>3, <2>1 DEF Deletes, Deletions
<1>5. /\ q.steps = Tail(r.steps) /\ q.op = r.op /\ q.value = r.value /\ q.view = r.view /\ q.new = r.new
      /\ q.snap = r.snap /\ q.card = r.card /\ DOMAIN q = DOMAIN Nobody
  BY <1>2, Rests, Fields
<1>6. ~q.locked /\ q.locked \in BOOLEAN
  BY <1>2, Rests, Fields
<1> HIDE DEF q
<1>7. /\ r.view \in Row /\ r.view.exists /\ r.card \in Nat /\ ValueOK(r) /\ SnapOK(r) /\ r.new = Set(r)
      /\ r.op \in BotWork => r.card # 0
  BY <1>2 DEF SessionOK, HasRead
<1>8. CASE ~row.exists /\ r.op \notin Deletions
  <2>1. Goes(s, Nobody) /\ UNCHANGED <<row, versions, queue, was, excused>>
    BY <1>4, <1>8 DEF Commit
  <2>2. Moves(s) /\ desk'[s] = Nobody /\ SessionOK(desk'[s])
    BY <2>1, Leaves
  <2> QED
    BY <1>2, <1>7, <1>8, <2>1, <2>2, Fields
<1>9. CASE row.exists \/ r.op \in Deletions
  <2>1. /\ Goes(s, q) /\ row' = Merge(r)
        /\ queue' = IF r.op = "approve" /\ r.value = "approved"
                    THEN [queue EXCEPT !.publish = Append(@, 0)] ELSE queue
        /\ excused' = IF r.op \in {"restore", "regenerate"} /\ row.up /\ "text" \in Changed(r)
                      THEN excused \cup {"post"} ELSE excused
    BY <1>4, <1>9 DEF Commit, Merge, q
  <2>2. was' = was \cup {row'.text} /\ versions' = IF row'.exists THEN versions \o r.snap ELSE <<>>
    BY <1>4, <1>9 DEF Commit
  <2>3. CASE Follows(r.op, "commit") = "nowhere"
    <3>1. Moves(s) /\ desk'[s] = Nobody
      BY <1>1, <1>5, <2>1, <2>3, GoesOn
    <3>2. SessionOK(desk'[s]) /\ ~desk'[s].locked
      BY <1>2, <3>1, NobodySits
    <3> QED
      BY <1>2, <1>7, <1>9, <2>1, <2>2, <2>3, <3>1, <3>2
  <2>4. CASE Follows(r.op, "commit") # "nowhere"
    <3>1. Moves(s) /\ desk'[s] = q /\ Turn(r, q, Follows(r.op, "commit"))
      BY <1>1, <1>5, <2>1, <2>4, GoesOn
    <3>2. /\ r.op \in BotWork \cup {"publish_news"} /\ r.op \in Operations /\ r.op \notin TextWork /\ r.op # "notify"
          /\ Follows(r.op, "commit") = IF r.op = "publish_news" THEN "card" ELSE "fresh"
      BY <1>2, <2>4 DEF Follows, Doing, BotWork, Operations, TextWork
    <3>3. ValueOK(q)
      BY <1>5, <1>7 DEF ValueOK
    <3>4. At(q) = Follows(r.op, "commit") /\ q.steps \in Plans(q.op)
      BY <3>1 DEF Turn
    <3>5. SnapOK(q)
      BY <1>5, <1>7, <3>2 DEF SnapOK
    <3>6. At(q) # "fresh" => q.new = Set(q)
      BY <1>2, <1>5, <1>7, <3>2, <3>4 DEF Set
    <3>7. SessionOK(q)
      BY <1>5, <1>6, <1>7, <3>2, <3>3, <3>4, <3>5, <3>6 DEF SessionOK, Written, HasRead
    <3> QED
      BY <1>2, <1>5, <1>6, <1>7, <1>9, <2>1, <2>2, <2>4, <3>1, <3>2, <3>7
  <2> QED
    BY <2>3, <2>4
<1> QED
  BY <1>8, <1>9

\* _approve, and what it writes under the lock.
LEMMA TakesIt ==
  ASSUME DeskType, NEW s \in Sessions, Take(s)
  PROVE  /\ At(desk[s]) = "take" /\ desk[s].op \in {"bot_approve", "bot_now"} /\ Moves(s) /\ SessionOK(desk'[s])
         /\ desk[s].value \in {"approved", "scheduled"} /\ LockFree(s)
         /\ Refused(desk[s], row) => desk'[s] = Nobody /\ UNCHANGED <<row, queue>>
         /\ ~Refused(desk[s], row) =>
              /\ row.exists /\ ~row.approved
              /\ row' = [row EXCEPT !.status = desk[s].value, !.approved = desk[s].value = "scheduled"]
              /\ queue' = IF desk[s].value = "approved" THEN [queue EXCEPT !.publish = Append(@, 0)] ELSE queue
              /\ Turn(desk[s], desk'[s], "fresh")
              /\ desk'[s].view = desk[s].view /\ desk'[s].card = desk[s].card /\ desk'[s].locked = desk[s].locked
<1> DEFINE r == desk[s]
           q == Rest(r)
<1>1. "take" \in Steps /\ Takes(s, "take") /\ LockFree(s)
  BY DEF Steps, Take
<1>2. /\ At(r) = "take" /\ r.op # "none" /\ r.op \in Doing("take") /\ SessionOK(r)
      /\ DOMAIN r = DOMAIN Nobody /\ DOMAIN desk = Sessions /\ row \in Row
  BY <1>1, Takings DEF DeskType
<1>3. /\ r.op \in {"bot_approve", "bot_now"} /\ Follows(r.op, "take") = "fresh" /\ r.op \in BotWork
      /\ r.op \in Operations /\ r.op \notin TextWork /\ r.op \notin {"publish_news", "notify"}
  BY <1>2 DEF Doing, Follows, BotWork, Operations, TextWork, CardWork
<1>4. /\ r.view \in Row /\ r.locked \in BOOLEAN /\ r.card \in Nat /\ r.card # 0 /\ ValueOK(r) /\ SnapOK(r)
      /\ r.value \in {"approved", "scheduled"}
  BY <1>2, <1>3 DEF SessionOK, ValueOK
<1>5. CASE Refused(r, row)
  <2>1. Goes(s, Nobody) /\ UNCHANGED <<row, queue>>
    BY <1>5 DEF Take
  <2> QED
    BY <1>1, <1>2, <1>3, <1>4, <1>5, <2>1, Leaves
<1>6. CASE ~Refused(r, row)
  <2>1. /\ q.steps = Tail(r.steps) /\ q.op = r.op /\ q.value = r.value /\ q.view = r.view /\ q.new = r.new
        /\ q.snap = r.snap /\ q.locked = r.locked /\ q.card = r.card /\ DOMAIN q = DOMAIN Nobody
    BY <1>2, Rests
  <2>2. /\ Goes(s, q)
        /\ row' = [row EXCEPT !.status = r.value, !.approved = r.value = "scheduled"]
        /\ queue' = IF r.value = "approved" THEN [queue EXCEPT !.publish = Append(@, 0)] ELSE queue
    BY <1>6 DEF Take
  <2>3. row.exists /\ ~row.approved
    BY <1>3, <1>6 DEF Refused
  <2> HIDE DEF q
  <2>4. Moves(s) /\ desk'[s] = q /\ Turn(r, q, "fresh")
    BY <1>1, <1>3, <2>1, <2>2, GoesOn
  <2>5. At(q) = "fresh" /\ q.steps \in Plans(q.op)
    BY <2>4 DEF Turn
  <2>6. ValueOK(q) /\ SnapOK(q)
    BY <1>3, <1>4, <2>1 DEF ValueOK, SnapOK, SessionOK
  <2>7. SessionOK(q)
    BY <1>3, <1>4, <2>1, <2>5, <2>6 DEF SessionOK, Written, HasRead
  <2> QED
    BY <1>1, <1>2, <1>3, <1>4, <1>6, <2>1, <2>2, <2>3, <2>4, <2>7
<1> QED
  BY <1>5, <1>6

\* _mark_card and _notify_moderation read the row.
LEMMA Refreshes ==
  ASSUME DeskType, NEW s \in Sessions, Fresh(s)
  PROVE  /\ At(desk[s]) = "fresh" /\ desk[s].op \in BotWork \cup {"notify"} /\ Moves(s) /\ SessionOK(desk'[s])
         /\ \/ desk'[s] = Nobody /\ desk[s].op = "notify" /\ ~row.exists
            \/ /\ desk[s].op = "notify" => row.exists
               /\ Turn(desk[s], desk'[s], IF desk[s].op = "notify" THEN "offer" ELSE "mark")
               /\ desk'[s].view = row /\ desk'[s].new = Nothing
               /\ desk'[s].card = desk[s].card /\ desk'[s].locked = desk[s].locked
<1> DEFINE r == desk[s]
           q == [Rest(r) EXCEPT !.view = row, !.new = Nothing]
<1>1. "fresh" \in Steps /\ Takes(s, "fresh")
  BY DEF Steps, Fresh
<1>2. /\ At(r) = "fresh" /\ r.op # "none" /\ r.op \in Doing("fresh") /\ SessionOK(r)
      /\ DOMAIN r = DOMAIN Nobody /\ DOMAIN desk = Sessions /\ row \in Row
  BY <1>1, Takings DEF DeskType
<1>3. /\ r.op \in BotWork \cup {"notify"} /\ Follows(r.op, "fresh") = IF r.op = "notify" THEN "offer" ELSE "mark"
      /\ r.op \in Operations /\ r.op \notin TextWork /\ r.op # "publish_news"
  BY <1>2 DEF Doing, Follows, BotWork, Operations, TextWork, CardWork, PostWork
<1>4. /\ r.locked \in BOOLEAN /\ r.card \in Nat /\ ValueOK(r) /\ SnapOK(r)
      /\ r.op \in BotWork => r.card # 0
      /\ r.op = "notify" => r.card = 0
  BY <1>2, <1>3 DEF SessionOK
<1>5. CASE r.op = "notify" /\ ~row.exists
  <2>1. Goes(s, Nobody)
    BY <1>5 DEF Fresh
  <2> QED
    BY <1>2, <1>3, <1>5, <2>1, Leaves
<1>6. CASE r.op = "notify" => row.exists
  <2>1. /\ q.steps = Tail(r.steps) /\ q.op = r.op /\ q.value = r.value /\ q.view = row /\ q.new = Nothing
        /\ q.snap = r.snap /\ q.locked = r.locked /\ q.card = r.card /\ DOMAIN q = DOMAIN Nobody
    BY <1>2, Rests, Fields
  <2>2. Goes(s, q)
    BY <1>6 DEF Fresh
  <2> HIDE DEF q
  <2>3. Moves(s) /\ desk'[s] = q /\ Turn(r, q, IF r.op = "notify" THEN "offer" ELSE "mark")
    BY <1>1, <1>3, <2>1, <2>2, GoesOn
  <2>4. At(q) = (IF r.op = "notify" THEN "offer" ELSE "mark") /\ q.steps \in Plans(q.op)
    BY <2>3 DEF Turn
  <2>5. ValueOK(q) /\ SnapOK(q)
    BY <1>3, <1>4, <2>1 DEF ValueOK, SnapOK
  <2>6. q.new = Set(q)
    BY <2>1, <2>4 DEF Set
  <2>7. SessionOK(q)
    BY <1>2, <1>3, <1>4, <1>6, <2>1, <2>4, <2>5, <2>6 DEF SessionOK, Written, HasRead, BotWork
  <2> QED
    BY <1>2, <1>3, <1>6, <2>1, <2>3, <2>7
<1> QED
  BY <1>5, <1>6

LEMMA Marks ==
  ASSUME DeskType, NEW s \in Sessions, Mark(s)
  PROVE  At(desk[s]) = "mark" /\ desk[s].op \in BotWork /\ Moves(s) /\ desk'[s] = Nobody /\ SessionOK(desk'[s])
<1>1. "mark" \in Steps /\ Takes(s, "mark") /\ Goes(s, Rest(desk[s]))
  BY DEF Steps, Mark
<1>2. /\ At(desk[s]) = "mark" /\ desk[s].op \in Doing("mark") /\ DOMAIN desk[s] = DOMAIN Nobody /\ row \in Row
  BY <1>1, Takings DEF DeskType
<1>3. desk[s].op \in BotWork /\ Follows(desk[s].op, "mark") = "nowhere"
  BY <1>2 DEF Doing, Follows
<1>4. Moves(s) /\ desk'[s] = Nobody
  BY <1>1, <1>2, <1>3, Rests, GoesOn
<1> QED
  BY <1>2, <1>3, <1>4, NobodySits

LEMMA BeginsToPublish ==
  ASSUME DeskType, NEW s \in Sessions, BeginPublication(s)
  PROVE  /\ At(desk[s]) = "begin" /\ desk[s].op = "publish_news" /\ Moves(s) /\ SessionOK(desk'[s]) /\ LockFree(s)
         /\ ~row.exists => desk'[s] = Nobody
         /\ row.exists =>
              /\ Turn(desk[s], desk'[s], IF row.up THEN "commit" ELSE "show") /\ desk'[s].locked
              /\ desk'[s].view = row /\ desk'[s].card = desk[s].card
<1> DEFINE r == desk[s]
           q == [r EXCEPT !.view = row, !.locked = TRUE, !.steps = IF row.up THEN <<"commit", "card">> ELSE Tail(@)]
<1>1. "begin" \in Steps /\ Takes(s, "begin") /\ LockFree(s)
  BY DEF Steps, BeginPublication
<1>2. /\ At(r) = "begin" /\ r.op # "none" /\ r.op \in Doing("begin") /\ SessionOK(r)
      /\ DOMAIN r = DOMAIN Nobody /\ DOMAIN desk = Sessions /\ row \in Row
  BY <1>1, Takings DEF DeskType
<1>3. /\ r.op = "publish_news" /\ Follows(r.op, "begin") = "show"
      /\ r.op \in Operations /\ r.op \notin TextWork /\ r.op \notin BotWork
  BY <1>2 DEF Doing, Follows, BotWork, Operations, TextWork, CardWork, PostWork
<1>4. desk' = [desk EXCEPT ![s] = IF ~row.exists THEN Nobody ELSE q]
  BY DEF BeginPublication
<1>5. Moves(s) /\ desk'[s] = IF ~row.exists THEN Nobody ELSE q
  BY <1>2, <1>4 DEF Moves
<1>6. CASE ~row.exists
  BY <1>1, <1>2, <1>3, <1>5, <1>6, NobodySits
<1>7. CASE row.exists
  <2>1. /\ q.steps = (IF row.up THEN <<"commit", "card">> ELSE Tail(r.steps)) /\ q.op = r.op /\ q.value = r.value
        /\ q.view = row /\ q.new = r.new /\ q.snap = r.snap /\ q.locked /\ q.card = r.card /\ DOMAIN q = DOMAIN Nobody
    BY <1>2, Fields
  <2>2. q.locked \in BOOLEAN
    BY <1>2, Fields
  <2> HIDE DEF q
  <2>3. <<"commit", "card">> \in Plans(r.op)
    BY <1>3 DEF Plans
  <2>4. q.steps \in Plans(q.op) /\ At(q) = IF row.up THEN "commit" ELSE "show"
    BY <1>2, <1>3, <2>1, <2>3, Working, Tuples DEF At
  <2>5. r.new = Nothing /\ r.card \in Nat /\ ValueOK(r) /\ SnapOK(r)
    BY <1>2, <1>3 DEF SessionOK, Set
  <2>6. ValueOK(q) /\ SnapOK(q)
    BY <1>3, <2>1, <2>5 DEF ValueOK, SnapOK
  <2>7. q.new = Set(q)
    BY <1>3, <2>1, <2>4, <2>5 DEF Set
  <2>8. SessionOK(q)
    BY <1>2, <1>3, <1>7, <2>1, <2>2, <2>4, <2>5, <2>6, <2>7 DEF SessionOK, Written, HasRead
  <2> QED
    BY <1>1, <1>2, <1>3, <1>5, <1>7, <2>1, <2>4, <2>8 DEF Turn
<1> QED
  BY <1>6, <1>7

LEMMA ShowsPost ==
  ASSUME DeskType, NEW s \in Sessions, Show(s)
  PROVE  /\ At(desk[s]) = "show" /\ desk[s].op = "publish_news" /\ Moves(s) /\ SessionOK(desk'[s])
         /\ desk[s].locked /\ desk[s].view.exists /\ ~desk[s].view.up
         /\ Turn(desk[s], desk'[s], "commit") /\ desk'[s].locked
         /\ desk'[s].view = desk[s].view /\ desk'[s].card = desk[s].card
<1> DEFINE r == desk[s]
           q == [Rest(r) EXCEPT !.new = [up |-> TRUE, status |-> "published", approved |-> TRUE]]
<1>1. "show" \in Steps /\ Takes(s, "show") /\ Goes(s, q)
  BY DEF Steps, Show
<1>2. /\ At(r) = "show" /\ r.op # "none" /\ r.op \in Doing("show") /\ SessionOK(r)
      /\ DOMAIN r = DOMAIN Nobody /\ DOMAIN desk = Sessions /\ row \in Row
  BY <1>1, Takings DEF DeskType
<1>3. /\ r.op = "publish_news" /\ Follows(r.op, "show") = "commit"
      /\ r.op \in Operations /\ r.op \notin TextWork /\ r.op \notin BotWork
  BY <1>2 DEF Doing, Follows, BotWork, Operations, TextWork, CardWork, PostWork
<1>4. /\ q.steps = Tail(r.steps) /\ q.op = r.op /\ q.value = r.value /\ q.view = r.view /\ q.new = Posted
      /\ q.snap = r.snap /\ q.locked = r.locked /\ q.card = r.card /\ DOMAIN q = DOMAIN Nobody
  BY <1>2, Rests, Fields DEF Posted
<1> HIDE DEF q
<1>5. desk'[s] = q /\ Turn(r, q, "commit") /\ Moves(s)
  BY <1>1, <1>3, <1>4, GoesOn
<1>6. At(q) = "commit" /\ q.steps \in Plans(q.op)
  BY <1>5 DEF Turn
<1>7. /\ r.view \in Row /\ r.view.exists /\ ~r.view.up /\ r.locked \in BOOLEAN /\ r.locked
      /\ r.card \in Nat /\ ValueOK(r) /\ SnapOK(r)
  BY <1>2, <1>3 DEF SessionOK, HasRead
<1>8. ValueOK(q) /\ SnapOK(q)
  BY <1>3, <1>4, <1>7 DEF ValueOK, SnapOK
<1>9. q.new = Set(q)
  BY <1>3, <1>4, <1>6, <1>7 DEF Set
<1>10. SessionOK(q)
  BY <1>3, <1>4, <1>6, <1>7, <1>8, <1>9 DEF SessionOK, Written
<1> QED
  BY <1>2, <1>3, <1>4, <1>5, <1>7, <1>10

LEMMA SendsCard ==
  ASSUME DeskType, NEW s \in Sessions, SendCard(s)
  PROVE  /\ At(desk[s]) = "offer" /\ desk[s].op = "notify" /\ Moves(s) /\ SessionOK(desk'[s])
         /\ desk[s].view \in Row /\ desk[s].card = 0
         /\ \/ desk'[s] = Nobody /\ UNCHANGED cards
            \/ /\ cards' = Append(cards, Card(desk[s].view, Offers(desk[s].view)))
               /\ Turn(desk[s], desk'[s], "keep") /\ desk'[s].card = Len(cards) + 1
               /\ desk'[s].view = desk[s].view /\ desk'[s].locked = desk[s].locked
<1> DEFINE r == desk[s]
           q == [Rest(r) EXCEPT !.card = Len(cards) + 1]
<1>1. "offer" \in Steps /\ Takes(s, "offer")
  BY DEF Steps, SendCard
<1>2. /\ At(r) = "offer" /\ r.op # "none" /\ r.op \in Doing("offer") /\ SessionOK(r)
      /\ DOMAIN r = DOMAIN Nobody /\ DOMAIN desk = Sessions /\ row \in Row
  BY <1>1, Takings DEF DeskType
<1>3. /\ r.op = "notify" /\ Follows(r.op, "offer") = "keep"
      /\ r.op \in Operations /\ r.op \notin TextWork /\ r.op \notin BotWork
  BY <1>2 DEF Doing, Follows, BotWork, Operations, TextWork, CardWork, PostWork
<1>4. /\ r.view \in Row /\ r.view.exists /\ r.locked \in BOOLEAN /\ r.new = Nothing
      /\ r.card = 0 /\ ValueOK(r) /\ SnapOK(r)
  BY <1>2, <1>3 DEF SessionOK, HasRead, Set
<1>5. CASE Goes(s, Nobody) /\ UNCHANGED cards
  BY <1>2, <1>3, <1>4, <1>5, Leaves
<1>6. CASE Goes(s, q) /\ cards' = Append(cards, Card(r.view, Offers(r.view)))
  <2>1. /\ q.steps = Tail(r.steps) /\ q.op = r.op /\ q.value = r.value /\ q.view = r.view /\ q.new = r.new
        /\ q.snap = r.snap /\ q.locked = r.locked /\ q.card = Len(cards) + 1 /\ DOMAIN q = DOMAIN Nobody
    BY <1>2, Rests, Fields
  <2> HIDE DEF q
  <2>2. desk'[s] = q /\ Turn(r, q, "keep") /\ Moves(s)
    BY <1>1, <1>3, <1>6, <2>1, GoesOn
  <2>3. At(q) = "keep" /\ q.steps \in Plans(q.op)
    BY <2>2 DEF Turn
  <2>4. ValueOK(q) /\ SnapOK(q)
    BY <1>3, <1>4, <2>1 DEF ValueOK, SnapOK
  <2>5. q.new = Set(q)
    BY <1>4, <2>1, <2>3 DEF Set
  <2>6. q.card \in Nat /\ q.card # 0
    <3>1. Len(cards) \in Nat
      BY DEF DeskType
    <3> QED
      BY <2>1, <3>1
  <2>7. SessionOK(q)
    BY <1>3, <1>4, <2>1, <2>3, <2>4, <2>5, <2>6 DEF SessionOK, Written
  <2> QED
    BY <1>2, <1>3, <1>4, <1>6, <2>1, <2>2, <2>7
<1> QED
  BY <1>5, <1>6 DEF SendCard

-------------------------------------------------------------------------------
(* Types. *)

LEMMA Bounds ==
  /\ NoText \notin Texts
  /\ PublishRetries \in Nat /\ MaxDeskFaults \in Nat /\ MaxCards \in Nat /\ MaxCards >= 1 /\ MaxWork \in Nat
  /\ IsFiniteSet(Sessions)
  BY DeskAssumption

LEMMA Moved ==
  ASSUME NEW s \in Sessions, DOMAIN desk = Sessions, Moves(s)
  PROVE  DOMAIN desk' = Sessions /\ \A t \in Sessions : t # s => desk'[t] = desk[t]
  BY DEF Moves

LEMMA OfferingFinite ==
  IsFiniteSet(Offering) /\ Cardinality(Offering) \in Nat
<1>1. Offering \in SUBSET Sessions
  BY DEF Offering
<1>2. IsFiniteSet(Offering)
  BY <1>1, Bounds, FS_Subset
<1> QED
  BY <1>2, FS_CardinalityType

LEMMA OfferingFewer ==
  ASSUME NEW s \in Sessions, DOMAIN desk = Sessions, Moves(s),
         desk'[s].op = "notify" /\ desk'[s].card = 0 => desk[s].op = "notify" /\ desk[s].card = 0
  PROVE  Cardinality(Offering)' <= Cardinality(Offering) /\ Cardinality(Offering)' \in Nat
<1>1. \A t \in Sessions : t # s => desk'[t] = desk[t]
  BY Moved
<1>2. Offering' \in SUBSET Offering
  BY <1>1 DEF Offering
<1>3. IsFiniteSet(Offering') /\ Cardinality(Offering') <= Cardinality(Offering)
  BY <1>2, OfferingFinite, FS_Subset
<1> QED
  BY <1>3, FS_CardinalityType

\* What a step may do to the handlers.
LEMMA Seats ==
  ASSUME DeskType, NEW s \in Sessions, Moves(s), SessionOK(desk'[s]),
         Len(cards) <= Len(cards'), cards' \in Seq(CardType),
         desk'[s].card <= Len(cards'),
         HasRead(desk'[s]) => desk'[s].view.card <= Len(cards'),
         desk'[s].locked => desk[s].locked \/ LockFree(s)
  PROVE  /\ DOMAIN desk' = Sessions
         /\ \A t \in Sessions : /\ SessionOK(desk'[t])
                                /\ desk'[t].card <= Len(cards') /\ (HasRead(desk'[t]) => desk'[t].view.card <= Len(cards'))
         /\ \A t, u \in Held' : t = u
<1>1. DOMAIN desk' = Sessions /\ \A t \in Sessions : t # s => desk'[t] = desk[t]
  BY Moved DEF DeskType
<1>2. Len(cards) \in Nat /\ Len(cards') \in Nat
  BY DEF DeskType
<1>3. ASSUME NEW t \in Sessions
      PROVE  /\ SessionOK(desk'[t])
             /\ desk'[t].card <= Len(cards') /\ (HasRead(desk'[t]) => desk'[t].view.card <= Len(cards'))
  <2>1. CASE t = s
    BY <2>1
  <2>2. CASE t # s
    <3>1. desk'[t] = desk[t]
      BY <1>1, <2>2
    <3>2. SessionOK(desk[t]) /\ desk[t].card <= Len(cards) /\ (HasRead(desk[t]) => desk[t].view.card <= Len(cards))
      BY DEF DeskType
    <3>3. desk[t].card \in Nat /\ desk[t].view.card \in Nat
      BY <3>2, RowFields DEF SessionOK
    <3> QED
      BY <1>2, <3>1, <3>2, <3>3
  <2> QED
    BY <2>1, <2>2
<1>4. ASSUME NEW t \in Sessions, NEW u \in Sessions, desk'[t].locked, desk'[u].locked PROVE t = u
  <2>1. \A t1, u1 \in Sessions : desk[t1].locked /\ desk[u1].locked => t1 = u1
    BY DEF DeskType, Held
  <2>2. LockFree(s) => \A v \in Sessions : v # s => ~desk[v].locked
    BY DEF LockFree
  <2>3. CASE t = s /\ u # s
    BY <1>1, <1>4, <2>1, <2>2, <2>3
  <2>4. CASE t # s /\ u = s
    BY <1>1, <1>4, <2>1, <2>2, <2>4
  <2>5. CASE t # s /\ u # s
    BY <1>1, <1>4, <2>1, <2>5
  <2> QED
    BY <2>3, <2>4, <2>5
<1>5. \A t, u \in Held' : t = u
  BY <1>4 DEF Held
<1> QED
  BY <1>1, <1>3, <1>5

\* Nothing but a handler and what the channel and the database hold.
StoreType ==
  /\ row \in Row /\ row.card <= Len(cards)
  /\ versions \in Seq(Version)
  /\ post \in Texts \cup {NoText}
  /\ cards \in Seq(CardType)
  /\ queue \in [publish : Seq(0..PublishRetries), notify : Nat]
  /\ deskFaults \in 0..MaxDeskFaults /\ worked \in 0..MaxWork
  /\ was \subseteq Texts /\ excused \subseteq {"text", "post", "card"}

LEMMA Stores ==
  DeskType => StoreType
  BY DEF DeskType, StoreType

\* A step that sends no card.
LEMMA Keeps ==
  ASSUME DeskType, StoreType', NEW s \in Sessions, Moves(s), SessionOK(desk'[s]), Len(cards') = Len(cards),
         desk'[s].card <= Len(cards),
         HasRead(desk'[s]) => desk'[s].view.card <= Len(cards),
         desk'[s].locked => desk[s].locked \/ LockFree(s),
         desk'[s].op = "notify" /\ desk'[s].card = 0 => desk[s].op = "notify" /\ desk[s].card = 0,
         queue'.notify = queue.notify
  PROVE  DeskType'
<1>1. cards' \in Seq(CardType) /\ Len(cards) \in Nat
  BY DEF StoreType, DeskType
<1>2. /\ DOMAIN desk' = Sessions
      /\ \A t \in Sessions : /\ SessionOK(desk'[t])
                             /\ desk'[t].card <= Len(cards') /\ (HasRead(desk'[t]) => desk'[t].view.card <= Len(cards'))
      /\ \A t, u \in Held' : t = u
  BY <1>1, Seats
<1>3. Cardinality(Offering)' <= Cardinality(Offering) /\ Cardinality(Offering)' \in Nat
  BY OfferingFewer DEF DeskType
<1>4. Len(cards) + queue.notify + Cardinality(Offering) <= MaxCards /\ queue.notify \in Nat /\ MaxCards \in Nat
  BY Bounds DEF DeskType
<1>5. Len(cards') + queue'.notify + Cardinality(Offering') <= MaxCards
  BY <1>1, <1>3, <1>4, OfferingFinite
<1> QED
  BY <1>2, <1>5 DEF DeskType, StoreType

First(op) == IF op = "publish_news" THEN "begin" ELSE IF op \in {"bot_approve", "bot_now"} THEN "take"
             ELSE IF op = "notify" THEN "fresh" ELSE "read"

LEMMA Begun ==
  ASSUME NEW op \in Operations
  PROVE  StepsOf(op) \in Plans(op) /\ Due(StepsOf(op)) = First(op)
<1>1. CASE op = "edit"
  <2>1. StepsOf(op) = <<"read", "snapshot", "write", "post", "card", "commit">>
    BY <1>1 DEF StepsOf
  <2> QED
    BY <1>1, <2>1, Tuples DEF Plans, First
<1>2. CASE op \in {"restore", "regenerate"}
  <2>1. StepsOf(op) = <<"read", "snapshot", "write", "commit">>
    BY <1>2 DEF StepsOf
  <2> QED
    BY <1>2, <2>1, Tuples DEF Plans, First
<1>3. CASE op \in {"approve", "reject", "schedule", "cancel"}
  <2>1. StepsOf(op) = <<"read", "write", "card", "commit">>
    BY <1>3 DEF StepsOf
  <2> QED
    BY <1>3, <2>1, Tuples DEF Plans, First
<1>4. CASE op = "unpublish"
  <2>1. StepsOf(op) = <<"read", "takedown", "write", "card", "commit">>
    BY <1>4 DEF StepsOf
  <2> QED
    BY <1>4, <2>1, Tuples DEF Plans, First
<1>5. CASE op = "delete"
  <2>1. StepsOf(op) = <<"read", "takedown", "card", "write", "commit">>
    BY <1>5 DEF StepsOf
  <2> QED
    BY <1>5, <2>1, Tuples DEF Plans, First
<1>6. CASE op = "publish_now"
  <2>1. StepsOf(op) = <<"read", "write", "commit">>
    BY <1>6 DEF StepsOf
  <2> QED
    BY <1>6, <2>1, Tuples DEF Plans, First
<1>7. CASE op \in {"bot_approve", "bot_now"}
  <2>1. StepsOf(op) = <<"take", "fresh", "mark">>
    BY <1>7 DEF StepsOf
  <2> QED
    BY <1>7, <2>1, Tuples DEF Plans, First
<1>8. CASE op = "bot_reject"
  <2>1. StepsOf(op) = <<"read", "write", "commit", "fresh", "mark">>
    BY <1>8 DEF StepsOf
  <2> QED
    BY <1>8, <2>1, Tuples DEF Plans, First
<1>9. CASE op \in {"bot_unpublish", "bot_delete", "bot_purge"}
  <2>1. StepsOf(op) = <<"read", "takedown", "write", "commit", "fresh", "mark">>
    BY <1>9 DEF StepsOf
  <2> QED
    BY <1>9, <2>1, Tuples DEF Plans, First
<1>10. CASE op = "publish_news"
  <2>1. StepsOf(op) = <<"begin", "show", "commit", "card">>
    BY <1>10 DEF StepsOf
  <2> QED
    BY <1>10, <2>1, Tuples DEF Plans, First
<1>11. CASE op = "notify"
  <2>1. StepsOf(op) = <<"fresh", "offer", "keep">>
    BY <1>11 DEF StepsOf
  <2> QED
    BY <1>11, <2>1, Tuples DEF Plans, First
<1> QED
  BY <1>1, <1>2, <1>3, <1>4, <1>5, <1>6, <1>7, <1>8, <1>9, <1>10, <1>11 DEF Operations, TextWork, PostWork, CardWork

LEMMA BeginsWork ==
  ASSUME DeskType, NEW s \in Sessions, NEW op \in Operations, NEW value, NEW card \in Nat, Begins(s, op, value, card),
         op \in TextWork => value \in Texts,
         op = "approve" => value \in {"approved", "scheduled", "unqueued"},
         op \in {"bot_approve", "bot_now"} => value \in {"approved", "scheduled"},
         op = "publish_news" => value \in 0..PublishRetries,
         op \in BotWork => card # 0,
         op = "notify" => card = 0
  PROVE  /\ desk[s].op = "none" /\ Moves(s) /\ SessionOK(desk'[s]) /\ At(desk'[s]) = First(op) /\ ~HasRead(desk'[s])
         /\ desk'[s].op = op /\ desk'[s].value = value /\ desk'[s].card = card /\ ~desk'[s].locked
<1> DEFINE n == [Nobody EXCEPT !.op = op, !.steps = StepsOf(op), !.value = value, !.card = card]
<1>1. /\ n.op = op /\ n.steps = StepsOf(op) /\ n.value = value /\ n.card = card /\ n.new = Nothing /\ n.snap = <<>>
      /\ n.view = Nobody.view /\ n.locked \in BOOLEAN /\ ~n.locked /\ DOMAIN n = DOMAIN Nobody
  BY Fields
<1>2. desk[s].op = "none" /\ desk' = [desk EXCEPT ![s] = n] /\ DOMAIN desk = Sessions /\ row \in Row
  BY DEF Begins, DeskType
<1> HIDE DEF n
<1>3. Moves(s) /\ desk'[s] = n
  BY <1>2 DEF Moves
<1>4. n.steps \in Plans(n.op) /\ At(n) = First(op)
  BY <1>1, Begun DEF At
<1>5. First(op) \in {"read", "take", "begin", "fresh"}
  BY DEF First
<1>6. ~HasRead(n) /\ Set(n) = Nothing
  BY <1>4, <1>5 DEF HasRead, Set
<1>7. ValueOK(n) /\ SnapOK(n)
  <2>1. op \in TextWork => First(op) = "read"
    BY DEF First, TextWork
  <2> QED
    BY <1>1, <1>4, <2>1 DEF ValueOK, SnapOK
<1>8. n.view \in Row
  BY <1>1, <1>2, Fields
<1>9. SessionOK(n)
  BY <1>1, <1>4, <1>5, <1>6, <1>7, <1>8 DEF SessionOK, Written
<1> QED
  BY <1>1, <1>2, <1>3, <1>4, <1>6, <1>9

\* A handler that begins.
LEMMA BeginsTyped ==
  ASSUME DeskType, StoreType', NEW s \in Sessions, NEW op \in Operations, NEW value, NEW card \in Nat,
         Begins(s, op, value, card),
         op \in TextWork => value \in Texts,
         op = "approve" => value \in {"approved", "scheduled", "unqueued"},
         op \in {"bot_approve", "bot_now"} => value \in {"approved", "scheduled"},
         op = "publish_news" => value \in 0..PublishRetries,
         op \in BotWork => card # 0,
         op = "notify" => card = 0,
         op # "notify", card <= Len(cards), cards' = cards, queue'.notify = queue.notify
  PROVE  DeskType'
<1>1. /\ Moves(s) /\ SessionOK(desk'[s]) /\ ~HasRead(desk'[s]) /\ desk'[s].op = op /\ desk'[s].card = card /\ ~desk'[s].locked
  BY BeginsWork
<1> QED
  BY <1>1, Keeps

LEMMA SpoilsWhat ==
  /\ \A op : Spoils(op) \subseteq {"text", "post", "card"}
  /\ \A op : "text" \in Spoils(op) <=> op \in TextWork
  /\ \A op : "post" \in Spoils(op) <=> op \in PostWork
  /\ \A op : "card" \in Spoils(op) <=> op \in CardWork
  BY DEF Spoils

LEMMA OffersWhat ==
  ASSUME NEW r \in Row
  PROVE  Offers(r) \subseteq DOMAIN Presses /\ \A offers \in SUBSET DOMAIN Presses : Card(r, offers) \in CardType
<1>1. DOMAIN Presses = {"approve", "now", "reject", "unpublish", "delete", "purge"}
  BY DEF Presses
<1>2. r.text \in Texts /\ r.status \in Statuses /\ r.up \in BOOLEAN
  BY RowFields
<1>3. Offers(r) \subseteq DOMAIN Presses
  BY <1>1, <1>2 DEF Offers
<1>4. ASSUME NEW offers \in SUBSET DOMAIN Presses PROVE Card(r, offers) \in CardType
  BY <1>2 DEF Card, CardType
<1> QED
  BY <1>3, <1>4

LEMMA AsksTyped ==
  ASSUME DeskType, NEW s \in Sessions, NEW op \in Operations, NEW value, Asks(s, op, value),
         op \in TextWork => value \in Texts,
         op = "approve" => value \in {"approved", "scheduled", "unqueued"},
         op \notin BotWork \cup {"publish_news", "notify"}
  PROVE  DeskType'
<1>1. Begins(s, op, value, 0) /\ Works(op) /\ UNCHANGED <<row, versions, post, cards, queue, deskFaults, was>>
  BY DEF Asks
<1>2. excused' \subseteq {"text", "post", "card"}
  BY <1>1, SpoilsWhat DEF Begins, DeskType
<1>3. worked' \in 0..MaxWork
  BY <1>1, Bounds DEF Works, DeskType
<1>4. StoreType'
  BY <1>1, <1>2, <1>3, Stores DEF StoreType
<1>5. Len(cards) \in Nat
  BY DEF DeskType
<1> QED
  BY <1>1, <1>4, <1>5, BeginsTyped DEF BotWork

LEMMA AskedTyped ==
  ASSUME DeskType, NEW s \in Sessions, Asked(s)
  PROVE  DeskType'
<1>0. {"edit", "regenerate", "restore", "approve", "reject", "schedule", "cancel", "unpublish", "delete", "publish_now"}
      \subseteq Operations \ (BotWork \cup {"publish_news", "notify"})
  BY DEF Operations, TextWork, CardWork, PostWork, BotWork
<1>1. ASSUME NEW text \in Texts, NEW op \in {"edit", "regenerate"}, Asks(s, op, text) PROVE DeskType'
  BY <1>0, <1>1, AsksTyped
<1>2. ASSUME NEW slot \in {"approved", "scheduled", "unqueued"}, Asks(s, "approve", slot) PROVE DeskType'
  <2>1. "approve" \notin TextWork
    BY DEF TextWork
  <2> QED
    BY <1>0, <1>2, <2>1, AsksTyped
<1>3. ASSUME NEW v \in ToSet(versions), Asks(s, "restore", v.text) PROVE DeskType'
  <2>1. v.text \in Texts
    <3>1. PICK i \in DOMAIN versions : v = versions[i]
      BY DEF ToSet
    <3>2. versions[i] \in Version
      BY DEF DeskType
    <3> QED
      BY <3>1, <3>2 DEF Version
  <2> QED
    BY <1>0, <1>3, <2>1, AsksTyped
<1>4. ASSUME NEW op \in {"reject", "schedule", "cancel", "unpublish", "delete", "publish_now"}, Asks(s, op, NoText)
      PROVE  DeskType'
  <2>1. op \notin TextWork /\ op # "approve"
    BY DEF TextWork
  <2> QED
    BY <1>0, <1>4, <2>1, AsksTyped
<1> QED
  BY <1>1, <1>2, <1>3, <1>4 DEF Asked, EditNews, RegenerateNews, ApproveNews, RestoreVersion, RejectNews, ScheduleNews,
                               CancelSchedule, UnpublishNews, DeleteNews, PublishNow

LEMMA PressTyped ==
  ASSUME DeskType, NEW s \in Sessions, NEW k \in 1..Len(cards), NEW button \in cards[k].offers, Press(s, k, button)
  PROVE  DeskType'
<1>0. Len(cards) \in Nat
  BY DEF DeskType
<1>1. button \in DOMAIN Presses
  <2>1. cards[k] \in CardType
    BY <1>0 DEF DeskType
  <2> QED
    BY <2>1 DEF CardType
<1>2. Presses[button] \in BotWork
  BY <1>1 DEF Presses, BotWork
<1>3. PICK slot \in {"approved", "scheduled"} : Begins(s, Presses[button], slot, k)
  BY DEF Press
<1>4. Works("press") /\ UNCHANGED <<row, versions, post, cards, queue, deskFaults, was>>
  BY DEF Press
<1>5. excused' \subseteq {"text", "post", "card"}
  BY <1>3, SpoilsWhat DEF Begins, DeskType
<1>6. worked' \in 0..MaxWork
  BY <1>4, Bounds DEF Works, DeskType
<1>7. StoreType'
  BY <1>4, <1>5, <1>6, Stores DEF StoreType
<1>8. /\ Presses[button] \in Operations /\ Presses[button] \notin TextWork
      /\ Presses[button] \notin {"approve", "publish_news", "notify"}
  BY <1>2 DEF BotWork, Operations, CardWork, PostWork, TextWork
<1>9. k \in Nat /\ k # 0 /\ k <= Len(cards)
  BY <1>0
<1> HIDE DEF Press
<1> QED
  BY <1>3, <1>4, <1>7, <1>8, <1>9, BeginsTyped

LEMMA HeadTail ==
  ASSUME NEW S, NEW q \in Seq(S), q # <<>>
  PROVE  Head(q) \in S /\ Tail(q) \in Seq(S)
<1>1. Len(q) \in Nat /\ 1 \in 1..Len(q)
  OBVIOUS
<1>2. q[1] \in S
  BY <1>1
<1> QED
  BY <1>2

LEMMA QueueWhat ==
  ASSUME StoreType
  PROVE  /\ queue.publish \in Seq(0..PublishRetries) /\ queue.notify \in Nat
         /\ \A attempt \in 0..PublishRetries :
               /\ [queue EXCEPT !.publish = Append(@, attempt)] \in [publish : Seq(0..PublishRetries), notify : Nat]
               /\ [queue EXCEPT !.publish = Append(@, attempt)].notify = queue.notify
         /\ queue.publish # <<>> =>
               /\ [queue EXCEPT !.publish = Tail(@)] \in [publish : Seq(0..PublishRetries), notify : Nat]
               /\ [queue EXCEPT !.publish = Tail(@)].notify = queue.notify
               /\ Head(queue.publish) \in 0..PublishRetries
         /\ 0 \in 0..PublishRetries
<1>1. queue \in [publish : Seq(0..PublishRetries), notify : Nat]
  BY DEF StoreType
<1>2. queue.publish \in Seq(0..PublishRetries) /\ queue.notify \in Nat
  BY <1>1
<1>3. ASSUME NEW attempts \in Seq(0..PublishRetries)
      PROVE  /\ [queue EXCEPT !.publish = attempts] \in [publish : Seq(0..PublishRetries), notify : Nat]
             /\ [queue EXCEPT !.publish = attempts].notify = queue.notify
  BY <1>1
<1>4. ASSUME NEW attempt \in 0..PublishRetries PROVE Append(queue.publish, attempt) \in Seq(0..PublishRetries)
  BY <1>2
<1>5. ASSUME NEW attempts \in Seq(0..PublishRetries), attempts # <<>>
      PROVE  Tail(attempts) \in Seq(0..PublishRetries) /\ Head(attempts) \in 0..PublishRetries
  BY <1>5, HeadTail
<1>6. 0 \in 0..PublishRetries
  BY Bounds
<1> QED
  BY <1>2, <1>3, <1>4, <1>5, <1>6

LEMMA OthersTyped ==
  ASSUME DeskType, BulkDelete \/ SendToModeration \/ BeatEnqueues
  PROVE  DeskType'
<1>0. StoreType
  BY Stores
<1>1. CASE BulkDelete
  <2>1. worked' \in 0..MaxWork
    BY <1>1, Bounds DEF BulkDelete, Works, DeskType
  <2>2. row' \in Row /\ row'.card = row.card
    BY <1>0, <1>1 DEF BulkDelete, StoreType, Row
  <2>3. versions' \in Seq(Version)
    BY <1>1 DEF BulkDelete
  <2>4. excused' \subseteq {"text", "post", "card"}
    BY <1>0, <1>1 DEF BulkDelete, StoreType
  <2>5. UNCHANGED <<post, cards, desk, queue, deskFaults, was>>
    BY <1>1 DEF BulkDelete
  <2> QED
    BY <2>1, <2>2, <2>3, <2>4, <2>5 DEF DeskType, Held, Offering
<1>2. CASE SendToModeration
  <2>1. worked' \in 0..MaxWork
    BY <1>2, Bounds DEF SendToModeration, Works, DeskType
  <2>2. queue.notify \in Nat
    BY <1>0, QueueWhat
  <2>3. queue' \in [publish : Seq(0..PublishRetries), notify : Nat] /\ queue'.notify = queue.notify + 1
    BY <1>0, <1>2, <2>2 DEF SendToModeration, StoreType
  <2>4. UNCHANGED <<row, versions, post, cards, desk, deskFaults, was, excused>>
    BY <1>2 DEF SendToModeration
  <2>5. Len(cards) + queue'.notify + Cardinality(Offering) <= MaxCards
    <3> DEFINE notifying == {s \in Sessions : desk[s].op = "notify"}
    <3>1. Offering \in SUBSET notifying /\ IsFiniteSet(notifying)
      <4>1. notifying \in SUBSET Sessions
        OBVIOUS
      <4> QED
        BY <4>1, Bounds, FS_Subset DEF Offering
    <3>2. Cardinality(Offering) <= Cardinality(notifying) /\ Cardinality(notifying) \in Nat
      BY <3>1, FS_Subset, FS_CardinalityType
    <3>3. Len(cards) + queue.notify + Cardinality(notifying) < MaxCards
      BY <1>2 DEF SendToModeration
    <3>4. Len(cards) \in Nat
      BY DEF DeskType
    <3> HIDE DEF notifying
    <3> QED
      BY <2>2, <2>3, <3>2, <3>3, <3>4, OfferingFinite, Bounds
  <2>6. Cardinality(Offering)' = Cardinality(Offering)
    BY <2>4 DEF Offering
  <2>7. Held' = Held
    BY <2>4 DEF Held
  <2> QED
    BY <2>1, <2>3, <2>4, <2>5, <2>6, <2>7 DEF DeskType
<1>3. CASE BeatEnqueues
  <2>1. queue' \in [publish : Seq(0..PublishRetries), notify : Nat] /\ queue'.notify = queue.notify
    BY <1>0, <1>3, QueueWhat DEF BeatEnqueues
  <2>2. UNCHANGED <<row, versions, post, cards, desk, deskFaults, worked, was, excused>>
    BY <1>3 DEF BeatEnqueues
  <2>3. Cardinality(Offering)' = Cardinality(Offering) /\ Held' = Held
    BY <2>2 DEF Offering, Held
  <2> QED
    BY <2>1, <2>2, <2>3 DEF DeskType
<1> QED
  BY <1>1, <1>2, <1>3

LEMMA TasksTyped ==
  ASSUME DeskType, NEW s \in Sessions, PublishTask(s) \/ NotifyTask(s)
  PROVE  DeskType'
<1>0. StoreType
  BY Stores
<1>1. CASE PublishTask(s)
  <2>1. /\ queue' \in [publish : Seq(0..PublishRetries), notify : Nat] /\ queue'.notify = queue.notify
        /\ Head(queue.publish) \in 0..PublishRetries
    BY <1>0, <1>1, QueueWhat DEF PublishTask
  <2>2. UNCHANGED <<row, versions, post, cards, deskFaults, worked, was>>
    BY <1>1 DEF PublishTask
  <2>3. CASE UNCHANGED <<desk, excused>>
    <3>1. Cardinality(Offering)' = Cardinality(Offering) /\ Held' = Held
      BY <2>3 DEF Offering, Held
    <3> QED
      BY <2>1, <2>2, <2>3, <3>1 DEF DeskType
  <2>4. CASE Begins(s, "publish_news", Head(queue.publish), 0)
    <3>1. excused' \subseteq {"text", "post", "card"}
      BY <2>4, SpoilsWhat DEF Begins, DeskType
    <3>2. StoreType'
      BY <1>0, <2>1, <2>2, <3>1 DEF StoreType
    <3>3. /\ "publish_news" \in Operations /\ "publish_news" \notin TextWork /\ "publish_news" \notin BotWork
          /\ Len(cards) \in Nat
      BY DEF Operations, TextWork, CardWork, PostWork, BotWork, DeskType
    <3> QED
      BY <2>1, <2>2, <2>4, <3>2, <3>3, BeginsTyped
  <2> QED
    BY <1>1, <2>3, <2>4 DEF PublishTask
<1>2. CASE NotifyTask(s)
  <2>1. queue.notify \in Nat /\ queue.notify > 0
    BY <1>0, <1>2, QueueWhat DEF NotifyTask
  <2>2. queue' \in [publish : Seq(0..PublishRetries), notify : Nat] /\ queue'.notify = queue.notify - 1
    BY <1>0, <1>2, <2>1 DEF NotifyTask, StoreType
  <2>3. Begins(s, "notify", NoText, 0) /\ UNCHANGED <<row, versions, post, cards, deskFaults, worked, was>>
    BY <1>2 DEF NotifyTask
  <2>4. excused' \subseteq {"text", "post", "card"}
    BY <2>3, SpoilsWhat DEF Begins, DeskType
  <2>5. "notify" \in Operations /\ "notify" \notin TextWork /\ "notify" \notin BotWork /\ Len(cards) \in Nat
    BY DEF Operations, TextWork, CardWork, PostWork, BotWork, DeskType
  <2>6. /\ Moves(s) /\ SessionOK(desk'[s]) /\ ~HasRead(desk'[s]) /\ desk'[s].card = 0 /\ ~desk'[s].locked
    BY <2>3, <2>5, BeginsWork
  <2>7. cards' \in Seq(CardType)
    BY <2>3 DEF DeskType
  <2>8. /\ DOMAIN desk' = Sessions
        /\ \A t \in Sessions : /\ SessionOK(desk'[t])
                               /\ desk'[t].card <= Len(cards') /\ (HasRead(desk'[t]) => desk'[t].view.card <= Len(cards'))
        /\ \A t, u \in Held' : t = u
    BY <2>3, <2>5, <2>6, <2>7, Seats
  <2>9. Cardinality(Offering') <= Cardinality(Offering) + 1 /\ Cardinality(Offering') \in Nat
    <3>1. \A t \in Sessions : t # s => desk'[t] = desk[t]
      BY <2>6, Moved DEF DeskType
    <3>2. Offering' \in SUBSET (Offering \cup {s})
      BY <3>1 DEF Offering
    <3>3. IsFiniteSet(Offering \cup {s}) /\ Cardinality(Offering \cup {s}) <= Cardinality(Offering) + 1
      BY OfferingFinite, FS_AddElement
    <3>4. IsFiniteSet(Offering') /\ Cardinality(Offering') <= Cardinality(Offering \cup {s}) /\ Cardinality(Offering \cup {s}) \in Nat
      BY <3>2, <3>3, FS_Subset, FS_CardinalityType
    <3>5. Cardinality(Offering') \in Nat
      BY <3>4, FS_CardinalityType
    <3> QED
      BY <3>3, <3>4, <3>5, OfferingFinite
  <2>10. Len(cards) + queue.notify + Cardinality(Offering) <= MaxCards
    BY DEF DeskType
  <2>11. Len(cards') + queue'.notify + Cardinality(Offering') <= MaxCards
    <3>1. Cardinality(Offering) \in Nat /\ Cardinality(Offering') \in Nat
      BY <2>9, OfferingFinite
    <3> QED
      BY <2>1, <2>2, <2>3, <2>5, <2>9, <2>10, <3>1, Bounds
  <2>12. row' \in Row /\ row'.card <= Len(cards')
    BY <2>3 DEF DeskType
  <2> QED
    BY <2>2, <2>3, <2>4, <2>7, <2>8, <2>11, <2>12 DEF DeskType
<1> QED
  BY <1>1, <1>2

LEMMA Handler ==
  ASSUME DeskType, NEW s \in Sessions
  PROVE  /\ SessionOK(desk[s]) /\ desk[s].card <= Len(cards) /\ Len(cards) \in Nat
         /\ HasRead(desk[s]) => desk[s].view.card <= Len(cards)
         /\ desk[s].view \in Row /\ desk[s].card \in Nat /\ ValueOK(desk[s])
         /\ row \in Row /\ row.card <= Len(cards) /\ StoreType
  BY Stores DEF DeskType, SessionOK

LEMMA Sat ==
  ASSUME DeskType
  PROVE  ~HasRead(Nobody) /\ Nobody.card <= Len(cards) /\ ~Nobody.locked /\ Nobody.op # "notify"
<1>1. row \in Row /\ Len(cards) \in Nat
  BY DEF DeskType
<1> QED
  BY <1>1, NobodySits, Fields

\* The faults that are counted.
LEMMA FaultTyped ==
  ASSUME DeskType, NEW kind, Fault(kind)
  PROVE  deskFaults' \in 0..MaxDeskFaults
<1>1. deskFaults \in Nat /\ deskFaults < MaxDeskFaults /\ deskFaults' = deskFaults + 1
  BY Bounds DEF Fault, DeskType
<1> QED
  BY <1>1, Bounds

\* The steps that read and the steps that fail.
LEMMA ReadTyped ==
  ASSUME DeskType, NEW s \in Sessions,
         ReadRow(s) \/ Fresh(s) \/ BeginPublication(s) \/ RequestFails(s) \/ RewriteFails(s) \/ RefusesPost(s)
  PROVE  DeskType'
<1>0. /\ SessionOK(desk[s]) /\ desk[s].card <= Len(cards) /\ Len(cards) \in Nat
      /\ row \in Row /\ row.card <= Len(cards) /\ StoreType /\ ValueOK(desk[s])
  BY Handler
<1>1. CASE ReadRow(s)
  <2>1. UNCHANGED <<row, versions, post, cards, queue, deskFaults, worked, was, excused>>
    BY <1>1 DEF ReadRow
  <2>2. StoreType'
    BY <1>0, <2>1 DEF StoreType
  <2>3. /\ Moves(s) /\ SessionOK(desk'[s])
        /\ desk'[s].locked => desk[s].locked
        /\ desk'[s].card = desk[s].card \/ desk'[s] = Nobody
        /\ HasRead(desk'[s]) => desk'[s].view = row
        /\ desk'[s] = Nobody \/ desk'[s].op = desk[s].op
    BY <1>1, Reads DEF Turn
  <2> QED
    BY <1>0, <2>1, <2>2, <2>3, Sat, Keeps
<1>2. CASE Fresh(s)
  <2>1. UNCHANGED <<row, versions, post, cards, queue, deskFaults, worked, was, excused>>
    BY <1>2 DEF Fresh
  <2>2. StoreType'
    BY <1>0, <2>1 DEF StoreType
  <2>3. /\ Moves(s) /\ SessionOK(desk'[s])
        /\ \/ desk'[s] = Nobody
           \/ desk'[s].op = desk[s].op /\ desk'[s].view = row /\ desk'[s].card = desk[s].card /\ desk'[s].locked = desk[s].locked
    BY <1>2, Refreshes DEF Turn
  <2> QED
    BY <1>0, <2>1, <2>2, <2>3, Sat, Keeps
<1>3. CASE BeginPublication(s)
  <2>1. UNCHANGED <<row, versions, post, cards, queue, deskFaults, worked, was, excused>>
    BY <1>3 DEF BeginPublication
  <2>2. StoreType'
    BY <1>0, <2>1 DEF StoreType
  <2>3. /\ Moves(s) /\ SessionOK(desk'[s]) /\ LockFree(s)
        /\ \/ desk'[s] = Nobody
           \/ desk'[s].op = desk[s].op /\ desk'[s].view = row /\ desk'[s].card = desk[s].card
    BY <1>3, BeginsToPublish DEF Turn
  <2> QED
    BY <1>0, <2>1, <2>2, <2>3, Sat, Keeps
<1>4. CASE RequestFails(s)
  <2>1. UNCHANGED <<row, versions, post, cards, queue, worked, was>>
    BY <1>4 DEF RequestFails
  <2>2. deskFaults' \in 0..MaxDeskFaults
    BY <1>4, FaultTyped DEF RequestFails
  <2>3. excused' \subseteq {"text", "post", "card"}
    BY <1>0, <1>4, SpoilsWhat DEF RequestFails, StoreType
  <2>4. StoreType'
    BY <1>0, <2>1, <2>2, <2>3 DEF StoreType
  <2>5. Moves(s) /\ SessionOK(desk'[s]) /\ desk'[s] = Nobody
    BY <1>4, Leaves DEF RequestFails
  <2> QED
    BY <1>0, <2>1, <2>4, <2>5, Sat, Keeps
<1>5. CASE RewriteFails(s)
  <2>1. UNCHANGED <<row, versions, post, cards, queue, worked, was, excused>>
    BY <1>5 DEF RewriteFails
  <2>2. deskFaults' \in 0..MaxDeskFaults
    BY <1>5, FaultTyped DEF RewriteFails
  <2>3. StoreType'
    BY <1>0, <2>1, <2>2 DEF StoreType
  <2>4. Moves(s) /\ SessionOK(desk'[s]) /\ desk'[s] = Nobody
    BY <1>5, Leaves DEF RewriteFails
  <2> QED
    BY <1>0, <2>1, <2>3, <2>4, Sat, Keeps
<1>6. CASE RefusesPost(s)
  <2>1. UNCHANGED <<row, versions, post, cards, worked, was>>
    BY <1>6 DEF RefusesPost
  <2>2. deskFaults' \in 0..MaxDeskFaults
    BY <1>6, FaultTyped DEF RefusesPost
  <2>3. excused' \subseteq {"text", "post", "card"}
    BY <1>0, <1>6 DEF RefusesPost, StoreType
  <2>4. queue' \in [publish : Seq(0..PublishRetries), notify : Nat] /\ queue'.notify = queue.notify
    <3>1. "show" \in Steps /\ Takes(s, "show")
      BY <1>6 DEF RefusesPost, Steps
    <3>2. desk[s].op = "publish_news"
      BY <3>1, Takings DEF Doing
    <3>3. desk[s].value \in 0..PublishRetries
      BY <1>0, <3>2 DEF ValueOK
    <3>4. CASE Retries(desk[s].value)
      <4>1. desk[s].value + 1 \in 0..PublishRetries
        BY <3>3, <3>4, Bounds DEF Retries
      <4>2. queue' = [queue EXCEPT !.publish = Append(@, desk[s].value + 1)]
        BY <1>6, <3>4 DEF RefusesPost
      <4> QED
        BY <1>0, <4>1, <4>2, QueueWhat
    <3>5. CASE ~Retries(desk[s].value)
      BY <1>0, <1>6, <3>5 DEF RefusesPost, StoreType
    <3> QED
      BY <3>4, <3>5
  <2>5. StoreType'
    BY <1>0, <2>1, <2>2, <2>3, <2>4 DEF StoreType
  <2>6. Moves(s) /\ SessionOK(desk'[s]) /\ desk'[s] = Nobody
    BY <1>6, Leaves DEF RefusesPost
  <2> QED
    BY <1>0, <2>1, <2>4, <2>5, <2>6, Sat, Keeps
<1> QED
  BY <1>1, <1>2, <1>3, <1>4, <1>5, <1>6

LEMMA Replaced ==
  ASSUME NEW S, NEW q \in Seq(S), NEW k, NEW x \in S
  PROVE  [q EXCEPT ![k] = x] \in Seq(S) /\ Len([q EXCEPT ![k] = x]) = Len(q)
<1> DEFINE p == [q EXCEPT ![k] = x]
<1>1. Len(q) \in Nat /\ DOMAIN q = 1..Len(q)
  OBVIOUS
<1>2. DOMAIN p = 1..Len(q)
  BY <1>1
<1>3. \A i \in 1..Len(q) : p[i] \in S
  BY <1>1
<1>4. p = [i \in 1..Len(q) |-> p[i]]
  BY <1>2
<1> HIDE DEF p
<1>5. p \in Seq(S)
  BY <1>1, <1>3, <1>4
<1>6. Len(p) = Len(q)
  BY <1>1, <1>2, <1>5
<1> QED
  BY <1>5, <1>6 DEF p

\* The steps that show something to Telegram.
LEMMA ShowTyped ==
  ASSUME DeskType, NEW s \in Sessions, Takedown(s) \/ EditPost(s) \/ UpdateCard(s) \/ Mark(s) \/ Show(s)
  PROVE  DeskType'
<1>0. /\ SessionOK(desk[s]) /\ desk[s].card <= Len(cards) /\ Len(cards) \in Nat /\ desk[s].view \in Row
      /\ HasRead(desk[s]) => desk[s].view.card <= Len(cards)
      /\ row \in Row /\ row.card <= Len(cards) /\ StoreType /\ ValueOK(desk[s]) /\ desk[s].card \in Nat
  BY Handler
<1>1. CASE Takedown(s)
  <2>1. UNCHANGED <<row, versions, cards, queue, worked, was>>
    BY <1>1 DEF Takedown
  <2>2. deskFaults' \in 0..MaxDeskFaults /\ excused' \subseteq {"text", "post", "card"} /\ post' \in Texts \cup {NoText}
    BY <1>0, <1>1, FaultTyped DEF Takedown, StoreType
  <2>3. StoreType'
    BY <1>0, <2>1, <2>2 DEF StoreType
  <2>4. /\ Moves(s) /\ SessionOK(desk'[s]) /\ desk'[s].op = desk[s].op /\ At(desk[s]) = "takedown"
        /\ desk'[s].view = desk[s].view /\ desk'[s].locked = desk[s].locked /\ desk'[s].card = desk[s].card
    BY <1>1, TakesDown DEF Turn
  <2>5. HasRead(desk[s])
    BY <2>4 DEF HasRead
  <2> QED
    BY <1>0, <2>1, <2>3, <2>4, <2>5, Keeps
<1>2. CASE EditPost(s)
  <2>1. UNCHANGED <<row, versions, cards, queue, worked, was>> /\ Takes(s, "post") /\ Goes(s, Rest(desk[s]))
    BY <1>2 DEF EditPost
  <2>2. /\ Moves(s) /\ SessionOK(desk'[s]) /\ At(desk[s]) = "post" /\ desk[s].op \in Doing("post")
        /\ \/ desk'[s] = Nobody
           \/ /\ desk'[s].op = desk[s].op /\ desk'[s].view = desk[s].view
              /\ desk'[s].locked = desk[s].locked /\ desk'[s].card = desk[s].card
    BY <2>1, Shows DEF Turn
  <2>3. Own(desk[s]) \in Row
    BY <1>0, <2>2, OwnIs
  <2>4. EditPostAs(desk[s]) \in Texts
    BY <2>3, RowFields DEF EditPostAs
  <2>5. deskFaults' \in 0..MaxDeskFaults /\ excused' \subseteq {"text", "post", "card"} /\ post' \in Texts \cup {NoText}
    BY <1>0, <1>2, <2>4, FaultTyped DEF EditPost, StoreType
  <2>6. StoreType'
    BY <1>0, <2>1, <2>5 DEF StoreType
  <2>7. HasRead(desk[s])
    BY <2>2 DEF HasRead
  <2> QED
    BY <1>0, <2>1, <2>2, <2>6, <2>7, Sat, Keeps
<1>3. CASE UpdateCard(s)
  <2>1. UNCHANGED <<row, versions, post, queue, worked, was>> /\ Takes(s, "card") /\ Goes(s, Rest(desk[s]))
    BY <1>3 DEF UpdateCard
  <2>2. /\ Moves(s) /\ SessionOK(desk'[s]) /\ At(desk[s]) = "card"
        /\ \/ desk'[s] = Nobody
           \/ /\ desk'[s].op = desk[s].op /\ desk'[s].view = desk[s].view
              /\ desk'[s].locked = desk[s].locked /\ desk'[s].card = desk[s].card
    BY <2>1, Shows DEF Turn
  <2>3. Own(desk[s]) \in Row
    BY <1>0, <2>2, OwnIs
  <2>4. Card(Own(desk[s]), Buttons(desk[s])) \in CardType
    <3>1. Buttons(desk[s]) \in SUBSET DOMAIN Presses
      BY <2>3, OffersWhat DEF Buttons
    <3> QED
      BY <2>3, <3>1, OffersWhat
  <2>5. deskFaults' \in 0..MaxDeskFaults /\ excused' \subseteq {"text", "post", "card"}
    <3>1. \/ UNCHANGED <<deskFaults, excused>>
          \/ Fault("card") /\ excused' = excused \cup {"card"}
      BY <1>3 DEF UpdateCard
    <3>2. deskFaults \in 0..MaxDeskFaults /\ excused \subseteq {"text", "post", "card"}
      BY <1>0 DEF StoreType
    <3>3. Fault("card") => deskFaults' \in 0..MaxDeskFaults
      BY FaultTyped
    <3> QED
      BY <3>1, <3>2, <3>3
  <2>6. cards' \in Seq(CardType) /\ Len(cards') = Len(cards)
    <3>1. cards \in Seq(CardType)
      BY <1>0 DEF StoreType
    <3>2. \/ cards' = cards
          \/ cards' = [cards EXCEPT ![desk[s].view.card] = Card(Own(desk[s]), Buttons(desk[s]))]
      BY <1>3 DEF UpdateCard
    <3> QED
      BY ONLY <2>4, <3>1, <3>2, Replaced
  <2>7. StoreType'
    BY <1>0, <2>1, <2>5, <2>6 DEF StoreType
  <2>8. HasRead(desk[s])
    BY <2>2 DEF HasRead
  <2> QED
    BY <1>0, <2>1, <2>2, <2>6, <2>7, <2>8, Sat, Keeps
<1>4. CASE Mark(s)
  <2>1. UNCHANGED <<row, versions, post, queue, worked, was>>
    BY <1>4 DEF Mark
  <2>2. /\ Moves(s) /\ SessionOK(desk'[s]) /\ At(desk[s]) = "mark" /\ desk[s].op \in BotWork /\ desk'[s] = Nobody
    BY <1>4, Marks
  <2>3. desk[s].card # 0 /\ HasRead(desk[s])
    BY <1>0, <2>2 DEF SessionOK, HasRead
  <2>4. ASSUME NEW offers \in SUBSET DOMAIN Presses
        PROVE  /\ [cards EXCEPT ![desk[s].card].offers = offers] \in Seq(CardType)
               /\ Len([cards EXCEPT ![desk[s].card].offers = offers]) = Len(cards)
    <3> DEFINE k == desk[s].card
               card == [cards[k] EXCEPT !.offers = offers]
    <3>1. cards[k] \in CardType /\ cards \in Seq(CardType)
      BY <1>0, <2>3 DEF StoreType
    <3>2. card \in CardType
      BY <3>1 DEF CardType
    <3>3. [cards EXCEPT ![k].offers = offers] = [cards EXCEPT ![k] = card]
      OBVIOUS
    <3> HIDE DEF card, k
    <3>4. [cards EXCEPT ![k] = card] \in Seq(CardType) /\ Len([cards EXCEPT ![k] = card]) = Len(cards)
      BY <3>1, <3>2, Replaced
    <3>5. [cards EXCEPT ![k].offers = offers] \in Seq(CardType) /\ Len([cards EXCEPT ![k].offers = offers]) = Len(cards)
      BY <3>3, <3>4
    <3> QED
      BY <3>5 DEF k
  <2>5. ASSUME NEW offers \in SUBSET DOMAIN Presses
        PROVE  /\ [cards EXCEPT ![desk[s].view.card] = Card(desk[s].view, offers)] \in Seq(CardType)
               /\ Len([cards EXCEPT ![desk[s].view.card] = Card(desk[s].view, offers)]) = Len(cards)
    <3>1. cards \in Seq(CardType) /\ Card(desk[s].view, offers) \in CardType
      BY <1>0, OffersWhat DEF StoreType
    <3> QED
      BY <3>1, Replaced
  <2>6. Offers(desk[s].view) \in SUBSET DOMAIN Presses /\ Offers(row) \in SUBSET DOMAIN Presses
    BY <1>0, OffersWhat
  <2>7. cards' \in Seq(CardType) /\ Len(cards') = Len(cards)
    <3> DEFINE keeps == desk[s].op \notin {"bot_delete", "bot_purge"}
               rebuilt == [cards EXCEPT ![desk[s].view.card] = Card(desk[s].view, IF keeps THEN Offers(desk[s].view) ELSE {})]
               patched == [cards EXCEPT ![desk[s].card].offers = IF keeps /\ row.exists THEN Offers(row) ELSE {}]
    <3>1. rebuilt \in Seq(CardType) /\ Len(rebuilt) = Len(cards)
      BY <2>5, <2>6
    <3>2. patched \in Seq(CardType) /\ Len(patched) = Len(cards)
      BY <2>4, <2>6
    <3>3. cards' = rebuilt \/ cards' = patched \/ cards' = cards
      BY <1>4 DEF Mark
    <3> HIDE DEF rebuilt, patched
    <3> QED
      BY <1>0, <3>1, <3>2, <3>3 DEF StoreType
  <2>8. deskFaults' \in 0..MaxDeskFaults /\ excused' \subseteq {"text", "post", "card"}
    BY <1>0, <1>4, FaultTyped DEF Mark, StoreType
  <2>9. StoreType'
    BY <1>0, <2>1, <2>7, <2>8 DEF StoreType
  <2> QED
    BY <1>0, <2>1, <2>2, <2>7, <2>9, Sat, Keeps
<1>5. CASE Show(s)
  <2>1. UNCHANGED <<row, versions, cards, queue, deskFaults, worked, was, excused>> /\ post' = desk[s].view.text
    BY <1>5 DEF Show
  <2>2. /\ Moves(s) /\ SessionOK(desk'[s]) /\ desk'[s].op = desk[s].op /\ At(desk[s]) = "show" /\ desk[s].locked
        /\ desk'[s].view = desk[s].view /\ desk'[s].card = desk[s].card
    BY <1>5, ShowsPost DEF Turn
  <2>3. StoreType'
    BY <1>0, <2>1, RowFields DEF StoreType
  <2>4. HasRead(desk[s])
    BY <2>2 DEF HasRead
  <2> QED
    BY <1>0, <2>1, <2>2, <2>3, <2>4, Keeps
<1> QED
  BY <1>1, <1>2, <1>3, <1>4, <1>5

LEMMA MergeWhat ==
  ASSUME row \in Row, NEW r, SessionOK(r), At(r) # "fresh"
  PROVE  /\ Merge(r) \in Row
         /\ Merge(r).exists = (IF Own(r).exists # r.view.exists THEN Own(r).exists ELSE row.exists)
         /\ Merge(r).text = (IF Own(r).text # r.view.text THEN Own(r).text ELSE row.text)
         /\ Merge(r).status = (IF Own(r).status # r.view.status THEN Own(r).status ELSE row.status)
         /\ Merge(r).up = (IF Own(r).up # r.view.up THEN Own(r).up ELSE row.up)
         /\ Merge(r).card = row.card
         /\ Changed(r) = {} => Merge(r) = row
<1>1. Merge(r) = [c \in Columns |-> IF c \in Changed(r) THEN r.new[c] ELSE row[c]]
  BY DEF Merge
<1> QED
  BY <1>1, Merged

LEMMA MergedRow ==
  ASSUME DeskType, NEW s \in Sessions, At(desk[s]) = "commit"
  PROVE  Merge(desk[s]) \in Row /\ Merge(desk[s]).card = row.card
<1>1. SessionOK(desk[s]) /\ row \in Row
  BY Handler
<1>2. Merge(desk[s]) = [c \in Columns |-> IF c \in Changed(desk[s]) THEN desk[s].new[c] ELSE row[c]]
  BY DEF Merge
<1>3. At(desk[s]) # "fresh"
  OBVIOUS
<1> QED
  BY <1>1, <1>2, <1>3, Merged

LEMMA SnapSeq ==
  ASSUME NEW r, SessionOK(r), At(r) = "commit"
  PROVE  r.snap \in Seq(Version)
<1>1. r.view.text \in Texts
  BY RowFields DEF SessionOK
<1>2. CASE r.op \in TextWork
  <2>1. r.snap[1].number \in Nat \ {0} /\ r.snap = <<[number |-> r.snap[1].number, text |-> r.view.text]>>
    BY <1>2 DEF SessionOK, SnapOK
  <2>2. [number |-> r.snap[1].number, text |-> r.view.text] \in Version
    BY <1>1, <2>1 DEF Version
  <2>3. <<[number |-> r.snap[1].number, text |-> r.view.text]>> \in Seq(Version)
    BY <2>2
  <2> QED
    BY <2>1, <2>3
<1>3. CASE r.op \notin TextWork
  <2>1. r.snap = <<>>
    BY <1>3 DEF SessionOK, SnapOK
  <2> QED
    BY <2>1
<1> QED
  BY <1>2, <1>3

\* The steps that write.
LEMMA WriteTyped ==
  ASSUME DeskType, NEW s \in Sessions, Write(s) \/ Commit(s) \/ Take(s) \/ KeepCard(s)
  PROVE  DeskType'
<1>0. /\ SessionOK(desk[s]) /\ desk[s].card <= Len(cards) /\ Len(cards) \in Nat /\ desk[s].view \in Row
      /\ HasRead(desk[s]) => desk[s].view.card <= Len(cards)
      /\ row \in Row /\ row.card <= Len(cards) /\ StoreType /\ ValueOK(desk[s]) /\ desk[s].card \in Nat
  BY Handler
<1>1. CASE Write(s)
  <2>1. UNCHANGED <<row, versions, post, cards, deskFaults, worked, was, excused>>
    BY <1>1 DEF Write
  <2>2. queue' \in [publish : Seq(0..PublishRetries), notify : Nat] /\ queue'.notify = queue.notify
    <3>1. queue' = queue \/ queue' = [queue EXCEPT !.publish = Append(@, 0)]
      BY <1>1 DEF Write
    <3>2. queue \in [publish : Seq(0..PublishRetries), notify : Nat]
      BY <1>0 DEF StoreType
    <3> QED
      BY <1>0, <3>1, <3>2, QueueWhat
  <2>3. StoreType'
    BY <1>0, <2>1, <2>2 DEF StoreType
  <2>4. /\ Moves(s) /\ SessionOK(desk'[s]) /\ At(desk[s]) = "write"
        /\ desk'[s].locked => LockFree(s)
        /\ \/ desk'[s] = Nobody
           \/ desk'[s].op = desk[s].op /\ desk'[s].view = desk[s].view /\ desk'[s].card = desk[s].card
    BY <1>1, Writes DEF Turn
  <2>5. HasRead(desk[s])
    BY <2>4 DEF HasRead
  <2> QED
    BY <1>0, <2>1, <2>2, <2>3, <2>4, <2>5, Sat, Keeps
<1>2. CASE Commit(s)
  <2>1. UNCHANGED <<post, cards, deskFaults, worked>>
    BY <1>2 DEF Commit
  <2>2. /\ Moves(s) /\ SessionOK(desk'[s]) /\ At(desk[s]) = "commit" /\ ~desk'[s].locked
        /\ \/ desk'[s] = Nobody
           \/ desk'[s].op = desk[s].op /\ desk'[s].view = desk[s].view /\ desk'[s].card = desk[s].card
    BY <1>2, Commits DEF Turn
  <2>3. row' = row \/ row' = Merge(desk[s])
    BY <1>2, Commits
  <2>4. row' \in Row /\ row'.card <= Len(cards')
    BY <1>0, <2>1, <2>2, <2>3, MergedRow
  <2>5. versions' \in Seq(Version)
    <3>1. versions' = versions \/ versions' = versions \o desk[s].snap \/ versions' = <<>>
      BY <1>2, Commits
    <3>2. desk[s].snap \in Seq(Version) /\ versions \in Seq(Version)
      BY <1>0, <2>2, SnapSeq DEF StoreType
    <3>3. versions \o desk[s].snap \in Seq(Version)
      BY <3>2
    <3>4. <<>> \in Seq(Version)
      OBVIOUS
    <3> QED
      BY <3>1, <3>2, <3>3, <3>4, Zenon
  <2>6. was' \subseteq Texts
    <3>1. was' = was \/ was' = was \cup {row'.text}
      BY <1>2, Commits
    <3> QED
      BY <1>0, <2>4, <3>1, RowFields DEF StoreType
  <2>7. queue' \in [publish : Seq(0..PublishRetries), notify : Nat] /\ queue'.notify = queue.notify
    <3>1. queue' = queue \/ queue' = [queue EXCEPT !.publish = Append(@, 0)]
      BY <1>2, Commits
    <3>2. queue \in [publish : Seq(0..PublishRetries), notify : Nat]
      BY <1>0 DEF StoreType
    <3> QED
      BY <1>0, <3>1, <3>2, QueueWhat
  <2>8. excused' \subseteq {"text", "post", "card"}
    <3>1. excused' = excused \/ excused' = excused \cup {"post"}
      BY <1>2, Commits
    <3> QED
      BY <1>0, <3>1 DEF StoreType
  <2>9. StoreType'
    BY <1>0, <2>1, <2>4, <2>5, <2>6, <2>7, <2>8 DEF StoreType
  <2>10. HasRead(desk[s])
    BY <2>2 DEF HasRead
  <2> QED
    BY <1>0, <2>1, <2>2, <2>7, <2>9, <2>10, Sat, Keeps
<1>3. CASE Take(s)
  <2>1. UNCHANGED <<versions, post, cards, deskFaults, worked, was, excused>>
    BY <1>3 DEF Take
  <2>2. /\ Moves(s) /\ SessionOK(desk'[s]) /\ At(desk[s]) = "take" /\ desk[s].value \in {"approved", "scheduled"}
        /\ \/ desk'[s] = Nobody
           \/ /\ desk'[s].op = desk[s].op /\ desk'[s].card = desk[s].card /\ desk'[s].locked = desk[s].locked
              /\ At(desk'[s]) = "fresh"
    BY <1>3, TakesIt DEF Turn
  <2>3. row' = row \/ row' = [row EXCEPT !.status = desk[s].value, !.approved = desk[s].value = "scheduled"]
    BY <1>3, TakesIt
  <2>4. row' \in Row /\ row'.card = row.card
    <3>1. desk[s].value \in Statuses /\ (desk[s].value = "scheduled") \in BOOLEAN
      BY <2>2 DEF Statuses
    <3> QED
      BY <1>0, <2>3, <3>1 DEF Row
  <2>5. queue' \in [publish : Seq(0..PublishRetries), notify : Nat] /\ queue'.notify = queue.notify
    <3>1. queue' = queue \/ queue' = [queue EXCEPT !.publish = Append(@, 0)]
      BY <1>3, TakesIt
    <3>2. queue \in [publish : Seq(0..PublishRetries), notify : Nat]
      BY <1>0 DEF StoreType
    <3> QED
      BY <1>0, <3>1, <3>2, QueueWhat
  <2>6. StoreType'
    BY <1>0, <2>1, <2>4, <2>5 DEF StoreType
  <2>7. ~HasRead(desk'[s])
    BY <2>2, Sat DEF HasRead
  <2> QED
    BY <1>0, <2>1, <2>2, <2>5, <2>6, <2>7, Sat, Keeps
<1>4. CASE KeepCard(s)
  <2>1. UNCHANGED <<versions, post, cards, queue, deskFaults, worked, was, excused>>
    BY <1>4 DEF KeepCard
  <2>2. Moves(s) /\ desk'[s] = Nobody /\ SessionOK(desk'[s])
    BY <1>4, Leaves DEF KeepCard
  <2>3. row' \in Row /\ row'.card <= Len(cards)
    <3>1. desk[s].card \in 0..MaxCards
      <4>1. Len(cards) + queue.notify + Cardinality(Offering) <= MaxCards /\ queue.notify \in Nat
        BY DEF DeskType
      <4> QED
        BY <1>0, <4>1, OfferingFinite, Bounds
    <3>2. row' = IF row.exists THEN [row EXCEPT !.card = desk[s].card] ELSE row
      BY <1>4 DEF KeepCard
    <3> QED
      BY <1>0, <3>1, <3>2 DEF Row
  <2>4. StoreType'
    BY <1>0, <2>1, <2>3 DEF StoreType
  <2> QED
    BY <1>0, <2>1, <2>2, <2>4, Sat, Keeps
<1> QED
  BY <1>1, <1>2, <1>3, <1>4

LEMMA SendCardTyped ==
  ASSUME DeskType, NEW s \in Sessions, SendCard(s)
  PROVE  DeskType'
<1>0. /\ SessionOK(desk[s]) /\ desk[s].card <= Len(cards) /\ Len(cards) \in Nat /\ desk[s].view \in Row
      /\ HasRead(desk[s]) => desk[s].view.card <= Len(cards)
      /\ row \in Row /\ row.card <= Len(cards) /\ StoreType /\ desk[s].view.card \in Nat
  BY Handler, RowFields
<1>1. UNCHANGED <<row, versions, post, queue, worked, was, excused>>
  BY DEF SendCard
<1>2. deskFaults' \in 0..MaxDeskFaults
  BY <1>0, FaultTyped DEF SendCard, StoreType
<1>3. /\ At(desk[s]) = "offer" /\ desk[s].op = "notify" /\ Moves(s) /\ SessionOK(desk'[s]) /\ desk[s].card = 0
  BY SendsCard
<1>4. CASE desk'[s] = Nobody /\ UNCHANGED cards
  <2>1. StoreType'
    BY <1>0, <1>1, <1>2, <1>4 DEF StoreType
  <2> QED
    BY <1>0, <1>1, <1>3, <1>4, <2>1, Sat, Keeps
<1>5. CASE /\ cards' = Append(cards, Card(desk[s].view, Offers(desk[s].view)))
           /\ Turn(desk[s], desk'[s], "keep") /\ desk'[s].card = Len(cards) + 1
           /\ desk'[s].view = desk[s].view /\ desk'[s].locked = desk[s].locked
  <2>1. Card(desk[s].view, Offers(desk[s].view)) \in CardType
    BY <1>0, OffersWhat
  <2>2. cards' \in Seq(CardType) /\ Len(cards') = Len(cards) + 1
    BY <1>0, <1>5, <2>1 DEF StoreType
  <2>3. HasRead(desk[s])
    BY <1>3 DEF HasRead
  <2>4. /\ DOMAIN desk' = Sessions
        /\ \A t \in Sessions : /\ SessionOK(desk'[t])
                               /\ desk'[t].card <= Len(cards') /\ (HasRead(desk'[t]) => desk'[t].view.card <= Len(cards'))
        /\ \A t, u \in Held' : t = u
    <3>1. Len(cards) <= Len(cards') /\ desk'[s].card <= Len(cards') /\ desk'[s].view.card <= Len(cards')
      BY <1>0, <1>5, <2>2, <2>3
    <3> QED
      BY <1>3, <1>5, <2>2, <3>1, Seats
  <2>5. Cardinality(Offering') <= Cardinality(Offering) - 1 /\ Cardinality(Offering') \in Nat
    <3>1. s \in Offering
      BY <1>3 DEF Offering
    <3>2. \A t \in Sessions : t # s => desk'[t] = desk[t]
      BY <1>3, Moved DEF DeskType
    <3>3. Len(cards) + 1 # 0
      BY <1>0
    <3>4. Offering' \in SUBSET (Offering \ {s})
      BY <1>5, <3>2, <3>3 DEF Offering
    <3>5. IsFiniteSet(Offering \ {s}) /\ Cardinality(Offering \ {s}) = Cardinality(Offering) - 1
      BY <3>1, OfferingFinite, FS_RemoveElement
    <3>6. IsFiniteSet(Offering') /\ Cardinality(Offering') <= Cardinality(Offering \ {s})
      BY <3>4, <3>5, FS_Subset
    <3>7. Cardinality(Offering') \in Nat
      BY <3>6, FS_CardinalityType
    <3> QED
      BY <3>5, <3>6, <3>7
  <2>6. Len(cards) + queue.notify + Cardinality(Offering) <= MaxCards /\ queue.notify \in Nat
    BY DEF DeskType
  <2>7. Len(cards') + queue'.notify + Cardinality(Offering') <= MaxCards
    BY <1>0, <1>1, <2>2, <2>5, <2>6, OfferingFinite, Bounds
  <2>8. StoreType'
    <3>1. row'.card <= Len(cards')
      BY <1>0, <1>1, <2>2, RowFields
    <3> QED
      BY <1>0, <1>1, <1>2, <2>2, <3>1 DEF StoreType
  <2> QED
    BY <2>4, <2>7, <2>8 DEF DeskType, StoreType
<1> QED
  BY <1>4, <1>5, SendsCard

LEMMA SnapshotTyped ==
  ASSUME DeskType, NEW s \in Sessions, Snapshot(s), NextNumber \in Nat \ {0}
  PROVE  DeskType'
<1>0. /\ SessionOK(desk[s]) /\ desk[s].card <= Len(cards) /\ Len(cards) \in Nat /\ desk[s].view \in Row
      /\ HasRead(desk[s]) => desk[s].view.card <= Len(cards)
      /\ StoreType
  BY Handler
<1>1. UNCHANGED <<row, versions, post, cards, queue, deskFaults, worked, was, excused>>
  BY DEF Snapshot
<1>2. StoreType'
  BY <1>0, <1>1 DEF StoreType
<1>3. /\ Moves(s) /\ SessionOK(desk'[s]) /\ desk'[s].op = desk[s].op /\ At(desk[s]) = "snapshot"
      /\ desk'[s].view = desk[s].view /\ desk'[s].locked = desk[s].locked /\ desk'[s].card = desk[s].card
  BY Snaps DEF Turn
<1>4. HasRead(desk[s])
  BY <1>3 DEF HasRead
<1> QED
  BY <1>0, <1>1, <1>2, <1>3, <1>4, Keeps

-------------------------------------------------------------------------------
(* The numbers of the versions. *)

Numbers == {v.number : v \in ToSet(versions)}

\* There is a greatest one to count from.
Numbered == \E k \in {0} \cup Numbers : \A n \in Numbers : n <= k

LEMMA NumbersWhat ==
  ASSUME versions \in Seq(Version)
  PROVE  /\ ToSet(versions) \subseteq Version /\ Numbers \subseteq Nat \ {0}
         /\ \A i \in 1..Len(versions) : versions[i] \in ToSet(versions) /\ versions[i].number \in Numbers
         /\ \A n \in Numbers : \E i \in 1..Len(versions) : n = versions[i].number
         /\ \A v \in ToSet(versions) : \E i \in 1..Len(versions) : v = versions[i]
<1>1. ToSet(versions) = {versions[i] : i \in 1..Len(versions)}
  BY DEF ToSet
<1>2. \A i \in 1..Len(versions) : versions[i] \in Version
  OBVIOUS
<1> QED
  BY <1>1, <1>2 DEF Numbers, Version

\* The greatest of some numbers, when there is one.
LEMMA Greatest ==
  ASSUME NEW S \in SUBSET Nat, NEW k \in S, \A n \in S : n <= k
  PROVE  Max(S) = k
<1>1. \A y \in S : k >= y
  OBVIOUS
<1>2. Max(S) = CHOOSE x \in S : \A y \in S : x >= y
  BY DEF Max
<1> DEFINE m == Max(S)
<1>3. m \in S /\ \A y \in S : m >= y
  BY <1>1, <1>2, Zenon
<1> HIDE DEF m
<1>4. m \in Nat /\ k \in Nat /\ m >= k /\ k >= m
  BY <1>1, <1>3
<1>5. m = k
  BY <1>4
<1> QED
  BY <1>5 DEF m

LEMMA NextIsNumber ==
  ASSUME versions \in Seq(Version), NEW k \in {0} \cup Numbers, \A n \in Numbers : n <= k
  PROVE  NextNumber = k + 1 /\ NextNumber \in Nat \ {0}
<1>1. Numbers \subseteq Nat
  BY NumbersWhat
<1>2. {0} \cup Numbers \in SUBSET Nat /\ \A n \in {0} \cup Numbers : n <= k
  BY <1>1
<1>3. Max({0} \cup Numbers) = k
  BY <1>2, Greatest
<1>4. NextNumber = 1 + k
  BY <1>3 DEF NextNumber, Numbers
<1> QED
  BY <1>1, <1>4

\* Where the versions grow: by one, with a number, or by none.
LEMMA Grows ==
  ASSUME NEW old \in Seq(Version), NEW new \in Seq(Version)
  PROVE  /\ Len(old \o new) = Len(old) + Len(new)
         /\ ToSet(old \o new) = ToSet(old) \cup ToSet(new)
         /\ \A i \in 1..Len(old) : (old \o new)[i] = old[i]
<1>1. /\ Len(old \o new) = Len(old) + Len(new) /\ Len(old) \in Nat /\ Len(new) \in Nat
      /\ \A i \in 1..Len(old \o new) : (old \o new)[i] = IF i <= Len(old) THEN old[i] ELSE new[i - Len(old)]
  OBVIOUS
<1>2. ASSUME NEW v PROVE v \in ToSet(old \o new) <=> v \in ToSet(old) \/ v \in ToSet(new)
  <2>1. v \in ToSet(old \o new) <=> \E i \in 1..Len(old \o new) : v = (old \o new)[i]
    BY DEF ToSet
  <2>2. v \in ToSet(old) <=> \E i \in 1..Len(old) : v = old[i]
    BY DEF ToSet
  <2>3. v \in ToSet(new) <=> \E i \in 1..Len(new) : v = new[i]
    BY DEF ToSet
  <2>4. ASSUME NEW i \in 1..Len(new), v = new[i] PROVE v \in ToSet(old \o new)
    <3>1. Len(old) + i \in 1..Len(old \o new) /\ (old \o new)[Len(old) + i] = new[i]
      BY <1>1
    <3> QED
      BY <2>1, <2>4, <3>1
  <2>5. ASSUME NEW i \in 1..Len(old), v = old[i] PROVE v \in ToSet(old \o new)
    <3>1. i \in 1..Len(old \o new) /\ (old \o new)[i] = old[i]
      BY <1>1
    <3> QED
      BY <2>1, <2>5, <3>1
  <2>6. ASSUME NEW i \in 1..Len(old \o new), v = (old \o new)[i] PROVE v \in ToSet(old) \/ v \in ToSet(new)
    <3>1. CASE i <= Len(old)
      <4>1. i \in 1..Len(old) /\ v = old[i]
        BY <1>1, <2>6, <3>1
      <4> QED
        BY <2>2, <4>1
    <3>2. CASE ~(i <= Len(old))
      <4>1. i - Len(old) \in 1..Len(new) /\ v = new[i - Len(old)]
        BY <1>1, <2>6, <3>2
      <4> QED
        BY <2>3, <4>1
    <3> QED
      BY <3>1, <3>2
  <2> QED
    BY <2>1, <2>2, <2>3, <2>4, <2>5, <2>6
<1> QED
  BY <1>1, <1>2

\* Only these steps write the row.
LEMMA RowStays ==
  ASSUME [Next]_deskVars, ~BulkDelete, \A s \in Sessions : ~Commit(s) /\ ~Take(s) /\ ~KeepCard(s)
  PROVE  UNCHANGED <<row, versions, was>>
<1>1. CASE UNCHANGED deskVars
  BY <1>1 DEF deskVars
<1>2. CASE SendToModeration \/ BeatEnqueues
  BY <1>2 DEF SendToModeration, BeatEnqueues
<1>3. ASSUME NEW s \in Sessions, Asked(s) PROVE UNCHANGED <<row, versions, was>>
  <2>1. \A op, value : Asks(s, op, value) => UNCHANGED <<row, versions, was>>
    BY DEF Asks
  <2> QED
    BY <1>3, <2>1 DEF Asked, EditNews, RegenerateNews, ApproveNews, RestoreVersion, RejectNews, ScheduleNews,
                      CancelSchedule, UnpublishNews, DeleteNews, PublishNow
<1>4. ASSUME NEW s \in Sessions, PublishTask(s) \/ NotifyTask(s) PROVE UNCHANGED <<row, versions, was>>
  BY <1>4 DEF PublishTask, NotifyTask
<1>5. ASSUME NEW s \in Sessions, Step(s) PROVE UNCHANGED <<row, versions, was>>
  <2>1. CASE ReadRow(s) \/ Snapshot(s) \/ Takedown(s) \/ Write(s) \/ EditPost(s) \/ UpdateCard(s)
    BY <2>1 DEF ReadRow, Snapshot, Takedown, Write, EditPost, UpdateCard
  <2>2. CASE RequestFails(s) \/ RewriteFails(s) \/ Fresh(s) \/ Mark(s) \/ BeginPublication(s)
    BY <2>2 DEF RequestFails, RewriteFails, Fresh, Mark, BeginPublication
  <2>3. CASE Show(s) \/ RefusesPost(s) \/ SendCard(s)
    BY <2>3 DEF Show, RefusesPost, SendCard
  <2> QED
    BY <1>5, <2>1, <2>2, <2>3 DEF Step
<1>6. ASSUME NEW s \in Sessions, NEW k, NEW button, Press(s, k, button) PROVE UNCHANGED <<row, versions, was>>
  BY <1>6 DEF Press
<1> QED
  BY <1>1, <1>2, <1>3, <1>4, <1>5, <1>6 DEF Next

\* What a commit adds to the versions.
LEMMA SnapWhat ==
  ASSUME NEW r, SessionOK(r), At(r) = "commit"
  PROVE  /\ r.snap \in Seq(Version)
         /\ r.op \in TextWork => r.snap[1] \in Version /\ r.snap = <<r.snap[1]>> /\ r.snap[1].text = r.view.text
         /\ r.op \notin TextWork => r.snap = <<>>
<1>1. r.snap \in Seq(Version)
  BY SnapSeq
<1>2. CASE r.op \in TextWork
  <2>1. r.snap[1].number \in Nat \ {0} /\ r.snap = <<[number |-> r.snap[1].number, text |-> r.view.text]>>
    BY <1>2 DEF SessionOK, SnapOK
  <2> DEFINE v == [number |-> r.snap[1].number, text |-> r.view.text]
  <2>2. r.snap = <<v>> /\ v.text = r.view.text
    BY <2>1
  <2> HIDE DEF v
  <2>3. r.snap[1] = v
    BY <2>2
  <2> QED
    BY <1>1, <1>2, <2>2, <2>3
<1>3. CASE r.op \notin TextWork
  BY <1>1, <1>3 DEF SessionOK, SnapOK
<1> QED
  BY <1>2, <1>3

LEMMA VersionsStep ==
  ASSUME DeskType, [Next]_deskVars
  PROVE  \/ versions' = versions
         \/ versions' = <<>> /\ ~row'.exists
         \/ \E s \in Sessions : /\ Commit(s) /\ desk[s].op \in TextWork
                                /\ versions' = versions \o desk[s].snap
                                /\ desk[s].snap = <<desk[s].snap[1]>> /\ desk[s].snap[1] \in Version
<1>1. CASE BulkDelete
  <2>1. versions' = <<>> /\ row' = [row EXCEPT !.exists = FALSE] /\ row \in Row
    BY <1>1 DEF BulkDelete, DeskType
  <2> QED
    BY <2>1 DEF Row
<1>2. ASSUME NEW s \in Sessions, Commit(s)
      PROVE  \/ versions' = versions
             \/ versions' = <<>> /\ ~row'.exists
             \/ /\ Commit(s) /\ desk[s].op \in TextWork
                /\ versions' = versions \o desk[s].snap
                /\ desk[s].snap = <<desk[s].snap[1]>> /\ desk[s].snap[1] \in Version
  <2>1. /\ At(desk[s]) = "commit" /\ SessionOK(desk[s]) /\ versions \in Seq(Version)
    BY <1>2, Commits DEF DeskType
  <2>2. versions' = versions \/ versions' = IF row'.exists THEN versions \o desk[s].snap ELSE <<>>
    BY <1>2, Commits
  <2>3. /\ desk[s].op \in TextWork => desk[s].snap[1] \in Version /\ desk[s].snap = <<desk[s].snap[1]>>
        /\ desk[s].op \notin TextWork => desk[s].snap = <<>>
    BY <2>1, SnapWhat
  <2>4. desk[s].op \notin TextWork => versions \o desk[s].snap = versions
    BY <2>1, <2>3
  <2> QED
    BY <1>2, <2>2, <2>3, <2>4
<1>3. ASSUME NEW s \in Sessions, Take(s) \/ KeepCard(s) PROVE versions' = versions
  BY <1>3 DEF Take, KeepCard
<1> QED
  BY <1>1, <1>2, <1>3, RowStays

LEMMA NumberedStays ==
  ASSUME DeskType, Numbered, [Next]_deskVars
  PROVE  Numbered'
<1>0. versions \in Seq(Version)
  BY DEF DeskType
<1>1. CASE versions' = versions
  BY <1>1 DEF Numbered, Numbers
<1>2. CASE versions' = <<>>
  <2>1. ToSet(versions') = {}
    BY <1>2 DEF ToSet
  <2> QED
    BY <2>1 DEF Numbered, Numbers
<1>3. ASSUME NEW v \in Version, versions' = versions \o <<v>> PROVE Numbered'
  <2>1. <<v>> \in Seq(Version) /\ ToSet(<<v>>) = {v} /\ v.number \in Nat \ {0}
    BY DEF ToSet, Version
  <2>2. ToSet(versions') = ToSet(versions) \cup {v}
    <3>1. ToSet(versions \o <<v>>) = ToSet(versions) \cup ToSet(<<v>>)
      BY <1>0, <2>1, Grows
    <3>2. ToSet(versions') = ToSet(versions \o <<v>>)
      BY <1>3 DEF ToSet
    <3> QED
      BY <2>1, <3>1, <3>2
  <2>3. Numbers' = Numbers \cup {v.number}
    BY <2>2 DEF Numbers
  <2>4. PICK k \in {0} \cup Numbers : \A n \in Numbers : n <= k
    BY DEF Numbered
  <2>5. Numbers \subseteq Nat
    BY <1>0, NumbersWhat
  <2>6. CASE v.number <= k
    BY <2>1, <2>3, <2>4, <2>5, <2>6 DEF Numbered
  <2>7. CASE ~(v.number <= k)
    <3>1. \A n \in Numbers : n <= v.number
      BY <2>1, <2>4, <2>5, <2>7
    <3> QED
      BY <2>1, <2>3, <3>1 DEF Numbered
  <2> QED
    BY <2>6, <2>7
<1> QED
  BY <1>1, <1>2, <1>3, VersionsStep

-------------------------------------------------------------------------------
(* Types hold. *)

LEMMA InitTyped ==
  ASSUME Init
  PROVE  DeskType /\ Numbered
<1>1. PICK q \in Ready :
        /\ row = q.row
        /\ versions = <<>>
        /\ post = IF q.row.up THEN q.row.text ELSE NoText
        /\ cards = IF q.row.card = 1 THEN <<Card(q.row, Offers(q.row))>> ELSE <<>>
        /\ desk = [s \in Sessions |-> Nobody]
        /\ queue = [publish |-> <<>>, notify |-> 1 - q.row.card]
        /\ deskFaults = q.faults
        /\ worked = q.work
        /\ was = {q.row.text}
        /\ excused = {}
  BY DEF Init
<1>2. row \in Row /\ row.card \in 0..1 /\ row.text \in Texts /\ row.status \in Statuses
  BY <1>1, DeskAssumption, RowFields
<1>3. q.faults \in 0..MaxDeskFaults /\ q.work \in 0..MaxWork
  BY DeskAssumption
<1>4. cards \in Seq(CardType) /\ Len(cards) = row.card
  <2>1. Card(row, Offers(row)) \in CardType
    BY <1>2, OffersWhat DEF Card, CardType
  <2> HIDE DEF CardType
  <2>2. cards = IF row.card = 1 THEN <<Card(row, Offers(row))>> ELSE <<>>
    BY <1>1
  <2>3. CASE row.card = 1
    <3>1. \A x \in CardType : <<x>> \in Seq(CardType) /\ Len(<<x>>) = 1
      OBVIOUS
    <3> QED
      BY <2>1, <2>2, <2>3, <3>1
  <2>4. CASE row.card = 0
    BY <2>2, <2>4
  <2> QED
    BY <1>2, <2>3, <2>4
<1>5. queue \in [publish : Seq(0..PublishRetries), notify : Nat] /\ queue.notify = 1 - row.card
  BY <1>1, <1>2, Bounds
<1>6. /\ DOMAIN desk = Sessions
      /\ \A s \in Sessions : desk[s] = Nobody
  BY <1>1
<1>7. /\ SessionOK(Nobody) /\ Nobody.card = 0 /\ ~HasRead(Nobody) /\ ~Nobody.locked /\ Nobody.op = "none"
  BY <1>2, NobodySits, Fields
<1>8. Offering = {} /\ Held = {} /\ Cardinality(Offering) = 0
  <2>1. Offering = {} /\ Held = {}
    BY <1>6, <1>7 DEF Offering, Held
  <2> QED
    BY <2>1, FS_EmptySet
<1>9. Len(cards) + queue.notify + Cardinality(Offering) <= MaxCards
  BY <1>2, <1>4, <1>5, <1>8, Bounds
<1>10. versions \in Seq(Version) /\ post \in Texts \cup {NoText} /\ was \subseteq Texts /\ excused \subseteq {"text", "post", "card"}
  BY <1>1, <1>2
<1>11. \A s \in Sessions : SessionOK(desk[s]) /\ desk[s].card <= Len(cards) /\ (HasRead(desk[s]) => desk[s].view.card <= Len(cards))
  BY <1>2, <1>4, <1>6, <1>7
<1>12. DeskType
  BY <1>1, <1>2, <1>3, <1>4, <1>5, <1>6, <1>8, <1>9, <1>10, <1>11 DEF DeskType
<1>13. Numbered
  <2>1. ToSet(versions) = {}
    BY <1>1 DEF ToSet
  <2> QED
    BY <2>1 DEF Numbered, Numbers
<1> QED
  BY <1>12, <1>13

LEMMA DeskStep ==
  ASSUME DeskType, Numbered, [Next]_deskVars
  PROVE  DeskType'
<1>1. CASE UNCHANGED deskVars
  <2>1. DeskType' <=> DeskType
    BY <1>1 DEF deskVars, DeskType, Offering, Held
  <2> QED
    BY <2>1
<1>2. ASSUME NEW s \in Sessions, Asked(s) \/ PublishTask(s) \/ NotifyTask(s) PROVE DeskType'
  BY <1>2, AskedTyped, TasksTyped
<1>3. ASSUME NEW s \in Sessions, NEW k \in 1..Len(cards), NEW button \in cards[k].offers, Press(s, k, button) PROVE DeskType'
  BY <1>3, PressTyped
<1>4. ASSUME NEW s \in Sessions, Step(s) PROVE DeskType'
  <2>1. CASE ReadRow(s) \/ Fresh(s) \/ BeginPublication(s) \/ RequestFails(s) \/ RewriteFails(s) \/ RefusesPost(s)
    BY <2>1, ReadTyped
  <2>2. CASE Takedown(s) \/ EditPost(s) \/ UpdateCard(s) \/ Mark(s) \/ Show(s)
    BY <2>2, ShowTyped
  <2>3. CASE Write(s) \/ Commit(s) \/ Take(s) \/ KeepCard(s)
    BY <2>3, WriteTyped
  <2>4. CASE SendCard(s)
    BY <2>4, SendCardTyped
  <2>5. CASE Snapshot(s)
    <3>1. PICK k \in {0} \cup Numbers : \A n \in Numbers : n <= k
      BY DEF Numbered
    <3>2. NextNumber \in Nat \ {0}
      BY <3>1, NextIsNumber DEF DeskType
    <3> QED
      BY <2>5, <3>2, SnapshotTyped
  <2> QED
    BY <1>4, <2>1, <2>2, <2>3, <2>4, <2>5 DEF Step
<1>5. CASE BulkDelete \/ SendToModeration \/ BeatEnqueues
  BY <1>5, OthersTyped
<1> QED
  BY <1>1, <1>2, <1>3, <1>4, <1>5 DEF Next

LEMMA TypesImply ==
  DeskType => TypeOK
<1> SUFFICES ASSUME DeskType PROVE TypeOK
  OBVIOUS
<1>1. row \in Row /\ row.card <= Len(cards) /\ post \in Texts \cup {NoText}
  BY DEF DeskType
<1>2. \A v \in ToSet(versions) : v.text \in Texts /\ v.number \in Nat \ {0}
  <2>1. ToSet(versions) \subseteq Version
    BY NumbersWhat DEF DeskType
  <2> QED
    BY <2>1 DEF Version
<1>3. Len(cards) <= MaxCards
  <2>1. Len(cards) \in Nat /\ queue.notify \in Nat /\ Len(cards) + queue.notify + Cardinality(Offering) <= MaxCards
    BY DEF DeskType
  <2> QED
    BY <2>1, OfferingFinite, Bounds
<1>4. \A c \in ToSet(cards) : c.text \in Texts /\ c.status \in Statuses /\ c.offers \subseteq DOMAIN Presses
  <2>1. cards \in Seq(CardType)
    BY DEF DeskType
  <2>2. \A i \in 1..Len(cards) : cards[i] \in CardType
    BY <2>1
  <2>3. ToSet(cards) \subseteq CardType
    BY <2>1, <2>2 DEF ToSet
  <2> QED
    BY <2>3 DEF CardType
<1>5. \A s \in Sessions : desk[s].view \in Row /\ (desk[s].locked => ~\E t \in Sessions \ {s} : desk[t].locked)
  <2>1. \A s \in Sessions : desk[s].view \in Row
    BY DEF DeskType, SessionOK
  <2>2. \A s, t \in Sessions : desk[s].locked /\ desk[t].locked => s = t
    BY DEF DeskType, Held
  <2> QED
    BY <2>1, <2>2
<1>6. queue.notify \in Nat /\ queue.publish \in Seq(0..PublishRetries)
  BY DEF DeskType
<1>7. \A s \in Sessions : desk[s].op = "publish_news" => desk[s].value \in 0..PublishRetries
  BY DEF DeskType, SessionOK, ValueOK
<1>8. deskFaults \in 0..MaxDeskFaults /\ worked \in 0..MaxWork /\ was \subseteq Texts /\ excused \subseteq {"text", "post", "card"}
  BY DEF DeskType
<1> QED
  BY <1>1, <1>2, <1>3, <1>4, <1>5, <1>6, <1>7, <1>8 DEF TypeOK

LEMMA DeskIsTyped ==
  Spec => [](DeskType /\ Numbered)
<1>1. Init => DeskType /\ Numbered
  BY InitTyped
<1>2. DeskType /\ Numbered /\ [Next]_deskVars => (DeskType /\ Numbered)'
  BY DeskStep, NumberedStays
<1> QED
  BY <1>1, <1>2, PTL DEF Spec

\* Every variable keeps its type, and what comes with it: at most one handler holds the row's
\* lock, no card is kept that was not sent, a publication is retried at most max_retries times,
\* and no more cards are sent than MaxCards (NewsDesk.TypeOK).
THEOREM TypeCorrect ==
  Spec => []TypeOK
<1>1. DeskType /\ Numbered => TypeOK
  BY TypesImply
<1> QED
  BY <1>1, DeskIsTyped, PTL

-------------------------------------------------------------------------------
(* What begins, and what every step does. *)

\* A handler begins: it finds nobody at its work, or the history notes that.
Starts(s) ==
  /\ desk[s].op = "none" /\ Moves(s) /\ SessionOK(desk'[s])
  /\ desk'[s].op \in Operations /\ At(desk'[s]) = First(desk'[s].op)
  /\ excused \subseteq excused'
  /\ \A x \in Spoils(desk'[s].op) : x \notin excused' => \A t \in Sessions : x \notin Spoils(desk[t].op)
  /\ UNCHANGED <<row, versions, post, cards, was>>

LEMMA BeginsStarts ==
  ASSUME DeskType, NEW s \in Sessions, NEW op \in Operations, NEW value, NEW card \in Nat, Begins(s, op, value, card),
         op \in TextWork => value \in Texts,
         op = "approve" => value \in {"approved", "scheduled", "unqueued"},
         op \in {"bot_approve", "bot_now"} => value \in {"approved", "scheduled"},
         op = "publish_news" => value \in 0..PublishRetries,
         op \in BotWork => card # 0,
         op = "notify" => card = 0,
         UNCHANGED <<row, versions, post, cards, was>>
  PROVE  Starts(s) /\ desk'[s].op = op /\ desk'[s].value = value /\ desk'[s].card = card
<1>1. /\ desk[s].op = "none" /\ Moves(s) /\ SessionOK(desk'[s]) /\ At(desk'[s]) = First(op)
      /\ desk'[s].op = op /\ desk'[s].value = value /\ desk'[s].card = card
  BY BeginsWork
<1>2. excused' = excused \cup (Spoils(op) \cap UNION {Spoils(desk[t].op) : t \in Sessions})
  BY DEF Begins
<1>3. ASSUME NEW x \in Spoils(op), x \notin excused', NEW t \in Sessions PROVE x \notin Spoils(desk[t].op)
  BY <1>2, <1>3
<1> QED
  BY <1>1, <1>2, <1>3 DEF Starts

LEMMA AskedStarts ==
  ASSUME DeskType, NEW s \in Sessions, Asked(s)
  PROVE  Starts(s) /\ desk'[s].op \in Operations \ (BotWork \cup {"publish_news", "notify"}) /\ queue' = queue
<1>0. {"edit", "regenerate", "restore", "approve", "reject", "schedule", "cancel", "unpublish", "delete", "publish_now"}
      \subseteq Operations \ (BotWork \cup {"publish_news", "notify"})
  BY DEF Operations, TextWork, CardWork, PostWork, BotWork
<1>1. ASSUME NEW op \in Operations \ (BotWork \cup {"publish_news", "notify"}), NEW value, Asks(s, op, value),
             op \in TextWork => value \in Texts,
             op = "approve" => value \in {"approved", "scheduled", "unqueued"}
      PROVE  Starts(s) /\ desk'[s].op = op /\ queue' = queue
  <2>1. op \notin {"bot_approve", "bot_now"}
    BY DEF BotWork
  <2>2. Begins(s, op, value, 0) /\ UNCHANGED <<row, versions, post, cards, was, queue>>
    BY <1>1 DEF Asks
  <2> QED
    BY <1>1, <2>1, <2>2, BeginsStarts
<1>2. ASSUME NEW text \in Texts, NEW op \in {"edit", "regenerate"}, Asks(s, op, text)
      PROVE  Starts(s) /\ desk'[s].op = op /\ queue' = queue
  BY <1>0, <1>1, <1>2
<1>3. ASSUME NEW slot \in {"approved", "scheduled", "unqueued"}, Asks(s, "approve", slot)
      PROVE  Starts(s) /\ desk'[s].op = "approve" /\ queue' = queue
  <2>1. "approve" \notin TextWork
    BY DEF TextWork
  <2> QED
    BY <1>0, <1>1, <1>3, <2>1
<1>4. ASSUME NEW v \in ToSet(versions), Asks(s, "restore", v.text)
      PROVE  Starts(s) /\ desk'[s].op = "restore" /\ queue' = queue
  <2>1. v.text \in Texts
    BY NumbersWhat DEF DeskType, Version
  <2> QED
    BY <1>0, <1>1, <1>4, <2>1
<1>5. ASSUME NEW op \in {"reject", "schedule", "cancel", "unpublish", "delete", "publish_now"}, Asks(s, op, NoText)
      PROVE  Starts(s) /\ desk'[s].op = op /\ queue' = queue
  <2>1. op \notin TextWork /\ op # "approve"
    BY DEF TextWork
  <2> QED
    BY <1>0, <1>1, <1>5, <2>1
<1> QED
  BY <1>0, <1>2, <1>3, <1>4, <1>5 DEF Asked, EditNews, RegenerateNews, ApproveNews, RestoreVersion, RejectNews, ScheduleNews,
                                     CancelSchedule, UnpublishNews, DeleteNews, PublishNow

LEMMA PressStarts ==
  ASSUME DeskType, NEW s \in Sessions, NEW k \in 1..Len(cards), NEW button \in cards[k].offers, Press(s, k, button)
  PROVE  Starts(s) /\ desk'[s].op \in BotWork /\ queue' = queue
<1>0. Len(cards) \in Nat
  BY DEF DeskType
<1>1. button \in DOMAIN Presses
  <2>1. cards[k] \in CardType
    BY <1>0 DEF DeskType
  <2> QED
    BY <2>1 DEF CardType
<1>2. Presses[button] \in BotWork
  BY <1>1 DEF Presses, BotWork
<1>3. PICK slot \in {"approved", "scheduled"} : Begins(s, Presses[button], slot, k)
  BY DEF Press
<1>4. BotWork \subseteq Operations /\ BotWork \cap (TextWork \cup {"approve", "publish_news", "notify"}) = {}
  BY DEF BotWork, Operations, TextWork, CardWork, PostWork
<1>5. UNCHANGED <<row, versions, post, cards, was, queue>>
  BY DEF Press
<1>6. k \in Nat /\ k # 0
  BY <1>0
<1> QED
  BY <1>2, <1>3, <1>4, <1>5, <1>6, BeginsStarts

LEMMA TasksStart ==
  ASSUME DeskType, NEW s \in Sessions, PublishTask(s) \/ NotifyTask(s)
  PROVE  /\ queue'.publish = queue.publish \/ queue.publish # <<>>
         /\ \/ UNCHANGED <<row, versions, post, cards, desk, was, excused>> /\ \E t \in Sessions : desk[t].op = "publish_news"
            \/ Starts(s) /\ desk'[s].op = "publish_news"
            \/ Starts(s) /\ desk'[s].op = "notify" /\ queue'.publish = queue.publish
<1>0. {"publish_news", "notify"} \subseteq Operations /\ {"publish_news", "notify"} \cap (TextWork \cup BotWork) = {}
  BY DEF Operations, CardWork, PostWork, TextWork, BotWork
<1>1. queue \in [publish : Seq(0..PublishRetries), notify : Nat]
  BY DEF DeskType
<1>2. CASE PublishTask(s)
  <2>1. queue.publish # <<>> /\ UNCHANGED <<row, versions, post, cards, was>>
    BY <1>2 DEF PublishTask
  <2>2. CASE \E t \in Sessions : desk[t].op = "publish_news"
    BY <1>2, <2>1, <2>2 DEF PublishTask
  <2>3. CASE ~\E t \in Sessions : desk[t].op = "publish_news"
    <3>1. Begins(s, "publish_news", Head(queue.publish), 0)
      BY <1>2, <2>3 DEF PublishTask
    <3>2. Head(queue.publish) \in 0..PublishRetries
      BY <2>1, Stores, QueueWhat
    <3> QED
      BY <1>0, <2>1, <3>1, <3>2, BeginsStarts
  <2> QED
    BY <2>2, <2>3
<1>3. CASE NotifyTask(s)
  <2>1. Begins(s, "notify", NoText, 0) /\ UNCHANGED <<row, versions, post, cards, was>> /\ queue' = [queue EXCEPT !.notify = @ - 1]
    BY <1>3 DEF NotifyTask
  <2>2. queue'.publish = queue.publish
    BY <1>1, <2>1
  <2> QED
    BY <1>0, <2>1, <2>2, BeginsStarts
<1> QED
  BY <1>2, <1>3

\* A step of a handler is a step of the operation it is at, or its last one.
LEMMA StepKeeps ==
  ASSUME DeskType, Numbered, NEW s \in Sessions, Step(s)
  PROVE  /\ Moves(s) /\ SessionOK(desk'[s]) /\ desk[s].op \in Operations
         /\ desk'[s] = Nobody \/ desk'[s].op = desk[s].op
         /\ excused \subseteq excused'
<1>0. SessionOK(desk[s]) /\ row \in Row /\ SessionOK(Nobody)
  BY NobodySits DEF DeskType
<1>1. At(desk[s]) # "nowhere" => desk[s].op \in Operations
  BY <1>0, Working
<1>2. CASE ReadRow(s)
  BY <1>1, <1>2, Reads DEF Turn, ReadRow
<1>3. CASE Snapshot(s)
  <2>1. PICK k \in {0} \cup Numbers : \A n \in Numbers : n <= k
    BY DEF Numbered
  <2>2. NextNumber \in Nat \ {0}
    BY <2>1, NextIsNumber DEF DeskType
  <2> QED
    BY <1>1, <1>3, <2>2, Snaps DEF Turn, Snapshot
<1>4. CASE Takedown(s)
  <2>1. excused \subseteq excused'
    BY <1>4 DEF Takedown
  <2> QED
    BY <1>1, <1>4, <2>1, TakesDown DEF Turn
<1>5. CASE Write(s)
  BY <1>1, <1>5, Writes DEF Turn, Write
<1>6. CASE EditPost(s)
  <2>1. Takes(s, "post") /\ Goes(s, Rest(desk[s])) /\ excused \subseteq excused'
    BY <1>6 DEF EditPost
  <2> QED
    BY <1>1, <2>1, Shows DEF Turn
<1>7. CASE UpdateCard(s)
  <2>1. Takes(s, "card") /\ Goes(s, Rest(desk[s])) /\ excused \subseteq excused'
    BY <1>7 DEF UpdateCard
  <2> QED
    BY <1>1, <2>1, Shows DEF Turn
<1>8. CASE Commit(s)
  <2>1. excused \subseteq excused'
    BY <1>8, Commits
  <2> QED
    BY <1>1, <1>8, <2>1, Commits DEF Turn
<1>9. CASE RequestFails(s) \/ RewriteFails(s) \/ RefusesPost(s)
  <2>1. Goes(s, Nobody) /\ excused \subseteq excused' /\ desk[s].steps # <<>>
    BY <1>9 DEF RequestFails, RewriteFails, RefusesPost, Takes
  <2>2. desk[s].op # "none" /\ desk[s].op \in Operations
    BY <1>0, <2>1, Working
  <2> QED
    BY <2>1, <2>2, Leaves
<1>10. CASE Take(s)
  BY <1>1, <1>10, TakesIt DEF Turn, Take
<1>11. CASE Fresh(s)
  BY <1>1, <1>11, Refreshes DEF Turn, Fresh
<1>12. CASE Mark(s)
  <2>1. excused \subseteq excused'
    BY <1>12 DEF Mark
  <2> QED
    BY <1>1, <1>12, <2>1, Marks
<1>13. CASE BeginPublication(s)
  BY <1>1, <1>13, BeginsToPublish DEF Turn, BeginPublication
<1>14. CASE Show(s)
  BY <1>1, <1>14, ShowsPost DEF Turn, Show
<1>15. CASE SendCard(s)
  BY <1>1, <1>15, SendsCard DEF Turn, SendCard
<1>16. CASE KeepCard(s)
  <2>1. Goes(s, Nobody) /\ excused' = excused /\ desk[s].steps # <<>>
    BY <1>16 DEF KeepCard, Takes
  <2>2. desk[s].op # "none" /\ desk[s].op \in Operations
    BY <1>0, <2>1, Working
  <2> QED
    BY <2>1, <2>2, Leaves
<1> QED
  BY <1>2, <1>3, <1>4, <1>5, <1>6, <1>7, <1>8, <1>9, <1>10, <1>11, <1>12, <1>13, <1>14, <1>15, <1>16 DEF Step

-------------------------------------------------------------------------------
(* No text is lost. *)

\* A step that writes neither text nor version.
LEMMA TextStays ==
  ASSUME DeskType, TextInv, NEW s \in Sessions, Moves(s), UNCHANGED <<versions, was>>,
         row'.text = row.text, row'.exists => row.exists, excused \subseteq excused',
         desk'[s].op \in TextWork =>
            /\ desk[s].op \in TextWork \/ ("text" \notin excused' => \A t \in Sessions : desk[t].op \notin TextWork)
            /\ At(desk'[s]) # "read" =>
                 /\ desk'[s].view.text \in was
                 /\ "text" \notin excused /\ row.exists => desk'[s].view.text = row.text
            /\ At(desk'[s]) \notin {"read", "snapshot"} /\ "text" \notin excused /\ row.exists =>
                  desk'[s].snap = <<[number |-> Len(versions) + 1, text |-> row.text]>>
  PROVE  TextInv'
<1>1. \A t \in Sessions : t # s => desk'[t] = desk[t]
  BY Moved DEF DeskType
<1>2. row'.text \in was' /\ Kept' = Kept /\ Kept \subseteq was'
  BY DEF TextInv, Kept
<1>3. \A t \in Sessions : desk'[t].op \in TextWork /\ At(desk'[t]) # "read" => desk'[t].view.text \in was'
  BY <1>1 DEF TextInv
<1>4. ASSUME "text" \notin excused', NEW t \in Sessions, NEW u \in Sessions, desk'[t].op \in TextWork, desk'[u].op \in TextWork
      PROVE  t = u
  <2>1. "text" \notin excused
    BY <1>4
  <2>2. \A t1, u1 \in Sessions : desk[t1].op \in TextWork /\ desk[u1].op \in TextWork => t1 = u1
    BY <2>1 DEF TextInv
  <2> QED
    BY <1>1, <1>4, <2>2
<1>5. ASSUME "text" \notin excused', row'.exists, NEW t \in Sessions, desk'[t].op \in TextWork
      PROVE  /\ At(desk'[t]) # "read" => desk'[t].view.text = row'.text
             /\ At(desk'[t]) \notin {"read", "snapshot"} =>
                   desk'[t].snap = <<[number |-> Len(versions') + 1, text |-> row'.text]>>
  <2>1. "text" \notin excused /\ row.exists
    BY <1>5
  <2>2. CASE t = s
    BY <1>5, <2>1, <2>2 DEF UpToDate
  <2>3. CASE t # s
    <3>1. desk'[t] = desk[t] /\ UpToDate(desk[t])
      BY <1>1, <1>5, <2>1, <2>3 DEF TextInv
    <3> QED
      BY <3>1 DEF UpToDate
  <2> QED
    BY <2>2, <2>3
<1>6. ASSUME "text" \notin excused', row'.exists
      PROVE  was' \subseteq (Kept \cup {row.text})' /\ \A n \in 1..Len(versions') : versions'[n].number = n
  BY <1>2, <1>6 DEF TextInv
<1>7. ASSUME "text" \notin excused', row'.exists, NEW t \in Sessions, desk'[t].op \in TextWork
      PROVE  UpToDate(desk[t])'
  BY <1>5, <1>7 DEF UpToDate, At
<1> QED
  BY <1>2, <1>3, <1>4, <1>6, <1>7 DEF TextInv

\* The item is gone, and its versions with it.
LEMMA TextGone ==
  ASSUME DeskType, TextInv, versions' = <<>>, was' = was, row'.text = row.text, ~row'.exists, excused \subseteq excused',
         \A t \in Sessions : desk'[t].op \in TextWork => desk'[t] = desk[t]
  PROVE  TextInv'
<1>1. ToSet(versions') = {}
  BY DEF ToSet
<1>2. Kept' = {} /\ row'.text \in was'
  BY <1>1 DEF Kept, TextInv
<1>3. \A t \in Sessions : desk'[t].op \in TextWork /\ At(desk'[t]) # "read" => desk'[t].view.text \in was'
  BY DEF TextInv
<1>4. ASSUME "text" \notin excused', NEW t \in Sessions, NEW u \in Sessions, desk'[t].op \in TextWork, desk'[u].op \in TextWork
      PROVE  t = u
  <2>1. "text" \notin excused /\ desk'[t] = desk[t] /\ desk'[u] = desk[u]
    BY <1>4
  <2>2. \A t1, u1 \in Sessions : desk[t1].op \in TextWork /\ desk[u1].op \in TextWork => t1 = u1
    BY <2>1 DEF TextInv
  <2> QED
    BY <1>4, <2>1, <2>2
<1> QED
  BY <1>2, <1>3, <1>4 DEF TextInv

LEMMA CommitWhat ==
  ASSUME DeskType, NEW s \in Sessions, Commit(s)
  PROVE  /\ row'.exists => row.exists
         /\ desk[s].op \notin TextWork \/ ~row.exists => row'.text = row.text
         /\ ~row.exists /\ desk[s].op \notin Deletions => row' = row
         /\ row.exists \/ desk[s].op \in Deletions => row' = Merge(desk[s])
         /\ desk[s].op \in TextWork /\ row.exists => row'.exists
         /\ was' = was \cup {row'.text} \/ was' = was
<1> DEFINE r == desk[s]
<1>1. /\ At(r) = "commit" /\ SessionOK(r) /\ r.view.exists /\ row \in Row
      /\ r.view.exists \in BOOLEAN
  <2>1. At(r) = "commit" /\ SessionOK(r) /\ r.view.exists /\ row \in Row
    BY Commits DEF DeskType
  <2> QED
    BY <2>1, RowFields DEF SessionOK
<1>2. /\ ~row.exists /\ r.op \notin Deletions => row' = row /\ was' = was
      /\ row.exists \/ r.op \in Deletions => row' = Merge(r) /\ was' = was \cup {row'.text}
  BY Commits
<1>3. At(r) # "fresh" /\ (r.op # "publish_news" => Written(r)) /\ TextWork \cap Deletions = {}
  BY <1>1 DEF Written, TextWork, Deletions
<1>4. /\ Merge(r).exists = (IF Own(r).exists # r.view.exists THEN Own(r).exists ELSE row.exists)
      /\ Merge(r).text = (IF Own(r).text # r.view.text THEN Own(r).text ELSE row.text)
  BY <1>1, <1>3, MergeWhat
<1>5. /\ Own(r) \in Row
      /\ Own(r).text = IF r.op \in TextWork /\ Written(r) THEN r.value ELSE r.view.text
      /\ Own(r).exists <=> r.view.exists /\ ~(r.op \in Deletions /\ Written(r))
  BY <1>1, <1>3, OwnIs
<1>6. Own(r).exists \in BOOLEAN
  BY <1>5, RowFields
<1>7. r.op \in Deletions => ~Own(r).exists /\ ~Merge(r).exists
  BY <1>1, <1>3, <1>4, <1>5, <1>6 DEF Deletions
<1>8. r.op \notin Deletions => Own(r).exists = r.view.exists /\ Merge(r).exists = row.exists
  BY <1>1, <1>4, <1>5, <1>6
<1>9. r.op \notin TextWork => Merge(r).text = row.text
  BY <1>4, <1>5
<1> QED
  BY <1>2, <1>3, <1>7, <1>8, <1>9

LEMMA CommitText ==
  ASSUME DeskType, TextInv, NEW s \in Sessions, Commit(s)
  PROVE  TextInv'
<1> DEFINE r == desk[s]
<1>1. /\ At(r) = "commit" /\ SessionOK(r) /\ row \in Row /\ versions \in Seq(Version) /\ r.op \in Operations
      /\ Moves(s) /\ r.op \in Doing("commit")
  BY Commits DEF DeskType, Doing
<1>2. \A t \in Sessions : t # s => desk'[t] = desk[t]
  BY <1>1, Moved DEF DeskType
<1>3. desk'[s].op \notin TextWork
  <2>1. CASE r.op \in TextWork
    <3>1. Follows(r.op, "commit") = "nowhere"
      BY <2>1 DEF Follows, BotWork, TextWork
    <3>2. desk'[s] = Nobody
      BY <3>1, Commits
    <3> QED
      BY <3>2, Fields DEF TextWork
  <2>2. CASE r.op \notin TextWork
    <3>1. desk'[s] = Nobody \/ desk'[s].op = r.op
      BY Commits DEF Turn
    <3> QED
      BY <2>2, <3>1, Fields DEF TextWork
  <2> QED
    BY <2>1, <2>2
<1>4. excused \subseteq excused'
  BY Commits
<1>5. row.text \in was /\ Kept \subseteq was
  BY DEF TextInv
<1>6. /\ row'.exists => row.exists
      /\ r.op \notin TextWork \/ ~row.exists => row'.text = row.text
      /\ was' = was \cup {row'.text} \/ was' = was
      /\ r.op \in TextWork /\ row.exists => row'.exists
  BY CommitWhat
<1>7. CASE r.op \notin TextWork \/ ~row.exists
  <2>1. was' = was /\ row'.text = row.text
    BY <1>5, <1>6, <1>7
  <2>2. versions' = versions \/ (versions' = <<>> /\ ~row'.exists)
    <3>1. versions' = versions \/ versions' = IF row'.exists THEN versions \o r.snap ELSE <<>>
      BY Commits
    <3>2. r.op \notin TextWork => r.snap = <<>>
      BY <1>1, SnapWhat
    <3>3. r.op \notin TextWork => versions \o r.snap = versions
      BY <1>1, <3>2
    <3> QED
      BY <1>6, <1>7, <3>1, <3>3
  <2>3. CASE versions' = versions
    BY <1>1, <1>3, <1>4, <1>6, <2>1, <2>3, TextStays
  <2>4. CASE versions' = <<>> /\ ~row'.exists
    <3>1. \A t \in Sessions : desk'[t].op \in TextWork => desk'[t] = desk[t]
      BY <1>2, <1>3
    <3> QED
      BY <1>4, <2>1, <2>4, <3>1, TextGone
  <2> QED
    BY <2>2, <2>3, <2>4
<1>8. CASE r.op \in TextWork /\ row.exists
  <2>1. r.op \notin Deletions
    BY <1>8 DEF TextWork, Deletions
  <2>2. row'.exists /\ was' = was \cup {row'.text} /\ versions' = versions \o r.snap
    BY <1>6, <1>8, Commits
  <2>3. r.snap \in Seq(Version) /\ r.snap[1] \in Version /\ r.snap = <<r.snap[1]>> /\ r.snap[1].text = r.view.text
    BY <1>1, <1>8, SnapWhat
  <2>4. r.view.text \in was
    BY <1>1, <1>8 DEF TextInv
  <2>5. Len(r.snap) = 1 /\ ToSet(r.snap) = {r.snap[1]}
    <3>1. \A x : Len(<<x>>) = 1 /\ ToSet(<<x>>) = {x}
      BY DEF ToSet
    <3> QED
      BY <2>3, <3>1
  <2>6. /\ Len(versions') = Len(versions) + 1 /\ ToSet(versions') = ToSet(versions) \cup {r.snap[1]}
        /\ \A i \in 1..Len(versions) : versions'[i] = versions[i]
        /\ versions'[Len(versions) + 1] = r.snap[1]
    <3>1. versions'[Len(versions) + 1] = r.snap[1]
      BY <1>1, <2>2, <2>3, <2>5
    <3> QED
      BY <1>1, <2>2, <2>3, <2>5, <3>1, Grows
  <2>7. Kept' = Kept \cup {r.view.text}
    BY <2>3, <2>6 DEF Kept
  <2>8. row'.text \in was' /\ Kept' \subseteq was'
    BY <1>5, <2>2, <2>4, <2>7
  <2>9. \A t \in Sessions : desk'[t].op \in TextWork /\ At(desk'[t]) # "read" => desk'[t].view.text \in was'
    BY <1>2, <1>3, <2>2 DEF TextInv
  <2>10. ASSUME "text" \notin excused'
         PROVE  /\ \A t \in Sessions : desk'[t].op \notin TextWork
                /\ was' \subseteq Kept' \cup {row'.text}
                /\ \A n \in 1..Len(versions') : versions'[n].number = n
    <3>1. "text" \notin excused
      BY <1>4, <2>10
    <3>2. /\ \A t, u \in Sessions : desk[t].op \in TextWork /\ desk[u].op \in TextWork => t = u
          /\ was \subseteq Kept \cup {row.text}
          /\ \A n \in 1..Len(versions) : versions[n].number = n
          /\ UpToDate(r)
      BY <1>8, <3>1 DEF TextInv
    <3>3. r.view.text = row.text /\ r.snap = <<[number |-> Len(versions) + 1, text |-> row.text]>>
      BY <1>1, <3>2 DEF UpToDate
    <3>4. r.snap[1].number = Len(versions) + 1
      BY <3>3
    <3>5. \A t \in Sessions : desk'[t].op \notin TextWork
      BY <1>2, <1>3, <1>8, <3>2
    <3>6. \A n \in 1..Len(versions') : versions'[n].number = n
      <4>1. Len(versions) \in Nat
        BY <1>1
      <4>2. \A n \in 1..Len(versions') : n \in 1..Len(versions) \/ n = Len(versions) + 1
        BY <2>6, <4>1
      <4> QED
        BY <2>6, <3>2, <3>4, <4>2
    <3>7. was' \subseteq Kept' \cup {row'.text}
      BY <2>2, <2>7, <3>2, <3>3
    <3> QED
      BY <3>5, <3>6, <3>7
  <2> QED
    BY <2>8, <2>9, <2>10 DEF TextInv
<1> QED
  BY <1>7, <1>8

\* A handler that begins a change of the text has not read it yet.
LEMMA StartsText ==
  ASSUME DeskType, TextInv, NEW s \in Sessions, Starts(s)
  PROVE  TextInv'
<1>1. /\ Moves(s) /\ excused \subseteq excused' /\ UNCHANGED <<row, versions, was>>
      /\ At(desk'[s]) = First(desk'[s].op)
  BY DEF Starts
<1>2. desk'[s].op \in TextWork => At(desk'[s]) = "read"
  BY <1>1 DEF First, TextWork
<1>3. desk'[s].op \in TextWork /\ "text" \notin excused' => \A t \in Sessions : desk[t].op \notin TextWork
  BY SpoilsWhat DEF Starts
<1> QED
  BY <1>1, <1>2, <1>3, TextStays

LEMMA NumbersInOrder ==
  ASSUME versions \in Seq(Version), \A n \in 1..Len(versions) : versions[n].number = n
  PROVE  NextNumber = Len(versions) + 1
<1> DEFINE k == Len(versions)
<1>1. k \in Nat
  OBVIOUS
<1>2. \A n \in Numbers : n \in 1..k
  BY NumbersWhat
<1>3. k \in {0} \cup Numbers
  <2>1. CASE k = 0
    BY <2>1
  <2>2. CASE k # 0
    <3>1. k \in 1..Len(versions)
      BY <1>1, <2>2
    <3> QED
      BY <3>1, NumbersWhat
  <2> QED
    BY <2>1, <2>2
<1>4. \A n \in Numbers : n <= k
  BY <1>1, <1>2
<1> HIDE DEF k
<1>5. NextNumber = k + 1
  BY <1>3, <1>4, NextIsNumber
<1> QED
  BY <1>5 DEF k

LEMMA StepText ==
  ASSUME DeskType, Numbered, TextInv, NEW s \in Sessions, Step(s)
  PROVE  TextInv'
<1> DEFINE r == desk[s]
<1>0. /\ Moves(s) /\ SessionOK(desk'[s]) /\ r.op \in Operations /\ (desk'[s] = Nobody \/ desk'[s].op = r.op)
      /\ excused \subseteq excused'
  BY StepKeeps
<1>1. /\ row.text \in was /\ SessionOK(r) /\ row \in Row
      /\ r.op \in TextWork /\ At(r) # "read" => r.view.text \in was
      /\ r.op \in TextWork /\ "text" \notin excused /\ row.exists => UpToDate(r)
      /\ "text" \notin excused /\ row.exists => \A n \in 1..Len(versions) : versions[n].number = n
  BY DEF TextInv, DeskType
<1>2. "none" \notin TextWork /\ Nobody.op \notin TextWork
  BY Fields DEF TextWork
<1>3. CASE Commit(s)
  BY <1>3, CommitText
<1>4. CASE r.op \notin TextWork /\ ~Commit(s)
  <2>1. desk'[s].op \notin TextWork
    BY <1>0, <1>2, <1>4
  <2>2. UNCHANGED <<versions, was>> /\ row'.text = row.text /\ (row'.exists => row.exists)
    <3>1. CASE Take(s)
      BY <1>1, <3>1 DEF Take, Row
    <3>2. CASE KeepCard(s)
      BY <1>1, <3>2 DEF KeepCard, Row
    <3>3. CASE ~Take(s) /\ ~KeepCard(s)
      BY <1>4, <3>3 DEF Step, ReadRow, Snapshot, Takedown, Write, EditPost, UpdateCard, RequestFails, RewriteFails,
                        Fresh, Mark, BeginPublication, Show, RefusesPost, SendCard
    <3> QED
      BY <3>1, <3>2, <3>3
  <2> QED
    BY <1>0, <2>1, <2>2, TextStays
<1>5. CASE r.op \in TextWork /\ ~Commit(s)
  <2>1. r.op \notin BotWork \cup {"publish_news", "notify"} \cup Takedowns
    BY <1>5 DEF TextWork, BotWork, Takedowns, Deletions
  <2>2. CASE ReadRow(s)
    <3>1. UNCHANGED <<row, versions, was>>
      BY <2>2 DEF ReadRow
    <3>2. desk'[s] = Nobody \/ (At(desk'[s]) = "snapshot" /\ desk'[s].view = row)
      <4>1. Follows(r.op, "read") = "snapshot"
        BY <1>5 DEF Follows
      <4>2. \/ desk'[s] = Nobody
            \/ desk[s].op \in {"bot_delete", "bot_purge"}
            \/ Turn(desk[s], desk'[s], Follows(desk[s].op, "read")) /\ desk'[s].view = row
        BY <2>2, Reads
      <4>3. desk[s].op \notin {"bot_delete", "bot_purge"}
        BY <2>1 DEF BotWork
      <4> QED
        BY <4>1, <4>2, <4>3 DEF Turn
    <3> QED
      BY <1>0, <1>1, <1>2, <1>5, <3>1, <3>2, TextStays
  <2>3. CASE Snapshot(s)
    <3>1. UNCHANGED <<row, versions, was>> /\ versions \in Seq(Version)
      BY <2>3 DEF Snapshot, DeskType
    <3>2. PICK k \in {0} \cup Numbers : \A n \in Numbers : n <= k
      BY DEF Numbered
    <3>3. NextNumber \in Nat \ {0}
      BY <3>1, <3>2, NextIsNumber
    <3>4. /\ At(r) = "snapshot" /\ desk'[s].view = r.view /\ At(desk'[s]) = "write"
          /\ desk'[s].snap = <<[number |-> NextNumber, text |-> r.view.text]>>
      BY <2>3, <3>3, Snaps DEF Turn
    <3>5. "text" \notin excused /\ row.exists => NextNumber = Len(versions) + 1 /\ r.view.text = row.text
      BY <1>1, <1>5, <3>1, <3>4, NumbersInOrder DEF UpToDate
    <3> QED
      BY <1>0, <1>1, <1>5, <3>1, <3>4, <3>5, TextStays
  <2>4. CASE Write(s) \/ EditPost(s) \/ UpdateCard(s)
    <3>1. UNCHANGED <<row, versions, was>>
      BY <2>4 DEF Write, EditPost, UpdateCard
    <3>2. At(r) \in {"write", "post", "card"} /\ (desk'[s] = Nobody \/ (desk'[s].view = r.view /\ desk'[s].snap = r.snap))
      <4>1. CASE Write(s)
        BY <4>1, Writes
      <4>2. CASE EditPost(s)
        <5>1. Takes(s, "post") /\ Goes(s, Rest(desk[s]))
          BY <4>2 DEF EditPost
        <5> QED
          BY <2>1, <5>1, Shows
      <4>3. CASE UpdateCard(s)
        <5>1. Takes(s, "card") /\ Goes(s, Rest(desk[s]))
          BY <4>3 DEF UpdateCard
        <5> QED
          BY <2>1, <5>1, Shows
      <4> QED
        BY <2>4, <4>1, <4>2, <4>3
    <3>3. desk'[s].op \in TextWork => desk'[s].view = r.view /\ desk'[s].snap = r.snap
      BY <1>2, <3>2
    <3>4. r.view.text \in was
      BY <1>1, <1>5, <3>2
    <3>5. "text" \notin excused /\ row.exists =>
             r.view.text = row.text /\ r.snap = <<[number |-> Len(versions) + 1, text |-> row.text]>>
      BY <1>1, <1>5, <3>2 DEF UpToDate
    <3> QED
      BY <1>0, <1>5, <3>1, <3>3, <3>4, <3>5, TextStays
  <2>5. CASE RequestFails(s) \/ RewriteFails(s) \/ RefusesPost(s)
    <3>1. UNCHANGED <<row, versions, was>> /\ Goes(s, Nobody)
      BY <2>5 DEF RequestFails, RewriteFails, RefusesPost
    <3>2. desk'[s] = Nobody
      BY <3>1, Leaves
    <3> QED
      BY <1>0, <1>2, <3>1, <3>2, TextStays
  <2>6. ~Takedown(s) /\ ~Take(s) /\ ~Fresh(s) /\ ~Mark(s) /\ ~BeginPublication(s) /\ ~Show(s) /\ ~SendCard(s) /\ ~KeepCard(s)
    <3>1. ~Takedown(s)
      BY <2>1, TakesDown
    <3>2. ~Take(s)
      BY <2>1, TakesIt DEF BotWork
    <3>3. ~Fresh(s) /\ ~Mark(s)
      BY <2>1, Refreshes, Marks
    <3>4. ~BeginPublication(s) /\ ~Show(s) /\ ~SendCard(s)
      BY <2>1, BeginsToPublish, ShowsPost, SendsCard
    <3>5. ~KeepCard(s)
      <4>1. KeepCard(s) => Takes(s, "keep") /\ "keep" \in Steps
        BY DEF KeepCard, Steps
      <4>2. KeepCard(s) => r.op \in Doing("keep")
        BY <4>1, Takings
      <4> QED
        BY <2>1, <4>2 DEF Doing
    <3> QED
      BY <3>1, <3>2, <3>3, <3>4, <3>5
  <2> QED
    BY <1>5, <2>2, <2>3, <2>4, <2>5, <2>6 DEF Step
<1> QED
  BY <1>3, <1>4, <1>5

LEMMA TextStep ==
  ASSUME DeskType, Numbered, TextInv, [Next]_deskVars
  PROVE  TextInv'
<1>1. CASE UNCHANGED <<row, versions, desk, was, excused>>
  BY <1>1 DEF TextInv, Kept, UpToDate
<1>2. CASE BulkDelete
  <2>1. versions' = <<>> /\ row' = [row EXCEPT !.exists = FALSE] /\ desk' = desk /\ was' = was /\ excused \subseteq excused'
    BY <1>2 DEF BulkDelete
  <2>2. row'.text = row.text /\ ~row'.exists
    BY <2>1 DEF DeskType, Row
  <2> QED
    BY <2>1, <2>2, TextGone
<1>3. CASE SendToModeration \/ BeatEnqueues \/ UNCHANGED deskVars
  BY <1>1, <1>3 DEF SendToModeration, BeatEnqueues, deskVars
<1>4. ASSUME NEW s \in Sessions, Asked(s) PROVE TextInv'
  BY <1>4, AskedStarts, StartsText
<1>5. ASSUME NEW s \in Sessions, PublishTask(s) \/ NotifyTask(s) PROVE TextInv'
  BY <1>1, <1>5, TasksStart, StartsText
<1>6. ASSUME NEW s \in Sessions, NEW k \in 1..Len(cards), NEW button \in cards[k].offers, Press(s, k, button) PROVE TextInv'
  BY <1>6, PressStarts, StartsText
<1>7. ASSUME NEW s \in Sessions, Step(s) PROVE TextInv'
  BY <1>7, StepText
<1> QED
  BY <1>2, <1>3, <1>4, <1>5, <1>6, <1>7 DEF Next

LEMMA InitText ==
  Init => TextInv
<1> SUFFICES ASSUME Init PROVE TextInv
  OBVIOUS
<1>1. PICK q \in Ready : row = q.row /\ versions = <<>> /\ desk = [s \in Sessions |-> Nobody] /\ was = {q.row.text}
  BY DEF Init
<1>2. ToSet(versions) = {} /\ Len(versions) = 0
  BY <1>1 DEF ToSet
<1>3. \A s \in Sessions : desk[s].op \notin TextWork
  BY <1>1, Fields DEF TextWork
<1> QED
  BY <1>1, <1>2, <1>3 DEF TextInv, Kept

\* What a version holds the row has held; and unless two changes of the text overlapped, every
\* text the row has had is in the row or in a version, and the versions are numbered in turn:
\* what is edited, restored, rewritten or left half-way can be undone
\* (NewsDesk.VersionsKeepAll; VersionService.snapshot, restore).
THEOREM NothingOverwritten ==
  Spec => []VersionsKeepAll
<1>1. Init => TextInv
  BY InitText
<1>2. (DeskType /\ Numbered) /\ TextInv /\ [Next]_deskVars => TextInv'
  BY TextStep
<1>3. TextInv => VersionsKeepAll
  BY DEF TextInv, VersionsKeepAll, Kept
<1> QED
  BY <1>1, <1>2, <1>3, DeskIsTyped, PTL DEF Spec

-------------------------------------------------------------------------------
(* The channel shows what the row says. *)

LEMMA SeesPostStays ==
  ASSUME NEW r, NEW w \in Row, NEW x \in Row, NEW p, SeesPost(r, w, p), x.exists = w.exists, x.up = w.up,
         x.text # w.text => ~w.up /\ (r.op = "publish_news" => At(r) \notin {"show", "commit"}),
         r.op \in PostWork, r.op = "publish_news" => At(r) \in {"begin", "show", "commit", "card"}
  PROVE  SeesPost(r, x, p) /\ Wanted(x) = Wanted(w)
<1>1. w.up \in BOOLEAN /\ x.up \in BOOLEAN /\ w.exists \in BOOLEAN /\ x.exists \in BOOLEAN
  BY RowFields
<1>2. Wanted(x) = Wanted(w)
  BY <1>1 DEF Wanted
<1>3. CASE PostSettled(r)
  BY <1>2, <1>3 DEF SeesPost
<1>4. CASE ~PostSettled(r)
  <2>1. r.op = "publish_news" => At(r) \in {"show", "commit"}
    BY <1>4 DEF PostSettled
  <2>2. x.text = w.text \/ (~w.up /\ r.op # "publish_news")
    BY <2>1
  <2>3. /\ w.exists /\ r.view.up = w.up /\ (w.up \/ r.op = "publish_news" => r.view.text = w.text)
        /\ p = IF r.op = "edit" THEN IF w.up THEN IF At(r) \in {"card", "commit"} THEN r.value ELSE w.text ELSE NoText
               ELSE IF r.op = "publish_news" THEN IF At(r) = "commit" \/ w.up THEN w.text ELSE NoText
               ELSE IF At(r) = "takedown" THEN Wanted(w) ELSE NoText
    BY <1>4 DEF SeesPost
  <2>4. CASE x.text = w.text
    BY <1>2, <1>4, <2>3, <2>4 DEF SeesPost
  <2>5. CASE ~w.up /\ r.op # "publish_news"
    BY <1>2, <1>4, <2>3, <2>5 DEF SeesPost
  <2> QED
    BY <2>2, <2>4, <2>5
<1> QED
  BY <1>2, <1>3, <1>4

\* Where the publication is.
LEMMA Publishing ==
  ASSUME NEW r, SessionOK(r), r.op = "publish_news"
  PROVE  At(r) \in {"begin", "show", "commit", "card"}
<1>1. r.steps \in {<<"begin", "show", "commit", "card">>, <<"show", "commit", "card">>, <<"commit", "card">>, <<"card">>}
  BY DEF SessionOK, Plans, TextWork
<1> QED
  BY <1>1, Tuples DEF At

\* What the steps of the other operations do to the row.
LEMMA PostOfOthers ==
  ASSUME DeskType, Numbered, NEW s \in Sessions, Step(s), desk[s].op \notin PostWork
  PROVE  /\ post' = post /\ row' \in Row /\ row'.exists = row.exists /\ row'.up = row.up
         /\ row'.text # row.text =>
               /\ row.up => "post" \in excused'
               /\ \A t \in Sessions : desk[t].op = "publish_news" => At(desk[t]) \notin {"show", "commit"}
<1> DEFINE r == desk[s]
<1>1. row \in Row /\ SessionOK(r) /\ r.view \in Row
  BY DEF DeskType, SessionOK
<1>2. r.op \notin Takedowns \cup Deletions \cup {"edit", "publish_news"}
  BY DEF PostWork, Takedowns, Deletions
<1>3. ~Takedown(s) /\ ~EditPost(s) /\ ~Show(s)
  <2>1. ~Takedown(s)
    BY <1>2, TakesDown
  <2>2. ~EditPost(s)
    <3>1. EditPost(s) => Takes(s, "post") /\ "post" \in Steps
      BY DEF EditPost, Steps
    <3>2. EditPost(s) => r.op \in Doing("post")
      BY <3>1, Takings
    <3> QED
      BY <1>2, <3>2 DEF Doing
  <2>3. ~Show(s)
    BY <1>2, ShowsPost
  <2> QED
    BY <2>1, <2>2, <2>3
<1>4. post' = post
  BY <1>3 DEF Step, ReadRow, Snapshot, Write, UpdateCard, Commit, RequestFails, RewriteFails, Take, Fresh, Mark,
              BeginPublication, RefusesPost, SendCard, KeepCard
<1>5. CASE ~Commit(s) /\ ~Take(s) /\ ~KeepCard(s)
  <2>1. row' = row
    BY <1>3, <1>5 DEF Step, ReadRow, Snapshot, Write, UpdateCard, RequestFails, RewriteFails, Fresh, Mark,
              BeginPublication, RefusesPost, SendCard
  <2> QED
    BY <1>1, <1>4, <2>1
<1>6. CASE Take(s)
  <2>1. row' = row \/ row' = [row EXCEPT !.status = desk[s].value, !.approved = desk[s].value = "scheduled"]
    BY <1>6, TakesIt
  <2>2. desk[s].value \in Statuses /\ (desk[s].value = "scheduled") \in BOOLEAN
    BY <1>6, TakesIt DEF Statuses
  <2>3. row' \in Row /\ row'.exists = row.exists /\ row'.up = row.up /\ row'.text = row.text
    BY <1>1, <2>1, <2>2 DEF Row
  <2> QED
    BY <1>4, <2>3
<1>7. CASE KeepCard(s)
  <2>1. row' = row \/ row' = [row EXCEPT !.card = desk[s].card]
    BY <1>7 DEF KeepCard
  <2>2. row'.exists = row.exists /\ row'.up = row.up /\ row'.text = row.text
    BY <1>1, <2>1 DEF Row
  <2>3. row' \in Row
    <3>1. DeskType'
      BY <1>7, WriteTyped
    <3> QED
      BY <3>1 DEF DeskType
  <2> QED
    BY <1>4, <2>2, <2>3
<1>8. CASE Commit(s)
  <2>1. At(r) = "commit" /\ r.view.exists /\ At(r) # "fresh"
    BY <1>8, Commits
  <2>2. /\ Own(r).text = IF r.op \in TextWork /\ Written(r) THEN r.value ELSE r.view.text
        /\ Own(r).up <=> IsUp(r) \/ (r.view.up /\ ~TookDown(r))
        /\ Own(r).exists <=> r.view.exists /\ ~(r.op \in Deletions /\ Written(r))
        /\ Own(r) \in Row
        /\ "text" \in Changed(r) <=> Own(r).text # r.view.text
    <3>1. "text" \in Columns
      BY DEF Columns
    <3> QED
      BY <1>1, <2>1, <3>1, OwnIs
  <2>3. Own(r).up = r.view.up /\ Own(r).exists = r.view.exists
    <3>1. Own(r).up \in BOOLEAN /\ r.view.up \in BOOLEAN /\ Own(r).exists \in BOOLEAN /\ r.view.exists \in BOOLEAN
      BY <1>1, <2>2, RowFields
    <3> QED
      BY <1>2, <2>2, <3>1 DEF IsUp, TookDown
  <2>4. /\ Merge(r) \in Row /\ Merge(r).exists = row.exists /\ Merge(r).up = row.up
        /\ Merge(r).text = (IF Own(r).text # r.view.text THEN Own(r).text ELSE row.text)
    BY <1>1, <2>1, <2>3, MergeWhat
  <2>5. /\ ~row.exists => row' = row
        /\ row.exists => row' = Merge(r)
    BY <1>2, <1>8, CommitWhat
  <2>6. row' \in Row /\ row'.exists = row.exists /\ row'.up = row.up
    BY <1>1, <2>4, <2>5
  <2>7. ASSUME row'.text # row.text
        PROVE  /\ row.up => "post" \in excused'
               /\ \A t \in Sessions : desk[t].op = "publish_news" => At(desk[t]) \notin {"show", "commit"}
    <3>1. row.exists /\ row' = Merge(r)
      BY <2>5, <2>7
    <3>2. "text" \in Changed(r) /\ r.op \in {"restore", "regenerate"}
      BY <1>2, <2>2, <2>4, <2>7, <3>1 DEF TextWork
    <3>3. row.up => "post" \in excused'
      BY <1>8, <3>1, <3>2, Commits
    <3>4. Written(r) /\ Changed(r) # {}
      BY <1>2, <2>1, <3>2 DEF Written
    <3>5. r.locked
      BY <1>1, <3>4 DEF SessionOK
    <3>6. \A t \in Sessions : desk[t].locked => t = s
      BY <3>5 DEF DeskType, Held
    <3>7. \A t \in Sessions : desk[t].op = "publish_news" /\ At(desk[t]) \in {"show", "commit"} => desk[t].locked
      BY DEF DeskType, SessionOK
    <3> QED
      BY <1>2, <3>3, <3>6, <3>7
  <2> QED
    BY <1>4, <2>6, <2>7
<1> QED
  BY <1>5, <1>6, <1>7, <1>8

\* The facts about the columns of a handler that is at work on the post.
LEMMA PostOwnRow ==
  ASSUME row \in Row, NEW r, SessionOK(r), r.op \in PostWork, At(r) \in {"post", "commit"}
  PROVE  /\ r.op = "edit" => Own(r).text = r.value /\ Own(r).exists = r.view.exists /\ Own(r).up = r.view.up
         /\ r.op = "publish_news" => Own(r).text = r.view.text /\ Own(r).exists = r.view.exists /\ Own(r).up
         /\ r.op \in {"unpublish", "bot_unpublish"} => Own(r).text = r.view.text /\ Own(r).exists = r.view.exists /\ ~Own(r).up
         /\ r.op \in Deletions /\ r.view.exists => ~Own(r).exists
         /\ Own(r) \in Row
<1>1. /\ Own(r).text = IF r.op \in TextWork /\ Written(r) THEN r.value ELSE r.view.text
      /\ Own(r).up <=> IsUp(r) \/ (r.view.up /\ ~TookDown(r))
      /\ Own(r).exists <=> r.view.exists /\ ~(r.op \in Deletions /\ Written(r))
      /\ Own(r) \in Row
  BY OwnIs
<1>2. Own(r).up \in BOOLEAN /\ r.view.up \in BOOLEAN /\ Own(r).exists \in BOOLEAN /\ r.view.exists \in BOOLEAN
  BY <1>1, RowFields DEF SessionOK
<1>3. r.op # "publish_news" => Written(r)
  BY DEF Written
<1>4. r.op = "publish_news" => At(r) = "commit"
  BY Publishing
<1>5. /\ r.op = "edit" => r.op \in TextWork /\ r.op \notin Deletions \cup Takedowns
      /\ r.op = "publish_news" => r.op \notin TextWork \cup Deletions \cup Takedowns
      /\ r.op \in {"unpublish", "bot_unpublish"} => r.op \notin TextWork \cup Deletions /\ r.op \in Takedowns
      /\ r.op \in Deletions => r.op \notin TextWork
  BY DEF TextWork, Deletions, Takedowns
<1>6. r.op \in {"unpublish", "bot_unpublish"} => At(r) = "commit"
  <2>1. r.op \in {"unpublish", "bot_unpublish"} => r.op \notin Doing("post") /\ r.op \in Operations /\ r.op # "none"
    BY DEF Doing, Operations, CardWork, PostWork
  <2> QED
    BY <2>1, Working
<1> QED
  BY <1>1, <1>2, <1>3, <1>4, <1>5, <1>6 DEF IsUp, TookDown

\* The post is shown, taken down or left.
LEMMA PostShown ==
  ASSUME DeskType, NEW s \in Sessions, desk[s].op \in PostWork, SeesPost(desk[s], row, post), "post" \notin excused',
         Takedown(s) \/ EditPost(s) \/ Show(s)
  PROVE  desk'[s].op \in PostWork /\ SeesPost(desk'[s], row', post')
<1> DEFINE r == desk[s]
<1>1. row \in Row /\ SessionOK(r) /\ row' = row
  BY DEF DeskType, Takedown, EditPost, Show
<1>2. row.up \in BOOLEAN /\ r.view.up \in BOOLEAN /\ row.text \in Texts /\ NoText \notin Texts
  BY <1>1, RowFields, Bounds DEF SessionOK
<1>3. CASE Takedown(s)
  <2>1. /\ At(r) = "takedown" /\ r.op \in Takedowns /\ desk'[s].view = r.view
        /\ desk'[s].op = r.op /\ At(desk'[s]) = Follows(r.op, "takedown")
    BY <1>3, TakesDown DEF Turn
  <2>2. ~PostSettled(r) /\ r.op \notin {"edit", "publish_news"} /\ At(desk'[s]) \in {"card", "write"}
    BY <2>1 DEF PostSettled, Takedowns, Deletions, PostWork, Follows
  <2>3. row.exists /\ r.view.up = row.up /\ post = Wanted(row) /\ (row.up => r.view.text = row.text)
    BY <2>1, <2>2 DEF SeesPost
  <2>4. post' = NoText
    <3>1. CASE r.view.up
      <4>1. post' = NoText \/ excused' = excused \cup {"post"}
        BY <1>3, <3>1 DEF Takedown
      <4> QED
        BY <4>1
    <3>2. CASE ~r.view.up
      <4>1. post' = post
        BY <1>3, <3>2 DEF Takedown
      <4> QED
        BY <2>3, <3>2, <4>1 DEF Wanted
    <3> QED
      BY <3>1, <3>2
  <2>5. ~PostSettled(desk'[s])
    BY <2>1, <2>2 DEF PostSettled
  <2> QED
    BY <1>1, <2>1, <2>2, <2>3, <2>4, <2>5 DEF SeesPost
<1>4. CASE EditPost(s)
  <2>0. Takes(s, "post") /\ Goes(s, Rest(desk[s]))
    BY <1>4 DEF EditPost
  <2>1. /\ At(r) = "post" /\ r.op = "edit" /\ desk'[s].view = r.view
        /\ desk'[s].op = r.op /\ At(desk'[s]) = "card" /\ desk'[s].value = r.value
    BY <2>0, Shows DEF Turn, Doing, Follows
  <2>2. ~PostSettled(r) /\ ~PostSettled(desk'[s])
    BY <2>1 DEF PostSettled
  <2>3. /\ row.exists /\ r.view.up = row.up /\ (row.up => r.view.text = row.text)
        /\ post = IF row.up THEN row.text ELSE NoText
    BY <2>1, <2>2 DEF SeesPost
  <2>4. Own(r).text = r.value
    BY <1>1, <2>1, PostOwnRow
  <2>5. post' = IF row.up THEN r.value ELSE NoText
    <3>1. CASE row.up
      <4>1. post' = (IF post = NoText THEN NoText ELSE EditPostAs(r)) \/ excused' = excused \cup {"post"}
        BY <1>4, <2>3, <3>1 DEF EditPost
      <4> QED
        BY <1>2, <2>3, <2>4, <3>1, <4>1 DEF EditPostAs
    <3>2. CASE ~row.up
      <4>1. post' = post
        BY <1>4, <2>3, <3>2 DEF EditPost
      <4> QED
        BY <2>3, <3>2, <4>1
    <3> QED
      BY <3>1, <3>2
  <2> QED
    BY <1>1, <2>1, <2>2, <2>3, <2>5 DEF SeesPost
<1>5. CASE Show(s)
  <2>1. /\ At(r) = "show" /\ r.op = "publish_news" /\ desk'[s].view = r.view /\ desk'[s].op = r.op /\ At(desk'[s]) = "commit"
    BY <1>5, ShowsPost DEF Turn
  <2>2. ~PostSettled(r) /\ ~PostSettled(desk'[s])
    BY <2>1 DEF PostSettled
  <2>3. row.exists /\ r.view.up = row.up /\ r.view.text = row.text
    BY <2>1, <2>2 DEF SeesPost
  <2>4. post' = row.text
    BY <1>5, <2>3 DEF Show
  <2> QED
    BY <1>1, <2>1, <2>2, <2>3, <2>4 DEF SeesPost
<1> QED
  BY <1>3, <1>4, <1>5

LEMMA PostCommitted ==
  ASSUME DeskType, NEW s \in Sessions, desk[s].op \in PostWork, SeesPost(desk[s], row, post), Commit(s)
  PROVE  /\ post' = post /\ post' = Wanted(row')
         /\ desk'[s] = Nobody \/ (desk'[s].op = desk[s].op /\ PostSettled(desk'[s]))
<1> DEFINE r == desk[s]
<1>1. /\ row \in Row /\ SessionOK(r) /\ At(r) = "commit" /\ r.view.exists /\ post' = post
  BY Commits DEF DeskType, Commit
<1>2. /\ row.up \in BOOLEAN /\ r.view.up \in BOOLEAN /\ row.exists \in BOOLEAN /\ r.view.exists \in BOOLEAN
  BY <1>1, RowFields DEF SessionOK
<1>3. ~PostSettled(r)
  BY <1>1 DEF PostSettled
<1>4. /\ row.exists /\ r.view.up = row.up /\ (row.up \/ r.op = "publish_news" => r.view.text = row.text)
      /\ post = IF r.op = "edit" THEN IF row.up THEN r.value ELSE NoText
                ELSE IF r.op = "publish_news" THEN row.text ELSE NoText
  BY <1>1, <1>3 DEF SeesPost
<1>5. row' = Merge(r)
  BY <1>4, Commits
<1>6. /\ Merge(r) \in Row
      /\ Merge(r).exists = (IF Own(r).exists # r.view.exists THEN Own(r).exists ELSE row.exists)
      /\ Merge(r).text = (IF Own(r).text # r.view.text THEN Own(r).text ELSE row.text)
      /\ Merge(r).up = (IF Own(r).up # r.view.up THEN Own(r).up ELSE row.up)
  BY <1>1, MergeWhat
<1>7. post = Wanted(Merge(r))
  <2>1. CASE r.op = "edit"
    <3>1. Own(r).text = r.value /\ Own(r).exists = r.view.exists /\ Own(r).up = r.view.up
      BY <1>1, <2>1, PostOwnRow
    <3>2. Merge(r).up = row.up /\ Merge(r).exists /\ (row.up => Merge(r).text = r.value)
      BY <1>4, <1>6, <3>1
    <3> QED
      BY <1>4, <2>1, <3>2 DEF Wanted
  <2>2. CASE r.op = "publish_news"
    <3>1. Own(r).text = r.view.text /\ Own(r).exists = r.view.exists /\ Own(r).up
      BY <1>1, <2>2, PostOwnRow
    <3>2. Merge(r).up /\ Merge(r).exists /\ Merge(r).text = row.text
      BY <1>2, <1>4, <1>6, <3>1
    <3> QED
      BY <1>4, <2>2, <3>2 DEF Wanted
  <2>3. CASE r.op \in {"unpublish", "bot_unpublish"}
    <3>1. ~Own(r).up /\ Own(r) \in Row
      BY <1>1, <2>3, PostOwnRow
    <3>2. ~Merge(r).up
      BY <1>2, <1>4, <1>6, <3>1
    <3> QED
      BY <1>4, <2>3, <3>2 DEF Wanted
  <2>4. CASE r.op \in Deletions
    <3>1. ~Own(r).exists
      BY <1>1, <2>4, PostOwnRow
    <3>2. ~Merge(r).exists
      BY <1>1, <1>6, <3>1
    <3> QED
      BY <1>4, <2>4, <3>2 DEF Wanted, Deletions
  <2> QED
    BY <2>1, <2>2, <2>3, <2>4 DEF PostWork, Deletions
<1>8. desk'[s] = Nobody \/ (desk'[s].op = desk[s].op /\ PostSettled(desk'[s]))
  <2>1. \/ desk'[s] = Nobody
        \/ /\ desk'[s].op = r.op /\ At(desk'[s]) = Follows(r.op, "commit") /\ Follows(r.op, "commit") # "nowhere"
    BY <1>4, Commits DEF Turn
  <2>2. Follows(r.op, "commit") # "nowhere" => Follows(r.op, "commit") = "fresh" \/ (r.op = "publish_news" /\ Follows(r.op, "commit") = "card")
    BY DEF Follows, BotWork
  <2> QED
    BY <2>1, <2>2 DEF PostSettled
<1> QED
  BY <1>1, <1>5, <1>7, <1>8

\* A step of the handler that is at work on the post.
LEMMA PostOwn ==
  ASSUME DeskType, Numbered, NEW s \in Sessions, desk[s].op \in PostWork, SeesPost(desk[s], row, post),
         "post" \notin excused', Step(s)
  PROVE  \/ desk'[s] = Nobody /\ post' = Wanted(row')
         \/ desk'[s].op \in PostWork /\ SeesPost(desk'[s], row', post')
<1> DEFINE r == desk[s]
<1>1. row \in Row /\ SessionOK(r) /\ row.up \in BOOLEAN /\ row.exists \in BOOLEAN
  BY RowFields DEF DeskType
<1>2. "none" \notin PostWork /\ r.op \notin {"notify", "bot_approve", "bot_now", "bot_reject"}
  BY DEF PostWork
<1>3. CASE Takedown(s) \/ EditPost(s) \/ Show(s)
  BY <1>3, PostShown
<1>4. CASE Commit(s)
  BY <1>4, PostCommitted DEF SeesPost
<1>5. CASE ReadRow(s)
  <2>1. row' = row /\ post' = post
    BY <1>5 DEF ReadRow
  <2>2. At(r) = "read" /\ PostSettled(r) /\ post = Wanted(row) /\ r.op \in Doing("read")
    BY <1>5, Reads DEF SeesPost, PostSettled
  <2>3. CASE desk'[s] = Nobody
    BY <2>1, <2>2, <2>3
  <2>4. CASE Turn(r, desk'[s], "fresh")
    BY <2>1, <2>2, <2>4 DEF Turn, SeesPost, PostSettled
  <2>5. CASE row.exists /\ Turn(r, desk'[s], Follows(r.op, "read")) /\ desk'[s].view = row
    <3>1. desk'[s].op = r.op /\ At(desk'[s]) = Follows(r.op, "read")
      BY <2>5 DEF Turn
    <3>2. CASE r.op = "edit"
      <4>1. At(desk'[s]) = "snapshot"
        BY <3>1, <3>2 DEF Follows, TextWork
      <4> QED
        BY <2>1, <2>2, <2>5, <3>1, <3>2, <4>1 DEF SeesPost, PostSettled, Wanted
    <3>3. CASE r.op \in Takedowns
      <4>1. At(desk'[s]) = "takedown" /\ r.op \notin {"edit", "publish_news"}
        BY <3>1, <3>3 DEF Follows, TextWork, Takedowns, Deletions
      <4> QED
        BY <2>1, <2>2, <2>5, <3>1, <3>3, <4>1 DEF SeesPost, PostSettled
    <3>4. r.op = "edit" \/ r.op \in Takedowns
      BY <2>2 DEF PostWork, Takedowns, Deletions, Doing
    <3> QED
      BY <3>2, <3>3, <3>4
  <2> QED
    BY <1>5, <2>3, <2>4, <2>5, Reads
<1>6. CASE Snapshot(s)
  <2>0. PICK k \in {0} \cup Numbers : \A n \in Numbers : n <= k
    BY DEF Numbered
  <2>1. NextNumber \in Nat \ {0}
    BY <2>0, NextIsNumber DEF DeskType
  <2>2. row' = row /\ post' = post
    BY <1>6 DEF Snapshot
  <2>3. /\ At(r) = "snapshot" /\ r.op \in TextWork /\ desk'[s].op = r.op /\ At(desk'[s]) = "write" /\ desk'[s].view = r.view
    BY <1>6, <2>1, Snaps DEF Turn
  <2>4. r.op = "edit"
    BY <2>3 DEF TextWork, PostWork
  <2> QED
    BY <2>2, <2>3, <2>4 DEF SeesPost, PostSettled
<1>7. CASE Write(s)
  <2>1. row' = row /\ post' = post
    BY <1>7 DEF Write
  <2>2. At(r) = "write" /\ r.op \in Doing("write") /\ ~PostSettled(r)
    BY <1>7, Writes DEF PostSettled
  <2>3. row.exists
    BY <2>2 DEF SeesPost
  <2>4. desk'[s].op = r.op /\ At(desk'[s]) = Follows(r.op, "write") /\ desk'[s].view = r.view
    BY <1>7, <2>3, Writes DEF Turn
  <2>5. /\ r.op = "edit" => At(desk'[s]) = "post"
        /\ r.op \notin {"edit", "publish_news"} => At(desk'[s]) \in {"card", "commit"}
        /\ r.op # "publish_news"
    BY <2>2, <2>4 DEF Follows, Doing
  <2> QED
    BY <2>1, <2>2, <2>4, <2>5 DEF SeesPost, PostSettled
<1>8. CASE UpdateCard(s)
  <2>0. Takes(s, "card") /\ Goes(s, Rest(desk[s])) /\ row' = row /\ post' = post
    BY <1>8 DEF UpdateCard
  <2>1. At(r) = "card" /\ r.op \in Doing("card")
    BY <2>0, Shows
  <2>2. CASE r.op = "publish_news"
    BY <2>0, <2>1, <2>2, Shows DEF SeesPost, PostSettled
  <2>3. CASE r.op # "publish_news"
    <3>1. desk'[s].op = r.op /\ At(desk'[s]) = Follows(r.op, "card") /\ desk'[s].view = r.view /\ desk'[s].value = r.value
      BY <2>0, <2>3, Shows DEF Turn
    <3>2. At(desk'[s]) \in {"write", "commit"} /\ (r.op = "edit" => At(desk'[s]) = "commit")
      BY <2>3, <3>1 DEF Follows
    <3> QED
      BY <2>0, <2>1, <2>3, <3>1, <3>2 DEF SeesPost, PostSettled
  <2> QED
    BY <2>2, <2>3
<1>9. CASE RequestFails(s)
  <2>1. "post" \in excused'
    BY <1>9, SpoilsWhat DEF RequestFails
  <2> QED
    BY <2>1
<1>10. CASE RefusesPost(s)
  <2>1. row' = row /\ post' = post /\ Goes(s, Nobody) /\ Takes(s, "show") /\ "show" \in Steps
    BY <1>10 DEF RefusesPost, Steps
  <2>2. At(r) = "show" /\ r.op = "publish_news"
    BY <2>1, Takings DEF Doing
  <2>3. ~r.view.up /\ ~PostSettled(r)
    BY <1>1, <2>2 DEF SessionOK, PostSettled
  <2>4. r.view.up = row.up /\ post = (IF row.up THEN row.text ELSE NoText)
    BY <2>2, <2>3 DEF SeesPost
  <2>5. post = Wanted(row)
    BY <2>3, <2>4 DEF Wanted
  <2> QED
    BY <2>1, <2>5, Leaves
<1>11. CASE Fresh(s) \/ Mark(s)
  <2>1. row' = row /\ post' = post
    BY <1>11 DEF Fresh, Mark
  <2>2. At(r) \in {"fresh", "mark"} /\ post = Wanted(row)
    BY <1>11, Refreshes, Marks DEF SeesPost, PostSettled
  <2>3. desk'[s] = Nobody \/ (desk'[s].op = r.op /\ At(desk'[s]) = "mark")
    BY <1>2, <1>11, Refreshes, Marks DEF Turn
  <2> QED
    BY <2>1, <2>2, <2>3 DEF SeesPost, PostSettled
<1>12. CASE BeginPublication(s)
  <2>1. row' = row /\ post' = post
    BY <1>12 DEF BeginPublication
  <2>2. At(r) = "begin" /\ r.op = "publish_news" /\ post = Wanted(row)
    BY <1>12, BeginsToPublish DEF SeesPost, PostSettled
  <2>3. CASE ~row.exists
    BY <1>12, <2>1, <2>2, <2>3, BeginsToPublish
  <2>4. CASE row.exists
    <3>1. desk'[s].op = r.op /\ At(desk'[s]) = (IF row.up THEN "commit" ELSE "show") /\ desk'[s].view = row
      BY <1>12, <2>4, BeginsToPublish DEF Turn
    <3>2. ~PostSettled(desk'[s])
      BY <2>2, <3>1 DEF PostSettled
    <3> QED
      BY <1>1, <2>1, <2>2, <2>4, <3>1, <3>2 DEF SeesPost, Wanted
  <2> QED
    BY <2>3, <2>4
<1>13. ~RewriteFails(s) /\ ~Take(s) /\ ~SendCard(s) /\ ~KeepCard(s)
  <2>1. ~RewriteFails(s)
    BY DEF RewriteFails, PostWork
  <2>2. ~Take(s) /\ ~SendCard(s)
    BY <1>2, TakesIt, SendsCard
  <2>3. KeepCard(s) => Takes(s, "keep") /\ "keep" \in Steps
    BY DEF KeepCard, Steps
  <2>4. KeepCard(s) => r.op \in Doing("keep")
    BY <2>3, Takings
  <2> QED
    BY <1>2, <2>1, <2>2, <2>4 DEF Doing
<1> QED
  BY <1>3, <1>4, <1>5, <1>6, <1>7, <1>8, <1>9, <1>10, <1>11, <1>12, <1>13 DEF Step

LEMMA StepPost ==
  ASSUME DeskType, Numbered, PostInv, NEW s \in Sessions, Step(s)
  PROVE  PostInv'
<1> SUFFICES ASSUME "post" \notin excused'
             PROVE  /\ \A t, u \in Sessions : desk'[t].op \in PostWork /\ desk'[u].op \in PostWork => t = u
                    /\ (\A t \in Sessions : desk'[t].op \notin PostWork) => post' = Wanted(row')
                    /\ \A t \in Sessions : desk'[t].op \in PostWork => SeesPost(desk'[t], row', post')
  BY DEF PostInv
<1>1. /\ Moves(s) /\ desk[s].op \in Operations /\ (desk'[s] = Nobody \/ desk'[s].op = desk[s].op)
      /\ "post" \notin excused /\ Nobody.op \notin PostWork
  BY StepKeeps, Fields DEF PostWork
<1>2. \A t \in Sessions : t # s => desk'[t] = desk[t]
  BY <1>1, Moved DEF DeskType
<1>3. /\ \A t, u \in Sessions : desk[t].op \in PostWork /\ desk[u].op \in PostWork => t = u
      /\ (\A t \in Sessions : desk[t].op \notin PostWork) => post = Wanted(row)
      /\ \A t \in Sessions : desk[t].op \in PostWork => SeesPost(desk[t], row, post)
  BY <1>1 DEF PostInv
<1>4. \A t \in Sessions : desk'[t].op \in PostWork => desk[t].op \in PostWork
  BY <1>1, <1>2
<1>5. \A t, u \in Sessions : desk'[t].op \in PostWork /\ desk'[u].op \in PostWork => t = u
  BY <1>3, <1>4
<1>6. CASE desk[s].op \in PostWork
  <2>1. \/ desk'[s] = Nobody /\ post' = Wanted(row')
        \/ desk'[s].op \in PostWork /\ SeesPost(desk'[s], row', post')
    BY <1>3, <1>6, PostOwn
  <2>2. \A t \in Sessions : desk'[t].op \in PostWork => t = s
    BY <1>3, <1>4, <1>6
  <2> QED
    BY <1>1, <1>5, <2>1, <2>2
<1>7. CASE desk[s].op \notin PostWork
  <2>1. /\ post' = post /\ row \in Row /\ row' \in Row /\ row'.exists = row.exists /\ row'.up = row.up
        /\ row'.text # row.text =>
               /\ ~row.up
               /\ \A t \in Sessions : desk[t].op = "publish_news" => At(desk[t]) \notin {"show", "commit"}
    BY <1>7, PostOfOthers DEF DeskType
  <2>2. \A t \in Sessions : desk'[t].op \in PostWork => desk'[t] = desk[t]
    BY <1>1, <1>2, <1>7
  <2>3. Wanted(row') = Wanted(row)
    <3>1. row'.up \in BOOLEAN
      BY <2>1, RowFields
    <3> QED
      BY <2>1, <3>1 DEF Wanted
  <2>4. ASSUME NEW t \in Sessions, desk'[t].op \in PostWork PROVE SeesPost(desk'[t], row', post')
    <3>1. desk'[t] = desk[t] /\ desk[t].op \in PostWork /\ SeesPost(desk[t], row, post) /\ SessionOK(desk[t])
      BY <1>3, <2>2, <2>4 DEF DeskType
    <3>2. desk[t].op = "publish_news" => At(desk[t]) \in {"begin", "show", "commit", "card"}
      BY <3>1, Publishing
    <3>3. SeesPost(desk[t], row', post)
      BY <2>1, <3>1, <3>2, SeesPostStays
    <3> QED
      BY <2>1, <3>1, <3>3
  <2>5. ASSUME \A t \in Sessions : desk'[t].op \notin PostWork PROVE post' = Wanted(row')
    <3>1. \A t \in Sessions : desk[t].op \notin PostWork
      BY <1>2, <1>7, <2>5
    <3> QED
      BY <1>3, <2>1, <2>3, <3>1
  <2> QED
    BY <1>5, <2>4, <2>5
<1> QED
  BY <1>6, <1>7

LEMMA StartsPost ==
  ASSUME DeskType, PostInv, NEW s \in Sessions, Starts(s)
  PROVE  PostInv'
<1> SUFFICES ASSUME "post" \notin excused'
             PROVE  /\ \A t, u \in Sessions : desk'[t].op \in PostWork /\ desk'[u].op \in PostWork => t = u
                    /\ (\A t \in Sessions : desk'[t].op \notin PostWork) => post' = Wanted(row')
                    /\ \A t \in Sessions : desk'[t].op \in PostWork => SeesPost(desk'[t], row', post')
  BY DEF PostInv
<1>1. /\ Moves(s) /\ desk[s].op = "none" /\ row' = row /\ post' = post /\ At(desk'[s]) = First(desk'[s].op)
      /\ "post" \notin excused
      /\ desk'[s].op \in PostWork => \A t \in Sessions : desk[t].op \notin PostWork
  BY SpoilsWhat DEF Starts
<1>2. \A t \in Sessions : t # s => desk'[t] = desk[t]
  BY <1>1, Moved DEF DeskType
<1>3. /\ \A t, u \in Sessions : desk[t].op \in PostWork /\ desk[u].op \in PostWork => t = u
      /\ (\A t \in Sessions : desk[t].op \notin PostWork) => post = Wanted(row)
      /\ \A t \in Sessions : desk[t].op \in PostWork => SeesPost(desk[t], row, post)
  BY <1>1 DEF PostInv
<1>4. "none" \notin PostWork
  BY DEF PostWork
<1>5. CASE desk'[s].op \in PostWork
  <2>1. post = Wanted(row) /\ \A t \in Sessions : desk'[t].op \in PostWork => t = s
    BY <1>1, <1>2, <1>3, <1>5
  <2>2. PostSettled(desk'[s])
    BY <1>1, <1>5 DEF PostSettled, First, PostWork
  <2> QED
    BY <1>1, <1>5, <2>1, <2>2 DEF SeesPost
<1>6. CASE desk'[s].op \notin PostWork
  <2>1. \A t \in Sessions : desk'[t].op \in PostWork => desk'[t] = desk[t]
    BY <1>2, <1>6
  <2>2. \A t \in Sessions : desk[t].op \in PostWork => desk'[t] = desk[t]
    BY <1>1, <1>2, <1>4
  <2> QED
    BY <1>1, <1>3, <2>1, <2>2
<1> QED
  BY <1>5, <1>6

LEMMA PostStep ==
  ASSUME DeskType, Numbered, PostInv, [Next]_deskVars
  PROVE  PostInv'
<1>1. CASE UNCHANGED <<row, post, desk, excused>>
  BY <1>1 DEF PostInv
<1>2. CASE BulkDelete
  <2>1. "post" \in excused'
    BY <1>2 DEF BulkDelete
  <2> QED
    BY <2>1 DEF PostInv
<1>3. CASE SendToModeration \/ BeatEnqueues \/ UNCHANGED deskVars
  BY <1>1, <1>3 DEF SendToModeration, BeatEnqueues, deskVars
<1>4. ASSUME NEW s \in Sessions, Asked(s) PROVE PostInv'
  BY <1>4, AskedStarts, StartsPost
<1>5. ASSUME NEW s \in Sessions, PublishTask(s) \/ NotifyTask(s) PROVE PostInv'
  BY <1>1, <1>5, TasksStart, StartsPost
<1>6. ASSUME NEW s \in Sessions, NEW k \in 1..Len(cards), NEW button \in cards[k].offers, Press(s, k, button) PROVE PostInv'
  BY <1>6, PressStarts, StartsPost
<1>7. ASSUME NEW s \in Sessions, Step(s) PROVE PostInv'
  BY <1>7, StepPost
<1> QED
  BY <1>2, <1>3, <1>4, <1>5, <1>6, <1>7 DEF Next

LEMMA InitPost ==
  Init => PostInv
<1> SUFFICES ASSUME Init PROVE PostInv
  OBVIOUS
<1>1. PICK q \in Ready : /\ row = q.row /\ desk = [s \in Sessions |-> Nobody]
                         /\ post = IF q.row.up THEN q.row.text ELSE NoText
  BY DEF Init
<1>2. row.exists
  BY <1>1, DeskAssumption
<1>3. \A s \in Sessions : desk[s].op \notin PostWork
  BY <1>1, Fields DEF PostWork
<1> QED
  BY <1>1, <1>2, <1>3 DEF PostInv, Wanted

\* When nobody is at work on the post, no two of its handlers overlapped and nothing went wrong
\* on the way to Telegram, the channel shows the row's text, and nothing of an item that is
\* withdrawn or deleted, whatever old cards were pressed and publications retried
\* (NewsDesk.PostIsCurrent; edit_published, delete_published, publish).
THEOREM ChannelIsCurrent ==
  Spec => []PostIsCurrent
<1>1. Init => PostInv
  BY InitPost
<1>2. (DeskType /\ Numbered) /\ PostInv /\ [Next]_deskVars => PostInv'
  BY PostStep
<1>3. PostInv => PostIsCurrent
  BY SpoilsWhat DEF PostInv, PostIsCurrent, Quiet, Wanted
<1> QED
  BY <1>1, <1>2, <1>3, DeskIsTyped, PTL DEF Spec

-------------------------------------------------------------------------------
(* The card shows what the row says. *)

LEMMA OffersSame ==
  \A r, w : r.status = w.status /\ r.up = w.up => Offers(r) = Offers(w)
  BY DEF Offers

LEMMA QueueGrows ==
  ASSUME queue \in [publish : Seq(0..PublishRetries), notify : Nat], NEW attempt
  PROVE  [queue EXCEPT !.publish = Append(@, attempt)].publish # <<>>
<1>1. [queue EXCEPT !.publish = Append(@, attempt)].publish = Append(queue.publish, attempt)
  OBVIOUS
<1>2. Len(queue.publish) \in Nat /\ Len(Append(queue.publish, attempt)) = Len(queue.publish) + 1
  OBVIOUS
<1>3. Append(queue.publish, attempt) # <<>>
  <2>1. Len(<<>>) = 0
    OBVIOUS
  <2> QED
    BY <1>2, <2>1
<1> QED
  BY <1>1, <1>3

\* One card is rebuilt, or a card is added.
LEMMA CardsWhat ==
  ASSUME cards \in Seq(CardType), NEW k \in 1..Len(cards), NEW x
  PROVE  /\ [cards EXCEPT ![k] = x][k] = x /\ x \in ToSet([cards EXCEPT ![k] = x])
         /\ \A offers : /\ [cards EXCEPT ![k].offers = offers][k].offers = offers
                        /\ [cards EXCEPT ![k].offers = offers][k] \in ToSet([cards EXCEPT ![k].offers = offers])
<1>1. k \in DOMAIN cards /\ DOMAIN cards = 1..Len(cards)
  OBVIOUS
<1>2. [cards EXCEPT ![k] = x][k] = x /\ x \in ToSet([cards EXCEPT ![k] = x])
  <2>1. /\ [cards EXCEPT ![k] = x][k] = x
        /\ DOMAIN [cards EXCEPT ![k] = x] = DOMAIN cards /\ Len([cards EXCEPT ![k] = x]) = Len(cards)
    BY <1>1
  <2> QED
    BY <1>1, <2>1 DEF ToSet
<1>3. ASSUME NEW offers
      PROVE  /\ [cards EXCEPT ![k].offers = offers][k].offers = offers
             /\ [cards EXCEPT ![k].offers = offers][k] \in ToSet([cards EXCEPT ![k].offers = offers])
  <2> DEFINE d == [cards EXCEPT ![k].offers = offers]
  <2>1. cards[k] \in CardType
    OBVIOUS
  <2>2. d[k] = [cards[k] EXCEPT !.offers = offers] /\ DOMAIN d = DOMAIN cards
    BY <1>1
  <2>3. d[k].offers = offers
    BY <2>1, <2>2 DEF CardType
  <2>4. Len(d) = Len(cards)
    BY <1>1
  <2> HIDE DEF d
  <2>5. d[k] \in ToSet(d)
    BY <1>1, <2>2, <2>4 DEF ToSet
  <2> QED
    BY <2>3, <2>5 DEF d
<1> QED
  BY <1>2, <1>3

LEMMA CardAdded ==
  ASSUME cards \in Seq(CardType), NEW x \in CardType
  PROVE  /\ Append(cards, x)[Len(cards) + 1] = x
         /\ \A k \in 1..Len(cards) : Append(cards, x)[k] = cards[k]
         /\ Dead(cards) => Dead(Append(cards, x))
<1>1. /\ Len(Append(cards, x)) = Len(cards) + 1 /\ Len(cards) \in Nat
      /\ Append(cards, x)[Len(cards) + 1] = x
      /\ \A k \in 1..Len(cards) : Append(cards, x)[k] = cards[k]
  OBVIOUS
<1>2. Append(cards, x) \in Seq(CardType)
  OBVIOUS
<1>3. ToSet(cards) \subseteq ToSet(Append(cards, x))
  <2>1. ToSet(cards) = {cards[k] : k \in 1..Len(cards)}
    BY DEF ToSet
  <2>2. \A k \in 1..Len(cards) : k \in DOMAIN Append(cards, x) /\ Append(cards, x)[k] = cards[k]
    BY <1>1, <1>2
  <2> QED
    BY <2>1, <2>2 DEF ToSet
<1> QED
  BY <1>1, <1>3 DEF Dead

\* What other operations leave alone of the row.
SameCard(w, x) == x.exists = w.exists /\ x.status = w.status /\ x.up = w.up /\ x.card = w.card

LEMMA SeesCardStays ==
  ASSUME NEW w, NEW x, SameCard(w, x), NEW c, NEW q, NEW p, q # <<>> => p # <<>>
  PROVE  /\ CardSettled(w, c, q) => CardSettled(x, c, p)
         /\ \A r : SeesCard(r, w, c, q) => SeesCard(r, x, c, p)
<1>1. Offers(x) = Offers(w)
  BY OffersSame DEF SameCard
<1>2. \A k : Fits(k, w, c) => Fits(k, x, c)
  BY <1>1 DEF Fits, SameCard
<1>3. CardSettled(w, c, q) => CardSettled(x, c, p)
  BY <1>2 DEF CardSettled, SameCard
<1>4. \A r : SameFor(r, w) => SameFor(r, x)
  BY DEF SameFor, SameCard
<1>5. ASSUME NEW r, SeesCard(r, w, c, q) PROVE SeesCard(r, x, c, p)
  BY <1>2, <1>3, <1>4, <1>5 DEF SeesCard, SameCard
<1> QED
  BY <1>3, <1>5

\* The steps of the operations that are not at work on the card.
LEMMA CardOfOthers ==
  ASSUME DeskType, Numbered, NEW s \in Sessions, Step(s), desk[s].op \notin CardWork
  PROVE  cards' = cards /\ queue' = queue /\ SameCard(row, row')
<1> DEFINE r == desk[s]
<1>1. /\ row \in Row /\ SessionOK(r) /\ r.view \in Row /\ r.op \in Operations
  BY StepKeeps DEF DeskType, SessionOK
<1>2. r.op \in {"restore", "regenerate"} /\ r.op \in TextWork /\ r.op \notin Takedowns \cup Deletions \cup BotWork
  BY <1>1 DEF Operations, TextWork, CardWork, PostWork, Takedowns, Deletions, BotWork
<1>3. ~UpdateCard(s) /\ ~Mark(s) /\ ~SendCard(s) /\ ~Take(s) /\ ~RefusesPost(s) /\ ~KeepCard(s)
  <2>1. /\ UpdateCard(s) => Takes(s, "card")
        /\ RefusesPost(s) => Takes(s, "show")
        /\ KeepCard(s) => Takes(s, "keep")
        /\ {"card", "show", "keep"} \subseteq Steps
    BY DEF UpdateCard, RefusesPost, KeepCard, Steps
  <2>2. UpdateCard(s) => r.op \in Doing("card")
    BY <2>1, Takings
  <2>3. (RefusesPost(s) => r.op \in Doing("show")) /\ (KeepCard(s) => r.op \in Doing("keep"))
    BY <2>1, Takings
  <2>4. ~Mark(s) /\ ~SendCard(s) /\ ~Take(s)
    BY <1>2, Marks, SendsCard, TakesIt
  <2> QED
    BY <1>2, <2>2, <2>3, <2>4 DEF Doing
<1>4. CASE ~Commit(s)
  <2>1. cards' = cards /\ row' = row
    BY <1>3, <1>4 DEF Step, ReadRow, Snapshot, Takedown, Write, EditPost, RequestFails, RewriteFails, Fresh,
                      BeginPublication, Show
  <2>2. queue' = queue
    <3>1. CASE Write(s)
      <4>1. queue' = queue \/ desk[s].op = "publish_now"
        <5>1. Rest(desk[s]).op = desk[s].op /\ DOMAIN Rest(desk[s]) = DOMAIN Nobody
          BY <1>1, Rests DEF SessionOK
        <5> DEFINE n == [Rest(desk[s]) EXCEPT !.new = Over(Sets(desk[s]), desk[s].new)]
        <5>2. n.op = desk[s].op
          BY <5>1, Fields
        <5>3. queue' = IF n.op = "publish_now" /\ row.exists THEN [queue EXCEPT !.publish = Append(@, 0)] ELSE queue
          BY <3>1 DEF Write
        <5> HIDE DEF n
        <5> QED
          BY <5>2, <5>3
      <4> QED
        BY <1>2, <4>1
    <3>2. CASE ~Write(s)
      BY <1>3, <1>4, <3>2 DEF Step, ReadRow, Snapshot, Takedown, EditPost, RequestFails, RewriteFails, Fresh,
                      BeginPublication, Show
    <3> QED
      BY <3>1, <3>2
  <2> QED
    BY <2>1, <2>2 DEF SameCard
<1>5. CASE Commit(s)
  <2>1. At(r) = "commit" /\ r.view.exists /\ At(r) # "fresh" /\ Written(r)
    BY <1>2, <1>5, Commits DEF Written
  <2>2. cards' = cards /\ queue' = queue
    <3>1. cards' = cards
      BY <1>5 DEF Commit
    <3>2. r.op # "approve"
      BY <1>2
    <3> QED
      BY <1>5, <3>1, <3>2, Commits
  <2>3. /\ Own(r).exists <=> r.view.exists /\ ~(r.op \in Deletions /\ Written(r))
        /\ Own(r).up <=> IsUp(r) \/ (r.view.up /\ ~TookDown(r))
        /\ Own(r).status = IF IsUp(r) THEN IF r.view.up THEN r.view.status ELSE "published"
                           ELSE IF Written(r) THEN Decided(r) ELSE r.view.status
        /\ Own(r) \in Row
    BY <1>1, <2>1, OwnIs
  <2>4. ~IsUp(r) /\ ~TookDown(r) /\ Decided(r) = r.view.status
    BY <1>2 DEF IsUp, TookDown, Decided
  <2>5. Own(r).exists = r.view.exists /\ Own(r).up = r.view.up /\ Own(r).status = r.view.status
    <3>1. Own(r).up \in BOOLEAN /\ r.view.up \in BOOLEAN /\ Own(r).exists \in BOOLEAN /\ r.view.exists \in BOOLEAN
      BY <1>1, <2>3, RowFields
    <3> QED
      BY <1>2, <2>3, <2>4, <3>1
  <2>6. SameCard(row, Merge(r))
    BY <1>1, <2>1, <2>5, MergeWhat DEF SameCard
  <2>7. row' = row \/ row' = Merge(r)
    BY <1>5, CommitWhat
  <2> QED
    BY <2>2, <2>6, <2>7 DEF SameCard
<1> QED
  BY <1>4, <1>5

\* A step of the handler at work on the card that only reads, or ends.
LEMMA CardReads ==
  ASSUME DeskType, Numbered, NEW s \in Sessions, desk[s].op \in CardWork,
         SeesCard(desk[s], row, cards, queue.publish), "card" \notin excused',
         ReadRow(s) \/ Snapshot(s) \/ Takedown(s) \/ EditPost(s) \/ Fresh(s) \/ BeginPublication(s) \/ Show(s)
  PROVE  \/ desk'[s] = Nobody /\ CardSettled(row', cards', queue'.publish)
         \/ desk'[s].op \in CardWork /\ SeesCard(desk'[s], row', cards', queue'.publish)
<1> DEFINE r == desk[s]
<1>1. /\ row \in Row /\ SessionOK(r) /\ row.exists \in BOOLEAN
      /\ UNCHANGED <<row, cards, queue>>
  BY RowFields DEF DeskType, ReadRow, Snapshot, Takedown, EditPost, Fresh, BeginPublication, Show
<1>2. /\ At(r) \in {"read", "take"} \/ r.op = "notify" => CardSettled(row, cards, queue.publish)
      /\ At(r) = "begin" => (row.card # 0 /\ ~row.exists => Dead(cards))
      /\ At(r) \in {"fresh", "mark"} => row.exists \/ r.op \in {"bot_delete", "bot_purge", "notify"}
      /\ HasRead(r) /\ ~Published(r) => SameFor(r, row)
  BY DEF SeesCard
<1>3. SUFFICES ASSUME desk'[s] # Nobody \/ ~CardSettled(row, cards, queue.publish)
               PROVE  desk'[s].op \in CardWork /\ SeesCard(desk'[s], row, cards, queue.publish)
  BY <1>1
<1>4. ASSUME desk'[s].op = r.op, desk'[s].view = row, At(desk'[s]) \in {"snapshot", "takedown", "write", "show", "mark"} \/
                (r.op = "publish_news" /\ At(desk'[s]) = "commit"), r.op # "delete" \/ At(desk'[s]) # "write",
             At(desk'[s]) = "mark" => row.exists \/ r.op \in {"bot_delete", "bot_purge"}, r.op # "notify"
      PROVE  SeesCard(desk'[s], row, cards, queue.publish)
  BY <1>4 DEF SeesCard, SameFor, Published, Rebuilt, HasRead
<1>5. ASSUME desk'[s].op = r.op, desk'[s].view = r.view, At(desk'[s]) \in {"write", "card", "commit"},
             SameFor(r, row), ~Published(desk'[s]), ~Rebuilt(desk'[s]), r.op # "notify",
             ~(r.op = "publish_now" /\ At(desk'[s]) = "commit")
      PROVE  SeesCard(desk'[s], row, cards, queue.publish)
  BY <1>5 DEF SeesCard, SameFor
<1>6. CASE ReadRow(s)
  <2>1. At(r) = "read" /\ r.op \in Doing("read")
    BY <1>6, Reads
  <2>2. CASE desk'[s] = Nobody
    BY <1>2, <1>3, <2>1, <2>2
  <2>3. CASE r.op \in {"bot_delete", "bot_purge"} /\ Turn(r, desk'[s], "fresh")
    <3>1. desk'[s].op = r.op /\ At(desk'[s]) = "fresh"
      BY <2>3 DEF Turn
    <3> QED
      BY <2>3, <3>1 DEF SeesCard, HasRead, Published, Rebuilt
  <2>4. CASE row.exists /\ Turn(r, desk'[s], Follows(r.op, "read")) /\ desk'[s].view = row
    <3>1. desk'[s].op = r.op /\ At(desk'[s]) = Follows(r.op, "read")
      BY <2>4 DEF Turn
    <3>2. /\ Follows(r.op, "read") \in {"snapshot", "takedown", "write"} /\ r.op # "notify"
          /\ r.op = "delete" => Follows(r.op, "read") = "takedown"
      BY <2>1 DEF Follows, Takedowns, Deletions, TextWork, Doing
    <3> QED
      BY <1>4, <2>4, <3>1, <3>2
  <2> QED
    BY <1>6, <2>2, <2>3, <2>4, Reads
<1>7. CASE Snapshot(s)
  <2>0. PICK k \in {0} \cup Numbers : \A n \in Numbers : n <= k
    BY DEF Numbered
  <2>1. NextNumber \in Nat \ {0}
    BY <2>0, NextIsNumber DEF DeskType
  <2>2. At(r) = "snapshot" /\ r.op \in TextWork /\ desk'[s].op = r.op /\ At(desk'[s]) = "write" /\ desk'[s].view = r.view
    BY <1>7, <2>1, Snaps DEF Turn
  <2>3. HasRead(r) /\ ~Published(r) /\ r.op \notin {"delete", "notify", "publish_now"}
    BY <2>2 DEF HasRead, Published, TextWork
  <2>4. ~Published(desk'[s]) /\ ~Rebuilt(desk'[s])
    BY <2>2, <2>3 DEF Published, Rebuilt
  <2> QED
    BY <1>2, <1>5, <2>2, <2>3, <2>4
<1>8. CASE Takedown(s)
  <2>1. At(r) = "takedown" /\ r.op \in Takedowns /\ desk'[s].op = r.op /\ At(desk'[s]) = Follows(r.op, "takedown") /\ desk'[s].view = r.view
    BY <1>8, TakesDown DEF Turn
  <2>2. At(desk'[s]) = (IF r.op = "delete" THEN "card" ELSE "write") /\ r.op \notin {"notify", "publish_now", "publish_news"}
    BY <2>1 DEF Follows, Takedowns, Deletions
  <2>3. HasRead(r) /\ ~Published(r) /\ ~Published(desk'[s]) /\ ~Rebuilt(desk'[s])
    BY <2>1, <2>2 DEF HasRead, Published, Rebuilt
  <2> QED
    BY <1>2, <1>5, <2>1, <2>2, <2>3
<1>9. CASE EditPost(s)
  <2>0. Takes(s, "post") /\ Goes(s, Rest(desk[s]))
    BY <1>9 DEF EditPost
  <2>1. At(r) = "post" /\ r.op = "edit" /\ desk'[s].view = r.view /\ desk'[s].op = r.op /\ At(desk'[s]) = "card"
    BY <2>0, Shows DEF Turn, Doing, Follows
  <2>2. HasRead(r) /\ ~Published(r) /\ ~Published(desk'[s]) /\ ~Rebuilt(desk'[s])
    BY <2>1 DEF HasRead, Published, Rebuilt
  <2> QED
    BY <1>2, <1>5, <2>1, <2>2
<1>10. CASE Fresh(s)
  <2>1. At(r) = "fresh" /\ r.op \in BotWork \cup {"notify"}
    BY <1>10, Refreshes
  <2>2. CASE desk'[s] = Nobody /\ r.op = "notify"
    BY <1>2, <1>3, <2>2
  <2>3. CASE Turn(r, desk'[s], IF r.op = "notify" THEN "offer" ELSE "mark") /\ desk'[s].view = row
    <3>1. desk'[s].op = r.op /\ At(desk'[s]) = (IF r.op = "notify" THEN "offer" ELSE "mark")
      BY <2>3 DEF Turn
    <3>2. CASE r.op = "notify"
      BY <1>2, <2>3, <3>1, <3>2 DEF SeesCard, SameFor, Published, Rebuilt
    <3>3. CASE r.op # "notify"
      BY <1>2, <1>4, <2>1, <2>3, <3>1, <3>3
    <3> QED
      BY <3>2, <3>3
  <2> QED
    BY <1>10, <2>2, <2>3, Refreshes
<1>11. CASE BeginPublication(s)
  <2>1. At(r) = "begin" /\ r.op = "publish_news"
    BY <1>11, BeginsToPublish
  <2>2. CASE ~row.exists
    BY <1>2, <1>3, <1>11, <2>1, <2>2, BeginsToPublish DEF CardSettled
  <2>3. CASE row.exists
    <3>1. desk'[s].op = r.op /\ At(desk'[s]) \in {"commit", "show"} /\ desk'[s].view = row
      BY <1>11, <2>3, BeginsToPublish DEF Turn
    <3> QED
      BY <1>4, <2>1, <3>1
  <2> QED
    BY <2>2, <2>3
<1>12. CASE Show(s)
  <2>1. At(r) = "show" /\ r.op = "publish_news" /\ desk'[s].view = r.view /\ desk'[s].op = r.op /\ At(desk'[s]) = "commit"
    BY <1>12, ShowsPost DEF Turn
  <2>2. HasRead(r) /\ ~Published(r) /\ ~Published(desk'[s]) /\ ~Rebuilt(desk'[s])
    BY <2>1 DEF HasRead, Published, Rebuilt
  <2> QED
    BY <1>2, <1>5, <2>1, <2>2
<1> QED
  BY <1>6, <1>7, <1>8, <1>9, <1>10, <1>11, <1>12

\* The row as a handler of the card has it, when it has written.
LEMMA CardOwnRow ==
  ASSUME row \in Row, NEW r, SessionOK(r), r.view.exists, At(r) \in {"card", "commit"}
  PROVE  /\ Own(r) \in Row /\ Own(r).card = r.view.card
         /\ r.op \notin Deletions => Own(r).exists
         /\ r.op \in Deletions /\ At(r) = "commit" => ~Own(r).exists
<1>1. /\ Own(r).exists <=> r.view.exists /\ ~(r.op \in Deletions /\ Written(r))
      /\ Own(r) \in Row /\ Own(r).card = r.view.card
  BY OwnIs
<1>2. r.op \in Deletions /\ At(r) = "commit" => Written(r)
  BY DEF Written, Deletions
<1> QED
  BY <1>1, <1>2

LEMMA CardWrites ==
  ASSUME DeskType, NEW s \in Sessions, desk[s].op \in CardWork, SeesCard(desk[s], row, cards, queue.publish), Write(s)
  PROVE  desk'[s].op \in CardWork /\ SeesCard(desk'[s], row', cards', queue'.publish)
<1> DEFINE r == desk[s]
<1>1. /\ row \in Row /\ SessionOK(r) /\ row.exists \in BOOLEAN /\ row' = row /\ cards' = cards
      /\ queue \in [publish : Seq(0..PublishRetries), notify : Nat]
  BY RowFields DEF DeskType, Write
<1>2. At(r) = "write" /\ r.op \in Doing("write") /\ HasRead(r) /\ ~Published(r)
  BY Writes DEF HasRead, Published
<1>3. SameFor(r, row) /\ (Rebuilt(r) /\ row.card # 0 => IF r.op = "delete" THEN Dead(cards) ELSE Fits(row.card, Own(r), cards))
  BY <1>2 DEF SeesCard
<1>4. row.exists /\ r.view.exists
  BY <1>1, <1>2, <1>3 DEF SessionOK, SameFor
<1>5. desk'[s].op = r.op /\ At(desk'[s]) = Follows(r.op, "write") /\ desk'[s].view = r.view
  BY <1>4, Writes DEF Turn
<1>6. r.op \notin {"publish_news", "notify", "bot_approve", "bot_now"}
  BY <1>2 DEF Doing
<1>7. At(desk'[s]) \in {"post", "card", "commit"} /\ ~Published(desk'[s])
  BY <1>5, <1>6 DEF Follows, Published
<1>8. Rebuilt(desk'[s]) => r.op = "delete" /\ Rebuilt(r)
  BY <1>2, <1>5, <1>6 DEF Rebuilt, Follows
<1>9. r.op = "publish_now" => queue'.publish # <<>>
  <2>1. Rest(desk[s]).op = desk[s].op /\ DOMAIN Rest(desk[s]) = DOMAIN Nobody
    BY <1>1, Rests DEF SessionOK
  <2> DEFINE n == [Rest(desk[s]) EXCEPT !.new = Over(Sets(desk[s]), desk[s].new)]
  <2>2. n.op = desk[s].op
    BY <2>1, Fields
  <2>3. queue' = IF n.op = "publish_now" /\ row.exists THEN [queue EXCEPT !.publish = Append(@, 0)] ELSE queue
    BY DEF Write
  <2> HIDE DEF n
  <2> QED
    BY <1>1, <1>4, <2>2, <2>3, QueueGrows
<1>10. SameFor(desk'[s], row)
  BY <1>3, <1>5 DEF SameFor
<1>11. Rebuilt(desk'[s]) /\ row.card # 0 => desk'[s].op = "delete" /\ Dead(cards)
  BY <1>3, <1>5, <1>8
<1> QED
  BY <1>1, <1>5, <1>6, <1>7, <1>9, <1>10, <1>11 DEF SeesCard

LEMMA CardUpdates ==
  ASSUME DeskType, NEW s \in Sessions, desk[s].op \in CardWork, SeesCard(desk[s], row, cards, queue.publish), UpdateCard(s),
         "card" \notin excused'
  PROVE  \/ desk'[s] = Nobody /\ CardSettled(row', cards', queue'.publish)
         \/ desk'[s].op \in CardWork /\ SeesCard(desk'[s], row', cards', queue'.publish)
<1> DEFINE r == desk[s]
<1>1. /\ row \in Row /\ SessionOK(r) /\ row' = row /\ queue' = queue /\ cards \in Seq(CardType) /\ Len(cards) \in Nat
      /\ Takes(s, "card") /\ Goes(s, Rest(desk[s]))
  BY DEF DeskType, UpdateCard
<1>2. At(r) = "card" /\ r.op \in Doing("card") /\ HasRead(r)
  BY <1>1, Shows DEF HasRead
<1>3. r.view \in Row /\ r.view.card \in Nat /\ r.view.card <= Len(cards) /\ r.view.exists
  BY <1>1, <1>2, RowFields DEF DeskType, SessionOK
<1>4. /\ r.view.card = row.card
      /\ Published(r) => row.exists /\ Own(r).status = row.status /\ Own(r).up = row.up
      /\ ~Published(r) => SameFor(r, row)
  BY <1>2 DEF SeesCard, SameFor
<1>5. CASE row.card = 0
  <2>1. cards' = cards
    BY <1>4, <1>5 DEF UpdateCard
  <2>2. CASE r.op = "publish_news"
    BY <1>1, <1>5, <2>1, <2>2, Shows DEF CardSettled
  <2>3. CASE r.op # "publish_news"
    <3>1. desk'[s].op = r.op /\ At(desk'[s]) = Follows(r.op, "card") /\ desk'[s].view = r.view
      BY <1>1, <2>3, Shows DEF Turn
    <3>2. At(desk'[s]) \in {"write", "commit"} /\ r.op \notin {"notify", "publish_now"} /\ ~Published(r) /\ ~Published(desk'[s])
      BY <1>2, <2>3, <3>1 DEF Follows, Doing, Published
    <3>3. SameFor(desk'[s], row)
      BY <1>4, <3>1, <3>2 DEF SameFor
    <3> QED
      BY <1>1, <1>5, <2>1, <3>1, <3>2, <3>3 DEF SeesCard
  <2> QED
    BY <2>2, <2>3
<1>6. CASE row.card # 0
  <2> DEFINE k == row.card
             x == Card(Own(r), Buttons(r))
  <2>1. k \in 1..Len(cards)
    BY <1>1, <1>3, <1>4, <1>6
  <2>2. cards' = [cards EXCEPT ![k] = x]
    <3>1. \/ cards' = [cards EXCEPT ![r.view.card] = Card(Own(r), Buttons(r))]
          \/ excused' = excused \cup {"card"}
      BY <1>4, <1>6 DEF UpdateCard
    <3> QED
      BY <1>4, <3>1
  <2>3. x.status = Own(r).status /\ x.offers = Buttons(r)
    BY DEF Card
  <2> HIDE DEF x
  <2>4. cards'[k] = x /\ x \in ToSet(cards')
    BY <1>1, <2>1, <2>2, CardsWhat
  <2>5. /\ Buttons(r) \subseteq Offers(Own(r))
        /\ r.op = "delete" => Buttons(r) = {}
    BY DEF Buttons
  <2>6. Fits(k, Own(r), cards') /\ (r.op = "delete" => Dead(cards'))
    BY <2>3, <2>4, <2>5 DEF Fits, Dead
  <2>7. CASE r.op = "publish_news"
    <3>1. Published(r)
      BY <1>2, <2>7 DEF Published
    <3>2. Offers(Own(r)) = Offers(row) /\ Own(r).status = row.status
      BY <1>4, <3>1, OffersSame
    <3>3. Fits(k, row, cards')
      BY <2>6, <3>2 DEF Fits
    <3> QED
      BY <1>1, <1>4, <2>7, <3>1, <3>3, Shows DEF CardSettled
  <2>8. CASE r.op # "publish_news"
    <3>1. /\ desk'[s].op = r.op /\ At(desk'[s]) = Follows(r.op, "card") /\ desk'[s].view = r.view /\ desk'[s].new = r.new
      BY <1>1, <2>8, Shows DEF Turn
    <3>2. At(desk'[s]) \in {"write", "commit"} /\ r.op \notin {"notify", "publish_now"} /\ ~Published(r) /\ ~Published(desk'[s])
      BY <1>2, <2>8, <3>1 DEF Follows, Doing, Published
    <3>3. SameFor(desk'[s], row)
      BY <1>4, <3>1, <3>2 DEF SameFor
    <3>4. Own(desk'[s]) = Own(r)
      BY <3>1 DEF Own
    <3> QED
      BY <1>1, <2>6, <3>1, <3>2, <3>3, <3>4 DEF SeesCard
  <2> QED
    BY <2>7, <2>8
<1> QED
  BY <1>5, <1>6

LEMMA CardCommits ==
  ASSUME DeskType, NEW s \in Sessions, desk[s].op \in CardWork, SeesCard(desk[s], row, cards, queue.publish), Commit(s)
  PROVE  \/ desk'[s] = Nobody /\ CardSettled(row', cards', queue'.publish)
         \/ desk'[s].op \in CardWork /\ SeesCard(desk'[s], row', cards', queue'.publish)
<1> DEFINE r == desk[s]
           own == Own(r)
           w == Merge(r)
<1>1. /\ row \in Row /\ SessionOK(r) /\ At(r) = "commit" /\ r.view.exists /\ cards' = cards /\ r.op \in Doing("commit")
      /\ queue.publish \in Seq(0..PublishRetries) /\ queue \in [publish : Seq(0..PublishRetries), notify : Nat]
  BY Commits DEF DeskType, Commit
<1>2. HasRead(r) /\ ~Published(r)
  BY <1>1 DEF HasRead, Published
<1>3. /\ SameFor(r, row)
      /\ r.op = "publish_now" => queue.publish # <<>>
      /\ Rebuilt(r) /\ row.card # 0 => IF r.op = "delete" THEN Dead(cards) ELSE Fits(row.card, Own(r), cards)
  BY <1>1, <1>2 DEF SeesCard
<1>4. row.exists /\ row' = w
  BY <1>1, <1>3, Commits DEF SameFor
<1>5. /\ own \in Row /\ own.card = r.view.card
      /\ r.op \notin Deletions => own.exists
      /\ r.op \in Deletions => ~own.exists
  BY <1>1, CardOwnRow
<1>6. w.exists = own.exists /\ w.status = own.status /\ w.up = own.up /\ w.card = row.card
  BY <1>1, <1>3, MergeWhat DEF SameFor
<1>7. Offers(w) = Offers(own)
  BY <1>6, OffersSame
<1> HIDE DEF w
<1>8. queue.publish # <<>> => queue'.publish # <<>>
  <2>1. queue' = queue \/ queue' = [queue EXCEPT !.publish = Append(@, 0)]
    BY Commits
  <2> QED
    BY <1>1, <2>1, QueueGrows
<1>9. CASE r.op \in {"edit", "approve", "reject", "schedule", "cancel", "unpublish"}
  <2>1. Rebuilt(r) /\ r.op \notin Deletions \cup BotWork
    BY <1>1, <1>9 DEF Rebuilt, Deletions, BotWork
  <2>2. row.card # 0 => Fits(row.card, own, cards)
    BY <1>3, <1>9, <2>1
  <2>3. desk'[s] = Nobody
    <3>1. Follows(r.op, "commit") = "nowhere"
      BY <1>9, <2>1 DEF Follows
    <3> QED
      BY <1>4, <3>1, Commits
  <2>4. CardSettled(w, cards, queue'.publish)
    BY <1>5, <1>6, <1>7, <2>1, <2>2 DEF CardSettled, Fits
  <2> QED
    BY <1>1, <1>4, <2>3, <2>4
<1>10. CASE r.op = "delete"
  <2>1. Rebuilt(r) /\ r.op \in Deletions /\ r.op \notin BotWork
    BY <1>1, <1>10 DEF Rebuilt, Deletions, BotWork
  <2>2. row.card # 0 => Dead(cards)
    BY <1>3, <1>10, <2>1
  <2>3. desk'[s] = Nobody
    <3>1. Follows(r.op, "commit") = "nowhere"
      BY <1>10, <2>1 DEF Follows
    <3> QED
      BY <1>4, <3>1, Commits
  <2>4. CardSettled(w, cards, queue'.publish)
    BY <1>5, <1>6, <2>1, <2>2 DEF CardSettled
  <2> QED
    BY <1>1, <1>4, <2>3, <2>4
<1>11. CASE r.op = "publish_now"
  <2>1. r.op \notin Deletions \cup BotWork
    BY <1>11 DEF Deletions, BotWork
  <2>2. desk'[s] = Nobody
    <3>1. Follows(r.op, "commit") = "nowhere"
      BY <1>11, <2>1 DEF Follows
    <3> QED
      BY <1>4, <3>1, Commits
  <2>3. CardSettled(w, cards, queue'.publish)
    BY <1>3, <1>5, <1>6, <1>8, <1>11, <2>1 DEF CardSettled
  <2> QED
    BY <1>1, <1>4, <2>2, <2>3
<1>12. CASE r.op \in BotWork
  <2>1. Follows(r.op, "commit") = "fresh"
    BY <1>12 DEF Follows
  <2>2. desk'[s].op = r.op /\ At(desk'[s]) = "fresh"
    BY <1>4, <2>1, Commits DEF Turn
  <2>3. w.exists \/ r.op \in {"bot_delete", "bot_purge"}
    <3>1. r.op \in Deletions => r.op \in {"bot_delete", "bot_purge"}
      BY <1>12 DEF Deletions, BotWork
    <3> QED
      BY <1>5, <1>6, <3>1
  <2>4. r.op \notin {"notify", "publish_news", "publish_now"}
    BY <1>12 DEF BotWork
  <2> QED
    BY <1>1, <1>4, <2>2, <2>3, <2>4 DEF SeesCard, HasRead, Published, Rebuilt
<1>13. CASE r.op = "publish_news"
  <2>1. Follows(r.op, "commit") = "card" /\ r.op \notin Deletions
    BY <1>13 DEF Follows, BotWork, Deletions
  <2>2. desk'[s].op = r.op /\ At(desk'[s]) = "card" /\ desk'[s].view = r.view /\ desk'[s].new = r.new
    BY <1>4, <2>1, Commits DEF Turn
  <2>3. Own(desk'[s]) = own
    BY <2>2 DEF Own
  <2>4. w.exists /\ r.view.card = w.card
    BY <1>3, <1>5, <1>6, <2>1 DEF SameFor
  <2> QED
    BY <1>1, <1>4, <1>6, <1>13, <2>2, <2>3, <2>4 DEF SeesCard, Published, Rebuilt
<1> QED
  BY <1>1, <1>9, <1>10, <1>11, <1>12, <1>13 DEF CardWork, PostWork, BotWork, Doing

LEMMA CardBot ==
  ASSUME DeskType, NEW s \in Sessions, desk[s].op \in CardWork, SeesCard(desk[s], row, cards, queue.publish),
         "card" \notin excused', Take(s) \/ Mark(s) \/ RefusesPost(s)
  PROVE  \/ desk'[s] = Nobody /\ CardSettled(row', cards', queue'.publish)
         \/ desk'[s].op \in CardWork /\ SeesCard(desk'[s], row', cards', queue'.publish)
<1> DEFINE r == desk[s]
<1>1. /\ row \in Row /\ SessionOK(r) /\ row.exists \in BOOLEAN /\ cards \in Seq(CardType) /\ Len(cards) \in Nat
      /\ queue \in [publish : Seq(0..PublishRetries), notify : Nat]
  BY RowFields DEF DeskType
<1>2. CASE Take(s)
  <2>1. /\ At(r) = "take" /\ r.op \in {"bot_approve", "bot_now"} /\ CardSettled(row, cards, queue.publish) /\ cards' = cards
        /\ r.value \in {"approved", "scheduled"}
    BY <1>2, TakesIt DEF SeesCard, Take
  <2>2. CASE Refused(r, row)
    BY <1>2, <2>1, <2>2, TakesIt
  <2>3. CASE ~Refused(r, row)
    <3>1. /\ row.exists /\ row' = [row EXCEPT !.status = desk[s].value, !.approved = desk[s].value = "scheduled"]
          /\ Turn(desk[s], desk'[s], "fresh")
      BY <1>2, <2>3, TakesIt
    <3>2. row'.exists
      BY <1>1, <3>1 DEF Row
    <3>3. desk'[s].op = r.op /\ At(desk'[s]) = "fresh"
      BY <3>1 DEF Turn
    <3> QED
      BY <2>1, <3>2, <3>3 DEF SeesCard, HasRead, Published, Rebuilt
  <2> QED
    BY <2>2, <2>3
<1>3. CASE Mark(s)
  <2>1. At(r) = "mark" /\ r.op \in BotWork /\ desk'[s] = Nobody /\ row' = row /\ queue' = queue
    BY <1>3, Marks DEF Mark
  <2>2. HasRead(r) /\ ~Published(r)
    BY <2>1 DEF HasRead, Published
  <2>3. SameFor(r, row) /\ (row.exists \/ r.op \in {"bot_delete", "bot_purge"})
    BY <2>1, <2>2 DEF SeesCard, BotWork
  <2>4. r.card # 0 /\ r.card \in Nat /\ r.card <= Len(cards)
    BY <1>1, <2>1 DEF SessionOK, DeskType
  <2>5. r.card \in 1..Len(cards)
    BY <1>1, <2>4
  <2>6. row.card \in Nat /\ row.card <= Len(cards)
    BY <1>1, RowFields DEF DeskType
  <2>7. CASE row.exists /\ row.card # 0
    <3> DEFINE x == Card(r.view, IF r.op \notin {"bot_delete", "bot_purge"} THEN Offers(r.view) ELSE {})
               k == row.card
    <3>1. k \in 1..Len(cards)
      BY <1>1, <2>6, <2>7
    <3>2. cards' = [cards EXCEPT ![k] = x]
      <4>1. \/ cards' = [cards EXCEPT ![r.view.card] =
                           Card(r.view, IF r.op \notin {"bot_delete", "bot_purge"} THEN Offers(r.view) ELSE {})]
            \/ excused' = excused \cup {"card"}
        BY <1>3, <2>3, <2>7 DEF Mark, SameFor
      <4> QED
        BY <2>3, <4>1 DEF SameFor
    <3>3. x.status = row.status /\ x.offers \subseteq Offers(row)
      <4>1. Offers(r.view) = Offers(row) /\ r.view.status = row.status
        BY <2>3, OffersSame DEF SameFor
      <4> QED
        BY <4>1 DEF Card
    <3> HIDE DEF x
    <3>4. cards'[k] = x
      BY <1>1, <3>1, <3>2, CardsWhat
    <3>5. Fits(k, row, cards')
      BY <3>3, <3>4 DEF Fits
    <3> QED
      BY <2>1, <2>7, <3>5 DEF CardSettled
  <2>8. CASE ~row.exists
    <3>1. cards' = [cards EXCEPT ![r.card].offers = {}]
      <4>1. ~r.view.exists /\ r.op \in {"bot_delete", "bot_purge"}
        BY <1>1, <2>3, <2>8 DEF SameFor
      <4>2. \/ cards' = [cards EXCEPT ![r.card].offers = {}]
            \/ excused' = excused \cup {"card"}
        BY <1>3, <2>8, <4>1 DEF Mark
      <4> QED
        BY <4>2
    <3>2. cards'[r.card].offers = {} /\ cards'[r.card] \in ToSet(cards')
      BY <1>1, <2>5, <3>1, CardsWhat
    <3>3. Dead(cards')
      BY <3>2 DEF Dead
    <3> QED
      BY <2>1, <2>8, <3>3 DEF CardSettled
  <2>9. CASE row.card = 0
    BY <2>1, <2>9 DEF CardSettled
  <2> QED
    BY <2>7, <2>8, <2>9
<1>4. CASE RefusesPost(s)
  <2>1. row' = row /\ cards' = cards /\ Goes(s, Nobody) /\ Takes(s, "show") /\ "show" \in Steps
    BY <1>4 DEF RefusesPost, Steps
  <2>2. At(r) = "show" /\ r.op = "publish_news" /\ desk'[s] = Nobody
    BY <2>1, Takings, Leaves DEF Doing
  <2>3. HasRead(r) /\ ~Published(r)
    BY <2>2 DEF HasRead, Published
  <2>4. row.exists
    BY <1>1, <2>2, <2>3 DEF SeesCard, SameFor, SessionOK
  <2>5. \/ queue' = [queue EXCEPT !.publish = Append(@, r.value + 1)]
        \/ excused' = excused \cup {"card"}
    BY <1>4 DEF RefusesPost
  <2>6. queue'.publish # <<>>
    BY <1>1, <2>5, QueueGrows
  <2> QED
    BY <2>1, <2>2, <2>4, <2>6 DEF CardSettled
<1> QED
  BY <1>2, <1>3, <1>4

LEMMA CardSent ==
  ASSUME DeskType, NEW s \in Sessions, desk[s].op \in CardWork, SeesCard(desk[s], row, cards, queue.publish),
         SendCard(s) \/ KeepCard(s)
  PROVE  \/ desk'[s] = Nobody /\ CardSettled(row', cards', queue'.publish)
         \/ desk'[s].op \in CardWork /\ SeesCard(desk'[s], row', cards', queue'.publish)
<1> DEFINE r == desk[s]
<1>1. /\ row \in Row /\ SessionOK(r) /\ row.exists \in BOOLEAN /\ cards \in Seq(CardType) /\ Len(cards) \in Nat
      /\ r.view \in Row /\ row.card \in Nat /\ row.card <= Len(cards)
  BY RowFields DEF DeskType, SessionOK
<1>2. CASE SendCard(s)
  <2>1. /\ At(r) = "offer" /\ r.op = "notify" /\ row' = row /\ queue' = queue
        /\ \/ desk'[s] = Nobody /\ UNCHANGED cards
           \/ /\ cards' = Append(cards, Card(desk[s].view, Offers(desk[s].view)))
              /\ Turn(desk[s], desk'[s], "keep") /\ desk'[s].card = Len(cards) + 1
              /\ desk'[s].view = desk[s].view
    BY <1>2, SendsCard DEF SendCard
  <2>2. HasRead(r) /\ ~Published(r)
    BY <2>1 DEF HasRead, Published
  <2>3. CardSettled(row, cards, queue.publish) /\ SameFor(r, row)
    BY <2>1, <2>2 DEF SeesCard
  <2>4. CASE desk'[s] = Nobody /\ UNCHANGED cards
    BY <2>1, <2>3, <2>4
  <2>5. CASE /\ cards' = Append(cards, Card(desk[s].view, Offers(desk[s].view)))
             /\ Turn(desk[s], desk'[s], "keep") /\ desk'[s].card = Len(cards) + 1
             /\ desk'[s].view = desk[s].view
    <3> DEFINE x == Card(desk[s].view, Offers(desk[s].view))
    <3>1. x \in CardType
      BY <1>1, OffersWhat
    <3>2. x.status = r.view.status /\ x.offers = Offers(r.view)
      BY DEF Card
    <3> HIDE DEF x
    <3>3. cards' = Append(cards, x)
      BY <2>5 DEF x
    <3>4. /\ cards'[Len(cards) + 1] = x
          /\ \A k \in 1..Len(cards) : cards'[k] = cards[k]
          /\ Dead(cards) => Dead(cards')
      BY <1>1, <3>1, <3>3, CardAdded
    <3>5. row.card # 0 => cards'[row.card] = cards[row.card]
      BY <1>1, <3>4
    <3>6. CardSettled(row, cards', queue.publish)
      BY <2>3, <3>4, <3>5 DEF CardSettled, Fits
    <3>7. Fits(Len(cards) + 1, row, cards')
      <4>1. Offers(r.view) = Offers(row) /\ r.view.status = row.status
        BY <2>3, OffersSame DEF SameFor
      <4> QED
        BY <3>2, <3>4, <4>1 DEF Fits
    <3>8. desk'[s].op = "notify" /\ At(desk'[s]) = "keep"
      BY <2>1, <2>5 DEF Turn
    <3> QED
      BY <2>1, <2>3, <2>5, <3>6, <3>7, <3>8 DEF SeesCard, SameFor, Published, Rebuilt
  <2> QED
    BY <2>1, <2>4, <2>5
<1>3. CASE KeepCard(s)
  <2>1. Takes(s, "keep") /\ "keep" \in Steps /\ Goes(s, Nobody) /\ cards' = cards /\ queue' = queue
    BY <1>3 DEF KeepCard, Steps
  <2>2. At(r) = "keep" /\ r.op = "notify" /\ desk'[s] = Nobody
    BY <2>1, Takings, Leaves DEF Doing
  <2>3. HasRead(r) /\ ~Published(r)
    BY <2>2 DEF HasRead, Published
  <2>4. SameFor(r, row) /\ Fits(r.card, row, cards)
    BY <2>2, <2>3 DEF SeesCard
  <2>5. row.exists
    BY <1>1, <2>2, <2>3, <2>4 DEF SameFor, SessionOK
  <2>6. row' = [row EXCEPT !.card = r.card]
    BY <1>3, <2>5 DEF KeepCard
  <2>7. row'.card = r.card /\ row'.status = row.status /\ row'.up = row.up /\ row'.exists
    BY <1>1, <2>5, <2>6 DEF Row
  <2>8. Fits(row'.card, row', cards')
    BY <2>1, <2>4, <2>7, OffersSame DEF Fits
  <2> QED
    BY <2>2, <2>7, <2>8 DEF CardSettled
<1> QED
  BY <1>2, <1>3

LEMMA StepCard ==
  ASSUME DeskType, Numbered, CardInv, NEW s \in Sessions, Step(s)
  PROVE  CardInv'
<1> SUFFICES ASSUME "card" \notin excused'
             PROVE  /\ \A t, u \in Sessions : desk'[t].op \in CardWork /\ desk'[u].op \in CardWork => t = u
                    /\ (\A t \in Sessions : desk'[t].op \notin CardWork) => CardSettled(row', cards', queue'.publish)
                    /\ \A t \in Sessions : desk'[t].op \in CardWork => SeesCard(desk'[t], row', cards', queue'.publish)
  BY DEF CardInv
<1>1. /\ Moves(s) /\ desk[s].op \in Operations /\ (desk'[s] = Nobody \/ desk'[s].op = desk[s].op)
      /\ "card" \notin excused
  BY StepKeeps
<1>2. Nobody.op \notin CardWork
  BY Fields DEF CardWork, PostWork
<1>3. \A t \in Sessions : t # s => desk'[t] = desk[t]
  BY <1>1, Moved DEF DeskType
<1>4. /\ \A t, u \in Sessions : desk[t].op \in CardWork /\ desk[u].op \in CardWork => t = u
      /\ (\A t \in Sessions : desk[t].op \notin CardWork) => CardSettled(row, cards, queue.publish)
      /\ \A t \in Sessions : desk[t].op \in CardWork => SeesCard(desk[t], row, cards, queue.publish)
  BY <1>1 DEF CardInv
<1>5. \A t \in Sessions : desk'[t].op \in CardWork => desk[t].op \in CardWork
  BY <1>1, <1>2, <1>3
<1>6. \A t, u \in Sessions : desk'[t].op \in CardWork /\ desk'[u].op \in CardWork => t = u
  BY <1>4, <1>5
<1>7. CASE desk[s].op \in CardWork
  <2>1. \/ desk'[s] = Nobody /\ CardSettled(row', cards', queue'.publish)
        \/ desk'[s].op \in CardWork /\ SeesCard(desk'[s], row', cards', queue'.publish)
    <3>0. SeesCard(desk[s], row, cards, queue.publish)
      BY <1>4, <1>7
    <3>1. CASE ReadRow(s) \/ Snapshot(s) \/ Takedown(s) \/ EditPost(s) \/ Fresh(s) \/ BeginPublication(s) \/ Show(s)
      BY <1>7, <3>0, <3>1, CardReads
    <3>2. CASE Write(s)
      BY <1>7, <3>0, <3>2, CardWrites
    <3>3. CASE UpdateCard(s)
      BY <1>7, <3>0, <3>3, CardUpdates
    <3>4. CASE Commit(s)
      BY <1>7, <3>0, <3>4, CardCommits
    <3>5. CASE Take(s) \/ Mark(s) \/ RefusesPost(s)
      BY <1>7, <3>0, <3>5, CardBot
    <3>6. CASE SendCard(s) \/ KeepCard(s)
      BY <1>7, <3>0, <3>6, CardSent
    <3>7. ~RequestFails(s)
      BY <1>7, SpoilsWhat DEF RequestFails
    <3>8. ~RewriteFails(s)
      BY <1>7 DEF RewriteFails, CardWork, PostWork
    <3> QED
      BY <3>1, <3>2, <3>3, <3>4, <3>5, <3>6, <3>7, <3>8 DEF Step
  <2>2. \A t \in Sessions : desk'[t].op \in CardWork => t = s
    BY <1>4, <1>5, <1>7
  <2> QED
    BY <1>2, <1>6, <2>1, <2>2
<1>8. CASE desk[s].op \notin CardWork
  <2>1. cards' = cards /\ queue' = queue /\ SameCard(row, row')
    BY <1>8, CardOfOthers
  <2>2. /\ CardSettled(row, cards, queue.publish) => CardSettled(row', cards, queue.publish)
        /\ \A r : SeesCard(r, row, cards, queue.publish) => SeesCard(r, row', cards, queue.publish)
    BY <2>1, SeesCardStays
  <2>3. \A t \in Sessions : desk'[t].op \in CardWork => desk'[t] = desk[t]
    BY <1>1, <1>2, <1>3, <1>8
  <2>4. (\A t \in Sessions : desk'[t].op \notin CardWork) => \A t \in Sessions : desk[t].op \notin CardWork
    BY <1>3, <1>8
  <2> QED
    BY <1>4, <1>6, <2>1, <2>2, <2>3, <2>4
<1> QED
  BY <1>7, <1>8

LEMMA StartsCard ==
  ASSUME DeskType, CardInv, NEW s \in Sessions, Starts(s), queue'.publish = queue.publish \/ desk'[s].op = "publish_news"
  PROVE  CardInv'
<1> SUFFICES ASSUME "card" \notin excused'
             PROVE  /\ \A t, u \in Sessions : desk'[t].op \in CardWork /\ desk'[u].op \in CardWork => t = u
                    /\ (\A t \in Sessions : desk'[t].op \notin CardWork) => CardSettled(row', cards', queue'.publish)
                    /\ \A t \in Sessions : desk'[t].op \in CardWork => SeesCard(desk'[t], row', cards', queue'.publish)
  BY DEF CardInv
<1>1. /\ Moves(s) /\ desk[s].op = "none" /\ row' = row /\ cards' = cards /\ At(desk'[s]) = First(desk'[s].op)
      /\ "card" \notin excused
      /\ desk'[s].op \in CardWork => \A t \in Sessions : desk[t].op \notin CardWork
      /\ desk'[s].op \in Operations
  BY SpoilsWhat DEF Starts
<1>2. \A t \in Sessions : t # s => desk'[t] = desk[t]
  BY <1>1, Moved DEF DeskType
<1>3. /\ \A t, u \in Sessions : desk[t].op \in CardWork /\ desk[u].op \in CardWork => t = u
      /\ (\A t \in Sessions : desk[t].op \notin CardWork) => CardSettled(row, cards, queue.publish)
      /\ \A t \in Sessions : desk[t].op \in CardWork => SeesCard(desk[t], row, cards, queue.publish)
  BY <1>1 DEF CardInv
<1>4. "none" \notin CardWork /\ "publish_news" \in CardWork
  BY DEF CardWork, PostWork
<1>5. CASE desk'[s].op \in CardWork
  <2>1. CardSettled(row, cards, queue.publish) /\ \A t \in Sessions : desk'[t].op \in CardWork => t = s
    BY <1>1, <1>2, <1>3, <1>5
  <2>2. SeesCard(desk'[s], row, cards, queue'.publish)
    <3>1. CASE desk'[s].op = "publish_news"
      <4>1. At(desk'[s]) = "begin"
        BY <1>1, <3>1 DEF First
      <4>2. row.card # 0 /\ ~row.exists => Dead(cards)
        BY <2>1 DEF CardSettled
      <4> QED
        BY <3>1, <4>1, <4>2 DEF SeesCard, HasRead, Published, Rebuilt
    <3>2. CASE desk'[s].op # "publish_news"
      <4>1. /\ At(desk'[s]) \in {"read", "take", "fresh"}
            /\ At(desk'[s]) = "fresh" => desk'[s].op = "notify"
        BY <1>1, <3>2 DEF First
      <4> QED
        BY <2>1, <3>2, <4>1 DEF SeesCard, HasRead, Published, Rebuilt
    <3> QED
      BY <3>1, <3>2
  <2> QED
    BY <1>1, <1>5, <2>1, <2>2
<1>6. CASE desk'[s].op \notin CardWork
  <2>1. \A t \in Sessions : desk'[t].op \in CardWork => desk'[t] = desk[t]
    BY <1>2, <1>6
  <2>2. \A t \in Sessions : desk[t].op \in CardWork => desk'[t] = desk[t]
    BY <1>1, <1>2, <1>4
  <2> QED
    BY <1>1, <1>3, <1>4, <1>6, <2>1, <2>2
<1> QED
  BY <1>5, <1>6

\* A publication that meets another is dropped, and the other one rebuilds the card.
LEMMA DroppedCard ==
  ASSUME DeskType, CardInv, UNCHANGED <<row, cards, desk, excused>>, \E t \in Sessions : desk[t].op = "publish_news"
  PROVE  CardInv'
<1> SUFFICES ASSUME "card" \notin excused'
             PROVE  /\ \A t, u \in Sessions : desk'[t].op \in CardWork /\ desk'[u].op \in CardWork => t = u
                    /\ (\A t \in Sessions : desk'[t].op \notin CardWork) => CardSettled(row', cards', queue'.publish)
                    /\ \A t \in Sessions : desk'[t].op \in CardWork => SeesCard(desk'[t], row', cards', queue'.publish)
  BY DEF CardInv
<1>1. PICK t \in Sessions : desk[t].op = "publish_news"
  OBVIOUS
<1>2. "publish_news" \in CardWork
  BY DEF CardWork, PostWork
<1>3. /\ \A u, v \in Sessions : desk[u].op \in CardWork /\ desk[v].op \in CardWork => u = v
      /\ SeesCard(desk[t], row, cards, queue.publish)
  BY <1>1, <1>2 DEF CardInv
<1>4. At(desk[t]) \in {"begin", "show", "commit", "card"}
  BY <1>1, Publishing DEF DeskType
<1>5. SeesCard(desk[t], row, cards, queue'.publish)
  BY <1>1, <1>3, <1>4 DEF SeesCard
<1> QED
  BY <1>1, <1>2, <1>3, <1>5

LEMMA CardStep ==
  ASSUME DeskType, Numbered, CardInv, [Next]_deskVars
  PROVE  CardInv'
<1>1. ASSUME UNCHANGED <<row, cards, desk, excused>>, queue.publish # <<>> => queue'.publish # <<>> PROVE CardInv'
  <2>1. SameCard(row, row)
    BY DEF SameCard
  <2>2. /\ CardSettled(row, cards, queue.publish) => CardSettled(row, cards, queue'.publish)
        /\ \A r : SeesCard(r, row, cards, queue.publish) => SeesCard(r, row, cards, queue'.publish)
    BY <1>1, <2>1, SeesCardStays
  <2> QED
    BY <1>1, <2>2 DEF CardInv
<1>2. CASE BulkDelete
  <2>1. "card" \in excused'
    BY <1>2 DEF BulkDelete
  <2> QED
    BY <2>1 DEF CardInv
<1>3. CASE SendToModeration \/ UNCHANGED deskVars
  <2>1. UNCHANGED <<row, cards, desk, excused>>
    BY <1>3 DEF SendToModeration, deskVars
  <2>2. queue'.publish = queue.publish
    BY <1>3 DEF SendToModeration, deskVars, DeskType
  <2> QED
    BY <1>1, <2>1, <2>2
<1>4. CASE BeatEnqueues
  <2>1. UNCHANGED <<row, cards, desk, excused>> /\ queue' = [queue EXCEPT !.publish = Append(@, 0)]
    BY <1>4 DEF BeatEnqueues
  <2>2. queue'.publish # <<>>
    BY <2>1, QueueGrows DEF DeskType
  <2> QED
    BY <1>1, <2>1, <2>2
<1>5. ASSUME NEW s \in Sessions, Asked(s) PROVE CardInv'
  BY <1>5, AskedStarts, StartsCard
<1>6. ASSUME NEW s \in Sessions, PublishTask(s) \/ NotifyTask(s) PROVE CardInv'
  BY <1>6, TasksStart, StartsCard, DroppedCard
<1>7. ASSUME NEW s \in Sessions, NEW k \in 1..Len(cards), NEW button \in cards[k].offers, Press(s, k, button) PROVE CardInv'
  BY <1>7, PressStarts, StartsCard
<1>8. ASSUME NEW s \in Sessions, Step(s) PROVE CardInv'
  BY <1>8, StepCard
<1> QED
  BY <1>2, <1>3, <1>4, <1>5, <1>6, <1>7, <1>8 DEF Next

LEMMA InitCard ==
  Init => CardInv
<1> SUFFICES ASSUME Init PROVE CardInv
  OBVIOUS
<1>1. PICK q \in Ready : /\ row = q.row /\ desk = [s \in Sessions |-> Nobody]
                         /\ cards = IF q.row.card = 1 THEN <<Card(q.row, Offers(q.row))>> ELSE <<>>
  BY DEF Init
<1>2. row.exists /\ row.card \in 0..1
  BY <1>1, DeskAssumption
<1>3. \A s \in Sessions : desk[s].op \notin CardWork
  BY <1>1, Fields DEF CardWork, PostWork
<1>4. row.card # 0 => Fits(row.card, row, cards)
  <2>1. ASSUME row.card # 0 PROVE Fits(row.card, row, cards)
    <3>1. row.card = 1 /\ cards = <<Card(row, Offers(row))>>
      BY <1>1, <1>2, <2>1
    <3>2. cards[1] = Card(row, Offers(row))
      BY <3>1
    <3> QED
      BY <3>1, <3>2 DEF Fits, Card
  <2> QED
    BY <2>1
<1> QED
  BY <1>2, <1>3, <1>4 DEF CardInv, CardSettled

\* When nobody is at work on the card, no two of its handlers overlapped and nothing went wrong
\* on the way to Telegram, the item's card shows its status and offers only what the status
\* allows; and a card by which the item was deleted offers nothing (NewsDesk.CardFits;
\* update_card, _mark_card).
THEOREM CardsAreCurrent ==
  Spec => []CardFits
<1>1. Init => CardInv
  BY InitCard
<1>2. (DeskType /\ Numbered) /\ CardInv /\ [Next]_deskVars => CardInv'
  BY CardStep
<1>3. CardInv => CardFits
  BY SpoilsWhat DEF CardInv, CardFits, Quiet, CardSettled, Fits, Dead
<1> QED
  BY <1>1, <1>2, <1>3, DeskIsTyped, PTL DEF Spec
===============================================================================
