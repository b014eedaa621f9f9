---------------------------- MODULE PostingProofs ----------------------------
(***************************************************************************)
(* What Posting satisfies for any number of ads, cities, channels, tasks,  *)
(* minutes and faults, and posts of any length.                            *)
(***************************************************************************)
EXTENDS Posting, HtmlProofs

-----------------------------------------------------------------------------
(* The calls of a post. *)

\* A sequence of requests, each a sequence of messages, and not empty.
Callable(s) == Sequence(s) /\ Len(s) >= 1 /\ \A i \in DOMAIN s : Sequence(s[i].messages)

LEMMA OneCall ==
  ASSUME NEW messages, Sequence(messages), NEW held
  PROVE  Callable(<<Request(messages, held)>>)
<1>1. DOMAIN <<Request(messages, held)>> = {1} /\ Request(messages, held).messages = messages
  BY DEF Request
<1> QED
  BY <1>1, Singleton DEF Callable

LEMMA MoreCalls ==
  ASSUME NEW s, Callable(s), NEW t, Callable(t) \/ t = <<>>
  PROVE  Callable(s \o t)
<1>1. Sequence(s) /\ Sequence(t) /\ Len(s) \in Nat /\ Len(t) \in Nat
  BY NoElement, IsSequence DEF Callable
<1>2. Sequence(s \o t) /\ Len(s \o t) = Len(s) + Len(t) /\ ToSet(s \o t) = ToSet(s) \cup ToSet(t)
  BY <1>1, Concatenation
<1>3. \A r \in ToSet(s) \cup ToSet(t) : Sequence(r.messages)
  BY NoElement DEF Callable, ToSet
<1> HIDE DEF Callable
<1>4. ASSUME NEW i \in DOMAIN (s \o t) PROVE Sequence((s \o t)[i].messages)
  <2>1. (s \o t)[i] \in ToSet(s) \cup ToSet(t)
    BY <1>2 DEF ToSet
  <2> QED
    BY <1>3, <2>1
<1> QED
  BY <1>1, <1>2, <1>4 DEF Callable

LEMMA ChunksOf ==
  ASSUME NEW s, Sequence(s), NEW size \in Nat \ {0}
  PROVE  Sequences(Chunks(s, size)) /\ (Len(s) > 0 => Len(Chunks(s, size)) > 0)
<1> DEFINE n == (Len(s) + size - 1) \div size
           c == Chunks(s, size)
<1>1. Len(s) \in Nat
  BY IsSequence
<1>2. n \in Nat /\ (Len(s) > 0 => n > 0)
  BY <1>1
<1>3. c = [k \in 1..n |-> c[k]] /\ \A k \in 1..n : c[k] = SubSeq(s, (k - 1) * size + 1, Min({k * size, Len(s)}))
  BY DEF Chunks
<1> HIDE DEF n, c
<1>4. Sequence(c) /\ Len(c) = n
  BY <1>2, <1>3, Enumerated
<1>5. ASSUME NEW k \in DOMAIN c PROVE Sequence(c[k])
  <2>1. k \in 1..n
    BY <1>4, IsSequence
  <2> DEFINE from == (k - 1) * size + 1
             to == Min({k * size, Len(s)})
  <2>2. from \in Int /\ k * size \in Int
    BY <1>2, <2>1
  <2>3. to \in Int
    BY <1>1, <2>2 DEF Min
  <2> HIDE DEF from, to
  <2>4. SubSeq(s, from, to) \in Seq({s[i] : i \in from..to})
    BY <2>2, <2>3, SubSeqProperties
  <2>5. c[k] = SubSeq(s, from, to)
    BY <1>3, <2>1 DEF from, to
  <2> QED
    BY <2>4, <2>5 DEF Sequence
<1> QED
  BY <1>2, <1>4, <1>5 DEF Sequences, c

LEMMA Positions ==
  ASSUME NEW media \in Seq(MediaTypes), NEW types
  PROVE  /\ Sequence(OfTypes(media, types))
         /\ (\E i \in DOMAIN media : media[i] \in types) => Len(OfTypes(media, types)) > 0
<1> DEFINE hits == {i \in DOMAIN media : media[i] \in types}
           p == OfTypes(media, types)
<1>1. IsFiniteSet(hits)
  <2>1. hits \subseteq 1..Len(media) /\ IsFiniteSet(1..Len(media))
    BY FS_Interval
  <2> QED
    BY <2>1, FS_Subset
<1>2. Cardinality(hits) \in Nat /\ (hits # {} => Cardinality(hits) > 0)
  BY <1>1, FS_CardinalityType, FS_EmptySet
<1>3. p = [k \in 1..Cardinality(hits) |-> p[k]]
  <2> DEFINE Nth(k) == CHOOSE i \in hits : Cardinality({j \in hits : j <= i}) = k
  <2>1. p = [k \in 1..Cardinality(hits) |-> Nth(k)]
    BY DEF OfTypes
  <2> HIDE DEF p, hits, Nth
  <2> QED
    BY <2>1
<1> HIDE DEF p, hits
<1>4. Sequence(p) /\ Len(p) = Cardinality(hits)
  BY <1>2, <1>3, Enumerated
<1> QED
  BY <1>2, <1>4 DEF p, hits

\* Every attachment is of one of the types of Groups.
LEMMA GroupsOf ==
  ASSUME NEW media \in Seq(MediaTypes), media # <<>>
  PROVE  Sequences(Groups(media)) /\ Len(Groups(media)) > 0
<1> DEFINE a == Chunks(OfTypes(media, {"photo", "video"}), AlbumMax)
           b == Chunks(OfTypes(media, {"document"}), AlbumMax)
           c == Chunks(OfTypes(media, {"audio"}), AlbumMax)
           d == Chunks(OfTypes(media, {"animation", "voice", "video_note"}), 1)
<1>1. AlbumMax \in Nat \ {0} /\ 1 \in Nat \ {0}
  BY PostAssumption
<1>2. 1 \in DOMAIN media /\ media[1] \in MediaTypes
  BY EmptySeq
<1>3. Sequences(a) /\ Sequences(b) /\ Sequences(c) /\ Sequences(d)
  BY <1>1, Positions, ChunksOf
<1>4. Len(a) > 0 \/ Len(b) > 0 \/ Len(c) > 0 \/ Len(d) > 0
  <2>1. \/ media[1] \in {"photo", "video"} \/ media[1] \in {"document"} \/ media[1] \in {"audio"}
        \/ media[1] \in {"animation", "voice", "video_note"}
    BY <1>2 DEF MediaTypes
  <2> QED
    BY <1>1, <1>2, <2>1, Positions, ChunksOf
<1> HIDE DEF a, b, c, d
<1>5. ASSUME NEW s, NEW t, Sequences(s), Sequences(t)
      PROVE  Sequences(s \o t) /\ Len(s \o t) = Len(s) + Len(t) /\ Len(s) \in Nat /\ Len(t) \in Nat
  <2>1. /\ Sequence(s \o t) /\ Len(s \o t) = Len(s) + Len(t)
        /\ ToSet(s \o t) = ToSet(s) \cup ToSet(t)
    BY <1>5, Concatenation DEF Sequences
  <2>2. \A x \in ToSet(s) \cup ToSet(t) : Sequence(x)
    BY <1>5 DEF Sequences, ToSet
  <2>3. ASSUME NEW i \in DOMAIN (s \o t) PROVE Sequence((s \o t)[i])
    BY <2>1, <2>2 DEF ToSet
  <2> QED
    BY <1>5, <2>1, <2>3, IsSequence DEF Sequences
<1>6. Sequences(a \o b) /\ Len(a \o b) = Len(a) + Len(b) /\ Len(a) \in Nat /\ Len(b) \in Nat
  BY <1>3, <1>5
<1>7. Sequences(a \o b \o c) /\ Len(a \o b \o c) = Len(a) + Len(b) + Len(c) /\ Len(c) \in Nat
  BY <1>3, <1>5, <1>6
<1>8. Sequences(a \o b \o c \o d) /\ Len(a \o b \o c \o d) = Len(a) + Len(b) + Len(c) + Len(d) /\ Len(d) \in Nat
  BY <1>3, <1>5, <1>7
<1>9. Groups(media) = a \o b \o c \o d
  BY DEF Groups, a, b, c, d
<1> QED
  BY <1>4, <1>6, <1>7, <1>8, <1>9

LEMMA GroupCalls ==
  ASSUME NEW media, NEW group, Sequence(group), NEW caption, NEW keys
  PROVE  Callable(GroupRequests(media, group, caption, keys))
<1> DEFINE one == <<Message(group[1], IF media[group[1]] = "video_note" THEN <<>> ELSE caption, keys)>>
           album == [k \in DOMAIN group |-> Message(group[k], IF k = 1 THEN caption ELSE <<>>, FALSE)]
           buttons2 == <<Message(KeysItem, <<>>, TRUE)>>
           calls == GroupRequests(media, group, caption, keys)
<1>1. Sequence(one) /\ Sequence(buttons2)
  BY Singleton
<1>2. Sequence(album)
  <2>1. DOMAIN group = 1..Len(group) /\ Len(group) \in Nat
    BY IsSequence
  <2>2. album = [k \in 1..Len(group) |-> album[k]]
    BY <2>1
  <2> HIDE DEF album
  <2> QED
    BY <2>1, <2>2, Enumerated
<1>3. \/ calls = <<Request(one, FALSE)>>
      \/ calls = <<Request(album, keys)>> \o <<Request(buttons2, FALSE)>>
      \/ calls = <<Request(album, keys)>> \o <<>>
  BY Zenon DEF GroupRequests
<1> HIDE DEF one, album, buttons2, calls
<1>4. Callable(<<Request(one, FALSE)>>) /\ Callable(<<Request(album, keys)>>) /\ Callable(<<Request(buttons2, FALSE)>>)
  BY <1>1, <1>2, OneCall
<1>5. Callable(calls)
  BY <1>3, <1>4, MoreCalls
<1> QED
  BY <1>5 DEF calls

LEMMA MediaCalls ==
  ASSUME NEW post, post.media \in Seq(MediaTypes), post.media # <<>>, NEW text
  PROVE  Callable(MediaRequests(post, text))
<1> DEFINE groups == Groups(post.media)
           caption(g) == IF g = 1 THEN Cut(text, CaptionMax) ELSE <<>>
           calls == [g \in DOMAIN groups |-> GroupRequests(post.media, groups[g], caption(g), g = 1 /\ post.keys)]
<1>1. Sequences(groups) /\ Len(groups) > 0
  BY GroupsOf
<1>2. Len(groups) \in Nat /\ DOMAIN groups = 1..Len(groups)
  BY <1>1, IsSequence DEF Sequences
<1> HIDE DEF groups, caption
<1>3. calls = [g \in 1..Len(groups) |-> calls[g]]
  BY <1>2
<1>4. \A g \in DOMAIN groups : Callable(calls[g])
  <2>1. ASSUME NEW g \in DOMAIN groups PROVE Callable(calls[g])
    <3>1. Sequence(groups[g])
      BY <1>1 DEF Sequences
    <3>2. Callable(GroupRequests(post.media, groups[g], caption(g), g = 1 /\ post.keys))
      BY <3>1, GroupCalls
    <3> QED
      BY <3>2
  <2> QED
    BY <2>1
<1>5. MediaRequests(post, text) = FlattenSeq(calls)
  BY DEF MediaRequests, groups, caption
<1> HIDE DEF calls
<1>6. Sequence(calls) /\ Len(calls) = Len(groups) /\ DOMAIN calls = DOMAIN groups
  BY <1>2, <1>3, Enumerated, IsSequence
<1>7. Sequences(calls)
  BY <1>4, <1>6 DEF Sequences, Callable
<1> DEFINE all == FlattenSeq(calls)
<1>8. Sequence(all) /\ ToSet(all) = UNION {ToSet(calls[i]) : i \in DOMAIN calls}
  BY <1>7, Flattened
<1> HIDE DEF all
<1>9. ASSUME NEW i \in DOMAIN all PROVE Sequence(all[i].messages)
  <2>1. PICK g \in DOMAIN calls : all[i] \in ToSet(calls[g])
    BY <1>8 DEF ToSet
  <2>2. Callable(calls[g])
    BY <1>4, <1>6, <2>1
  <2>3. PICK k \in DOMAIN calls[g] : all[i] = calls[g][k]
    BY <2>1 DEF ToSet
  <2> QED
    BY <2>2, <2>3 DEF Callable
<1>10. Len(all) >= 1
  <2>1. 1 \in DOMAIN calls /\ Callable(calls[1])
    BY <1>1, <1>2, <1>4, <1>6
  <2>2. 1 \in DOMAIN calls[1]
    BY <2>1, IsSequence DEF Callable
  <2>3. calls[1][1] \in ToSet(all)
    <3>1. calls[1][1] \in ToSet(calls[1])
      BY <2>2 DEF ToSet
    <3> QED
      BY <1>8, <2>1, <3>1
  <2>4. DOMAIN all # {}
    BY <2>3 DEF ToSet
  <2> QED
    BY <1>8, <2>4, IsSequence
<1> QED
  BY <1>5, <1>8, <1>9, <1>10 DEF all, Callable

\* A post is at least one call, and each is a sequence of messages.
LEMMA PostCalls ==
  ASSUME NEW post, post.media \in Seq(MediaTypes), NEW whole
  PROVE  Callable(Requests(post, whole))
<1> DEFINE text == Cut(whole, TextMax)
           says == SaysText(post, text)
           shows == MediaRequests(post, text)
           place == <<Request(<<Message(PlaceItem, <<>>, FALSE)>>, FALSE)>>
           calls == Requests(post, whole)
           more == IF Len(text) > CaptionMax THEN says ELSE <<>>
           first == IF post.media = <<>> THEN says ELSE shows \o more
<1>1. Callable(says)
  BY Singleton, OneCall DEF SaysText
<1>2. Callable(place)
  BY Singleton, OneCall
<1>3. post.media # <<>> => Callable(shows)
  BY MediaCalls
<1>4. calls = first \o (IF post.place THEN place ELSE <<>>)
  BY DEF Requests
<1> HIDE DEF says, shows, place, calls, text
<1>5. Callable(first)
  <2>1. CASE post.media = <<>>
    BY <1>1, <2>1
  <2>2. CASE post.media # <<>>
    <3>1. Callable(more) \/ more = <<>>
      BY <1>1
    <3> HIDE DEF more
    <3>2. Callable(shows \o more)
      BY <1>3, <2>2, <3>1, MoreCalls
    <3> QED
      BY <2>2, <3>2
  <2> QED
    BY <2>1, <2>2
<1> HIDE DEF first
<1>6. Callable(calls)
  BY <1>2, <1>4, <1>5, MoreCalls
<1> QED
  BY <1>6 DEF calls

-----------------------------------------------------------------------------
(* Types.  What is being sent, and what is shown. *)

Subjects == AdIds \cup UNION {ChannelsOf[c] : c \in WeatherCities}
Labels == [by : {"nobody", "beat", "hand", "button"}, about : SUBSET Subjects, at : Nat, serial : Nat]
Ids == Labels \X (1..2) \X (Nat \ {0}) \X (Nat \ {0})
KnownPosts == Posts \cup {NoPost, WeatherPost}
KnownTexts == {<<>>} \cup {Sanitize(p.text) : p \in KnownPosts}
                     \cup {Sanitize(StripEmoji(Sanitize(p.text))) : p \in KnownPosts}

Calls == [pc : {"none", "sending", "undoing", "over"}, label : Labels, post : KnownPosts, text : KnownTexts,
          attempt : 1..2, made : Nat, undo : Seq(Ids), why : {"", "parse", "refuse", "emoji", "answer"},
          ok : BOOLEAN, stray : BOOLEAN]

\* A first attempt sends the text as it was sanitized; while a call is sending, a
\* request is left; it deletes messages of its own.
CallOK(r) ==
  /\ r \in Calls
  /\ r.pc # "none" => r.label.serial > 0
  /\ \A m \in ToSet(r.undo) : m[1] = r.label
  /\ r.ok => r.pc = "over"
  /\ r.pc # "none" /\ r.attempt = 1 => r.text = Sanitize(r.post.text)
  /\ r.made <= Len(RequestsOf(r))
  /\ r.pc = "sending" => r.made < Len(RequestsOf(r))

\* Unless an answer or a deletion failed, or an album's buttons, the channels
\* show what a call has sent, and of what it could not send nothing.
Sent(r) == UNION {ToSet(IdsOf(r, n)) : n \in 1..r.made}
AccountedFor(r, messages) ==
  LET its == {m \in messages : m[1] = r.label} IN
  ~r.stray =>
    /\ r.pc = "sending" => its = Sent(r)
    /\ r.pc = "undoing" => its \subseteq ToSet(r.undo)
    /\ r.pc = "over" /\ r.ok => r.made = Len(RequestsOf(r)) /\ its = Sent(r)
    /\ r.pc = "over" /\ ~r.ok => its = {}

\* Posts are numbered.
PostOK ==
  /\ call \in [Callers -> Calls] /\ \A c \in Callers : CallOK(call[c])
  /\ shown \subseteq Ids /\ posts \in Nat /\ postFaults \in 0..MaxPostFaults
  /\ \A c \in Callers : call[c].label.serial <= posts
  /\ \A c, d \in Callers : call[c].pc # "none" /\ call[d].pc # "none" /\ c # d => call[c].label.serial # call[d].label.serial
  /\ \A m \in shown : m[1].serial \in 1..posts
  /\ \A c \in Callers : call[c].pc # "none" => AccountedFor(call[c], shown)

LEMMA PostMedia ==
  ASSUME NEW post \in KnownPosts
  PROVE  post.media \in Seq(MediaTypes)
<1>1. <<>> \in Seq(MediaTypes)
  BY EmptySeq
<1>2. CASE post \in Posts
  <2> DEFINE medias == Seq(MediaTypes)
  <2> HIDE DEF medias
  <2>1. Posts = [media : medias, text : Texts, keys : BOOLEAN, place : BOOLEAN]
    BY DEF Posts, medias
  <2>2. post.media \in medias
    BY <1>2, <2>1
  <2> QED
    BY <2>2 DEF medias
<1>3. CASE post \in {NoPost, WeatherPost}
  <2>1. NoPost.media = <<>>
    BY DEF NoPost
  <2>2. WeatherPost.media = NoPost.media
    <3> DEFINE said == <<Char>>
    <3> HIDE DEF said
    <3>1. WeatherPost = [NoPost EXCEPT !.text = said]
      BY DEF WeatherPost, said
    <3> QED
      BY <3>1 DEF NoPost
  <2> QED
    BY <1>1, <1>3, <2>1, <2>2
<1> QED
  BY <1>2, <1>3 DEF KnownPosts

LEMMA CallsOf ==
  ASSUME NEW r \in Calls
  PROVE  Callable(RequestsOf(r)) /\ Len(RequestsOf(r)) \in Nat /\ DOMAIN RequestsOf(r) = 1..Len(RequestsOf(r))
<1>1. r.post.media \in Seq(MediaTypes)
  <2>1. r.post \in KnownPosts
    BY DEF Calls
  <2> QED
    BY <2>1, PostMedia
<1>2. Callable(RequestsOf(r))
  BY <1>1, PostCalls DEF RequestsOf
<1> QED
  BY <1>2, IsSequence DEF Callable

\* The messages of a call.
LEMMA IdsOfCall ==
  ASSUME NEW r \in Calls, NEW n \in 1..Len(RequestsOf(r))
  PROVE  /\ IdsOf(r, n) \in Seq(Ids)
         /\ \A m \in ToSet(IdsOf(r, n)) : m \in Ids /\ m[1] = r.label /\ m[2] = r.attempt /\ m[3] = n
<1> DEFINE messages == RequestsOf(r)[n].messages
           ids == IdsOf(r, n)
<1>1. Sequence(messages)
  <2>1. Callable(RequestsOf(r)) /\ DOMAIN RequestsOf(r) = 1..Len(RequestsOf(r))
    BY CallsOf
  <2> QED
    BY <2>1 DEF Callable
<1>2. Len(messages) \in Nat /\ DOMAIN messages = 1..Len(messages)
  BY <1>1, IsSequence
<1>3. r.label \in Labels /\ r.attempt \in 1..2 /\ n \in Nat \ {0}
  <2>1. Len(RequestsOf(r)) \in Nat
    BY CallsOf
  <2>2. n \in Nat \ {0}
    BY <2>1
  <2>3. r.label \in Labels /\ r.attempt \in 1..2
    BY DEF Calls
  <2> QED
    BY <2>2, <2>3
<1>4. ids = [k \in 1..Len(messages) |-> <<r.label, r.attempt, n, k>>]
  BY <1>2 DEF IdsOf
<1> HIDE DEF messages, ids, Calls
<1>5. \A k \in 1..Len(messages) : <<r.label, r.attempt, n, k>> \in Ids
  BY <1>2, <1>3 DEF Ids
<1>6. ids \in Seq(Ids)
  BY <1>2, <1>4, <1>5
<1>7. DOMAIN ids = 1..Len(messages)
  BY <1>4
<1> QED
  BY <1>4, <1>5, <1>6, <1>7 DEF ids, ToSet

LEMMA KnownIds ==
  ASSUME NEW r, CallOK(r)
  PROVE  /\ Known(r) \in Seq(Ids)
         /\ ToSet(Known(r)) = UNION {ToSet(IdsOf(r, n)) : n \in 1..(IF Outstanding(r) THEN r.made - 1 ELSE r.made)}
<1> DEFINE last == IF Outstanding(r) THEN r.made - 1 ELSE r.made
           groups == [n \in 1..last |-> IdsOf(r, n)]
<1>1. r \in Calls /\ r.made \in Nat /\ r.made <= Len(RequestsOf(r))
  BY DEF CallOK, Calls
<1>2. last \in Nat /\ last <= Len(RequestsOf(r)) /\ Len(RequestsOf(r)) \in Nat
  BY <1>1, CallsOf DEF Outstanding
<1> HIDE DEF last
<1>3. ASSUME NEW n \in 1..last PROVE groups[n] \in Seq(Ids)
  <2>1. n \in 1..Len(RequestsOf(r))
    BY <1>2
  <2> QED
    BY <1>1, <2>1, IdsOfCall
<1>4. groups = [n \in 1..last |-> groups[n]] /\ \A n \in 1..last : groups[n] = IdsOf(r, n)
  OBVIOUS
<1>5. Known(r) = FlattenSeq(groups)
  BY DEF Known, last
<1> HIDE DEF groups
<1>6. Sequence(groups) /\ DOMAIN groups = 1..last
  BY <1>2, <1>4, Enumerated
<1>7. Sequences(groups)
  BY <1>3, <1>6 DEF Sequences, Sequence
<1>8. Sequence(FlattenSeq(groups)) /\ ToSet(FlattenSeq(groups)) = UNION {ToSet(groups[n]) : n \in 1..last}
  BY <1>6, <1>7, Flattened
<1>9. UNION {ToSet(groups[n]) : n \in 1..last} = UNION {ToSet(IdsOf(r, n)) : n \in 1..last}
  BY <1>4
<1> DEFINE all == FlattenSeq(groups)
<1>10. ASSUME NEW i \in DOMAIN all PROVE all[i] \in Ids
  <2>1. PICK n \in 1..last : all[i] \in ToSet(groups[n])
    BY <1>8 DEF ToSet
  <2>2. groups[n] \in Seq(Ids)
    BY <1>3
  <2> QED
    BY <2>1, <2>2 DEF ToSet
<1>11. all \in Seq(Ids)
  <2> HIDE DEF all
  <2> QED
    BY <1>8, <1>10, InSeq DEF all
<1> QED
  BY <1>5, <1>8, <1>9, <1>11 DEF last

\* What a call sends does not depend on how far it is.
SameCalls(r, s) == s.post = r.post /\ s.text = r.text /\ s.label = r.label /\ s.attempt = r.attempt

LEMMA SameIds ==
  ASSUME NEW r, NEW s, SameCalls(r, s)
  PROVE  RequestsOf(s) = RequestsOf(r) /\ \A n : IdsOf(s, n) = IdsOf(r, n)
<1>1. RequestsOf(s) = RequestsOf(r)
  BY DEF RequestsOf, SameCalls
<1> QED
  BY <1>1 DEF IdsOf, SameCalls

LEMMA SentMore ==
  ASSUME NEW r \in Calls, NEW s, SameCalls(r, s), s.made = r.made + 1
  PROVE  Sent(s) = Sent(r) \cup ToSet(IdsOf(r, r.made + 1))
<1>1. r.made \in Nat
  BY DEF Calls
<1>2. 1..s.made = (1..r.made) \cup {r.made + 1}
  BY <1>1
<1>3. Sent(s) = UNION {ToSet(IdsOf(r, n)) : n \in 1..s.made}
  BY SameIds DEF Sent
<1> QED
  BY <1>2, <1>3 DEF Sent

\* A step of a post is a step of its call, and shows or deletes its messages.
StepOf(r, s) == CallOK(s) /\ s.label = r.label /\ r.pc # "none" /\ s.pc # "none"
Touches(r) ==
  /\ shown' \subseteq Ids
  /\ \A m \in shown \cup shown' : m[1] # r.label => m \in shown \cap shown'
  /\ posts' = posts /\ postFaults' \in 0..MaxPostFaults

Moves(c) ==
  /\ call' = [call EXCEPT ![c] = call'[c]] /\ StepOf(call[c], call'[c])
  /\ Touches(call[c]) /\ AccountedFor(call'[c], shown')

LEMMA Delivers ==
  ASSUME PostOK, NEW c \in Callers, Deliver(c)
  PROVE  Moves(c)
<1> DEFINE r == call[c]
           n == r.made + 1
           last == n = Len(RequestsOf(r))
           s == [r EXCEPT !.made = n, !.pc = IF last THEN "over" ELSE "sending", !.ok = last]
           new == ToSet(IdsOf(r, n))
<1>1. r \in Calls /\ CallOK(r) /\ AccountedFor(r, shown) /\ shown \subseteq Ids /\ postFaults \in 0..MaxPostFaults
  BY DEF PostOK, Deliver, Sending
<1>2. call' = [call EXCEPT ![c] = s] /\ r.pc = "sending" /\ shown' = shown \cup new /\ posts' = posts /\ postFaults' = postFaults
  BY DEF Deliver, Sending, Shows
<1>3. call'[c] = s
  BY <1>2 DEF PostOK
<1>4. r.made \in Nat /\ Len(RequestsOf(r)) \in Nat /\ r.made < Len(RequestsOf(r))
  BY <1>1, <1>2, CallsOf DEF CallOK, Calls
<1>5. n \in 1..Len(RequestsOf(r)) /\ n \in Nat
  BY <1>4
<1>6. \A m \in new : m \in Ids /\ m[1] = r.label
  BY <1>1, <1>5, IdsOfCall
<1>7. /\ s \in Calls /\ SameCalls(r, s) /\ s.made = n /\ s.undo = r.undo /\ s.stray = r.stray /\ (s.ok <=> last)
      /\ s.pc = IF last THEN "over" ELSE "sending"
  BY <1>1, <1>5 DEF Calls, SameCalls
<1> HIDE DEF r, new, s
<1>8. RequestsOf(s) = RequestsOf(r)
  BY <1>7, SameIds
<1>9. CallOK(s)
  BY <1>1, <1>2, <1>4, <1>5, <1>7, <1>8 DEF CallOK, SameCalls
<1>10. Sent(s) = Sent(r) \cup new
  BY <1>1, <1>7, SentMore DEF new
<1>11. {m \in shown' : m[1] = s.label} = {m \in shown : m[1] = r.label} \cup new
  BY <1>2, <1>6, <1>7 DEF SameCalls
<1>12. AccountedFor(s, shown')
  BY <1>1, <1>2, <1>7, <1>8, <1>10, <1>11 DEF AccountedFor
<1>13. Touches(r)
  BY <1>1, <1>2, <1>6 DEF Touches
<1>14. StepOf(r, s)
  BY <1>2, <1>7, <1>9 DEF StepOf, SameCalls
<1> QED
  BY <1>2, <1>3, <1>12, <1>13, <1>14 DEF r, Moves

\* What fails is cleaned up after.
LEMMA FailsOK ==
  ASSUME NEW r, CallOK(r), r.pc = "sending", NEW why \in {"parse", "refuse", "emoji", "answer"}
  PROVE  LET s == [r EXCEPT !.pc = "undoing", !.undo = Known(r), !.why = why, !.stray = r.stray \/ why = "answer" \/ Outstanding(r)]
         IN  StepOf(r, s) /\ (s.stray \/ (~r.stray /\ ToSet(s.undo) = Sent(r)))
<1> DEFINE s == [r EXCEPT !.pc = "undoing", !.undo = Known(r), !.why = why, !.stray = r.stray \/ why = "answer" \/ Outstanding(r)]
<1>1. r \in Calls /\ r.made \in Nat /\ r.made <= Len(RequestsOf(r)) /\ Len(RequestsOf(r)) \in Nat
  BY CallsOf DEF CallOK, Calls
<1>2. Known(r) \in Seq(Ids)
  BY KnownIds
<1>3. \A m \in ToSet(Known(r)) : m[1] = r.label
  <2> SUFFICES ASSUME NEW m \in ToSet(Known(r)) PROVE m[1] = r.label
    OBVIOUS
  <2>1. PICK n \in 1..(IF Outstanding(r) THEN r.made - 1 ELSE r.made) : m \in ToSet(IdsOf(r, n))
    BY KnownIds
  <2>2. n \in 1..Len(RequestsOf(r))
    BY <1>1, <2>1
  <2> QED
    BY <1>1, <2>1, <2>2, IdsOfCall
<1>4. ~Outstanding(r) => ToSet(Known(r)) = Sent(r)
  BY KnownIds DEF Sent
<1> DEFINE known == Known(r)
           out == Outstanding(r)
<1>5. out \in BOOLEAN
  BY DEF Outstanding
<1> HIDE DEF known, out
<1>6. s = [r EXCEPT !.pc = "undoing", !.undo = known, !.why = why, !.stray = r.stray \/ why = "answer" \/ out]
  BY DEF known, out
<1> HIDE DEF s
<1>7. /\ s \in Calls /\ SameCalls(r, s) /\ s.made = r.made /\ s.undo = known /\ s.pc = "undoing"
      /\ s.stray <=> (r.stray \/ why = "answer" \/ out)
      /\ s.ok = r.ok
  BY <1>1, <1>2, <1>5, <1>6 DEF Calls, SameCalls, known
<1>8. RequestsOf(s) = RequestsOf(r)
  BY <1>7, SameIds
<1>9. CallOK(s)
  BY <1>1, <1>3, <1>7, <1>8 DEF CallOK, SameCalls, known
<1>10. StepOf(r, s)
  BY <1>7, <1>9 DEF StepOf, SameCalls
<1>11. s.stray \/ (~r.stray /\ ToSet(s.undo) = Sent(r))
  BY <1>4, <1>7 DEF known, out
<1> QED
  BY <1>10, <1>11 DEF s

LEMMA FailsMoves ==
  ASSUME PostOK, NEW c \in Callers, Sending(c), NEW why \in {"parse", "refuse", "emoji", "answer"}, Fails(c, why),
         shown' = shown \/ (Shows(c) /\ why = "answer"), posts' = posts, postFaults' \in 0..MaxPostFaults
  PROVE  Moves(c)
<1> DEFINE r == call[c]
           s == [r EXCEPT !.pc = "undoing", !.undo = Known(r), !.why = why, !.stray = r.stray \/ why = "answer" \/ Outstanding(r)]
           new == ToSet(IdsOf(r, r.made + 1))
<1>1. r \in Calls /\ CallOK(r) /\ AccountedFor(r, shown) /\ shown \subseteq Ids /\ r.pc = "sending"
  BY DEF PostOK, Sending
<1>2. call' = [call EXCEPT ![c] = s] /\ call'[c] = s
  <2>1. call' = [call EXCEPT ![c] = s]
    BY DEF Fails
  <2> QED
    BY <2>1 DEF PostOK
<1>3. StepOf(r, s) /\ (s.stray \/ (~r.stray /\ ToSet(s.undo) = Sent(r)))
  BY <1>1, FailsOK
<1>4. s.pc = "undoing" /\ (why = "answer" => s.stray)
  BY <1>1 DEF Calls
<1>5. \A m \in new : m \in Ids /\ m[1] = r.label
  <2>1. r.made + 1 \in 1..Len(RequestsOf(r))
    <3>1. r.made \in Nat /\ Len(RequestsOf(r)) \in Nat /\ r.made < Len(RequestsOf(r))
      BY <1>1, CallsOf DEF CallOK, Calls
    <3> QED
      BY <3>1
  <2> QED
    BY <1>1, <2>1, IdsOfCall
<1> HIDE DEF s, new
<1>6. Touches(r)
  BY <1>1, <1>5 DEF Touches, Shows, new
<1>7. ~s.stray => shown' = shown
  BY <1>4
<1>8. AccountedFor(s, shown')
  BY <1>1, <1>3, <1>4, <1>7 DEF AccountedFor, StepOf
<1> QED
  BY <1>2, <1>3, <1>6, <1>8 DEF Moves

\* One message less.
LEMMA Undoes ==
  ASSUME PostOK, NEW c \in Callers, Undo(c)
  PROVE  Moves(c)
<1> DEFINE r == call[c]
           one == [r EXCEPT !.undo = Tail(@)]
           other == [r EXCEPT !.undo = Tail(@), !.stray = TRUE]
<1>1. r \in Calls /\ CallOK(r) /\ AccountedFor(r, shown) /\ shown \subseteq Ids /\ r.pc = "undoing" /\ r.undo # <<>>
  BY DEF PostOK, Undo
<1>2. r.undo \in Seq(Ids) /\ Tail(r.undo) \in Seq(Ids) /\ r.undo[1] \in ToSet(r.undo)
      /\ ToSet(r.undo) \subseteq {r.undo[1]} \cup ToSet(Tail(r.undo)) /\ ToSet(Tail(r.undo)) \subseteq ToSet(r.undo)
  <2>1. r.undo \in Seq(Ids)
    BY <1>1 DEF Calls
  <2>2. Tail(r.undo) \in Seq(Ids) /\ Len(Tail(r.undo)) = Len(r.undo) - 1 /\ Len(r.undo) \in Nat \ {0}
    BY <1>1, <2>1
  <2>3. \A i \in 1..(Len(r.undo) - 1) : Tail(r.undo)[i] = r.undo[i + 1]
    BY <1>1, <2>1
  <2>4. \A i \in 1..Len(r.undo) : i = 1 \/ (i - 1 \in 1..(Len(r.undo) - 1) /\ r.undo[i] = Tail(r.undo)[i - 1])
    BY <2>2, <2>3
  <2>5. DOMAIN r.undo = 1..Len(r.undo) /\ DOMAIN Tail(r.undo) = 1..(Len(r.undo) - 1)
    BY <2>1, <2>2
  <2> QED
    BY <2>1, <2>2, <2>3, <2>4, <2>5 DEF ToSet
<1>3. /\ posts' = posts
      /\ \/ shown' = shown \ {Head(r.undo)} /\ call' = [call EXCEPT ![c] = one] /\ postFaults' = postFaults
         \/ PostFault("delete") /\ call' = [call EXCEPT ![c] = other] /\ shown' = shown
  BY DEF Undo
<1>4. Head(r.undo) = r.undo[1]
  BY <1>1, <1>2
<1>5. postFaults' \in 0..MaxPostFaults
  BY <1>3, PostAssumption DEF PostFault, PostOK
<1>6. Touches(r)
  BY <1>1, <1>2, <1>3, <1>4, <1>5 DEF Touches, CallOK
<1>7. ASSUME NEW s \in {one, other} PROVE StepOf(r, s) /\ s.undo = Tail(r.undo) /\ s.pc = "undoing"
  <2>1. s \in Calls /\ SameCalls(r, s) /\ s.made = r.made /\ s.undo = Tail(r.undo) /\ s.pc = "undoing" /\ s.ok = r.ok
    BY <1>1, <1>2 DEF Calls, SameCalls
  <2> HIDE DEF one, other, r
  <2>2. RequestsOf(s) = RequestsOf(r)
    BY <2>1, SameIds
  <2> QED
    BY <1>1, <1>2, <2>1, <2>2 DEF CallOK, SameCalls, StepOf
<1>8. CASE shown' = shown \ {Head(r.undo)} /\ call' = [call EXCEPT ![c] = one]
  <2>1. call'[c] = one /\ one.stray = r.stray
    BY <1>1, <1>8 DEF PostOK, Calls
  <2> HIDE DEF one, other
  <2>2. AccountedFor(one, shown')
    BY <1>1, <1>2, <1>4, <1>7, <1>8, <2>1 DEF AccountedFor, StepOf
  <2> QED
    BY <1>6, <1>7, <1>8, <2>1, <2>2 DEF Moves
<1>9. CASE call' = [call EXCEPT ![c] = other]
  <2>1. call'[c] = other /\ other.stray
    BY <1>1, <1>9 DEF PostOK, Calls
  <2> HIDE DEF one, other
  <2>2. AccountedFor(other, shown')
    BY <2>1 DEF AccountedFor
  <2> QED
    BY <1>6, <1>7, <1>9, <2>1, <2>2 DEF Moves
<1> QED
  BY <1>3, <1>8, <1>9

LEMMA AgainTyped ==
  ASSUME NEW r \in Calls, NEW text \in KnownTexts, ~r.ok
  PROVE  LET again == [r EXCEPT !.pc = "sending", !.attempt = 2, !.made = 0, !.text = text]
         IN  /\ again \in Calls /\ again.label = r.label /\ again.undo = r.undo /\ again.made = 0 /\ again.attempt = 2
             /\ again.pc = "sending" /\ again.stray = r.stray /\ ~again.ok
<1> DEFINE again == [r EXCEPT !.pc = "sending", !.attempt = 2, !.made = 0, !.text = text]
<1>1. again \in Calls
  <2>1. 2 \in 1..2 /\ 0 \in Nat
    OBVIOUS
  <2> QED
    BY <2>1 DEF Calls
<1>2. /\ again.label = r.label /\ again.undo = r.undo /\ again.made = 0 /\ again.attempt = 2
      /\ again.pc = "sending" /\ again.stray = r.stray /\ again.ok = r.ok
  BY DEF Calls
<1> QED
  BY <1>1, <1>2

\* The second attempt starts from nothing; the text it sends was sanitized before
\* its custom emoji were taken out.
LEMMA UndoneMoves ==
  ASSUME PostOK, NEW c \in Callers, Undone(c)
  PROVE  Moves(c)
<1> DEFINE r == call[c]
           text == Sanitize(StripEmoji(r.text))
           again == [r EXCEPT !.pc = "sending", !.attempt = 2, !.made = 0, !.text = text]
           over == [r EXCEPT !.pc = "over"]
<1>1. r \in Calls /\ CallOK(r) /\ AccountedFor(r, shown) /\ shown \subseteq Ids /\ r.pc = "undoing" /\ r.undo = <<>>
  BY DEF PostOK, Undone
<1>2. /\ shown' = shown /\ posts' = posts /\ postFaults' = postFaults
      /\ \/ r.attempt = 1 /\ call' = [call EXCEPT ![c] = again]
         \/ call' = [call EXCEPT ![c] = over] /\ (r.why # "emoji" \/ r.attempt # 1)
  BY DEF Undone
<1>3. Touches(r)
  BY <1>1, <1>2 DEF Touches, PostOK
<1>4. ToSet(r.undo) = {} /\ (~r.stray => {m \in shown : m[1] = r.label} = {})
  <2>1. ToSet(r.undo) = {}
    BY <1>1, NoElement DEF ToSet
  <2> QED
    BY <1>1, <2>1 DEF AccountedFor
<1>5. CASE r.attempt = 1 /\ call' = [call EXCEPT ![c] = again]
  <2>1. text \in KnownTexts
    <3>1. r.text = Sanitize(r.post.text) /\ r.post \in KnownPosts
      BY <1>1, <1>5 DEF CallOK, Calls
    <3> QED
      BY <3>1 DEF KnownTexts
  <2> HIDE DEF text
  <2>2. call'[c] = again
    BY <1>5 DEF PostOK
  <2>3. /\ again \in Calls /\ again.label = r.label /\ again.undo = r.undo /\ again.made = 0 /\ again.attempt = 2
        /\ again.pc = "sending" /\ again.stray = r.stray /\ ~again.ok
    <3>1. ~r.ok
      BY <1>1 DEF CallOK
    <3>2. r \in Calls
      BY <1>1
    <3> HIDE DEF r
    <3> QED
      BY <2>1, <3>1, <3>2, AgainTyped
  <2> HIDE DEF again, r
  <2>4. Len(RequestsOf(again)) \in Nat /\ Len(RequestsOf(again)) > 0
    <3>1. Callable(RequestsOf(again)) /\ Len(RequestsOf(again)) \in Nat
      BY <2>3, CallsOf
    <3> QED
      BY <3>1 DEF Callable
  <2>5. CallOK(again)
    BY <1>1, <2>3, <2>4 DEF CallOK
  <2>6. Sent(again) = {}
    <3>1. 1..again.made = {}
      BY <2>3
    <3> QED
      BY <3>1 DEF Sent
  <2>7. AccountedFor(again, shown')
    BY <1>2, <1>4, <2>3, <2>6 DEF AccountedFor
  <2> QED
    BY <1>1, <1>3, <1>5, <2>2, <2>3, <2>5, <2>7 DEF Moves, StepOf, r
<1>6. CASE call' = [call EXCEPT ![c] = over]
  <2>1. call'[c] = over
    BY <1>6 DEF PostOK
  <2>2. over \in Calls /\ SameCalls(r, over) /\ over.undo = r.undo /\ over.made = r.made /\ over.pc = "over" /\ over.stray = r.stray /\ over.ok = r.ok
    BY <1>1 DEF Calls, SameCalls
  <2>3. r.ok = FALSE
    BY <1>1 DEF CallOK
  <2> HIDE DEF over, r
  <2>4. RequestsOf(over) = RequestsOf(r)
    BY <2>2, SameIds
  <2>5. CallOK(over)
    BY <1>1, <2>2, <2>3, <2>4 DEF CallOK, SameCalls
  <2>6. AccountedFor(over, shown')
    BY <1>2, <1>4, <2>2, <2>3 DEF AccountedFor, SameCalls
  <2> QED
    BY <1>1, <1>3, <1>6, <2>1, <2>2, <2>5, <2>6 DEF Moves, StepOf, SameCalls, r
<1> QED
  BY <1>2, <1>5, <1>6

LEMMA PostMoves ==
  ASSUME PostOK, NEW c \in Callers, PostStep(c)
  PROVE  Moves(c)
<1>1. postFaults \in 0..MaxPostFaults /\ \A kind : PostFault(kind) => postFaults' \in 0..MaxPostFaults
  BY PostAssumption DEF PostOK, PostFault
<1>2. CASE Deliver(c)
  BY <1>2, Delivers
<1>3. CASE Refuse(c)
  <2>1. Sending(c) /\ shown' = shown /\ posts' = posts /\ postFaults' \in 0..MaxPostFaults
    BY <1>1, <1>3 DEF Refuse
  <2>2. Fails(c, "parse") \/ Fails(c, "refuse")
    BY <1>3 DEF Refuse
  <2> QED
    BY <2>1, <2>2, FailsMoves
<1>4. CASE RefuseEmoji(c)
  <2>1. Sending(c) /\ shown' = shown /\ posts' = posts /\ postFaults' \in 0..MaxPostFaults /\ Fails(c, "emoji")
    BY <1>1, <1>4 DEF RefuseEmoji
  <2> QED
    BY <2>1, FailsMoves
<1>5. CASE LoseAnswer(c)
  <2>1. Sending(c) /\ Shows(c) /\ posts' = posts /\ postFaults' \in 0..MaxPostFaults /\ Fails(c, "answer")
    BY <1>1, <1>5 DEF LoseAnswer
  <2> QED
    BY <2>1, FailsMoves
<1>6. CASE Undo(c)
  BY <1>6, Undoes
<1>7. CASE Undone(c)
  BY <1>7, UndoneMoves
<1> QED
  BY <1>2, <1>3, <1>4, <1>5, <1>6, <1>7 DEF PostStep

LEMMA MovesOK ==
  ASSUME PostOK, NEW c \in Callers, Moves(c)
  PROVE  PostOK'
<1> DEFINE r == call[c]
           s == call'[c]
<1>1. CallOK(s) /\ s \in Calls /\ s.label = r.label /\ r.pc # "none" /\ s.pc # "none" /\ AccountedFor(s, shown')
  BY DEF Moves, StepOf, CallOK
<1>2. call' \in [Callers -> Calls] /\ \A d \in Callers : call'[d] = IF d = c THEN s ELSE call[d]
  BY <1>1 DEF Moves, PostOK
<1>3. shown' \subseteq Ids /\ posts' = posts /\ postFaults' \in 0..MaxPostFaults
      /\ \A m \in shown \cup shown' : m[1] # r.label => m \in shown \cap shown'
  BY DEF Moves, Touches
<1>4. \A d \in Callers : CallOK(call'[d]) /\ call'[d].label = call[d].label /\ (call'[d].pc # "none" <=> call[d].pc # "none")
  BY <1>1, <1>2 DEF PostOK
<1>5. posts \in Nat /\ r.label.serial \in 1..posts
  <2>1. posts \in Nat /\ r.label.serial <= posts /\ r.label.serial > 0 /\ r.label \in Labels
    BY <1>1 DEF PostOK, CallOK, Calls
  <2>2. r.label.serial \in Nat
    BY <2>1 DEF Labels
  <2> QED
    BY <2>1, <2>2
<1>6. ASSUME NEW m \in shown' PROVE m[1].serial \in 1..posts
  BY <1>3, <1>5 DEF PostOK
<1>7. ASSUME NEW d \in Callers, call'[d].pc # "none" PROVE AccountedFor(call'[d], shown')
  <2>1. CASE d = c
    BY <1>1, <2>1
  <2>2. CASE d # c
    <3>1. call'[d] = call[d] /\ call[d].label # r.label /\ AccountedFor(call[d], shown)
      BY <1>1, <1>2, <1>7, <2>2 DEF PostOK
    <3>2. {m \in shown' : m[1] = call[d].label} = {m \in shown : m[1] = call[d].label}
      BY <1>3, <3>1
    <3> QED
      BY <3>1, <3>2 DEF AccountedFor
  <2> QED
    BY <2>1, <2>2
<1> HIDE DEF r, s
<1> QED
  BY <1>2, <1>3, <1>4, <1>5, <1>6, <1>7 DEF PostOK

LEMMA NobodyPosts ==
  /\ NotPosting \in Calls /\ CallOK(NotPosting) /\ NotPosting.pc = "none" /\ NotPosting.label.serial = 0
  /\ NotPosting.label = NoLabel /\ NoLabel \in Labels
<1>1. NoLabel \in Labels /\ NoLabel.serial = 0
  BY DEF NoLabel, Labels
<1>2. NoPost \in KnownPosts /\ <<>> \in KnownTexts
  BY DEF KnownPosts, KnownTexts
<1>3. <<>> \in Seq(Ids) /\ ToSet(<<>>) = {}
  BY NoElement, EmptySeq DEF ToSet
<1> HIDE DEF NoLabel, NoPost
<1>4. NotPosting \in Calls /\ NotPosting.label = NoLabel /\ NotPosting.pc = "none" /\ NotPosting.made = 0 /\ NotPosting.undo = <<>> /\ ~NotPosting.ok
  BY <1>1, <1>2, <1>3 DEF NotPosting, Calls
<1>5. Len(RequestsOf(NotPosting)) \in Nat
  BY <1>4, CallsOf
<1> QED
  BY <1>1, <1>3, <1>4, <1>5 DEF CallOK

LEMMA StartsOK ==
  ASSUME PostOK, NEW c \in Callers, call[c].pc = "none", shown' = shown, postFaults' = postFaults,
         NEW by \in {"beat", "hand", "button"}, NEW about \in Subjects, NEW at \in Nat, NEW post \in KnownPosts,
         StartPost(c, by, about, at, post)
  PROVE  /\ PostOK' /\ call' = [call EXCEPT ![c] = call'[c]] /\ call'[c].pc = "sending"
         /\ call'[c].label = [by |-> by, about |-> {about}, at |-> at, serial |-> posts + 1]
<1> DEFINE label == [by |-> by, about |-> {about}, at |-> at, serial |-> posts + 1]
           text == Sanitize(post.text)
           s == [NotPosting EXCEPT !.pc = "sending", !.post = post, !.text = text, !.label = label]
<1>1. posts' = posts + 1 /\ call' = [call EXCEPT ![c] = s]
  BY DEF StartPost
<1>2. posts \in Nat /\ label \in Labels /\ label.serial = posts + 1
  <2>1. posts \in Nat /\ {about} \in SUBSET Subjects
    BY DEF PostOK
  <2> QED
    BY <2>1 DEF Labels
<1>3. text \in KnownTexts
  BY DEF KnownTexts
<1>4. call'[c] = s
  BY <1>1 DEF PostOK
<1> HIDE DEF label, text
<1>5. s \in Calls /\ s.pc = "sending" /\ s.post = post /\ s.text = text /\ s.label = label /\ s.made = 0 /\ s.undo = <<>> /\ ~s.ok /\ s.attempt = 1
  <2>1. NotPosting \in Calls /\ NotPosting.made = 0 /\ NotPosting.undo = <<>> /\ ~NotPosting.ok /\ NotPosting.attempt = 1
    BY NobodyPosts DEF NotPosting
  <2> QED
    BY <1>2, <1>3, <2>1 DEF Calls
<1> HIDE DEF s
<1>6. CallOK(s)
  <2>1. Callable(RequestsOf(s)) /\ Len(RequestsOf(s)) \in Nat
    BY <1>5, CallsOf
  <2>2. Len(RequestsOf(s)) > 0
    BY <2>1 DEF Callable
  <2>3. ToSet(s.undo) = {}
    BY <1>5, NoElement DEF ToSet
  <2> QED
    BY <1>2, <1>5, <2>1, <2>2, <2>3 DEF CallOK, text
<1>7. {m \in shown : m[1] = s.label} = {} /\ Sent(s) = {}
  <2>1. \A m \in shown : m[1].serial <= posts
    BY <1>2 DEF PostOK
  <2>2. 1..s.made = {}
    BY <1>5
  <2> QED
    BY <1>2, <1>5, <2>1, <2>2 DEF Sent
<1>8. AccountedFor(s, shown')
  BY <1>5, <1>7 DEF AccountedFor
<1>9. call' \in [Callers -> Calls] /\ \A d \in Callers : call'[d] = IF d = c THEN s ELSE call[d]
  BY <1>1, <1>5 DEF PostOK
<1>10. \A d \in Callers : CallOK(call'[d]) /\ call'[d].label.serial <= posts + 1
  <2>1. \A d \in Callers : call[d].label.serial \in Nat
    <3>1. \A d \in Callers : call[d].label \in Labels
      BY DEF PostOK, Calls
    <3> QED
      BY <3>1 DEF Labels
  <2> QED
    BY <1>2, <1>5, <1>6, <1>9, <2>1 DEF PostOK
<1>11. \A d, e \in Callers : call'[d].pc # "none" /\ call'[e].pc # "none" /\ d # e => call'[d].label.serial # call'[e].label.serial
  <2>1. \A d \in Callers : d # c => call'[d] = call[d] /\ call'[d].label.serial # posts + 1
    <3>1. \A d \in Callers : call[d].label.serial \in Nat /\ call[d].label.serial <= posts
      <4>1. \A d \in Callers : call[d].label \in Labels
        BY DEF PostOK, Calls
      <4> QED
        BY <4>1 DEF Labels, PostOK
    <3> QED
      BY <1>2, <1>9, <3>1
  <2> QED
    BY <1>2, <1>5, <1>9, <2>1 DEF PostOK
<1>12. \A d \in Callers : call'[d].pc # "none" => AccountedFor(call'[d], shown')
  BY <1>8, <1>9 DEF PostOK
<1>13. \A m \in shown : m[1].serial \in 1..(posts + 1)
  BY <1>2 DEF PostOK
<1>14. PostOK'
  BY <1>1, <1>2, <1>9, <1>10, <1>11, <1>12, <1>13 DEF PostOK
<1> QED
  BY <1>1, <1>4, <1>5, <1>14 DEF label

\* The owner is done with the result, or its process died.
LEMMA EndsOK ==
  ASSUME PostOK, NEW c \in Callers, call' = [call EXCEPT ![c] = NotPosting], shown' = shown, posts' = posts, postFaults' = postFaults
  PROVE  PostOK'
<1>1. NotPosting \in Calls /\ CallOK(NotPosting) /\ NotPosting.pc = "none" /\ NotPosting.label.serial = 0
  BY NobodyPosts
<1>2. call' \in [Callers -> Calls] /\ \A d \in Callers : call'[d] = IF d = c THEN NotPosting ELSE call[d]
  BY <1>1 DEF PostOK
<1>3. posts \in Nat
  BY DEF PostOK
<1> QED
  BY <1>1, <1>2, <1>3 DEF PostOK

LEMMA PostInitOK ==
  ASSUME NEW q \in Starts, PostInit(q)
  PROVE  PostOK
<1>1. NotPosting \in Calls /\ CallOK(NotPosting) /\ NotPosting.pc = "none" /\ NotPosting.label.serial = 0
  BY NobodyPosts
<1>2. call \in [Callers -> Calls] /\ \A d \in Callers : call[d] = NotPosting
  BY <1>1 DEF PostInit
<1> QED
  BY <1>1, <1>2, PostingAssumption DEF PostOK, PostInit

-----------------------------------------------------------------------------
(* Types, of the tasks and of the clock. *)

AdRecords == [exists : BOOLEAN, status : AdStatuses, auto : BOOLEAN, channel : BOOLEAN, post : Posts, recorded : Labels]
AdTasks == [pc : {"none", "queued", "posting"}, seen : AdStatuses, ad : AdIds \cup {NoTask.ad}, attempt : 0..AdRetries,
            due : Nat, by : {"beat", "hand"}]

\* What an ad's slot is posting is the ad.
AdsOK ==
  /\ ad \in [AdIds -> AdRecords] /\ asked \subseteq AdIds /\ adTask \in [AdSlots -> AdTasks]
  /\ adFaults \in 0..MaxAdFaults /\ disturbed \in [edited : SUBSET AdIds, lost : SUBSET AdIds]
  /\ \A a \in AdIds : ad[a].recorded.serial <= posts
  /\ \A n \in AdSlots :
        /\ adTask[n].pc # "none" => adTask[n].ad \in AdIds
        /\ adTask[n].pc = "posting" <=> call[n].pc # "none"
        /\ call[n].pc # "none" => call[n].label.about = {adTask[n].ad} /\ call[n].label.by = adTask[n].by

Channels == UNION {ChannelsOf[c] : c \in WeatherCities}
Runs == [pc : {"none", "queued", "working"}, by : {"beat", "button"}, cities : SUBSET WeatherCities, attempt : 0..NowRetries,
         due : Nat, today : Nat, city : SUBSET WeatherCities, channels : SUBSET Channels, done : SUBSET WeatherCities]

\* A run has a city in hand, has had it, or has it before it; before it starts it
\* has none of beat's.  What it is posting is about a channel of its city.
RunOK(r) ==
  /\ r \in Runs
  /\ r.channels \subseteq UNION {ChannelsOf[c] : c \in r.city}
  /\ r.cities \cap Attempted(r) = {}
  /\ r.pc # "working" => Attempted(r) = {} /\ (r.by = "beat" => r.cities = {})

WeatherOK ==
  /\ marked \in [WeatherCities -> Nat \cup {NoDay}] /\ beatRan \in BOOLEAN
  /\ weatherFaults \in [count : 0..MaxWeatherFaults, cost : SUBSET WeatherCities]
  /\ weatherRun \in [WeatherSlots -> Runs] /\ \A n \in WeatherSlots : RunOK(weatherRun[n])
  /\ \A n \in WeatherSlots : call[n].pc # "none" =>
        /\ weatherRun[n].pc = "working" /\ call[n].label.by = weatherRun[n].by
        /\ \E channel \in UNION {ChannelsOf[c] : c \in weatherRun[n].city} : call[n].label.about = {channel}

ClockOK ==
  /\ now \in Nat /\ beats \subseteq {"ads", "weather"}
  /\ \A c \in Callers : call[c].pc # "none" => c \in AdSlots \cup WeatherSlots

Types == PostOK /\ AdsOK /\ WeatherOK /\ ClockOK

LEMMA PostTyped ==
  ASSUME PostOK
  PROVE  /\ posts \in Nat /\ call \in [Callers -> Calls] /\ NoLabel \in Labels /\ NoLabel.serial = 0
         /\ \A c \in Callers : call[c].label \in Labels /\ call[c].label.serial \in Nat /\ call[c].label.serial <= posts
<1>1. posts \in Nat /\ call \in [Callers -> Calls] /\ \A c \in Callers : call[c].label.serial <= posts
  BY DEF PostOK
<1>2. \A c \in Callers : call[c].label \in Labels
  BY <1>1 DEF Calls
<1>3. \A l \in Labels : l.serial \in Nat
  BY DEF Labels
<1> QED
  BY <1>1, <1>2, <1>3, NobodyPosts

\* Nobody touches the ads, the weather.
LEMMA AdsFrame ==
  ASSUME AdsOK, PostOK, UNCHANGED adVars, posts' \in Nat, posts <= posts',
         \A n \in AdSlots : (call'[n].pc # "none" <=> call[n].pc # "none") /\ call'[n].label = call[n].label
  PROVE  AdsOK'
<1>1. ad' = ad /\ asked' = asked /\ adTask' = adTask /\ adFaults' = adFaults /\ disturbed' = disturbed
  BY DEF adVars
<1>2. \A a \in AdIds : ad[a].recorded.serial <= posts'
  <2> TAKE a \in AdIds
  <2>1. ad[a].recorded \in Labels
    BY DEF AdsOK, AdRecords
  <2>2. ad[a].recorded.serial \in Nat /\ posts \in Nat /\ ad[a].recorded.serial <= posts
    BY <2>1, PostTyped DEF AdsOK, Labels
  <2> QED
    BY <2>2
<1> QED
  BY <1>1, <1>2 DEF AdsOK

LEMMA WeatherFrame ==
  ASSUME WeatherOK, UNCHANGED weatherVars,
         \A n \in WeatherSlots : call'[n].pc # "none" => call[n].pc # "none" /\ call'[n].label = call[n].label
  PROVE  WeatherOK'
<1>1. marked' = marked /\ beatRan' = beatRan /\ weatherRun' = weatherRun /\ weatherFaults' = weatherFaults
  BY DEF weatherVars
<1> QED
  BY <1>1 DEF WeatherOK

\* A call begins or ends in a slot of the ads; in one of the weather.
LEMMA SlotsApart ==
  ASSUME NEW n, NEW m, n \in AdSlots, m \in WeatherSlots
  PROVE  n # m /\ n \in Callers /\ m \in Callers
BY PostingAssumption, AdsAssumption, WeatherAssumption

LEMMA FailedTask ==
  ASSUME NEW t \in AdTasks, now \in Nat, t.pc # "none" => t.ad \in AdIds, t.pc # "none"
  PROVE  /\ AfterFailure(t) \in AdTasks /\ AfterFailure(t).pc \in {"none", "queued"}
         /\ AfterFailure(t).pc # "none" => /\ AfterFailure(t) = [t EXCEPT !.pc = "queued", !.attempt = @ + 1, !.due = now + 1]
                                           /\ AfterFailure(t).ad = t.ad /\ AfterFailure(t).ad \in AdIds
<1>1. NoTask \in AdTasks /\ NoTask.pc = "none"
  BY AdsAssumption DEF NoTask, AdTasks, AdStatuses
<1> HIDE DEF NoTask
<1>2. CASE t.by = "beat" /\ t.attempt < AdRetries
  <2>1. t.attempt \in Nat /\ t.attempt + 1 \in 0..AdRetries
    BY <1>2, AdsAssumption DEF AdTasks
  <2> DEFINE u == [t EXCEPT !.pc = "queued", !.attempt = @ + 1, !.due = now + 1]
  <2>2. AfterFailure(t) = u
    BY <1>2 DEF AfterFailure
  <2>3. now + 1 \in Nat
    OBVIOUS
  <2>4. u \in AdTasks
    BY <2>1, <2>3 DEF AdTasks
  <2>5. u.pc = "queued" /\ u.ad = t.ad
    BY DEF AdTasks
  <2> HIDE DEF u
  <2>6. AfterFailure(t) \in AdTasks /\ AfterFailure(t).pc = "queued" /\ AfterFailure(t).ad = t.ad
    BY <2>2, <2>4, <2>5
  <2> QED
    BY <2>2, <2>6 DEF u
<1>3. CASE ~(t.by = "beat" /\ t.attempt < AdRetries)
  BY <1>1, <1>3 DEF AfterFailure
<1> QED
  BY <1>2, <1>3

\* The one slot a step of the ads may change.
LEMMA OneSlot ==
  ASSUME Types, NEW n \in Callers, call' = call \/ call' = [call EXCEPT ![n] = call'[n]]
  PROVE  \A m \in Callers : m # n => call'[m] = call[m]
BY DEF Types, PostOK

LEMMA AdsOnly ==
  ASSUME Types, UNCHANGED weatherVars, UNCHANGED calendarVars, NEW n \in AdSlots,
         call' = call \/ call' = [call EXCEPT ![n] = call'[n]]
  PROVE  WeatherOK' /\ ClockOK'
<1>1. \A m \in Callers : m # n => call'[m] = call[m]
  BY OneSlot, AdsAssumption
<1>2. \A m \in WeatherSlots : call'[m] = call[m]
  BY <1>1, SlotsApart
<1>3. WeatherOK'
  BY <1>2, WeatherFrame DEF Types
<1>4. now' = now /\ beats' = beats
  BY DEF calendarVars
<1> QED
  BY <1>1, <1>3, <1>4 DEF ClockOK, Types

LEMMA TaskChanges ==
  ASSUME Types, NEW n \in AdSlots, NEW u \in AdTasks, adTask' = [adTask EXCEPT ![n] = u],
         u.pc # "none" => u.ad \in AdIds, u.pc = "posting" <=> call'[n].pc # "none",
         call'[n].pc # "none" => call'[n].label.about = {u.ad} /\ call'[n].label.by = u.by,
         call' = call \/ call' = [call EXCEPT ![n] = call'[n]],
         ad' \in [AdIds -> AdRecords], asked' \subseteq AdIds, adFaults' \in 0..MaxAdFaults,
         disturbed' \in [edited : SUBSET AdIds, lost : SUBSET AdIds], \A a \in AdIds : ad'[a].recorded.serial <= posts'
  PROVE  AdsOK'
<1>1. \A m \in AdSlots : m # n => call'[m] = call[m]
  BY OneSlot, AdsAssumption
<1>2. \A m \in AdSlots : adTask'[m] = IF m = n THEN u ELSE adTask[m]
  BY DEF Types, AdsOK
<1>3. adTask' \in [AdSlots -> AdTasks]
  BY DEF Types, AdsOK
<1> HIDE DEF AdTasks, AdRecords
<1> QED
  BY <1>1, <1>2, <1>3 DEF AdsOK, Types

LEMMA RecordsStay ==
  ASSUME Types, ad' = ad, posts' \in Nat, posts <= posts'
  PROVE  ad' \in [AdIds -> AdRecords] /\ \A a \in AdIds : ad'[a].recorded.serial <= posts'
<1>1. ad \in [AdIds -> AdRecords] /\ \A a \in AdIds : ad[a].recorded.serial <= posts
  BY DEF Types, AdsOK
<1>2. posts \in Nat
  BY PostTyped DEF Types
<1>3. \A a \in AdIds : ad[a].recorded.serial \in Nat
  <2>1. \A a \in AdIds : ad[a].recorded \in Labels
    BY <1>1 DEF AdRecords
  <2> QED
    BY <2>1 DEF Labels
<1> QED
  BY <1>1, <1>2, <1>3

LEMMA LosesOK ==
  ASSUME Types, NEW a \in AdIds, NEW something, Loses(a, something)
  PROVE  disturbed' \in [edited : SUBSET AdIds, lost : SUBSET AdIds]
BY DEF Types, AdsOK, Loses

LEMMA PostUnchanged ==
  ASSUME PostOK, UNCHANGED postVars
  PROVE  PostOK' /\ call' = call /\ posts' = posts /\ shown' = shown
<1>1. call' = call /\ posts' = posts /\ shown' = shown /\ postFaults' = postFaults
  BY DEF postVars
<1> QED
  BY <1>1 DEF PostOK

\* A task is enqueued.
LEMMA TypesOfEnqueued ==
  ASSUME Types, NEW n \in AdSlots, adTask[n].pc = "none", NEW a \in AdIds, NEW by \in {"beat", "hand"},
         adTask' = [adTask EXCEPT ![n] = [NoTask EXCEPT !.pc = "queued", !.ad = a, !.due = now, !.by = by]],
         ad' = ad, asked' \subseteq AdIds, adFaults' = adFaults,
         disturbed' \in [edited : SUBSET AdIds, lost : SUBSET AdIds], UNCHANGED postVars, UNCHANGED calendarVars, UNCHANGED weatherVars
  PROVE  Types'
<1> DEFINE u == [NoTask EXCEPT !.pc = "queued", !.ad = a, !.due = now, !.by = by]
<1>1. PostOK' /\ call' = call /\ posts' = posts
  BY PostUnchanged DEF Types
<1>2. WeatherOK' /\ ClockOK'
  BY <1>1, AdsOnly
<1>3. u \in AdTasks /\ u.pc = "queued" /\ u.ad = a
  <2>1. now \in Nat /\ 0 \in 0..AdRetries
    BY AdsAssumption DEF Types, ClockOK
  <2> QED
    BY <2>1 DEF NoTask, AdTasks, AdStatuses
<1>4. call[n].pc = "none"
  BY DEF Types, AdsOK
<1>5. ad' \in [AdIds -> AdRecords] /\ \A b \in AdIds : ad'[b].recorded.serial <= posts'
  BY <1>1, PostTyped, RecordsStay DEF Types
<1>6. adFaults' \in 0..MaxAdFaults
  BY DEF Types, AdsOK
<1> HIDE DEF u
<1>7. AdsOK'
  BY <1>1, <1>3, <1>4, <1>5, <1>6, TaskChanges DEF u
<1> QED
  BY <1>1, <1>2, <1>7 DEF Types

LEMMA BeatsTask ==
  ASSUME NEW a, NEW due
  PROVE  [NoTask EXCEPT !.pc = "queued", !.ad = a, !.due = due] = [NoTask EXCEPT !.pc = "queued", !.ad = a, !.due = due, !.by = "beat"]
<1>1. NoTask \in AdTasks /\ NoTask.by = "beat"
  BY AdsAssumption DEF NoTask, AdTasks, AdStatuses
<1> HIDE DEF NoTask
<1> QED
  BY <1>1 DEF AdTasks

LEMMA TypesOfBeatAd ==
  ASSUME Types, NEW a \in AdIds, BeatAd(a), UNCHANGED weatherVars
  PROVE  Types'
<1>1. /\ asked' \subseteq AdIds /\ ad' = ad /\ adFaults' = adFaults /\ disturbed' = disturbed
      /\ UNCHANGED postVars /\ UNCHANGED calendarVars
  BY DEF BeatAd, Types, AdsOK
<1>2. disturbed' \in [edited : SUBSET AdIds, lost : SUBSET AdIds] /\ adFaults' \in 0..MaxAdFaults
  BY <1>1 DEF Types, AdsOK
<1>3. CASE adTask' = adTask
  <2>1. PostOK' /\ call' = call /\ posts' = posts
    BY <1>1, PostUnchanged DEF Types
  <2>2. WeatherOK'
    BY <2>1, WeatherFrame DEF Types
  <2>3. ClockOK'
    BY <1>1, <2>1 DEF ClockOK, Types, calendarVars
  <2>4. AdsOK'
    BY <1>1, <1>2, <1>3, <2>1 DEF AdsOK, Types
  <2> QED
    BY <2>1, <2>2, <2>3, <2>4 DEF Types
<1>4. CASE \E n \in AdSlots : adTask[n].pc = "none" /\ adTask' = [adTask EXCEPT ![n] = [NoTask EXCEPT !.pc = "queued", !.ad = a, !.due = now]]
  <2>1. PICK n \in AdSlots : adTask[n].pc = "none" /\ adTask' = [adTask EXCEPT ![n] = [NoTask EXCEPT !.pc = "queued", !.ad = a, !.due = now]]
    BY <1>4
  <2>2. adTask' = [adTask EXCEPT ![n] = [NoTask EXCEPT !.pc = "queued", !.ad = a, !.due = now, !.by = "beat"]]
    BY <2>1, BeatsTask
  <2> QED
    BY <1>1, <1>2, <2>1, <2>2, TypesOfEnqueued
<1> QED
  BY <1>3, <1>4 DEF BeatAd

LEMMA TypesOfPublishByHand ==
  ASSUME Types, NEW a \in AdIds, PublishByHand(a), UNCHANGED weatherVars
  PROVE  Types'
<1>1. disturbed' \in [edited : SUBSET AdIds, lost : SUBSET AdIds]
  BY DEF PublishByHand, EditorWorks, Types, AdsOK
<1>2. PICK n \in AdSlots : adTask[n].pc = "none" /\ adTask' = [adTask EXCEPT ![n] = [NoTask EXCEPT !.pc = "queued", !.ad = a, !.due = now, !.by = "hand"]]
  BY DEF PublishByHand
<1>3. asked' \subseteq AdIds /\ ad' = ad /\ adFaults' = adFaults /\ UNCHANGED postVars /\ UNCHANGED calendarVars
  BY DEF PublishByHand, Types, AdsOK
<1> QED
  BY <1>1, <1>2, <1>3, TypesOfEnqueued

\* An editor changes a row.
LEMMA TypesOfEdit ==
  ASSUME Types, NEW a \in AdIds, SetAuto(a) \/ DeleteAd(a) \/ \E status \in AdStatuses : SetStatus(a, status), UNCHANGED weatherVars
  PROVE  Types'
<1>1. /\ disturbed' \in [edited : SUBSET AdIds, lost : SUBSET AdIds] /\ asked' = asked /\ adTask' = adTask /\ adFaults' = adFaults
      /\ UNCHANGED postVars /\ UNCHANGED calendarVars
  BY DEF SetAuto, DeleteAd, SetStatus, EditorWorks, Types, AdsOK
<1>2. ad \in [AdIds -> AdRecords]
  BY DEF Types, AdsOK
<1>3. /\ ad' \in [AdIds -> AdRecords]
      /\ \A b \in AdIds : ad'[b].recorded = ad[b].recorded
  <2>1. PICK row : ad' = [ad EXCEPT ![a] = row] /\ row \in AdRecords /\ row.recorded = ad[a].recorded
    <3>1. CASE SetAuto(a)
      <4> DEFINE row == [ad[a] EXCEPT !.auto = ~@]
      <4>1. ad' = [ad EXCEPT ![a] = row]
        BY <3>1 DEF SetAuto
      <4>2. row \in AdRecords /\ row.recorded = ad[a].recorded
        BY <1>2 DEF AdRecords
      <4> HIDE DEF row
      <4> QED
        BY <4>1, <4>2
    <3>2. CASE DeleteAd(a)
      <4> DEFINE row == [ad[a] EXCEPT !.exists = FALSE]
      <4>1. ad' = [ad EXCEPT ![a] = row]
        BY <3>2 DEF DeleteAd
      <4>2. row \in AdRecords /\ row.recorded = ad[a].recorded
        BY <1>2 DEF AdRecords
      <4> HIDE DEF row
      <4> QED
        BY <4>1, <4>2
    <3>3. CASE \E status \in AdStatuses : SetStatus(a, status)
      BY <1>2, <3>3 DEF SetStatus, AdRecords
    <3> QED
      BY <3>1, <3>2, <3>3
  <2> QED
    BY <1>2, <2>1
<1>4. PostOK' /\ call' = call /\ posts' = posts
  BY <1>1, PostUnchanged DEF Types
<1>5. WeatherOK'
  BY <1>4, WeatherFrame DEF Types
<1>6. ClockOK'
  BY <1>1, <1>4 DEF ClockOK, Types, calendarVars
<1>7. AdsOK'
  BY <1>1, <1>3, <1>4 DEF AdsOK, Types
<1> QED
  BY <1>4, <1>5, <1>6, <1>7 DEF Types

LEMMA SubjectsOfAds == \A a \in AdIds : a \in Subjects
BY DEF Subjects

LEMMA TypesOfStartAd ==
  ASSUME Types, NEW n \in AdSlots, StartAd(n), UNCHANGED weatherVars
  PROVE  Types'
<1> DEFINE t == adTask[n]
           u == [t EXCEPT !.pc = "posting", !.seen = ad[t.ad].status]
<1>1. t \in AdTasks /\ t.pc = "queued" /\ t.ad \in AdIds /\ now \in Nat /\ call[n].pc = "none" /\ n \in Callers
  BY AdsAssumption DEF StartAd, Types, AdsOK, ClockOK
<1>2. ad[t.ad] \in AdRecords
  BY <1>1 DEF Types, AdsOK
<1>3. t.by \in {"beat", "hand", "button"} /\ t.ad \in Subjects
  BY <1>1, SubjectsOfAds DEF AdTasks
<1>4. ad[t.ad].post \in KnownPosts /\ ad[t.ad].status \in AdStatuses
  BY <1>2 DEF AdRecords, KnownPosts
<1>5. /\ StartPost(n, t.by, t.ad, now, ad[t.ad].post) /\ shown' = shown /\ postFaults' = postFaults
      /\ ad' = ad /\ asked' = asked /\ adFaults' = adFaults /\ disturbed' = disturbed /\ UNCHANGED calendarVars
  BY DEF StartAd
<1>6. adTask' = [adTask EXCEPT ![n] = u]
  BY DEF StartAd, Types, AdsOK
<1>7. u \in AdTasks /\ u.pc = "posting" /\ u.ad = t.ad /\ u.by = t.by
  BY <1>1, <1>4 DEF AdTasks
<1> DEFINE post == ad[t.ad].post
           by == t.by
           a == t.ad
<1> HIDE DEF t, u, post, by, a
<1>8. /\ PostOK' /\ call' = [call EXCEPT ![n] = call'[n]] /\ call'[n].pc = "sending"
      /\ call'[n].label = [by |-> by, about |-> {a}, at |-> now, serial |-> posts + 1]
  <2>1. PostOK
    BY DEF Types
  <2>2. StartPost(n, by, a, now, post)
    BY <1>5 DEF post, by, a
  <2>3. by \in {"beat", "hand", "button"} /\ a \in Subjects /\ post \in KnownPosts
    BY <1>3, <1>4 DEF by, a, post
  <2> QED
    BY <1>1, <1>5, <2>1, <2>2, <2>3, StartsOK
<1>9. posts' = posts + 1 /\ posts \in Nat
  BY <1>5, PostTyped DEF StartPost, Types
<1>10. WeatherOK' /\ ClockOK'
  BY <1>5, <1>8, AdsOnly
<1>11. ad' \in [AdIds -> AdRecords] /\ \A b \in AdIds : ad'[b].recorded.serial <= posts'
  BY <1>5, <1>9, RecordsStay
<1>12. asked' \subseteq AdIds /\ adFaults' \in 0..MaxAdFaults /\ disturbed' \in [edited : SUBSET AdIds, lost : SUBSET AdIds]
  BY <1>5 DEF Types, AdsOK
<1>13. call'[n].pc # "none" /\ call'[n].label.about = {u.ad} /\ call'[n].label.by = u.by /\ u.ad \in AdIds
  BY <1>1, <1>7, <1>8 DEF a, by
<1>14. AdsOK'
  BY <1>6, <1>7, <1>8, <1>11, <1>12, <1>13, TaskChanges
<1> QED
  BY <1>8, <1>10, <1>14 DEF Types

LEMMA TypesOfUnpublishable ==
  ASSUME Types, NEW n \in AdSlots, AdUnpublishable(n), UNCHANGED weatherVars
  PROVE  Types'
<1> DEFINE t == adTask[n]
           u == AfterFailure(t)
<1>1. t \in AdTasks /\ t.pc = "queued" /\ t.ad \in AdIds /\ now \in Nat /\ call[n].pc = "none"
  BY DEF AdUnpublishable, Types, AdsOK, ClockOK
<1>2. u \in AdTasks /\ u.pc \in {"none", "queued"} /\ (u.pc # "none" => u.ad \in AdIds)
  BY <1>1, FailedTask
<1>3. /\ adTask' = [adTask EXCEPT ![n] = u] /\ ad' = ad /\ asked' = asked /\ adFaults' = adFaults /\ disturbed' = disturbed
      /\ UNCHANGED postVars /\ UNCHANGED calendarVars
  BY DEF AdUnpublishable
<1>4. PostOK' /\ call' = call /\ posts' = posts
  BY <1>3, PostUnchanged DEF Types
<1>5. WeatherOK' /\ ClockOK'
  BY <1>3, <1>4, AdsOnly
<1>6. ad' \in [AdIds -> AdRecords] /\ \A b \in AdIds : ad'[b].recorded.serial <= posts'
  BY <1>3, <1>4, PostTyped, RecordsStay DEF Types
<1>7. asked' \subseteq AdIds /\ adFaults' \in 0..MaxAdFaults /\ disturbed' \in [edited : SUBSET AdIds, lost : SUBSET AdIds]
  BY <1>3 DEF Types, AdsOK
<1> HIDE DEF u
<1>8. AdsOK'
  BY <1>1, <1>2, <1>3, <1>4, <1>6, <1>7, TaskChanges
<1> QED
  BY <1>4, <1>5, <1>8 DEF Types

\* A slot is done with its post, or has lost it.
LEMMA TypesOfEnd ==
  ASSUME Types, NEW n \in AdSlots, NEW u \in AdTasks, adTask' = [adTask EXCEPT ![n] = u], u.pc \in {"none", "queued"},
         u.pc # "none" => u.ad \in AdIds, call' = [call EXCEPT ![n] = NotPosting], shown' = shown, posts' = posts,
         postFaults' = postFaults, UNCHANGED calendarVars, UNCHANGED weatherVars, asked' = asked, adFaults' \in 0..MaxAdFaults,
         ad' \in [AdIds -> AdRecords], \A a \in AdIds : ad'[a].recorded.serial <= posts',
         disturbed' \in [edited : SUBSET AdIds, lost : SUBSET AdIds]
  PROVE  Types'
<1>1. n \in Callers /\ NotPosting.pc = "none"
  BY AdsAssumption, NobodyPosts
<1>2. PostOK'
  BY <1>1, EndsOK DEF Types
<1>3. call'[n] = NotPosting
  BY <1>1 DEF Types, PostOK
<1>4. call' = [call EXCEPT ![n] = call'[n]]
  BY <1>3
<1>5. WeatherOK' /\ ClockOK'
  BY <1>4, AdsOnly
<1>6. asked' \subseteq AdIds
  BY DEF Types, AdsOK
<1>7. AdsOK'
  BY <1>1, <1>3, <1>4, <1>6, TaskChanges
<1> QED
  BY <1>2, <1>5, <1>7 DEF Types

LEMMA TypesOfAdEnd ==
  ASSUME Types, NEW n \in AdSlots, AdPublished(n) \/ AdNotPublished(n) \/ AdWorkerDies(n), UNCHANGED weatherVars
  PROVE  Types'
<1> DEFINE t == adTask[n]
<1>1. t \in AdTasks /\ t.pc = "posting" /\ t.ad \in AdIds /\ now \in Nat
  BY DEF AdPublished, AdNotPublished, AdWorkerDies, Types, AdsOK, ClockOK
<1>2. /\ call' = [call EXCEPT ![n] = NotPosting] /\ shown' = shown /\ posts' = posts /\ postFaults' = postFaults
      /\ asked' = asked /\ UNCHANGED calendarVars
  BY DEF AdPublished, AdNotPublished, AdWorkerDies
<1>3. \E something : Loses(t.ad, something)
  BY DEF AdPublished, AdNotPublished, AdWorkerDies
<1>4. disturbed' \in [edited : SUBSET AdIds, lost : SUBSET AdIds]
  BY <1>1, <1>3, LosesOK
<1>5. posts \in Nat
  BY PostTyped DEF Types
<1>6. NoTask \in AdTasks /\ NoTask.pc = "none"
  BY AdsAssumption DEF NoTask, AdTasks, AdStatuses
<1>7. CASE AdPublished(n)
  <2>1. adTask' = [adTask EXCEPT ![n] = NoTask] /\ adFaults' = adFaults /\ ad' = [ad EXCEPT ![t.ad] = AfterSuccess(@, t.seen, call[n].label)]
    BY <1>7 DEF AdPublished
  <2>2. adFaults' \in 0..MaxAdFaults
    BY <2>1 DEF Types, AdsOK
  <2> DEFINE label == call[n].label
             row == ad[t.ad]
             new == AfterSuccess(row, t.seen, label)
  <2>3. label \in Labels /\ label.serial <= posts /\ n \in Callers
    BY AdsAssumption, PostTyped DEF Types
  <2>4. ad \in [AdIds -> AdRecords] /\ \A a \in AdIds : ad[a].recorded.serial <= posts
    BY DEF Types, AdsOK
  <2> HIDE DEF label
  <2>5. new \in AdRecords /\ new.recorded = label
    <3> DEFINE status == IF t.seen = "published" THEN row.status ELSE "published"
    <3>1. row \in AdRecords
      BY <1>1, <2>4
    <3>2. status \in AdStatuses
      BY <3>1 DEF AdRecords, AdStatuses
    <3>3. new = [row EXCEPT !.recorded = label, !.status = status]
      BY DEF AfterSuccess
    <3> HIDE DEF status, row
    <3> QED
      BY <2>3, <3>1, <3>2, <3>3 DEF AdRecords
  <2>6. ad' = [ad EXCEPT ![t.ad] = new]
    BY <2>1 DEF label
  <2> HIDE DEF new
  <2>7. ad' \in [AdIds -> AdRecords] /\ \A a \in AdIds : ad'[a].recorded.serial <= posts'
    BY <1>1, <1>2, <2>3, <2>4, <2>5, <2>6
  <2> QED
    BY <1>2, <1>4, <1>6, <2>1, <2>2, <2>7, TypesOfEnd
<1>8. CASE AdNotPublished(n) \/ AdWorkerDies(n)
  <2>1. ad' = ad /\ adFaults' \in 0..MaxAdFaults
    <3>1. ad' = ad /\ (adFaults' = adFaults \/ (adFaults < MaxAdFaults /\ adFaults' = adFaults + 1))
      BY <1>8 DEF AdNotPublished, AdWorkerDies, AdFault
    <3>2. adFaults \in 0..MaxAdFaults /\ MaxAdFaults \in Nat
      BY AdsAssumption DEF Types, AdsOK
    <3> QED
      BY <3>1, <3>2
  <2>2. ad' \in [AdIds -> AdRecords] /\ \A a \in AdIds : ad'[a].recorded.serial <= posts'
    BY <1>2, <1>5, <2>1, RecordsStay
  <2>3. CASE AdNotPublished(n)
    <3> DEFINE u == AfterFailure(t)
    <3>1. u \in AdTasks /\ u.pc \in {"none", "queued"} /\ (u.pc # "none" => u.ad \in AdIds)
      BY <1>1, FailedTask
    <3>2. adTask' = [adTask EXCEPT ![n] = u]
      BY <2>3 DEF AdNotPublished
    <3> HIDE DEF u
    <3> QED
      BY <1>2, <1>4, <2>1, <2>2, <3>1, <3>2, TypesOfEnd
  <2>4. CASE AdWorkerDies(n)
    <3> DEFINE again == [t EXCEPT !.pc = "queued", !.due = now + VisibilityTimeout]
               u == IF t.by = "beat" THEN again ELSE NoTask
    <3>1. now + VisibilityTimeout \in Nat
      BY <1>1, AdsAssumption
    <3>2. again \in AdTasks /\ again.pc = "queued" /\ again.ad = t.ad
      BY <1>1, <3>1 DEF AdTasks
    <3> HIDE DEF again, NoTask
    <3>3. u \in AdTasks /\ u.pc \in {"none", "queued"} /\ (u.pc # "none" => u.ad \in AdIds)
      BY <1>1, <1>6, <3>2
    <3>4. adTask' = [adTask EXCEPT ![n] = u]
      BY <2>4 DEF AdWorkerDies, again
    <3> HIDE DEF u
    <3> QED
      BY <1>2, <1>4, <2>1, <2>2, <3>3, <3>4, TypesOfEnd
  <2> QED
    BY <1>8, <2>3, <2>4
<1> QED
  BY <1>7, <1>8

LEMMA TypesOfAds ==
  ASSUME Types, AdsNext, UNCHANGED weatherVars
  PROVE  Types'
BY TypesOfBeatAd, TypesOfPublishByHand, TypesOfEdit, TypesOfStartAd, TypesOfUnpublishable, TypesOfAdEnd DEF AdsNext

\* The same for the runs of the weather.
LEMMA WeatherOnly ==
  ASSUME Types, UNCHANGED adVars, UNCHANGED calendarVars, posts' \in Nat, posts <= posts', NEW n \in WeatherSlots,
         call' = call \/ call' = [call EXCEPT ![n] = call'[n]]
  PROVE  AdsOK' /\ ClockOK'
<1>1. n \in Callers
  BY WeatherAssumption
<1>2. \A m \in Callers : m # n => call'[m] = call[m]
  BY <1>1, OneSlot
<1>3. \A m \in AdSlots : call'[m] = call[m]
  BY <1>2, SlotsApart
<1>4. AdsOK'
  BY <1>3, AdsFrame DEF Types
<1>5. now' = now /\ beats' = beats
  BY DEF calendarVars
<1> QED
  BY <1>2, <1>4, <1>5 DEF ClockOK, Types

LEMMA RunChanges ==
  ASSUME Types, NEW n \in WeatherSlots, NEW u, RunOK(u), weatherRun' = [weatherRun EXCEPT ![n] = u],
         call' = call \/ call' = [call EXCEPT ![n] = call'[n]],
         call'[n].pc # "none" =>
            /\ u.pc = "working" /\ call'[n].label.by = u.by
            /\ \E channel \in UNION {ChannelsOf[c] : c \in u.city} : call'[n].label.about = {channel},
         marked' \in [WeatherCities -> Nat \cup {NoDay}], beatRan' \in BOOLEAN,
         weatherFaults' \in [count : 0..MaxWeatherFaults, cost : SUBSET WeatherCities]
  PROVE  WeatherOK'
<1>1. \A m \in WeatherSlots : m # n => call'[m] = call[m]
  <2>1. n \in Callers /\ \A m \in WeatherSlots : m \in Callers
    BY WeatherAssumption
  <2> QED
    BY <2>1, OneSlot
<1>2. weatherRun \in [WeatherSlots -> Runs] /\ u \in Runs
  BY DEF Types, WeatherOK, RunOK
<1>3. weatherRun' \in [WeatherSlots -> Runs] /\ \A m \in WeatherSlots : weatherRun'[m] = IF m = n THEN u ELSE weatherRun[m]
  BY <1>2
<1>4. \A m \in WeatherSlots : RunOK(weatherRun'[m])
  BY <1>3 DEF Types, WeatherOK
<1>5. ASSUME NEW m \in WeatherSlots, call'[m].pc # "none"
      PROVE  /\ weatherRun'[m].pc = "working" /\ call'[m].label.by = weatherRun'[m].by
             /\ \E channel \in UNION {ChannelsOf[c] : c \in weatherRun'[m].city} : call'[m].label.about = {channel}
  <2>1. CASE m = n
    BY <1>3, <1>5, <2>1
  <2>2. CASE m # n
    BY <1>1, <1>3, <1>5, <2>2 DEF Types, WeatherOK
  <2> QED
    BY <2>1, <2>2
<1> QED
  BY <1>3, <1>4, <1>5 DEF WeatherOK

\* A run changes, and no post begins or ends.
LEMMA TypesOfRun ==
  ASSUME Types, NEW n \in WeatherSlots, NEW u, RunOK(u), weatherRun' = [weatherRun EXCEPT ![n] = u],
         call[n].pc = "none", UNCHANGED postVars, UNCHANGED calendarVars, UNCHANGED adVars,
         marked' \in [WeatherCities -> Nat \cup {NoDay}], beatRan' \in BOOLEAN,
         weatherFaults' \in [count : 0..MaxWeatherFaults, cost : SUBSET WeatherCities]
  PROVE  Types'
<1>1. PostOK' /\ call' = call /\ posts' = posts
  BY PostUnchanged DEF Types
<1>2. AdsOK' /\ ClockOK'
  BY <1>1, PostTyped, WeatherOnly DEF Types
<1>3. WeatherOK'
  BY <1>1, RunChanges
<1> QED
  BY <1>1, <1>2, <1>3 DEF Types

LEMMA DayTyped ==
  ASSUME NEW t \in Nat
  PROVE  /\ Local(t) \in Nat /\ DayOf(Local(t)) \in Nat /\ MinuteOf(Local(t)) \in 0..(DayMinutes - 1)
         /\ Local(t) = DayMinutes * DayOf(Local(t)) + MinuteOf(Local(t))
<1>1. Local(t) \in Nat /\ DayMinutes \in Nat \ {0}
  BY CalendarAssumption DEF Local
<1> DEFINE x == Local(t)
<1> HIDE DEF x
<1>2. x \in Nat
  BY <1>1 DEF x
<1>3. x \div DayMinutes \in Nat /\ x % DayMinutes \in 0..(DayMinutes - 1) /\ x = DayMinutes * (x \div DayMinutes) + (x % DayMinutes)
  BY <1>1, <1>2
<1> QED
  BY <1>1, <1>3 DEF x, DayOf, MinuteOf

LEMMA EmptyRun ==
  /\ RunOK(NoRun) /\ NoRun.by = "beat" /\ NoRun.pc = "none" /\ NoRun.cities = {} /\ Attempted(NoRun) = {} /\ NoRun.attempt = 0
  /\ NoRun.channels = {} /\ NoRun.city = {}
<1>1. NoRun \in Runs
  BY WeatherAssumption DEF NoRun, Runs
<1> QED
  BY <1>1 DEF NoRun, RunOK, Attempted

LEMMA FaultTyped ==
  ASSUME Types
  PROVE  /\ weatherFaults.count \in 0..MaxWeatherFaults /\ weatherFaults.cost \subseteq WeatherCities
         /\ weatherFaults = [count |-> weatherFaults.count, cost |-> weatherFaults.cost]
         /\ weatherFaults' = weatherFaults => weatherFaults' \in [count : 0..MaxWeatherFaults, cost : SUBSET WeatherCities]
         /\ \A kind : \A cities \in SUBSET WeatherCities :
               WeatherFault(kind, cities) => weatherFaults' \in [count : 0..MaxWeatherFaults, cost : SUBSET WeatherCities]
<1>1. weatherFaults \in [count : 0..MaxWeatherFaults, cost : SUBSET WeatherCities] /\ MaxWeatherFaults \in Nat
  BY WeatherAssumption DEF Types, WeatherOK
<1>2. weatherFaults.count \in 0..MaxWeatherFaults /\ weatherFaults.cost \subseteq WeatherCities
  BY <1>1
<1>3. weatherFaults.count < MaxWeatherFaults => weatherFaults.count + 1 \in 0..MaxWeatherFaults
  BY <1>1, <1>2
<1> QED
  BY <1>1, <1>2, <1>3 DEF WeatherFault

LEMMA TypesOfEnqueuedRun ==
  ASSUME Types, NEW n \in WeatherSlots, weatherRun[n].pc = "none",
         NEW by \in {"beat", "button"}, NEW cities \in SUBSET WeatherCities, by = "beat" => cities = {},
         weatherRun' = [weatherRun EXCEPT ![n] = [NoRun EXCEPT !.pc = "queued", !.by = by, !.cities = cities, !.due = now]],
         marked' = marked, beatRan' \in BOOLEAN, weatherFaults' = weatherFaults,
         UNCHANGED postVars, UNCHANGED calendarVars, UNCHANGED adVars
  PROVE  Types'
<1> DEFINE u == [NoRun EXCEPT !.pc = "queued", !.by = by, !.cities = cities, !.due = now]
<1>1. now \in Nat /\ call[n].pc = "none"
  BY DEF Types, ClockOK, WeatherOK
<1>2. u \in Runs /\ u.pc = "queued" /\ u.by = by /\ u.cities = cities /\ u.channels = {} /\ Attempted(u) = {}
  <2>1. NoRun \in Runs /\ NoRun.channels = {} /\ NoRun.city = {} /\ NoRun.done = {}
    BY EmptyRun DEF RunOK, Attempted
  <2> HIDE DEF NoRun
  <2>2. u \in Runs
    BY <1>1, <2>1 DEF Runs
  <2> QED
    BY <2>1, <2>2 DEF Runs, Attempted
<1> HIDE DEF u
<1>3. RunOK(u)
  BY <1>2 DEF RunOK
<1>4. marked' \in [WeatherCities -> Nat \cup {NoDay}]
  BY DEF Types, WeatherOK
<1> QED
  BY <1>1, <1>3, <1>4, FaultTyped, TypesOfRun DEF u

LEMMA TypesOfBeatWeather ==
  ASSUME Types, BeatWeather, UNCHANGED adVars
  PROVE  Types'
<1>1. PICK n \in WeatherSlots : weatherRun[n].pc = "none" /\ weatherRun' = [weatherRun EXCEPT ![n] = [NoRun EXCEPT !.pc = "queued", !.due = now]]
  BY DEF BeatWeather, EnqueueRun
<1>2. [NoRun EXCEPT !.pc = "queued", !.due = now] = [NoRun EXCEPT !.pc = "queued", !.by = "beat", !.cities = {}, !.due = now]
  <2>1. NoRun \in Runs /\ NoRun.by = "beat" /\ NoRun.cities = {}
    BY EmptyRun DEF RunOK
  <2> HIDE DEF NoRun
  <2> QED
    BY <2>1 DEF Runs
<1> DEFINE u == [NoRun EXCEPT !.pc = "queued", !.by = "beat", !.cities = {}, !.due = now]
<1>3. weatherRun' = [weatherRun EXCEPT ![n] = u]
  <2> HIDE DEF NoRun
  <2> QED
    BY <1>1, <1>2
<1>4. /\ marked' = marked /\ beatRan' \in BOOLEAN /\ weatherFaults' = weatherFaults
      /\ UNCHANGED postVars /\ UNCHANGED calendarVars
  BY DEF BeatWeather
<1>5. {} \in SUBSET WeatherCities /\ "beat" \in {"beat", "button"}
  OBVIOUS
<1> QED
  BY <1>1, <1>3, <1>4, <1>5, TypesOfEnqueuedRun

LEMMA TypesOfPressButton ==
  ASSUME Types, NEW c \in WeatherCities, PressButton(c), UNCHANGED adVars
  PROVE  Types'
<1>1. PICK n \in WeatherSlots : weatherRun[n].pc = "none"
           /\ weatherRun' = [weatherRun EXCEPT ![n] = [[NoRun EXCEPT !.by = "button", !.cities = {c}] EXCEPT !.pc = "queued", !.due = now]]
  BY DEF PressButton, EnqueueRun
<1>2. [[NoRun EXCEPT !.by = "button", !.cities = {c}] EXCEPT !.pc = "queued", !.due = now] =
      [NoRun EXCEPT !.pc = "queued", !.by = "button", !.cities = {c}, !.due = now]
  <2>1. NoRun \in Runs
    BY EmptyRun DEF RunOK
  <2> HIDE DEF NoRun
  <2> QED
    BY <2>1 DEF Runs
<1>3. {c} \in SUBSET WeatherCities /\ beatRan' \in BOOLEAN /\ marked' = marked /\ weatherFaults' = weatherFaults
      /\ UNCHANGED postVars /\ UNCHANGED calendarVars
  BY DEF PressButton, Types, WeatherOK
<1> HIDE DEF NoRun
<1> QED
  BY <1>1, <1>2, <1>3, TypesOfEnqueuedRun

LEMMA TypesOfStartRun ==
  ASSUME Types, NEW n \in WeatherSlots, StartRun(n), UNCHANGED adVars
  PROVE  Types'
<1> DEFINE r == weatherRun[n]
           cities == IF r.by = "beat" THEN {c \in WeatherCities : IsTime(c)} ELSE r.cities
           u == [r EXCEPT !.pc = "working", !.today = Today, !.cities = cities]
<1>1. r \in Runs /\ r.pc = "queued" /\ Attempted(r) = {} /\ r.channels \subseteq UNION {ChannelsOf[c] : c \in r.city} /\ call[n].pc = "none"
  BY DEF StartRun, Types, WeatherOK, RunOK
<1>2. weatherRun' = [weatherRun EXCEPT ![n] = u] /\ UNCHANGED <<marked, beatRan, buttons, postVars, calendarVars>>
  BY DEF StartRun
<1>3. Today \in Nat
  BY DayTyped DEF Today, Types, ClockOK
<1>4. cities \in SUBSET WeatherCities
  BY <1>1 DEF Runs
<1>5. weatherFaults' \in [count : 0..MaxWeatherFaults, cost : SUBSET WeatherCities]
  <2>1. PICK more : more \subseteq cities /\ weatherFaults' = [weatherFaults EXCEPT !.cost = @ \cup more]
    BY DEF StartRun
  <2> QED
    BY <1>4, <2>1, FaultTyped
<1> HIDE DEF cities
<1>6. u \in Runs /\ u.city = r.city /\ u.done = r.done /\ u.channels = r.channels /\ u.pc = "working" /\ u.cities = cities
  BY <1>1, <1>3, <1>4 DEF Runs
<1> HIDE DEF u, r
<1>7. RunOK(u)
  BY <1>1, <1>6 DEF RunOK, Attempted
<1>8. marked' \in [WeatherCities -> Nat \cup {NoDay}] /\ beatRan' \in BOOLEAN
  BY <1>2 DEF Types, WeatherOK
<1> QED
  BY <1>1, <1>2, <1>5, <1>7, <1>8, TypesOfRun DEF r

LEMMA TypesOfNextCity ==
  ASSUME Types, NEW n \in WeatherSlots, NextCity(n), UNCHANGED adVars
  PROVE  Types'
<1> DEFINE r == weatherRun[n]
<1>1. r \in Runs /\ RunOK(r) /\ r.pc = "working" /\ r.city = {}
  BY DEF NextCity, Types, WeatherOK, RunOK
<1>2. call[n].pc = "none" /\ r.channels = {}
  BY <1>1 DEF Types, WeatherOK, RunOK
<1>3. PICK c, channels : c \in r.cities /\ channels \in {{}, ChannelsOf[c]} /\
         weatherRun' = [weatherRun EXCEPT ![n] = [r EXCEPT !.cities = @ \ {c}, !.city = {c}, !.channels = channels]]
  <2>1. PICK c \in r.cities :
           \/ weatherRun' = [weatherRun EXCEPT ![n] = [r EXCEPT !.cities = @ \ {c}, !.city = {c}, !.channels = ChannelsOf[c]]]
           \/ weatherRun' = [weatherRun EXCEPT ![n] = [r EXCEPT !.cities = @ \ {c}, !.city = {c}]]
    BY DEF NextCity
  <2>2. [r EXCEPT !.cities = @ \ {c}, !.city = {c}] = [r EXCEPT !.cities = @ \ {c}, !.city = {c}, !.channels = {}]
    BY <1>1, <1>2 DEF Runs
  <2>3. ~(weatherRun' = [weatherRun EXCEPT ![n] = [r EXCEPT !.cities = @ \ {c}, !.city = {c}, !.channels = ChannelsOf[c]]])
          => weatherRun' = [weatherRun EXCEPT ![n] = [r EXCEPT !.cities = @ \ {c}, !.city = {c}, !.channels = {}]]
    BY <2>1, <2>2
  <2> HIDE DEF r
  <2> QED
    BY <2>1, <2>3
<1> DEFINE u == [r EXCEPT !.cities = @ \ {c}, !.city = {c}, !.channels = channels]
<1>4. c \in WeatherCities /\ channels \subseteq Channels
  BY <1>1, <1>3 DEF Runs, Channels
<1>5. /\ u \in Runs /\ u.pc = "working" /\ u.city = {c} /\ u.done = r.done /\ u.channels = channels /\ u.by = r.by
      /\ u.cities = r.cities \ {c}
  BY <1>1, <1>4 DEF Runs
<1> HIDE DEF u, r
<1>6. RunOK(u)
  BY <1>1, <1>3, <1>5 DEF RunOK, Attempted
<1>7. /\ marked' = marked /\ beatRan' = beatRan /\ UNCHANGED postVars /\ UNCHANGED calendarVars
      /\ weatherFaults' = weatherFaults \/ WeatherFault("forecast", {})
  BY DEF NextCity
<1>8. marked' \in [WeatherCities -> Nat \cup {NoDay}] /\ beatRan' \in BOOLEAN
  BY <1>7 DEF Types, WeatherOK
<1>9. weatherFaults' \in [count : 0..MaxWeatherFaults, cost : SUBSET WeatherCities]
  BY <1>7, FaultTyped
<1> QED
  BY <1>2, <1>3, <1>6, <1>7, <1>8, <1>9, TypesOfRun DEF u

LEMMA TypesOfEndCity ==
  ASSUME Types, NEW n \in WeatherSlots, EndCity(n), UNCHANGED adVars
  PROVE  Types'
<1> DEFINE r == weatherRun[n]
           u == [r EXCEPT !.city = {}, !.done = @ \cup r.city]
<1>1. r \in Runs /\ RunOK(r) /\ r.pc = "working" /\ r.channels = {} /\ call[n].pc = "none"
  BY DEF EndCity, Types, WeatherOK, RunOK
<1>2. weatherRun' = [weatherRun EXCEPT ![n] = u] /\ UNCHANGED <<marked, beatRan, weatherFaults, buttons, postVars, calendarVars>>
  BY DEF EndCity
<1>3. /\ u \in Runs /\ u.pc = "working" /\ u.city = {} /\ u.done = r.done \cup r.city /\ u.channels = {} /\ u.by = r.by
      /\ u.cities = r.cities
  BY <1>1 DEF Runs
<1> HIDE DEF u, r
<1>4. RunOK(u)
  BY <1>1, <1>3 DEF RunOK, Attempted
<1>5. marked' \in [WeatherCities -> Nat \cup {NoDay}] /\ beatRan' \in BOOLEAN
  BY <1>2 DEF Types, WeatherOK
<1> QED
  BY <1>1, <1>2, <1>4, <1>5, FaultTyped, TypesOfRun

LEMMA TypesOfCommitRun ==
  ASSUME Types, NEW n \in WeatherSlots, CommitRun(n), UNCHANGED adVars
  PROVE  Types'
<1> DEFINE r == weatherRun[n]
<1>1. r \in Runs /\ r.pc = "working" /\ r.city = {}
  BY DEF CommitRun, Types, WeatherOK
<1>2. /\ weatherRun' = [weatherRun EXCEPT ![n] = NoRun] /\ UNCHANGED <<beatRan, weatherFaults, buttons, postVars, calendarVars>>
      /\ marked' = [c \in WeatherCities |-> IF r.by = "beat" /\ c \in r.done THEN r.today ELSE marked[c]]
  BY DEF CommitRun
<1>3. call[n].pc = "none"
  BY <1>1 DEF Types, WeatherOK
<1>4. r.today \in Nat
  BY <1>1 DEF Runs
<1>5. marked' \in [WeatherCities -> Nat \cup {NoDay}] /\ beatRan' \in BOOLEAN
  BY <1>2, <1>4 DEF Types, WeatherOK
<1> QED
  BY <1>2, <1>3, <1>5, FaultTyped, EmptyRun, TypesOfRun

LEMMA AttemptedTyped ==
  ASSUME NEW r \in Runs
  PROVE  Attempted(r) \in SUBSET WeatherCities /\ r.cities \in SUBSET WeatherCities
BY DEF Runs, Attempted

LEMMA TypesOfRunFails ==
  ASSUME Types, NEW n \in WeatherSlots, RunFails(n), UNCHANGED adVars
  PROVE  Types'
<1> DEFINE r == weatherRun[n]
           again == [r EXCEPT !.pc = "queued", !.attempt = @ + 1, !.cities = @ \cup Attempted(r), !.city = {}, !.done = {}, !.channels = {}]
           u == IF r.by = "button" /\ r.attempt < NowRetries THEN again ELSE NoRun
<1>1. r \in Runs /\ r.pc = "working" /\ call[n].pc = "none"
  BY DEF RunFails, Types, WeatherOK
<1>2. /\ weatherRun' = [weatherRun EXCEPT ![n] = u] /\ UNCHANGED <<marked, beatRan, buttons, postVars, calendarVars>>
      /\ WeatherFault("task", Attempted(r))
  BY DEF RunFails
<1> DEFINE all == r.cities \cup Attempted(r)
<1>3. all \in SUBSET WeatherCities /\ Attempted(r) \in SUBSET WeatherCities
  BY <1>1, AttemptedTyped
<1> HIDE DEF all
<1>4. RunOK(u)
  <2>1. CASE r.by = "button" /\ r.attempt < NowRetries
    <3>1. r.attempt + 1 \in 0..NowRetries
      BY <1>1, <2>1, WeatherAssumption DEF Runs
    <3>2. again = [r EXCEPT !.pc = "queued", !.attempt = @ + 1, !.cities = all, !.city = {}, !.done = {}, !.channels = {}]
      BY DEF all
    <3>3. again \in Runs /\ again.city = {} /\ again.done = {} /\ again.channels = {} /\ again.by = "button"
      BY <1>1, <1>3, <2>1, <3>1, <3>2 DEF Runs
    <3> HIDE DEF again
    <3> QED
      BY <2>1, <3>3 DEF RunOK, Attempted
  <2>2. CASE ~(r.by = "button" /\ r.attempt < NowRetries)
    BY <2>2, EmptyRun
  <2> QED
    BY <2>1, <2>2
<1> HIDE DEF u
<1>5. marked' \in [WeatherCities -> Nat \cup {NoDay}] /\ beatRan' \in BOOLEAN
  BY <1>2 DEF Types, WeatherOK
<1>6. weatherFaults' \in [count : 0..MaxWeatherFaults, cost : SUBSET WeatherCities]
  BY <1>2, <1>3, FaultTyped
<1> QED
  BY <1>1, <1>2, <1>4, <1>5, <1>6, TypesOfRun

\* What RunLost leaves.
LEMMA LostRun ==
  ASSUME NEW r \in Runs, now \in Nat
  PROVE  LET u == [NoRun EXCEPT !.pc = "queued", !.by = r.by, !.attempt = r.attempt, !.due = now + RedeliveredAfter,
                         !.cities = IF r.by = "button" THEN r.cities \cup Attempted(r) ELSE {}]
         IN  RunOK(u) /\ u.pc = "queued" /\ u.by = r.by /\ (u.by = "beat" => u.cities \cup Attempted(u) = {})
<1> DEFINE all == IF r.by = "button" THEN r.cities \cup Attempted(r) ELSE {}
           u == [NoRun EXCEPT !.pc = "queued", !.by = r.by, !.attempt = r.attempt, !.due = now + RedeliveredAfter, !.cities = all]
<1>1. all \in SUBSET WeatherCities /\ (r.by # "button" => all = {})
  BY AttemptedTyped
<1>2. now + RedeliveredAfter \in Nat /\ r.attempt \in 0..NowRetries /\ r.by \in {"beat", "button"}
  BY WeatherAssumption DEF Runs
<1>3. NoRun \in Runs /\ NoRun.channels = {} /\ NoRun.city = {} /\ NoRun.done = {}
  BY EmptyRun DEF RunOK, Attempted
<1> HIDE DEF NoRun, all
<1>4. u \in Runs
  BY <1>1, <1>2, <1>3 DEF Runs
<1>5. u.channels = {} /\ u.city = {} /\ u.done = {} /\ u.cities = all /\ u.pc = "queued" /\ u.by = r.by
  BY <1>3 DEF Runs
<1> HIDE DEF u
<1>6. RunOK(u) /\ u.pc = "queued" /\ u.by = r.by /\ (u.by = "beat" => u.cities \cup Attempted(u) = {})
  BY <1>1, <1>4, <1>5 DEF RunOK, Attempted
<1> QED
  BY <1>6 DEF u, all

LEMMA TypesOfRunLost ==
  ASSUME Types, NEW n \in WeatherSlots, RunLost(n), UNCHANGED adVars
  PROVE  Types'
<1> DEFINE r == weatherRun[n]
           u == [NoRun EXCEPT !.pc = "queued", !.by = r.by, !.attempt = r.attempt, !.due = now + RedeliveredAfter,
                         !.cities = IF r.by = "button" THEN r.cities \cup Attempted(r) ELSE {}]
<1>1. r \in Runs /\ now \in Nat
  BY DEF Types, WeatherOK, ClockOK
<1>2. /\ weatherRun' = [weatherRun EXCEPT ![n] = u] /\ call' = [call EXCEPT ![n] = NotPosting]
      /\ UNCHANGED <<marked, beatRan, buttons, shown, posts, postFaults, calendarVars>> /\ WeatherFault("lost", Attempted(r))
  BY DEF RunLost
<1>3. RunOK(u)
  BY <1>1, LostRun
<1> HIDE DEF u
<1>4. n \in Callers
  BY WeatherAssumption
<1>5. PostOK' /\ call'[n].pc = "none" /\ call' = [call EXCEPT ![n] = call'[n]] /\ posts' = posts /\ posts \in Nat
  <2>1. call'[n] = NotPosting
    BY <1>2, <1>4 DEF Types, PostOK
  <2> QED
    BY <1>2, <1>4, <2>1, EndsOK, NobodyPosts, PostTyped DEF Types
<1>6. AdsOK' /\ ClockOK'
  <2>1. posts' \in Nat /\ posts <= posts' /\ UNCHANGED calendarVars
    BY <1>2, <1>5
  <2> QED
    BY <1>5, <2>1, WeatherOnly
<1>7. marked' \in [WeatherCities -> Nat \cup {NoDay}] /\ beatRan' \in BOOLEAN
  BY <1>2 DEF Types, WeatherOK
<1>8. weatherFaults' \in [count : 0..MaxWeatherFaults, cost : SUBSET WeatherCities]
  BY <1>1, <1>2, FaultTyped, AttemptedTyped
<1>9. WeatherOK'
  BY <1>2, <1>3, <1>5, <1>7, <1>8, RunChanges
<1> QED
  BY <1>5, <1>6, <1>9 DEF Types

LEMMA TypesOfPosted ==
  ASSUME Types, NEW n \in WeatherSlots, WeatherPosted(n), UNCHANGED adVars
  PROVE  Types'
<1>1. /\ UNCHANGED <<marked, beatRan, weatherRun, weatherFaults, buttons, shown, posts, postFaults, calendarVars>>
      /\ call' = [call EXCEPT ![n] = NotPosting] /\ n \in Callers
  BY WeatherAssumption DEF WeatherPosted
<1>2. PostOK' /\ call'[n].pc = "none" /\ call' = [call EXCEPT ![n] = call'[n]] /\ posts \in Nat
  <2>1. call'[n] = NotPosting
    BY <1>1 DEF Types, PostOK
  <2> QED
    BY <1>1, <2>1, EndsOK, NobodyPosts, PostTyped DEF Types
<1>3. AdsOK' /\ ClockOK'
  <2>1. posts' \in Nat /\ posts <= posts' /\ UNCHANGED calendarVars
    BY <1>1, <1>2
  <2> QED
    BY <1>2, <2>1, WeatherOnly
<1>4. \A m \in WeatherSlots : call'[m].pc # "none" => call[m].pc # "none" /\ call'[m].label = call[m].label
  BY <1>1, <1>2, OneSlot, WeatherAssumption
<1>5. WeatherOK'
  BY <1>1, <1>4, WeatherFrame DEF Types, weatherVars
<1> QED
  BY <1>2, <1>3, <1>5 DEF Types

LEMMA TypesOfPostWeather ==
  ASSUME Types, NEW n \in WeatherSlots, NEW channel, PostWeather(n, channel), UNCHANGED adVars
  PROVE  /\ Types' /\ call' = [call EXCEPT ![n] = call'[n]] /\ call'[n].pc = "sending"
         /\ call'[n].label = [by |-> weatherRun[n].by, about |-> {channel}, at |-> now, serial |-> posts + 1]
<1> DEFINE r == weatherRun[n]
           u == [r EXCEPT !.channels = @ \ {channel}]
<1>1. r \in Runs /\ RunOK(r) /\ r.pc = "working" /\ channel \in r.channels /\ call[n].pc = "none" /\ n \in Callers /\ now \in Nat
  BY WeatherAssumption DEF PostWeather, Types, WeatherOK, RunOK, ClockOK
<1>2. /\ StartPost(n, r.by, channel, now, WeatherPost) /\ weatherRun' = [weatherRun EXCEPT ![n] = u]
      /\ UNCHANGED <<marked, beatRan, weatherFaults, buttons, shown, postFaults, calendarVars>>
  BY DEF PostWeather, Types, WeatherOK
<1>3. channel \in Subjects /\ r.by \in {"beat", "hand", "button"} /\ WeatherPost \in KnownPosts
  <2>1. r.channels \subseteq Channels /\ r.by \in {"beat", "button"}
    BY <1>1 DEF Runs
  <2> QED
    BY <1>1, <2>1 DEF Subjects, Channels, KnownPosts
<1>4. /\ u \in Runs /\ u.pc = "working" /\ u.by = r.by /\ u.city = r.city /\ u.channels = r.channels \ {channel} /\ u.done = r.done
      /\ u.cities = r.cities
  BY <1>1 DEF Runs
<1> DEFINE by == r.by
<1> HIDE DEF u, r, WeatherPost
<1>5. RunOK(u)
  BY <1>1, <1>4 DEF RunOK, Attempted
<1>6. /\ PostOK' /\ call' = [call EXCEPT ![n] = call'[n]] /\ call'[n].pc = "sending"
      /\ call'[n].label = [by |-> by, about |-> {channel}, at |-> now, serial |-> posts + 1]
  <2>1. StartPost(n, by, channel, now, WeatherPost) /\ by \in {"beat", "hand", "button"}
    BY <1>2, <1>3
  <2> HIDE DEF by
  <2> QED
    BY <1>1, <1>2, <1>3, <2>1, StartsOK DEF Types
<1>7. posts' = posts + 1 /\ posts \in Nat
  BY <1>2, PostTyped DEF StartPost, Types
<1>8. AdsOK' /\ ClockOK'
  BY <1>2, <1>6, <1>7, WeatherOnly
<1>9. channel \in UNION {ChannelsOf[c] : c \in u.city} /\ call'[n].label.about = {channel} /\ call'[n].label.by = u.by
  BY <1>1, <1>4, <1>6 DEF RunOK
<1>10. marked' \in [WeatherCities -> Nat \cup {NoDay}] /\ beatRan' \in BOOLEAN
  BY <1>2 DEF Types, WeatherOK
<1>11. WeatherOK'
  BY <1>2, <1>4, <1>5, <1>6, <1>9, <1>10, FaultTyped, RunChanges
<1> QED
  BY <1>6, <1>8, <1>11 DEF Types, r

LEMMA TypesOfWeather ==
  ASSUME Types, WeatherNext, UNCHANGED adVars
  PROVE  Types'
BY TypesOfBeatWeather, TypesOfPressButton, TypesOfStartRun, TypesOfNextCity, TypesOfPosted, TypesOfEndCity, TypesOfCommitRun,
   TypesOfRunFails, TypesOfRunLost, TypesOfPostWeather DEF WeatherNext

-----------------------------------------------------------------------------
(* Every variable keeps its type. *)

LEMMA TypesOfPostStep ==
  ASSUME Types, NEW c \in Callers, PostStep(c), UNCHANGED <<adVars, weatherVars, calendarVars>>
  PROVE  Types'
<1>1. Moves(c)
  BY PostMoves DEF Types
<1>2. PostOK'
  BY <1>1, MovesOK DEF Types
<1>3. /\ \A d \in Callers : (call'[d].pc # "none" <=> call[d].pc # "none") /\ call'[d].label = call[d].label
      /\ posts' = posts /\ posts \in Nat
  <2>1. call' = [call EXCEPT ![c] = call'[c]] /\ call'[c].label = call[c].label /\ call[c].pc # "none" /\ call'[c].pc # "none" /\ posts' = posts
    BY <1>1 DEF Moves, StepOf, Touches
  <2>2. \A d \in Callers : d # c => call'[d] = call[d]
    BY <2>1, OneSlot
  <2> QED
    BY <2>1, <2>2, PostTyped DEF Types
<1>4. AdsOK'
  BY <1>3, AdsFrame, AdsAssumption DEF Types
<1>5. WeatherOK'
  BY <1>3, WeatherFrame, WeatherAssumption DEF Types
<1>6. ClockOK'
  BY <1>3 DEF Types, ClockOK, calendarVars
<1> QED
  BY <1>2, <1>4, <1>5, <1>6 DEF Types

LEMMA TypesOfTick ==
  ASSUME Types, Tick
  PROVE  Types'
<1>1. /\ now' = now + 1 /\ asked' = {} /\ beatRan' = FALSE /\ beats' = beats /\ ad' = ad /\ adTask' = adTask /\ adFaults' = adFaults
      /\ disturbed' = disturbed /\ marked' = marked /\ weatherRun' = weatherRun /\ weatherFaults' = weatherFaults
      /\ UNCHANGED postVars
  BY DEF Tick
<1>2. PostOK' /\ call' = call /\ posts' = posts
  BY <1>1, PostUnchanged DEF Types
<1>3. AdsOK'
  BY <1>1, <1>2 DEF Types, AdsOK
<1>4. WeatherOK'
  BY <1>1, <1>2 DEF Types, WeatherOK
<1>5. ClockOK'
  BY <1>1, <1>2 DEF Types, ClockOK
<1> QED
  BY <1>2, <1>3, <1>4, <1>5 DEF Types

LEMMA TypesInit ==
  ASSUME Init
  PROVE  Types
<1>1. PICK q \in Starts : now = q.now /\ beats = q.beats /\ AdsInit(q) /\ WeatherInit(q) /\ PostInit(q)
  BY DEF Init
<1>2. PostOK
  BY <1>1, PostInitOK
<1>3. \A c \in Callers : call[c].pc = "none"
  BY <1>1, NobodyPosts DEF PostInit
<1>4. AdsOK
  <2>1. ad \in [AdIds -> AdRecords] /\ \A a \in AdIds : ad[a].recorded.serial = 0
    <3>1. q.ads \in [AdIds -> AdRows] /\ ad = q.ads
      BY <1>1, PostingAssumption DEF AdsInit
    <3>2. NoLabel \in Labels /\ NoLabel.serial = 0
      BY NobodyPosts
    <3> HIDE DEF NoLabel
    <3>3. \A row \in AdRows : row \in AdRecords /\ row.recorded = NoLabel
      BY <3>2 DEF AdRows, AdRecords
    <3> QED
      BY <3>1, <3>2, <3>3
  <2>2. NoTask \in AdTasks /\ NoTask.pc = "none"
    BY AdsAssumption DEF NoTask, AdTasks, AdStatuses
  <2>3. adTask \in [AdSlots -> AdTasks] /\ \A n \in AdSlots : adTask[n].pc = "none"
    BY <1>1, <2>2 DEF AdsInit
  <2>4. asked = {} /\ adFaults \in 0..MaxAdFaults /\ disturbed \in [edited : SUBSET AdIds, lost : SUBSET AdIds]
    BY <1>1, PostingAssumption DEF AdsInit
  <2>5. posts = 0
    BY <1>1 DEF PostInit
  <2> QED
    BY <1>3, <2>1, <2>3, <2>4, <2>5, AdsAssumption DEF AdsOK
<1>5. WeatherOK
  <2>1. weatherRun = [n \in WeatherSlots |-> NoRun] /\ marked = [c \in WeatherCities |-> NoDay] /\ beatRan = FALSE
        /\ weatherFaults = [count |-> q.weatherFaults, cost |-> {}]
    BY <1>1 DEF WeatherInit
  <2>2. q.weatherFaults \in 0..MaxWeatherFaults
    BY PostingAssumption
  <2>3. NoRun \in Runs
    BY EmptyRun DEF RunOK
  <2> QED
    BY <1>3, <2>1, <2>2, <2>3, EmptyRun, WeatherAssumption DEF WeatherOK
<1>6. ClockOK
  BY <1>1, <1>3, PostingAssumption DEF ClockOK
<1> QED
  BY <1>2, <1>4, <1>5, <1>6 DEF Types

LEMMA TypesNext ==
  ASSUME Types, [Next]_postingVars
  PROVE  Types'
<1>1. CASE Tick
  BY <1>1, TypesOfTick
<1>2. CASE AdsNext /\ UNCHANGED weatherVars
  BY <1>2, TypesOfAds
<1>3. CASE WeatherNext /\ UNCHANGED adVars
  BY <1>3, TypesOfWeather
<1>4. CASE \E c \in Callers : PostStep(c) /\ UNCHANGED <<adVars, weatherVars, calendarVars>>
  BY <1>4, TypesOfPostStep
<1>5. CASE UNCHANGED postingVars
  <2>1. UNCHANGED adVars /\ UNCHANGED weatherVars /\ UNCHANGED postVars /\ UNCHANGED calendarVars
    BY <1>5 DEF postingVars
  <2>2. PostOK' /\ call' = call /\ posts' = posts
    BY <2>1, PostUnchanged DEF Types
  <2>3. AdsOK' /\ WeatherOK'
    BY <2>1, <2>2, AdsFrame, WeatherFrame, PostTyped DEF Types
  <2>4. ClockOK'
    BY <2>1, <2>2 DEF ClockOK, calendarVars, Types
  <2> QED
    BY <2>2, <2>3, <2>4 DEF Types
<1> QED
  BY <1>1, <1>2, <1>3, <1>4, <1>5 DEF Next

LEMMA TypesHold == Spec => []Types
<1>1. Init => Types
  BY TypesInit
<1>2. Types /\ [Next]_postingVars => Types'
  BY TypesNext
<1> QED
  BY <1>1, <1>2, PTL DEF Spec

LEMMA TypesImply ==
  ASSUME Types
  PROVE  TypeOK
<1>1. /\ now \in Nat /\ beats \subseteq {"ads", "weather"} /\ asked \subseteq AdIds /\ beatRan \in BOOLEAN
      /\ postFaults \in 0..MaxPostFaults /\ adFaults \in 0..MaxAdFaults /\ weatherFaults.count \in 0..MaxWeatherFaults
  BY FaultTyped DEF Types, ClockOK, AdsOK, WeatherOK, PostOK
<1>2. \A l \in Labels : l.serial <= posts => LabelOK(l)
  <2>1. posts \in Nat
    BY PostTyped DEF Types
  <2> QED
    BY <2>1 DEF Labels, LabelOK
<1>3. ASSUME NEW a \in AdIds PROVE ad[a].status \in AdStatuses /\ ad[a].auto \in BOOLEAN /\ LabelOK(ad[a].recorded)
  <2>1. ad[a] \in AdRecords /\ ad[a].recorded.serial <= posts
    BY DEF Types, AdsOK
  <2> HIDE DEF LabelOK
  <2> QED
    BY <1>2, <2>1 DEF AdRecords
<1>4. ASSUME NEW n \in AdSlots
      PROVE  /\ adTask[n].pc \in {"none", "queued", "posting"} /\ adTask[n].attempt \in 0..AdRetries
             /\ adTask[n].pc = "posting" <=> call[n].pc # "none"
  BY DEF Types, AdsOK, AdTasks
<1>5. ASSUME NEW n \in WeatherSlots
      PROVE  /\ weatherRun[n].pc \in {"none", "queued", "working"} /\ weatherRun[n].attempt \in 0..NowRetries
             /\ weatherRun[n].channels \subseteq UNION {ChannelsOf[c] : c \in weatherRun[n].city}
             /\ call[n].pc # "none" => weatherRun[n].pc = "working" /\ weatherRun[n].city # {}
  <2>1. RunOK(weatherRun[n]) /\ weatherRun[n] \in Runs
    BY DEF Types, WeatherOK, RunOK
  <2>2. call[n].pc # "none" => weatherRun[n].pc = "working" /\ weatherRun[n].city # {}
    BY DEF Types, WeatherOK
  <2>3. weatherRun[n].pc \in {"none", "queued", "working"} /\ weatherRun[n].attempt \in 0..NowRetries
    BY <2>1 DEF Runs
  <2> QED
    BY <2>1, <2>2, <2>3 DEF RunOK
<1>6. ASSUME NEW c \in Callers
      PROVE  /\ call[c].pc \in {"none", "sending", "undoing", "over"} /\ call[c].attempt \in 1..2
             /\ call[c].made \in 0..Len(RequestsOf(call[c])) /\ LabelOK(call[c].label)
             /\ call[c].pc = "sending" => call[c].made < Len(RequestsOf(call[c]))
  <2>1. call[c] \in Calls /\ CallOK(call[c])
    BY DEF Types, PostOK, CallOK
  <2>2. LabelOK(call[c].label)
    BY <1>2, PostTyped DEF Types
  <2>3. Len(RequestsOf(call[c])) \in Nat
    BY <2>1, CallsOf
  <2>4. call[c].pc \in {"none", "sending", "undoing", "over"} /\ call[c].attempt \in 1..2 /\ call[c].made \in Nat
    BY <2>1 DEF Calls
  <2> QED
    BY <2>1, <2>2, <2>3, <2>4 DEF CallOK
<1>7. ASSUME NEW m \in shown PROVE LabelOK(m[1]) /\ m[1].serial > 0
  <2>1. m[1] \in Labels /\ m[1].serial \in 1..posts /\ posts \in Nat
    BY PostTyped DEF Types, PostOK, Ids
  <2> QED
    BY <1>2, <2>1
<1> QED
  BY <1>1, <1>3, <1>4, <1>5, <1>6, <1>7 DEF TypeOK

\* Every variable keeps its type; what is posting is what a task or a request of
\* that slot has begun, and what is shown belongs to a post that was started.
THEOREM TypeCorrect == Spec => []TypeOK
<1>1. Types => TypeOK
  BY TypesImply
<1> QED
  BY <1>1, TypesHold, PTL

-----------------------------------------------------------------------------
(* The weather. *)

\* The labels there are; what beat has posted about a city.
Posted == {m[1] : m \in shown} \cup {call[c].label : c \in {d \in Callers : call[d].pc # "none"}}
About(l, c) == l.by = "beat" /\ \E channel \in ChannelsOf[c] : l.about = {channel}
LocalDay(l) == DayOf(Local(l.at))

\* The cities a run of beat has before it or has had.
Tried(r) == IF r.by = "beat" THEN Attempted(r) ELSE {}
Hand(r) == IF r.by = "beat" THEN r.cities \cup Attempted(r) ELSE {}
InWindow(c, t) == TargetOf[c] <= MinuteOf(Local(t)) /\ MinuteOf(Local(t)) <= TargetOf[c] + Window

\* A run that works ends on the day it began.
OnTime == \A n \in WeatherSlots : weatherRun[n].pc = "working" => weatherRun[n].today = Today
MarkedByNow == \A c \in WeatherCities : marked[c] <= Today

\* At most one run of beat has a city, in the window of a day on which it is not
\* marked yet.
InOneHand(c) ==
  /\ \A n, m \in WeatherSlots : c \in Hand(weatherRun[n]) /\ c \in Hand(weatherRun[m]) => n = m
  /\ \A n \in WeatherSlots : c \in Hand(weatherRun[n]) => InWindow(c, now) /\ marked[c] # Today

\* What was posted today is marked, or known to the run that has the city.
Remembered(c) ==
  \A l \in Posted : About(l, c) =>
    /\ InWindow(c, l.at) /\ LocalDay(l) <= Today
    /\ LocalDay(l) = Today =>
         \/ marked[c] = Today
         \/ \E n \in WeatherSlots : c \in Tried(weatherRun[n]) /\ \A channel \in weatherRun[n].channels : l.about # {channel}

OneADay(c) ==
  \A l, k \in Posted : About(l, c) /\ l.about = k.about /\ l.by = k.by /\ LocalDay(l) = LocalDay(k) => l = k

CityInv(c) == InOneHand(c) /\ Remembered(c) /\ OneADay(c)
WeatherInv == OnTime /\ MarkedByNow /\ \A c \in WeatherCities \ weatherFaults.cost : CityInv(c)

LEMMA PostedBy ==
  ASSUME Types, NEW n \in Callers, call' = call \/ call' = [call EXCEPT ![n] = call'[n]], shown' = shown
  PROVE  Posted' \subseteq Posted \cup (IF call'[n].pc = "none" THEN {} ELSE {call'[n].label})
<1>1. \A m \in Callers : m # n => call'[m] = call[m]
  BY OneSlot
<1> QED
  BY <1>1 DEF Posted

LEMMA PostedStays ==
  ASSUME call' = call, shown' = shown
  PROVE  Posted' = Posted
BY DEF Posted

LEMMA PostedMoves ==
  ASSUME Types, NEW c \in Callers, Moves(c)
  PROVE  Posted' \subseteq Posted
<1>1. call' = [call EXCEPT ![c] = call'[c]] /\ call'[c].label = call[c].label /\ call[c].pc # "none"
  BY DEF Moves, StepOf
<1>2. \A d \in Callers : d # c => call'[d] = call[d]
  BY <1>1, OneSlot
<1>3. \A m \in shown' : m[1] = call[c].label \/ m \in shown
  BY DEF Moves, Touches
<1> QED
  BY <1>1, <1>2, <1>3 DEF Posted

\* Before a run works it has nothing in hand.
LEMMA NothingInHand ==
  ASSUME NEW r, RunOK(r)
  PROVE  Tried(r) \subseteq Hand(r) /\ (r.pc # "working" => Hand(r) = {})
BY DEF RunOK, Tried, Hand

LEMMA SameMinute ==
  ASSUME now' = now
  PROVE  Today' = Today
BY DEF Today

\* A run's step that takes no city in hand, and remembers what it tried.
LEMMA QuietCity ==
  ASSUME NEW c \in WeatherCities, CityInv(c), NEW n \in WeatherSlots, NEW u, weatherRun \in [WeatherSlots -> Runs],
         weatherRun' = [weatherRun EXCEPT ![n] = u], now' = now, marked'[c] = marked[c],
         c \in Hand(u) => c \in Hand(weatherRun[n]),
         c \in Tried(weatherRun[n]) => c \in Tried(u) /\ u.channels \cap ChannelsOf[c] \subseteq weatherRun[n].channels,
         \A l \in Posted' : About(l, c) => l \in Posted
  PROVE  CityInv(c)'
<1>1. \A m \in WeatherSlots : weatherRun'[m] = IF m = n THEN u ELSE weatherRun[m]
  OBVIOUS
<1>2. Today' = Today
  BY SameMinute
<1>3. InOneHand(c)'
  <2>1. \A m \in WeatherSlots : c \in Hand(weatherRun'[m]) => c \in Hand(weatherRun[m])
    BY <1>1
  <2> HIDE DEF Hand
  <2> QED
    BY <1>2, <2>1 DEF CityInv, InOneHand
<1>4. ASSUME NEW l \in Posted', About(l, c)
      PROVE  /\ InWindow(c, l.at) /\ LocalDay(l) <= Today'
             /\ LocalDay(l) = Today' =>
                  \/ marked'[c] = Today'
                  \/ \E m \in WeatherSlots : c \in Tried(weatherRun'[m]) /\ \A channel \in weatherRun'[m].channels : l.about # {channel}
  <2>1. l \in Posted
    BY <1>4
  <2>2. InWindow(c, l.at) /\ LocalDay(l) <= Today'
    BY <1>2, <1>4, <2>1 DEF CityInv, Remembered
  <2>3. ASSUME NEW m \in WeatherSlots, c \in Tried(weatherRun[m]), \A channel \in weatherRun[m].channels : l.about # {channel}
        PROVE  c \in Tried(weatherRun'[m]) /\ \A channel \in weatherRun'[m].channels : l.about # {channel}
    <3>1. CASE m # n
      BY <1>1, <2>3, <3>1
    <3>2. CASE m = n
      <4>1. weatherRun'[m] = u /\ c \in Tried(u) /\ u.channels \cap ChannelsOf[c] \subseteq weatherRun[n].channels
        BY <1>1, <2>3, <3>2
      <4>2. \A channel \in u.channels : l.about = {channel} => channel \in ChannelsOf[c]
        BY <1>4 DEF About
      <4> QED
        BY <2>3, <3>2, <4>1, <4>2
    <3> QED
      BY <3>1, <3>2
  <2> QED
    BY <1>2, <1>4, <2>1, <2>2, <2>3 DEF CityInv, Remembered
<1>5. Remembered(c)'
  BY <1>4 DEF Remembered
<1>6. OneADay(c)'
  <2>1. \A l, k \in Posted' : About(l, c) /\ l.about = k.about /\ l.by = k.by => l \in Posted /\ k \in Posted
    BY DEF About
  <2> QED
    BY <2>1 DEF CityInv, OneADay
<1> QED
  BY <1>3, <1>5, <1>6 DEF CityInv

LEMMA CityOfStartRun ==
  ASSUME Types, NEW c \in WeatherCities, CityInv(c), NEW n \in WeatherSlots, StartRun(n), c \notin weatherFaults'.cost
  PROVE  CityInv(c)'
<1> DEFINE r == weatherRun[n]
           cities == IF r.by = "beat" THEN {d \in WeatherCities : IsTime(d)} ELSE r.cities
           u == [r EXCEPT !.pc = "working", !.today = Today, !.cities = cities]
           taken == IF r.by = "beat" THEN cities \cap InHand ELSE {}
<1>1. r \in Runs /\ RunOK(r) /\ r.pc = "queued" /\ Attempted(r) = {} /\ weatherRun \in [WeatherSlots -> Runs]
  BY DEF StartRun, Types, WeatherOK, RunOK
<1>2. /\ weatherRun' = [weatherRun EXCEPT ![n] = u] /\ marked' = marked /\ UNCHANGED postVars /\ now' = now
      /\ weatherFaults' = [weatherFaults EXCEPT !.cost = @ \cup taken]
  BY DEF StartRun, calendarVars
<1>3. c \notin taken
  <2> HIDE DEF taken
  <2>1. weatherFaults'.cost = weatherFaults.cost \cup taken
    BY <1>2, FaultTyped
  <2> QED
    BY <2>1
<1>4. Posted' = Posted
  BY <1>2, PostedStays DEF postVars
<1>5. u.by = r.by /\ u.cities = cities /\ u.channels = r.channels /\ Attempted(u) = {} /\ Tried(r) = {}
  <2> HIDE DEF cities
  <2>1. u.by = r.by /\ u.cities = cities /\ u.channels = r.channels /\ u.city = r.city /\ u.done = r.done
    BY <1>1 DEF Runs
  <2> HIDE DEF u, r
  <2> QED
    BY <1>1, <2>1 DEF Attempted, Tried
<1> HIDE DEF u
<1>6. CASE c \notin Hand(u)
  <2>1. c \notin Tried(r)
    BY <1>5
  <2> QED
    BY <1>1, <1>2, <1>4, <1>6, <2>1, QuietCity
<1>7. CASE c \in Hand(u)
  <2>1. r.by = "beat" /\ c \in cities /\ IsTime(c)
    BY <1>5, <1>7 DEF Hand
  <2>2. c \notin InHand
    BY <1>3, <2>1
  <2>3. \A m \in WeatherSlots : c \notin Hand(weatherRun[m])
    BY <2>2 DEF InHand, Hand
  <2>4. \A m \in WeatherSlots : weatherRun'[m] = IF m = n THEN u ELSE weatherRun[m]
    BY <1>1, <1>2
  <2>5. Today' = Today /\ InWindow(c, now) /\ marked[c] # Today
    BY <1>2, <2>1, SameMinute DEF IsTime, InWindow
  <2>6. \A m \in WeatherSlots : c \in Hand(weatherRun'[m]) => m = n
    BY <2>3, <2>4
  <2>7. InOneHand(c)'
    <3> HIDE DEF Hand
    <3> QED
      BY <1>2, <2>5, <2>6 DEF InOneHand
  <2>8. \A m \in WeatherSlots : c \notin Tried(weatherRun[m])
    BY <2>3 DEF Hand, Tried
  <2>9. Remembered(c)'
    BY <1>2, <1>4, <2>5, <2>8 DEF CityInv, Remembered
  <2>10. OneADay(c)'
    BY <1>4 DEF CityInv, OneADay
  <2> QED
    BY <2>7, <2>9, <2>10 DEF CityInv
<1> QED
  BY <1>6, <1>7

LEMMA CityOfPostWeather ==
  ASSUME Types, NEW c \in WeatherCities, CityInv(c), NEW n \in WeatherSlots, NEW channel, PostWeather(n, channel), UNCHANGED adVars
  PROVE  CityInv(c)'
<1> DEFINE r == weatherRun[n]
           u == [r EXCEPT !.channels = @ \ {channel}]
           new == [by |-> r.by, about |-> {channel}, at |-> now, serial |-> posts + 1]
<1>1. r \in Runs /\ RunOK(r) /\ channel \in r.channels /\ n \in Callers /\ weatherRun \in [WeatherSlots -> Runs] /\ now \in Nat
  BY WeatherAssumption DEF PostWeather, Types, WeatherOK, RunOK, ClockOK
<1>2. weatherRun' = [weatherRun EXCEPT ![n] = u] /\ marked' = marked /\ now' = now /\ shown' = shown
  BY DEF PostWeather, Types, WeatherOK, calendarVars
<1>3. call' = [call EXCEPT ![n] = call'[n]] /\ call'[n].label = new
  BY TypesOfPostWeather
<1>4. Posted' \subseteq Posted \cup {new}
  BY <1>1, <1>2, <1>3, PostedBy
<1>5. u.by = r.by /\ u.cities = r.cities /\ u.channels = r.channels \ {channel} /\ Attempted(u) = Attempted(r)
  BY <1>1 DEF Runs, Attempted
<1>6. new.by = r.by /\ new.about = {channel} /\ new.at = now
  OBVIOUS
<1> HIDE DEF u, new
<1>7. CASE ~About(new, c)
  <2>1. \A l \in Posted' : About(l, c) => l \in Posted
    BY <1>4, <1>7
  <2>2. Hand(u) = Hand(r) /\ Tried(u) = Tried(r) /\ u.channels \subseteq r.channels
    BY <1>5 DEF Hand, Tried
  <2> QED
    BY <1>1, <1>2, <2>1, <2>2, QuietCity
<1>8. CASE About(new, c)
  <2>1. r.by = "beat" /\ channel \in ChannelsOf[c]
    BY <1>6, <1>8 DEF About
  <2>2. c \in Tried(r)
    <3>1. PICK d \in r.city : channel \in ChannelsOf[d]
      BY <1>1 DEF RunOK
    <3>2. d \in WeatherCities
      BY <1>1, <3>1 DEF Runs
    <3>3. c = d
      BY <2>1, <3>1, <3>2, WeatherAssumption
    <3> QED
      BY <2>1, <3>1, <3>3 DEF Tried, Attempted
  <2>3. c \in Hand(r) /\ InWindow(c, now) /\ marked[c] # Today
    BY <1>1, <2>2, NothingInHand DEF CityInv, InOneHand
  <2>4. \A m \in WeatherSlots : c \in Tried(weatherRun[m]) => m = n
    <3>1. \A m \in WeatherSlots : c \in Tried(weatherRun[m]) => c \in Hand(weatherRun[m])
      BY NothingInHand DEF Types, WeatherOK
    <3> QED
      BY <2>3, <3>1 DEF CityInv, InOneHand
  <2>5. \A m \in WeatherSlots : weatherRun'[m] = IF m = n THEN u ELSE weatherRun[m]
    BY <1>1, <1>2
  <2>6. Today' = Today
    BY <1>2, SameMinute
  <2>7. c \in Tried(u) /\ Hand(u) = Hand(r) /\ channel \notin u.channels /\ u.channels \subseteq r.channels
    BY <1>5, <2>2 DEF Hand, Tried
  <2>8. InOneHand(c)'
    <3>1. \A m \in WeatherSlots : Hand(weatherRun'[m]) = Hand(weatherRun[m])
      BY <2>5, <2>7
    <3> HIDE DEF Hand
    <3> QED
      BY <1>2, <2>6, <3>1 DEF CityInv, InOneHand
  <2>9. LocalDay(new) = Today
    BY <1>6 DEF LocalDay, Today
  <2>10. Today \in Nat
    BY <1>1, DayTyped DEF Today
  <2>11. ASSUME NEW l \in Posted', About(l, c)
         PROVE  /\ InWindow(c, l.at) /\ LocalDay(l) <= Today'
                /\ LocalDay(l) = Today' =>
                     \/ marked'[c] = Today'
                     \/ \E m \in WeatherSlots : c \in Tried(weatherRun'[m]) /\ \A chan \in weatherRun'[m].channels : l.about # {chan}
    <3>1. CASE l = new
      <4>1. \A chan \in weatherRun'[n].channels : new.about # {chan}
        BY <1>6, <2>5, <2>7
      <4> QED
        BY <1>6, <2>3, <2>5, <2>6, <2>7, <2>9, <2>10, <3>1, <4>1
    <3>2. CASE l \in Posted
      <4>1. ASSUME NEW m \in WeatherSlots, c \in Tried(weatherRun[m]), \A chan \in weatherRun[m].channels : l.about # {chan}
            PROVE  c \in Tried(weatherRun'[m]) /\ \A chan \in weatherRun'[m].channels : l.about # {chan}
        BY <2>5, <2>7, <4>1
      <4> QED
        BY <1>2, <1>4, <2>6, <2>11, <3>2, <4>1 DEF CityInv, Remembered
    <3> QED
      BY <1>4, <3>1, <3>2
  <2>12. Remembered(c)'
    BY <2>11 DEF Remembered
  <2>13. ASSUME NEW k \in Posted, About(k, c), k.about = new.about, LocalDay(k) = Today PROVE FALSE
    <3>1. PICK m \in WeatherSlots : c \in Tried(weatherRun[m]) /\ \A chan \in weatherRun[m].channels : k.about # {chan}
      BY <2>3, <2>13 DEF CityInv, Remembered
    <3> QED
      BY <1>1, <1>6, <2>4, <2>13, <3>1
  <2>14. OneADay(c)'
    <3>1. \A l, k \in Posted' : About(l, c) /\ l.about = k.about /\ l.by = k.by => About(k, c)
      BY DEF About
    <3>2. \A l, k \in Posted : About(l, c) /\ l.about = k.about /\ l.by = k.by /\ LocalDay(l) = LocalDay(k) => l = k
      BY DEF CityInv, OneADay
    <3> QED
      BY <1>4, <2>9, <2>13, <3>1, <3>2 DEF OneADay
  <2> QED
    BY <2>8, <2>12, <2>14 DEF CityInv
<1> QED
  BY <1>7, <1>8

LEMMA CityOfCommitRun ==
  ASSUME Types, OnTime, NEW c \in WeatherCities, CityInv(c), NEW n \in WeatherSlots, CommitRun(n)
  PROVE  CityInv(c)'
<1> DEFINE r == weatherRun[n]
<1>1. r.pc = "working" /\ r.city = {} /\ weatherRun \in [WeatherSlots -> Runs] /\ r.today = Today /\ RunOK(r)
  BY DEF CommitRun, Types, WeatherOK, OnTime
<1>2. /\ weatherRun' = [weatherRun EXCEPT ![n] = NoRun] /\ now' = now /\ UNCHANGED postVars
      /\ marked' = [d \in WeatherCities |-> IF r.by = "beat" /\ d \in r.done THEN r.today ELSE marked[d]]
  BY DEF CommitRun, calendarVars
<1>3. Posted' = Posted
  BY <1>2, PostedStays DEF postVars
<1>4. Tried(r) = IF r.by = "beat" THEN r.done ELSE {}
  BY <1>1 DEF Tried, Attempted
<1>5. Hand(NoRun) = {} /\ Tried(NoRun) = {}
  BY EmptyRun, NothingInHand DEF RunOK
<1> HIDE DEF NoRun
<1>6. CASE c \notin Tried(r)
  <2>1. marked'[c] = marked[c]
    BY <1>2, <1>4, <1>6
  <2> QED
    BY <1>1, <1>2, <1>3, <1>5, <1>6, <2>1, QuietCity
<1>7. CASE c \in Tried(r)
  <2>1. marked'[c] = Today /\ Today' = Today
    BY <1>1, <1>2, <1>4, <1>7, SameMinute
  <2>2. c \in Hand(r)
    BY <1>1, <1>7, NothingInHand
  <2>3. \A m \in WeatherSlots : c \notin Hand(weatherRun'[m])
    <3>1. \A m \in WeatherSlots : m # n => c \notin Hand(weatherRun[m])
      BY <2>2 DEF CityInv, InOneHand
    <3> QED
      BY <1>1, <1>2, <1>5, <3>1
  <2>4. InOneHand(c)'
    <3> HIDE DEF Hand
    <3> QED
      BY <2>3 DEF InOneHand
  <2>5. Remembered(c)'
    BY <1>3, <2>1 DEF CityInv, Remembered
  <2>6. OneADay(c)'
    BY <1>3 DEF CityInv, OneADay
  <2> QED
    BY <2>4, <2>5, <2>6 DEF CityInv
<1> QED
  BY <1>6, <1>7

\* Days do not go back.
LEMMA NextDay ==
  ASSUME NEW t \in Nat
  PROVE  DayOf(Local(t)) <= DayOf(Local(t + 1))
<1> DEFINE x == Local(t)
           y == Local(t + 1)
<1>1. DayMinutes \in Nat \ {0} /\ x \in Nat /\ y = x + 1
  BY CalendarAssumption DEF Local
<1> HIDE DEF x, y
<1>2. x \div DayMinutes <= y \div DayMinutes
  BY <1>1
<1> QED
  BY <1>2 DEF x, y, DayOf

LEMMA CityOfTick ==
  ASSUME Types, Punctual, NEW c \in WeatherCities, CityInv(c), Tick
  PROVE  CityInv(c)'
<1>1. now' = now + 1 /\ now \in Nat /\ Idle /\ weatherRun' = weatherRun /\ marked' = marked /\ UNCHANGED postVars
  BY DEF Tick, Types, ClockOK
<1>2. \A m \in WeatherSlots : c \notin Hand(weatherRun[m]) /\ c \notin Tried(weatherRun[m])
  <2> TAKE m \in WeatherSlots
  <2>1. weatherRun[m].pc # "working" /\ RunOK(weatherRun[m])
    BY <1>1 DEF Idle, Waits, Types, WeatherOK
  <2> QED
    BY <2>1, NothingInHand
<1>3. Posted' = Posted
  BY <1>1, PostedStays DEF postVars
<1>4. Today \in Nat /\ Today' \in Nat /\ Today <= Today'
  <2>1. Today = DayOf(Local(now)) /\ Today' = DayOf(Local(now + 1))
    BY <1>1 DEF Today
  <2> QED
    BY <1>1, <2>1, DayTyped, NextDay
<1>5. InOneHand(c)'
  <2> HIDE DEF Hand
  <2> QED
    BY <1>1, <1>2 DEF InOneHand
<1>6. ASSUME NEW l \in Posted, About(l, c)
      PROVE  InWindow(c, l.at) /\ LocalDay(l) <= Today' /\ (LocalDay(l) = Today' => marked[c] = Today')
  <2>1. InWindow(c, l.at) /\ LocalDay(l) <= Today /\ (LocalDay(l) = Today => marked[c] = Today)
    BY <1>2, <1>6 DEF CityInv, Remembered
  <2>2. LocalDay(l) \in Nat
    <3>1. l \in Labels
      BY PostTyped DEF Posted, Types, PostOK, Ids
    <3>2. l.at \in Nat
      BY <3>1 DEF Labels
    <3> QED
      BY <3>2, DayTyped DEF LocalDay
  <2> HIDE DEF Today
  <2> QED
    BY <1>4, <2>1, <2>2
<1>7. Remembered(c)'
  BY <1>1, <1>3, <1>6 DEF Remembered
<1>8. OneADay(c)'
  BY <1>3 DEF CityInv, OneADay
<1> QED
  BY <1>5, <1>7, <1>8 DEF CityInv

LEMMA QuietNow ==
  ASSUME NEW c \in WeatherCities, CityInv(c), weatherRun' = weatherRun, marked' = marked, now' = now,
         \A l \in Posted' : About(l, c) => l \in Posted
  PROVE  CityInv(c)'
<1>1. Today' = Today
  BY SameMinute
<1>2. InOneHand(c)'
  <2> HIDE DEF Hand
  <2> QED
    BY <1>1 DEF CityInv, InOneHand
<1>3. Remembered(c)'
  <2> HIDE DEF About
  <2> QED
    BY <1>1 DEF CityInv, Remembered
<1>4. OneADay(c)'
  <2>1. \A l, k \in Posted' : About(l, c) /\ l.about = k.about /\ l.by = k.by => l \in Posted /\ k \in Posted
    BY DEF About
  <2> QED
    BY <2>1 DEF CityInv, OneADay
<1> QED
  BY <1>2, <1>3, <1>4 DEF CityInv

\* The ads begin posts about ads only.
LEMMA AdsPost ==
  ASSUME Types, Types', AdsNext
  PROVE  shown' = shown /\ \A l \in Posted' : l \in Posted \/ \E a \in AdIds : l.about = {a}
<1>1. CASE UNCHANGED postVars
  BY <1>1, PostedStays DEF postVars
<1>2. CASE \E n \in AdSlots : StartAd(n) \/ AdPublished(n) \/ AdNotPublished(n) \/ AdWorkerDies(n)
  <2>1. PICK n \in AdSlots : StartAd(n) \/ AdPublished(n) \/ AdNotPublished(n) \/ AdWorkerDies(n)
    BY <1>2
  <2>2. n \in Callers /\ call \in [Callers -> Calls]
    BY AdsAssumption DEF Types, PostOK
  <2>3. shown' = shown /\ \E r : call' = [call EXCEPT ![n] = r]
    BY <2>1 DEF StartAd, StartPost, AdPublished, AdNotPublished, AdWorkerDies
  <2>4. call' = [call EXCEPT ![n] = call'[n]]
    BY <2>2, <2>3
  <2>5. call'[n].pc # "none" => \E a \in AdIds : call'[n].label.about = {a}
    BY DEF Types, AdsOK
  <2> QED
    BY <2>2, <2>3, <2>4, <2>5, PostedBy
<1> QED
  BY <1>1, <1>2 DEF AdsNext, BeatAd, PublishByHand, SetAuto, SetStatus, DeleteAd, AdUnpublishable

LEMMA NotAboutAds ==
  ASSUME NEW l, NEW a \in AdIds, l.about = {a}, NEW c \in WeatherCities
  PROVE  ~About(l, c)
BY PostingAssumption DEF About

\* A run that does not work afterwards, and has not tried the city.
LEMMA QuietEnd ==
  ASSUME Types, Types', NEW c \in WeatherCities, CityInv(c), NEW n \in WeatherSlots, NEW u, weatherRun' = [weatherRun EXCEPT ![n] = u],
         u.pc # "working", c \notin Tried(weatherRun[n]), now' = now, marked' = marked, Posted' \subseteq Posted
  PROVE  CityInv(c)'
<1>1. weatherRun \in [WeatherSlots -> Runs] /\ weatherRun'[n] = u
  BY DEF Types, WeatherOK
<1>2. Hand(u) = {}
  BY <1>1, NothingInHand DEF Types, WeatherOK
<1> QED
  BY <1>1, <1>2, QuietCity

\* What a step of the weather does to the runs and to the cities.
LEMMA RunsOfStep ==
  ASSUME Types, Types', OnTime, WeatherNext, UNCHANGED adVars
  PROVE  /\ OnTime' /\ now' = now /\ weatherFaults.cost \subseteq weatherFaults'.cost
         /\ \A c \in WeatherCities : CityInv(c) /\ c \notin weatherFaults'.cost => CityInv(c)'
         /\ \A c \in WeatherCities : marked'[c] = marked[c] \/ marked'[c] = Today
<1> DEFINE Goal == /\ OnTime' /\ now' = now /\ weatherFaults.cost \subseteq weatherFaults'.cost
                   /\ \A c \in WeatherCities : CityInv(c) /\ c \notin weatherFaults'.cost => CityInv(c)'
                   /\ \A c \in WeatherCities : marked'[c] = marked[c] \/ marked'[c] = Today
<1>1. /\ weatherRun \in [WeatherSlots -> Runs] /\ \A n \in WeatherSlots : RunOK(weatherRun[n]) /\ n \in Callers
      /\ Today' = Today /\ now' = now
  <2>1. now' = now
    BY DEF WeatherNext, BeatWeather, PressButton, StartRun, NextCity, PostWeather, WeatherPosted, EndCity, CommitRun, RunFails, RunLost, calendarVars
  <2> QED
    BY <2>1, SameMinute, WeatherAssumption DEF Types, WeatherOK
<1>2. ASSUME NEW n \in WeatherSlots, NEW u, weatherRun' = [weatherRun EXCEPT ![n] = u],
             u.pc = "working" => u.today = Today \/ (weatherRun[n].pc = "working" /\ u.today = weatherRun[n].today)
      PROVE  OnTime'
  <2>1. \A m \in WeatherSlots : weatherRun'[m] = IF m = n THEN u ELSE weatherRun[m]
    BY <1>1, <1>2
  <2> HIDE DEF Today
  <2>2. \A m \in WeatherSlots : weatherRun'[m].pc = "working" => weatherRun'[m].today = Today
    BY <1>2, <2>1 DEF OnTime
  <2> QED
    BY <1>1, <2>2 DEF OnTime
<1>3. ASSUME NEW n \in WeatherSlots, NEW u, weatherRun' = [weatherRun EXCEPT ![n] = u], u.pc # "working",
             marked' = marked, Posted' \subseteq Posted, weatherFaults.cost \subseteq weatherFaults'.cost,
             Tried(weatherRun[n]) \subseteq weatherFaults'.cost
      PROVE  Goal
  <2>1. OnTime'
    BY <1>2, <1>3
  <2>2. ASSUME NEW c \in WeatherCities, CityInv(c), c \notin weatherFaults'.cost PROVE CityInv(c)'
    BY <1>1, <1>3, <2>2, QuietEnd
  <2> QED
    BY <1>1, <1>3, <2>1, <2>2
<1>4. ASSUME BeatWeather \/ \E c \in WeatherCities : PressButton(c) PROVE Goal
  <2>1. PICK n \in WeatherSlots, run \in {NoRun} \cup {[NoRun EXCEPT !.by = "button", !.cities = {c}] : c \in WeatherCities} :
           weatherRun[n].pc = "none" /\ weatherRun' = [weatherRun EXCEPT ![n] = [run EXCEPT !.pc = "queued", !.due = now]]
    <3>1. CASE BeatWeather
      BY <3>1 DEF BeatWeather, EnqueueRun
    <3>2. CASE \E c \in WeatherCities : PressButton(c)
      <4>1. PICK c \in WeatherCities : PressButton(c)
        BY <3>2
      <4> DEFINE run == [NoRun EXCEPT !.by = "button", !.cities = {c}]
      <4>2. EnqueueRun(run)
        BY <4>1 DEF PressButton
      <4>3. run \in {NoRun} \cup {[NoRun EXCEPT !.by = "button", !.cities = {d}] : d \in WeatherCities}
        OBVIOUS
      <4> HIDE DEF run
      <4> QED
        BY <4>2, <4>3 DEF EnqueueRun
    <3> QED
      BY <1>4, <3>1, <3>2
  <2>2. run \in Runs
    <3>1. NoRun \in Runs
      BY EmptyRun DEF RunOK
    <3> HIDE DEF NoRun
    <3>2. \A c \in WeatherCities : [NoRun EXCEPT !.by = "button", !.cities = {c}] \in Runs
      BY <3>1 DEF Runs
    <3> QED
      BY <2>1, <3>1, <3>2
  <2> DEFINE u == [run EXCEPT !.pc = "queued", !.due = now]
  <2>3. u.pc # "working"
    BY <2>2 DEF Runs
  <2>4. marked' = marked /\ weatherFaults' = weatherFaults /\ Posted' = Posted
    BY <1>4, PostedStays DEF BeatWeather, PressButton, postVars
  <2>5. Tried(weatherRun[n]) = {}
    BY <1>1, <2>1, NothingInHand
  <2> HIDE DEF u, Goal
  <2> QED
    BY <1>3, <2>1, <2>3, <2>4, <2>5 DEF u
<1>5. ASSUME NEW n \in WeatherSlots, StartRun(n) PROVE Goal
  <2> DEFINE r == weatherRun[n]
             cities == IF r.by = "beat" THEN {c \in WeatherCities : IsTime(c)} ELSE r.cities
             u == [r EXCEPT !.pc = "working", !.today = Today, !.cities = cities]
             taken == IF r.by = "beat" THEN cities \cap InHand ELSE {}
  <2>1. weatherRun' = [weatherRun EXCEPT ![n] = u] /\ marked' = marked /\ weatherFaults' = [weatherFaults EXCEPT !.cost = @ \cup taken]
    BY <1>5 DEF StartRun
  <2>2. u.today = Today
    <3>1. r \in Runs
      BY <1>1
    <3> HIDE DEF cities, Today
    <3> QED
      BY <3>1 DEF Runs
  <2> HIDE DEF u, taken
  <2>3. OnTime'
    BY <1>2, <2>1, <2>2
  <2>4. weatherFaults'.cost = weatherFaults.cost \cup taken
    BY <2>1, FaultTyped
  <2> QED
    BY <1>1, <1>5, <2>1, <2>3, <2>4, CityOfStartRun
<1>6. ASSUME NEW n \in WeatherSlots, NextCity(n) PROVE Goal
  <2> DEFINE r == weatherRun[n]
  <2>1. PICK c, channels : c \in r.cities /\ channels \in {r.channels, ChannelsOf[c]} /\
           weatherRun' = [weatherRun EXCEPT ![n] = [r EXCEPT !.cities = @ \ {c}, !.city = {c}, !.channels = channels]]
    <3>1. PICK c \in r.cities :
             \/ weatherRun' = [weatherRun EXCEPT ![n] = [r EXCEPT !.cities = @ \ {c}, !.city = {c}, !.channels = ChannelsOf[c]]]
             \/ weatherRun' = [weatherRun EXCEPT ![n] = [r EXCEPT !.cities = @ \ {c}, !.city = {c}]]
      BY <1>6 DEF NextCity
    <3>2. [r EXCEPT !.cities = @ \ {c}, !.city = {c}] = [r EXCEPT !.cities = @ \ {c}, !.city = {c}, !.channels = r.channels]
      BY <1>1 DEF Runs
    <3>3. ~(weatherRun' = [weatherRun EXCEPT ![n] = [r EXCEPT !.cities = @ \ {c}, !.city = {c}, !.channels = ChannelsOf[c]]])
            => weatherRun' = [weatherRun EXCEPT ![n] = [r EXCEPT !.cities = @ \ {c}, !.city = {c}, !.channels = r.channels]]
      BY <3>1, <3>2
    <3> HIDE DEF r
    <3> QED
      BY <3>1, <3>3
  <2> DEFINE u == [r EXCEPT !.cities = @ \ {c}, !.city = {c}, !.channels = channels]
  <2>2. r.city = {} /\ r.channels = {} /\ RunOK(r) /\ r \in Runs
    BY <1>1, <1>6 DEF NextCity, RunOK
  <2>3. u.by = r.by /\ u.cities = r.cities \ {c} /\ u.city = {c} /\ u.done = r.done /\ u.channels = channels /\ u.pc = r.pc /\ u.today = r.today
    BY <2>2 DEF Runs
  <2>4. marked' = marked /\ Posted' = Posted
    BY <1>6, PostedStays DEF NextCity, postVars
  <2>5. weatherFaults.cost \subseteq weatherFaults'.cost
    BY <1>6 DEF NextCity, WeatherFault
  <2> HIDE DEF u
  <2>6. OnTime'
    BY <1>2, <2>1, <2>3 DEF u
  <2>7. c \in WeatherCities /\ c \notin Attempted(r)
    BY <2>1, <2>2 DEF Runs, RunOK
  <2>8. ASSUME NEW d \in WeatherCities, CityInv(d) PROVE CityInv(d)'
    <3>1. d \in Hand(u) => d \in Hand(r)
      BY <2>1, <2>3 DEF Hand, Attempted
    <3>2. d \in Tried(r) => d \in Tried(u) /\ u.channels \cap ChannelsOf[d] \subseteq r.channels
      <4> SUFFICES ASSUME d \in Tried(r) PROVE d \in Tried(u) /\ u.channels \cap ChannelsOf[d] \subseteq r.channels
        OBVIOUS
      <4>1. d # c /\ d \in r.done
        BY <2>2, <2>7 DEF Tried, Attempted
      <4>2. ChannelsOf[c] \cap ChannelsOf[d] = {}
        BY <2>7, <4>1, WeatherAssumption
      <4>3. d \in Tried(u)
        BY <2>3, <4>1 DEF Tried, Attempted
      <4> QED
        BY <2>1, <2>2, <2>3, <4>2, <4>3
    <3> HIDE DEF r
    <3> QED
      BY <1>1, <2>1, <2>4, <2>8, <3>1, <3>2, QuietCity DEF u, r
  <2> QED
    BY <1>1, <2>4, <2>5, <2>6, <2>8
<1>7. ASSUME NEW n \in WeatherSlots, NEW channel, PostWeather(n, channel) PROVE Goal
  <2> DEFINE r == weatherRun[n]
             u == [r EXCEPT !.channels = @ \ {channel}]
  <2>1. weatherRun' = [weatherRun EXCEPT ![n] = u] /\ marked' = marked /\ weatherFaults' = weatherFaults
    BY <1>1, <1>7 DEF PostWeather
  <2>2. u.pc = r.pc /\ u.today = r.today
    BY <1>1 DEF Runs
  <2> HIDE DEF u
  <2>3. OnTime'
    BY <1>2, <2>1, <2>2
  <2> QED
    BY <1>1, <1>7, <2>1, <2>3, CityOfPostWeather
<1>8. ASSUME NEW n \in WeatherSlots, WeatherPosted(n) PROVE Goal
  <2>1. weatherRun' = weatherRun /\ marked' = marked /\ weatherFaults' = weatherFaults /\ shown' = shown /\ call' = [call EXCEPT ![n] = NotPosting]
    BY <1>8 DEF WeatherPosted
  <2>2. call'[n].pc = "none"
    BY <1>1, <2>1, NobodyPosts DEF Types, PostOK
  <2>3. call' = [call EXCEPT ![n] = call'[n]]
    BY <1>1, <2>1 DEF Types, PostOK
  <2>4. Posted' \subseteq Posted
    BY <1>1, <2>1, <2>2, <2>3, PostedBy
  <2>5. OnTime'
    BY <1>1, <2>1 DEF OnTime
  <2> QED
    BY <1>1, <2>1, <2>4, <2>5, QuietNow
<1>9. ASSUME NEW n \in WeatherSlots, EndCity(n) PROVE Goal
  <2> DEFINE r == weatherRun[n]
             u == [r EXCEPT !.city = {}, !.done = @ \cup r.city]
  <2>1. weatherRun' = [weatherRun EXCEPT ![n] = u] /\ marked' = marked /\ weatherFaults' = weatherFaults /\ Posted' = Posted
    BY <1>9, PostedStays DEF EndCity, postVars
  <2>2. u.by = r.by /\ u.cities = r.cities /\ u.city = {} /\ u.done = r.done \cup r.city /\ u.channels = r.channels /\ u.pc = r.pc /\ u.today = r.today
    BY <1>1 DEF Runs
  <2> HIDE DEF u
  <2>3. OnTime'
    BY <1>2, <2>1, <2>2
  <2>4. Attempted(u) = Attempted(r)
    BY <2>2 DEF Attempted
  <2>5. Hand(u) = Hand(r) /\ Tried(u) = Tried(r)
    BY <2>2, <2>4 DEF Hand, Tried
  <2>6. ASSUME NEW c \in WeatherCities, CityInv(c) PROVE CityInv(c)'
    BY <1>1, <2>1, <2>2, <2>5, <2>6, QuietCity
  <2> QED
    BY <1>1, <2>1, <2>3, <2>6
<1>10. ASSUME NEW n \in WeatherSlots, CommitRun(n) PROVE Goal
  <2> DEFINE r == weatherRun[n]
  <2>1. weatherRun' = [weatherRun EXCEPT ![n] = NoRun] /\ weatherFaults' = weatherFaults /\ r.pc = "working"
        /\ marked' = [c \in WeatherCities |-> IF r.by = "beat" /\ c \in r.done THEN r.today ELSE marked[c]]
    BY <1>10 DEF CommitRun
  <2>2. OnTime'
    BY <1>2, <2>1, EmptyRun
  <2>3. \A c \in WeatherCities : marked'[c] = marked[c] \/ marked'[c] = Today
    BY <2>1 DEF OnTime
  <2> QED
    BY <1>1, <1>10, <2>1, <2>2, <2>3, CityOfCommitRun
<1>11. ASSUME NEW n \in WeatherSlots, RunFails(n) \/ RunLost(n) PROVE Goal
  <2> DEFINE r == weatherRun[n]
  <2>1. /\ \E u : weatherRun' = [weatherRun EXCEPT ![n] = u]
        /\ marked' = marked /\ weatherFaults'.cost = weatherFaults.cost \cup Attempted(r)
        /\ shown' = shown /\ (call' = call \/ call' = [call EXCEPT ![n] = NotPosting])
    BY <1>11 DEF RunFails, RunLost, WeatherFault, postVars
  <2>2. weatherRun'[n].pc # "working"
    <3>1. r \in Runs /\ now \in Nat /\ NoRun \in Runs /\ NoRun.pc = "none"
      BY <1>1, EmptyRun DEF Types, ClockOK, RunOK
    <3>2. CASE RunFails(n)
      <4> DEFINE again == [r EXCEPT !.pc = "queued", !.attempt = @ + 1, !.cities = @ \cup Attempted(r), !.city = {}, !.done = {}, !.channels = {}]
      <4>1. weatherRun'[n] = IF r.by = "button" /\ r.attempt < NowRetries THEN again ELSE NoRun
        BY <1>1, <3>2 DEF RunFails
      <4>2. again.pc = "queued"
        BY <3>1 DEF Runs
      <4> HIDE DEF again, NoRun
      <4> QED
        BY <3>1, <4>1, <4>2
    <3>3. CASE RunLost(n)
      <4> DEFINE u == [NoRun EXCEPT !.pc = "queued", !.by = r.by, !.attempt = r.attempt, !.due = now + RedeliveredAfter,
                                    !.cities = IF r.by = "button" THEN r.cities \cup Attempted(r) ELSE {}]
      <4>1. weatherRun'[n] = u
        BY <1>1, <3>3 DEF RunLost
      <4>2. u.pc = "queued"
        BY <3>1, LostRun
      <4> HIDE DEF u
      <4> QED
        BY <4>1, <4>2
    <3> QED
      BY <1>11, <3>2, <3>3
  <2>3. weatherRun' = [weatherRun EXCEPT ![n] = weatherRun'[n]]
    BY <1>1, <2>1
  <2>4. Posted' \subseteq Posted
    <3>1. call' = call \/ (call' = [call EXCEPT ![n] = call'[n]] /\ call'[n].pc = "none")
      BY <1>1, <2>1, NobodyPosts DEF Types, PostOK
    <3> QED
      BY <1>1, <2>1, <3>1, PostedBy, PostedStays
  <2>5. Tried(r) \subseteq Attempted(r)
    BY DEF Tried
  <2> HIDE DEF Goal
  <2> QED
    BY <1>3, <2>1, <2>2, <2>3, <2>4, <2>5
<1> QED
  BY <1>4, <1>5, <1>6, <1>7, <1>8, <1>9, <1>10, <1>11 DEF WeatherNext

LEMMA WeatherInvNext ==
  ASSUME Types, Types', Punctual, WeatherInv, [Next]_postingVars
  PROVE  WeatherInv'
<1>1. /\ OnTime /\ MarkedByNow /\ \A c \in WeatherCities \ weatherFaults.cost : CityInv(c)
      /\ \A c \in WeatherCities : marked[c] \in Int
  BY DEF WeatherInv, Types, WeatherOK, NoDay
<1>2. SUFFICES /\ OnTime' /\ MarkedByNow' /\ weatherFaults.cost \subseteq weatherFaults'.cost
               /\ \A c \in WeatherCities : CityInv(c) /\ c \notin weatherFaults'.cost => CityInv(c)'
  BY <1>1 DEF WeatherInv
<1>3. Today \in Nat
  BY DayTyped DEF Today, Types, ClockOK
<1>4. CASE WeatherNext /\ UNCHANGED adVars
  <2>1. /\ OnTime' /\ now' = now /\ weatherFaults.cost \subseteq weatherFaults'.cost
        /\ \A c \in WeatherCities : CityInv(c) /\ c \notin weatherFaults'.cost => CityInv(c)'
        /\ \A c \in WeatherCities : marked'[c] = marked[c] \/ marked'[c] = Today
    BY <1>1, <1>4, RunsOfStep
  <2>2. Today' = Today
    BY <2>1, SameMinute
  <2> HIDE DEF Today, CityInv
  <2>3. MarkedByNow'
    BY <1>1, <1>3, <2>1, <2>2 DEF MarkedByNow
  <2> QED
    BY <2>1, <2>3
<1>5. CASE Tick
  <2>1. now' = now + 1 /\ now \in Nat /\ Idle /\ weatherRun' = weatherRun /\ marked' = marked /\ weatherFaults' = weatherFaults
    BY <1>5 DEF Tick, Types, ClockOK
  <2>2. \A n \in WeatherSlots : weatherRun'[n].pc # "working"
    BY <2>1 DEF Idle, Waits
  <2>3. OnTime'
    BY <2>2 DEF OnTime
  <2>4. Today' = DayOf(Local(now + 1))
    BY <2>1 DEF Today
  <2>5. Today' \in Nat /\ Today <= Today'
    BY <2>1, <2>4, DayTyped, NextDay DEF Today
  <2> HIDE DEF Today
  <2>6. MarkedByNow'
    BY <1>1, <1>3, <2>1, <2>5 DEF MarkedByNow
  <2> QED
    BY <1>5, <2>1, <2>3, <2>6, CityOfTick
<1>6. CASE \/ AdsNext /\ UNCHANGED weatherVars
           \/ \E d \in Callers : PostStep(d) /\ UNCHANGED <<adVars, weatherVars, calendarVars>>
           \/ UNCHANGED postingVars
  <2>1. weatherRun' = weatherRun /\ marked' = marked /\ weatherFaults' = weatherFaults
    BY <1>6 DEF weatherVars, postingVars
  <2>2. now' = now
    BY <1>6 DEF AdsNext, BeatAd, PublishByHand, SetAuto, SetStatus, DeleteAd, StartAd, AdUnpublishable, AdPublished, AdNotPublished,
                AdWorkerDies, calendarVars, postingVars
  <2>3. Today' = Today
    BY <2>2, SameMinute
  <2>4. OnTime' /\ MarkedByNow'
    BY <1>1, <2>1, <2>3 DEF OnTime, MarkedByNow
  <2>5. \A l \in Posted' : l \in Posted \/ \E a \in AdIds : l.about = {a}
    <3>1. CASE AdsNext
      BY <3>1, AdsPost
    <3>2. CASE \E d \in Callers : PostStep(d)
      BY <3>2, PostMoves, PostedMoves DEF Types
    <3>3. CASE UNCHANGED postingVars
      BY <3>3, PostedStays DEF postingVars, postVars
    <3> QED
      BY <1>6, <3>1, <3>2, <3>3
  <2>6. ASSUME NEW c \in WeatherCities, CityInv(c) PROVE CityInv(c)'
    <3>1. \A l \in Posted' : About(l, c) => l \in Posted
      BY <2>5, NotAboutAds
    <3> QED
      BY <2>1, <2>2, <2>6, <3>1, QuietNow
  <2> QED
    BY <2>1, <2>4, <2>6
<1> QED
  BY <1>4, <1>5, <1>6 DEF Next

LEMMA WeatherInvInit ==
  ASSUME Init
  PROVE  WeatherInv
<1>1. PICK q \in Starts : WeatherInit(q) /\ PostInit(q)
  BY DEF Init
<1>2. Types
  BY TypesInit
<1>3. \A n \in WeatherSlots : weatherRun[n] = NoRun
  BY <1>1 DEF WeatherInit
<1>4. \A n \in WeatherSlots : Hand(weatherRun[n]) = {} /\ weatherRun[n].pc = "none"
  BY <1>3, EmptyRun, NothingInHand
<1>5. Posted = {}
  <2>1. \A c \in Callers : call[c].pc = "none"
    BY <1>1, NobodyPosts DEF PostInit
  <2> QED
    BY <1>1, <2>1 DEF Posted, PostInit
<1>6. OnTime
  BY <1>4 DEF OnTime
<1>7. MarkedByNow
  <2>1. Today \in Nat /\ \A c \in WeatherCities : marked[c] = -1
    BY <1>1, <1>2, DayTyped DEF WeatherInit, NoDay, Today, Types, ClockOK
  <2> HIDE DEF Today
  <2> QED
    BY <2>1 DEF MarkedByNow
<1>8. \A c \in WeatherCities : CityInv(c)
  <2> HIDE DEF Hand
  <2> QED
    BY <1>4, <1>5 DEF CityInv, InOneHand, Remembered, OneADay
<1> QED
  BY <1>6, <1>7, <1>8 DEF WeatherInv

LEMMA WeatherInvHolds ==
  ASSUME Punctual
  PROVE  Spec => []WeatherInv
<1>1. Init => WeatherInv
  BY WeatherInvInit
<1>2. Types /\ Types' /\ WeatherInv /\ [Next]_postingVars => WeatherInv'
  BY WeatherInvNext
<1> QED
  BY <1>1, <1>2, TypesHold, PTL DEF Spec

LEMMA OnceByInv ==
  ASSUME Types, WeatherInv
  PROVE  WeatherOnce
<1> SUFFICES ASSUME NEW c \in WeatherCities \ weatherFaults.cost, NEW channel \in ChannelsOf[c],
                    NEW l \in PostsAbout(channel, "beat"), NEW k \in PostsAbout(channel, "beat")
             PROVE  /\ MinuteOf(Local(l.at)) \in TargetOf[c]..(TargetOf[c] + Window)
                    /\ DayOf(Local(l.at)) = DayOf(Local(k.at)) => l = k
  BY DEF WeatherOnce
<1>1. /\ l \in Posted /\ l.about = {channel} /\ l.by = "beat"
      /\ k \in Posted /\ k.about = {channel} /\ k.by = "beat"
  BY DEF PostsAbout, Posted
<1>2. CityInv(c) /\ About(l, c)
  BY <1>1 DEF WeatherInv, About
<1>3. InWindow(c, l.at) /\ (LocalDay(l) = LocalDay(k) => l = k)
  BY <1>1, <1>2 DEF CityInv, Remembered, OneADay
<1>4. l.at \in Nat
  <2>1. l \in Labels
    BY <1>1, PostTyped DEF Posted, Types, PostOK, Ids
  <2> QED
    BY <2>1 DEF Labels
<1>5. MinuteOf(Local(l.at)) \in Int /\ TargetOf[c] \in Int /\ Window \in Int
  BY <1>4, DayTyped, CalendarAssumption, WeatherAssumption
<1> QED
  BY <1>3, <1>5 DEF InWindow, LocalDay

\* A channel gets one weather post a day, in the window, however often beat's
\* task runs in it and whatever Telegram refuses or swallows, unless a run that
\* had begun to post for the city fails or is lost, or two runs overlap.
THEOREM OneWeatherPostADay ==
  ASSUME Punctual
  PROVE  Spec => []WeatherOnce
<1>1. Types /\ WeatherInv => WeatherOnce
  BY OnceByInv
<1> QED
  BY <1>1, TypesHold, WeatherInvHolds, PTL

-----------------------------------------------------------------------------
(* Every city has its turn. *)

\* A window ends on the day it begins, in time for no day to be missed, and has
\* more minutes than there are faults.
WindowsFit ==
  /\ MaxWeatherFaults <= Window
  /\ \A c \in WeatherCities : TargetOf[c] + Window < DayMinutes
  /\ \A q \in Starts : "weather" \in q.beats => \A c \in WeatherCities : Local(q.now) <= TargetOf[c]

\* In each minute of the window the city is marked, something has failed, or
\* beat's run is still to come or under way.
Minutes(c) == MinuteOf(Local(now)) - TargetOf[c]
ForCity(r, c, t) ==
  /\ r.by = "beat"
  /\ (r.pc = "queued" /\ r.due <= t) \/ (r.pc = "working" /\ c \in r.cities \cup Attempted(r))
UnderWay(c) == \E n \in WeatherSlots : ForCity(weatherRun[n], c, now)

TurnComes(c) ==
  now <= MaxNow /\ InWindow(c, now) =>
    \/ marked[c] = Today
    \/ /\ weatherFaults.count >= Minutes(c)
       /\ ~beatRan \/ UnderWay(c) \/ weatherFaults.count > Minutes(c)

TurnsCame(c) ==
  \A day \in Nat : WindowEnd(c, day) < Local(now) /\ WindowEnd(c, day) <= Local(MaxNow) => marked[c] >= day

ComesInv == "weather" \in beats => \A c \in WeatherCities : TurnComes(c) /\ TurnsCame(c)

LEMMA DivMod ==
  ASSUME NEW d \in Nat \ {0}, NEW q \in Nat, NEW m \in 0..(d - 1), NEW x \in Nat, x = d * q + m
  PROVE  x \div d = q /\ x % d = m
OBVIOUS

LEMMA NextMinute ==
  ASSUME NEW t \in Nat
  PROVE  \/ MinuteOf(Local(t + 1)) = 0
         \/ MinuteOf(Local(t + 1)) = MinuteOf(Local(t)) + 1 /\ DayOf(Local(t + 1)) = DayOf(Local(t))
<1> DEFINE x == Local(t)
           d == DayMinutes
           q == DayOf(x)
           m == MinuteOf(x)
<1>1. d \in Nat \ {0} /\ x \in Nat /\ Local(t + 1) = x + 1 /\ q \in Nat /\ m \in 0..(d - 1) /\ x = d * q + m
  BY DayTyped, CalendarAssumption DEF Local
<1> HIDE DEF x, d, q, m
<1>2. CASE m + 1 < d
  <2>1. x + 1 = d * q + (m + 1) /\ m + 1 \in 0..(d - 1) /\ x + 1 \in Nat
    BY <1>1, <1>2
  <2>2. (x + 1) \div d = q /\ (x + 1) % d = m + 1
    <3> DEFINE y == x + 1
               n == m + 1
    <3>1. y = d * q + n /\ n \in 0..(d - 1) /\ y \in Nat
      BY <2>1
    <3> HIDE DEF y, n
    <3>2. y \div d = q /\ y % d = n
      BY <1>1, <3>1, DivMod
    <3> QED
      BY <3>2 DEF y, n
  <2> QED
    BY <1>1, <2>2 DEF MinuteOf, DayOf, q, m, d, x
<1>3. CASE m + 1 = d
  <2>1. x + 1 = d * (q + 1) + 0 /\ 0 \in 0..(d - 1) /\ x + 1 \in Nat /\ q + 1 \in Nat
    BY <1>1, <1>3
  <2>2. (x + 1) % d = 0
    BY <1>1, <2>1, DivMod
  <2> QED
    BY <1>1, <2>2 DEF MinuteOf, d, x
<1> QED
  BY <1>1, <1>2, <1>3

\* The last minute of a window is in it.
LEMMA LastMinute ==
  ASSUME WindowsFit, NEW c \in WeatherCities, NEW day \in Nat, NEW t \in Nat, WindowEnd(c, day) = Local(t)
  PROVE  DayOf(Local(t)) = day /\ MinuteOf(Local(t)) = TargetOf[c] + Window
<1> DEFINE x == Local(t)
           d == DayMinutes
           m == TargetOf[c] + Window
<1>1. x \in Nat /\ DayMinutes \in Nat \ {0} /\ TargetOf[c] \in Nat /\ Window \in Nat /\ TargetOf[c] + Window < DayMinutes
  BY DayTyped, CalendarAssumption, WeatherAssumption DEF WindowsFit
<1>2. d \in Nat \ {0} /\ x \in Nat /\ m \in 0..(d - 1) /\ x = d * day + m
  BY <1>1 DEF WindowEnd
<1> HIDE DEF x, m, d
<1>3. x \div d = day /\ x % d = m
  BY <1>2, DivMod
<1> QED
  BY <1>3 DEF x, m, d, DayOf, MinuteOf

LEMMA ComesTyped ==
  ASSUME Types
  PROVE  /\ now \in Nat /\ Today \in Nat /\ Local(now) \in Nat /\ MinuteOf(Local(now)) \in 0..(DayMinutes - 1)
         /\ weatherFaults.count \in 0..MaxWeatherFaults /\ MaxWeatherFaults \in Nat /\ Window \in Nat /\ MaxNow \in Nat
         /\ \A c \in WeatherCities : TargetOf[c] \in Nat /\ TargetOf[c] < DayMinutes /\ Minutes(c) \in Int /\ marked[c] \in Int
         /\ DayMinutes \in Nat \ {0}
<1>1. now \in Nat /\ \A c \in WeatherCities : marked[c] \in Int
  BY DEF Types, ClockOK, WeatherOK, NoDay
<1>2. Today \in Nat /\ Local(now) \in Nat /\ MinuteOf(Local(now)) \in 0..(DayMinutes - 1)
  BY <1>1, DayTyped DEF Today
<1>3. weatherFaults.count \in 0..MaxWeatherFaults /\ MaxWeatherFaults \in Nat /\ Window \in Nat /\ MaxNow \in Nat /\ DayMinutes \in Nat \ {0}
      /\ \A c \in WeatherCities : TargetOf[c] \in 0..(DayMinutes - 1)
  BY FaultTyped, WeatherAssumption, PostingAssumption, CalendarAssumption
<1> QED
  BY <1>1, <1>2, <1>3 DEF Minutes

LEMMA ComesOfTick ==
  ASSUME Types, Punctual, WindowsFit, "weather" \in beats, NEW c \in WeatherCities, TurnComes(c), TurnsCame(c), Tick
  PROVE  TurnComes(c)' /\ TurnsCame(c)'
<1> DEFINE d == DayMinutes
           m == MinuteOf(Local(now))
           k == MinuteOf(Local(now + 1))
           count == weatherFaults.count
<1>1. /\ now' = now + 1 /\ marked' = marked /\ weatherRun' = weatherRun /\ weatherFaults' = weatherFaults /\ beatRan' = FALSE
      /\ Idle /\ (now <= MaxNow => beatRan)
  <2>1. Beaten => (now <= MaxNow => beatRan)
    BY ComesTyped DEF Beaten
  <2> QED
    BY <2>1 DEF Tick
<1>2. ~UnderWay(c)
  <2>1. ASSUME NEW n \in WeatherSlots PROVE ~ForCity(weatherRun[n], c, now)
    <3>1. weatherRun[n].pc = "none" \/ (weatherRun[n].pc = "queued" /\ weatherRun[n].due > now)
      BY <1>1 DEF Idle, Waits
    <3>2. weatherRun[n].due \in Nat /\ now \in Nat
      BY ComesTyped DEF Types, WeatherOK, Runs
    <3> QED
      BY <3>1, <3>2 DEF ForCity
  <2> QED
    BY <2>1 DEF UnderWay
<1>3. /\ now \in Nat /\ MaxNow \in Nat /\ m \in Nat /\ k \in Nat /\ TargetOf[c] \in Nat /\ Window \in Nat /\ count \in 0..MaxWeatherFaults
      /\ MaxWeatherFaults \in Nat /\ Local(now) \in Nat /\ marked[c] \in Int /\ Today \in Nat /\ Local(now + 1) = Local(now) + 1
  <2>1. now \in Nat /\ Local(now + 1) = Local(now) + 1
    BY ComesTyped, CalendarAssumption DEF Local
  <2> QED
    BY <2>1, ComesTyped, DayTyped
<1>4. now <= MaxNow /\ InWindow(c, now) => marked[c] = Today \/ count > m - TargetOf[c]
  BY <1>1, <1>2 DEF TurnComes, Minutes
<1>5. TurnComes(c)'
  <2> SUFFICES ASSUME now + 1 <= MaxNow, TargetOf[c] <= k, k <= TargetOf[c] + Window
               PROVE  marked[c] = DayOf(Local(now + 1)) \/ count >= k - TargetOf[c]
    BY <1>1 DEF TurnComes, InWindow, Today, Minutes
  <2>1. CASE k = TargetOf[c]
    BY <1>3, <2>1
  <2>2. CASE k > TargetOf[c]
    <3>1. k = m + 1 /\ DayOf(Local(now + 1)) = Today
      BY <1>3, <2>2, NextMinute DEF Today
    <3>2. now <= MaxNow /\ InWindow(c, now)
      BY <1>3, <2>2, <3>1 DEF InWindow
    <3> HIDE DEF m, k, Today
    <3> QED
      BY <1>3, <1>4, <3>1, <3>2
  <2> QED
    BY <1>3, <2>1, <2>2
<1>6. TurnsCame(c)'
  <2> SUFFICES ASSUME NEW day \in Nat, WindowEnd(c, day) < Local(now + 1), WindowEnd(c, day) <= Local(MaxNow) PROVE marked[c] >= day
    BY <1>1 DEF TurnsCame, WindowEnd
  <2>1. WindowEnd(c, day) \in Nat
    BY <1>3, CalendarAssumption DEF WindowEnd
  <2>2. CASE WindowEnd(c, day) < Local(now)
    BY <2>2 DEF TurnsCame
  <2>3. CASE WindowEnd(c, day) = Local(now)
    <3>1. Today = day /\ m = TargetOf[c] + Window
      BY <1>3, <2>3, LastMinute DEF Today
    <3>2. now <= MaxNow
      BY <1>3, <2>3, CalendarAssumption DEF Local
    <3>3. InWindow(c, now)
      BY <1>3, <3>1 DEF InWindow
    <3>4. MaxWeatherFaults <= Window
      BY DEF WindowsFit
    <3> HIDE DEF m, Today
    <3> QED
      BY <1>3, <1>4, <3>1, <3>2, <3>3, <3>4
  <2> QED
    BY <1>3, <2>1, <2>2, <2>3
<1> QED
  BY <1>5, <1>6

\* A step of the weather: what has failed is not forgotten, and a run that had
\* the city in hand has it, has marked it or has failed.
LEMMA ComesKept ==
  ASSUME Types, Types', MarkedByNow, NEW c \in WeatherCities, TurnComes(c), TurnsCame(c), now' = now,
         weatherFaults'.count >= weatherFaults.count, marked'[c] = marked[c] \/ marked'[c] = Today,
         now <= MaxNow /\ InWindow(c, now) /\ marked'[c] # Today =>
            ((~beatRan \/ UnderWay(c)) => ~beatRan' \/ UnderWay(c)' \/ weatherFaults'.count > weatherFaults.count)
  PROVE  TurnComes(c)' /\ TurnsCame(c)'
<1>1. Today' = Today /\ Minutes(c)' = Minutes(c)
  BY SameMinute DEF Minutes
<1>2. Today \in Nat /\ Minutes(c) \in Int /\ weatherFaults.count \in Int /\ marked[c] \in Int /\ marked[c] <= Today
  BY ComesTyped DEF MarkedByNow
<1>3. weatherFaults'.count \in Int /\ marked'[c] \in Int
  <2>1. weatherFaults' \in [count : 0..MaxWeatherFaults, cost : SUBSET WeatherCities] /\ MaxWeatherFaults \in Nat
        /\ marked' \in [WeatherCities -> Nat \cup {-1}]
    BY WeatherAssumption DEF Types, WeatherOK, NoDay
  <2> QED
    BY <2>1
<1> HIDE DEF Today, Minutes, UnderWay
<1>4. TurnComes(c)'
  BY <1>1, <1>2, <1>3 DEF TurnComes
<1>5. TurnsCame(c)'
  BY <1>1, <1>2, <1>3 DEF TurnsCame, WindowEnd
<1> QED
  BY <1>4, <1>5

\* The runs, one by one.
LEMMA ComesOfWeather ==
  ASSUME Types, Types', OnTime, MarkedByNow, NEW c \in WeatherCities, TurnComes(c), TurnsCame(c), WeatherNext, UNCHANGED adVars
  PROVE  TurnComes(c)' /\ TurnsCame(c)'
<1> DEFINE Kept == now <= MaxNow /\ InWindow(c, now) /\ marked'[c] # Today =>
                     ((~beatRan \/ UnderWay(c)) => ~beatRan' \/ UnderWay(c)' \/ weatherFaults'.count > weatherFaults.count)
<1>1. /\ weatherRun \in [WeatherSlots -> Runs] /\ \A n \in WeatherSlots : RunOK(weatherRun[n]) /\ now \in Nat
      /\ now' = now /\ (marked'[c] = marked[c] \/ marked'[c] = Today)
  BY RunsOfStep DEF Types, WeatherOK, ClockOK
<1>2. weatherFaults'.count >= weatherFaults.count
  <2>1. weatherFaults.count \in Nat /\ weatherFaults = [count |-> weatherFaults.count, cost |-> weatherFaults.cost]
    BY FaultTyped, WeatherAssumption
  <2>2. ASSUME NEW kind, NEW cities, WeatherFault(kind, cities) PROVE weatherFaults'.count = weatherFaults.count + 1
    BY <2>2 DEF WeatherFault
  <2>3. ASSUME NEW n \in WeatherSlots, StartRun(n) PROVE weatherFaults'.count = weatherFaults.count
    <3>1. PICK more : weatherFaults' = [weatherFaults EXCEPT !.cost = @ \cup more]
      BY <2>3 DEF StartRun
    <3> QED
      BY <2>1, <3>1
  <2>4. ASSUME ~\E n \in WeatherSlots : StartRun(n)
        PROVE  weatherFaults' = weatherFaults \/ \E kind, cities : WeatherFault(kind, cities)
    BY <2>4 DEF WeatherNext, BeatWeather, PressButton, NextCity, PostWeather, WeatherPosted, EndCity, CommitRun, RunFails, RunLost
  <2> QED
    BY <2>1, <2>2, <2>3, <2>4
\* A run that has the city in hand keeps it, and the others stay as they are.
<1>3. ASSUME NEW n \in WeatherSlots, NEW u, weatherRun' = [weatherRun EXCEPT ![n] = u], beatRan' = beatRan,
             now <= MaxNow /\ InWindow(c, now) /\ marked'[c] # Today => (ForCity(weatherRun[n], c, now) => ForCity(u, c, now))
      PROVE  Kept
  <2>1. \A m \in WeatherSlots : weatherRun'[m] = IF m = n THEN u ELSE weatherRun[m]
    BY <1>1, <1>3
  <2> HIDE DEF ForCity
  <2> QED
    BY <1>1, <1>3, <2>1 DEF UnderWay
<1>4. ASSUME BeatWeather \/ \E d \in WeatherCities : PressButton(d) PROVE Kept
  <2>1. CASE BeatWeather
    <3>1. PICK n \in WeatherSlots : weatherRun' = [weatherRun EXCEPT ![n] = [NoRun EXCEPT !.pc = "queued", !.due = now]]
      BY <2>1 DEF BeatWeather, EnqueueRun
    <3> DEFINE u == [NoRun EXCEPT !.pc = "queued", !.due = now]
    <3>2. u.pc = "queued" /\ u.due = now /\ u.by = "beat"
      BY DEF NoRun
    <3>3. weatherRun'[n] = u
      BY <1>1, <3>1
    <3> HIDE DEF u
    <3>4. ForCity(weatherRun'[n], c, now)
      BY <1>1, <3>2, <3>3 DEF ForCity
    <3> QED
      BY <1>1, <3>4 DEF UnderWay
  <2>2. CASE \E d \in WeatherCities : PressButton(d)
    <3>0. PICK n \in WeatherSlots : \E u : weatherRun[n].pc = "none" /\ weatherRun' = [weatherRun EXCEPT ![n] = u] /\ beatRan' = beatRan
      BY <2>2 DEF PressButton, EnqueueRun
    <3>1. PICK u : weatherRun[n].pc = "none" /\ weatherRun' = [weatherRun EXCEPT ![n] = u] /\ beatRan' = beatRan
      BY <3>0
    <3>2. ~ForCity(weatherRun[n], c, now)
      BY <3>1 DEF ForCity
    <3> HIDE DEF Kept
    <3> QED
      BY <1>3, <3>1, <3>2
  <2> QED
    BY <1>4, <2>1, <2>2
<1>5. ASSUME NEW n \in WeatherSlots, StartRun(n) PROVE Kept
  <2> DEFINE r == weatherRun[n]
             cities == IF r.by = "beat" THEN {d \in WeatherCities : IsTime(d)} ELSE r.cities
             u == [r EXCEPT !.pc = "working", !.today = Today, !.cities = cities]
  <2>1. weatherRun' = [weatherRun EXCEPT ![n] = u] /\ beatRan' = beatRan /\ marked' = marked
    BY <1>5 DEF StartRun
  <2>2. u.pc = "working" /\ u.by = r.by /\ u.cities = cities
    <3> HIDE DEF cities, Today
    <3> QED
      BY <1>1 DEF Runs
  <2>3. r.by = "beat" /\ InWindow(c, now) /\ marked[c] # Today => c \in cities
    BY DEF InWindow, IsTime
  <2> HIDE DEF u, cities, Kept
  <2>4. InWindow(c, now) /\ marked'[c] # Today => (ForCity(r, c, now) => ForCity(u, c, now))
    BY <2>1, <2>2, <2>3 DEF ForCity
  <2> QED
    BY <1>3, <2>1, <2>4
<1>6. ASSUME NEW n \in WeatherSlots, NextCity(n) PROVE Kept
  <2> DEFINE r == weatherRun[n]
  <2>1. PICK d \in r.cities :
           \/ weatherRun' = [weatherRun EXCEPT ![n] = [r EXCEPT !.cities = @ \ {d}, !.city = {d}, !.channels = ChannelsOf[d]]]
           \/ weatherRun' = [weatherRun EXCEPT ![n] = [r EXCEPT !.cities = @ \ {d}, !.city = {d}]]
    BY <1>6 DEF NextCity
  <2> DEFINE one == [r EXCEPT !.cities = @ \ {d}, !.city = {d}, !.channels = ChannelsOf[d]]
             other == [r EXCEPT !.cities = @ \ {d}, !.city = {d}]
  <2>2. beatRan' = beatRan /\ r.city = {} /\ r.pc = "working" /\ r \in Runs
    BY <1>1, <1>6 DEF NextCity
  <2>3. ASSUME NEW u \in {one, other} PROVE ForCity(r, c, now) => ForCity(u, c, now)
    <3>1. u.by = r.by /\ u.cities = r.cities \ {d} /\ u.city = {d} /\ u.done = r.done /\ u.pc = r.pc
      BY <2>2 DEF Runs
    <3> HIDE DEF one, other
    <3> QED
      BY <2>2, <3>1 DEF ForCity, Attempted
  <2> HIDE DEF one, other, Kept, ForCity
  <2> QED
    BY <1>3, <2>1, <2>2, <2>3 DEF one, other
<1>7. ASSUME NEW n \in WeatherSlots, NEW channel, PostWeather(n, channel) PROVE Kept
  <2> DEFINE r == weatherRun[n]
             u == [r EXCEPT !.channels = @ \ {channel}]
  <2>1. weatherRun' = [weatherRun EXCEPT ![n] = u] /\ beatRan' = beatRan
    BY <1>1, <1>7 DEF PostWeather
  <2>2. u.pc = r.pc /\ u.by = r.by /\ u.cities = r.cities /\ u.city = r.city /\ u.done = r.done
    BY <1>1 DEF Runs
  <2> HIDE DEF u, Kept, r
  <2>3. ForCity(r, c, now) => ForCity(u, c, now)
    BY <1>7, <2>2 DEF ForCity, Attempted, PostWeather, r
  <2> QED
    BY <1>3, <2>1, <2>3 DEF r
<1>8. ASSUME NEW n \in WeatherSlots, WeatherPosted(n) PROVE Kept
  BY <1>1, <1>8 DEF WeatherPosted, UnderWay
<1>9. ASSUME NEW n \in WeatherSlots, EndCity(n) PROVE Kept
  <2> DEFINE r == weatherRun[n]
             u == [r EXCEPT !.city = {}, !.done = @ \cup r.city]
  <2>1. weatherRun' = [weatherRun EXCEPT ![n] = u] /\ beatRan' = beatRan /\ r.pc = "working"
    BY <1>9 DEF EndCity
  <2>2. u.pc = r.pc /\ u.by = r.by /\ u.cities = r.cities /\ u.city = {} /\ u.done = r.done \cup r.city
    BY <1>1 DEF Runs
  <2> HIDE DEF u, Kept, r
  <2>3. ForCity(r, c, now) => ForCity(u, c, now)
    BY <2>1, <2>2 DEF ForCity, Attempted
  <2> QED
    BY <1>3, <2>1, <2>3 DEF r
<1>10. ASSUME NEW n \in WeatherSlots, CommitRun(n) PROVE Kept
  <2> DEFINE r == weatherRun[n]
  <2>1. /\ weatherRun' = [weatherRun EXCEPT ![n] = NoRun] /\ beatRan' = beatRan /\ r.pc = "working" /\ r.cities = {} /\ r.city = {}
        /\ marked'[c] = IF r.by = "beat" /\ c \in r.done THEN r.today ELSE marked[c]
    BY <1>10 DEF CommitRun
  <2>2. r.today = Today
    BY <2>1 DEF OnTime
  <2>3. ForCity(r, c, now) => marked'[c] = Today
    BY <2>1, <2>2 DEF ForCity, Attempted
  <2> HIDE DEF Kept, ForCity
  <2> QED
    BY <1>3, <2>1, <2>3
<1>11. ASSUME NEW n \in WeatherSlots, RunFails(n) \/ RunLost(n) PROVE Kept
  <2>1. weatherFaults.count \in Nat /\ weatherFaults'.count = weatherFaults.count + 1
    BY <1>11, FaultTyped, WeatherAssumption DEF RunFails, RunLost, WeatherFault
  <2> QED
    BY <2>1
<1>12. Kept
  <2> HIDE DEF Kept
  <2> QED
    BY <1>4, <1>5, <1>6, <1>7, <1>8, <1>9, <1>10, <1>11 DEF WeatherNext
<1> QED
  BY <1>1, <1>2, <1>12, ComesKept

LEMMA ComesNext ==
  ASSUME Types, Types', Punctual, WindowsFit, WeatherInv, ComesInv, [Next]_postingVars
  PROVE  ComesInv'
<1> SUFFICES ASSUME "weather" \in beats', NEW c \in WeatherCities PROVE TurnComes(c)' /\ TurnsCame(c)'
  BY DEF ComesInv
<1>1. beats' = beats
  BY DEF Next, Tick, AdsNext, BeatAd, PublishByHand, SetAuto, SetStatus, DeleteAd, StartAd, AdUnpublishable, AdPublished, AdNotPublished,
         AdWorkerDies, WeatherNext, BeatWeather, PressButton, StartRun, NextCity, PostWeather, WeatherPosted, EndCity, CommitRun, RunFails,
         RunLost, calendarVars, postingVars
<1>2. TurnComes(c) /\ TurnsCame(c) /\ OnTime /\ MarkedByNow
  BY <1>1 DEF ComesInv, WeatherInv
<1>3. CASE Tick
  BY <1>1, <1>2, <1>3, ComesOfTick
<1>4. CASE WeatherNext /\ UNCHANGED adVars
  BY <1>2, <1>4, ComesOfWeather
<1>5. CASE \/ AdsNext /\ UNCHANGED weatherVars
           \/ \E d \in Callers : PostStep(d) /\ UNCHANGED <<adVars, weatherVars, calendarVars>>
           \/ UNCHANGED postingVars
  <2>1. weatherRun' = weatherRun /\ marked' = marked /\ weatherFaults' = weatherFaults /\ beatRan' = beatRan
    BY <1>5 DEF weatherVars, postingVars
  <2>2. now' = now
    BY <1>5 DEF AdsNext, BeatAd, PublishByHand, SetAuto, SetStatus, DeleteAd, StartAd, AdUnpublishable, AdPublished, AdNotPublished,
                AdWorkerDies, calendarVars, postingVars
  <2>3. TurnComes(c)'
    BY <1>2, <2>1, <2>2, SameMinute DEF TurnComes, UnderWay, Minutes
  <2>4. TurnsCame(c)'
    BY <1>2, <2>1, <2>2 DEF TurnsCame, WindowEnd
  <2> QED
    BY <2>3, <2>4
<1> QED
  BY <1>3, <1>4, <1>5 DEF Next

LEMMA ComesInit ==
  ASSUME WindowsFit, Init
  PROVE  ComesInv
<1> SUFFICES ASSUME "weather" \in beats, NEW c \in WeatherCities PROVE TurnComes(c) /\ TurnsCame(c)
  BY DEF ComesInv
<1>1. PICK q \in Starts : now = q.now /\ beats = q.beats /\ WeatherInit(q)
  BY DEF Init
<1>2. Types
  BY TypesInit
<1>3. Local(now) <= TargetOf[c] /\ TargetOf[c] + Window < DayMinutes
  BY <1>1 DEF WindowsFit
<1>4. /\ now \in Nat /\ Local(now) \in Nat /\ TargetOf[c] \in Nat /\ Window \in Nat /\ DayMinutes \in Nat \ {0} /\ Minutes(c) \in Int
      /\ weatherFaults.count \in Nat /\ ~beatRan
  BY <1>1, <1>2, ComesTyped DEF WeatherInit
<1> DEFINE x == Local(now)
           d == DayMinutes
<1>5. MinuteOf(Local(now)) = Local(now)
  <2>1. d \in Nat \ {0} /\ x \in Nat /\ 0 \in Nat /\ x \in 0..(d - 1) /\ x = d * 0 + x
    BY <1>3, <1>4
  <2> HIDE DEF x, d
  <2>2. x % d = x
    BY <2>1, DivMod
  <2> QED
    BY <2>2 DEF x, d, MinuteOf
<1> HIDE DEF x, d
<1>6. TurnComes(c)
  <2>1. weatherFaults.count >= Minutes(c)
    BY <1>3, <1>4, <1>5 DEF Minutes
  <2> QED
    BY <1>4, <2>1 DEF TurnComes
<1>7. TurnsCame(c)
  <2>1. ASSUME NEW day \in Nat PROVE ~(WindowEnd(c, day) < Local(now))
    <3>1. day * DayMinutes \in Nat
      BY <1>4
    <3> QED
      BY <1>3, <1>4, <3>1 DEF WindowEnd
  <2> QED
    BY <2>1 DEF TurnsCame
<1> QED
  BY <1>6, <1>7

\* Once the window of a day is over every city has had its turn on that day, if
\* fewer runs fail than the window has minutes.
THEOREM EveryCityHasItsTurn ==
  ASSUME Punctual, WindowsFit
  PROVE  Spec => []WeatherComes
<1>1. Init => ComesInv
  BY ComesInit
<1>2. Types /\ Types' /\ WeatherInv /\ ComesInv /\ [Next]_postingVars => ComesInv'
  BY ComesNext
<1>3. Types /\ ComesInv => WeatherComes
  <2> SUFFICES ASSUME Types, ComesInv, "weather" \in beats, NEW c \in WeatherCities, NEW day \in 0..Today,
                      WindowEnd(c, day) < Local(now), WindowEnd(c, day) <= Local(MaxNow)
               PROVE  marked[c] >= day
    BY DEF WeatherComes
  <2>1. day \in Nat
    BY ComesTyped
  <2> QED
    BY <2>1 DEF ComesInv, TurnsCame
<1> QED
  BY <1>1, <1>2, <1>3, TypesHold, WeatherInvHolds, PTL DEF Spec

-----------------------------------------------------------------------------
(* Ads. *)

Undisturbed == AdIds \ (disturbed.edited \cup disturbed.lost)
Labelled == {m[1] : m \in shown}
AboutAd(l, a) == l.by = "beat" /\ l.about = {a}
Busy(t, a) == t.pc # "none" /\ t.ad = a

\* A task is beat's, enqueued in a minute of the schedule, and in time for its attempt.
Enqueued(t) == t.due - t.attempt
Timed(t, a) ==
  /\ t.by = "beat"
  /\ Enqueued(t) \in Due(a) /\ Enqueued(t) <= now /\ (Enqueued(t) = now => a \in asked)
  /\ t.due >= now /\ (t.pc = "posting" => t.due = now)

TimedTasks(a) == \A n \in AdSlots : Busy(adTask[n], a) => Timed(adTask[n], a)
OneTask(a) == \A n, m \in AdSlots : Busy(adTask[n], a) /\ Busy(adTask[m], a) => n = m
PostedNow(a) == \A n \in AdSlots : adTask[n].pc = "posting" /\ adTask[n].ad = a => call[n].label.at = now
TasksInv(a) == TimedTasks(a) /\ OneTask(a) /\ PostedNow(a)

\* What is shown of an ad was posted in a turn that has begun, alone in its turn;
\* since the task that is under way was enqueued only what it is posting is shown.
InTurn(l, a) == \E t \in Due(a) : l.at \in Turn(t) /\ l.at <= now /\ (t = now => a \in asked)
InTurns(a) == \A l \in Labelled : AboutAd(l, a) => InTurn(l, a)
AloneInTurn(a) ==
  \A l, k \in Labelled, t \in Due(a) :
    AboutAd(l, a) /\ AboutAd(k, a) /\ l.at \in Turn(t) /\ k.at \in Turn(t) => l = k
OwnTurn(a) ==
  \A n \in AdSlots, l \in Labelled :
    Busy(adTask[n], a) /\ AboutAd(l, a) /\ l.at >= Enqueued(adTask[n]) => adTask[n].pc = "posting" /\ call[n].label = l
PostsInv(a) == InTurns(a) /\ AloneInTurn(a) /\ OwnTurn(a)

AdInv(a) == TasksInv(a) /\ PostsInv(a)
AdsInv == \A a \in Undisturbed : Spaced(a) => AdInv(a)

\* The minutes of posts and of turns are numbers.
LEMMA AdTimes ==
  ASSUME Types
  PROVE  /\ now \in Nat /\ AdRetries \in Nat /\ MaxNow \in Nat /\ adTask \in [AdSlots -> AdTasks]
         /\ \A a \in AdIds : Due(a) \subseteq Nat /\ Due(a) \subseteq 0..MaxNow
         /\ \A l \in Labelled : l.at \in Nat
         /\ \A n \in AdSlots : call[n].label.at \in Nat
         /\ \A n \in AdSlots : adTask[n].due \in Nat /\ adTask[n].attempt \in 0..AdRetries /\ Enqueued(adTask[n]) \in Int
<1>1. now \in Nat /\ AdRetries \in Nat /\ MaxNow \in Nat /\ adTask \in [AdSlots -> AdTasks]
  BY AdsAssumption, PostingAssumption DEF Types, ClockOK, AdsOK
<1>2. \A a \in AdIds : Due(a) \subseteq Nat /\ Due(a) \subseteq 0..MaxNow
  BY <1>1 DEF Due
<1>3. \A l \in Labels : l.at \in Nat
  BY DEF Labels
<1>4. \A l \in Labelled : l \in Labels
  BY DEF Labelled, Types, PostOK, Ids
<1>5. \A n \in AdSlots : call[n].label \in Labels
  BY PostTyped, AdsAssumption DEF Types
<1>6. \A n \in AdSlots : adTask[n].due \in Nat /\ adTask[n].attempt \in 0..AdRetries
  BY <1>1 DEF AdTasks
<1>7. \A n \in AdSlots : Enqueued(adTask[n]) \in Int
  BY <1>1, <1>6 DEF Enqueued
<1> QED
  BY <1>1, <1>2, <1>3, <1>4, <1>5, <1>6, <1>7

\* A step that leaves the tasks of an ad alone.
LEMMA QuietTasks ==
  ASSUME NEW a \in AdIds, TasksInv(a), now' = now, a \in asked => a \in asked',
         \A n \in AdSlots : Busy(adTask[n], a) \/ Busy(adTask'[n], a) => adTask'[n] = adTask[n],
         \A n \in AdSlots : Busy(adTask[n], a) => call'[n].label = call[n].label
  PROVE  TasksInv(a)'
<1>1. \A n \in AdSlots : Busy(adTask'[n], a) => Busy(adTask[n], a) /\ adTask'[n] = adTask[n]
  OBVIOUS
<1>2. TimedTasks(a)'
  <2>1. \A t : Timed(t, a) => Timed(t, a)'
    BY DEF Timed
  <2> HIDE DEF Timed
  <2> QED
    BY <1>1, <2>1 DEF TasksInv, TimedTasks
<1>3. OneTask(a)'
  BY <1>1 DEF TasksInv, OneTask
<1>4. PostedNow(a)'
  BY <1>1 DEF TasksInv, PostedNow, Busy
<1> QED
  BY <1>2, <1>3, <1>4 DEF TasksInv

\* A step that leaves an ad alone: nothing is shown of it that was not shown.
LEMMA QuietAd ==
  ASSUME NEW a \in AdIds, AdInv(a), now' = now, a \in asked => a \in asked',
         \A n \in AdSlots : Busy(adTask[n], a) \/ Busy(adTask'[n], a) => adTask'[n] = adTask[n],
         \A n \in AdSlots : Busy(adTask[n], a) => call'[n].label = call[n].label,
         Labelled' \subseteq Labelled
  PROVE  AdInv(a)'
<1>1. TasksInv(a)'
  <2> HIDE DEF Busy
  <2> QED
    BY QuietTasks DEF AdInv
<1>2. InTurns(a)'
  BY DEF AdInv, PostsInv, InTurns, InTurn
<1>3. AloneInTurn(a)'
  BY DEF AdInv, PostsInv, AloneInTurn
<1>4. OwnTurn(a)'
  BY DEF AdInv, PostsInv, OwnTurn
<1> QED
  BY <1>1, <1>2, <1>3, <1>4 DEF AdInv, PostsInv

\* A task of an ad is enqueued where there is none, or changes.
LEMMA AdTaskMoves ==
  ASSUME NEW a \in AdIds, NEW n \in AdSlots, NEW u, adTask \in [AdSlots -> AdTasks], adTask' = [adTask EXCEPT ![n] = u],
         \A m \in AdSlots : Busy(adTask[m], a) => m = n,
         u.pc # "none" => u.ad = a /\ Timed(u, a)',
         u.pc = "posting" => call'[n].label.at = now'
  PROVE  TasksInv(a)'
<1>1. \A m \in AdSlots : adTask'[m] = IF m = n THEN u ELSE adTask[m]
  OBVIOUS
<1>2. \A m \in AdSlots : Busy(adTask'[m], a) => m = n /\ adTask'[m] = u /\ u.pc # "none"
  BY <1>1 DEF Busy
<1> HIDE DEF Timed
<1>3. TimedTasks(a)'
  BY <1>2 DEF TimedTasks
<1>4. OneTask(a)'
  BY <1>2 DEF OneTask
<1>5. PostedNow(a)'
  BY <1>2 DEF PostedNow, Busy
<1> QED
  BY <1>3, <1>4, <1>5 DEF TasksInv

\* What is shown of an ad stays as it is when its task ends, or is tried again.
LEMMA PostsStay ==
  ASSUME NEW a \in AdIds, PostsInv(a), now' = now, a \in asked => a \in asked', Labelled' = Labelled,
         \A n \in AdSlots, l \in Labelled : Busy(adTask'[n], a) /\ AboutAd(l, a) => ~(l.at >= Enqueued(adTask'[n]))
  PROVE  PostsInv(a)'
<1>1. InTurns(a)'
  BY DEF PostsInv, InTurns, InTurn
<1>2. AloneInTurn(a)'
  BY DEF PostsInv, AloneInTurn
<1>3. OwnTurn(a)'
  BY DEF OwnTurn
<1> QED
  BY <1>1, <1>2, <1>3 DEF PostsInv

\* Tasks of other ads.
LEMMA OtherAd ==
  ASSUME Types, NEW a \in AdIds, AdInv(a), NEW n \in AdSlots, ~Busy(adTask[n], a), NEW u, u.pc = "none" \/ u.ad # a,
         adTask' = [adTask EXCEPT ![n] = u], now' = now, a \in asked => a \in asked',
         call' = call \/ call' = [call EXCEPT ![n] = call'[n]], shown' = shown
  PROVE  AdInv(a)'
<1>1. \A m \in AdSlots : adTask'[m] = IF m = n THEN u ELSE adTask[m]
  BY DEF Types, AdsOK
<1>2. \A m \in AdSlots : m # n => call'[m] = call[m]
  BY OneSlot, AdsAssumption
<1>3. ~Busy(u, a)
  BY DEF Busy
<1>4. Labelled' = Labelled
  BY DEF Labelled
<1> HIDE DEF Busy, AdInv
<1> QED
  BY <1>1, <1>2, <1>3, <1>4, QuietAd

\* Beat enqueues a task: no other one is left of the ad.
LEMMA AdOfBeat ==
  ASSUME Types, NEW a \in AdIds, Spaced(a), AdInv(a), NEW b \in AdIds, BeatAd(b), now > MaxNow => asked' = asked
  PROVE  AdInv(a)'
<1>1. /\ asked' = asked \cup {b} /\ b \notin asked /\ ad' = ad /\ call' = call /\ shown' = shown /\ now' = now
      /\ Labelled' = Labelled /\ now \in Nat /\ MaxNow \in Nat /\ now <= MaxNow
      /\ adTask \in [AdSlots -> AdTasks]
  <2>1. now \in Nat /\ MaxNow \in Nat /\ adTask \in [AdSlots -> AdTasks]
    BY PostingAssumption DEF Types, ClockOK, AdsOK
  <2> QED
    BY <2>1 DEF BeatAd, postVars, calendarVars, Labelled
<1>2. CASE adTask' = adTask
  <2> HIDE DEF AdInv
  <2> QED
    BY <1>1, <1>2, QuietAd
<1>3. CASE Selected(b) /\ Matches(ScheduleOf[b], now) /\ adTask' # adTask
  <2>1. PICK n \in AdSlots : /\ adTask[n].pc = "none"
                             /\ adTask' = [adTask EXCEPT ![n] = [NoTask EXCEPT !.pc = "queued", !.ad = b, !.due = now]]
    BY <1>3 DEF BeatAd
  <2>0. PICK u : u = [NoTask EXCEPT !.pc = "queued", !.ad = b, !.due = now]
    OBVIOUS
  <2>2. u.pc = "queued" /\ u.ad = b /\ u.due = now /\ u.attempt = 0 /\ u.by = "beat" /\ u.seen = "draft"
    BY <2>0 DEF NoTask
  <2>3. CASE b # a
    <3>1. ~Busy(adTask[n], a)
      BY <2>1 DEF Busy
    <3> HIDE DEF AdInv
    <3> QED
      BY <1>1, <2>0, <2>1, <2>2, <2>3, <3>1, OtherAd
  <2>4. CASE b = a
    <3>0. now \in Due(a)
      BY <1>1, <1>3, <2>4 DEF Due
    <3>1. \A v \in Due(a) : v < now => now - v > AdRetries
      BY <3>0 DEF Spaced
    <3>2. ASSUME NEW m \in AdSlots, Busy(adTask[m], a) PROVE FALSE
      <4> DEFINE v == Enqueued(adTask[m])
      <4>1. Timed(adTask[m], a) /\ adTask[m].due \in Nat /\ adTask[m].attempt \in 0..AdRetries /\ v \in Int
        BY <3>2, AdTimes DEF AdInv, TasksInv, TimedTasks
      <4>2. v \in Due(a) /\ v < now
        BY <1>1, <2>4, <4>1 DEF Timed
      <4>3. now - v > AdRetries
        BY <3>1, <4>2
      <4>4. adTask[m].due = v + adTask[m].attempt /\ adTask[m].due >= now /\ AdRetries \in Nat
        BY <4>1, AdsAssumption DEF Timed, Enqueued
      <4> HIDE DEF v
      <4> QED
        BY <1>1, <4>1, <4>2, <4>3, <4>4
    <3>3. Timed(u, a)'
      <4>1. Enqueued(u) = now
        BY <1>1, <2>2 DEF Enqueued
      <4>2. Enqueued(u)' = now /\ Due(a)' = Due(a) /\ a \in asked'
        BY <1>1, <2>4, <4>1 DEF Enqueued, Due
      <4> HIDE DEF Due, Enqueued
      <4> QED
        BY <1>1, <2>2, <3>0, <4>1, <4>2 DEF Timed
    <3>4. TasksInv(a)'
      <4> HIDE DEF Timed
      <4> QED
        BY <1>1, <2>0, <2>1, <2>2, <2>4, <3>2, <3>3, AdTaskMoves
    <3>5. ASSUME NEW l \in Labelled, AboutAd(l, a) PROVE ~(l.at >= now)
      <4>1. PICK t \in Due(a) : l.at \in Turn(t) /\ t < now
        <5>1. InTurn(l, a)
          BY <3>5 DEF AdInv, PostsInv, InTurns
        <5>2. PICK t \in Due(a) : l.at \in Turn(t) /\ l.at <= now /\ t # now
          BY <1>1, <2>4, <5>1 DEF InTurn
        <5> QED
          BY <1>1, <5>2, <3>5, AdTimes DEF Turn
      <4>2. now - t > AdRetries /\ t \in Nat /\ AdRetries \in Nat /\ l.at \in Nat
        BY <3>1, <3>5, <4>1, AdTimes
      <4> QED
        BY <1>1, <4>1, <4>2 DEF Turn
    <3>6. PostsInv(a)'
      <4>1. ASSUME NEW m \in AdSlots, Busy(adTask'[m], a) PROVE Enqueued(adTask'[m]) = now
        <5>1. adTask'[m] = IF m = n THEN u ELSE adTask[m]
          BY <1>1, <2>0, <2>1
        <5>2. adTask'[m] = u
          BY <3>2, <4>1, <5>1 DEF Busy
        <5> QED
          BY <1>1, <2>2, <5>2 DEF Enqueued
      <4> HIDE DEF Busy, AboutAd, Enqueued
      <4> QED
        BY <1>1, <3>5, <4>1, PostsStay DEF AdInv
    <3> QED
      BY <3>4, <3>6 DEF AdInv
  <2> QED
    BY <2>3, <2>4
<1> QED
  BY <1>2, <1>3 DEF BeatAd

\* An editor works on another ad.
LEMMA AdOfEditor ==
  ASSUME Types, NEW a \in AdIds, AdInv(a), NEW b \in AdIds, b # a,
         PublishByHand(b) \/ SetAuto(b) \/ DeleteAd(b) \/ \E status \in AdStatuses : SetStatus(b, status)
  PROVE  AdInv(a)'
<1>1. /\ asked' = asked /\ call' = call /\ shown' = shown /\ now' = now /\ Labelled' = Labelled
  BY DEF PublishByHand, SetAuto, DeleteAd, SetStatus, postVars, calendarVars, Labelled
<1>2. ad'[a] = ad[a]
  BY DEF PublishByHand, SetAuto, DeleteAd, SetStatus, Types, AdsOK
<1>3. CASE adTask' = adTask
  <2> HIDE DEF AdInv
  <2> QED
    BY <1>1, <1>2, <1>3, QuietAd
<1>4. CASE PublishByHand(b)
  <2>1. PICK n \in AdSlots :
          /\ adTask[n].pc = "none"
          /\ adTask' = [adTask EXCEPT ![n] = [NoTask EXCEPT !.pc = "queued", !.ad = b, !.due = now, !.by = "hand"]]
    BY <1>4 DEF PublishByHand
  <2>0. PICK u : u = [NoTask EXCEPT !.pc = "queued", !.ad = b, !.due = now, !.by = "hand"]
    OBVIOUS
  <2>2. u.ad # a
    BY <2>0 DEF NoTask
  <2>3. ~Busy(adTask[n], a)
    BY <2>1 DEF Busy
  <2> HIDE DEF AdInv
  <2> QED
    BY <1>1, <1>2, <2>0, <2>1, <2>2, <2>3, OtherAd
<1> QED
  BY <1>3, <1>4 DEF SetAuto, DeleteAd, SetStatus

\* A post of the ad begins: none is shown.
LEMMA AdOfStart ==
  ASSUME Types, NEW a \in AdIds, AdInv(a), NEW n \in AdSlots, StartAd(n)
  PROVE  AdInv(a)'
<1> DEFINE t == adTask[n]
<1>0. PICK u : u = [t EXCEPT !.pc = "posting", !.seen = ad[t.ad].status]
  OBVIOUS
<1>1. /\ adTask' = [adTask EXCEPT ![n] = u] /\ ad' = ad /\ asked' = asked /\ shown' = shown /\ now' = now
      /\ t.pc = "queued" /\ t.due <= now /\ Labelled' = Labelled
  BY <1>0 DEF StartAd, Labelled, calendarVars
<1>2. t \in AdTasks /\ adTask \in [AdSlots -> AdTasks] /\ now \in Nat
  BY DEF Types, AdsOK, ClockOK
<1>3. call' = [call EXCEPT ![n] = call'[n]]
  BY AdsAssumption DEF StartAd, StartPost, Types, PostOK
<1>4. u.pc = "posting" /\ u.seen = ad[t.ad].status /\ u.ad = t.ad /\ u.by = t.by /\ u.due = t.due /\ u.attempt = t.attempt
  BY <1>0, <1>2 DEF AdTasks
<1>5. CASE t.ad # a
  <2> HIDE DEF AdInv
  <2>1. ~Busy(t, a)
    BY <1>5 DEF Busy
  <2> QED
    BY <1>1, <1>3, <1>4, <1>5, <2>1, OtherAd
<1>6. CASE t.ad = a
  <2>1. Busy(t, a)
    BY <1>1, <1>6 DEF Busy
  <2>2. Timed(t, a) /\ \A m \in AdSlots : Busy(adTask[m], a) => m = n
    BY <2>1 DEF AdInv, TasksInv, TimedTasks, OneTask
  <2>3. t.due \in Nat
    BY <1>2 DEF AdTasks
  <2>0. Enqueued(u) = Enqueued(t)
    BY <1>4 DEF Enqueued
  <2>4. Timed(u, a)'
    <3>1. Enqueued(u)' = Enqueued(t) /\ Due(a)' = Due(a)
      BY <2>0 DEF Enqueued, Due
    <3>2. u.by = "beat" /\ u.due = now
      BY <1>1, <1>2, <1>4, <1>6, <2>2, <2>3 DEF Timed
    <3> HIDE DEF Due, Enqueued
    <3> QED
      BY <1>1, <1>2, <2>2, <3>1, <3>2 DEF Timed
  <2>5. TasksInv(a)'
    <3>1. call'[n].label.at = now
      BY AdsAssumption DEF StartAd, StartPost, Types, PostOK
    <3> HIDE DEF Timed
    <3> QED
      BY <1>1, <1>2, <1>4, <1>6, <2>2, <2>4, <3>1, AdTaskMoves
  <2>6. \A l \in Labelled : AboutAd(l, a) => ~(l.at >= Enqueued(t))
    BY <1>1, <2>1 DEF AdInv, PostsInv, OwnTurn
  <2>7. PostsInv(a)'
    <3>1. ASSUME NEW m \in AdSlots, Busy(adTask'[m], a) PROVE adTask'[m] = u
      <4>1. adTask'[m] = IF m = n THEN u ELSE adTask[m]
        BY <1>1, <1>2
      <4> QED
        BY <2>2, <3>1, <4>1
    <3> HIDE DEF Busy, AboutAd, Enqueued
    <3> QED
      BY <1>1, <2>0, <2>6, <3>1, PostsStay DEF AdInv
  <2> QED
    BY <2>5, <2>7 DEF AdInv
<1> QED
  BY <1>5, <1>6

\* The retry of a task that could not post.
LEMMA TimedRetry ==
  ASSUME NEW a \in AdIds, NEW t \in AdTasks, now \in Nat, Busy(t, a), Timed(t, a), t.due <= now, AfterFailure(t).pc # "none"
  PROVE  Timed(AfterFailure(t), a) /\ Enqueued(AfterFailure(t)) = Enqueued(t)
<1>1. PICK u : u = AfterFailure(t)
  OBVIOUS
<1>2. u = [t EXCEPT !.pc = "queued", !.attempt = @ + 1, !.due = now + 1]
  BY <1>1, FailedTask DEF Busy
<1>3. u.pc = "queued" /\ u.by = t.by /\ u.attempt = t.attempt + 1 /\ u.due = now + 1
  BY <1>2 DEF AdTasks
<1>4. t.due = now /\ t.attempt \in Int
  BY AdsAssumption DEF Timed, AdTasks
<1>5. Enqueued(u) = Enqueued(t)
  BY <1>3, <1>4 DEF Enqueued
<1>6. Timed(u, a)
  <2> HIDE DEF Due, Enqueued
  <2> QED
    BY <1>3, <1>4, <1>5 DEF Timed
<1> QED
  BY <1>1, <1>5, <1>6

\* A post ends without a record, or does not begin; nothing is shown of it.
LEMMA AdOfFailure ==
  ASSUME Types, NEW a \in AdIds, AdInv(a), NEW n \in AdSlots, adTask[n].pc # "none", adTask[n].pc = "posting" \/ adTask[n].due <= now,
         adTask' = [adTask EXCEPT ![n] = AfterFailure(adTask[n])], now' = now, asked' = asked, shown' = shown,
         call' = call \/ call' = [call EXCEPT ![n] = call'[n]],
         adTask[n].ad = a /\ adTask[n].pc = "posting" => \A m \in shown : m[1] # call[n].label
  PROVE  AdInv(a)'
<1>1. adTask \in [AdSlots -> AdTasks] /\ adTask[n] \in AdTasks /\ now \in Nat /\ Labelled' = Labelled
  BY DEF Types, AdsOK, ClockOK, Labelled
<1>2. PICK t, u : t = adTask[n] /\ u = AfterFailure(t)
  OBVIOUS
<1>3. u \in AdTasks /\ (u.pc # "none" => u.pc = "queued" /\ u.ad = t.ad)
  BY <1>1, <1>2, FailedTask DEF Types, AdsOK
<1>4. CASE t.ad # a
  <2>1. ~Busy(t, a)
    BY <1>4 DEF Busy
  <2> HIDE DEF AdInv
  <2> QED
    BY <1>1, <1>2, <1>3, <1>4, <2>1, OtherAd
<1>5. CASE t.ad = a
  <2>1. Busy(t, a)
    BY <1>2, <1>5 DEF Busy
  <2>2. Timed(t, a) /\ \A m \in AdSlots : Busy(adTask[m], a) => m = n
    BY <1>2, <2>1 DEF AdInv, TasksInv, TimedTasks, OneTask
  <2>3. u.pc # "none" => Timed(u, a) /\ Enqueued(u) = Enqueued(t)
    <3>1. t.due <= now
      BY <1>1, <1>2, <2>2 DEF Timed
    <3> HIDE DEF Timed, Enqueued
    <3> QED
      BY <1>1, <1>2, <2>1, <2>2, <3>1, TimedRetry
  <2>4. u.pc # "none" => Timed(u, a)'
    <3>1. Enqueued(u)' = Enqueued(u) /\ Due(a)' = Due(a)
      BY DEF Enqueued, Due
    <3> HIDE DEF Due, Enqueued
    <3> QED
      BY <2>3, <3>1 DEF Timed
  <2>5. TasksInv(a)'
    <3> HIDE DEF Timed
    <3> QED
      BY <1>1, <1>2, <1>3, <1>5, <2>2, <2>4, AdTaskMoves
  <2>6. \A l \in Labelled : AboutAd(l, a) => ~(l.at >= Enqueued(t))
    <3>1. \A l \in Labelled : AboutAd(l, a) /\ l.at >= Enqueued(t) => t.pc = "posting" /\ call[n].label = l
      BY <1>2, <2>1 DEF AdInv, PostsInv, OwnTurn
    <3>2. t.pc = "posting" => call[n].label \notin Labelled
      BY <1>2, <1>5 DEF Labelled
    <3> QED
      BY <3>1, <3>2
  <2>7. PostsInv(a)'
    <3>1. ASSUME NEW m \in AdSlots, Busy(adTask'[m], a) PROVE Enqueued(adTask'[m]) = Enqueued(t)
      <4>1. adTask'[m] = IF m = n THEN u ELSE adTask[m]
        BY <1>1, <1>2
      <4>2. adTask'[m] = u /\ u.pc # "none"
        BY <2>2, <3>1, <4>1 DEF Busy
      <4> QED
        BY <2>3, <4>2
    <3> HIDE DEF Busy, AboutAd, Enqueued
    <3> QED
      BY <1>1, <2>6, <3>1, PostsStay DEF AdInv
  <2> QED
    BY <2>5, <2>7 DEF AdInv
<1> QED
  BY <1>4, <1>5

\* A post is recorded, and its task ends.
LEMMA AdOfSuccess ==
  ASSUME Types, NEW a \in AdIds, AdInv(a), NEW n \in AdSlots, AdPublished(n)
  PROVE  AdInv(a)'
<1>1. PICK t : t = adTask[n]
  OBVIOUS
<1>2. /\ adTask' = [adTask EXCEPT ![n] = NoTask] /\ asked' = asked /\ shown' = shown /\ now' = now /\ Labelled' = Labelled
      /\ call' = [call EXCEPT ![n] = call'[n]] /\ adTask \in [AdSlots -> AdTasks] /\ t.pc = "posting"
  BY <1>1, AdsAssumption DEF AdPublished, Labelled, calendarVars, Types, AdsOK, PostOK
<1>4. NoTask.pc = "none"
  BY DEF NoTask
<1> HIDE DEF NoTask
<1>5. CASE t.ad # a
  <2>1. ~Busy(t, a)
    BY <1>5 DEF Busy
  <2> HIDE DEF AdInv
  <2> QED
    BY <1>1, <1>2, <1>4, <2>1, OtherAd
<1>6. CASE t.ad = a
  <2>1. \A m \in AdSlots : Busy(adTask[m], a) => m = n
    BY <1>1, <1>2, <1>6 DEF AdInv, TasksInv, OneTask, Busy
  <2>2. TasksInv(a)'
    <3> HIDE DEF Timed
    <3> QED
      BY <1>2, <1>4, <2>1, AdTaskMoves
  <2>3. ASSUME NEW m \in AdSlots, Busy(adTask'[m], a) PROVE FALSE
    <3>1. adTask'[m] = IF m = n THEN NoTask ELSE adTask[m]
      BY <1>2
    <3> QED
      BY <1>4, <2>1, <2>3, <3>1 DEF Busy
  <2>4. PostsInv(a)'
    <3> HIDE DEF Busy
    <3> QED
      BY <1>2, <2>3, PostsStay DEF AdInv
  <2> QED
    BY <2>2, <2>4 DEF AdInv
<1> QED
  BY <1>5, <1>6

\* A minute goes by: every task that was due has ended.
LEMMA AdOfTick ==
  ASSUME Types, Punctual, NEW a \in AdIds, AdInv(a), Tick
  PROVE  AdInv(a)'
<1>1. /\ now' = now + 1 /\ asked' = {} /\ adTask' = adTask /\ ad' = ad /\ call' = call /\ Labelled' = Labelled /\ now \in Nat
      /\ adTask \in [AdSlots -> AdTasks]
  BY DEF Tick, Types, ClockOK, AdsOK, postVars, Labelled
<1>2. ASSUME NEW n \in AdSlots, Busy(adTask[n], a) PROVE Timed(adTask[n], a)' /\ adTask[n].pc = "queued"
  <2>1. PICK t : t = adTask[n]
    OBVIOUS
  <2>2. Timed(t, a) /\ t.due \in Nat /\ Enqueued(t) \in Int
    BY <1>2, <2>1, AdTimes DEF AdInv, TasksInv, TimedTasks
  <2>3. t.pc = "queued" /\ t.due > now
    BY <1>2, <2>1 DEF Tick, Idle, Waits, Busy
  <2>4. Timed(t, a)'
    <3>1. Enqueued(t)' = Enqueued(t) /\ Due(a)' = Due(a)
      BY DEF Enqueued, Due
    <3> HIDE DEF Due, Enqueued
    <3>2. Enqueued(t) <= now /\ Enqueued(t) # now + 1
      BY <1>1, <2>2 DEF Timed
    <3> QED
      BY <1>1, <2>2, <2>3, <3>1, <3>2 DEF Timed
  <2>5. Timed(adTask[n], a)' <=> Timed(t, a)'
    <3> HIDE DEF Timed
    <3> QED
      BY <1>1, <2>1
  <2> QED
    BY <2>1, <2>3, <2>4, <2>5
<1>3. TasksInv(a)'
  <2>1. TimedTasks(a)'
    <3> HIDE DEF Timed
    <3> QED
      BY <1>1, <1>2 DEF TimedTasks
  <2>2. OneTask(a)'
    BY <1>1 DEF AdInv, TasksInv, OneTask
  <2>3. PostedNow(a)'
    BY <1>1, <1>2 DEF PostedNow, Busy
  <2> QED
    BY <2>1, <2>2, <2>3 DEF TasksInv
<1>4. PostsInv(a)'
  <2>1. ASSUME NEW l \in Labelled, InTurn(l, a) PROVE InTurn(l, a)'
    <3>1. PICK t \in Due(a) : l.at \in Turn(t) /\ l.at <= now
      BY <2>1 DEF InTurn
    <3>2. t <= now /\ t \in Nat /\ l.at \in Nat
      BY <1>1, <2>1, <3>1, AdTimes DEF Turn
    <3> QED
      BY <1>1, <3>1, <3>2 DEF InTurn
  <2>2. InTurns(a)'
    <3> HIDE DEF InTurn, AboutAd
    <3> QED
      BY <1>1, <2>1 DEF AdInv, PostsInv, InTurns
  <2>3. AloneInTurn(a)'
    BY <1>1 DEF AdInv, PostsInv, AloneInTurn
  <2>4. OwnTurn(a)'
    BY <1>1 DEF AdInv, PostsInv, OwnTurn
  <2> QED
    BY <2>2, <2>3, <2>4 DEF PostsInv
<1> QED
  BY <1>3, <1>4 DEF AdInv

\* The weather, and a post on its way.
LEMMA WeatherShowsNothing ==
  ASSUME Types, WeatherNext
  PROVE  shown' = shown /\ now' = now /\ \A n \in AdSlots : call'[n] = call[n]
<1>1. shown' = shown /\ now' = now
  BY DEF WeatherNext, BeatWeather, PressButton, StartRun, NextCity, PostWeather, StartPost, WeatherPosted, EndCity, CommitRun, RunFails,
         RunLost, postVars, calendarVars
<1>2. call' = call \/ \E n \in WeatherSlots : \E r : call' = [call EXCEPT ![n] = r]
  BY DEF WeatherNext, BeatWeather, PressButton, StartRun, NextCity, PostWeather, StartPost, WeatherPosted, EndCity, CommitRun, RunFails,
         RunLost, postVars
<1> QED
  BY <1>1, <1>2, SlotsApart DEF Types, PostOK

\* What the task of an ad is posting is posted in the turn of that task, and in no other.
LEMMA PostsInTurn ==
  ASSUME Types, NEW a \in AdIds, Spaced(a), AdInv(a), NEW n \in AdSlots, adTask[n].pc = "posting", adTask[n].ad = a
  PROVE  /\ call[n].label.at = now /\ now >= Enqueued(adTask[n]) /\ InTurn(call[n].label, a)
         /\ \A t \in Due(a) : now \in Turn(t) => t = Enqueued(adTask[n])
<1> DEFINE e == Enqueued(adTask[n])
<1>1. /\ e \in Due(a) /\ e <= now /\ (e = now => a \in asked) /\ adTask[n].due = now /\ call[n].label.at = now
  BY DEF AdInv, TasksInv, TimedTasks, PostedNow, Busy, Timed
<1>2. /\ now \in Nat /\ e \in Nat /\ AdRetries \in Nat /\ adTask[n].attempt \in 0..AdRetries /\ adTask[n].due \in Nat
      /\ \A t \in Due(a) : t \in Nat
  BY <1>1, AdTimes
<1>3. now = e + adTask[n].attempt
  BY <1>1, <1>2 DEF Enqueued
<1> HIDE DEF e
<1>4. now \in Turn(e)
  BY <1>2, <1>3 DEF Turn
<1>5. ASSUME NEW t \in Due(a), now \in Turn(t) PROVE t = e
  <2>1. t \in Nat /\ t <= now /\ now <= t + AdRetries
    BY <1>2, <1>5 DEF Turn
  <2>2. ~(t < e) /\ ~(e < t)
    <3>1. (t < e => e - t > AdRetries) /\ (e < t => t - e > AdRetries)
      BY <1>1, <1>5 DEF Spaced
    <3> QED
      BY <1>2, <1>3, <2>1, <3>1
  <2> QED
    BY <1>2, <2>1, <2>2
<1>6. InTurn(call[n].label, a)
  BY <1>1, <1>2, <1>4 DEF InTurn
<1> QED
  BY <1>1, <1>2, <1>5, <1>6 DEF e

\* What a step of a post shows of an ad is what the ad's own task is posting.
LEMMA AdOfPostStep ==
  ASSUME Types, NEW a \in AdIds, Spaced(a), AdInv(a), NEW c \in Callers, PostStep(c), UNCHANGED <<adVars, calendarVars>>
  PROVE  AdInv(a)'
<1>1. Moves(c)
  BY PostMoves DEF Types
<1>2. call' = [call EXCEPT ![c] = call'[c]] /\ call'[c].label = call[c].label /\ call[c].pc # "none"
  BY <1>1 DEF Moves, StepOf
<1>3. \A d \in Callers : call'[d].label = call[d].label
  BY <1>2, OneSlot
<1>4. \A m \in shown' : m[1] = call[c].label \/ m \in shown
  BY <1>1 DEF Moves, Touches
<1> DEFINE Own(l) == \E n \in AdSlots : adTask[n].pc = "posting" /\ adTask[n].ad = a /\ call[n].label = l
<1>5. ASSUME AboutAd(call[c].label, a) PROVE Own(call[c].label)
  <2>1. c \in AdSlots \cup WeatherSlots
    BY <1>2 DEF Types, ClockOK
  <2>2. c \notin WeatherSlots
    <3> SUFFICES ASSUME c \in WeatherSlots PROVE FALSE
      OBVIOUS
    <3>1. weatherRun[c] \in Runs /\ \E channel \in UNION {ChannelsOf[d] : d \in weatherRun[c].city} : call[c].label.about = {channel}
      BY <1>2 DEF Types, WeatherOK
    <3>2. weatherRun[c].city \subseteq WeatherCities
      BY <3>1 DEF Runs
    <3> QED
      BY <1>5, <3>1, <3>2, PostingAssumption DEF AboutAd
  <2>3. adTask[c].pc = "posting" /\ {adTask[c].ad} = {a}
    BY <1>2, <1>5, <2>1, <2>2 DEF Types, AdsOK, AboutAd
  <2> QED
    BY <2>1, <2>2, <2>3
<1>6. \A l \in Labelled' : AboutAd(l, a) => l \in Labelled \/ Own(l)
  BY <1>4, <1>5 DEF Labelled
<1>7. now' = now /\ asked' = asked /\ adTask' = adTask /\ \A n \in AdSlots : call'[n].label = call[n].label
  BY <1>3, AdsAssumption DEF adVars, calendarVars
<1>8. TasksInv(a)'
  <2> HIDE DEF Busy, TasksInv
  <2> QED
    BY <1>7, QuietTasks DEF AdInv
<1>9. \A l : Own(l) => InTurn(l, a)
  BY PostsInTurn
<1>10. InTurns(a)'
  <2>1. \A l : InTurn(l, a) => InTurn(l, a)'
    BY <1>7 DEF InTurn
  <2> HIDE DEF InTurn, AboutAd, Own
  <2> QED
    BY <1>6, <1>9, <2>1 DEF AdInv, PostsInv, InTurns
<1>11. ASSUME NEW l, Own(l), NEW k \in Labelled', AboutAd(k, a), NEW t \in Due(a), l.at \in Turn(t), k.at \in Turn(t)
       PROVE  l = k
  <2>1. PICK n \in AdSlots : adTask[n].pc = "posting" /\ adTask[n].ad = a /\ call[n].label = l
    BY <1>11
  <2>2. t = Enqueued(adTask[n])
    BY <1>11, <2>1, PostsInTurn
  <2>3. CASE k \in Labelled
    <3>1. k.at >= t
      BY <1>11, <2>3, AdTimes DEF Turn
    <3> QED
      BY <1>11, <2>1, <2>2, <2>3, <3>1 DEF AdInv, PostsInv, OwnTurn, Busy
  <2>4. CASE Own(k)
    <3>1. PICK m \in AdSlots : adTask[m].pc = "posting" /\ adTask[m].ad = a /\ call[m].label = k
      BY <2>4
    <3>2. m = n
      BY <2>1, <3>1 DEF AdInv, TasksInv, OneTask, Busy
    <3> QED
      BY <2>1, <3>1, <3>2
  <2> QED
    BY <1>6, <1>11, <2>3, <2>4
<1>12. AloneInTurn(a)'
  <2> SUFFICES ASSUME NEW l \in Labelled', NEW k \in Labelled', NEW t \in Due(a), AboutAd(l, a), AboutAd(k, a),
                      l.at \in Turn(t), k.at \in Turn(t)
               PROVE  l = k
    BY DEF AloneInTurn, Due, Turn, AboutAd
  <2> HIDE DEF Own
  <2>1. CASE Own(l) \/ Own(k)
    BY <1>11, <2>1
  <2>2. CASE l \in Labelled /\ k \in Labelled
    BY <2>2 DEF AdInv, PostsInv, AloneInTurn
  <2> QED
    BY <1>6, <2>1, <2>2
<1>13. OwnTurn(a)'
  <2>1. ASSUME NEW n \in AdSlots, NEW l \in Labelled', Busy(adTask[n], a), AboutAd(l, a), l.at >= Enqueued(adTask[n])
        PROVE  adTask[n].pc = "posting" /\ call[n].label = l
    <3>1. CASE l \in Labelled
      BY <2>1, <3>1 DEF AdInv, PostsInv, OwnTurn
    <3>2. CASE Own(l)
      BY <2>1, <3>2 DEF AdInv, TasksInv, OneTask, Busy
    <3> QED
      BY <1>6, <2>1, <3>1, <3>2
  <2> HIDE DEF Busy, AboutAd, Enqueued
  <2> QED
    BY <1>7, <2>1 DEF OwnTurn
<1> QED
  BY <1>8, <1>10, <1>12, <1>13 DEF AdInv, PostsInv

\* The tasks of the ads, one by one.
LEMMA AdOfAds ==
  ASSUME Types, NEW a \in AdIds, Spaced(a), AdInv(a), AdsNext, now > MaxNow => asked' = asked,
         a \notin disturbed'.edited \cup disturbed'.lost
  PROVE  AdInv(a)'
<1>1. disturbed \in [edited : SUBSET AdIds, lost : SUBSET AdIds]
  BY DEF Types, AdsOK
<1>2. ASSUME NEW b \in AdIds, BeatAd(b) PROVE AdInv(a)'
  <2> HIDE DEF AdInv, Spaced
  <2> QED
    BY <1>2, AdOfBeat
<1>3. ASSUME NEW b \in AdIds, PublishByHand(b) \/ SetAuto(b) \/ DeleteAd(b) \/ \E status \in AdStatuses : SetStatus(b, status)
      PROVE  AdInv(a)'
  <2>1. b \in disturbed'.edited
    BY <1>1, <1>3 DEF PublishByHand, SetAuto, DeleteAd, SetStatus, EditorWorks
  <2> HIDE DEF AdInv
  <2> QED
    BY <1>3, <2>1, AdOfEditor
<1>4. ASSUME NEW n \in AdSlots, StartAd(n) PROVE AdInv(a)'
  <2> HIDE DEF AdInv
  <2> QED
    BY <1>4, AdOfStart
<1>5. ASSUME NEW n \in AdSlots, AdUnpublishable(n) PROVE AdInv(a)'
  <2>1. /\ adTask[n].pc = "queued" /\ adTask[n].due <= now /\ adTask' = [adTask EXCEPT ![n] = AfterFailure(adTask[n])]
        /\ now' = now /\ asked' = asked /\ shown' = shown /\ call' = call
    BY <1>5 DEF AdUnpublishable, postVars, calendarVars
  <2> HIDE DEF AdInv, AfterFailure
  <2> QED
    BY <2>1, AdOfFailure
<1>6. ASSUME NEW n \in AdSlots, AdPublished(n) PROVE AdInv(a)'
  <2> HIDE DEF AdInv
  <2> QED
    BY <1>6, AdOfSuccess
<1>7. ASSUME NEW n \in AdSlots, AdNotPublished(n) PROVE AdInv(a)'
  <2>1. /\ adTask[n].pc = "posting" /\ call[n].pc = "over" /\ adTask' = [adTask EXCEPT ![n] = AfterFailure(adTask[n])]
        /\ now' = now /\ asked' = asked /\ ad' = ad /\ shown' = shown
        /\ Loses(adTask[n].ad, call[n].ok \/ call[n].stray)
        /\ n \in Callers /\ call' = [call EXCEPT ![n] = call'[n]]
    BY <1>7, AdsAssumption DEF AdNotPublished, calendarVars, Types, PostOK
  <2>2. adTask[n].ad = a => ~call[n].ok /\ ~call[n].stray
    BY <1>1, <2>1 DEF Loses
  <2>3. adTask[n].ad = a => \A m \in shown : m[1] # call[n].label
    BY <2>1, <2>2 DEF Types, PostOK, AccountedFor
  <2> HIDE DEF AdInv, AfterFailure
  <2> QED
    BY <2>1, <2>3, AdOfFailure
<1>8. ASSUME NEW n \in AdSlots, AdWorkerDies(n) PROVE AdInv(a)'
  <2>1. Loses(adTask[n].ad, TRUE) /\ adTask[n].pc = "posting" /\ adTask' = [adTask EXCEPT ![n] = adTask'[n]]
        /\ now' = now /\ asked' = asked /\ ad' = ad /\ shown' = shown /\ call' = [call EXCEPT ![n] = call'[n]]
    BY <1>8, AdsAssumption DEF AdWorkerDies, calendarVars, Types, PostOK, AdsOK
  <2>2. adTask[n].ad # a
    BY <1>1, <2>1 DEF Loses
  <2>3. PICK u : adTask' = [adTask EXCEPT ![n] = u] /\ (u.pc = "none" \/ u.ad = adTask[n].ad)
    <3>1. adTask[n] \in AdTasks
      BY DEF Types, AdsOK
    <3>2. NoTask.pc = "none"
      BY DEF NoTask
    <3> DEFINE late == [adTask[n] EXCEPT !.pc = "queued", !.due = now + VisibilityTimeout]
    <3>3. late.ad = adTask[n].ad
      BY <3>1 DEF AdTasks
    <3>4. adTask' = [adTask EXCEPT ![n] = late] \/ adTask' = [adTask EXCEPT ![n] = NoTask]
      BY <1>8 DEF AdWorkerDies
    <3> HIDE DEF late, NoTask
    <3> QED
      BY <3>2, <3>3, <3>4
  <2>4. ~Busy(adTask[n], a)
    BY <2>2 DEF Busy
  <2> HIDE DEF AdInv
  <2> QED
    BY <2>1, <2>2, <2>3, <2>4, OtherAd
<1> QED
  BY <1>2, <1>3, <1>4, <1>5, <1>6, <1>7, <1>8 DEF AdsNext

\* What is disturbed stays so.
LEMMA DisturbedGrows ==
  ASSUME Types, [Next]_postingVars
  PROVE  Undisturbed' \subseteq Undisturbed
<1>1. disturbed \in [edited : SUBSET AdIds, lost : SUBSET AdIds]
  BY DEF Types, AdsOK
<1>2. CASE disturbed' = disturbed
  BY <1>2 DEF Undisturbed
<1>3. CASE \E a \in AdIds : EditorWorks("hand", a) \/ EditorWorks("auto", a) \/ EditorWorks("status", a) \/ EditorWorks("delete", a)
  BY <1>1, <1>3 DEF EditorWorks, Undisturbed
<1>4. CASE \E a, something : Loses(a, something)
  BY <1>1, <1>4 DEF Loses, Undisturbed
<1> QED
  BY <1>2, <1>3, <1>4 DEF Next, Tick, AdsNext, BeatAd, PublishByHand, SetAuto, SetStatus, DeleteAd, StartAd, AdUnpublishable, AdPublished,
       AdNotPublished, AdWorkerDies, adVars, postingVars

LEMMA AdsInvNext ==
  ASSUME Types, Types', Punctual, AdsInv, [Next]_postingVars
  PROVE  AdsInv'
<1> SUFFICES ASSUME NEW a \in Undisturbed', Spaced(a) PROVE AdInv(a)'
  BY DEF AdsInv, Spaced
<1>1. a \in AdIds /\ AdInv(a) /\ a \notin disturbed'.edited \cup disturbed'.lost
  BY DisturbedGrows DEF AdsInv, Undisturbed
<1> HIDE DEF AdInv, Spaced
<1>2. CASE Tick
  BY <1>1, <1>2, AdOfTick
<1>3. CASE AdsNext /\ (now > MaxNow => asked' = asked)
  BY <1>1, <1>3, AdOfAds
<1>4. CASE WeatherNext /\ UNCHANGED adVars
  <2>1. shown' = shown /\ now' = now /\ \A n \in AdSlots : call'[n] = call[n]
    BY <1>4, WeatherShowsNothing
  <2>2. adTask' = adTask /\ ad' = ad /\ asked' = asked /\ Labelled' = Labelled
    BY <1>4, <2>1 DEF adVars, Labelled
  <2> QED
    BY <1>1, <2>1, <2>2, QuietAd
<1>5. CASE \E c \in Callers : PostStep(c) /\ UNCHANGED <<adVars, weatherVars, calendarVars>>
  BY <1>1, <1>5, AdOfPostStep
<1>6. CASE UNCHANGED postingVars
  <2>1. adTask' = adTask /\ ad' = ad /\ asked' = asked /\ Labelled' = Labelled /\ now' = now /\ call' = call
    BY <1>6 DEF postingVars, adVars, postVars, calendarVars, Labelled
  <2> QED
    BY <1>1, <2>1, QuietAd
<1> QED
  BY <1>2, <1>3, <1>4, <1>5, <1>6 DEF Next

LEMMA AdsInvInit ==
  ASSUME Init
  PROVE  AdsInv
<1>1. shown = {} /\ \A n \in AdSlots : adTask[n].pc = "none"
  <2>1. NoTask.pc = "none"
    BY DEF NoTask
  <2> HIDE DEF NoTask
  <2> QED
    BY <2>1 DEF Init, AdsInit, PostInit
<1> QED
  BY <1>1 DEF AdsInv, AdInv, TasksInv, TimedTasks, OneTask, PostedNow, PostsInv, InTurns, AloneInTurn, OwnTurn, Busy, Labelled

\* An ad whose schedule leaves room for the retries is posted at most once for
\* each minute it is due, and soon after it, although failed posts are retried
\* and beat looks at it again and again, unless an editor, a lost worker, commit or
\* answer interferes.
THEOREM SpacedAdsArePostedOnce ==
  ASSUME Punctual
  PROVE  Spec => []SpacedAdOnce
<1>1. Init => AdsInv
  BY AdsInvInit
<1>2. Types /\ Types' /\ AdsInv /\ [Next]_postingVars => AdsInv'
  BY AdsInvNext
<1>3. AdsInv => SpacedAdOnce
  <2> SUFFICES ASSUME AdsInv, NEW a \in Undisturbed, Spaced(a) PROVE OnceATurn(a)
    BY DEF SpacedAdOnce, Undisturbed
  <2>1. InTurns(a) /\ AloneInTurn(a)
    BY DEF AdsInv, AdInv, PostsInv
  <2>2. \A l \in PostsAbout(a, "beat") : l \in Labelled /\ AboutAd(l, a)
    BY DEF PostsAbout, Labelled, AboutAd
  <2> QED
    BY <2>1, <2>2 DEF InTurns, InTurn, AloneInTurn, OnceATurn
<1> QED
  BY <1>1, <1>2, <1>3, TypesHold, PTL DEF Spec

-----------------------------------------------------------------------------
(* What occurs in a sequence once. *)

Once(s, x) == \E i \in DOMAIN s : s[i] = x /\ \A j \in DOMAIN s : s[j] = x => j = i
Never(s, x) == \A i \in DOMAIN s : s[i] # x

\* One element is in O, all others are in N; all are.
JustOne(s, O, N) == \E n \in DOMAIN s : s[n] \in O /\ \A m \in DOMAIN s \ {n} : s[m] \in N
All(s, N) == \A n \in DOMAIN s : s[n] \in N

LEMMA JustOneJoined ==
  ASSUME NEW s, Sequence(s), NEW t, Sequence(t), NEW O, NEW N
  PROVE  /\ All(s, N) /\ All(t, N) => All(s \o t, N)
         /\ JustOne(s, O, N) /\ All(t, N) => JustOne(s \o t, O, N)
         /\ All(s, N) /\ JustOne(t, O, N) => JustOne(s \o t, O, N)
<1> DEFINE S == ToSet(s) \cup ToSet(t)
           w == s \o t
<1>1. s \in Seq(S) /\ t \in Seq(S)
  BY InSeq DEF ToSet
<1>2. /\ Sequence(w) /\ Len(w) = Len(s) + Len(t) /\ Len(s) \in Nat /\ Len(t) \in Nat
      /\ \A i \in 1..(Len(s) + Len(t)) : w[i] = IF i <= Len(s) THEN s[i] ELSE t[i - Len(s)]
  BY <1>1, ConcatProperties, LenProperties, Concatenation
<1> HIDE DEF w, S
<1>3. DOMAIN w = 1..(Len(s) + Len(t)) /\ DOMAIN s = 1..Len(s) /\ DOMAIN t = 1..Len(t)
  BY <1>2, IsSequence
<1>4. \A i \in DOMAIN s : i \in DOMAIN w /\ w[i] = s[i]
  BY <1>2, <1>3
<1>5. \A i \in DOMAIN t : Len(s) + i \in DOMAIN w /\ w[Len(s) + i] = t[i]
  <2> TAKE i \in DOMAIN t
  <2>1. Len(s) + i \in 1..(Len(s) + Len(t)) /\ ~(Len(s) + i <= Len(s)) /\ (Len(s) + i) - Len(s) = i
    BY <1>2, <1>3
  <2> QED
    BY <1>2, <1>3, <2>1
<1>6. \A i \in DOMAIN w : i \in DOMAIN s \/ (i - Len(s) \in DOMAIN t /\ i = Len(s) + (i - Len(s)))
  BY <1>2, <1>3
<1>7. All(s, N) /\ All(t, N) => All(w, N)
  BY <1>4, <1>5, <1>6 DEF All
<1>8. JustOne(s, O, N) /\ All(t, N) => JustOne(w, O, N)
  <2> SUFFICES ASSUME NEW n \in DOMAIN s, s[n] \in O, \A m \in DOMAIN s \ {n} : s[m] \in N, All(t, N)
               PROVE  JustOne(w, O, N)
    BY DEF JustOne
  <2>1. \A m \in DOMAIN w \ {n} : w[m] \in N
    BY <1>4, <1>5, <1>6 DEF All
  <2> QED
    BY <1>4, <2>1 DEF JustOne
<1>9. All(s, N) /\ JustOne(t, O, N) => JustOne(w, O, N)
  <2> SUFFICES ASSUME NEW n \in DOMAIN t, t[n] \in O, \A m \in DOMAIN t \ {n} : t[m] \in N, All(s, N)
               PROVE  JustOne(w, O, N)
    BY DEF JustOne
  <2>1. \A m \in DOMAIN w \ {Len(s) + n} : w[m] \in N
    BY <1>4, <1>5, <1>6 DEF All
  <2> QED
    BY <1>5, <2>1 DEF JustOne
<1> QED
  BY <1>7, <1>8, <1>9 DEF w

LEMMA AllFlattened ==
  ASSUME NEW s, Sequences(s), NEW N, \A i \in DOMAIN s : All(s[i], N)
  PROVE  All(FlattenSeq(s), N)
<1>1. ToSet(FlattenSeq(s)) = UNION {ToSet(s[i]) : i \in DOMAIN s}
  BY Flattened
<1> HIDE DEF FlattenSeq
<1>2. ASSUME NEW k \in DOMAIN FlattenSeq(s) PROVE FlattenSeq(s)[k] \in N
  <2>1. FlattenSeq(s)[k] \in UNION {ToSet(s[i]) : i \in DOMAIN s}
    BY <1>1 DEF ToSet
  <2> QED
    BY <2>1 DEF ToSet, All
<1> QED
  BY <1>2 DEF All

LEMMA JustOneFlattened ==
  ASSUME NEW s, Sequences(s), NEW O, NEW N, NEW n \in DOMAIN s, JustOne(s[n], O, N), \A i \in DOMAIN s \ {n} : All(s[i], N)
  PROVE  JustOne(FlattenSeq(s), O, N)
<1>1. Len(s) \in Nat /\ DOMAIN s = 1..Len(s) /\ Len(s) # 0
  BY IsSequence DEF Sequences
<1> DEFINE f == CHOOSE f : f = [i \in 1..Len(s) |-> IF i = 1 THEN s[i] ELSE f[i - 1] \o s[i]]
<1>2. FlattenSeq(s) = f[Len(s)]
  BY <1>1, Zenon DEF FlattenSeq
<1>3. \E g : Flattens(g, s, Len(s))
  <2>1. Len(s) \in 0..Len(s)
    BY <1>1
  <2> QED
    BY <2>1, FlattenExists DEF Sequences
<1>4. Flattens(f, s, Len(s))
  BY <1>3, Zenon DEF Flattens
<1> HIDE DEF f
<1> DEFINE Good(k) == IF k < n THEN All(f[k], N) ELSE JustOne(f[k], O, N)
           Bad == {k \in 1..Len(s) : ~Good(k)}
<1>5. SUFFICES Bad = {}
  <2>1. Len(s) \in 1..Len(s) /\ ~(Len(s) < n)
    BY <1>1
  <2> QED
    BY <1>2, <1>5, <2>1
<1>6. SUFFICES ASSUME Bad # {} PROVE FALSE
  OBVIOUS
<1>7. PICK m \in Bad : \A k \in Bad : m <= k
  <2>1. Bad \subseteq Nat
    BY <1>1
  <2> HIDE DEF Bad
  <2> QED
    BY <1>6, <2>1, Least
<1>8. f[m] = IF m = 1 THEN s[m] ELSE f[m - 1] \o s[m]
  BY <1>4, <1>7 DEF Flattens
<1>9. Sequence(s[m]) /\ m \in DOMAIN s
  BY <1>1, <1>7 DEF Sequences
<1>10. CASE m = 1
  <2>1. CASE n = 1
    BY <1>1, <1>7, <1>8, <1>10, <2>1
  <2>2. CASE n # 1
    BY <1>1, <1>7, <1>8, <1>9, <1>10, <2>2
  <2> QED
    BY <2>1, <2>2
<1>11. CASE m # 1
  <2>1. m - 1 \in 1..Len(s) /\ ~(m <= m - 1)
    BY <1>1, <1>7, <1>11
  <2>2. Good(m - 1)
    <3>1. m - 1 \notin Bad
      BY <1>7, <2>1
    <3> QED
      BY <2>1, <3>1
  <2>3. f[m] = f[m - 1] \o s[m]
    BY <1>8, <1>11
  <2>4. Sequence(f[m - 1])
    BY <1>4, <2>1, FlattensAll
  <2>5. CASE m < n
    <3>1. m - 1 < n /\ m # n
      BY <1>1, <1>9, <2>5
    <3>2. All(f[m - 1], N) /\ All(s[m], N)
      BY <1>9, <2>2, <3>1
    <3>3. All(f[m], N)
      BY <1>9, <2>3, <2>4, <3>2, JustOneJoined
    <3> QED
      BY <1>7, <2>5, <3>3
  <2>6. CASE m = n
    <3>1. m - 1 < n
      BY <1>1, <1>9, <2>6
    <3>2. All(f[m - 1], N) /\ JustOne(s[m], O, N)
      BY <2>2, <2>6, <3>1
    <3>3. JustOne(f[m], O, N)
      BY <1>9, <2>3, <2>4, <3>2, JustOneJoined
    <3> QED
      BY <1>1, <1>7, <2>6, <3>3
  <2>7. CASE m > n
    <3>1. ~(m - 1 < n) /\ m # n /\ ~(m < n)
      BY <1>1, <1>9, <2>7
    <3>2. JustOne(f[m - 1], O, N) /\ All(s[m], N)
      BY <1>9, <2>2, <3>1
    <3>3. JustOne(f[m], O, N)
      BY <1>9, <2>3, <2>4, <3>2, JustOneJoined
    <3> QED
      BY <1>7, <3>1, <3>3
  <2> QED
    BY <1>1, <1>9, <2>5, <2>6, <2>7
<1> QED
  BY <1>10, <1>11

\* OfTypes has every position of its types once.
LEMMA PositionsOnce ==
  ASSUME NEW media \in Seq(MediaTypes), NEW types, NEW x
  PROVE  /\ x \in DOMAIN media /\ media[x] \in types => Once(OfTypes(media, types), x)
         /\ ~(x \in DOMAIN media /\ media[x] \in types) => Never(OfTypes(media, types), x)
         /\ \A k \in DOMAIN OfTypes(media, types) : OfTypes(media, types)[k] \in {i \in DOMAIN media : media[i] \in types}
<1> DEFINE hits == {i \in DOMAIN media : media[i] \in types}
           n == Cardinality(hits)
           upto(i) == {j \in hits : j <= i}
           f == [i \in hits |-> Cardinality(upto(i))]
           p == OfTypes(media, types)
<1>1. hits \subseteq 1..Len(media) /\ Len(media) \in Nat /\ IsFiniteSet(hits)
  <2>1. hits \subseteq 1..Len(media) /\ IsFiniteSet(1..Len(media)) /\ Len(media) \in Nat
    BY FS_Interval
  <2> QED
    BY <2>1, FS_Subset
<1>2. n \in Nat
  BY <1>1, FS_CardinalityType
<1>3. p = [k \in 1..n |-> CHOOSE i \in hits : Cardinality({j \in hits : j <= i}) = k]
  BY DEF OfTypes
<1> HIDE DEF hits, p
<1>0. \A i \in hits : i \in Int
  BY <1>1
<1>4. \A i \in hits : IsFiniteSet(upto(i)) /\ Cardinality(upto(i)) \in Nat /\ Cardinality(upto(i)) <= n
  <2> TAKE i \in hits
  <2>1. upto(i) \in SUBSET hits
    OBVIOUS
  <2> HIDE DEF upto
  <2> QED
    BY <1>1, <2>1, FS_Subset, FS_CardinalityType
<1>5. \A i \in hits : Cardinality(upto(i)) # 0
  <2> TAKE i \in hits
  <2>1. i \in upto(i)
    BY <1>0
  <2> QED
    BY <1>4, <2>1, FS_EmptySet
<1>6. ASSUME NEW i \in hits, NEW j \in hits, i < j PROVE Cardinality(upto(i)) # Cardinality(upto(j))
  <2>1. upto(i) \in SUBSET upto(j) /\ j \in upto(j) /\ j \notin upto(i)
    BY <1>0, <1>6
  <2> HIDE DEF upto
  <2> QED
    BY <1>4, <2>1, FS_Subset
<1>7. f \in Injection(hits, 1..n)
  <2>1. f \in [hits -> 1..n]
    <3> HIDE DEF upto, n
    <3>1. \A i \in hits : Cardinality(upto(i)) \in 1..n
      BY <1>2, <1>4, <1>5
    <3> QED
      BY <3>1
  <2>2. \A i, j \in hits : f[i] = f[j] => i = j
    <3>1. \A i, j \in hits : i < j \/ j < i \/ i = j
      BY <1>0
    <3> HIDE DEF upto
    <3> QED
      BY <1>6, <3>1
  <2>3. DOMAIN f = hits
    BY <2>1
  <2> HIDE DEF f
  <2> QED
    BY <2>1, <2>2, <2>3 DEF Injection, IsInjective
<1>8. f \in Surjection(hits, 1..n)
  <2>1. IsFiniteSet(1..n) /\ Cardinality(1..n) = n
    BY <1>2, FS_Interval
  <2> HIDE DEF f
  <2> QED
    BY <1>7, <2>1, FS_Injection
<1>9. \A i \in hits : f[i] = Cardinality({j \in hits : j <= i}) /\ f[i] \in 1..n
  <2>1. \A i \in hits : f[i] = Cardinality({j \in hits : j <= i})
    OBVIOUS
  <2>2. f \in [hits -> 1..n]
    BY <1>7 DEF Injection
  <2> HIDE DEF f, n
  <2> QED
    BY <2>1, <2>2
<1>10. \A i, j \in hits : f[i] = f[j] => i = j
  <2>1. DOMAIN f = hits
    OBVIOUS
  <2> HIDE DEF f
  <2> QED
    BY <1>7, <2>1 DEF Injection, IsInjective
<1> HIDE DEF f, n
<1>11. \A k \in 1..n : p[k] \in hits /\ f[p[k]] = k
  <2> TAKE k \in 1..n
  <2>1. \E i \in hits : Cardinality({j \in hits : j <= i}) = k
    BY <1>8, <1>9 DEF Surjection
  <2>2. p[k] = CHOOSE i \in hits : Cardinality({j \in hits : j <= i}) = k
    BY <1>3
  <2>3. p[k] \in hits /\ Cardinality({j \in hits : j <= p[k]}) = k
    BY <2>1, <2>2
  <2> QED
    BY <1>9, <2>3
<1>12. DOMAIN p = 1..n
  BY <1>3
<1>13. x \in hits => Once(p, x)
  <2> SUFFICES ASSUME x \in hits PROVE Once(p, x)
    OBVIOUS
  <2>1. f[x] \in 1..n /\ p[f[x]] \in hits /\ f[p[f[x]]] = f[x]
    BY <1>9, <1>11
  <2>2. p[f[x]] = x
    BY <1>10, <2>1
  <2>3. \A k \in DOMAIN p : p[k] = x => k = f[x]
    BY <1>11, <1>12
  <2> QED
    BY <1>12, <2>1, <2>2, <2>3 DEF Once
<1>14. x \notin hits => Never(p, x)
  BY <1>11, <1>12 DEF Never
<1> QED
  BY <1>11, <1>12, <1>13, <1>14 DEF hits, p

\* Chunks has in one chunk what there is once.
LEMMA InChunk ==
  ASSUME NEW size \in Nat \ {0}, NEW i \in Nat \ {0}, NEW k \in Nat
  PROVE  (k - 1) * size + 1 <= i /\ i <= k * size <=> k = (i - 1) \div size + 1
<1> DEFINE q == (i - 1) \div size
           r == (i - 1) % size
<1>1. i - 1 = size * q + r /\ q \in Nat /\ r \in 0..(size - 1)
  OBVIOUS
<1> HIDE DEF q, r
<1>2. (k - 1) * size = size * k - size /\ k * size = size * k
  OBVIOUS
<1>3. k <= q => size * k <= size * q
  <2> SUFFICES ASSUME k <= q PROVE size * k <= size * q
    OBVIOUS
  <2>1. PICK d \in Nat : q = k + d
    <3>1. q - k \in Nat /\ q = k + (q - k)
      BY <1>1
    <3> QED
      BY <3>1
  <2>2. size * q = size * k + size * d /\ size * d \in Nat /\ size * k \in Nat
    BY <1>1, <2>1
  <2> QED
    BY <2>2
<1>4. k >= q + 2 => size * k >= size * q + 2 * size
  <2> SUFFICES ASSUME k >= q + 2 PROVE size * k >= size * q + 2 * size
    OBVIOUS
  <2>1. PICK d \in Nat : k = q + 2 + d
    <3>1. k - q - 2 \in Nat /\ k = q + 2 + (k - q - 2)
      BY <1>1
    <3> QED
      BY <3>1
  <2>2. size * k = size * q + 2 * size + size * d /\ size * d \in Nat /\ size * q \in Nat
    BY <1>1, <2>1
  <2> QED
    BY <2>2
<1>5. k = q + 1 => size * k = size * q + size
  BY <1>1
<1>6. size * k \in Int /\ size * q \in Int
  BY <1>1
<1> DEFINE a == size * k
           b == size * q
<1> HIDE DEF a, b
<1>7. a \in Int /\ b \in Int /\ i = b + r + 1 /\ (k <= q => a <= b) /\ (k >= q + 2 => a >= b + 2 * size) /\ (k = q + 1 => a = b + size)
  BY <1>1, <1>3, <1>4, <1>5, <1>6 DEF a, b
<1>8. a - size + 1 <= i /\ i <= a <=> k = q + 1
  BY <1>1, <1>7
<1> QED
  BY <1>2, <1>8 DEF a, q

LEMMA ChunkBegins ==
  ASSUME NEW size \in Nat \ {0}, NEW l \in Nat, NEW k \in 1..((l + size - 1) \div size)
  PROVE  (k - 1) * size + 1 <= l
<1> DEFINE n == (l + size - 1) \div size
           r == (l + size - 1) % size
<1>1. l + size - 1 = size * n + r /\ n \in Nat /\ r \in 0..(size - 1)
  OBVIOUS
<1>2. k \in 1..n
  OBVIOUS
<1> HIDE DEF n, r
<1>3. PICK d \in Nat : n = k + d
  <2>1. n - k \in Nat /\ n = k + (n - k)
    BY <1>1, <1>2
  <2> QED
    BY <2>1
<1>4. size * n = size * k + size * d /\ size * d \in Nat /\ size * k \in Nat /\ (k - 1) * size = size * k - size
  BY <1>2, <1>3
<1> QED
  BY <1>1, <1>4

LEMMA ChunksOnce ==
  ASSUME NEW s, Sequence(s), NEW size \in Nat \ {0}, NEW x
  PROVE  /\ Once(s, x) => \E k \in DOMAIN Chunks(s, size) : /\ Once(Chunks(s, size)[k], x)
                                                           /\ \A l \in DOMAIN Chunks(s, size) \ {k} : Never(Chunks(s, size)[l], x)
         /\ Never(s, x) => \A k \in DOMAIN Chunks(s, size) : Never(Chunks(s, size)[k], x)
         /\ \A k \in DOMAIN Chunks(s, size) : /\ Sequence(Chunks(s, size)[k]) /\ Len(Chunks(s, size)[k]) \in 1..size
                                              /\ ToSet(Chunks(s, size)[k]) \subseteq ToSet(s)
<1> DEFINE n == (Len(s) + size - 1) \div size
           c == Chunks(s, size)
           from(k) == (k - 1) * size + 1
           to(k) == Min({k * size, Len(s)})
<1>1. Len(s) \in Nat /\ DOMAIN s = 1..Len(s) /\ n \in Nat
  BY IsSequence
<1>2. DOMAIN c = 1..n /\ \A k \in 1..n : c[k] = SubSeq(s, from(k), to(k))
  BY DEF Chunks
<1> HIDE DEF n, c
<1>3. ASSUME NEW k \in 1..n
      PROVE  /\ from(k) \in Nat \ {0} /\ to(k) \in Int /\ to(k) <= k * size /\ to(k) <= Len(s) /\ from(k) <= to(k)
             /\ \A i \in Int : i <= k * size /\ i <= Len(s) => i <= to(k)
             /\ k * size = (k - 1) * size + size
  <2>1. k * size \in Int /\ (k - 1) * size \in Nat /\ k * size = (k - 1) * size + size
    BY <1>1
  <2> DEFINE a == k * size
  <2> HIDE DEF a
  <2>2. a \in Int /\ Min({a, Len(s)}) \in {a, Len(s)} /\ Min({a, Len(s)}) <= a /\ Min({a, Len(s)}) <= Len(s)
    <3>1. a \in Int /\ Len(s) \in Int
      BY <1>1, <2>1 DEF a
    <3>2. \E m \in {a, Len(s)} : \A y \in {a, Len(s)} : m <= y
      BY <3>1
    <3> QED
      BY <3>1, <3>2 DEF Min
  <2>3. to(k) = Min({a, Len(s)})
    BY DEF a
  <2>4. to(k) \in Int /\ to(k) <= a /\ to(k) <= Len(s) /\ \A i \in Int : i <= a /\ i <= Len(s) => i <= to(k)
    <3> DEFINE l == Len(s)
               e == Min({a, l})
    <3>1. l \in Int /\ to(k) = e /\ e \in {a, l} /\ e <= a /\ e <= l
      BY <1>1, <2>2, <2>3
    <3> HIDE DEF l, e, to
    <3> QED
      BY <2>2, <3>1 DEF l
  <2> HIDE DEF to
  <2>5. from(k) <= Len(s)
    <3>1. k \in 1..((Len(s) + size - 1) \div size)
      BY DEF n
    <3> QED
      BY <1>1, <3>1, ChunkBegins
  <2>6. from(k) = (k - 1) * size + 1
    OBVIOUS
  <2> HIDE DEF from
  <2>7. from(k) <= a /\ from(k) \in Nat \ {0}
    BY <2>1, <2>6 DEF a
  <2> QED
    BY <1>1, <2>1, <2>4, <2>5, <2>7 DEF a
<1> HIDE DEF from, to
<1>4. ASSUME NEW k \in 1..n
      PROVE  /\ Sequence(c[k]) /\ DOMAIN c[k] = 1..Len(c[k])
             /\ Len(c[k]) = IF from(k) <= to(k) THEN to(k) - from(k) + 1 ELSE 0
             /\ \A j \in 1..Len(c[k]) : c[k][j] = s[from(k) + j - 1] /\ from(k) + j - 1 \in from(k)..to(k)
  <2>1. c[k] = SubSeq(s, from(k), to(k)) /\ from(k) \in Int /\ to(k) \in Int
    BY <1>2, <1>3
  <2> DEFINE a == from(k)
             b == to(k)
  <2> HIDE DEF a, b
  <2>2. a \in Int /\ b \in Int /\ c[k] = SubSeq(s, a, b)
    BY <2>1 DEF a, b
  <2>3. /\ SubSeq(s, a, b) \in Seq({s[i] : i \in a..b}) /\ Len(SubSeq(s, a, b)) = (IF a <= b THEN b - a + 1 ELSE 0)
        /\ \A i \in 1..(b - a + 1) : SubSeq(s, a, b)[i] = s[a + i - 1]
    BY <2>2, SubSeqProperties
  <2>4. Sequence(c[k]) /\ DOMAIN c[k] = 1..Len(c[k])
    <3>1. c[k] \in Seq({s[i] : i \in a..b})
      BY <2>2, <2>3
    <3>2. Sequence(c[k])
      BY <3>1 DEF Sequence
    <3> QED
      BY <3>2, IsSequence
  <2>5. \A j \in 1..Len(c[k]) : j \in 1..(b - a + 1) /\ a + j - 1 \in a..b
    BY <2>2, <2>3
  <2> QED
    BY <2>2, <2>3, <2>4, <2>5 DEF a, b
<1>5. ASSUME NEW k \in 1..n PROVE Len(c[k]) \in 1..size /\ ToSet(c[k]) \subseteq ToSet(s)
  <2> DEFINE a == from(k)
             b == to(k)
             w == k * size
             v == (k - 1) * size
  <2>1. /\ a \in Nat \ {0} /\ b \in Int /\ b <= w /\ b <= Len(s) /\ a <= b /\ w = v + size /\ a = v + 1 /\ v \in Int /\ w \in Int
        /\ DOMAIN c[k] = 1..Len(c[k]) /\ Len(c[k]) = (IF a <= b THEN b - a + 1 ELSE 0)
        /\ \A j \in 1..Len(c[k]) : c[k][j] = s[a + j - 1] /\ a + j - 1 \in a..b
    BY <1>3, <1>4 DEF from
  <2> HIDE DEF a, b, w, v
  <2>2. Len(c[k]) \in 1..size
    BY <2>1
  <2>3. \A j \in 1..Len(c[k]) : c[k][j] \in ToSet(s)
    <3>1. \A l \in a..b : l \in DOMAIN s
      BY <1>1, <2>1
    <3> QED
      BY <2>1, <3>1 DEF ToSet
  <2> QED
    BY <2>1, <2>2, <2>3 DEF ToSet
\* The chunk of the i-th element.
<1>6. ASSUME NEW i \in DOMAIN s, NEW k \in 1..n
      PROVE  /\ (\E j \in DOMAIN c[k] : from(k) + j - 1 = i) => k = (i - 1) \div size + 1
             /\ k = (i - 1) \div size + 1 => i - from(k) + 1 \in DOMAIN c[k] /\ c[k][i - from(k) + 1] = s[i]
  <2> DEFINE a == from(k)
             b == to(k)
             w == k * size
  <2>1. (a <= i /\ i <= w) <=> k = (i - 1) \div size + 1
    <3>1. i \in Nat \ {0} /\ k \in Nat
      BY <1>1
    <3> QED
      BY <3>1, InChunk DEF from
  <2>0. i \in Int /\ i <= Len(s) /\ w \in Int
    BY <1>1
  <2>2. /\ a \in Nat \ {0} /\ b \in Int /\ b <= w /\ (i <= w => i <= b)
        /\ DOMAIN c[k] = 1..Len(c[k]) /\ Len(c[k]) = (IF a <= b THEN b - a + 1 ELSE 0)
        /\ \A j \in 1..Len(c[k]) : c[k][j] = s[a + j - 1] /\ a + j - 1 \in a..b
    BY <1>3, <1>4, <2>0
  <2> DEFINE z == (i - 1) \div size + 1
  <2> HIDE DEF a, b, w, z
  <2>3. (a <= i /\ i <= w) <=> k = z
    BY <2>1 DEF z
  <2>4. \A j \in DOMAIN c[k] : a + j - 1 = i => k = z
    BY <2>0, <2>2, <2>3
  <2>5. k = z => i - a + 1 \in DOMAIN c[k] /\ c[k][i - a + 1] = s[i]
    <3> SUFFICES ASSUME k = z PROVE i - a + 1 \in DOMAIN c[k] /\ c[k][i - a + 1] = s[i]
      OBVIOUS
    <3>1. i - a + 1 \in 1..Len(c[k]) /\ a + (i - a + 1) - 1 = i
      BY <2>0, <2>2, <2>3
    <3> QED
      BY <2>2, <3>1
  <2> QED
    BY <2>4, <2>5 DEF z, a
<1>7. ASSUME NEW k \in 1..n, NEW j \in DOMAIN c[k] PROVE from(k) + j - 1 \in DOMAIN s /\ c[k][j] = s[from(k) + j - 1] /\ j \in Int
  <2> DEFINE a == from(k)
             b == to(k)
  <2>1. /\ a \in Nat \ {0} /\ b \in Int /\ b <= Len(s) /\ DOMAIN c[k] = 1..Len(c[k])
        /\ \A l \in 1..Len(c[k]) : c[k][l] = s[a + l - 1] /\ a + l - 1 \in a..b
    BY <1>3, <1>4
  <2> HIDE DEF a, b
  <2>2. a + j - 1 \in DOMAIN s /\ c[k][j] = s[a + j - 1] /\ j \in Int
    BY <1>1, <2>1
  <2> QED
    BY <2>2 DEF a
<1>8. \A i \in DOMAIN s : (i - 1) \div size + 1 \in 1..n
  <2> TAKE i \in DOMAIN s
  <2> DEFINE l == Len(s)
  <2>1. i \in 1..l /\ l \in Nat
    BY <1>1
  <2> HIDE DEF l
  <2>2. (i - 1) \div size + 1 \in 1..((l + size - 1) \div size)
    BY <2>1
  <2> QED
    BY <2>2 DEF n, l
<1>9. Never(s, x) => \A k \in 1..n : Never(c[k], x)
  <2> QED
    BY <1>7 DEF Never
<1>10. Once(s, x) => \E k \in 1..n : Once(c[k], x) /\ \A l \in (1..n) \ {k} : Never(c[l], x)
  <2> SUFFICES ASSUME NEW i \in DOMAIN s, s[i] = x, \A j \in DOMAIN s : s[j] = x => j = i
               PROVE  \E k \in 1..n : Once(c[k], x) /\ \A l \in (1..n) \ {k} : Never(c[l], x)
    BY DEF Once
  <2> DEFINE k == (i - 1) \div size + 1
  <2>1. k \in 1..n
    BY <1>8
  <2>2. \A l \in 1..n : \A j \in DOMAIN c[l] : c[l][j] = x => from(l) + j - 1 = i /\ l = k /\ j \in Int
    BY <1>6, <1>7
  <2>3. i - from(k) + 1 \in DOMAIN c[k] /\ c[k][i - from(k) + 1] = x
    BY <1>6, <2>1
  <2>4. from(k) \in Int /\ i \in Int
    BY <1>1, <1>3, <2>1
  <2> HIDE DEF k
  <2>5. \A j \in DOMAIN c[k] : c[k][j] = x => j = i - from(k) + 1
    BY <2>1, <2>2, <2>4
  <2>6. Once(c[k], x)
    BY <2>3, <2>5 DEF Once
  <2>7. \A l \in (1..n) \ {k} : Never(c[l], x)
    BY <2>2 DEF Never
  <2> QED
    BY <2>1, <2>6, <2>7
<1> QED
  BY <1>2, <1>4, <1>5, <1>9, <1>10 DEF c

-----------------------------------------------------------------------------
(* Groups. *)

OnceIn(media, x) == {s \in Seq(DOMAIN media) : Once(s, x)}
NeverIn(media, x) == {s \in Seq(DOMAIN media) : Never(s, x)}
OneKind(media, s) == \E kind \in Kinds : \A j \in DOMAIN s : media[s[j]] \in kind
Fits(media) == {s \in Seq(DOMAIN media) : Len(s) >= 1 /\ (Len(s) > 1 => Len(s) <= AlbumMax /\ OneKind(media, s))}

LEMMA ChunksFit ==
  ASSUME NEW media \in Seq(MediaTypes), NEW types, NEW size \in Nat \ {0}, size = 1 \/ (size = AlbumMax /\ types \in Kinds),
         NEW x \in DOMAIN media, NEW c, c = Chunks(OfTypes(media, types), size)
  PROVE  /\ Sequence(c) /\ All(c, Fits(media))
         /\ media[x] \in types => JustOne(c, OnceIn(media, x), NeverIn(media, x))
         /\ media[x] \notin types => All(c, NeverIn(media, x))
<1> DEFINE p == OfTypes(media, types)
           hits == {i \in DOMAIN media : media[i] \in types}
<1>1. /\ media[x] \in types => Once(p, x)
      /\ media[x] \notin types => Never(p, x)
      /\ \A k \in DOMAIN p : p[k] \in hits
  BY PositionsOnce
<1>2. Sequence(p)
  BY Positions
<1> HIDE DEF p
<1>3. c = Chunks(p, size)
  BY DEF p
<1>4. Sequence(c)
  BY <1>2, <1>3, ChunksOf DEF Sequences
<1>5. /\ Once(p, x) => \E k \in DOMAIN c : Once(c[k], x) /\ \A l \in DOMAIN c \ {k} : Never(c[l], x)
      /\ Never(p, x) => \A k \in DOMAIN c : Never(c[k], x)
      /\ \A k \in DOMAIN c : Sequence(c[k]) /\ Len(c[k]) \in 1..size /\ ToSet(c[k]) \subseteq ToSet(p)
  BY <1>2, <1>3, ChunksOnce
<1>6. ASSUME NEW k \in DOMAIN c PROVE c[k] \in Seq(DOMAIN media) /\ \A j \in DOMAIN c[k] : media[c[k][j]] \in types
  <2>1. ToSet(p) \subseteq hits
    BY <1>1 DEF ToSet
  <2>2. \A j \in DOMAIN c[k] : c[k][j] \in hits
    BY <1>5, <2>1 DEF ToSet
  <2>3. c[k] \in Seq(DOMAIN media)
    BY <1>5, <2>2, InSeq
  <2> QED
    BY <2>2, <2>3
<1>7. ASSUME NEW k \in DOMAIN c PROVE c[k] \in Fits(media)
  <2> DEFINE n == Len(c[k])
  <2>1. n \in 1..size
    BY <1>5
  <2>2. n > 1 => size = AlbumMax /\ types \in Kinds
    <3> HIDE DEF n
    <3> QED
      BY <2>1
  <2>3. n > 1 => OneKind(media, c[k])
    BY <1>6, <2>2 DEF OneKind
  <2> QED
    BY <1>6, <2>1, <2>2, <2>3 DEF Fits
<1>8. media[x] \in types => JustOne(c, OnceIn(media, x), NeverIn(media, x))
  BY <1>1, <1>5, <1>6 DEF JustOne, OnceIn, NeverIn
<1>9. media[x] \notin types => All(c, NeverIn(media, x))
  BY <1>1, <1>5, <1>6 DEF All, NeverIn
<1> QED
  BY <1>4, <1>7, <1>8, <1>9 DEF All

LEMMA GroupsFit ==
  ASSUME NEW media \in Seq(MediaTypes), NEW x \in DOMAIN media
  PROVE  /\ Sequence(Groups(media)) /\ All(Groups(media), Fits(media))
         /\ JustOne(Groups(media), OnceIn(media, x), NeverIn(media, x))
<1> DEFINE a == Chunks(OfTypes(media, {"photo", "video"}), AlbumMax)
           b == Chunks(OfTypes(media, {"document"}), AlbumMax)
           c == Chunks(OfTypes(media, {"audio"}), AlbumMax)
           d == Chunks(OfTypes(media, {"animation", "voice", "video_note"}), 1)
           O == OnceIn(media, x)
           N == NeverIn(media, x)
           F == Fits(media)
<1>1. AlbumMax \in Nat \ {0} /\ 1 \in Nat \ {0} /\ {"photo", "video"} \in Kinds /\ {"document"} \in Kinds /\ {"audio"} \in Kinds
  BY PostAssumption DEF Kinds
<1>2. Sequence(a) /\ All(a, F) /\ (media[x] \in {"photo", "video"} => JustOne(a, O, N)) /\ (media[x] \notin {"photo", "video"} => All(a, N))
  BY <1>1, ChunksFit
<1>3. Sequence(b) /\ All(b, F) /\ (media[x] \in {"document"} => JustOne(b, O, N)) /\ (media[x] \notin {"document"} => All(b, N))
  BY <1>1, ChunksFit
<1>4. Sequence(c) /\ All(c, F) /\ (media[x] \in {"audio"} => JustOne(c, O, N)) /\ (media[x] \notin {"audio"} => All(c, N))
  BY <1>1, ChunksFit
<1>5. /\ Sequence(d) /\ All(d, F)
      /\ media[x] \in {"animation", "voice", "video_note"} => JustOne(d, O, N)
      /\ media[x] \notin {"animation", "voice", "video_note"} => All(d, N)
  BY <1>1, ChunksFit
<1>6. media[x] \in MediaTypes
  BY ElementOfSeq, LenProperties
<1>7. Groups(media) = a \o b \o c \o d
  BY DEF Groups
<1> HIDE DEF a, b, c, d, O, N, F
<1> DEFINE ab == a \o b
           abc == ab \o c
<1>8. Sequence(ab) /\ Sequence(abc) /\ Sequence(abc \o d)
  <2>1. Sequence(ab)
    BY <1>2, <1>3, Concatenation
  <2> HIDE DEF ab
  <2>2. Sequence(abc)
    BY <1>4, <2>1, Concatenation
  <2> HIDE DEF abc
  <2>3. Sequence(abc \o d)
    BY <1>5, <2>2, Concatenation
  <2> QED
    BY <2>1, <2>2, <2>3
<1>9. All(abc \o d, F)
  <2>1. All(ab, F)
    BY <1>2, <1>3, JustOneJoined
  <2> HIDE DEF ab
  <2>2. All(abc, F)
    BY <1>4, <1>8, <2>1, JustOneJoined
  <2> HIDE DEF abc
  <2> QED
    BY <1>5, <1>8, <2>2, JustOneJoined
\* x is in one of the four.
<1>10. \/ JustOne(a, O, N) /\ All(b, N) /\ All(c, N) /\ All(d, N)
       \/ All(a, N) /\ JustOne(b, O, N) /\ All(c, N) /\ All(d, N)
       \/ All(a, N) /\ All(b, N) /\ JustOne(c, O, N) /\ All(d, N)
       \/ All(a, N) /\ All(b, N) /\ All(c, N) /\ JustOne(d, O, N)
  BY <1>2, <1>3, <1>4, <1>5, <1>6 DEF MediaTypes
<1>11. JustOne(abc \o d, O, N)
  <2>1. /\ JustOne(a, O, N) /\ All(b, N) => JustOne(ab, O, N)
        /\ All(a, N) /\ JustOne(b, O, N) => JustOne(ab, O, N)
        /\ All(a, N) /\ All(b, N) => All(ab, N)
    BY <1>2, <1>3, JustOneJoined
  <2> HIDE DEF ab
  <2>2. /\ JustOne(ab, O, N) /\ All(c, N) => JustOne(abc, O, N)
        /\ All(ab, N) /\ JustOne(c, O, N) => JustOne(abc, O, N)
        /\ All(ab, N) /\ All(c, N) => All(abc, N)
    BY <1>4, <1>8, JustOneJoined
  <2> HIDE DEF abc
  <2>3. /\ JustOne(abc, O, N) /\ All(d, N) => JustOne(abc \o d, O, N)
        /\ All(abc, N) /\ JustOne(d, O, N) => JustOne(abc \o d, O, N)
    BY <1>5, <1>8, JustOneJoined
  <2> QED
    BY <1>10, <2>1, <2>2, <2>3
<1> QED
  BY <1>7, <1>8, <1>9, <1>11 DEF O, N, F

-----------------------------------------------------------------------------
(* What the calls of a post say. *)

Some(s, O) == \E n \in DOMAIN s : s[n] \in O

LEMMA SomeJoined ==
  ASSUME NEW s, Sequence(s), NEW t, Sequence(t), NEW O
  PROVE  (Some(s, O) \/ Some(t, O)) => Some(s \o t, O)
<1>1. ToSet(s \o t) = ToSet(s) \cup ToSet(t)
  BY Concatenation
<1>2. \A w : Some(w, O) <=> \E x \in ToSet(w) : x \in O
  BY DEF Some, ToSet
<1> QED
  BY <1>1, <1>2

LEMMA SomeFlattened ==
  ASSUME NEW s, Sequences(s), NEW O, NEW n \in DOMAIN s, Some(s[n], O)
  PROVE  Some(FlattenSeq(s), O)
<1>1. ToSet(FlattenSeq(s)) = UNION {ToSet(s[i]) : i \in DOMAIN s}
  BY Flattened
<1>2. \A w : Some(w, O) <=> \E x \in ToSet(w) : x \in O
  BY DEF Some, ToSet
<1>3. PICK x \in ToSet(s[n]) : x \in O
  BY <1>2
<1>4. x \in ToSet(FlattenSeq(s))
  BY <1>1, <1>3
<1> HIDE DEF FlattenSeq
<1> QED
  BY <1>2, <1>3, <1>4

LEMMA Alone ==
  ASSUME NEW x
  PROVE  /\ Sequence(<<x>>)
         /\ \A O, N : x \in O => JustOne(<<x>>, O, N) /\ Some(<<x>>, O)
         /\ \A N : x \in N => All(<<x>>, N)
<1>1. DOMAIN <<x>> = {1} /\ <<x>>[1] = x
  OBVIOUS
<1> QED
  BY <1>1, Singleton DEF JustOne, Some, All

\* Messages and calls with texts of T.
Flags == BOOLEAN
Messages(T) == [item : Int, text : T, keys : Flags]
Asks(T) == [messages : Seq(Messages(T)), held : Flags]
Has(x, T) ==
  {q \in Asks(T) : \E k \in DOMAIN q.messages : /\ q.messages[k].item = x
                                                /\ \A l \in DOMAIN q.messages : q.messages[l].item = x => l = k}
Lacks(x, T) == {q \in Asks(T) : \A k \in DOMAIN q.messages : q.messages[k].item # x}
Allowable(media, T) ==
  {q \in Asks(T) :
     Len(q.messages) > 1 =>
        /\ Len(q.messages) <= AlbumMax
        /\ \E kind \in Kinds : \A j \in DOMAIN q.messages : media[q.messages[j].item] \in kind}
Keyed(T) == {q \in Asks(T) : \E k \in DOMAIN q.messages : q.messages[k].keys}
Keyless(T) == {q \in Asks(T) : \A k \in DOMAIN q.messages : ~q.messages[k].keys}
Saying(t, T) == {q \in Asks(T) : \E k \in DOMAIN q.messages : q.messages[k].text = t}
\* A text of its own says t.
Speaking(t, T) == {q \in Asks(T) : \A k \in DOMAIN q.messages : q.messages[k].item = TextItem => q.messages[k].text = t}

LEMMA Speechless ==
  ASSUME NEW T, NEW t
  PROVE  Lacks(TextItem, T) \subseteq Speaking(t, T)
BY DEF Lacks, Speaking

LEMMA OneMessage ==
  ASSUME NEW T, NEW item \in Int, NEW text \in T, NEW keys \in Flags, NEW held \in Flags, NEW media
  PROVE  \A q : q = Request(<<Message(item, text, keys)>>, held) =>
           /\ q \in Asks(T) /\ q \in Allowable(media, T) /\ q \in Has(item, T) /\ (\A x : x # item => q \in Lacks(x, T))
           /\ q \in Saying(text, T) /\ (keys => q \in Keyed(T)) /\ (~keys => q \in Keyless(T)) /\ q \in Speaking(text, T)
<1> DEFINE m == Message(item, text, keys)
           ms == <<m>>
<1> TAKE q
<1>0. HAVE q = Request(<<Message(item, text, keys)>>, held)
<1>1. m \in Messages(T) /\ m.item = item /\ m.text = text /\ m.keys = keys
  BY DEF Message, Messages
<1>2. q.messages = ms /\ q = [messages |-> ms, held |-> held]
  BY <1>0 DEF Request
<1> HIDE DEF m
<1>3. ms \in Seq(Messages(T)) /\ DOMAIN ms = {1} /\ ms[1] = m /\ Len(ms) = 1
  BY <1>1
<1> HIDE DEF ms
<1>4. q \in Asks(T)
  BY <1>2, <1>3 DEF Asks
<1>5. q \in Allowable(media, T)
  BY <1>2, <1>3, <1>4 DEF Allowable
<1>6. q \in Has(item, T) /\ (\A x : x # item => q \in Lacks(x, T))
  BY <1>1, <1>2, <1>3, <1>4 DEF Has, Lacks
<1>7. q \in Saying(text, T) /\ (keys => q \in Keyed(T)) /\ (~keys => q \in Keyless(T)) /\ q \in Speaking(text, T)
  BY <1>1, <1>2, <1>3, <1>4 DEF Saying, Keyed, Keyless, Speaking
<1> QED
  BY <1>4, <1>5, <1>6, <1>7

LEMMA AnAlbum ==
  ASSUME NEW media \in Seq(MediaTypes), NEW T, NEW caption \in T, <<>> \in T, NEW group \in Fits(media), NEW held \in Flags,
         Len(group) # 1
  PROVE  \A q : q = Request([k \in DOMAIN group |-> Message(group[k], IF k = 1 THEN caption ELSE <<>>, FALSE)], held) =>
           /\ q \in Asks(T) /\ q \in Allowable(media, T) /\ q \in Lacks(PlaceItem, T) /\ q \in Keyless(T) /\ q \in Saying(caption, T)
           /\ q \in Lacks(TextItem, T)
           /\ \A x : (Once(group, x) => q \in Has(x, T)) /\ (Never(group, x) => q \in Lacks(x, T))
<1> DEFINE text(k) == IF k = 1 THEN caption ELSE <<>>
           ms == [k \in DOMAIN group |-> Message(group[k], text(k), FALSE)]
           n == Len(group)
<1> TAKE q
<1>0. HAVE q = Request([k \in DOMAIN group |-> Message(group[k], IF k = 1 THEN caption ELSE <<>>, FALSE)], held)
<1>1. /\ group \in Seq(DOMAIN media) /\ n >= 1 /\ n <= AlbumMax /\ OneKind(media, group)
      /\ DOMAIN group = 1..n /\ n \in Nat /\ DOMAIN media = 1..Len(media) /\ Len(media) \in Nat
  <2>1. group \in Seq(DOMAIN media) /\ n >= 1 /\ (n > 1 => n <= AlbumMax /\ OneKind(media, group))
    BY DEF Fits
  <2>2. DOMAIN group = 1..n /\ n \in Nat
    BY <2>1, LenProperties
  <2> QED
    BY <2>1, <2>2
<1>2. \A k \in 1..n : group[k] \in Nat \ {0}
  <2>1. \A k \in 1..n : group[k] \in DOMAIN media
    BY <1>1, ElementOfSeq
  <2> QED
    BY <1>1, <2>1
<1>3. q.messages = ms /\ q = [messages |-> ms, held |-> held]
  BY <1>0 DEF Request
<1> HIDE DEF n
<1>4. \A k \in 1..n : /\ ms[k] \in Messages(T) /\ ms[k].item = group[k] /\ ~ms[k].keys
                      /\ ms[k].text = text(k)
  <2> TAKE k \in 1..n
  <2>1. ms[k] = Message(group[k], text(k), FALSE)
    BY <1>1
  <2>2. group[k] \in Int /\ text(k) \in T
    BY <1>2
  <2> HIDE DEF ms, text
  <2> QED
    BY <2>1, <2>2 DEF Message, Messages, Flags
<1>5. ms \in Seq(Messages(T)) /\ DOMAIN ms = 1..n /\ Len(ms) = n
  <2>1. ms = [k \in 1..n |-> ms[k]]
    BY <1>1
  <2> HIDE DEF ms
  <2>2. Sequence(ms) /\ Len(ms) = n
    BY <1>1, <2>1, Enumerated
  <2>3. DOMAIN ms = 1..n
    BY <2>2, IsSequence
  <2> QED
    BY <1>4, <2>2, <2>3, InSeq
<1> HIDE DEF ms
<1>6. q \in Asks(T)
  BY <1>3, <1>5 DEF Asks
<1>7. q \in Allowable(media, T)
  <2>1. PICK kind \in Kinds : \A j \in DOMAIN group : media[group[j]] \in kind
    BY <1>1 DEF OneKind
  <2>2. \A j \in DOMAIN ms : media[ms[j].item] \in kind
    BY <1>1, <1>4, <1>5, <2>1
  <2> QED
    BY <1>1, <1>3, <1>5, <1>6, <2>2 DEF Allowable
<1>8. q \in Lacks(PlaceItem, T) /\ q \in Lacks(TextItem, T)
  <2>1. PlaceItem \notin Nat /\ TextItem \notin Nat \ {0}
    BY DEF PlaceItem, TextItem
  <2>2. \A k \in DOMAIN ms : ms[k].item # PlaceItem /\ ms[k].item # TextItem
    BY <1>2, <1>4, <1>5, <2>1
  <2> QED
    BY <1>3, <1>6, <2>2 DEF Lacks
<1>9. q \in Keyless(T)
  BY <1>3, <1>4, <1>5, <1>6 DEF Keyless
<1>10. q \in Saying(caption, T)
  <2>1. 1 \in 1..n
    BY <1>1
  <2>2. ms[1].text = caption
    BY <1>4, <2>1
  <2> QED
    BY <1>3, <1>5, <1>6, <2>1, <2>2 DEF Saying
<1>11. \A x : (Once(group, x) => q \in Has(x, T)) /\ (Never(group, x) => q \in Lacks(x, T))
  <2> TAKE x
  <2>1. \A k \in DOMAIN ms : ms[k].item = group[k]
    BY <1>4, <1>5
  <2>2. q.messages = ms /\ DOMAIN ms = DOMAIN group
    BY <1>1, <1>3, <1>5
  <2>3. Once(group, x) => q \in Has(x, T)
    <3> SUFFICES ASSUME NEW i \in DOMAIN group, group[i] = x, \A j \in DOMAIN group : group[j] = x => j = i
                 PROVE  q \in Has(x, T)
      BY DEF Once
    <3>1. ms[i].item = x /\ \A l \in DOMAIN ms : ms[l].item = x => l = i
      BY <2>1, <2>2
    <3> QED
      BY <1>6, <2>2, <3>1 DEF Has
  <2>4. Never(group, x) => q \in Lacks(x, T)
    <3> SUFFICES ASSUME \A i \in DOMAIN group : group[i] # x PROVE q \in Lacks(x, T)
      BY DEF Never
    <3>1. \A k \in DOMAIN ms : ms[k].item # x
      BY <2>1, <2>2
    <3> QED
      BY <1>6, <2>2, <3>1 DEF Lacks
  <2> QED
    BY <2>3, <2>4
<1> QED
  BY <1>6, <1>7, <1>8, <1>9, <1>10, <1>11

LEMMA GroupSays ==
  ASSUME NEW media \in Seq(MediaTypes), NEW T, NEW caption \in T, <<>> \in T, NEW group \in Fits(media), NEW keys \in Flags
  PROVE  \A c : c = GroupRequests(media, group, caption, keys) =>
           /\ Sequence(c) /\ All(c, Asks(T)) /\ All(c, Allowable(media, T)) /\ All(c, Lacks(PlaceItem, T)) /\ All(c, Lacks(TextItem, T))
           /\ \A x \in DOMAIN media : Once(group, x) => JustOne(c, Has(x, T), Lacks(x, T))
           /\ \A x \in DOMAIN media : Never(group, x) => All(c, Lacks(x, T))
           /\ (keys => Some(c, Keyed(T))) /\ (~keys => All(c, Keyless(T)))
           /\ media[group[1]] # "video_note" => Some(c, Saying(caption, T))
<1> TAKE c
<1>0. HAVE c = GroupRequests(media, group, caption, keys)
<1>1. /\ group \in Seq(DOMAIN media) /\ Len(group) >= 1 /\ 1 \in DOMAIN group /\ group[1] \in DOMAIN media
      /\ DOMAIN group = 1..Len(group) /\ \A x \in DOMAIN media : x \in Nat \ {0}
  <2>1. group \in Seq(DOMAIN media) /\ Len(group) >= 1
    BY DEF Fits
  <2>2. DOMAIN group = 1..Len(group) /\ Len(group) \in Nat
    BY <2>1, LenProperties
  <2> QED
    BY <2>1, <2>2
<1>2. CASE Len(group) = 1
  <2> DEFINE text == IF media[group[1]] = "video_note" THEN <<>> ELSE caption
             q == Request(<<Message(group[1], text, keys)>>, FALSE)
             i == group[1]
  <2>1. c = <<q>> /\ text \in T /\ i \in Int
    BY <1>0, <1>1, <1>2 DEF GroupRequests
  <2>2. \A x \in DOMAIN media : (Once(group, x) => x = i) /\ (Never(group, x) => x # i)
    BY <1>1, <1>2 DEF Once, Never
  <2>3. i # PlaceItem /\ i # TextItem /\ (media[i] # "video_note" => text = caption)
    BY <1>1 DEF PlaceItem, TextItem
  <2> HIDE DEF i, text
  <2>4. /\ q \in Asks(T) /\ q \in Allowable(media, T) /\ q \in Has(i, T) /\ (\A x : x # i => q \in Lacks(x, T))
        /\ q \in Saying(text, T) /\ (keys => q \in Keyed(T)) /\ (~keys => q \in Keyless(T))
    <3> DEFINE no == FALSE
    <3>1. q = Request(<<Message(i, text, keys)>>, no) /\ no \in Flags
      BY DEF i, Flags
    <3> HIDE DEF q, no
    <3>2. i \in Int /\ text \in T
      BY <2>1
    <3>3. \A p : p = Request(<<Message(i, text, keys)>>, no) =>
             /\ p \in Asks(T) /\ p \in Allowable(media, T) /\ p \in Has(i, T) /\ (\A x : x # i => p \in Lacks(x, T))
             /\ p \in Saying(text, T) /\ (keys => p \in Keyed(T)) /\ (~keys => p \in Keyless(T))
      BY <3>1, <3>2, OneMessage
    <3> QED
      BY <3>1, <3>3, Zenon
  <2> HIDE DEF q
  <2>5. /\ Sequence(c)
        /\ \A O, N : q \in O => JustOne(c, O, N) /\ Some(c, O)
        /\ \A N : q \in N => All(c, N)
    BY <2>1, Alone
  <2> QED
    BY <2>2, <2>3, <2>4, <2>5 DEF i
<1>3. CASE Len(group) # 1
  <2> DEFINE album == [k \in DOMAIN group |-> Message(group[k], IF k = 1 THEN caption ELSE <<>>, FALSE)]
             q == Request(album, keys)
             b == Request(<<Message(KeysItem, <<>>, TRUE)>>, FALSE)
             bs == IF keys THEN <<b>> ELSE <<>>
  <2>1. c = <<q>> \o bs
    BY <1>0, <1>3, Zenon DEF GroupRequests
  <2>2. /\ q \in Asks(T) /\ q \in Allowable(media, T) /\ q \in Lacks(PlaceItem, T) /\ q \in Keyless(T) /\ q \in Saying(caption, T)
        /\ q \in Lacks(TextItem, T)
        /\ \A x : (Once(group, x) => q \in Has(x, T)) /\ (Never(group, x) => q \in Lacks(x, T))
    <3>1. q = Request([k \in DOMAIN group |-> Message(group[k], IF k = 1 THEN caption ELSE <<>>, FALSE)], keys)
      OBVIOUS
    <3> HIDE DEF q
    <3> QED
      BY <1>3, <3>1, AnAlbum
  <2>3. /\ b \in Asks(T) /\ b \in Allowable(media, T) /\ (\A x : x # KeysItem => b \in Lacks(x, T)) /\ b \in Keyed(T)
    <3> DEFINE no == FALSE
               yes == TRUE
               none == <<>>
               i == KeysItem
    <3>1. i \in Int /\ yes /\ yes \in Flags /\ no \in Flags /\ none \in T /\ b = Request(<<Message(i, none, yes)>>, no)
      BY DEF KeysItem, Flags
    <3> HIDE DEF b, no, yes, none, i
    <3>2. \A p : p = Request(<<Message(i, none, yes)>>, no) =>
             p \in Asks(T) /\ p \in Allowable(media, T) /\ (\A x : x # i => p \in Lacks(x, T)) /\ p \in Keyed(T)
      BY <3>1, OneMessage
    <3>3. b \in Asks(T) /\ b \in Allowable(media, T) /\ (\A x : x # i => b \in Lacks(x, T)) /\ b \in Keyed(T)
      BY <3>1, <3>2, Zenon
    <3> QED
      BY <3>3 DEF i
  <2>4. KeysItem # PlaceItem /\ KeysItem # TextItem /\ \A x \in DOMAIN media : x # KeysItem
    BY <1>1 DEF KeysItem, PlaceItem, TextItem
  <2> HIDE DEF q, b
  <2>5. /\ Sequence(<<q>>) /\ Sequence(bs)
        /\ \A O, N : q \in O => JustOne(<<q>>, O, N) /\ Some(<<q>>, O)
        /\ \A N : q \in N => All(<<q>>, N)
        /\ \A O : keys /\ b \in O => Some(bs, O)
        /\ \A N : b \in N \/ ~keys => All(bs, N)
    <3>1. CASE keys
      <4>1. bs = <<b>>
        BY <3>1
      <4> HIDE DEF bs
      <4> QED
        BY <3>1, <4>1, Alone
    <3>2. CASE ~keys
      <4>1. bs = <<>>
        BY <3>2
      <4>2. \A N : All(bs, N)
        BY <4>1, NoElement DEF All
      <4> HIDE DEF bs
      <4> QED
        BY <3>2, <4>1, <4>2, Alone, NoElement
    <3> QED
      BY <3>1, <3>2
  <2> HIDE DEF bs
  <2>6. /\ Sequence(c)
        /\ \A N : All(<<q>>, N) /\ All(bs, N) => All(c, N)
        /\ \A O, N : JustOne(<<q>>, O, N) /\ All(bs, N) => JustOne(c, O, N)
        /\ \A O : Some(<<q>>, O) \/ Some(bs, O) => Some(c, O)
    <3>1. Sequence(c)
      BY <2>1, <2>5, Concatenation
    <3>2. \A O, N : /\ All(<<q>>, N) /\ All(bs, N) => All(c, N)
                    /\ JustOne(<<q>>, O, N) /\ All(bs, N) => JustOne(c, O, N)
      BY <2>1, <2>5, JustOneJoined
    <3>3. \A O : Some(<<q>>, O) \/ Some(bs, O) => Some(c, O)
      BY <2>1, <2>5, SomeJoined
    <3> QED
      BY <3>1, <3>2, <3>3
  <2>7. All(c, Asks(T)) /\ All(c, Allowable(media, T)) /\ All(c, Lacks(PlaceItem, T)) /\ All(c, Lacks(TextItem, T))
    BY <2>2, <2>3, <2>4, <2>5, <2>6
  <2>8. /\ \A x \in DOMAIN media : Once(group, x) => JustOne(c, Has(x, T), Lacks(x, T))
        /\ \A x \in DOMAIN media : Never(group, x) => All(c, Lacks(x, T))
    BY <2>2, <2>3, <2>4, <2>5, <2>6
  <2>9. (keys => Some(c, Keyed(T))) /\ (~keys => All(c, Keyless(T))) /\ Some(c, Saying(caption, T))
    BY <2>2, <2>3, <2>5, <2>6
  <2> QED
    BY <2>6, <2>7, <2>8, <2>9
<1> QED
  BY <1>2, <1>3

\* What a post's media, its texts and the whole of it are sent as.
Carries(c, media, T) ==
  /\ Sequence(c) /\ All(c, Asks(T)) /\ All(c, Allowable(media, T))
  /\ \A x \in DOMAIN media : JustOne(c, Has(x, T), Lacks(x, T))

LEMMA MediaSay ==
  ASSUME NEW media \in Seq(MediaTypes), media # <<>>, NEW T, <<>> \in T, NEW text, Cut(text, CaptionMax) \in T,
         NEW post, post.media = media, post.keys \in Flags
  PROVE  \A c : c = MediaRequests(post, text) =>
           /\ Carries(c, media, T) /\ All(c, Lacks(PlaceItem, T)) /\ All(c, Lacks(TextItem, T))
           /\ (post.keys => Some(c, Keyed(T))) /\ (~post.keys => All(c, Keyless(T)))
           /\ media[Groups(media)[1][1]] # "video_note" => Some(c, Saying(Cut(text, CaptionMax), T))
<1> DEFINE groups == Groups(media)
           cut == Cut(text, CaptionMax)
           caption(g) == IF g = 1 THEN cut ELSE <<>>
           keys(g) == g = 1 /\ post.keys
           calls == [g \in DOMAIN groups |-> GroupRequests(media, groups[g], caption(g), keys(g))]
           all == FlattenSeq(calls)
<1> TAKE c
<1>0. HAVE c = MediaRequests(post, text)
<1>1. c = all
  BY <1>0, Zenon DEF MediaRequests
<1>2. Sequences(groups) /\ 1 \in DOMAIN groups /\ Len(groups) \in Nat /\ DOMAIN groups = 1..Len(groups)
  <2>1. Sequences(groups) /\ Len(groups) > 0
    BY GroupsOf
  <2> HIDE DEF groups
  <2>2. DOMAIN groups = 1..Len(groups) /\ Len(groups) \in Nat
    BY <2>1, IsSequence DEF Sequences
  <2> QED
    BY <2>1, <2>2
<1>3. \A x \in DOMAIN media : JustOne(groups, OnceIn(media, x), NeverIn(media, x))
  BY GroupsFit
<1>4. \A g \in DOMAIN groups : groups[g] \in Fits(media)
  <2>0. 1 \in DOMAIN media
    BY EmptySeq, LenProperties
  <2>1. PICK x : x \in DOMAIN media
    BY <2>0
  <2>2. All(groups, Fits(media))
    BY <2>1, GroupsFit
  <2> QED
    BY <2>2 DEF All
<1> HIDE DEF groups
<1>5. \A g : caption(g) \in T /\ keys(g) \in Flags /\ (g = 1 => caption(g) = cut /\ (keys(g) <=> post.keys)) /\ (g # 1 => ~keys(g))
  BY DEF Flags
<1> HIDE DEF caption, keys, cut
<1>6. \A g \in DOMAIN groups : calls[g] = GroupRequests(media, groups[g], caption(g), keys(g))
  OBVIOUS
<1>7. calls = [g \in 1..Len(groups) |-> calls[g]]
  BY <1>2
<1> HIDE DEF calls
<1>8. Sequence(calls) /\ DOMAIN calls = DOMAIN groups
  BY <1>2, <1>7, Enumerated, IsSequence
<1>9. ASSUME NEW g \in DOMAIN groups
      PROVE  /\ Sequence(calls[g]) /\ All(calls[g], Asks(T)) /\ All(calls[g], Allowable(media, T))
             /\ All(calls[g], Lacks(PlaceItem, T)) /\ All(calls[g], Lacks(TextItem, T))
             /\ \A x \in DOMAIN media : Once(groups[g], x) => JustOne(calls[g], Has(x, T), Lacks(x, T))
             /\ \A x \in DOMAIN media : Never(groups[g], x) => All(calls[g], Lacks(x, T))
             /\ (keys(g) => Some(calls[g], Keyed(T))) /\ (~keys(g) => All(calls[g], Keyless(T)))
             /\ media[groups[g][1]] # "video_note" => Some(calls[g], Saying(caption(g), T))
  <2> DEFINE group == groups[g]
             cap == caption(g)
             ks == keys(g)
             p == calls[g]
  <2>1. group \in Fits(media) /\ cap \in T /\ ks \in Flags /\ p = GroupRequests(media, group, cap, ks)
    BY <1>4, <1>5, <1>6
  <2> HIDE DEF group, cap, ks, p
  <2>2. \A q : q = GroupRequests(media, group, cap, ks) =>
          /\ Sequence(q) /\ All(q, Asks(T)) /\ All(q, Allowable(media, T)) /\ All(q, Lacks(PlaceItem, T)) /\ All(q, Lacks(TextItem, T))
          /\ \A x \in DOMAIN media : Once(group, x) => JustOne(q, Has(x, T), Lacks(x, T))
          /\ \A x \in DOMAIN media : Never(group, x) => All(q, Lacks(x, T))
          /\ (ks => Some(q, Keyed(T))) /\ (~ks => All(q, Keyless(T)))
          /\ media[group[1]] # "video_note" => Some(q, Saying(cap, T))
    BY <2>1, GroupSays
  <2>3. /\ Sequence(p) /\ All(p, Asks(T)) /\ All(p, Allowable(media, T)) /\ All(p, Lacks(PlaceItem, T)) /\ All(p, Lacks(TextItem, T))
        /\ \A x \in DOMAIN media : Once(group, x) => JustOne(p, Has(x, T), Lacks(x, T))
        /\ \A x \in DOMAIN media : Never(group, x) => All(p, Lacks(x, T))
        /\ (ks => Some(p, Keyed(T))) /\ (~ks => All(p, Keyless(T)))
        /\ media[group[1]] # "video_note" => Some(p, Saying(cap, T))
    BY <2>1, <2>2, Zenon
  <2> QED
    BY <2>3 DEF group, cap, ks, p
<1>10. Sequences(calls)
  BY <1>8, <1>9 DEF Sequences
<1> HIDE DEF all
<1>11. Sequence(all)
  BY <1>10, Flattened DEF all
<1>12. All(all, Asks(T)) /\ All(all, Allowable(media, T)) /\ All(all, Lacks(PlaceItem, T)) /\ All(all, Lacks(TextItem, T))
  BY <1>8, <1>9, <1>10, AllFlattened DEF all
<1>13. ASSUME NEW x \in DOMAIN media PROVE JustOne(all, Has(x, T), Lacks(x, T))
  <2>1. PICK g \in DOMAIN groups : groups[g] \in OnceIn(media, x) /\ \A h \in DOMAIN groups \ {g} : groups[h] \in NeverIn(media, x)
    BY <1>3 DEF JustOne
  <2>2. JustOne(calls[g], Has(x, T), Lacks(x, T)) /\ \A h \in DOMAIN groups \ {g} : All(calls[h], Lacks(x, T))
    BY <1>9, <2>1 DEF OnceIn, NeverIn
  <2> QED
    BY <1>8, <1>10, <2>1, <2>2, JustOneFlattened DEF all
<1>14. (post.keys => Some(all, Keyed(T))) /\ (~post.keys => All(all, Keyless(T)))
  <2>1. post.keys => Some(calls[1], Keyed(T))
    BY <1>2, <1>5, <1>9
  <2>2. ~post.keys => \A g \in DOMAIN groups : All(calls[g], Keyless(T))
    BY <1>5, <1>9
  <2> QED
    BY <1>2, <1>8, <1>10, <2>1, <2>2, AllFlattened, SomeFlattened DEF all
<1>15. media[groups[1][1]] # "video_note" => Some(all, Saying(cut, T))
  <2>1. media[groups[1][1]] # "video_note" => Some(calls[1], Saying(cut, T))
    BY <1>2, <1>5, <1>9
  <2> QED
    BY <1>2, <1>8, <1>10, <2>1, SomeFlattened DEF all
<1> QED
  BY <1>1, <1>11, <1>12, <1>13, <1>14, <1>15 DEF Carries, groups, cut

LEMMA CutOf ==
  ASSUME NEW S, NEW s \in Seq(S), NEW n \in Nat
  PROVE  /\ Cut(s, n) \in Seq(S) /\ Len(Cut(s, n)) <= n /\ (Len(s) <= n => Cut(s, n) = s)
         /\ \A i \in DOMAIN Cut(s, n) : i \in DOMAIN s /\ Cut(s, n)[i] = s[i]
         /\ n >= 1 /\ Len(s) >= 1 => Len(Cut(s, n)) >= 1
<1> DEFINE l == Len(s)
           m == Min({n, l})
<1>1. l \in Nat
  BY LenProperties
<1> HIDE DEF l
<1>2. m \in {n, l} /\ m <= n /\ m <= l
  <2>1. \E k \in {n, l} : \A y \in {n, l} : k <= y
    BY <1>1
  <2> QED
    BY <1>1, <2>1 DEF Min
<1>3. Cut(s, n) = SubSeq(s, 1, m)
  BY DEF Cut, l
<1> HIDE DEF m
<1>4. m \in Nat /\ (l <= n => m = l)
  BY <1>1, <1>2
<1>5. /\ SubSeq(s, 1, m) \in Seq(S) /\ Len(SubSeq(s, 1, m)) = m
      /\ \A i \in DOMAIN SubSeq(s, 1, m) : i \in DOMAIN s /\ SubSeq(s, 1, m)[i] = s[i]
  <2>1. \A i \in 1..m : s[i] \in S
    <3>1. \A i \in 1..m : i \in 1..Len(s)
      BY <1>1, <1>2, <1>4 DEF l
    <3> QED
      BY <3>1, ElementOfSeq
  <2>2. 1 \in Int /\ m \in Int
    BY <1>4
  <2>3. /\ SubSeq(s, 1, m) \in Seq(S) /\ Len(SubSeq(s, 1, m)) = IF 1 <= m THEN m - 1 + 1 ELSE 0
        /\ \A i \in 1..(m - 1 + 1) : SubSeq(s, 1, m)[i] = s[1 + i - 1]
    BY <2>1, <2>2, SubSeqProperties
  <2>4. Len(SubSeq(s, 1, m)) = m /\ DOMAIN SubSeq(s, 1, m) = 1..m /\ DOMAIN s = 1..l
    BY <1>4, <2>3, LenProperties DEF l
  <2>5. \A i \in 1..m : i \in 1..l /\ i \in 1..(m - 1 + 1) /\ 1 + i - 1 = i
    BY <1>1, <1>2, <1>4
  <2>6. \A i \in 1..m : SubSeq(s, 1, m)[i] = s[i]
    BY <2>3, <2>5
  <2> QED
    BY <2>3, <2>4, <2>5, <2>6
<1>6. SubSeq(s, 1, l) = s
  BY SubSeqFull DEF l
<1>7. n >= 1 /\ l >= 1 => m >= 1
  BY <1>2
<1> QED
  <2> DEFINE w == SubSeq(s, 1, m)
  <2>1. /\ w \in Seq(S) /\ Len(w) <= n /\ (Len(s) <= n => w = s)
        /\ n >= 1 /\ Len(s) >= 1 => Len(w) >= 1
    <3>1. w \in Seq(S) /\ Len(w) = m
      BY <1>5
    <3>2. l <= n => w = s
      BY <1>4, <1>6
    <3> HIDE DEF w
    <3>3. Len(w) <= n /\ (n >= 1 /\ l >= 1 => Len(w) >= 1)
      BY <1>2, <1>7, <3>1
    <3> QED
      BY <3>1, <3>2, <3>3 DEF l
  <2>2. \A i \in DOMAIN w : i \in DOMAIN s /\ w[i] = s[i]
    BY <1>5
  <2>3. Cut(s, n) = w
    BY <1>3
  <2> HIDE DEF w
  <2> QED
    BY <2>1, <2>2, <2>3

\* A post whose caption there is a message for.
Captioned(media) == media # <<>> => media[Groups(media)[1][1]] # "video_note"
Words(text) == {<<>>, text, Cut(text, CaptionMax)}

LEMMA TextSays ==
  ASSUME NEW T, <<>> \in T, NEW text \in T, NEW post, post.keys \in Flags, NEW media \in Seq(MediaTypes)
  PROVE  \A c : c = SaysText(post, text) =>
           /\ Sequence(c) /\ All(c, Asks(T)) /\ All(c, Allowable(media, T)) /\ All(c, Lacks(PlaceItem, T))
           /\ \A x \in DOMAIN media : All(c, Lacks(x, T))
           /\ (post.keys => Some(c, Keyed(T))) /\ (~post.keys => All(c, Keyless(T)))
           /\ Some(c, Saying(text, T)) /\ All(c, Speaking(text, T))
<1> TAKE c
<1>0. HAVE c = SaysText(post, text)
<1> DEFINE i == TextItem
           no == FALSE
           ks == post.keys
           q == Request(<<Message(i, text, ks)>>, no)
<1>1. i \in Int /\ no \in Flags /\ ks \in Flags /\ i # PlaceItem /\ \A x \in DOMAIN media : x # i
  <2>1. \A x \in DOMAIN media : x \in Nat \ {0}
    BY LenProperties
  <2> QED
    BY <2>1 DEF TextItem, Flags, PlaceItem
<1>2. c = <<q>>
  BY <1>0, Zenon DEF SaysText
<1> HIDE DEF i, no, ks
<1>3. \A p : p = Request(<<Message(i, text, ks)>>, no) =>
        /\ p \in Asks(T) /\ p \in Allowable(media, T) /\ p \in Has(i, T) /\ (\A x : x # i => p \in Lacks(x, T))
        /\ p \in Saying(text, T) /\ (ks => p \in Keyed(T)) /\ (~ks => p \in Keyless(T)) /\ p \in Speaking(text, T)
  BY <1>1, OneMessage
<1>4. /\ q \in Asks(T) /\ q \in Allowable(media, T) /\ q \in Has(i, T) /\ (\A x : x # i => q \in Lacks(x, T))
      /\ q \in Saying(text, T) /\ (ks => q \in Keyed(T)) /\ (~ks => q \in Keyless(T)) /\ q \in Speaking(text, T)
  BY <1>3, Zenon
<1> HIDE DEF q
<1>5. /\ Sequence(c)
      /\ \A O, N : q \in O => JustOne(c, O, N) /\ Some(c, O)
      /\ \A N : q \in N => All(c, N)
  BY <1>2, Alone
<1> QED
  BY <1>1, <1>4, <1>5 DEF ks

LEMMA PlaceSays ==
  ASSUME NEW T, <<>> \in T, NEW media \in Seq(MediaTypes)
  PROVE  \A c : c = <<Request(<<Message(PlaceItem, <<>>, FALSE)>>, FALSE)>> =>
           /\ Sequence(c) /\ All(c, Asks(T)) /\ All(c, Allowable(media, T)) /\ JustOne(c, Has(PlaceItem, T), Lacks(PlaceItem, T))
           /\ \A x \in DOMAIN media : All(c, Lacks(x, T))
           /\ All(c, Keyless(T)) /\ All(c, Lacks(TextItem, T))
<1> TAKE c
<1>0. HAVE c = <<Request(<<Message(PlaceItem, <<>>, FALSE)>>, FALSE)>>
<1> DEFINE i == PlaceItem
           no == FALSE
           none == <<>>
           q == Request(<<Message(i, none, no)>>, no)
<1>1. i \in Int /\ no \in Flags /\ ~no /\ none \in T /\ TextItem # i /\ \A x \in DOMAIN media : x # i
  <2>1. \A x \in DOMAIN media : x \in Nat \ {0}
    BY LenProperties
  <2> QED
    BY <2>1 DEF Flags, PlaceItem, TextItem
<1>2. c = <<q>>
  BY <1>0, Zenon
<1> HIDE DEF i, no, none
<1>3. \A p : p = Request(<<Message(i, none, no)>>, no) =>
        /\ p \in Asks(T) /\ p \in Allowable(media, T) /\ p \in Has(i, T) /\ (\A x : x # i => p \in Lacks(x, T))
        /\ p \in Keyless(T)
  BY <1>1, OneMessage
<1>4. q \in Asks(T) /\ q \in Allowable(media, T) /\ q \in Has(i, T) /\ (\A x : x # i => q \in Lacks(x, T)) /\ q \in Keyless(T)
  BY <1>3, Zenon
<1> HIDE DEF q
<1>5. /\ Sequence(c)
      /\ \A O, N : q \in O => JustOne(c, O, N) /\ Some(c, O)
      /\ \A N : q \in N => All(c, N)
  BY <1>2, Alone
<1> QED
  BY <1>1, <1>4, <1>5 DEF i

LEMMA PostSays ==
  ASSUME NEW post, NEW media \in Seq(MediaTypes), post.media = media, post.keys \in Flags, NEW whole \in Seq(Tag),
         NEW text, text = Cut(whole, TextMax), NEW T, <<>> \in T, text \in T, media # <<>> => Cut(text, CaptionMax) \in T
  PROVE  \A c : c = Requests(post, whole) =>
           /\ Carries(c, media, T) /\ All(c, Speaking(text, T))
           /\ (post.place => JustOne(c, Has(PlaceItem, T), Lacks(PlaceItem, T))) /\ (~post.place => All(c, Lacks(PlaceItem, T)))
           /\ (post.keys => Some(c, Keyed(T))) /\ (~post.keys => All(c, Keyless(T)))
           /\ Captioned(media) => Some(c, Saying(text, T))
<1> TAKE c
<1>0. HAVE c = Requests(post, whole)
<1> DEFINE cut == Cut(text, CaptionMax)
           says == SaysText(post, text)
           shows == MediaRequests(post, text)
           place == <<Request(<<Message(PlaceItem, <<>>, FALSE)>>, FALSE)>>
           long == IF Len(text) > CaptionMax THEN says ELSE <<>>
           first == IF media = <<>> THEN says ELSE shows \o long
           then == IF post.place THEN place ELSE <<>>
<1>1. c = first \o then
  BY <1>0, Zenon DEF Requests
<1>2. <<>> \in T /\ text \in T /\ (media # <<>> => cut \in T)
  OBVIOUS
<1>3. text \in Seq(Tag) /\ Len(text) \in Nat /\ CaptionMax \in Nat /\ (~(Len(text) > CaptionMax) => cut = text)
  <2>1. CaptionMax \in Nat /\ TextMax \in Nat
    BY PostAssumption
  <2>2. text \in Seq(Tag)
    BY <2>1, CutOf
  <2>3. Len(text) \in Nat
    BY <2>2, LenProperties
  <2>4. Len(text) <= CaptionMax => cut = text
    BY <2>1, <2>2, CutOf
  <2> HIDE DEF cut
  <2> QED
    BY <2>1, <2>2, <2>3, <2>4
<1> HIDE DEF cut
<1>4. /\ Sequence(says) /\ All(says, Asks(T)) /\ All(says, Allowable(media, T)) /\ All(says, Lacks(PlaceItem, T))
      /\ \A x \in DOMAIN media : All(says, Lacks(x, T))
      /\ (post.keys => Some(says, Keyed(T))) /\ (~post.keys => All(says, Keyless(T)))
      /\ Some(says, Saying(text, T)) /\ All(says, Speaking(text, T))
  BY <1>2, TextSays
<1>5. /\ Sequence(place) /\ All(place, Asks(T)) /\ All(place, Allowable(media, T)) /\ JustOne(place, Has(PlaceItem, T), Lacks(PlaceItem, T))
      /\ \A x \in DOMAIN media : All(place, Lacks(x, T))
      /\ All(place, Keyless(T)) /\ All(place, Lacks(TextItem, T))
  BY <1>2, PlaceSays
<1>6. media # <<>> =>
        /\ Carries(shows, media, T) /\ All(shows, Lacks(PlaceItem, T)) /\ All(shows, Lacks(TextItem, T))
        /\ (post.keys => Some(shows, Keyed(T))) /\ (~post.keys => All(shows, Keyless(T)))
        /\ Captioned(media) => Some(shows, Saying(cut, T))
  BY <1>2, MediaSay DEF Captioned, cut
<1> HIDE DEF says, shows, place
<1>7. Sequence(<<>>) /\ (\A N : All(<<>>, N)) /\ (\A s : All(s, Lacks(TextItem, T)) => All(s, Speaking(text, T)))
  BY NoElement, Speechless DEF All
<1>8. /\ Sequence(long) /\ All(long, Asks(T)) /\ All(long, Allowable(media, T)) /\ All(long, Lacks(PlaceItem, T))
      /\ \A x \in DOMAIN media : All(long, Lacks(x, T))
      /\ (~post.keys => All(long, Keyless(T)))
      /\ (Len(text) > CaptionMax => Some(long, Saying(text, T))) /\ All(long, Speaking(text, T))
  BY <1>4, <1>7
<1> HIDE DEF long
<1>9. /\ Carries(first, media, T) /\ All(first, Lacks(PlaceItem, T)) /\ All(first, Speaking(text, T))
      /\ (post.keys => Some(first, Keyed(T))) /\ (~post.keys => All(first, Keyless(T)))
      /\ Captioned(media) => Some(first, Saying(text, T))
  <2>1. CASE media = <<>>
    <3>1. first = says /\ DOMAIN media = {}
      BY <2>1
    <3> HIDE DEF first
    <3> QED
      BY <1>4, <3>1 DEF Carries
  <2>2. CASE media # <<>>
    <3>1. first = shows \o long
      BY <2>2
    <3>2. Sequence(shows) /\ All(shows, Asks(T)) /\ All(shows, Allowable(media, T)) /\ \A x \in DOMAIN media : JustOne(shows, Has(x, T), Lacks(x, T))
      BY <1>6, <2>2 DEF Carries
    <3> HIDE DEF first
    <3>3. Sequence(first)
      BY <1>8, <3>1, <3>2, Concatenation
    <3>4. \A O, N : /\ All(shows, N) /\ All(long, N) => All(first, N)
                    /\ JustOne(shows, O, N) /\ All(long, N) => JustOne(first, O, N)
      BY <1>8, <3>1, <3>2, JustOneJoined
    <3>5. \A O : Some(shows, O) \/ Some(long, O) => Some(first, O)
      BY <1>8, <3>1, <3>2, SomeJoined
    <3>6. Carries(first, media, T)
      BY <1>8, <3>2, <3>3, <3>4 DEF Carries
    <3>7. /\ All(first, Lacks(PlaceItem, T)) /\ (post.keys => Some(first, Keyed(T))) /\ (~post.keys => All(first, Keyless(T)))
          /\ All(first, Speaking(text, T))
      BY <1>6, <1>7, <1>8, <2>2, <3>4, <3>5
    <3>8. Captioned(media) => Some(first, Saying(text, T))
      BY <1>3, <1>6, <1>8, <2>2, <3>5
    <3> QED
      BY <3>6, <3>7, <3>8
  <2> QED
    BY <2>1, <2>2
<1>10. /\ Sequence(then) /\ All(then, Asks(T)) /\ All(then, Allowable(media, T)) /\ All(then, Keyless(T)) /\ All(then, Speaking(text, T))
       /\ (post.place => JustOne(then, Has(PlaceItem, T), Lacks(PlaceItem, T))) /\ (~post.place => All(then, Lacks(PlaceItem, T)))
       /\ \A x \in DOMAIN media : All(then, Lacks(x, T))
  BY <1>5, <1>7
<1> HIDE DEF first, then
<1>11. Sequence(first)
  BY <1>9 DEF Carries
<1>12. Sequence(c)
  BY <1>1, <1>10, <1>11, Concatenation
<1>13. \A O, N : /\ All(first, N) /\ All(then, N) => All(c, N)
                 /\ JustOne(first, O, N) /\ All(then, N) => JustOne(c, O, N)
                 /\ All(first, N) /\ JustOne(then, O, N) => JustOne(c, O, N)
  BY <1>1, <1>10, <1>11, JustOneJoined
<1>14. \A O : Some(first, O) \/ Some(then, O) => Some(c, O)
  BY <1>1, <1>10, <1>11, SomeJoined
<1>15. Carries(c, media, T) /\ All(c, Speaking(text, T))
  BY <1>9, <1>10, <1>12, <1>13 DEF Carries
<1>16. (post.place => JustOne(c, Has(PlaceItem, T), Lacks(PlaceItem, T))) /\ (~post.place => All(c, Lacks(PlaceItem, T)))
  BY <1>9, <1>10, <1>13
<1>17. (post.keys => Some(c, Keyed(T))) /\ (~post.keys => All(c, Keyless(T))) /\ (Captioned(media) => Some(c, Saying(text, T)))
  BY <1>9, <1>10, <1>13, <1>14
<1> QED
  BY <1>15, <1>16, <1>17

-----------------------------------------------------------------------------
(* A post is whole. *)

LEMMA SentOf ==
  ASSUME NEW r \in Calls, r.made = Len(RequestsOf(r))
  PROVE  LET c == RequestsOf(r) IN
         Sent(r) = UNION {{<<r.label, r.attempt, n, k>> : k \in DOMAIN c[n].messages} : n \in DOMAIN c}
<1> DEFINE c == RequestsOf(r)
<1>1. DOMAIN c = 1..r.made
  BY CallsOf
<1>2. ASSUME NEW n \in DOMAIN c
      PROVE  ToSet(IdsOf(r, n)) = {<<r.label, r.attempt, n, k>> : k \in DOMAIN c[n].messages}
  BY DEF IdsOf, ToSet
<1> HIDE DEF c
<1>3. Sent(r) = UNION {ToSet(IdsOf(r, n)) : n \in DOMAIN c}
  BY <1>1 DEF Sent
<1> QED
  BY <1>2, <1>3 DEF c

\* The messages of a call that was sent as a whole.
Of(r, x, S) == {m \in S : MessageOf(r, m).item = x}

LEMMA SentOnce ==
  ASSUME NEW r \in Calls, r.made = Len(RequestsOf(r)), NEW x, NEW T
  PROVE  /\ JustOne(RequestsOf(r), Has(x, T), Lacks(x, T)) => Cardinality(Of(r, x, Sent(r))) = 1
         /\ All(RequestsOf(r), Lacks(x, T)) => Cardinality(Of(r, x, Sent(r))) = 0
<1> DEFINE c == RequestsOf(r)
           Id(n, k) == <<r.label, r.attempt, n, k>>
           its == Of(r, x, Sent(r))
<1>1. Sent(r) = UNION {{Id(n, k) : k \in DOMAIN c[n].messages} : n \in DOMAIN c}
  BY SentOf
<1>2. \A n, k : MessageOf(r, Id(n, k)) = c[n].messages[k]
  BY DEF MessageOf
<1> HIDE DEF c
<1>3. \A m \in its : \E n \in DOMAIN c : \E k \in DOMAIN c[n].messages : m = Id(n, k) /\ c[n].messages[k].item = x
  BY <1>1, <1>2 DEF Of
<1>4. \A n \in DOMAIN c : \A k \in DOMAIN c[n].messages : c[n].messages[k].item = x => Id(n, k) \in its
  BY <1>1, <1>2 DEF Of
<1> HIDE DEF its, Id
<1>5. ASSUME JustOne(c, Has(x, T), Lacks(x, T)) PROVE Cardinality(its) = 1
  <2>1. PICK n \in DOMAIN c : c[n] \in Has(x, T) /\ \A m \in DOMAIN c \ {n} : c[m] \in Lacks(x, T)
    BY <1>5 DEF JustOne
  <2>2. PICK k \in DOMAIN c[n].messages :
           c[n].messages[k].item = x /\ \A l \in DOMAIN c[n].messages : c[n].messages[l].item = x => l = k
    BY <2>1 DEF Has
  <2>3. \A m \in DOMAIN c : m # n => \A l \in DOMAIN c[m].messages : c[m].messages[l].item # x
    BY <2>1 DEF Lacks
  <2>4. its = {Id(n, k)}
    BY <1>3, <1>4, <2>2, <2>3
  <2> QED
    BY <2>4, FS_Singleton
<1>6. ASSUME All(c, Lacks(x, T)) PROVE Cardinality(its) = 0
  <2>1. \A m \in DOMAIN c : \A l \in DOMAIN c[m].messages : c[m].messages[l].item # x
    BY <1>6 DEF All, Lacks
  <2>2. its = {}
    BY <1>3, <2>1
  <2> QED
    BY <2>2, FS_EmptySet
<1> QED
  BY <1>5, <1>6 DEF c, its

LEMMA PostText ==
  ASSUME NEW p \in KnownPosts
  PROVE  p.text \in Texts /\ p.keys \in Flags
<1>0. <<>> \in Texts /\ <<Char>> \in Texts
  <2>1. Char \in Tag
    <3>1. Nothing \in Names
      BY DEF Names
    <3> HIDE DEF Nothing, Names
    <3> QED
      BY <3>1 DEF Char, Tag
  <2>2. <<>> \in Seq(Tag) /\ <<Char>> \in Seq(Tag)
    <3> HIDE DEF Char, Tag
    <3> QED
      BY <2>1
  <2> QED
    BY <2>2, NamesOK
<1>1. CASE p \in Posts
  <2> DEFINE medias == Seq(MediaTypes)
  <2> HIDE DEF medias
  <2>1. Posts = [media : medias, text : Texts, keys : Flags, place : BOOLEAN]
    BY DEF Posts, medias, Flags
  <2> HIDE DEF Flags, Texts
  <2> QED
    BY <1>1, <2>1
<1>2. CASE p = NoPost
  BY <1>0, <1>2 DEF NoPost, Flags
<1>3. CASE p = WeatherPost
  <2> DEFINE said == <<Char>>
  <2>1. said \in Texts
    BY <1>0
  <2> HIDE DEF said
  <2>2. WeatherPost = [NoPost EXCEPT !.text = said]
    BY DEF WeatherPost, said
  <2>3. WeatherPost.text = said /\ WeatherPost.keys = FALSE
    BY <2>2 DEF NoPost
  <2> QED
    BY <1>3, <2>1, <2>3 DEF Flags
<1> QED
  BY <1>1, <1>2, <1>3 DEF KnownPosts

LEMMA KnownText ==
  ASSUME NEW r \in Calls
  PROVE  r.text \in Seq(Tag) /\ r.post.keys \in Flags /\ r.post.media \in Seq(MediaTypes)
<1>1. r.post \in KnownPosts /\ r.text \in KnownTexts
  BY DEF Calls
<1>2. <<>> \in Texts
  BY NamesOK, EmptySeq
<1>3. r.text \in Texts
  <2>1. \A p \in KnownPosts : Sanitize(p.text) \in Texts /\ Sanitize(StripEmoji(Sanitize(p.text))) \in Texts
    BY PostText, SanitizedIsAccepted, StrippedIsAccepted
  <2> HIDE DEF Texts
  <2> QED
    BY <1>1, <1>2, <2>1 DEF KnownTexts
<1> QED
  BY <1>1, <1>3, NamesOK, PostText, PostMedia

\* What was sent without an error is whole.
LEMMA SentWhole ==
  ASSUME NEW r, CallOK(r), r.made = Len(RequestsOf(r)), Captioned(r.post.media), ShownOf(r) = Sent(r)
  PROVE  IsWhole(r)
<1> DEFINE c == RequestsOf(r)
           post == r.post
           media == r.post.media
           text == Cut(r.text, TextMax)
           T == Words(text)
           all == Sent(r)
<1>1. r \in Calls
  BY DEF CallOK
<1>2. r.text \in Seq(Tag) /\ post.keys \in Flags /\ media \in Seq(MediaTypes)
  BY <1>1, KnownText
<1>3. /\ Carries(c, media, T)
      /\ (post.place => JustOne(c, Has(PlaceItem, T), Lacks(PlaceItem, T))) /\ (~post.place => All(c, Lacks(PlaceItem, T)))
      /\ (post.keys => Some(c, Keyed(T))) /\ (~post.keys => All(c, Keyless(T)))
      /\ Some(c, Saying(text, T))
  <2> HIDE DEF text, T, media
  <2>1. \A d : d = Requests(post, r.text) =>
           /\ Carries(d, media, T)
           /\ (post.place => JustOne(d, Has(PlaceItem, T), Lacks(PlaceItem, T))) /\ (~post.place => All(d, Lacks(PlaceItem, T)))
           /\ (post.keys => Some(d, Keyed(T))) /\ (~post.keys => All(d, Keyless(T)))
           /\ Captioned(media) => Some(d, Saying(text, T))
    <3>1. text = Cut(r.text, TextMax) /\ <<>> \in T /\ text \in T /\ Cut(text, CaptionMax) \in T /\ post.media = media
      BY DEF text, T, media, Words
    <3> HIDE DEF post
    <3> QED
      BY <1>2, <3>1, PostSays
  <2>2. c = Requests(post, r.text) /\ Captioned(media)
    BY DEF RequestsOf, media
  <2> QED
    BY <2>1, <2>2, Zenon
<1>4. all = UNION {{<<r.label, r.attempt, n, k>> : k \in DOMAIN c[n].messages} : n \in DOMAIN c}
  BY <1>1, SentOf
<1>5. \A n, k : MessageOf(r, <<r.label, r.attempt, n, k>>) = c[n].messages[k]
  BY DEF MessageOf
<1>6. \A x : /\ JustOne(c, Has(x, T), Lacks(x, T)) => Cardinality({m \in all : MessageOf(r, m).item = x}) = 1
             /\ All(c, Lacks(x, T)) => Cardinality({m \in all : MessageOf(r, m).item = x}) = 0
  <2> HIDE DEF T
  <2> QED
    BY <1>1, SentOnce DEF Of
<1> HIDE DEF c, text, T, all, media, post
<1>7. \A m \in all : \E n \in DOMAIN c : \E k \in DOMAIN c[n].messages : m = <<r.label, r.attempt, n, k>>
  BY <1>4
<1>8. \A n \in DOMAIN c : \A k \in DOMAIN c[n].messages : <<r.label, r.attempt, n, k>> \in all
  BY <1>4
<1>9. \A n \in DOMAIN c : c[n] \in Asks(T) /\ c[n] \in Allowable(media, T)
  BY <1>3 DEF Carries, All
<1>10. \A n \in DOMAIN c : \A k \in DOMAIN c[n].messages : c[n].messages[k] \in Messages(T)
  <2> TAKE n \in DOMAIN c
  <2> DEFINE messages == c[n].messages
  <2>1. messages \in Seq(Messages(T))
    BY <1>9 DEF Asks
  <2>2. \A k \in DOMAIN messages : messages[k] \in Messages(T)
    <3> HIDE DEF messages, Messages
    <3> QED
      BY <2>1, LenProperties, ElementOfSeq
  <2> QED
    BY <2>2
<1>11. \A x \in DOMAIN media : Cardinality({m \in all : MessageOf(r, m).item = x}) = 1
  BY <1>3, <1>6 DEF Carries
<1>12. ASSUME NEW m \in all, Len(c[m[3]].messages) > 1
       PROVE  /\ Len(c[m[3]].messages) <= AlbumMax
              /\ \E k \in Kinds : \A j \in DOMAIN c[m[3]].messages : media[c[m[3]].messages[j].item] \in k
  <2>1. m[3] \in DOMAIN c
    BY <1>7
  <2> DEFINE album == c[m[3]]
  <2>2. album \in Allowable(media, T)
    BY <1>9, <2>1
  <2> HIDE DEF album
  <2>3. Len(album.messages) > 1 => /\ Len(album.messages) <= AlbumMax
                                   /\ \E k \in Kinds : \A j \in DOMAIN album.messages : media[album.messages[j].item] \in k
    BY <2>2 DEF Allowable
  <2> QED
    BY <1>12, <2>3 DEF album
<1>13. \E m \in all : MessageOf(r, m).text = text
  <2>1. PICK n \in DOMAIN c : c[n] \in Saying(text, T)
    BY <1>3 DEF Some
  <2>2. PICK k \in DOMAIN c[n].messages : c[n].messages[k].text = text
    BY <2>1 DEF Saying
  <2> QED
    BY <1>5, <1>8, <2>2
<1>14. ASSUME NEW m \in all PROVE MessageOf(r, m).text \in {<<>>, text, Cut(text, CaptionMax)}
  <2>1. PICK n \in DOMAIN c : \E k \in DOMAIN c[n].messages : m = <<r.label, r.attempt, n, k>>
    BY <1>7
  <2>2. PICK k \in DOMAIN c[n].messages : m = <<r.label, r.attempt, n, k>>
    BY <2>1
  <2>3. MessageOf(r, m) \in Messages(T)
    BY <1>5, <1>10, <2>2
  <2> QED
    BY <2>3 DEF Messages, T, Words
<1>15. (\E m \in all : MessageOf(r, m).keys) <=> post.keys
  <2>1. CASE post.keys
    <3>1. PICK n \in DOMAIN c : c[n] \in Keyed(T)
      BY <1>3, <2>1 DEF Some
    <3>2. PICK k \in DOMAIN c[n].messages : c[n].messages[k].keys
      BY <3>1 DEF Keyed
    <3> QED
      BY <1>5, <1>8, <2>1, <3>2
  <2>2. CASE ~post.keys
    <3>1. \A n \in DOMAIN c : \A k \in DOMAIN c[n].messages : ~c[n].messages[k].keys
      BY <1>3, <2>2 DEF All, Keyless
    <3> QED
      BY <1>5, <1>7, <2>2, <3>1
  <2> QED
    BY <2>1, <2>2
<1>16. Cardinality({m \in all : MessageOf(r, m).item = PlaceItem}) = IF post.place THEN 1 ELSE 0
  BY <1>3, <1>6
<1>17. ShownOf(r) = all
  BY DEF all
<1> HIDE DEF ShownOf, MessageOf
<1> QED
  BY <1>11, <1>12, <1>13, <1>14, <1>15, <1>16, <1>17, Zenon DEF IsWhole, text, post, media, c

\* Of every post that is sent, and of every ad, the caption has a message.
CaptionedInv ==
  /\ \A a \in AdIds : Captioned(ad[a].post.media)
  /\ \A c \in Callers : call[c].pc # "none" => Captioned(call[c].post.media)

LEMMA SamePost ==
  ASSUME Types, NEW c \in Callers, PostStep(c)
  PROVE  \A d \in Callers : call'[d].pc # "none" => call[d].pc # "none" /\ call'[d].post = call[d].post
<1> DEFINE r == call[c]
<1>1. call \in [Callers -> Calls] /\ r \in Calls
  BY DEF Types, PostOK
<1>2. r.pc # "none"
  BY DEF PostStep, Deliver, Refuse, RefuseEmoji, LoseAnswer, Undo, Undone, Sending
<1>3. PICK s : call' = [call EXCEPT ![c] = s] /\ s.post = r.post
  <2>1. CASE Deliver(c)
    <3> DEFINE made == r.made + 1
               last == made = Len(RequestsOf(r))
               pc == IF last THEN "over" ELSE "sending"
               s == [r EXCEPT !.made = made, !.pc = pc, !.ok = last]
    <3>1. call' = [call EXCEPT ![c] = s]
      BY <1>1, <2>1 DEF Deliver, Calls
    <3> HIDE DEF made, last, pc
    <3>2. s.post = r.post
      BY <1>1 DEF Calls
    <3> HIDE DEF s, r
    <3> QED
      BY <3>1, <3>2
  <2>2. ASSUME NEW why, Fails(c, why) PROVE \E s : call' = [call EXCEPT ![c] = s] /\ s.post = r.post
    <3> DEFINE undo == Known(r)
               stray == r.stray \/ why = "answer" \/ Outstanding(r)
               s == [r EXCEPT !.pc = "undoing", !.undo = undo, !.why = why, !.stray = stray]
    <3>1. call' = [call EXCEPT ![c] = s]
      BY <2>2 DEF Fails
    <3> HIDE DEF undo, stray
    <3>2. s.post = r.post
      BY <1>1 DEF Calls
    <3> HIDE DEF s, r
    <3> QED
      BY <3>1, <3>2
  <2>3. CASE Refuse(c) \/ RefuseEmoji(c) \/ LoseAnswer(c)
    BY <2>2, <2>3 DEF Refuse, RefuseEmoji, LoseAnswer
  <2>4. CASE Undo(c)
    <3> DEFINE undone == [r EXCEPT !.undo = Tail(@)]
               astray == [r EXCEPT !.undo = Tail(@), !.stray = TRUE]
    <3>1. call' = [call EXCEPT ![c] = undone] \/ call' = [call EXCEPT ![c] = astray]
      BY <1>1, <2>4 DEF Undo
    <3>2. undone.post = r.post /\ astray.post = r.post
      BY <1>1 DEF Calls
    <3> HIDE DEF undone, astray, r
    <3> QED
      BY <3>1, <3>2
  <2>5. CASE Undone(c)
    <3> DEFINE text == Sanitize(StripEmoji(r.text))
               again == [r EXCEPT !.pc = "sending", !.attempt = 2, !.made = 0, !.text = text]
               over == [r EXCEPT !.pc = "over"]
    <3>1. call' = [call EXCEPT ![c] = again] \/ call' = [call EXCEPT ![c] = over]
      BY <2>5 DEF Undone
    <3> HIDE DEF text
    <3>2. again.post = r.post /\ over.post = r.post
      BY <1>1 DEF Calls
    <3> HIDE DEF again, over, r
    <3> QED
      BY <3>1, <3>2
  <2> QED
    BY <2>1, <2>3, <2>4, <2>5 DEF PostStep
<1>4. \A d \in Callers : call'[d] = IF d = c THEN s ELSE call[d]
  BY <1>1, <1>3
<1> HIDE DEF r
<1> QED
  BY <1>2, <1>3, <1>4 DEF r

LEMMA StartsPost ==
  ASSUME Types, NEW c \in Callers, NEW by, NEW about, NEW at, NEW post, StartPost(c, by, about, at, post)
  PROVE  \A d \in Callers : call'[d] = call[d] \/ call'[d].post = post
<1> DEFINE text == Sanitize(post.text)
           label == [by |-> by, about |-> {about}, at |-> at, serial |-> posts + 1]
           s == [NotPosting EXCEPT !.pc = "sending", !.post = post, !.text = text, !.label = label]
<1>1. call' = [call EXCEPT ![c] = s]
  BY DEF StartPost
<1> HIDE DEF text, label
<1>2. s.post = post
  <2>1. NotPosting \in Calls
    BY NobodyPosts
  <2> HIDE DEF NotPosting
  <2> QED
    BY <2>1 DEF Calls
<1> HIDE DEF s
<1> QED
  BY <1>1, <1>2 DEF Types, PostOK

\* A weather post has no media, and nobody changes the post of an ad.
LEMMA CaptionedAds ==
  ASSUME Types, CaptionedInv, AdsNext
  PROVE  CaptionedInv'
<1>1. ad \in [AdIds -> AdRecords] /\ call \in [Callers -> Calls]
  BY DEF Types, AdsOK, PostOK
<1>2. \A a \in AdIds : ad'[a].post = ad[a].post
  <2>1. CASE ad' = ad
    BY <2>1
  <2>2. CASE \E a \in AdIds : SetAuto(a) \/ DeleteAd(a)
    BY <1>1, <2>2 DEF SetAuto, DeleteAd, AdRecords
  <2>3. CASE \E a \in AdIds, status \in AdStatuses : SetStatus(a, status)
    BY <1>1, <2>3 DEF SetStatus, AdRecords
  <2>4. CASE \E n \in AdSlots : AdPublished(n)
    <3>1. PICK n \in AdSlots : AdPublished(n)
      BY <2>4
    <3> DEFINE t == adTask[n]
               row == ad[t.ad]
               new == AfterSuccess(row, t.seen, call[n].label)
    <3>2. ad' = [ad EXCEPT ![t.ad] = new]
      BY <3>1 DEF AdPublished
    <3>3. t.ad \in AdIds
      BY <3>1 DEF AdPublished, Types, AdsOK
    <3>4. row \in AdRecords
      BY <1>1, <3>3
    <3> HIDE DEF row
    <3>5. new.post = row.post
      BY <3>4 DEF AfterSuccess, AdRecords
    <3> HIDE DEF new, t
    <3> QED
      BY <1>1, <3>2, <3>3, <3>5 DEF row
  <2> QED
    BY <2>1, <2>2, <2>3, <2>4 DEF AdsNext, BeatAd, PublishByHand, StartAd, AdUnpublishable, AdNotPublished, AdWorkerDies
<1>3. ASSUME NEW c \in Callers, call'[c].pc # "none"
      PROVE  call'[c] = call[c] \/ \E a \in AdIds : call'[c].post = ad[a].post
  <2>1. CASE call' = call
    BY <2>1
  <2>2. CASE \E n \in AdSlots : call' = [call EXCEPT ![n] = NotPosting]
    <3>1. NotPosting.pc = "none"
      BY NobodyPosts
    <3> HIDE DEF NotPosting
    <3> QED
      BY <1>1, <1>3, <2>2, <3>1
  <2>3. CASE \E n \in AdSlots : StartAd(n)
    <3>1. PICK n \in AdSlots : StartAd(n)
      BY <2>3
    <3>2. StartPost(n, adTask[n].by, adTask[n].ad, now, ad[adTask[n].ad].post) /\ adTask[n].ad \in AdIds /\ n \in Callers
      BY <3>1, AdsAssumption DEF StartAd, Types, AdsOK
    <3>3. \A d \in Callers : call'[d] = call[d] \/ call'[d].post = ad[adTask[n].ad].post
      BY <3>2, StartsPost
    <3> QED
      BY <3>2, <3>3
  <2> QED
    BY <2>1, <2>2, <2>3 DEF AdsNext, BeatAd, PublishByHand, SetAuto, DeleteAd, SetStatus, AdUnpublishable, AdPublished,
                            AdNotPublished, AdWorkerDies, postVars
<1> HIDE DEF Captioned
<1> QED
  BY <1>2, <1>3 DEF CaptionedInv

LEMMA CaptionedWeather ==
  ASSUME Types, CaptionedInv, WeatherNext, ad' = ad
  PROVE  CaptionedInv'
<1>1. ad \in [AdIds -> AdRecords] /\ call \in [Callers -> Calls]
  BY DEF Types, AdsOK, PostOK
<1>2. WeatherPost.media = <<>>
  <2> DEFINE said == <<Char>>
  <2> HIDE DEF said
  <2>1. WeatherPost = [NoPost EXCEPT !.text = said]
    BY DEF WeatherPost, said
  <2> QED
    BY <2>1 DEF NoPost
<1>3. Captioned(WeatherPost.media)
  BY <1>2 DEF Captioned
<1>4. ASSUME NEW c \in Callers, call'[c].pc # "none"
      PROVE  call'[c] = call[c] \/ call'[c].post = WeatherPost
  <2>1. CASE call' = call
    BY <2>1
  <2>2. CASE \E n \in WeatherSlots : call' = [call EXCEPT ![n] = NotPosting]
    <3>1. NotPosting.pc = "none"
      BY NobodyPosts
    <3> HIDE DEF NotPosting
    <3> QED
      BY <1>1, <1>4, <2>2, <3>1
  <2>3. CASE \E n \in WeatherSlots : \E channel \in weatherRun[n].channels : PostWeather(n, channel)
    <3>1. PICK n \in WeatherSlots : \E channel \in weatherRun[n].channels : PostWeather(n, channel)
      BY <2>3
    <3>2. PICK channel \in weatherRun[n].channels : PostWeather(n, channel)
      BY <3>1
    <3>3. StartPost(n, weatherRun[n].by, channel, now, WeatherPost) /\ n \in Callers
      BY <3>2, WeatherAssumption DEF PostWeather
    <3> HIDE DEF WeatherPost
    <3>4. \A d \in Callers : call'[d] = call[d] \/ call'[d].post = WeatherPost
      BY <3>3, StartsPost
    <3> QED
      BY <3>4
  <2> HIDE DEF WeatherPost
  <2> QED
    BY <2>1, <2>2, <2>3 DEF WeatherNext, BeatWeather, PressButton, StartRun, NextCity, WeatherPosted, EndCity, CommitRun,
                            RunFails, RunLost, postVars
<1> HIDE DEF Captioned, WeatherPost
<1> QED
  BY <1>3, <1>4 DEF CaptionedInv

LEMMA CaptionedNext ==
  ASSUME Types, CaptionedInv, [Next]_postingVars
  PROVE  CaptionedInv'
<1>1. CASE Tick
  BY <1>1 DEF Tick, CaptionedInv, postVars
<1>2. CASE AdsNext
  BY <1>2, CaptionedAds
<1>3. CASE WeatherNext /\ UNCHANGED adVars
  BY <1>3, CaptionedWeather DEF adVars
<1>4. CASE \E c \in Callers : PostStep(c) /\ UNCHANGED adVars
  <2>1. \A d \in Callers : call'[d].pc # "none" => call[d].pc # "none" /\ call'[d].post = call[d].post
    BY <1>4, SamePost
  <2>2. ad' = ad
    BY <1>4 DEF adVars
  <2> HIDE DEF Captioned
  <2> QED
    BY <2>1, <2>2 DEF CaptionedInv
<1>5. CASE UNCHANGED postingVars
  BY <1>5 DEF postingVars, adVars, postVars, CaptionedInv
<1> QED
  BY <1>1, <1>2, <1>3, <1>4, <1>5 DEF Next

\* A list of media that begins with a video note has no message for the caption.
NotesNotFirst == \A q \in Starts, a \in AdIds : Captioned(q.ads[a].post.media)

LEMMA CaptionedInit ==
  ASSUME NotesNotFirst, Init
  PROVE  CaptionedInv
<1>1. PICK q \in Starts : AdsInit(q) /\ PostInit(q)
  BY DEF Init
<1>2. ad = q.ads
  BY <1>1 DEF AdsInit
<1>3. \A c \in Callers : call[c].pc = "none"
  BY <1>1, NobodyPosts DEF PostInit
<1> HIDE DEF Captioned
<1> QED
  BY <1>2, <1>3 DEF CaptionedInv, NotesNotFirst

LEMMA WholeByInv ==
  ASSUME Types, CaptionedInv
  PROVE  WholeOrGone
<1> SUFFICES ASSUME NEW c \in Callers, call[c].pc = "over", ~call[c].stray
             PROVE  IF call[c].ok THEN IsWhole(call[c]) ELSE ShownOf(call[c]) = {}
  BY DEF WholeOrGone
<1> DEFINE r == call[c]
<1>1. CallOK(r) /\ AccountedFor(r, shown) /\ r.pc = "over" /\ ~r.stray
  BY DEF Types, PostOK
<1>2. Captioned(r.post.media)
  BY DEF CaptionedInv
<1> HIDE DEF r
<1>3. CASE r.ok
  <2>1. r.made = Len(RequestsOf(r)) /\ ShownOf(r) = Sent(r)
    BY <1>1, <1>3 DEF AccountedFor, ShownOf
  <2>2. IsWhole(r)
    BY <1>1, <1>2, <2>1, SentWhole
  <2> QED
    BY <1>3, <2>2 DEF r
<1>4. CASE ~r.ok
  <2>1. ShownOf(r) = {}
    BY <1>1, <1>4 DEF AccountedFor, ShownOf
  <2> QED
    BY <1>4, <2>1 DEF r
<1> QED
  BY <1>3, <1>4

\* TelegramPublisher: a post is in its channel as a whole, once, with every
\* attachment, its text, its buttons and its place, or, if a part of it was
\* refused, nothing of it is, unless an answer or a deletion fails, or an
\* album's buttons do.
THEOREM PostsAreWholeOrGone ==
  ASSUME NotesNotFirst
  PROVE  Spec => []WholeOrGone
<1>1. Init => CaptionedInv
  BY CaptionedInit
<1>2. Types /\ CaptionedInv /\ [Next]_postingVars => CaptionedInv'
  BY CaptionedNext
<1>3. Types /\ CaptionedInv => WholeOrGone
  BY WholeByInv
<1>4. Spec => []Types
  BY TypesHold
<1> QED
  BY <1>1, <1>2, <1>3, <1>4, PTL DEF Spec

-----------------------------------------------------------------------------
(* A post fails for a cause: what there is to say can be parsed in each of   *)
(* its messages, and it is refused for its custom emoji once.                *)

LEMMA NothingAccepted == <<>> \in Texts /\ Accepts(<<>>) /\ ~HasEmoji(<<>>)
<1>1. <<>> \in Texts
  BY NamesOK, EmptySeq
<1>2. DOMAIN <<>> = {}
  BY NoElement
<1> QED
  BY <1>1, <1>2, PlainIsAccepted DEF Plain, HasEmoji

\* A part of a text that is not cut, or has no markup that could be.
LEMMA CutText ==
  ASSUME NEW u \in Texts, NEW n \in Nat
  PROVE  /\ Cut(u, n) \in Texts /\ (HasEmoji(Cut(u, n)) => HasEmoji(u))
         /\ Len(u) <= n => Cut(u, n) = u
         /\ Plain(u) => Plain(Cut(u, n)) /\ Accepts(Cut(u, n)) /\ (n >= 1 /\ Len(u) >= 1 => Chars(Cut(u, n)) > 0)
<1> DEFINE w == Cut(u, n)
<1>1. u \in Seq(Tag) /\ Len(u) \in Nat
  BY NamesOK, LenProperties
<1>2. /\ w \in Seq(Tag) /\ (Len(u) <= n => w = u)
      /\ \A i \in DOMAIN w : i \in DOMAIN u /\ w[i] = u[i]
      /\ n >= 1 /\ Len(u) >= 1 => Len(w) >= 1
  BY <1>1, CutOf
<1> HIDE DEF w
<1>3. w \in Texts
  BY <1>2, NamesOK
<1>4. HasEmoji(w) => HasEmoji(u)
  BY <1>2 DEF HasEmoji
<1>5. Plain(u) => Plain(w)
  BY <1>2 DEF Plain
<1>6. Plain(w) => Accepts(w) /\ Chars(w) = Len(w)
  BY <1>3, PlainIsAccepted, CharsOf
<1> QED
  BY <1>2, <1>3, <1>4, <1>5, <1>6 DEF w

\* The text of a post and its caption, if no markup of it is cut.
Whole(post, u) == ~(Len(u) > Longest(post) /\ Chars(u) < Len(u))

LEMMA Uncut ==
  ASSUME NEW post, NEW u \in Texts, Accepts(u), Says(u), Whole(post, u)
  PROVE  LET text == Cut(u, TextMax) IN
         /\ text \in Texts /\ Accepts(text) /\ Chars(text) > 0 /\ (HasEmoji(text) => HasEmoji(u))
         /\ post.media # <<>> => LET cut == Cut(text, CaptionMax) IN cut \in Texts /\ Accepts(cut) /\ (HasEmoji(cut) => HasEmoji(u))
<1> DEFINE text == Cut(u, TextMax)
           cut == Cut(text, CaptionMax)
<1>1. CaptionMax \in Nat /\ TextMax \in Nat /\ TextMax >= 1 /\ CaptionMax <= TextMax
  BY PostAssumption
<1>2. Len(u) \in Nat /\ Chars(u) \in Nat /\ Chars(u) <= Len(u) /\ Chars(u) > 0 /\ (Plain(u) <=> Chars(u) = Len(u))
  <2>1. Len(u) \in Nat
    BY NamesOK, LenProperties
  <2> QED
    BY <2>1, CharsOf
<1>3. /\ text \in Texts /\ (HasEmoji(text) => HasEmoji(u)) /\ (Len(u) <= TextMax => text = u)
      /\ Plain(u) => Plain(text) /\ Accepts(text) /\ Chars(text) > 0
  <2>1. /\ text \in Texts /\ (HasEmoji(text) => HasEmoji(u)) /\ (Len(u) <= TextMax => text = u)
        /\ Plain(u) => Plain(text) /\ Accepts(text) /\ (TextMax >= 1 /\ Len(u) >= 1 => Chars(text) > 0)
    BY <1>1, CutText
  <2> HIDE DEF text
  <2>2. Len(u) >= 1
    BY <1>2
  <2> QED
    BY <1>1, <2>1, <2>2
<1> HIDE DEF text
<1>4. /\ cut \in Texts /\ (HasEmoji(cut) => HasEmoji(text)) /\ (Len(text) <= CaptionMax => cut = text)
      /\ Plain(text) => Accepts(cut)
  BY <1>1, <1>3, CutText
<1> HIDE DEF cut
<1>5. CASE Plain(u)
  BY <1>3, <1>4, <1>5 DEF text, cut
<1>6. CASE ~Plain(u)
  <2>1. Len(u) <= Longest(post)
    <3>1. Longest(post) \in Nat
      BY <1>1 DEF Longest
    <3> QED
      BY <1>2, <1>6, <3>1 DEF Whole
  <2>2. Len(u) <= TextMax /\ (post.media # <<>> => Len(u) <= CaptionMax)
    BY <1>1, <1>2, <2>1 DEF Longest
  <2>3. text = u /\ (post.media # <<>> => cut = u)
    BY <1>3, <1>4, <2>2
  <2> QED
    BY <1>2, <1>3, <2>3 DEF text, cut
<1> QED
  BY <1>5, <1>6

\* Telegram can parse every message of it.
LEMMA EveryMessage ==
  ASSUME NEW r \in Calls, Accepts(r.text), Says(r.text), Whole(r.post, r.text), NEW n \in 1..Len(RequestsOf(r))
  PROVE  \A k \in DOMAIN RequestsOf(r)[n].messages :
            LET m == RequestsOf(r)[n].messages[k] IN Takes(m) /\ (HasEmoji(m.text) => HasEmoji(r.text))
<1> DEFINE u == r.text
           text == Cut(u, TextMax)
           T == {t \in Texts : Accepts(t) /\ (HasEmoji(t) => HasEmoji(u))}
           c == RequestsOf(r)
           post == r.post
           media == post.media
<1>1. u \in Seq(Tag) /\ u \in Texts /\ post.keys \in Flags /\ media \in Seq(MediaTypes)
  BY KnownText, NamesOK
<1>2. text \in T /\ Chars(text) > 0 /\ (media # <<>> => Cut(text, CaptionMax) \in T)
  BY <1>1, Uncut
<1>3. <<>> \in T
  BY NothingAccepted
<1>4. \A t \in T : Accepts(t) /\ (HasEmoji(t) => HasEmoji(u))
  OBVIOUS
<1>5. c = Requests(post, u)
  BY DEF RequestsOf
<1> HIDE DEF T, text, u, post
<1>6. Carries(c, media, T) /\ All(c, Speaking(text, T))
  <2>1. \A d : d = Requests(post, u) => Carries(d, media, T) /\ All(d, Speaking(text, T))
    <3>1. text = Cut(u, TextMax)
      BY DEF text
    <3> QED
      BY <1>1, <1>2, <1>3, <3>1, PostSays
  <2> QED
    BY <1>5, <2>1, Zenon
<1>7. DOMAIN c = 1..Len(c)
  BY CallsOf
<1>8. c[n] \in Asks(T) /\ c[n] \in Speaking(text, T)
  BY <1>6, <1>7 DEF Carries, All
<1> DEFINE messages == c[n].messages
<1>9. messages \in Seq(Messages(T)) /\ \A k \in DOMAIN messages : messages[k].item = TextItem => messages[k].text = text
  BY <1>8 DEF Asks, Speaking
<1> HIDE DEF messages
<1>10. \A k \in DOMAIN messages : messages[k].text \in T
  <2>1. \A k \in DOMAIN messages : messages[k] \in Messages(T)
    <3> HIDE DEF Messages
    <3> QED
      BY <1>9, LenProperties, ElementOfSeq
  <2> QED
    BY <2>1 DEF Messages
<1>11. \A k \in DOMAIN messages : Takes(messages[k]) /\ (HasEmoji(messages[k].text) => HasEmoji(u))
  BY <1>2, <1>4, <1>9, <1>10 DEF Takes
<1> QED
  BY <1>11 DEF messages, c, u

\* What a step of a post makes of its call.
TriesAgain(r) == r.pc = "undoing" /\ r.why = "emoji" /\ r.attempt = 1
Keeps(r, s) == s.post = r.post /\ s.text = r.text /\ s.attempt = r.attempt
GoesOn(r, s) == r.pc = "sending" /\ Keeps(r, s) /\ (s.pc = "sending" \/ (s.pc = "over" /\ s.ok))
CleansUp(r, s) ==
  /\ r.pc = "undoing" /\ Keeps(r, s) /\ s.why = r.why /\ s.ok = r.ok
  /\ s.pc = "undoing" \/ (s.pc = "over" /\ ~TriesAgain(r))
Repeats(r, s) ==
  TriesAgain(r) /\ s.pc = "sending" /\ s.attempt = 2 /\ s.post = r.post /\ s.text = Sanitize(StripEmoji(r.text))
Stops(r, s) == r.pc = "sending" /\ Keeps(r, s) /\ s.pc = "undoing" /\ ~s.ok

\* Why it stops, and whether that is one of the faults.
ForCause(c, s) ==
  \/ s.why = "parse" /\ ~Parses(c)
  \/ s.why = "emoji" /\ \E k \in DOMAIN NextRequest(c) : HasEmoji(NextRequest(c)[k].text)
  \/ s.why \in {"refuse", "answer"} /\ postFaults < MaxPostFaults /\ postFaults' = postFaults + 1

Advances(c, s) ==
  LET r == call[c] IN
  /\ call' = [call EXCEPT ![c] = s] /\ r.pc # "none" /\ s.pc # "none" /\ postFaults' >= postFaults
  /\ GoesOn(r, s) \/ CleansUp(r, s) \/ Repeats(r, s) \/ (Stops(r, s) /\ ForCause(c, s))

LEMMA FailsAdvances ==
  ASSUME Types, NEW c \in Callers, Sending(c), NEW why \in {"parse", "refuse", "emoji", "answer"}, Fails(c, why),
         postFaults' >= postFaults,
         why = "parse" => ~Parses(c),
         why = "emoji" => \E k \in DOMAIN NextRequest(c) : HasEmoji(NextRequest(c)[k].text),
         why \in {"refuse", "answer"} => postFaults < MaxPostFaults /\ postFaults' = postFaults + 1
  PROVE  \E s : Advances(c, s)
<1> DEFINE r == call[c]
           undo == Known(r)
           stray == r.stray \/ why = "answer" \/ Outstanding(r)
           s == [r EXCEPT !.pc = "undoing", !.undo = undo, !.why = why, !.stray = stray]
<1>1. r \in Calls /\ CallOK(r) /\ r.pc = "sending"
  BY DEF Types, PostOK, Sending
<1>2. call' = [call EXCEPT ![c] = s]
  BY DEF Fails
<1> HIDE DEF undo, stray
<1>3. s.pc = "undoing" /\ s.why = why /\ s.post = r.post /\ s.text = r.text /\ s.attempt = r.attempt /\ s.ok = r.ok
  BY <1>1 DEF Calls
<1>4. ~r.ok
  BY <1>1 DEF CallOK
<1> HIDE DEF s
<1>5. ForCause(c, s)
  <2> HIDE DEF Parses, NextRequest
  <2> QED
    BY <1>3 DEF ForCause
<1>6. Stops(r, s)
  BY <1>1, <1>3, <1>4 DEF Stops, Keeps
<1>7. Advances(c, s)
  BY <1>1, <1>2, <1>3, <1>5, <1>6 DEF Advances
<1> QED
  BY <1>7

LEMMA PostAdvances ==
  ASSUME Types, NEW c \in Callers, PostStep(c)
  PROVE  \E s : Advances(c, s)
<1> DEFINE r == call[c]
<1>1. r \in Calls /\ CallOK(r) /\ postFaults \in Nat /\ MaxPostFaults \in Nat
  BY PostAssumption DEF Types, PostOK
<1>2. \A kind : PostFault(kind) => postFaults < MaxPostFaults /\ postFaults' = postFaults + 1 /\ postFaults' >= postFaults
  BY <1>1 DEF PostFault
<1>3. postFaults' = postFaults => postFaults' >= postFaults
  BY <1>1
<1>4. CASE Deliver(c)
  <2> DEFINE made == r.made + 1
             last == made = Len(RequestsOf(r))
             pc == IF last THEN "over" ELSE "sending"
             s == [r EXCEPT !.made = made, !.pc = pc, !.ok = last]
  <2>1. call' = [call EXCEPT ![c] = s] /\ r.pc = "sending" /\ postFaults' = postFaults
    BY <1>1, <1>4 DEF Deliver, Calls, Sending
  <2>2. pc \in {"sending", "over"} /\ (pc = "over" => last)
    OBVIOUS
  <2> HIDE DEF made, last, pc
  <2>3. s.pc = pc /\ s.ok = last /\ s.post = r.post /\ s.text = r.text /\ s.attempt = r.attempt
    BY <1>1 DEF Calls
  <2> HIDE DEF s
  <2>4. GoesOn(r, s)
    BY <2>1, <2>2, <2>3 DEF GoesOn, Keeps
  <2>5. Advances(c, s)
    BY <1>3, <2>1, <2>2, <2>3, <2>4 DEF Advances
  <2> QED
    BY <2>5
<1>5. CASE Refuse(c)
  <2>1. CASE ~Parses(c) /\ Fails(c, "parse") /\ UNCHANGED postFaults
    <3>1. Sending(c)
      BY <1>5 DEF Refuse
    <3> QED
      BY <1>3, <2>1, <3>1, FailsAdvances
  <2>2. CASE PostFault("refuse") /\ Fails(c, "refuse")
    <3>1. Sending(c)
      BY <1>5 DEF Refuse
    <3> QED
      BY <1>2, <2>2, <3>1, FailsAdvances
  <2> QED
    BY <1>5, <2>1, <2>2 DEF Refuse
<1>6. CASE RefuseEmoji(c)
  <2>1. /\ Sending(c) /\ Fails(c, "emoji") /\ postFaults' = postFaults
        /\ \E k \in DOMAIN NextRequest(c) : HasEmoji(NextRequest(c)[k].text)
    BY <1>6 DEF RefuseEmoji
  <2> QED
    BY <1>3, <2>1, FailsAdvances
<1>7. CASE LoseAnswer(c)
  <2>1. Sending(c) /\ Fails(c, "answer") /\ PostFault("answer")
    BY <1>7 DEF LoseAnswer
  <2> QED
    BY <1>2, <2>1, FailsAdvances
<1>8. CASE Undo(c)
  <2> DEFINE rest == Tail(r.undo)
             undone == [r EXCEPT !.undo = rest]
             astray == [r EXCEPT !.undo = rest, !.stray = TRUE]
  <2>1. /\ call' = [call EXCEPT ![c] = undone] \/ call' = [call EXCEPT ![c] = astray]
        /\ r.pc = "undoing" /\ postFaults' >= postFaults
    <3>1. call' = [call EXCEPT ![c] = undone] \/ call' = [call EXCEPT ![c] = astray]
      BY <1>1, <1>8 DEF Undo
    <3>2. r.pc = "undoing" /\ (postFaults' = postFaults \/ PostFault("delete"))
      BY <1>8 DEF Undo
    <3> QED
      BY <1>2, <1>3, <3>1, <3>2
  <2> HIDE DEF rest
  <2>2. ASSUME NEW s \in {undone, astray}
        PROVE  s.pc = "undoing" /\ s.why = r.why /\ s.ok = r.ok /\ s.post = r.post /\ s.text = r.text /\ s.attempt = r.attempt
    BY <1>1, <2>1 DEF Calls
  <2>3. PICK s \in {undone, astray} : call' = [call EXCEPT ![c] = s]
    BY <2>1
  <2> HIDE DEF undone, astray
  <2>4. CleansUp(r, s)
    BY <2>1, <2>2 DEF CleansUp, Keeps
  <2>5. Advances(c, s)
    BY <2>1, <2>2, <2>3, <2>4 DEF Advances
  <2> QED
    BY <2>5
<1>9. CASE Undone(c)
  <2> DEFINE text == Sanitize(StripEmoji(r.text))
             again == [r EXCEPT !.pc = "sending", !.attempt = 2, !.made = 0, !.text = text]
             over == [r EXCEPT !.pc = "over"]
  <2>1. /\ r.pc = "undoing" /\ postFaults' = postFaults
        /\ \/ call' = [call EXCEPT ![c] = again] /\ r.why = "emoji" /\ r.attempt = 1
           \/ call' = [call EXCEPT ![c] = over] /\ ~(r.why = "emoji" /\ r.attempt = 1)
    BY <1>9 DEF Undone
  <2> HIDE DEF text
  <2>2. /\ again.pc = "sending" /\ again.attempt = 2 /\ again.post = r.post /\ again.text = text
        /\ over.pc = "over" /\ over.why = r.why /\ over.ok = r.ok /\ over.post = r.post /\ over.text = r.text /\ over.attempt = r.attempt
    BY <1>1 DEF Calls
  <2> HIDE DEF again, over
  <2>3. CASE call' = [call EXCEPT ![c] = again] /\ r.why = "emoji" /\ r.attempt = 1
    <3>1. Repeats(r, again)
      BY <2>1, <2>2, <2>3 DEF Repeats, TriesAgain, text
    <3>2. Advances(c, again)
      BY <1>3, <2>1, <2>2, <2>3, <3>1 DEF Advances
    <3> QED
      BY <3>2
  <2>4. CASE call' = [call EXCEPT ![c] = over] /\ ~(r.why = "emoji" /\ r.attempt = 1)
    <3>1. CleansUp(r, over)
      BY <2>1, <2>2, <2>4 DEF CleansUp, Keeps, TriesAgain
    <3>2. Advances(c, over)
      BY <1>3, <2>1, <2>2, <2>4, <3>1 DEF Advances
    <3> QED
      BY <3>2
  <2> QED
    BY <2>1, <2>3, <2>4
<1> QED
  BY <1>4, <1>5, <1>6, <1>7, <1>8, <1>9 DEF PostStep

\* The owner of a caller starts its post, or forgets it.
Begun(r) == r.pc = "sending" /\ r.attempt = 1 /\ r.text = Sanitize(r.post.text)

LEMMA StartsBegun ==
  ASSUME Types, NEW c \in Callers, NEW by, NEW about, NEW at, NEW post, StartPost(c, by, about, at, post)
  PROVE  \A d \in Callers : call'[d] = call[d] \/ Begun(call'[d])
<1> DEFINE text == Sanitize(post.text)
           label == [by |-> by, about |-> {about}, at |-> at, serial |-> posts + 1]
           s == [NotPosting EXCEPT !.pc = "sending", !.post = post, !.text = text, !.label = label]
<1>1. call' = [call EXCEPT ![c] = s]
  BY DEF StartPost
<1> HIDE DEF text, label
<1>2. s.pc = "sending" /\ s.attempt = 1 /\ s.text = text /\ s.post = post
  <2>1. NotPosting \in Calls /\ NotPosting.attempt = 1
    BY NobodyPosts DEF NotPosting
  <2> HIDE DEF NotPosting
  <2> QED
    BY <2>1 DEF Calls
<1> HIDE DEF s
<1>3. Begun(s)
  BY <1>2 DEF Begun, text
<1> HIDE DEF Begun
<1> QED
  BY <1>1, <1>3 DEF Types, PostOK

LEMMA CallBegins ==
  ASSUME Types, AdsNext \/ WeatherNext
  PROVE  \A d \in Callers : call'[d].pc # "none" => call'[d] = call[d] \/ Begun(call'[d])
<1> HIDE DEF Begun
<1>1. CASE call' = call
  BY <1>1
<1>2. CASE \E n \in Callers : call' = [call EXCEPT ![n] = NotPosting]
  <2>1. NotPosting.pc = "none"
    BY NobodyPosts
  <2> HIDE DEF NotPosting
  <2> QED
    BY <1>2, <2>1 DEF Types, PostOK
<1>3. CASE AdsNext
  <2>1. AdSlots \subseteq Callers
    BY AdsAssumption
  <2>2. CASE \E n \in AdSlots : StartAd(n)
    <3>1. PICK n \in AdSlots : StartPost(n, adTask[n].by, adTask[n].ad, now, ad[adTask[n].ad].post)
      BY <2>2 DEF StartAd
    <3> QED
      BY <2>1, <3>1, StartsBegun
  <2>3. CASE \E n \in AdSlots : AdPublished(n) \/ AdNotPublished(n) \/ AdWorkerDies(n)
    <3>1. \E n \in AdSlots : call' = [call EXCEPT ![n] = NotPosting]
      BY <2>3 DEF AdPublished, AdNotPublished, AdWorkerDies
    <3> QED
      BY <1>2, <2>1, <3>1
  <2> QED
    BY <1>1, <1>3, <2>2, <2>3 DEF AdsNext, BeatAd, PublishByHand, SetAuto, DeleteAd, SetStatus, AdUnpublishable, postVars
<1>4. CASE WeatherNext
  <2>1. WeatherSlots \subseteq Callers
    BY WeatherAssumption
  <2>2. CASE \E n \in WeatherSlots : \E channel \in weatherRun[n].channels : PostWeather(n, channel)
    <3>1. PICK n \in WeatherSlots : \E channel \in weatherRun[n].channels : PostWeather(n, channel)
      BY <2>2
    <3>2. PICK channel \in weatherRun[n].channels : PostWeather(n, channel)
      BY <3>1
    <3>3. StartPost(n, weatherRun[n].by, channel, now, WeatherPost)
      BY <3>2 DEF PostWeather
    <3> HIDE DEF WeatherPost
    <3> QED
      BY <2>1, <3>3, StartsBegun
  <2>3. CASE \E n \in WeatherSlots : call' = [call EXCEPT ![n] = NotPosting]
    <3> QED
      BY <1>2, <2>1, <2>3
  <2> HIDE DEF WeatherPost
  <2> QED
    BY <1>1, <1>4, <2>2, <2>3 DEF WeatherNext, BeatWeather, PressButton, StartRun, NextCity, WeatherPosted, EndCity, CommitRun,
                                  RunFails, RunLost, postVars
<1> QED
  BY <1>3, <1>4

\* What is sent is the sanitized text, then that without its emoji; and a call
\* that will not be repeated has not failed for nothing.
Failed(r) == r.pc \in {"undoing", "over"} /\ ~r.ok /\ ~TriesAgain(r)
TextSent(r) == IF r.attempt = 1 THEN Sanitize(r.post.text) ELSE Sanitize(StripEmoji(Sanitize(r.post.text)))
CauseOK(r) ==
  r.pc # "none" =>
    /\ r.text = TextSent(r)
    /\ Failed(r) => r.why \in {"refuse", "answer"} \/ Unsendable(r.post, r.text)
CauseInv == \A c \in Callers : CauseOK(call[c])

LEMMA SentText ==
  ASSUME NEW r \in Calls, r.text = TextSent(r), ~Unsendable(r.post, r.text)
  PROVE  /\ Accepts(r.text) /\ Says(r.text) /\ Whole(r.post, r.text)
         /\ r.attempt = 2 => ~HasEmoji(r.text)
<1> DEFINE text == r.post.text
           first == Sanitize(text)
           again == Sanitize(StripEmoji(first))
<1>1. text \in Texts /\ r.attempt \in 1..2
  <2>1. r.post \in KnownPosts /\ r.attempt \in 1..2
    BY DEF Calls
  <2> QED
    BY <2>1, PostText
<1>2. Chars(text) # 0 /\ Whole(r.post, r.text) /\ ~EmojiNested(first)
  BY DEF Unsendable, Whole
<1>3. Says(text)
  <2>1. Chars(text) \in Nat /\ (Says(text) <=> Chars(text) > 0)
    BY <1>1, CharsOf
  <2> QED
    BY <1>2, <2>1
<1>4. Accepts(first) /\ Accepts(again)
  BY <1>1, SanitizedIsAccepted, StrippedIsAccepted
<1>5. Says(first) /\ Says(again) /\ ~HasEmoji(again)
  BY <1>1, <1>2, <1>3, StrippedLosesEmojiOnly
<1>6. r.text = IF r.attempt = 1 THEN first ELSE again
  BY DEF TextSent
<1> HIDE DEF first, again, text
<1> QED
  BY <1>2, <1>4, <1>5, <1>6

LEMMA NextTaken ==
  ASSUME Types, NEW c \in Callers, call[c].pc = "sending", CauseOK(call[c]), ~Unsendable(call[c].post, call[c].text)
  PROVE  /\ Parses(c)
         /\ call[c].attempt = 2 => \A k \in DOMAIN NextRequest(c) : ~HasEmoji(NextRequest(c)[k].text)
<1> DEFINE r == call[c]
           n == r.made + 1
<1>1. r \in Calls /\ r.text = TextSent(r) /\ n \in 1..Len(RequestsOf(r))
  <2>1. CallOK(r) /\ r \in Calls /\ r.pc = "sending"
    BY DEF Types, PostOK
  <2>2. r.made \in Nat /\ Len(RequestsOf(r)) \in Nat /\ r.made < Len(RequestsOf(r))
    BY <2>1, CallsOf DEF CallOK, Calls
  <2>3. r.text = TextSent(r)
    BY DEF CauseOK
  <2> QED
    BY <2>1, <2>2, <2>3
<1>2. NextRequest(c) = RequestsOf(r)[n].messages
  BY DEF NextRequest
<1>3. ~Unsendable(r.post, r.text)
  OBVIOUS
<1> HIDE DEF r, n
<1>4. Accepts(r.text) /\ Says(r.text) /\ Whole(r.post, r.text) /\ (r.attempt = 2 => ~HasEmoji(r.text))
  BY <1>1, <1>3, SentText
<1> DEFINE messages == RequestsOf(r)[n].messages
<1>5. \A k \in DOMAIN messages : Takes(messages[k]) /\ (HasEmoji(messages[k].text) => HasEmoji(r.text))
  BY <1>1, <1>4, EveryMessage
<1> HIDE DEF messages
<1>6. NextRequest(c) = messages
  BY <1>2 DEF messages
<1> QED
  BY <1>4, <1>5, <1>6 DEF Parses, r

LEMMA CauseOfPostStep ==
  ASSUME Types, CauseInv, NEW c \in Callers, PostStep(c)
  PROVE  CauseInv'
<1> DEFINE r == call[c]
<1>1. PICK s : Advances(c, s)
  BY PostAdvances
<1>2. call' = [call EXCEPT ![c] = s] /\ r.pc # "none"
  BY <1>1 DEF Advances
<1>3. call \in [Callers -> Calls] /\ CallOK(r) /\ r \in Calls /\ r.attempt \in 1..2
  BY DEF Types, PostOK, Calls
<1>4. CauseOK(r) /\ r.text = TextSent(r)
  BY <1>2 DEF CauseInv, CauseOK
<1>5. CauseOK(s)
  <2>1. ASSUME Keeps(r, s) PROVE s.text = TextSent(s) /\ (Unsendable(r.post, r.text) => Unsendable(s.post, s.text))
    BY <1>4, <2>1 DEF Keeps, TextSent
  <2>2. CASE GoesOn(r, s)
    BY <2>1, <2>2 DEF GoesOn, CauseOK, Failed
  <2>3. CASE CleansUp(r, s)
    <3>1. Keeps(r, s) /\ s.why = r.why /\ (Failed(s) => Failed(r))
      BY <2>3 DEF CleansUp, Failed, Keeps, TriesAgain
    <3>2. Failed(r) => r.why \in {"refuse", "answer"} \/ Unsendable(r.post, r.text)
      BY <1>2, <1>4 DEF CauseOK
    <3> QED
      BY <2>1, <3>1, <3>2 DEF CauseOK
  <2>4. CASE Repeats(r, s)
    <3>1. s.pc = "sending" /\ s.attempt = 2 /\ s.post = r.post /\ s.text = Sanitize(StripEmoji(r.text)) /\ r.attempt = 1
      BY <2>4 DEF Repeats, TriesAgain
    <3>2. r.text = Sanitize(r.post.text)
      BY <1>4, <3>1 DEF TextSent
    <3> QED
      BY <3>1, <3>2 DEF CauseOK, TextSent, Failed
  <2>5. CASE Stops(r, s) /\ ForCause(c, s)
    <3>1. Keeps(r, s) /\ r.pc = "sending" /\ s.pc = "undoing"
      BY <2>5 DEF Stops
    <3>2. CASE s.why \in {"refuse", "answer"}
      BY <2>1, <3>1, <3>2 DEF CauseOK
    <3>3. CASE Unsendable(r.post, r.text)
      BY <2>1, <3>1, <3>3 DEF CauseOK
    <3>4. CASE ~Unsendable(r.post, r.text) /\ s.why \notin {"refuse", "answer"}
      <4>1. Parses(c) /\ (r.attempt = 2 => \A k \in DOMAIN NextRequest(c) : ~HasEmoji(NextRequest(c)[k].text))
        BY <1>4, <3>1, <3>4, NextTaken
      <4>2. s.why = "emoji" /\ r.attempt # 2
        BY <2>5, <3>4, <4>1 DEF ForCause
      <4>3. s.attempt = 1
        BY <1>3, <3>1, <4>2 DEF Keeps
      <4>4. ~Failed(s)
        BY <3>1, <4>2, <4>3 DEF Failed, TriesAgain
      <4> QED
        BY <2>1, <3>1, <4>4 DEF CauseOK
    <3> QED
      BY <3>2, <3>3, <3>4
  <2> QED
    BY <1>1, <2>2, <2>3, <2>4, <2>5 DEF Advances
<1> HIDE DEF CauseOK
<1>6. \A d \in Callers : call'[d] = IF d = c THEN s ELSE call[d]
  BY <1>2, <1>3
<1> QED
  BY <1>5, <1>6 DEF CauseInv

LEMMA CauseNext ==
  ASSUME Types, CauseInv, [Next]_postingVars
  PROVE  CauseInv'
<1>1. CASE AdsNext \/ WeatherNext
  <2>1. \A d \in Callers : call'[d].pc # "none" => call'[d] = call[d] \/ Begun(call'[d])
    BY <1>1, CallBegins
  <2>2. \A s : Begun(s) => CauseOK(s)
    BY DEF Begun, CauseOK, TextSent, Failed
  <2>3. \A s : s.pc = "none" => CauseOK(s)
    BY DEF CauseOK
  <2> HIDE DEF CauseOK, Begun
  <2> QED
    BY <2>1, <2>2, <2>3 DEF CauseInv
<1>2. CASE \E c \in Callers : PostStep(c)
  BY <1>2, CauseOfPostStep
<1>3. CASE call' = call
  BY <1>3 DEF CauseInv
<1> QED
  BY <1>1, <1>2, <1>3 DEF Next, Tick, postingVars, postVars

LEMMA CauseInit ==
  ASSUME Init
  PROVE  CauseInv
<1>1. \A c \in Callers : call[c].pc = "none"
  BY NobodyPosts DEF Init, PostInit
<1> QED
  BY <1>1 DEF CauseInv, CauseOK

LEMMA CauseHolds == Spec => []CauseInv
<1>1. Types /\ CauseInv /\ [Next]_postingVars => CauseInv'
  BY CauseNext
<1>2. Init => CauseInv
  BY CauseInit
<1>3. Spec => []Types
  BY TypesHold
<1> QED
  BY <1>1, <1>2, <1>3, PTL DEF Spec

\* TelegramPublisher and the sanitizer: every post gets out in the end, whatever
\* its media are and however tangled its markup is, unless Telegram refuses it
\* for a reason of its own, an answer is lost, the post says nothing, markup is
\* cut where it is too long, or an emoji is within an emoji.
THEOREM FailuresHaveCause == Spec => []FailsForCause
<1>1. Types /\ CauseInv => FailsForCause
  <2> SUFFICES ASSUME Types, CauseInv, NEW c \in Callers, call[c].pc = "over", ~call[c].ok
               PROVE  call[c].why \in {"refuse", "answer"} \/ Unsendable(call[c].post, call[c].text)
    BY DEF FailsForCause
  <2>1. CauseOK(call[c]) /\ Failed(call[c])
    BY DEF CauseInv, Failed, TriesAgain
  <2> QED
    BY <2>1 DEF CauseOK
<1>2. Spec => []Types
  BY TypesHold
<1> QED
  BY <1>1, <1>2, CauseHolds, PTL

-----------------------------------------------------------------------------
(* An ad that is due comes: its task has an attempt left for everything that *)
(* can still fail.                                                           *)

Left == (MaxAdFaults - adFaults) + (MaxPostFaults - postFaults)
Spent(n) == adTask[n].attempt + (IF adTask[n].pc = "posting" /\ Failed(call[n]) THEN 1 ELSE 0)

\* What a text is sent as, first and in the end.
Sendable(post) == ~Unsendable(post, Sanitize(post.text)) /\ ~Unsendable(post, Sanitize(StripEmoji(Sanitize(post.text))))

DueAds == {a \in AdIds \ disturbed.edited : Publishable(a)}
Came(a) == ad[a].recorded # NoLabel \/ \E n \in AdSlots : Busy(adTask[n], a)
Looked(a, t) == t < now \/ (t = now /\ a \in asked)

DueTask(n) ==
  adTask[n].pc # "none" /\ adTask[n].ad \in DueAds =>
    /\ adTask[n].by = "beat" /\ Spent(n) + Left <= AdRetries
    /\ adTask[n].pc = "posting" => call[n].post = ad[adTask[n].ad].post

\* Beat looks at it in every minute it matches, and finds it, until it is posted.
DueAd(a) ==
  /\ Selected(a) \/ ad[a].recorded # NoLabel
  /\ Sendable(ad[a].post)
  /\ \A t \in 0..MaxNow : Matches(ScheduleOf[a], t) /\ Looked(a, t) => Came(a)

DueInv == "ads" \in beats => Left <= AdRetries /\ (\A n \in AdSlots : DueTask(n)) /\ \A a \in DueAds : DueAd(a)

\* The rows of the ads nobody has edited.
RowsStay == \A a \in DueAds' : a \in DueAds /\ ad'[a].post = ad[a].post /\ (ad'[a] = ad[a] \/ ad'[a].recorded # NoLabel)

LEMMA FaultsLeft == \A a, p \in Nat : \A x \in 0..a, y \in 0..p : (a - x) + (p - y) \in Nat
OBVIOUS

LEMMA NoFaultMore == \A l, x, y \in Nat : y >= x => l - (y - x) <= l
OBVIOUS

LEMMA DueTyped ==
  ASSUME Types
  PROVE  /\ Left \in Nat /\ AdRetries \in Nat /\ MaxNow \in Nat /\ now \in Nat
         /\ adFaults \in 0..MaxAdFaults /\ postFaults \in 0..MaxPostFaults /\ MaxAdFaults \in Nat /\ MaxPostFaults \in Nat
         /\ adTask \in [AdSlots -> AdTasks]
         /\ \A n \in AdSlots : adTask[n].attempt \in Nat /\ Spent(n) \in Nat
<1>1. MaxAdFaults \in Nat /\ MaxPostFaults \in Nat /\ AdRetries \in Nat /\ MaxNow \in Nat
  BY AdsAssumption, PostAssumption, PostingAssumption
<1>2. adFaults \in 0..MaxAdFaults /\ postFaults \in 0..MaxPostFaults /\ now \in Nat
  BY DEF Types, AdsOK, PostOK, ClockOK
<1>3. adTask \in [AdSlots -> AdTasks]
  BY DEF Types, AdsOK
<1>4. \A n \in AdSlots : adTask[n].attempt \in Nat
  BY <1>1, <1>3 DEF AdTasks
<1>5. \A n \in AdSlots : Spent(n) \in Nat
  BY <1>4 DEF Spent
<1>6. Left \in Nat
  BY <1>1, <1>2 DEF Left
<1> QED
  BY <1>1, <1>2, <1>3, <1>4, <1>5, <1>6

LEMMA DueKept ==
  ASSUME Types, Types', DueInv, beats' = beats, RowsStay, Left' <= Left,
         \A n \in AdSlots : (adTask'[n] = adTask[n] /\ call'[n] = call[n]) \/ ("ads" \in beats => DueTask(n)'),
         \A a \in DueAds' : Came(a) => Came(a)',
         \A a \in DueAds', t \in 0..MaxNow : Matches(ScheduleOf[a], t) /\ Looked(a, t)' => Looked(a, t) \/ ("ads" \in beats => Came(a)')
  PROVE  DueInv'
<1> SUFFICES ASSUME "ads" \in beats
             PROVE  Left' <= AdRetries /\ (\A n \in AdSlots : DueTask(n)') /\ \A a \in DueAds' : DueAd(a)'
  BY DEF DueInv
<1>1. Left <= AdRetries /\ (\A n \in AdSlots : DueTask(n)) /\ \A a \in DueAds : DueAd(a)
  BY DEF DueInv
<1>2. Left \in Nat /\ Left' \in Nat /\ AdRetries \in Nat /\ \A n \in AdSlots : Spent(n) \in Nat
  <2>1. adFaults' \in 0..MaxAdFaults /\ postFaults' \in 0..MaxPostFaults /\ MaxAdFaults \in Nat /\ MaxPostFaults \in Nat
    BY DueTyped DEF Types, AdsOK, PostOK
  <2>2. Left' \in Nat
    BY <2>1, FaultsLeft, Zenon DEF Left
  <2> QED
    BY <2>2, DueTyped
<1>3. Left' <= AdRetries
  BY <1>1, <1>2
<1>4. ASSUME NEW n \in AdSlots PROVE DueTask(n)'
  <2>1. CASE "ads" \in beats => DueTask(n)'
    BY <2>1
  <2>2. CASE adTask'[n] = adTask[n] /\ call'[n] = call[n]
    <3> SUFFICES ASSUME adTask[n].pc # "none", adTask[n].ad \in DueAds'
                 PROVE  /\ adTask[n].by = "beat" /\ Spent(n)' + Left' <= AdRetries
                        /\ adTask[n].pc = "posting" => call[n].post = ad'[adTask[n].ad].post
      BY <2>2 DEF DueTask
    <3>1. adTask[n].ad \in DueAds /\ ad'[adTask[n].ad].post = ad[adTask[n].ad].post
      BY DEF RowsStay
    <3>2. adTask[n].by = "beat" /\ Spent(n) + Left <= AdRetries /\ (adTask[n].pc = "posting" => call[n].post = ad[adTask[n].ad].post)
      BY <1>1, <3>1 DEF DueTask
    <3>3. Spent(n)' = Spent(n)
      BY <2>2 DEF Spent
    <3>4. Spent(n) + Left' <= AdRetries
      <4>1. Spent(n) \in Nat
        BY <1>2
      <4> HIDE DEF Left, Spent
      <4> QED
        BY <1>2, <3>2, <4>1
    <3> QED
      BY <3>1, <3>2, <3>3, <3>4
  <2> QED
    BY <2>1, <2>2
<1>5. ASSUME NEW a \in DueAds' PROVE DueAd(a)'
  <2>1. a \in DueAds /\ ad'[a].post = ad[a].post /\ (ad'[a] = ad[a] \/ ad'[a].recorded # NoLabel)
    BY DEF RowsStay
  <2>2. (Selected(a) \/ ad[a].recorded # NoLabel) /\ Sendable(ad[a].post)
    BY <1>1, <2>1 DEF DueAd
  <2>3. \A t \in 0..MaxNow : Matches(ScheduleOf[a], t) /\ Looked(a, t) => Came(a)
    BY <1>1, <2>1 DEF DueAd
  <2>4. Selected(a)' \/ ad'[a].recorded # NoLabel
    BY <2>1, <2>2 DEF Selected
  <2>5. \A t \in 0..MaxNow : Matches(ScheduleOf[a], t) /\ Looked(a, t)' => Came(a)'
    BY <2>3
  <2>6. Sendable(ad[a].post)'
    BY <2>1, <2>2 DEF Sendable
  <2> QED
    BY <2>4, <2>5, <2>6 DEF DueAd
<1> QED
  BY <1>3, <1>4, <1>5

\* A task goes on, or it has posted its ad.
LEMMA CameStays ==
  ASSUME Types, RowsStay, NEW a \in DueAds', Came(a), NEW n \in AdSlots, NEW u, adTask' = [adTask EXCEPT ![n] = u],
         Busy(adTask[n], a) => Busy(u, a) \/ ad'[a].recorded # NoLabel
  PROVE  Came(a)'
<1>1. \A m \in AdSlots : adTask'[m] = IF m = n THEN u ELSE adTask[m]
  BY DEF Types, AdsOK
<1>2. ad[a].recorded # NoLabel => ad'[a].recorded # NoLabel
  BY DEF RowsStay
<1> HIDE DEF Busy
<1>3. \A m \in AdSlots : Busy(adTask[m], a) => Busy(adTask'[m], a) \/ ad'[a].recorded # NoLabel
  BY <1>1
<1> QED
  BY <1>2, <1>3 DEF Came

LEMMA DueOfTick ==
  ASSUME Types, Types', Punctual, DueInv, Tick
  PROVE  DueInv'
<1>1. /\ adTask' = adTask /\ call' = call /\ ad' = ad /\ disturbed' = disturbed /\ beats' = beats /\ now' = now + 1
      /\ adFaults' = adFaults /\ postFaults' = postFaults
  BY DEF Tick, postVars
<1>2. RowsStay /\ DueAds' = DueAds
  BY <1>1 DEF RowsStay, DueAds, Publishable
<1>3. \A a \in DueAds' : Came(a) => Came(a)'
  BY <1>1 DEF Came
<1>4. \A a \in DueAds', t \in 0..MaxNow : Matches(ScheduleOf[a], t) /\ Looked(a, t)' => Looked(a, t) \/ ("ads" \in beats => Came(a)')
  <2> SUFFICES ASSUME NEW a \in DueAds', NEW t \in 0..MaxNow, Looked(a, t)', "ads" \in beats PROVE Looked(a, t)
    OBVIOUS
  <2>1. asked' = {} /\ now \in Nat /\ MaxNow \in Nat /\ a \in AdIds
    BY DueTyped DEF Tick, DueAds
  <2>2. t < now + 1
    BY <1>1, <2>1 DEF Looked
  <2>3. t < now \/ (t = now /\ now <= MaxNow)
    BY <2>1, <2>2
  <2>4. now <= MaxNow => asked = AdIds
    BY <2>1 DEF Tick, Beaten
  <2> QED
    BY <2>1, <2>3, <2>4 DEF Looked
<1>5. Left' = Left /\ Left \in Nat
  BY <1>1, DueTyped DEF Left
<1>6. Left' <= Left
  BY <1>5
<1> HIDE DEF Came, Looked, Left, RowsStay
<1> QED
  BY <1>1, <1>2, <1>3, <1>4, <1>6, DueKept

\* Nothing of the ads changes.
LEMMA DueQuiet ==
  ASSUME Types, Types', DueInv, UNCHANGED adVars, now' = now, beats' = beats, postFaults' = postFaults,
         \A n \in AdSlots : call'[n] = call[n]
  PROVE  DueInv'
<1>1. adTask' = adTask /\ ad' = ad /\ disturbed' = disturbed /\ asked' = asked /\ adFaults' = adFaults
  BY DEF adVars
<1>2. RowsStay /\ DueAds' = DueAds
  BY <1>1 DEF RowsStay, DueAds, Publishable
<1>3. \A a \in DueAds' : Came(a) => Came(a)'
  BY <1>1 DEF Came
<1>4. \A a, t : Looked(a, t)' => Looked(a, t)
  BY <1>1 DEF Looked
<1>5. Left' = Left /\ Left \in Nat
  BY <1>1, DueTyped DEF Left
<1>6. Left' <= Left
  BY <1>5
<1> HIDE DEF Came, Looked, Left, RowsStay
<1> QED
  BY <1>1, <1>2, <1>3, <1>4, <1>6, DueKept

\* A fault takes an attempt of the ad it hits.
LEMMA DueOfPostStep ==
  ASSUME Types, Types', CauseInv, CauseInv', DueInv, NEW c \in Callers, PostStep(c), UNCHANGED <<adVars, calendarVars>>
  PROVE  DueInv'
<1> DEFINE r == call[c]
<1>1. PICK s : Advances(c, s)
  BY PostAdvances
<1>2. call' = [call EXCEPT ![c] = s] /\ r.pc # "none" /\ s.pc # "none" /\ postFaults' >= postFaults
  BY <1>1 DEF Advances
<1>3. /\ adTask' = adTask /\ ad' = ad /\ disturbed' = disturbed /\ asked' = asked /\ adFaults' = adFaults
      /\ now' = now /\ beats' = beats
  BY DEF adVars, calendarVars
<1>4. RowsStay /\ DueAds' = DueAds
  BY <1>3 DEF RowsStay, DueAds, Publishable
<1>5. \A a \in DueAds' : Came(a) => Came(a)'
  BY <1>3 DEF Came
<1>6. \A a, t : Looked(a, t)' => Looked(a, t)
  BY <1>3 DEF Looked
<1>7. Left \in Nat /\ Left' = Left - (postFaults' - postFaults) /\ postFaults \in Nat /\ postFaults' \in Nat
  <2>1. /\ adFaults \in Int /\ MaxAdFaults \in Int /\ MaxPostFaults \in Int /\ postFaults \in Nat /\ postFaults' \in Nat
        /\ postFaults \in Int /\ postFaults' \in Int /\ Left \in Nat
    BY DueTyped DEF Types, PostOK
  <2>2. Left' = (MaxAdFaults - adFaults) + (MaxPostFaults - postFaults')
    BY <1>3, Zenon DEF Left
  <2>3. Left = (MaxAdFaults - adFaults) + (MaxPostFaults - postFaults)
    BY DEF Left
  <2> HIDE DEF Left
  <2>4. (MaxAdFaults - adFaults) + (MaxPostFaults - postFaults') = ((MaxAdFaults - adFaults) + (MaxPostFaults - postFaults)) - (postFaults' - postFaults)
    BY ONLY <2>1, SMT
  <2> QED
    BY <2>1, <2>2, <2>3, <2>4, Zenon
<1> HIDE DEF Left
<1>8. Left' <= Left
  BY <1>2, <1>7, NoFaultMore, Zenon
<1>9. \A d \in Callers : call'[d] = IF d = c THEN s ELSE call[d]
  BY <1>2 DEF Types, PostOK
<1>10. ASSUME c \in AdSlots, "ads" \in beats PROVE DueTask(c)'
  <2> DEFINE a == adTask[c].ad
  <2> SUFFICES ASSUME adTask[c].pc # "none", a \in DueAds
               PROVE  /\ adTask[c].by = "beat" /\ Spent(c)' + Left' <= AdRetries
                      /\ adTask[c].pc = "posting" => s.post = ad[a].post
    BY <1>3, <1>4, <1>9 DEF DueTask
  <2>1. adTask[c].pc = "posting"
    BY <1>2, <1>10 DEF Types, AdsOK
  <2>2. DueTask(c) /\ DueAd(a)
    BY <1>10 DEF DueInv
  <2>3. adTask[c].by = "beat" /\ Spent(c) + Left <= AdRetries /\ r.post = ad[a].post
    BY <2>1, <2>2 DEF DueTask
  <2>4. Sendable(r.post)
    BY <2>2, <2>3 DEF DueAd
  <2>5. s.post = r.post
    BY <1>1 DEF Advances, GoesOn, CleansUp, Repeats, Stops, Keeps
  <2>6. Failed(s) => Failed(r) \/ postFaults' = postFaults + 1
    <3> SUFFICES ASSUME Failed(s), ~Failed(r) PROVE postFaults' = postFaults + 1
      OBVIOUS
    <3>1. CauseOK(s)
      BY <1>9 DEF CauseInv
    <3>2. s.text = TextSent(s)
      BY <1>2, <3>1 DEF CauseOK
    <3>3. ~Unsendable(s.post, s.text)
      BY <2>4, <2>5, <3>2 DEF Sendable, TextSent
    <3>4. s.why \in {"refuse", "answer"}
      BY <1>2, <3>1, <3>3 DEF CauseOK
    <3>5. ~GoesOn(r, s) /\ ~CleansUp(r, s) /\ ~Repeats(r, s)
      BY DEF GoesOn, CleansUp, Repeats, Failed, TriesAgain, Keeps
    <3>6. ForCause(c, s)
      BY <1>1, <3>5 DEF Advances
    <3> QED
      BY <3>4, <3>6 DEF ForCause
  <2>7. /\ Spent(c) = adTask[c].attempt + (IF Failed(r) THEN 1 ELSE 0)
        /\ Spent(c)' = adTask[c].attempt + (IF Failed(s) THEN 1 ELSE 0)
    BY <1>3, <1>9, <2>1 DEF Spent
  <2>8. adTask[c].attempt \in Nat /\ AdRetries \in Nat
    BY <1>10, DueTyped
  <2> HIDE DEF Failed, Spent
  <2>9. Spent(c)' + Left' <= AdRetries
    BY <1>2, <1>7, <2>3, <2>6, <2>7, <2>8
  <2> QED
    BY <2>3, <2>5, <2>9
<1>11. \A n \in AdSlots : (adTask'[n] = adTask[n] /\ call'[n] = call[n]) \/ ("ads" \in beats => DueTask(n)')
  <2>1. \A n \in AdSlots : n \in Callers
    BY AdsAssumption
  <2> HIDE DEF DueTask
  <2> QED
    BY <1>3, <1>9, <1>10, <2>1
<1> HIDE DEF Came, Looked, RowsStay, DueTask
<1> QED
  BY <1>3, <1>4, <1>5, <1>6, <1>8, <1>11, DueKept

LEMMA DueOfSlot ==
  ASSUME Types, Types', DueInv, RowsStay, Left' <= Left, now' = now, beats' = beats, asked' = asked,
         NEW n \in AdSlots, NEW u, adTask' = [adTask EXCEPT ![n] = u], call' = call \/ call' = [call EXCEPT ![n] = call'[n]],
         "ads" \in beats => DueTask(n)',
         \A a \in DueAds' : Busy(adTask[n], a) => Busy(u, a) \/ ad'[a].recorded # NoLabel
  PROVE  DueInv'
<1>1. \A m \in AdSlots : m # n => adTask'[m] = adTask[m] /\ call'[m] = call[m]
  <2>1. \A m \in AdSlots : m # n => call'[m] = call[m]
    BY OneSlot, AdsAssumption
  <2> QED
    BY <2>1 DEF Types, AdsOK
<1>2. \A a \in DueAds' : Came(a) => Came(a)'
  BY CameStays
<1>3. \A a, t : Looked(a, t)' => Looked(a, t)
  BY DEF Looked
<1> HIDE DEF Came, Looked, Left, RowsStay, DueTask, DueInv
<1> QED
  BY <1>1, <1>2, <1>3, DueKept

LEMMA RowsSame ==
  ASSUME Types, ad' = ad, disturbed.edited \subseteq disturbed'.edited
  PROVE  RowsStay
BY DEF RowsStay, DueAds, Publishable

LEMMA LeftSame ==
  ASSUME Types, adFaults' = adFaults, postFaults' = postFaults
  PROVE  Left' <= Left
<1>1. Left \in Nat /\ Left' = Left
  BY DueTyped DEF Left
<1> HIDE DEF Left
<1> QED
  BY <1>1

LEMMA DueOfBeat ==
  ASSUME Types, Types', DueInv, NEW b \in AdIds, BeatAd(b)
  PROVE  DueInv'
<1>1. /\ ad' = ad /\ disturbed' = disturbed /\ adFaults' = adFaults /\ postFaults' = postFaults /\ call' = call
      /\ now' = now /\ beats' = beats /\ "ads" \in beats /\ asked' = asked \cup {b}
  BY DEF BeatAd, postVars, calendarVars
<1>2. RowsStay /\ DueAds' = DueAds
  BY <1>1, RowsSame DEF DueAds, Publishable
<1>3. Left' <= Left
  BY <1>1, LeftSame
<1>4. \A a, t : Looked(a, t)' => Looked(a, t) \/ (a = b /\ t = now)
  BY <1>1 DEF Looked
<1>5. CASE Selected(b) /\ Matches(ScheduleOf[b], now)
  <2> DEFINE u == [NoTask EXCEPT !.pc = "queued", !.ad = b, !.due = now]
  <2>1. PICK n \in AdSlots : adTask[n].pc = "none" /\ adTask' = [adTask EXCEPT ![n] = u]
    BY <1>5 DEF BeatAd
  <2>2. u.pc = "queued" /\ u.ad = b /\ u.by = "beat" /\ u.attempt = 0
    BY DEF NoTask
  <2> HIDE DEF u
  <2>3. \A m \in AdSlots : adTask'[m] = IF m = n THEN u ELSE adTask[m]
    BY <2>1 DEF Types, AdsOK
  <2>4. \A a \in DueAds' : Came(a) => Came(a)'
    <3>1. \A a : ~Busy(adTask[n], a)
      BY <2>1 DEF Busy
    <3> HIDE DEF Busy, Came
    <3> QED
      BY <1>2, <2>1, <3>1, CameStays
  <2>5. Came(b)'
    BY <2>2, <2>3 DEF Came, Busy
  <2>6. DueTask(n)'
    <3>1. Spent(n)' = 0
      BY <2>2, <2>3 DEF Spent
    <3>2. Left' <= AdRetries /\ Left' \in Nat
      <4>1. Left' = Left /\ Left \in Nat
        BY <1>1, DueTyped DEF Left
      <4>2. Left <= AdRetries
        BY <1>1 DEF DueInv
      <4> HIDE DEF Left
      <4> QED
        BY <4>1, <4>2
    <3> HIDE DEF Left, Spent
    <3>3. Spent(n)' + Left' <= AdRetries
      BY <3>1, <3>2
    <3> QED
      BY <2>2, <2>3, <3>3 DEF DueTask
  <2>7. \A m \in AdSlots : (adTask'[m] = adTask[m] /\ call'[m] = call[m]) \/ DueTask(m)'
    BY <1>1, <2>3, <2>6
  <2> HIDE DEF Came, Looked, Left, RowsStay, DueTask, DueInv
  <2> QED
    BY <1>1, <1>2, <1>3, <1>4, <2>4, <2>5, <2>7, DueKept
<1>6. CASE ~(Selected(b) /\ Matches(ScheduleOf[b], now))
  <2>1. adTask' = adTask
    BY <1>6 DEF BeatAd
  <2>2. \A a \in DueAds' : Came(a) => Came(a)'
    BY <1>1, <2>1 DEF Came
  <2>3. ASSUME b \in DueAds', Matches(ScheduleOf[b], now) PROVE Came(b)'
    <3>1. DueAd(b)
      BY <1>1, <1>2, <2>3 DEF DueInv
    <3>2. ad[b].recorded # NoLabel
      BY <1>6, <2>3, <3>1 DEF DueAd
    <3> QED
      BY <1>1, <3>2 DEF Came
  <2> HIDE DEF Came, Looked, Left, RowsStay, DueTask, DueInv, Matches
  <2> QED
    BY <1>1, <1>2, <1>3, <1>4, <2>1, <2>2, <2>3, DueKept
<1> QED
  BY <1>5, <1>6

\* What an editor touches is no longer asked for.
LEMMA DueOfEditor ==
  ASSUME Types, Types', DueInv, NEW b \in AdIds, PublishByHand(b) \/ SetAuto(b) \/ DeleteAd(b) \/ \E status \in AdStatuses : SetStatus(b, status)
  PROVE  DueInv'
<1>1. /\ adFaults' = adFaults /\ postFaults' = postFaults /\ call' = call
      /\ now' = now /\ beats' = beats /\ asked' = asked /\ disturbed' = [disturbed EXCEPT !.edited = @ \cup {b}]
  BY DEF PublishByHand, SetAuto, DeleteAd, SetStatus, EditorWorks, postVars, calendarVars
<1>2. disturbed'.edited = disturbed.edited \cup {b}
  <2>1. disturbed \in [edited : SUBSET AdIds, lost : SUBSET AdIds]
    BY DEF Types, AdsOK
  <2> QED
    BY <1>1, <2>1
<1>3. \A a \in AdIds : a # b => ad'[a] = ad[a]
  BY DEF PublishByHand, SetAuto, DeleteAd, SetStatus, Types, AdsOK
<1>4. RowsStay /\ b \notin DueAds'
  BY <1>2, <1>3 DEF RowsStay, DueAds, Publishable
<1>5. Left' <= Left
  BY <1>1, LeftSame
<1>6. adTask' = adTask \/ \E n \in AdSlots : \E u : adTask[n].pc = "none" /\ adTask' = [adTask EXCEPT ![n] = u] /\ u.ad = b
  <2> DEFINE u == [NoTask EXCEPT !.pc = "queued", !.ad = b, !.due = now, !.by = "hand"]
  <2>1. u.ad = b
    BY DEF NoTask
  <2>2. PublishByHand(b) => \E n \in AdSlots : adTask[n].pc = "none" /\ adTask' = [adTask EXCEPT ![n] = u]
    BY DEF PublishByHand
  <2> HIDE DEF u
  <2> QED
    BY <2>1, <2>2 DEF SetAuto, DeleteAd, SetStatus
<1>7. CASE adTask' = adTask
  <2>1. \A a \in DueAds' : Came(a) => Came(a)'
    BY <1>4, <1>7 DEF Came, RowsStay
  <2>2. \A a, t : Looked(a, t)' => Looked(a, t)
    BY <1>1 DEF Looked
  <2> HIDE DEF Came, Looked, Left, RowsStay, DueTask, DueInv
  <2> QED
    BY <1>1, <1>4, <1>5, <1>7, <2>1, <2>2, DueKept
<1>8. ASSUME NEW n \in AdSlots, NEW u, adTask[n].pc = "none" /\ adTask' = [adTask EXCEPT ![n] = u] /\ u.ad = b
      PROVE  DueInv'
  <2>1. adTask'[n] = u
    BY <1>8 DEF Types, AdsOK
  <2>2. DueTask(n)'
    BY <1>4, <1>8, <2>1 DEF DueTask
  <2>3. \A a : ~Busy(adTask[n], a)
    BY <1>8 DEF Busy
  <2> HIDE DEF Left, RowsStay, DueTask, DueInv, Busy
  <2> QED
    BY <1>1, <1>4, <1>5, <1>8, <2>2, <2>3, DueOfSlot
<1> QED
  BY <1>6, <1>7, <1>8

LEMMA DueOfStart ==
  ASSUME Types, Types', DueInv, NEW n \in AdSlots, StartAd(n)
  PROVE  DueInv'
<1> DEFINE t == adTask[n]
           u == [t EXCEPT !.pc = "posting", !.seen = ad[t.ad].status]
<1>1. /\ ad' = ad /\ disturbed' = disturbed /\ adFaults' = adFaults /\ postFaults' = postFaults
      /\ now' = now /\ beats' = beats /\ asked' = asked /\ n \in Callers
  BY AdsAssumption DEF StartAd, calendarVars
<1>2. t \in AdTasks /\ t.pc = "queued" /\ adTask' = [adTask EXCEPT ![n] = u] /\ t.ad \in AdIds
  <2>1. t \in AdTasks /\ t.pc = "queued" /\ t.ad \in AdIds
    BY DEF StartAd, Types, AdsOK
  <2>2. adTask' = [adTask EXCEPT ![n].pc = "posting", ![n].seen = ad[t.ad].status]
    BY DEF StartAd
  <2>3. adTask \in [AdSlots -> AdTasks]
    BY DEF Types, AdsOK
  <2> QED
    BY <2>1, <2>2, <2>3 DEF AdTasks
<1>3. u.pc = "posting" /\ u.ad = t.ad /\ u.by = t.by /\ u.attempt = t.attempt
  BY <1>2 DEF AdTasks
<1> HIDE DEF u
<1>4. RowsStay /\ DueAds' = DueAds
  BY <1>1, RowsSame DEF DueAds, Publishable
<1>5. Left' <= Left
  BY <1>1, LeftSame
<1>6. StartPost(n, t.by, t.ad, now, ad[t.ad].post)
  BY DEF StartAd
<1>7. call[n].pc = "none" /\ call' = [call EXCEPT ![n] = call'[n]]
  <2>1. call[n].pc = "none"
    BY <1>2 DEF Types, AdsOK
  <2> QED
    BY <1>1, <1>6, <2>1 DEF StartPost, Types, PostOK
<1>8. adTask'[n] = u
  BY <1>2 DEF Types, AdsOK
<1>9. call'[n].pc # "none"
  BY <1>3, <1>8 DEF Types, AdsOK
<1>10. ~Failed(call'[n]) /\ call'[n].post = ad[t.ad].post
  <2>1. Begun(call'[n]) /\ call'[n].post = ad[t.ad].post
    <3>1. call'[n] # call[n]
      BY <1>7, <1>9
    <3>2. call'[n] = call[n] \/ Begun(call'[n])
      BY <1>1, <1>6, StartsBegun
    <3>3. call'[n] = call[n] \/ call'[n].post = ad[t.ad].post
      BY <1>1, <1>6, StartsPost
    <3> HIDE DEF Begun
    <3> QED
      BY <3>1, <3>2, <3>3
  <2> QED
    BY <2>1 DEF Begun, Failed
<1>11. ASSUME "ads" \in beats PROVE DueTask(n)'
  <2> SUFFICES ASSUME t.ad \in DueAds
               PROVE  t.by = "beat" /\ Spent(n)' + Left' <= AdRetries
    BY <1>1, <1>3, <1>4, <1>8, <1>10 DEF DueTask
  <2>1. t.by = "beat" /\ Spent(n) + Left <= AdRetries
    BY <1>2, <1>11 DEF DueInv, DueTask
  <2>2. Spent(n)' = t.attempt + 0 /\ Spent(n) = t.attempt + 0
    BY <1>2, <1>3, <1>8, <1>10 DEF Spent
  <2>3. Left' = Left
    BY <1>1 DEF Left
  <2> QED
    BY <2>1, <2>2, <2>3
<1>12. \A a : Busy(t, a) => Busy(u, a)
  BY <1>3 DEF Busy
<1> HIDE DEF Left, RowsStay, DueTask, DueInv, Busy
<1> QED
  BY <1>1, <1>2, <1>4, <1>5, <1>7, <1>11, <1>12, DueOfSlot

LEMMA DueOfUnpublishable ==
  ASSUME Types, Types', DueInv, NEW n \in AdSlots, AdUnpublishable(n)
  PROVE  DueInv'
<1> DEFINE t == adTask[n]
           u == AfterFailure(t)
<1>1. /\ ad' = ad /\ disturbed' = disturbed /\ adFaults' = adFaults /\ postFaults' = postFaults /\ call' = call
      /\ now' = now /\ beats' = beats /\ asked' = asked
  BY DEF AdUnpublishable, postVars, calendarVars
<1>2. t \in AdTasks /\ t.pc = "queued" /\ adTask' = [adTask EXCEPT ![n] = u] /\ t.ad \in AdIds /\ ~Publishable(t.ad) /\ now \in Nat
  BY DEF AdUnpublishable, Types, AdsOK, ClockOK
<1>3. u.pc # "none" => u.ad = t.ad
  BY <1>2, FailedTask
<1> HIDE DEF u
<1>4. RowsStay /\ DueAds' = DueAds /\ t.ad \notin DueAds
  BY <1>1, <1>2, RowsSame DEF DueAds, Publishable
<1>5. Left' <= Left
  BY <1>1, LeftSame
<1>6. adTask'[n] = u
  BY <1>2 DEF Types, AdsOK
<1>7. DueTask(n)'
  BY <1>3, <1>4, <1>6 DEF DueTask
<1>8. \A a \in DueAds' : ~Busy(t, a)
  BY <1>4 DEF Busy
<1> HIDE DEF Left, RowsStay, DueTask, DueInv, Busy
<1> QED
  BY <1>1, <1>2, <1>4, <1>5, <1>7, <1>8, DueOfSlot

LEMMA DueOfSuccess ==
  ASSUME Types, Types', DueInv, NEW n \in AdSlots, AdPublished(n)
  PROVE  DueInv'
<1> DEFINE t == adTask[n]
           row == ad[t.ad]
           new == AfterSuccess(row, t.seen, call[n].label)
<1>1. /\ adFaults' = adFaults /\ postFaults' = postFaults /\ n \in Callers
      /\ now' = now /\ beats' = beats /\ asked' = asked /\ adTask' = [adTask EXCEPT ![n] = NoTask]
      /\ call' = [call EXCEPT ![n] = NotPosting] /\ NoTask.pc = "none" /\ ad' = [ad EXCEPT ![t.ad] = new]
  BY AdsAssumption DEF AdPublished, calendarVars, NoTask
<1> HIDE DEF NoTask, NotPosting
<1>2. disturbed'.edited = disturbed.edited
  BY DEF AdPublished, Loses, Types, AdsOK
<1>3. t.ad \in AdIds /\ ad \in [AdIds -> AdRecords] /\ row \in AdRecords /\ call[n].label.serial > 0
  <2>1. t.pc = "posting" /\ call[n].pc # "none"
    BY DEF AdPublished, Types, AdsOK
  <2>2. call[n].label.serial > 0
    BY <1>1, <2>1 DEF Types, PostOK, CallOK
  <2> QED
    BY <2>1, <2>2 DEF Types, AdsOK
<1> HIDE DEF row
<1>4. new.exists = row.exists /\ new.channel = row.channel /\ new.post = row.post /\ new.recorded = call[n].label
  BY <1>3 DEF AfterSuccess, AdRecords
<1>5. new.recorded # NoLabel
  BY <1>3, <1>4, NobodyPosts
<1> HIDE DEF new
<1>6. \A a \in AdIds : ad'[a] = IF a = t.ad THEN new ELSE ad[a]
  BY <1>1, <1>3
<1>7. RowsStay
  BY <1>2, <1>4, <1>5, <1>6 DEF RowsStay, DueAds, Publishable, row
<1>8. Left' <= Left
  BY <1>1, LeftSame
<1>9. adTask'[n] = NoTask
  BY <1>1 DEF Types, AdsOK
<1>10. DueTask(n)'
  BY <1>1, <1>9 DEF DueTask
<1>11. \A a \in DueAds' : Busy(t, a) => ad'[a].recorded # NoLabel
  BY <1>5, <1>6 DEF Busy, DueAds
<1>12. call' = [call EXCEPT ![n] = call'[n]]
  BY <1>1 DEF Types, PostOK
<1> HIDE DEF Left, RowsStay, DueTask, DueInv, Busy
<1> QED
  BY <1>1, <1>7, <1>8, <1>10, <1>11, <1>12, DueOfSlot

\* A retry takes one attempt, and there is one as long as anything may fail.
LEMMA Retried ==
  ASSUME NEW t \in AdTasks, t.by = "beat", t.attempt < AdRetries
  PROVE  LET u == AfterFailure(t) IN u.pc = "queued" /\ u.ad = t.ad /\ u.by = "beat" /\ u.attempt = t.attempt + 1
<1> DEFINE u == [t EXCEPT !.pc = "queued", !.attempt = @ + 1, !.due = now + 1]
<1>1. AfterFailure(t) = u
  BY DEF AfterFailure
<1>2. u.pc = "queued" /\ u.ad = t.ad /\ u.by = "beat" /\ u.attempt = t.attempt + 1
  BY DEF AdTasks
<1> HIDE DEF u
<1> QED
  BY <1>1, <1>2

LEMMA AttemptLeft == \A l, m, k, s, r \in Nat : s + l <= r /\ k <= s /\ m <= l /\ (m + 1 <= l \/ k + 1 <= s) => k < r /\ (k + 1) + m <= r
OBVIOUS

LEMMA OneLess == \A l, m \in Nat : m + 1 <= l => m <= l
OBVIOUS

LEMMA AttemptKept == \A l, m, k, s, r \in Nat : s + l <= r /\ k <= s /\ m + 1 <= l => k + m <= r
OBVIOUS

LEMMA FaultSpends ==
  ASSUME Types, NEW kind, AdFault(kind), postFaults' = postFaults, adFaults' \in 0..MaxAdFaults
  PROVE  Left' \in Nat /\ Left' + 1 <= Left
<1>1. adFaults' = adFaults + 1 /\ adFaults \in Int /\ MaxAdFaults \in Int /\ MaxPostFaults \in Int /\ postFaults \in Int
  BY DueTyped DEF AdFault
<1>2. Left = (MaxAdFaults - adFaults) + (MaxPostFaults - postFaults) /\ Left' = (MaxAdFaults - adFaults') + (MaxPostFaults - postFaults)
  BY DEF Left
<1>3. (MaxAdFaults - adFaults') + (MaxPostFaults - postFaults) \in Nat
  BY FaultsLeft, DueTyped
<1> HIDE DEF Left
<1> QED
  BY <1>1, <1>2, <1>3

LEMMA DueOfFailure ==
  ASSUME Types, Types', DueInv, NEW n \in AdSlots, AdNotPublished(n)
  PROVE  DueInv'
<1> DEFINE t == adTask[n]
           u == AfterFailure(t)
<1>1. /\ ad' = ad /\ postFaults' = postFaults /\ n \in Callers /\ call[n].pc = "over" /\ t.pc = "posting"
      /\ now' = now /\ beats' = beats /\ asked' = asked /\ adTask' = [adTask EXCEPT ![n] = u]
      /\ call' = [call EXCEPT ![n] = NotPosting]
  BY AdsAssumption DEF AdNotPublished, calendarVars
<1> HIDE DEF NotPosting
<1>2. disturbed'.edited = disturbed.edited
  BY DEF AdNotPublished, Loses, Types, AdsOK
<1>3. t \in AdTasks /\ t.ad \in AdIds /\ now \in Nat
  BY <1>1 DEF Types, AdsOK, ClockOK
<1>4. u.pc \in {"none", "queued"} /\ (u.pc # "none" => u.ad = t.ad)
  BY <1>1, <1>3, FailedTask
<1>5. RowsStay /\ DueAds' = DueAds
  BY <1>1, <1>2, RowsSame DEF DueAds, Publishable
<1>6. /\ Left \in Nat /\ Left' \in Nat /\ AdRetries \in Nat /\ t.attempt \in Nat /\ Spent(n) \in Nat /\ t.attempt <= Spent(n) /\ Left' <= Left
      /\ Left' + 1 <= Left \/ (adFaults' = adFaults /\ ~(call[n].ok /\ ad[t.ad].exists))
  <2>1. Left \in Nat /\ AdRetries \in Nat /\ t.attempt \in Nat /\ Spent(n) \in Nat /\ t.attempt <= Spent(n)
    BY DueTyped DEF Spent
  <2>2. AdFault("commit") \/ (adFaults' = adFaults /\ ~(call[n].ok /\ ad[t.ad].exists))
    BY DEF AdNotPublished
  <2>3. CASE AdFault("commit")
    <3>1. adFaults' \in 0..MaxAdFaults
      BY DEF Types, AdsOK
    <3>2. Left' \in Nat /\ Left' + 1 <= Left
      BY <1>1, <2>3, <3>1, FaultSpends
    <3> HIDE DEF Left, Spent
    <3>3. Left' <= Left
      BY <2>1, <3>2, OneLess, Zenon
    <3> QED
      BY <2>1, <3>2, <3>3
  <2>4. CASE adFaults' = adFaults /\ ~(call[n].ok /\ ad[t.ad].exists)
    <3>1. Left' = Left
      BY <1>1, <2>4 DEF Left
    <3> HIDE DEF Left, Spent
    <3> QED
      BY <2>1, <2>4, <3>1
  <2> QED
    BY <2>2, <2>3, <2>4
<1>7. adTask'[n] = u
  BY <1>1 DEF Types, AdsOK
<1>8. ASSUME "ads" \in beats, t.ad \in DueAds
      PROVE  u.pc = "queued" /\ u.ad = t.ad /\ u.by = "beat" /\ u.attempt + Left' <= AdRetries
  <2>1. t.by = "beat" /\ Spent(n) + Left <= AdRetries
    BY <1>1, <1>8 DEF DueInv, DueTask
  <2>2. Left' + 1 <= Left \/ t.attempt + 1 <= Spent(n)
    <3> SUFFICES ASSUME ~(call[n].ok /\ ad[t.ad].exists) PROVE t.attempt + 1 <= Spent(n)
      BY <1>6
    <3>1. ~call[n].ok
      BY <1>8 DEF DueAds, Publishable
    <3>2. Failed(call[n])
      BY <1>1, <3>1 DEF Failed, TriesAgain
    <3> QED
      BY <1>1, <1>6, <3>2 DEF Spent
  <2> HIDE DEF Left, Spent, t
  <2>3. t.attempt < AdRetries /\ (t.attempt + 1) + Left' <= AdRetries
    BY <1>6, <2>1, <2>2, AttemptLeft, Zenon
  <2> HIDE DEF u
  <2>4. u.pc = "queued" /\ u.ad = t.ad /\ u.by = "beat" /\ u.attempt = t.attempt + 1
    BY <1>3, <2>1, <2>3, Retried DEF u
  <2> QED
    BY <2>3, <2>4
<1> HIDE DEF u
<1>9. ASSUME "ads" \in beats PROVE DueTask(n)'
  <2>1. Spent(n)' = u.attempt \/ u.pc # "queued"
    <3>1. u.pc = "queued" => u.attempt + 0 = u.attempt
      <4>1. u \in AdTasks
        BY <1>7 DEF Types, AdsOK
      <4>2. u.attempt \in Nat
        BY <4>1, DueTyped DEF AdTasks
      <4> QED
        BY <4>2
    <3> QED
      BY <1>7, <3>1 DEF Spent
  <2> HIDE DEF Left, Spent
  <2> QED
    BY <1>4, <1>5, <1>7, <1>8, <1>9, <2>1 DEF DueTask
<1>10. ASSUME "ads" \in beats, NEW a \in DueAds', Busy(t, a) PROVE Busy(u, a)
  BY <1>5, <1>8, <1>10 DEF Busy
<1>11. call' = [call EXCEPT ![n] = call'[n]]
  BY <1>1 DEF Types, PostOK
<1>12. CASE "ads" \in beats
  <2> HIDE DEF Left, RowsStay, DueTask, DueInv, Busy, Spent
  <2> QED
    BY <1>1, <1>5, <1>6, <1>9, <1>10, <1>11, <1>12, DueOfSlot
<1>13. CASE "ads" \notin beats
  BY <1>1, <1>13 DEF DueInv
<1> QED
  BY <1>12, <1>13

LEMMA DueOfLost ==
  ASSUME Types, Types', DueInv, NEW n \in AdSlots, AdWorkerDies(n)
  PROVE  DueInv'
<1> DEFINE t == adTask[n]
           late == [t EXCEPT !.pc = "queued", !.due = now + VisibilityTimeout]
           u == IF t.by = "beat" THEN late ELSE NoTask
<1>1. /\ ad' = ad /\ postFaults' = postFaults /\ n \in Callers /\ t.pc = "posting"
      /\ now' = now /\ beats' = beats /\ asked' = asked /\ adTask' = [adTask EXCEPT ![n] = u] /\ AdFault("lost")
      /\ call' = [call EXCEPT ![n] = NotPosting] /\ NoTask.pc = "none"
  BY AdsAssumption DEF AdWorkerDies, calendarVars, NoTask
<1> HIDE DEF NotPosting, NoTask
<1>2. disturbed'.edited = disturbed.edited
  BY DEF AdWorkerDies, Loses, Types, AdsOK
<1>3. t \in AdTasks /\ t.ad \in AdIds
  BY <1>1 DEF Types, AdsOK
<1>4. late.pc = "queued" /\ late.ad = t.ad /\ late.by = t.by /\ late.attempt = t.attempt
  BY <1>3 DEF AdTasks
<1> HIDE DEF late
<1>5. RowsStay /\ DueAds' = DueAds
  BY <1>1, <1>2, RowsSame DEF DueAds, Publishable
<1>6. /\ Left \in Nat /\ Left' \in Nat /\ AdRetries \in Nat /\ t.attempt \in Nat /\ Spent(n) \in Nat /\ t.attempt <= Spent(n)
      /\ Left' + 1 <= Left
  <2>1. Left \in Nat /\ AdRetries \in Nat /\ t.attempt \in Nat /\ Spent(n) \in Nat /\ t.attempt <= Spent(n)
    BY DueTyped DEF Spent
  <2>2. adFaults' \in 0..MaxAdFaults
    BY DEF Types, AdsOK
  <2>3. Left' \in Nat /\ Left' + 1 <= Left
    BY <1>1, <2>2, FaultSpends
  <2> QED
    BY <2>1, <2>3
<1>7. adTask'[n] = u
  BY <1>1 DEF Types, AdsOK
<1>8. ASSUME "ads" \in beats, t.ad \in DueAds
      PROVE  u = late /\ t.by = "beat" /\ t.attempt + Left' <= AdRetries
  <2>1. t.by = "beat" /\ Spent(n) + Left <= AdRetries
    BY <1>1, <1>8 DEF DueInv, DueTask
  <2> HIDE DEF Left, Spent, t
  <2>2. t.attempt + Left' <= AdRetries
    BY <1>6, <2>1, AttemptKept, Zenon
  <2> QED
    BY <2>1, <2>2 DEF t
<1>9. ASSUME "ads" \in beats PROVE DueTask(n)'
  <2> SUFFICES ASSUME u.pc # "none", u.ad \in DueAds
               PROVE  u.by = "beat" /\ Spent(n)' + Left' <= AdRetries /\ u.pc # "posting"
    BY <1>5, <1>7 DEF DueTask
  <2>1. u = late
    BY <1>1
  <2>2. t.by = "beat" /\ t.attempt + Left' <= AdRetries
    BY <1>4, <1>8, <1>9, <2>1
  <2>3. Spent(n)' = t.attempt + 0
    BY <1>4, <1>7, <2>1 DEF Spent
  <2> HIDE DEF Left, Spent, u
  <2> QED
    BY <1>4, <1>6, <2>1, <2>2, <2>3
<1>10. ASSUME "ads" \in beats, NEW a \in DueAds', Busy(t, a) PROVE Busy(u, a)
  BY <1>4, <1>5, <1>8, <1>10 DEF Busy
<1>11. call' = [call EXCEPT ![n] = call'[n]] /\ Left' <= Left
  <2>1. call' = [call EXCEPT ![n] = call'[n]]
    BY <1>1 DEF Types, PostOK
  <2> HIDE DEF Left
  <2>2. Left' <= Left
    BY <1>6, OneLess, Zenon
  <2> QED
    BY <2>1, <2>2
<1> HIDE DEF u
<1>12. CASE "ads" \in beats
  <2> HIDE DEF Left, RowsStay, DueTask, DueInv, Busy, Spent
  <2> QED
    BY <1>1, <1>5, <1>9, <1>10, <1>11, <1>12, DueOfSlot
<1>13. CASE "ads" \notin beats
  BY <1>1, <1>13 DEF DueInv
<1> QED
  BY <1>12, <1>13

LEMMA DueNext ==
  ASSUME Types, Types', CauseInv, CauseInv', Punctual, DueInv, [Next]_postingVars
  PROVE  DueInv'
<1> HIDE DEF DueInv
<1>1. CASE Tick
  BY <1>1, DueOfTick
<1>2. CASE AdsNext
  BY <1>2, DueOfBeat, DueOfEditor, DueOfStart, DueOfUnpublishable, DueOfSuccess, DueOfFailure, DueOfLost DEF AdsNext
<1>3. CASE WeatherNext /\ UNCHANGED adVars
  <2>1. now' = now /\ \A n \in AdSlots : call'[n] = call[n]
    BY <1>3, WeatherShowsNothing
  <2>2. beats' = beats /\ postFaults' = postFaults
    BY <1>3 DEF WeatherNext, BeatWeather, PressButton, StartRun, NextCity, PostWeather, WeatherPosted, EndCity, CommitRun,
                RunFails, RunLost, postVars, calendarVars
  <2> QED
    BY <1>3, <2>1, <2>2, DueQuiet
<1>4. CASE \E c \in Callers : PostStep(c) /\ UNCHANGED <<adVars, weatherVars, calendarVars>>
  BY <1>4, DueOfPostStep
<1>5. CASE UNCHANGED postingVars
  BY <1>5, DueQuiet DEF postingVars, calendarVars, postVars
<1> QED
  BY <1>1, <1>2, <1>3, <1>4, <1>5 DEF Next

\* Beat looks from the first minute on; less can fail than a task has attempts; and
\* of the ads with a channel each is one that beat selects and Telegram can take.
AdsAreDue ==
  \A q \in Starts : "ads" \in q.beats =>
    /\ q.now = 0
    /\ (MaxAdFaults - q.adFaults) + (MaxPostFaults - q.postFaults) <= AdRetries
    /\ \A a \in AdIds : q.ads[a].exists /\ q.ads[a].channel =>
          q.ads[a].auto /\ q.ads[a].status \in {"draft", "scheduled"} /\ Sendable(q.ads[a].post)

LEMMA DueInit ==
  ASSUME AdsAreDue, Init
  PROVE  DueInv
<1> SUFFICES ASSUME "ads" \in beats
             PROVE  Left <= AdRetries /\ (\A n \in AdSlots : DueTask(n)) /\ \A a \in DueAds : DueAd(a)
  BY DEF DueInv
<1>1. PICK q \in Starts : now = q.now /\ beats = q.beats /\ AdsInit(q) /\ PostInit(q)
  BY DEF Init
<1>2. /\ ad = q.ads /\ asked = {} /\ adFaults = q.adFaults /\ postFaults = q.postFaults
      /\ \A n \in AdSlots : adTask[n] = NoTask
  BY <1>1 DEF AdsInit, PostInit
<1>3. NoTask.pc = "none"
  BY DEF NoTask
<1> HIDE DEF NoTask
<1>4. now = 0 /\ Left <= AdRetries
  BY <1>1, <1>2 DEF AdsAreDue, Left
<1>5. \A n \in AdSlots : DueTask(n)
  BY <1>2, <1>3 DEF DueTask
<1>6. ASSUME NEW a \in DueAds PROVE DueAd(a)
  <2>1. a \in AdIds /\ ad[a].exists /\ ad[a].channel
    BY DEF DueAds, Publishable
  <2>2. Selected(a) /\ Sendable(ad[a].post)
    BY <1>1, <1>2, <2>1 DEF AdsAreDue, Selected
  <2>3. \A t \in 0..MaxNow : ~Looked(a, t)
    BY <1>2, <1>4, PostingAssumption DEF Looked
  <2> QED
    BY <2>2, <2>3 DEF DueAd
<1> QED
  BY <1>4, <1>5, <1>6

\* publish_scheduled_ads and publish_ad_task: an ad is enqueued in every minute
\* its schedule matches, and once it has been, it is posted and recorded, or a
\* task of it is under way, whatever fails, if that is less than the task has
\* attempts, unless an editor takes it in hand.
THEOREM DueAdsCome ==
  ASSUME Punctual, AdsAreDue
  PROVE  Spec => []AdComes
<1>1. Init => DueInv
  BY DueInit
<1>2. Types /\ Types' /\ CauseInv /\ CauseInv' /\ DueInv /\ [Next]_postingVars => DueInv'
  BY DueNext
<1>3. Types /\ DueInv => AdComes
  <2> SUFFICES ASSUME Types, DueInv, NEW a \in AdIds, NEW t \in 0..MaxNow, t < now, Matches(ScheduleOf[a], t),
                      "ads" \in beats, Publishable(a), a \notin disturbed.edited
               PROVE  ad[a].recorded # NoLabel \/ \E n \in AdSlots : adTask[n].pc # "none" /\ adTask[n].ad = a
    BY DEF AdComes
  <2>1. DueAd(a)
    BY DEF DueInv, DueAds
  <2>2. Came(a)
    BY <2>1 DEF DueAd, Looked
  <2> QED
    BY <2>2 DEF Came, Busy
<1>4. Spec => []Types
  BY TypesHold
<1> QED
  BY <1>1, <1>2, <1>3, <1>4, CauseHolds, PTL DEF Spec
=============================================================================
