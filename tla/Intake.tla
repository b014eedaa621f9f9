-------------------------------- MODULE Intake --------------------------------
(***************************************************************************)
(* Everything that brings news in: the sources and the readers' letters,   *)
(* which share the news table, so that an item of a source is a duplicate  *)
(* of a letter about the same story.                                       *)
(***************************************************************************)
EXTENDS Ingestion, Submissions

CONSTANT Settings   \* where a behaviour may start: see IngestInit and SubmissionsInit

ASSUME IntakeAssumption ==
    Settings \subseteq [sources : SUBSET Sources, now : 0..MaxNow, messages : 0..MaxRuns, ops : Nat, faults : Nat, events : Nat]

intakeVars == <<ingestVars, submissionVars, news>>

Init ==
    /\ \E q \in Settings : IngestInit(q) /\ SubmissionsInit(q)
    /\ news = NoRows

Next ==
    \/ IngestNext /\ UNCHANGED submissionVars
    \/ SubmissionsNext /\ UNCHANGED ingestVars

Spec == Init /\ [][Next]_intakeVars
FairSpec == Spec /\ IngestFairness /\ SubmissionsFairness

-------------------------------------------------------------------------------
RowIds == (0..MaxRuns) \X (0..(MaxRetries + MaxFaults + MaxLetters)) \X (Items \cup Stories \cup {NoStory})

RunOK(r) ==
    /\ r.pc \in {"none", "queued", "working", "inserting", "handing", "done"}
    /\ r.source \in Sources /\ r.attempt \in 0..MaxRetries /\ r.execution \in 0..(MaxRetries + MaxFaults)
    /\ r.began \in (0..MaxNow) \cup {Never}
    /\ r.linked \subseteq Cities /\ r.usable \subseteq Cities
    /\ r.ok \in BOOLEAN /\ r.locked \in BOOLEAN /\ r.todo \subseteq Items
    /\ r.held \subseteq [item : Items, cities : SUBSET Cities]
    /\ \A id \in DOMAIN r.drafts : id \in RowIds /\ r.drafts[id] \in Row
    /\ r.cards \subseteq DOMAIN r.drafts /\ r.calls \subseteq DOMAIN r.drafts

LetterData == [city : Cities \cup {NoCity}, cityTurn : Nat, story : Stories \cup {NoStory},
               textTurn : Nat, media : Seq(Nat), geo : Nat, anonymous : BOOLEAN]

\* Every variable keeps its type, the rows of every transaction included.
TypeOK ==
    /\ \A id \in DOMAIN news : id \in RowIds /\ news[id] \in Row
    /\ now \in 0..MaxNow /\ born \in [Items -> (0..MaxNow) \cup {Never}]
    /\ activeCities \subseteq Cities /\ asked \subseteq Sources
    /\ source \in [Sources -> [exists : BOOLEAN, active : BOOLEAN,
                               checked : (0..MaxNow) \cup {Never}, ok : BOOLEAN]]
    /\ sent \in 0..MaxRuns /\ pushed \subseteq DOMAIN news
    /\ \A n \in Runs : RunOK(run[n])
    /\ state \in [Readers -> {"none", "choosing_city", "entering_text", "attaching_media",
                              "attaching_location", "choosing_anonymity", "entering_author"}]
    /\ data \in [Readers -> LetterData] /\ letters \in [Letters -> [form : LetterData, said : Nat, whole : BOOLEAN]]

\* A run stores no story that was on file when it began, and none twice,
\* through retries, redeliveries and duplicate dispatches: dedup.check looks at
\* the committed rows and at the rows its own transaction inserted.
StoredOnce ==
    \A n \in Runs :
        LET rows == run[n].drafts IN
        /\ StoriesOf(rows) \cap run[n].known = {}
        /\ \A a, b \in DOMAIN rows : rows[a].story = rows[b].story => a = b

\* Two executions of runs of one source that overlap duplicate one story at
\* most.  The first INSERT of a run flushes the changed row of its source too
\* and waits there for the other's commit; what is looked up later is complete.
StoriesBy(n, execution) ==
    {news[id].story : id \in {d \in DOMAIN news : d[1] = n /\ d[2] = execution}}

OverlapCostsOne ==
    \A a, b \in DOMAIN news :
        (/\ a[1] > 0 /\ b[1] > 0 /\ <<a[1], a[2]>> # <<b[1], b[2]>>
         /\ run[a[1]].source = run[b[1]].source)
            => Cardinality(StoriesBy(a[1], a[2]) \cap StoriesBy(b[1], b[2])) <= 1

\* Items go where the text says: to cities of the source that were active when
\* the run began; if the text mentions some of them, to no other; and if it is
\* about a city nobody monitors, to no city it does not mention.
Mentions(text, c) == c \in text.named \/ text.keywords[c] > 0 \/ text.extra[c] > 0

TargetsFit ==
    \A n \in Runs : \A id \in DOMAIN run[n].drafts :
        LET r == run[n]
            text == TextOf[id[3]]
            cities == r.drafts[id].cities IN
        /\ cities # {} /\ cities \subseteq r.usable \cup {Bucket}
        /\ LinkedTo[r.source] # {} =>
              /\ cities \subseteq r.linked
              /\ (\/ text.elsewhere
                  \/ (text.named \ text.vetoed) \cap r.linked # {}) => \A c \in cities : Mentions(text, c)

\* What a run stored reaches moderators: every item gets its card, and what a
\* source publishes by itself at once gets its publication task, unless a fault
\* in the search for its slot, or after the commit, costs it them.
HandedTo(id) == news[id].card /\ (news[id].status = "approved" => id \in pushed)

HandedOn ==
    []<>(\A id \in DOMAIN news : news[id].origin = "parser" => HandedTo(id) \/ id \in faults.dropped)

\* A letter holds what its writer said since choosing the city, all of it,
\* if no update was lost with the bot.
LetterIsComplete ==
    \A k \in Letters : work[k].pc # "none" /\ letters[k].whole =>
        LET form == letters[k].form IN
        /\ form.city # NoCity /\ form.story # NoStory
        /\ form.textTurn = form.cityTurn
        /\ form.media = [m \in 1..letters[k].said |-> form.cityTurn]

\* Every letter gets its card, whatever fails while the task has retries left,
\* unless the task was never enqueued or Telegram refuses the card.
LetterReachesModerators ==
    []<>(\A k \in Letters : work[k].pc # "none" =>
            news[LetterId(k)].card \/ k \in letterFaults.dropped)

\* The same, whatever fails.
CardsForAll ==
    []<>(\A id \in DOMAIN news : news[id].card)

\* What the reader skipped is not in the letter.
LocationIsCurrent ==
    \A k \in Letters : letters[k].form.geo \in {0, letters[k].form.cityTurn}

\* A letter somebody decided stays decided.
DecidedStays ==
    [][\A id \in DOMAIN news : news[id].status \in {"approved", "rejected"} =>
           news'[id].status # "pending"]_news

\* An item without a date that was in the feed before the source was ever
\* fetched is archive, and not imported.
ArchiveStaysOut ==
    \A n \in Runs : run[n].first => \A id \in DOMAIN run[n].drafts : id[3] \notin Undated

\* No story is on file twice.
NoStoryTwice ==
    \A a, b \in DOMAIN news :
        news[a].story = news[b].story /\ a[1] > 0 /\ b[1] > 0 => a = b

\* Excluding words veto a city: what contains them does not go there.
VetoHolds ==
    \A id \in DOMAIN news : id[1] > 0 => news[id].cities \cap TextOf[id[3]].vetoed = {}
===============================================================================
