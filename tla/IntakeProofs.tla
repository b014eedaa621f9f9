----------------------------- MODULE IntakeProofs -----------------------------
(***************************************************************************)
(* What Intake satisfies for any number of sources, items, cities, runs,   *)
(* readers and faults.                                                     *)
(***************************************************************************)
EXTENDS Intake, FiniteSetTheorems, SequenceTheorems, WellFoundedInduction, TLAPS

-----------------------------------------------------------------------------
(* Rows. *)

\* The tables there can be: rows with ids of the kind that is used.
Tables == UNION {[D -> Row] : D \in SUBSET RowIds}

LEMMA TableRows ==
  ASSUME NEW rows
  PROVE  rows \in Tables <=>
            /\ rows = [id \in DOMAIN rows |-> rows[id]]
            /\ DOMAIN rows \subseteq RowIds
            /\ \A id \in DOMAIN rows : rows[id] \in Row
<1>1. rows \in Tables <=> \E D \in SUBSET RowIds : rows \in [D -> Row]
  BY Zenon DEF Tables
<1> HIDE DEF Row, RowIds
<1> QED
  BY <1>1

LEMMA EmptyTable == NoRows \in Tables /\ DOMAIN NoRows = {} /\ StoriesOf(NoRows) = {}
<1>1. NoRows \in [{} -> Row] /\ DOMAIN NoRows = {}
  BY DEF NoRows
<1> QED
  BY <1>1 DEF Tables, StoriesOf

\* Insertion adds the ids and the stories of what is inserted.
LEMMA Inserted ==
  ASSUME NEW rows \in Tables, NEW more \in Tables
  PROVE  /\ With(rows, more) \in Tables
         /\ DOMAIN With(rows, more) = DOMAIN rows \cup DOMAIN more
         /\ \A id \in DOMAIN more : With(rows, more)[id] = more[id]
         /\ \A id \in DOMAIN rows \ DOMAIN more : With(rows, more)[id] = rows[id]
<1>1. DOMAIN With(rows, more) = DOMAIN rows \cup DOMAIN more
  BY DEF With
<1>2. /\ \A id \in DOMAIN more : With(rows, more)[id] = more[id]
      /\ \A id \in DOMAIN rows \ DOMAIN more : With(rows, more)[id] = rows[id]
  BY DEF With
<1>3. With(rows, more) = [id \in DOMAIN With(rows, more) |-> With(rows, more)[id]]
  BY <1>1 DEF With
<1>4. /\ DOMAIN rows \subseteq RowIds /\ DOMAIN more \subseteq RowIds
      /\ \A id \in DOMAIN rows : rows[id] \in Row
      /\ \A id \in DOMAIN more : more[id] \in Row
  BY TableRows
<1> HIDE DEF With
<1>5. \A id \in DOMAIN With(rows, more) : With(rows, more)[id] \in Row
  BY <1>1, <1>2, <1>4
<1>6. With(rows, more) \in Tables
  BY <1>1, <1>3, <1>4, <1>5, TableRows
<1> QED
  BY <1>1, <1>2, <1>6

LEMMA RowOf ==
  ASSUME NEW id \in RowIds, NEW row \in Row
  PROVE  /\ [d \in {id} |-> row] \in Tables
         /\ DOMAIN [d \in {id} |-> row] = {id}
         /\ [d \in {id} |-> row][id] = row
<1>1. [d \in {id} |-> row] \in [{id} -> Row]
  OBVIOUS
<1> QED
  BY <1>1, Zenon DEF Tables

\* `new` has the rows of `old`, with their stories, and no other rows of message n.
Extends(old, new) ==
    /\ DOMAIN old \subseteq DOMAIN new
    /\ \A id \in DOMAIN old : new[id].story = old[id].story
NoneOf(n, old, new) == \A id \in DOMAIN new \ DOMAIN old : id[1] # n

LEMMA StoriesStay ==
  ASSUME NEW old, NEW new, Extends(old, new)
  PROVE  StoriesOf(old) \subseteq StoriesOf(new)
  BY DEF Extends, StoriesOf

LEMMA StoriesInserted ==
  ASSUME NEW rows \in Tables, NEW more \in Tables, DOMAIN rows \cap DOMAIN more = {}
  PROVE  /\ Extends(rows, With(rows, more))
         /\ StoriesOf(With(rows, more)) = StoriesOf(rows) \cup StoriesOf(more)
<1> DEFINE all == With(rows, more)
<1>1. /\ DOMAIN all = DOMAIN rows \cup DOMAIN more
      /\ \A id \in DOMAIN more : all[id] = more[id]
      /\ \A id \in DOMAIN rows : all[id] = rows[id]
  BY Inserted
<1> HIDE DEF all
<1>2. Extends(rows, all)
  BY <1>1 DEF Extends
<1>3. StoriesOf(all) = StoriesOf(rows) \cup StoriesOf(more)
  BY <1>1 DEF StoriesOf
<1> QED
  BY <1>2, <1>3 DEF all

-----------------------------------------------------------------------------
(* A run of ingest_source. *)

RunRecord ==
  [pc : {"none", "queued", "working", "inserting", "handing", "done"},
   source : Sources, attempt : 0..MaxRetries, execution : Nat,
   began : (0..MaxNow) \cup {Never}, linked : SUBSET Cities, usable : SUBSET Cities,
   ok : BOOLEAN, todo : SUBSET Items, held : SUBSET [item : Items, cities : SUBSET Cities],
   locked : BOOLEAN, drafts : Tables, known : SUBSET (Stories \cup {NoStory}),
   first : BOOLEAN, cards : SUBSET RowIds, calls : SUBSET RowIds]

\* What TargetsFit says of one item.
CitiesFit(r, i, cities) ==
    /\ cities # {}
    /\ cities \subseteq r.usable \cup {Bucket}
    /\ LinkedTo[r.source] # {} =>
          /\ cities \subseteq r.linked
          /\ (\/ TextOf[i].elsewhere
              \/ (TextOf[i].named \ TextOf[i].vetoed) \cap r.linked # {}) =>
                \A c \in cities : Mentions(TextOf[i], c)

\* Every execution but those that failed costs a retry or a fault.
Counted(r, count) ==
    /\ r.execution <= r.attempt + count
    /\ r.execution <= r.attempt + MaxFaults

\* The rows of a run are those of its execution, of items with cities that fit and
\* stories that are neither known nor stored by it before.
DraftsFit(n, r) ==
    /\ r.cards \cup r.calls \subseteq DOMAIN r.drafts
    /\ \A id \in DOMAIN r.drafts :
          /\ id[1] = n /\ id[2] = r.execution /\ id[3] \in Items
          /\ r.drafts[id].story = StoryOf[id[3]]
          /\ CitiesFit(r, id[3], r.drafts[id].cities)
    /\ \A a, b \in DOMAIN r.drafts : r.drafts[a].story = r.drafts[b].story => a = b
    /\ StoriesOf(r.drafts) \cap r.known = {}

\* What a run has not written yet.
WaitingFits(r) ==
    /\ r.linked \subseteq r.usable
    /\ \A h \in r.held : StoryOf[h.item] \notin r.known /\ CitiesFit(r, h.item, h.cities)
    /\ r.pc \in {"queued", "working", "inserting"} /\ ~r.locked => r.drafts = NoRows
    /\ r.pc # "inserting" => r.held = {}
    /\ r.locked => r.pc = "working"

\* The rows of message n that are committed: those of earlier executions.
Committed(n, r, rows) ==
    /\ r.known \subseteq StoriesOf(rows)
    /\ r.pc = "handing" => DOMAIN r.drafts \subseteq DOMAIN rows
    /\ r.pc = "none" => \A id \in DOMAIN rows : id[1] # n
    /\ r.pc \in {"queued", "working", "inserting"} =>
          \A id \in DOMAIN rows : id[1] = n => id[2] < r.execution
    /\ r.pc = "handing" => \A id \in DOMAIN rows : id[1] = n => id[2] <= r.execution

RunInv(n, r, rows, count) ==
    /\ r \in RunRecord
    /\ Counted(r, count)
    /\ DraftsFit(n, r)
    /\ WaitingFits(r)
    /\ Committed(n, r, rows)

LEMMA RunKept ==
  ASSUME NEW n, NEW r, NEW rows, NEW count \in Nat, RunInv(n, r, rows, count),
         NEW more, Extends(rows, more), NoneOf(n, rows, more),
         NEW larger \in Nat, larger >= count
  PROVE  RunInv(n, r, more, larger)
<1>1. Counted(r, larger)
  BY DEF RunInv, Counted, RunRecord
<1>2. Committed(n, r, more)
  BY StoriesStay DEF RunInv, Committed, Extends, NoneOf
<1> QED
  BY <1>1, <1>2 DEF RunInv

\* A run without rows or anything in hand.
Blank(r) ==
    /\ r.drafts = NoRows /\ r.cards = {} /\ r.calls = {} /\ r.known = {} /\ r.held = {}
    /\ r.linked = {} /\ ~r.locked

LEMMA IdleIsRun ==
  /\ Idle \in RunRecord /\ Blank(Idle)
  /\ Idle.pc = "none" /\ Idle.attempt = 0 /\ Idle.execution = 0
<1>1. (CHOOSE s \in Sources : TRUE) \in Sources
  BY IngestionAssumption
<1>2. Idle \in RunRecord
  BY <1>1, EmptyTable, IngestionAssumption DEF Idle, RunRecord, Never
<1>3. Blank(Idle) /\ Idle.pc = "none" /\ Idle.attempt = 0 /\ Idle.execution = 0
  BY DEF Idle, Blank
<1> QED
  BY <1>2, <1>3

LEMMA BlankRun ==
  ASSUME NEW n, NEW r \in RunRecord, NEW rows, NEW count, Counted(r, count), Blank(r),
         r.pc \in {"none", "queued", "done"},
         r.pc = "none" => \A id \in DOMAIN rows : id[1] # n,
         r.pc = "queued" => \A id \in DOMAIN rows : id[1] = n => id[2] < r.execution
  PROVE  RunInv(n, r, rows, count)
  BY EmptyTable DEF RunInv, DraftsFit, WaitingFits, Committed, Blank

LEMMA IsMessage ==
  ASSUME NEW s \in Sources
  PROVE  /\ Message(s) \in RunRecord /\ Blank(Message(s))
         /\ Message(s).pc = "queued" /\ Message(s).source = s
         /\ Message(s).attempt = 0 /\ Message(s).execution = 0
<1> DEFINE r == Message(s)
<1>1. r = [Idle EXCEPT !.pc = "queued", !.source = s]
  BY DEF Message
<1> HIDE DEF r
<1>2. r \in RunRecord
  BY <1>1, IdleIsRun DEF RunRecord
<1>3. Blank(r) /\ r.pc = "queued" /\ r.source = s /\ r.attempt = 0 /\ r.execution = 0
  BY <1>1, IdleIsRun DEF RunRecord, Blank
<1> QED
  BY <1>2, <1>3 DEF r

\* A message that was never delivered, and one that is.
LEMMA FirstMessage ==
  ASSUME NEW n, NEW s \in Sources, NEW rows, NEW count \in Nat,
         \A id \in DOMAIN rows : id[1] # n
  PROVE  /\ RunInv(n, Idle, rows, count)
         /\ RunInv(n, Message(s), rows, count)
<1>1. MaxFaults \in Nat /\ MaxRetries \in Nat
  BY IngestionAssumption
<1>2. RunInv(n, Idle, rows, count)
  BY <1>1, IdleIsRun, BlankRun DEF Counted
<1>3. RunInv(n, Message(s), rows, count)
  BY <1>1, IsMessage, BlankRun DEF Counted
<1> QED
  BY <1>2, <1>3

\* A record that takes the place of r: of the same message and not holding the row.
Replaces(new, r) == new.source = r.source /\ ~new.locked /\ new.pc # "none"

LEMMA FinishedRun ==
  ASSUME NEW n, NEW r \in RunRecord, NEW rows, NEW count \in Nat
  PROVE  RunInv(n, Finished(r), rows, count) /\ Replaces(Finished(r), r)
<1> DEFINE f == Finished(r)
<1>1. MaxFaults \in Nat /\ MaxRetries \in Nat /\ r.source \in Sources
  BY IngestionAssumption DEF RunRecord
<1>2. f = [Idle EXCEPT !.pc = "done", !.source = r.source]
  BY DEF Finished
<1> HIDE DEF f
<1>3. f \in RunRecord
  BY <1>1, <1>2, IdleIsRun DEF RunRecord
<1>4. /\ Blank(f) /\ f.pc = "done" /\ f.source = r.source
      /\ f.attempt = 0 /\ f.execution = 0
  BY <1>2, IdleIsRun DEF RunRecord, Blank
<1>5. RunInv(n, f, rows, count) /\ Replaces(f, r)
  BY <1>1, <1>3, <1>4, BlankRun DEF Counted, Replaces, Blank
<1> QED
  BY <1>5 DEF f

\* The same message once more: after a fault, or for a retry.
LEMMA AnotherExecution ==
  ASSUME NEW n, NEW r, NEW rows \in Tables, NEW count \in Nat, RunInv(n, r, rows, count),
         r.pc \in {"working", "inserting", "handing"}
  PROVE  /\ count < MaxFaults => RunInv(n, Anew(r), rows, count + 1)
         /\ RunInv(n, RetryOrGiveUp(r), rows, count)
         /\ Replaces(Anew(r), r) /\ Replaces(RetryOrGiveUp(r), r)
<1> DEFINE a == Anew(r)
           b == Again(r)
<1>1. MaxFaults \in Nat /\ MaxRetries \in Nat
  BY IngestionAssumption
<1>2. /\ r \in RunRecord /\ r.source \in Sources
      /\ r.execution \in Nat /\ r.attempt \in 0..MaxRetries
      /\ r.execution <= r.attempt + count /\ r.execution <= r.attempt + MaxFaults
  BY DEF RunInv, RunRecord, Counted
<1>3. \A id \in DOMAIN rows : id[1] = n => id[2] < r.execution + 1
  <2> SUFFICES ASSUME NEW id \in DOMAIN rows, id[1] = n PROVE id[2] < r.execution + 1
    OBVIOUS
  <2>1. id \in RowIds
    BY TableRows
  <2>2. id[2] \in Int
    BY <2>1, <1>1, SubmissionsAssumption DEF RowIds
  <2>3. id[2] < r.execution \/ id[2] <= r.execution
    BY DEF RunInv, Committed
  <2> QED
    BY <1>2, <2>2, <2>3
<1>4. a = [Message(r.source) EXCEPT !.attempt = r.attempt, !.execution = r.execution + 1]
  BY DEF Anew
<1>5. b = [a EXCEPT !.attempt = r.attempt + 1]
  BY DEF Again
<1> HIDE DEF a, b
<1>6. /\ a \in RunRecord /\ Blank(a) /\ a.pc = "queued" /\ a.source = r.source
      /\ a.attempt = r.attempt /\ a.execution = r.execution + 1
  <2>1. a \in RunRecord
    <3>1. Message(r.source) \in RunRecord /\ r.execution + 1 \in Nat
      BY <1>2, IsMessage
    <3> QED
      BY <1>2, <1>4, <3>1 DEF RunRecord
  <2>2. Blank(a) /\ a.pc = "queued" /\ a.source = r.source
    BY <1>2, <1>4, IsMessage DEF RunRecord, Blank
  <2>3. a.attempt = r.attempt /\ a.execution = r.execution + 1
    BY <1>2, <1>4, IsMessage DEF RunRecord
  <2> QED
    BY <2>1, <2>2, <2>3
<1>7. count < MaxFaults => RunInv(n, a, rows, count + 1)
  <2> SUFFICES ASSUME count < MaxFaults PROVE RunInv(n, a, rows, count + 1)
    OBVIOUS
  <2>1. Counted(a, count + 1)
    BY <1>1, <1>2, <1>6 DEF Counted
  <2> QED
    BY <2>1, <1>3, <1>6, BlankRun
<1>8. r.attempt < MaxRetries => RunInv(n, b, rows, count) /\ Replaces(b, r)
  <2> SUFFICES ASSUME r.attempt < MaxRetries
               PROVE  RunInv(n, b, rows, count) /\ Replaces(b, r)
    OBVIOUS
  <2>1. b \in RunRecord
    BY <1>1, <1>2, <1>5, <1>6 DEF RunRecord
  <2>2. /\ Blank(b) /\ b.pc = "queued" /\ b.source = r.source
        /\ b.attempt = r.attempt + 1 /\ b.execution = r.execution + 1
    BY <1>5, <1>6 DEF RunRecord, Blank
  <2>3. Counted(b, count)
    BY <1>1, <1>2, <2>2 DEF Counted
  <2> QED
    BY <2>1, <2>2, <2>3, <1>3, BlankRun DEF Replaces, Blank
<1>9. Replaces(a, r)
  BY <1>6 DEF Replaces, Blank
<1>10. RunInv(n, Finished(r), rows, count) /\ Replaces(Finished(r), r)
  BY <1>2, FinishedRun
<1> QED
  BY <1>7, <1>8, <1>9, <1>10 DEF RetryOrGiveUp, a, b

LEMMA StoriesOfTable ==
  ASSUME NEW rows \in Tables
  PROVE  StoriesOf(rows) \subseteq Stories \cup {NoStory}
<1>1. \A id \in DOMAIN rows : rows[id].story \in Stories \cup {NoStory}
  BY TableRows DEF Row
<1> QED
  BY <1>1 DEF StoriesOf

\* Two records of a run that have stored the same rows for the same cities.
LEMMA SameDrafts ==
  ASSUME NEW n, NEW r, NEW new, NEW rows, DraftsFit(n, r),
         new.drafts = r.drafts, new.known = r.known, new.execution = r.execution,
         new.linked = r.linked, new.usable = r.usable, new.source = r.source,
         new.cards \cup new.calls \subseteq DOMAIN r.drafts
  PROVE  DraftsFit(n, new)
  BY DEF DraftsFit, CitiesFit

LEMMA BegunRun ==
  ASSUME NEW n, NEW r, news \in Tables, NEW count \in Nat, RunInv(n, r, news, count),
         r.pc = "queued", NEW isOk \in BOOLEAN, NEW items \in SUBSET Items,
         now \in 0..MaxNow, activeCities \subseteq Cities, source[r.source].ok \in BOOLEAN
  PROVE  RunInv(n, Begun(r, isOk, items), news, count) /\ Replaces(Begun(r, isOk, items), r)
<1> DEFINE b == Begun(r, isOk, items)
<1>1. b = [r EXCEPT !.pc = "working", !.began = now, !.ok = isOk, !.todo = items,
                    !.linked = LinkedTo[r.source] \cap activeCities,
                    !.usable = activeCities, !.known = StoriesOf(news),
                    !.first = ~source[r.source].ok]
  BY DEF Begun
<1> HIDE DEF b
<1>2. /\ r \in RunRecord /\ Counted(r, count) /\ DraftsFit(n, r) /\ WaitingFits(r)
      /\ Committed(n, r, news)
  BY DEF RunInv
<1>3. r.drafts = NoRows /\ r.held = {} /\ ~r.locked
  BY <1>2 DEF WaitingFits
<1>4. r.cards = {} /\ r.calls = {}
  BY <1>2, <1>3, EmptyTable DEF DraftsFit
<1>5. b \in RunRecord
  BY <1>1, <1>2, StoriesOfTable DEF RunRecord
<1>6. /\ b.pc = "working" /\ b.linked \subseteq b.usable /\ b.known = StoriesOf(news)
      /\ b.drafts = r.drafts /\ b.cards = r.cards /\ b.calls = r.calls /\ b.held = r.held
      /\ b.locked = r.locked /\ b.attempt = r.attempt /\ b.execution = r.execution
      /\ b.source = r.source
  BY <1>1, <1>2 DEF RunRecord
<1>7. Counted(b, count)
  BY <1>2, <1>6 DEF Counted
<1>8. DraftsFit(n, b) /\ WaitingFits(b)
  BY <1>3, <1>4, <1>6, EmptyTable DEF DraftsFit, WaitingFits
<1>9. Committed(n, b, news)
  BY <1>2, <1>6 DEF Committed
<1>10. RunInv(n, b, news, count) /\ Replaces(b, r)
  BY <1>3, <1>5, <1>6, <1>7, <1>8, <1>9 DEF RunInv, Replaces
<1> QED
  BY <1>10 DEF b

LEMMA SkippedItem ==
  ASSUME NEW n, NEW r, NEW rows, NEW count \in Nat, RunInv(n, r, rows, count), NEW i
  PROVE  LET s == [r EXCEPT !.todo = @ \ {i}] IN
         /\ RunInv(n, s, rows, count)
         /\ s.source = r.source /\ s.drafts = r.drafts /\ s.locked = r.locked
         /\ s.pc = r.pc
<1> DEFINE s == [r EXCEPT !.todo = @ \ {i}]
<1>1. s = [r EXCEPT !.todo = r.todo \ {i}]
  OBVIOUS
<1> HIDE DEF s
<1>2. /\ r \in RunRecord /\ Counted(r, count) /\ DraftsFit(n, r) /\ WaitingFits(r)
      /\ Committed(n, r, rows)
  BY DEF RunInv
<1>3. s \in RunRecord
  BY <1>1, <1>2 DEF RunRecord
<1>4. /\ s.pc = r.pc /\ s.linked = r.linked /\ s.usable = r.usable /\ s.known = r.known
      /\ s.drafts = r.drafts /\ s.cards = r.cards /\ s.calls = r.calls /\ s.held = r.held
      /\ s.locked = r.locked /\ s.attempt = r.attempt /\ s.execution = r.execution
      /\ s.source = r.source
  BY <1>1, <1>2 DEF RunRecord
<1>5. Counted(s, count) /\ Committed(n, s, rows)
  BY <1>2, <1>4 DEF Counted, Committed
<1>6. DraftsFit(n, s)
  <2>1. s.cards \cup s.calls \subseteq DOMAIN r.drafts
    BY <1>2, <1>4 DEF DraftsFit
  <2> QED
    BY <2>1, <1>2, <1>4, SameDrafts
<1>7. WaitingFits(s)
  BY <1>2, <1>4 DEF WaitingFits, CitiesFit
<1>8. RunInv(n, s, rows, count)
  BY <1>3, <1>5, <1>6, <1>7 DEF RunInv
<1> QED
  BY <1>4, <1>8 DEF s

LEMMA HeldItem ==
  ASSUME NEW n, NEW r, NEW rows, NEW count \in Nat, RunInv(n, r, rows, count),
         r.pc = "working", ~r.locked, NEW i \in Items, NEW C \in SUBSET Cities,
         StoryOf[i] \notin r.known, CitiesFit(r, i, C),
         NEW h, h = [r EXCEPT !.pc = "inserting", !.held = {[item |-> i, cities |-> C]}]
  PROVE  RunInv(n, h, rows, count) /\ Replaces(h, r)
<1>1. /\ r \in RunRecord /\ Counted(r, count) /\ DraftsFit(n, r) /\ WaitingFits(r)
      /\ Committed(n, r, rows)
  BY DEF RunInv
<1>2. h \in RunRecord
  <2>1. [item |-> i, cities |-> C] \in [item : Items, cities : SUBSET Cities]
    OBVIOUS
  <2> QED
    BY <1>1, <2>1 DEF RunRecord
<1>3. /\ h.pc = "inserting" /\ h.held = {[item |-> i, cities |-> C]}
      /\ h.linked = r.linked /\ h.usable = r.usable /\ h.known = r.known
      /\ h.drafts = r.drafts /\ h.cards = r.cards /\ h.calls = r.calls
      /\ h.locked = r.locked /\ h.attempt = r.attempt /\ h.execution = r.execution
      /\ h.source = r.source
  BY <1>1 DEF RunRecord
<1>4. Counted(h, count) /\ Committed(n, h, rows)
  BY <1>1, <1>3 DEF Counted, Committed
<1>5. DraftsFit(n, h)
  <2>1. h.cards \cup h.calls \subseteq DOMAIN r.drafts
    BY <1>1, <1>3 DEF DraftsFit
  <2> QED
    BY <2>1, <1>1, <1>3, SameDrafts
<1>6. WaitingFits(h)
  BY <1>1, <1>3 DEF WaitingFits, CitiesFit
<1> QED
  BY <1>2, <1>3, <1>4, <1>5, <1>6 DEF RunInv, Replaces

\* What is to be shown and to be pushed out are rows of the run.
Listed(r, K, L) == [r EXCEPT !.cards = K, !.calls = L]

LEMMA ListedRun ==
  ASSUME NEW n, NEW r, NEW rows, NEW count \in Nat, RunInv(n, r, rows, count),
         NEW K, NEW L, K \cup L \subseteq DOMAIN r.drafts
  PROVE  /\ RunInv(n, Listed(r, K, L), rows, count)
         /\ Listed(r, K, L).source = r.source /\ Listed(r, K, L).drafts = r.drafts
         /\ Listed(r, K, L).locked = r.locked
<1> DEFINE h == Listed(r, K, L)
<1>1. /\ r \in RunRecord /\ Counted(r, count) /\ DraftsFit(n, r) /\ WaitingFits(r)
      /\ Committed(n, r, rows)
  BY DEF RunInv
<1>2. K \subseteq RowIds /\ L \subseteq RowIds
  <2>1. r.drafts \in Tables
    BY <1>1 DEF RunRecord
  <2>2. DOMAIN r.drafts \subseteq RowIds
    BY <2>1, TableRows
  <2> QED
    BY <2>2
<1>3. h \in RunRecord
  BY <1>1, <1>2 DEF RunRecord, Listed
<1>4. /\ h.pc = r.pc /\ h.linked = r.linked /\ h.usable = r.usable
      /\ h.known = r.known /\ h.drafts = r.drafts
      /\ h.cards = K /\ h.calls = L /\ h.held = r.held /\ h.locked = r.locked
      /\ h.attempt = r.attempt /\ h.execution = r.execution /\ h.source = r.source
  BY <1>1 DEF RunRecord, Listed
<1> HIDE DEF h
<1>5. Counted(h, count) /\ Committed(n, h, rows)
  BY <1>1, <1>4 DEF Counted, Committed
<1>6. DraftsFit(n, h)
  BY <1>1, <1>4, SameDrafts
<1>7. WaitingFits(h)
  BY <1>1, <1>4 DEF WaitingFits, CitiesFit
<1>8. RunInv(n, h, rows, count)
  BY <1>3, <1>5, <1>6, <1>7 DEF RunInv
<1> QED
  BY <1>4, <1>8 DEF h

\* An item of the run is inserted and reported: its story is neither known nor stored by the run.
LEMMA TakenItem ==
  ASSUME NEW n \in Runs, NEW r, NEW rows \in Tables, NEW count \in Nat,
         RunInv(n, r, rows, count), r.pc \in {"working", "inserting"},
         NEW i \in Items, NEW C \in SUBSET Cities, NEW slot \in Slots, CitiesFit(r, i, C),
         StoryOf[i] \notin r.known \cup StoriesOf(r.drafts), r = run[n]
  PROVE  LET t == Reported(Stored(n, r, i, C, slot), IdOf(n, i)) IN
         /\ RunInv(n, t, rows, count)
         /\ t.source = r.source
         /\ StoriesOf(t.drafts) = StoriesOf(r.drafts) \cup {StoryOf[i]}
<1> DEFINE id == IdOf(n, i)
           row == Draft(r, i, C, slot)
           one == [d \in {id} |-> row]
           all == With(r.drafts, one)
           s == Stored(n, r, i, C, slot)
<1>1. /\ r \in RunRecord /\ Counted(r, count) /\ DraftsFit(n, r) /\ WaitingFits(r)
      /\ Committed(n, r, rows)
  BY DEF RunInv
<1>2. /\ r.drafts \in Tables /\ r.execution \in Nat /\ r.attempt \in 0..MaxRetries
      /\ r.source \in Sources
  BY <1>1 DEF RunRecord
<1>3. id = <<n, r.execution, i>> /\ id \in RowIds
  <2>1. r.execution \in 0..(MaxRetries + MaxFaults + MaxLetters)
    BY <1>1, <1>2, IngestionAssumption, SubmissionsAssumption DEF Counted
  <2> QED
    BY <2>1, IngestionAssumption DEF IdOf, RowIds, Runs
<1>4. row \in Row /\ row.story = StoryOf[i] /\ row.cities = C
  BY IngestionAssumption DEF Draft, Row
<1> HIDE DEF id, row
<1>5. one \in Tables /\ DOMAIN one = {id} /\ one[id] = row
  BY <1>3, <1>4, RowOf
<1>6. s = [r EXCEPT !.pc = "working", !.todo = r.todo \ {i}, !.held = {}, !.locked = TRUE,
                    !.drafts = all]
  BY DEF Stored, id, row
<1> HIDE DEF one
<1>7. /\ all \in Tables /\ DOMAIN all = DOMAIN r.drafts \cup {id}
      /\ all[id] = row
      /\ \A d \in DOMAIN r.drafts \ {id} : all[d] = r.drafts[d]
  <2>1. /\ all \in Tables /\ DOMAIN all = DOMAIN r.drafts \cup DOMAIN one
        /\ \A d \in DOMAIN one : all[d] = one[d]
        /\ \A d \in DOMAIN r.drafts \ DOMAIN one : all[d] = r.drafts[d]
    BY <1>2, <1>5, Inserted
  <2> HIDE DEF all
  <2> QED
    BY <1>5, <2>1
<1>8. id \notin DOMAIN r.drafts
  <2>1. \A d \in DOMAIN r.drafts : r.drafts[d].story = StoryOf[d[3]]
    BY <1>1 DEF DraftsFit
  <2>2. id \in DOMAIN r.drafts => r.drafts[id].story = StoryOf[i]
    BY <2>1, <1>3
  <2> QED
    BY <2>2 DEF StoriesOf
<1> HIDE DEF all, s
<1>9. StoriesOf(all) = StoriesOf(r.drafts) \cup {StoryOf[i]}
  BY <1>4, <1>7, <1>8 DEF StoriesOf
<1>10. s \in RunRecord
  BY <1>1, <1>6, <1>7 DEF RunRecord
<1>11. /\ s.pc = "working" /\ s.linked = r.linked /\ s.usable = r.usable
       /\ s.known = r.known /\ s.drafts = all /\ s.cards = r.cards /\ s.calls = r.calls
       /\ s.held = {} /\ s.locked /\ s.attempt = r.attempt /\ s.execution = r.execution
       /\ s.source = r.source
  BY <1>1, <1>6 DEF RunRecord
<1>12. Counted(s, count)
  BY <1>1, <1>11 DEF Counted
<1>13. Committed(n, s, rows)
  BY <1>1, <1>11 DEF Committed
<1>14. WaitingFits(s)
  BY <1>1, <1>11 DEF WaitingFits
<1>15. DraftsFit(n, s)
  <2>1. \A k, T : CitiesFit(s, k, T) <=> CitiesFit(r, k, T)
    BY <1>11 DEF CitiesFit
  <2>2. r.cards \cup r.calls \subseteq DOMAIN r.drafts
    BY <1>1 DEF DraftsFit
  <2>3. s.cards \cup s.calls \subseteq DOMAIN s.drafts
    BY <1>7, <1>11, <2>2
  <2>4. ASSUME NEW d \in DOMAIN s.drafts
        PROVE  /\ d[1] = n /\ d[2] = s.execution /\ d[3] \in Items
               /\ s.drafts[d].story = StoryOf[d[3]]
               /\ CitiesFit(s, d[3], s.drafts[d].cities)
    <3>1. CASE d = id
      BY <1>3, <1>4, <1>7, <1>11, <2>1, <3>1
    <3>2. CASE d \in DOMAIN r.drafts /\ d # id
      <4>1. s.drafts[d] = r.drafts[d]
        BY <1>7, <1>11, <3>2
      <4>2. /\ d[1] = n /\ d[2] = r.execution /\ d[3] \in Items
            /\ r.drafts[d].story = StoryOf[d[3]]
            /\ CitiesFit(r, d[3], r.drafts[d].cities)
        BY <1>1, <3>2 DEF DraftsFit
      <4> QED
        BY <4>1, <4>2, <1>11, <2>1
    <3> QED
      BY <1>7, <1>11, <2>4, <3>1, <3>2
  <2>5. ASSUME NEW a \in DOMAIN s.drafts, NEW b \in DOMAIN s.drafts,
               s.drafts[a].story = s.drafts[b].story
        PROVE  a = b
    <3>1. \A d \in DOMAIN r.drafts : all[d] = r.drafts[d] /\ r.drafts[d].story # StoryOf[i]
      BY <1>7, <1>8 DEF StoriesOf
    <3>2. \A c, d \in DOMAIN r.drafts : r.drafts[c].story = r.drafts[d].story => c = d
      BY <1>1 DEF DraftsFit
    <3> QED
      BY <2>5, <3>1, <3>2, <1>4, <1>7, <1>11
  <2>6. StoriesOf(s.drafts) \cap s.known = {}
    BY <1>1, <1>9, <1>11 DEF DraftsFit
  <2> QED
    BY <2>3, <2>4, <2>5, <2>6 DEF DraftsFit
<1>16. RunInv(n, s, rows, count)
  BY <1>10, <1>12, <1>13, <1>14, <1>15 DEF RunInv
<1> DEFINE K == s.cards \cup {id}
           L == s.calls \cup {d \in {id} : s.drafts[d].status = "approved"}
           t == Reported(s, id)
<1>17. K \cup L \subseteq DOMAIN s.drafts
  BY <1>7, <1>11, <1>15 DEF DraftsFit
<1>18. t = Listed(s, K, L)
  BY DEF Reported, Listed
<1> HIDE DEF K, L, t
<1>19. RunInv(n, t, rows, count) /\ t.source = s.source /\ t.drafts = s.drafts
  BY <1>16, <1>17, <1>18, ListedRun
<1>20. /\ RunInv(n, t, rows, count) /\ t.source = r.source
       /\ StoriesOf(t.drafts) = StoriesOf(r.drafts) \cup {StoryOf[i]}
  BY <1>9, <1>11, <1>19
<1> QED
  BY <1>20 DEF t, s, id

\* The commit of the run: its rows join those of the table.
LEMMA CommittedRun ==
  ASSUME NEW n \in Runs, NEW r, NEW rows \in Tables, NEW count \in Nat,
         RunInv(n, r, rows, count), r.pc = "working",
         NEW h, h = [r EXCEPT !.pc = "handing", !.locked = FALSE]
  PROVE  /\ DOMAIN rows \cap DOMAIN r.drafts = {}
         /\ RunInv(n, h, With(rows, r.drafts), count)
         /\ Replaces(h, r)
<1>1. /\ r \in RunRecord /\ Counted(r, count) /\ DraftsFit(n, r) /\ WaitingFits(r)
      /\ Committed(n, r, rows)
  BY DEF RunInv
<1>2. r.drafts \in Tables /\ r.execution \in Nat /\ DOMAIN r.drafts \subseteq RowIds
  BY <1>1, TableRows DEF RunRecord
<1> DEFINE new == With(rows, r.drafts)
<1>3. /\ new \in Tables /\ DOMAIN new = DOMAIN rows \cup DOMAIN r.drafts
  BY <1>2, Inserted
<1> HIDE DEF new
<1>4. \A id \in DOMAIN rows : id[1] = n => id[2] < r.execution
  BY <1>1 DEF Committed
<1>5. \A id \in DOMAIN r.drafts : id[1] = n /\ id[2] = r.execution
  BY <1>1 DEF DraftsFit
<1>6. DOMAIN rows \cap DOMAIN r.drafts = {}
  BY <1>2, <1>4, <1>5
<1>7. Extends(rows, new) /\ StoriesOf(new) = StoriesOf(rows) \cup StoriesOf(r.drafts)
  BY <1>2, <1>6, StoriesInserted DEF new
<1>8. h \in RunRecord
  BY <1>1 DEF RunRecord
<1>9. /\ h.pc = "handing" /\ h.linked = r.linked /\ h.usable = r.usable
      /\ h.known = r.known /\ h.drafts = r.drafts /\ h.cards = r.cards
      /\ h.calls = r.calls /\ h.held = r.held /\ ~h.locked
      /\ h.attempt = r.attempt /\ h.execution = r.execution /\ h.source = r.source
  BY <1>1 DEF RunRecord
<1>10. Counted(h, count)
  BY <1>1, <1>9 DEF Counted
<1>11. DraftsFit(n, h)
  <2>1. h.cards \cup h.calls \subseteq DOMAIN r.drafts
    BY <1>1, <1>9 DEF DraftsFit
  <2> QED
    BY <2>1, <1>1, <1>9, SameDrafts
<1>12. WaitingFits(h)
  BY <1>1, <1>9 DEF WaitingFits
<1>13. Committed(n, h, new)
  <2>1. \A id \in DOMAIN new : id[1] = n => id[2] <= h.execution
    <3> SUFFICES ASSUME NEW id \in DOMAIN new, id[1] = n PROVE id[2] <= r.execution
      BY <1>9
    <3>1. id \in RowIds
      BY <1>3, TableRows
    <3>2. id[2] \in Int
      BY <3>1, IngestionAssumption, SubmissionsAssumption DEF RowIds
    <3> QED
      BY <1>2, <1>3, <1>4, <1>5, <3>2
  <2>2. h.known \subseteq StoriesOf(new)
    BY <1>1, <1>7, <1>9 DEF Committed
  <2> QED
    BY <1>3, <1>9, <2>1, <2>2 DEF Committed
<1>14. RunInv(n, h, new, count)
  BY <1>8, <1>10, <1>11, <1>12, <1>13 DEF RunInv
<1> QED
  BY <1>6, <1>9, <1>14 DEF Replaces, new

\* One task or card less to hand on.
LEMMA HandedRun ==
  ASSUME NEW n, NEW r, NEW rows, NEW count \in Nat, RunInv(n, r, rows, count),
         r.pc = "handing", NEW id,
         NEW h, \/ h = [r EXCEPT !.cards = @ \ {id}]
                \/ h = [r EXCEPT !.calls = @ \ {id}]
  PROVE  RunInv(n, h, rows, count) /\ Replaces(h, r)
<1>1. /\ r \in RunRecord /\ Counted(r, count) /\ DraftsFit(n, r) /\ WaitingFits(r)
      /\ Committed(n, r, rows)
  BY DEF RunInv
<1>2. \/ h = [r EXCEPT !.cards = r.cards \ {id}]
      \/ h = [r EXCEPT !.calls = r.calls \ {id}]
  OBVIOUS
<1>3. h \in RunRecord
  BY <1>1, <1>2 DEF RunRecord
<1>4. /\ h.pc = "handing" /\ h.linked = r.linked /\ h.usable = r.usable
      /\ h.known = r.known /\ h.drafts = r.drafts /\ h.cards \subseteq r.cards
      /\ h.calls \subseteq r.calls /\ h.held = r.held /\ h.locked = r.locked
      /\ h.attempt = r.attempt /\ h.execution = r.execution /\ h.source = r.source
  BY <1>1, <1>2 DEF RunRecord
<1>5. Counted(h, count) /\ Committed(n, h, rows)
  BY <1>1, <1>4 DEF Counted, Committed
<1>6. DraftsFit(n, h)
  <2>1. h.cards \cup h.calls \subseteq DOMAIN r.drafts
    BY <1>1, <1>4 DEF DraftsFit
  <2> QED
    BY <2>1, <1>1, <1>4, SameDrafts
<1>7. WaitingFits(h) /\ ~h.locked
  BY <1>1, <1>4 DEF WaitingFits
<1> QED
  BY <1>3, <1>4, <1>5, <1>6, <1>7 DEF RunInv, Replaces

-----------------------------------------------------------------------------
(* Relevance. *)

LEMMA ScoreOf ==
  ASSUME NEW text \in Text, NEW c \in Cities
  PROVE  /\ Score(text, c) \in 0..60
         /\ Score(text, c) >= MinScore => Mentions(text, c)
         /\ c \in text.named \ text.vetoed => Score(text, c) >= MinScore
<1> DEFINE byName == IF c \in text.named THEN 1 ELSE 0
           raw == 20 * (text.keywords[c] + byName) + 8 * text.extra[c]
           capped == IF raw > 60 THEN 60 ELSE raw
<1>1. text.keywords[c] \in 0..3 /\ text.extra[c] \in 0..3 /\ byName \in {0, 1}
  BY DEF Text
<1>2. Score(text, c) = IF c \in text.vetoed THEN 0
                       ELSE IF byName = 1 /\ capped < 45 THEN 45 ELSE capped
  BY DEF Score
<1>3. ~Mentions(text, c) => byName = 0 /\ text.keywords[c] = 0 /\ text.extra[c] = 0
  BY <1>1 DEF Mentions
<1>4. c \in text.named <=> byName = 1
  OBVIOUS
<1> HIDE DEF byName
<1>5. raw \in Nat /\ capped \in 0..60
  BY <1>1
<1>6. ~Mentions(text, c) => capped = 0 /\ byName # 1
  BY <1>3
<1> HIDE DEF capped
<1>7. Score(text, c) \in 0..60
  BY <1>2, <1>5
<1> QED
  BY <1>2, <1>4, <1>5, <1>6, <1>7 DEF MinScore

\* Every set of numbers has a least element.
LEMMA Least ==
  ASSUME NEW S \in SUBSET Nat, S # {}
  PROVE  \E m \in S : \A k \in S : m <= k
<1> DEFINE R == OpToRel(<, Nat)
<1>1. R = {pair \in Nat \X Nat : pair[1] < pair[2]}
  BY DEF OpToRel
<1>2. IsWellFoundedOn(R, Nat)
  BY NatLessThanWellFounded, Zenon
<1> HIDE DEF R
<1>3. PICK m \in S : \A k \in S : <<k, m>> \notin R
  BY <1>2, WFMin
<1>4. \A k \in S : m <= k
  <2> SUFFICES ASSUME NEW k \in S, k < m PROVE FALSE
    OBVIOUS
  <2>1. <<k, m>> \in R
    BY <1>1
  <2> QED
    BY <1>3, <2>1
<1> QED
  BY <1>4

LEMMA BestIsOne ==
  ASSUME NEW text \in Text, NEW S \in SUBSET Cities, S # {}
  PROVE  Best(text, S) \in S
<1> DEFINE Missed == {60 - Score(text, c) : c \in S}
<1>1. \A c \in S : Score(text, c) \in 0..60
  BY ScoreOf
<1>2. Missed \in SUBSET Nat /\ Missed # {}
  BY <1>1
<1>3. PICK m \in Missed : \A k \in Missed : m <= k
  BY <1>2, Least
<1>4. PICK c \in S : m = 60 - Score(text, c)
  OBVIOUS
<1>5. \A d \in S : Score(text, d) <= Score(text, c)
  <2> SUFFICES ASSUME NEW d \in S PROVE Score(text, d) <= Score(text, c)
    OBVIOUS
  <2>1. 60 - Score(text, c) <= 60 - Score(text, d)
    BY <1>3, <1>4
  <2> QED
    BY <1>1, <2>1
<1> QED
  BY <1>5 DEF Best

\* The cities the matcher picks fit the text and the source.
LEMMA TargetsAreFit ==
  ASSUME NEW r \in RunRecord, WaitingFits(r), activeCities \subseteq Cities,
         NEW i \in Items, TargetsOf(r, i) # {}
  PROVE  CitiesFit(r, i, TargetsOf(r, i)) /\ TargetsOf(r, i) \subseteq Cities
<1> DEFINE text == TextOf[i]
<1>1. text \in Text /\ r.linked \subseteq Cities /\ r.usable \subseteq Cities
  BY IngestionAssumption DEF RunRecord
<1>2. r.linked \subseteq r.usable
  BY DEF WaitingFits
<1>3. CASE LinkedTo[r.source] # {}
  <2> DEFINE M == Matches(text, r.linked)
             T == TargetsOf(r, i)
  <2>1. /\ M \subseteq r.linked /\ \A c \in M : Mentions(text, c)
        /\ (text.named \ text.vetoed) \cap r.linked \subseteq M
    BY <1>1, ScoreOf DEF Matches
  <2>2. \/ T = M
        \/ T = r.linked /\ M = {} /\ ~text.elsewhere
    BY <1>3 DEF TargetsOf, TargetsOfLinked
  <2> HIDE DEF M, T
  <2>3. (text.elsewhere \/ (text.named \ text.vetoed) \cap r.linked # {}) => T = M
    BY <2>1, <2>2
  <2>4. T \subseteq r.linked /\ T # {}
    BY <2>1, <2>2 DEF T
  <2>5. CitiesFit(r, i, T) /\ T \subseteq Cities
    BY <1>1, <1>2, <2>1, <2>3, <2>4 DEF CitiesFit
  <2> QED
    BY <2>5 DEF T
<1>4. CASE LinkedTo[r.source] = {}
  <2> DEFINE U == r.usable \ {Bucket}
             T == TargetsOf(r, i)
  <2>1. T = TargetsOfGlobal(text, U, {Bucket} \cap activeCities)
    BY <1>4 DEF TargetsOf
  <2>2. Matches(text, U) # {} => Best(text, U) \in U
    <3>1. Matches(text, U) # {} => U # {}
      BY DEF Matches
    <3> QED
      BY <1>1, <3>1, BestIsOne
  <2>3. T \subseteq U \/ T \subseteq {Bucket} \cap activeCities
    BY <2>1, <2>2 DEF TargetsOfGlobal
  <2> HIDE DEF T
  <2>4. T # {} /\ T \subseteq Cities /\ T \subseteq r.usable \cup {Bucket}
    BY <1>1, <2>3 DEF T
  <2>5. CitiesFit(r, i, T)
    BY <1>4, <2>4 DEF CitiesFit
  <2> QED
    BY <2>4, <2>5 DEF T
<1> QED
  BY <1>3, <1>4

-----------------------------------------------------------------------------
(* The sources and all runs. *)

SourceRecord ==
  [exists : BOOLEAN, active : BOOLEAN, checked : (0..MaxNow) \cup {Never}, ok : BOOLEAN]

Surroundings ==
    /\ now \in 0..MaxNow /\ born \in [Items -> (0..MaxNow) \cup {Never}]
    /\ activeCities \subseteq Cities /\ asked \subseteq Sources
    /\ source \in [Sources -> SourceRecord]
    /\ sent \in 0..MaxRuns /\ faults.count \in Nat

RunsInv ==
    /\ news \in Tables /\ pushed \subseteq DOMAIN news
    /\ run \in [Runs -> RunRecord]
    /\ \A n \in Runs : RunInv(n, run[n], news, faults.count)
    /\ \A n \in Runs : n > sent => run[n].pc = "none"

IngestInv == Surroundings /\ RunsInv

\* Whatever happens to the runs, what they have stored so far stays.
LEMMA OneRunMoves ==
  ASSUME RunsInv, Surroundings', NEW n \in Runs, run[n].pc # "none",
         run' = [run EXCEPT ![n] = run'[n]], RunInv(n, run'[n], news', faults'.count),
         news' \in Tables, Extends(news, news'),
         \A m \in Runs \ {n} : NoneOf(m, news, news'),
         pushed' \subseteq DOMAIN news', faults.count \in Nat, faults'.count >= faults.count,
         sent' = sent
  PROVE  IngestInv'
<1>1. faults'.count \in Nat
  BY DEF Surroundings
<1>2. \A m \in Runs : m # n => run'[m] = run[m]
  BY DEF RunsInv
<1>3. ASSUME NEW m \in Runs, m # n PROVE RunInv(m, run'[m], news', faults'.count)
  <2>1. RunInv(m, run[m], news, faults.count) /\ NoneOf(m, news, news')
    BY <1>3 DEF RunsInv
  <2>2. RunInv(m, run[m], news', faults'.count)
    BY <1>1, <2>1, RunKept
  <2> QED
    BY <1>2, <1>3, <2>2
<1>4. run'[n] \in RunRecord
  BY DEF RunInv
<1>5. run' \in [Runs -> RunRecord]
  BY <1>4 DEF RunsInv
<1>6. \A m \in Runs : RunInv(m, run'[m], news', faults'.count)
  BY <1>3
<1>7. \A m \in Runs : m > sent' => run'[m].pc = "none"
  BY <1>2 DEF RunsInv
<1> QED
  BY <1>5, <1>6, <1>7 DEF IngestInv, RunsInv

LEMMA RunsStay ==
  ASSUME RunsInv, Surroundings', faults.count \in Nat, UNCHANGED <<run, sent, pushed, faults>>,
         news' \in Tables, Extends(news, news'), \A m \in Runs : NoneOf(m, news, news')
  PROVE  IngestInv'
<1>1. ASSUME NEW m \in Runs PROVE RunInv(m, run[m], news', faults.count)
  <2>1. RunInv(m, run[m], news, faults.count) /\ NoneOf(m, news, news')
    BY DEF RunsInv
  <2> QED
    BY <2>1, RunKept
<1>2. pushed' \subseteq DOMAIN news'
  BY DEF RunsInv, Extends
<1> QED
  BY <1>1, <1>2 DEF IngestInv, RunsInv

LEMMA ItselfExtends ==
  ASSUME NEW rows
  PROVE  Extends(rows, rows) /\ \A m : NoneOf(m, rows, rows)
  BY DEF Extends, NoneOf

\* What happens to sources, feeds and cities; and a message that is sent.
LEMMA IngestAround ==
  ASSUME IngestInv,
         \/ \E s \in Sources : SwitchSource(s) \/ DeleteSource(s)
         \/ \E c \in Cities : SwitchCity(c)
         \/ \E i \in Items : Appear(i)
         \/ Tick
  PROVE  IngestInv'
<1>1. UNCHANGED <<run, sent, pushed, faults, news>>
  BY DEF SwitchSource, DeleteSource, SwitchCity, Appear, Tick
<1>2. Surroundings'
  <2> USE DEF IngestInv, Surroundings, SourceRecord
  <2>1. ASSUME NEW s \in Sources, SwitchSource(s) \/ DeleteSource(s) PROVE Surroundings'
    <3>1. \/ source' = [source EXCEPT ![s].active = ~source[s].active]
          \/ source' = [source EXCEPT ![s].exists = FALSE]
      BY <2>1 DEF SwitchSource, DeleteSource
    <3>2. source \in [Sources -> SourceRecord] /\ source[s].active \in BOOLEAN
      OBVIOUS
    <3>3. /\ [source[s] EXCEPT !.active = ~source[s].active] \in SourceRecord
          /\ [source[s] EXCEPT !.exists = FALSE] \in SourceRecord
      BY <3>2
    <3>4. \/ source' = [source EXCEPT ![s] = [source[s] EXCEPT !.active = ~source[s].active]]
          \/ source' = [source EXCEPT ![s] = [source[s] EXCEPT !.exists = FALSE]]
      BY <3>1
    <3>5. source' \in [Sources -> SourceRecord]
      BY <3>2, <3>3, <3>4
    <3> QED
      BY <2>1, <3>5 DEF SwitchSource, DeleteSource
  <2>2. ASSUME NEW c \in Cities, SwitchCity(c) PROVE Surroundings'
    BY <2>2 DEF SwitchCity
  <2>3. ASSUME NEW i \in Items, Appear(i) PROVE Surroundings'
    BY <2>3 DEF Appear
  <2>4. CASE Tick
    BY <2>4, IngestionAssumption DEF Tick
  <2> HIDE DEF Surroundings
  <2> QED
    BY <2>1, <2>2, <2>3, <2>4
<1>3. RunsInv /\ faults.count \in Nat /\ news \in Tables
  BY DEF IngestInv, Surroundings, RunsInv
<1> QED
  BY <1>1, <1>2, <1>3, RunsStay, ItselfExtends

LEMMA IngestEnqueues ==
  ASSUME IngestInv, NEW s \in Sources, DispatchDueSources(s) \/ CheckSourceNow(s)
  PROVE  IngestInv'
<1>1. /\ sent < MaxRuns /\ sent' = sent + 1
      /\ run' = [run EXCEPT ![sent + 1] = Message(s)]
      /\ UNCHANGED <<now, born, activeCities, source, pushed, faults, news>>
      /\ asked' \in {asked, asked \cup {s}}
  BY DEF DispatchDueSources, CheckSourceNow, Enqueue
<1>2. sent \in Nat /\ sent + 1 \in Runs
  BY <1>1, IngestionAssumption DEF IngestInv, Surroundings, Runs
<1>3. Surroundings'
  BY <1>1, <1>2, IngestionAssumption DEF IngestInv, Surroundings
<1>4. RunInv(sent + 1, Message(s), news, faults.count)
  <2>1. RunInv(sent + 1, run[sent + 1], news, faults.count) /\ run[sent + 1].pc = "none"
    BY <1>2 DEF IngestInv, RunsInv
  <2>2. \A id \in DOMAIN news : id[1] # sent + 1
    BY <2>1 DEF RunInv, Committed
  <2> QED
    BY <2>2, FirstMessage DEF IngestInv, Surroundings
<1>5. /\ run'[sent + 1] = Message(s)
      /\ \A n \in Runs : n # sent + 1 => run'[n] = run[n]
      /\ run' \in [Runs -> RunRecord]
  BY <1>1, <1>2, IsMessage DEF IngestInv, RunsInv
<1>6. \A n \in Runs : RunInv(n, run'[n], news, faults.count)
  BY <1>4, <1>5 DEF IngestInv, RunsInv
<1>7. \A n \in Runs : n > sent' => run'[n].pc = "none"
  BY <1>1, <1>2, <1>5 DEF IngestInv, RunsInv, Runs
<1> QED
  BY <1>1, <1>3, <1>5, <1>6, <1>7 DEF IngestInv, RunsInv

\* Only the record of run n changes.
LEMMA OnlyTheRun ==
  ASSUME IngestInv, NEW n \in Runs, run[n].pc # "none", NEW r, Become(n, r),
         RunInv(n, r, news, faults.count),
         UNCHANGED <<now, born, activeCities, source, asked, sent, pushed, faults, news>>
  PROVE  IngestInv'
<1>1. run' = [run EXCEPT ![n] = run'[n]] /\ run'[n] = r
  BY DEF Become, IngestInv, RunsInv
<1>2. Surroundings' /\ RunsInv /\ faults.count \in Nat /\ news \in Tables
  BY DEF IngestInv, Surroundings, RunsInv
<1>3. RunInv(n, run'[n], news', faults'.count)
  BY <1>1
<1>4. pushed' \subseteq DOMAIN news' /\ faults'.count >= faults.count
  BY <1>2 DEF RunsInv
<1> QED
  BY <1>1, <1>2, <1>3, <1>4, OneRunMoves, ItselfExtends

\* A fault takes place, and the run becomes r.
LEMMA FaultyRun ==
  ASSUME IngestInv, NEW n \in Runs, run[n].pc # "none", NEW r, Become(n, r),
         NEW kind, NEW cost, Fault(kind, cost), RunInv(n, r, news, faults.count + 1),
         UNCHANGED <<now, born, activeCities, source, asked, sent, pushed, news>>
  PROVE  IngestInv'
<1>1. run' = [run EXCEPT ![n] = run'[n]] /\ run'[n] = r
  BY DEF Become, IngestInv, RunsInv
<1>2. RunsInv /\ faults.count \in Nat /\ news \in Tables
  BY DEF IngestInv, Surroundings, RunsInv
<1>3. faults'.count = faults.count + 1
  BY DEF Fault
<1>4. Surroundings'
  BY <1>2, <1>3 DEF IngestInv, Surroundings
<1>5. RunInv(n, run'[n], news', faults'.count)
  BY <1>1, <1>3
<1>6. pushed' \subseteq DOMAIN news' /\ faults'.count >= faults.count
  BY <1>2, <1>3 DEF RunsInv
<1> QED
  BY <1>1, <1>2, <1>4, <1>5, <1>6, OneRunMoves, ItselfExtends

\* What is known of the run that takes the next step.
LEMMA RunFacts ==
  ASSUME IngestInv, NEW n \in Runs
  PROVE  /\ RunInv(n, run[n], news, faults.count) /\ run[n] \in RunRecord
         /\ news \in Tables /\ faults.count \in Nat /\ now \in 0..MaxNow
         /\ activeCities \subseteq Cities /\ run[n].source \in Sources
         /\ source[run[n].source].ok \in BOOLEAN
         /\ WaitingFits(run[n]) /\ DraftsFit(n, run[n]) /\ Committed(n, run[n], news)
  BY DEF IngestInv, RunsInv, Surroundings, RunRecord, SourceRecord, RunInv

LEMMA IngestBegins ==
  ASSUME IngestInv, NEW n \in Runs, SkipInactive(n) \/ Fetch(n) \/ FetchFails(n)
  PROVE  IngestInv'
<1> DEFINE r == run[n]
<1>1. /\ RunInv(n, r, news, faults.count) /\ r \in RunRecord
      /\ news \in Tables /\ faults.count \in Nat /\ now \in 0..MaxNow
      /\ activeCities \subseteq Cities /\ r.source \in Sources
      /\ source[r.source].ok \in BOOLEAN
  BY RunFacts
<1>2. CASE SkipInactive(n)
  <2>1. RunInv(n, Finished(r), news, faults.count)
    BY <1>1, FinishedRun
  <2> QED
    BY <1>2, <2>1, OnlyTheRun DEF SkipInactive
<1>3. CASE Fetch(n)
  <2> DEFINE items == {i \in {j \in Items : SourceOf[j] = r.source /\ born[j] # Never} :
                         Fresh(i, TRUE)}
             b == Begun(r, TRUE, items)
  <2>1. r.pc = "queued" /\ Become(n, b) /\ items \in SUBSET Items
    BY <1>3 DEF Fetch
  <2> HIDE DEF items
  <2>2. RunInv(n, b, news, faults.count)
    BY <1>1, <2>1, BegunRun
  <2> HIDE DEF b
  <2> QED
    BY <1>3, <2>1, <2>2, OnlyTheRun DEF Fetch
<1>4. CASE FetchFails(n)
  <2> DEFINE was == source[r.source].ok
             none == {}
             b == Begun(r, was, none)
  <2>1. r.pc = "queued" /\ Become(n, b) /\ Fault("fetch", {})
    BY <1>4 DEF FetchFails
  <2>4. was \in BOOLEAN /\ none \in SUBSET Items
    BY <1>1
  <2> HIDE DEF was, none
  <2>2. RunInv(n, b, news, faults.count)
    BY <1>1, <2>1, <2>4, BegunRun
  <2> HIDE DEF b
  <2>3. RunInv(n, b, news, faults.count + 1)
    <3>1. Extends(news, news) /\ NoneOf(n, news, news)
      BY ItselfExtends
    <3>2. faults.count + 1 \in Nat /\ faults.count + 1 >= faults.count
      BY <1>1
    <3> QED
      BY <1>1, <2>2, <3>1, <3>2, RunKept
  <2> QED
    BY <1>4, <2>1, <2>3, FaultyRun DEF FetchFails
<1> QED
  BY <1>2, <1>3, <1>4

LEMMA IngestTakes ==
  ASSUME IngestInv, NEW n \in Runs, NEW i \in Items, SkipItem(n, i) \/ TakeItem(n, i)
  PROVE  IngestInv'
<1> DEFINE r == run[n]
           C == TargetsOf(r, i)
<1>1. /\ RunInv(n, r, news, faults.count) /\ r \in RunRecord /\ WaitingFits(r)
      /\ news \in Tables /\ faults.count \in Nat /\ activeCities \subseteq Cities
      /\ Committed(n, r, news)
  BY RunFacts
<1>2. r.pc = "working"
  BY DEF SkipItem, TakeItem
<1>3. CASE SkipItem(n, i)
  <2> DEFINE s == [r EXCEPT !.todo = @ \ {i}]
  <2>1. RunInv(n, s, news, faults.count)
    BY <1>1, SkippedItem
  <2>2. Become(n, s)
    BY <1>3 DEF SkipItem
  <2> HIDE DEF s
  <2> QED
    BY <1>2, <1>3, <2>1, <2>2, OnlyTheRun DEF SkipItem
<1>4. CASE TakeItem(n, i)
  <2>1. C # {} /\ StoryOf[i] \notin StoriesOf(news) \cup StoriesOf(r.drafts)
    BY <1>4 DEF TakeItem, IsDuplicate
  <2>2. CitiesFit(r, i, C) /\ C \in SUBSET Cities
    BY <1>1, <2>1, TargetsAreFit
  <2>3. StoryOf[i] \notin r.known \cup StoriesOf(r.drafts)
    BY <1>1, <2>1 DEF Committed
  <2> HIDE DEF C
  <2>4. CASE r.locked
    <3>1. PICK slot \in Slots : Become(n, Reported(Stored(n, r, i, C, slot), IdOf(n, i)))
      BY <1>4, <2>4 DEF TakeItem, C
    <3> DEFINE t == Reported(Stored(n, r, i, C, slot), IdOf(n, i))
    <3>2. RunInv(n, t, news, faults.count)
      BY <1>1, <1>2, <2>2, <2>3, TakenItem
    <3> HIDE DEF t
    <3>3. Become(n, t)
      BY <3>1 DEF t
    <3> QED
      BY <1>2, <1>4, <3>2, <3>3, OnlyTheRun DEF TakeItem
  <2>5. CASE ~r.locked
    <3> DEFINE h == [r EXCEPT !.pc = "inserting", !.held = {[item |-> i, cities |-> C]}]
    <3>1. Become(n, h)
      BY <1>4, <2>5 DEF TakeItem, C
    <3>2. RunInv(n, h, news, faults.count)
      BY <1>1, <1>2, <2>2, <2>3, <2>5, HeldItem
    <3> HIDE DEF h
    <3> QED
      BY <1>2, <1>4, <3>1, <3>2, OnlyTheRun DEF TakeItem
  <2> QED
    BY <2>4, <2>5
<1> QED
  BY <1>3, <1>4

LEMMA IngestInserts ==
  ASSUME IngestInv, NEW n \in Runs, InsertFirst(n)
  PROVE  IngestInv'
<1> DEFINE r == run[n]
<1>1. /\ RunInv(n, r, news, faults.count) /\ r \in RunRecord /\ WaitingFits(r)
      /\ news \in Tables /\ faults.count \in Nat
  BY RunFacts
<1>2. PICK h \in r.held, slot \in Slots :
        Become(n, Reported(Stored(n, r, h.item, h.cities, slot), IdOf(n, h.item)))
  BY DEF InsertFirst
<1>3. r.pc = "inserting"
  BY DEF InsertFirst
<1>4. h.item \in Items /\ h.cities \in SUBSET Cities
  BY <1>1 DEF RunRecord
<1>5. StoryOf[h.item] \notin r.known /\ CitiesFit(r, h.item, h.cities) /\ r.drafts = NoRows
  BY <1>1, <1>3 DEF WaitingFits
<1>6. StoryOf[h.item] \notin r.known \cup StoriesOf(r.drafts)
  BY <1>5, EmptyTable
<1> DEFINE t == Reported(Stored(n, r, h.item, h.cities, slot), IdOf(n, h.item))
<1>7. RunInv(n, t, news, faults.count)
  BY <1>1, <1>3, <1>4, <1>5, <1>6, TakenItem
<1>8. Become(n, t)
  BY <1>2
<1> HIDE DEF t
<1> QED
  BY <1>3, <1>7, <1>8, OnlyTheRun DEF InsertFirst

\* The end of a run, and what it does besides when things fail.
LEMMA IngestEnds ==
  ASSUME IngestInv, NEW n \in Runs,
         SourceVanished(n) \/ Finish(n) \/ TaskFails(n) \/ WorkerDies(n)
  PROVE  IngestInv'
<1> DEFINE r == run[n]
<1>1. /\ RunInv(n, r, news, faults.count) /\ r \in RunRecord
      /\ news \in Tables /\ faults.count \in Nat
  BY RunFacts
<1>2. CASE SourceVanished(n)
  <2>1. RunInv(n, RetryOrGiveUp(r), news, faults.count)
    BY <1>1, <1>2, AnotherExecution DEF SourceVanished
  <2> QED
    BY <1>2, <2>1, OnlyTheRun DEF SourceVanished
<1>3. CASE Finish(n)
  <2>1. RunInv(n, Finished(r), news, faults.count)
    BY <1>1, FinishedRun
  <2> QED
    BY <1>3, <2>1, OnlyTheRun DEF Finish
<1>4. CASE TaskFails(n)
  <2>1. /\ r.pc \in {"working", "inserting", "handing"} /\ Become(n, RetryOrGiveUp(r))
        /\ \E kind, cost : Fault(kind, cost)
    BY <1>4 DEF TaskFails
  <2>2. RunInv(n, RetryOrGiveUp(r), news, faults.count)
    BY <1>1, <2>1, AnotherExecution
  <2>3. RunInv(n, RetryOrGiveUp(r), news, faults.count + 1)
    BY <1>1, <2>2, RunKept, ItselfExtends
  <2> QED
    BY <1>4, <2>1, <2>3, FaultyRun DEF TaskFails
<1>5. CASE WorkerDies(n)
  <2>1. /\ r.pc \in {"working", "inserting", "handing"} /\ Become(n, Anew(r))
        /\ \E kind, cost : Fault(kind, cost)
    BY <1>5 DEF WorkerDies
  <2>2. faults.count < MaxFaults
    BY <2>1 DEF Fault
  <2>3. RunInv(n, Anew(r), news, faults.count + 1)
    BY <1>1, <2>1, <2>2, AnotherExecution
  <2> QED
    BY <1>5, <2>1, <2>3, FaultyRun DEF WorkerDies
<1> QED
  BY <1>2, <1>3, <1>4, <1>5

\* An UPDATE of a card or a status leaves ids and stories alone.
LEMMA RowEdited ==
  ASSUME NEW rows \in Tables, NEW id, NEW row, NEW new,
         id \in DOMAIN rows => row \in Row /\ row.story = rows[id].story,
         new = [rows EXCEPT ![id] = row]
  PROVE  /\ new \in Tables /\ DOMAIN new = DOMAIN rows
         /\ \A d \in DOMAIN rows : new[d].story = rows[d].story
<1>1. /\ DOMAIN rows \subseteq RowIds
      /\ \A d \in DOMAIN rows : rows[d] \in Row
  BY TableRows
<1>2. DOMAIN new = DOMAIN rows
  OBVIOUS
<1>3. \A d \in DOMAIN rows : new[d] \in Row /\ new[d].story = rows[d].story
  BY <1>1
<1>4. new = [d \in DOMAIN new |-> new[d]]
  OBVIOUS
<1>5. new \in Tables
  BY <1>1, <1>2, <1>3, <1>4, TableRows
<1> QED
  BY <1>2, <1>3, <1>5

LEMMA IngestCommits ==
  ASSUME IngestInv, NEW n \in Runs, Commit(n)
  PROVE  IngestInv'
<1> DEFINE r == run[n]
           h == [r EXCEPT !.pc = "handing", !.locked = FALSE]
<1>1. /\ RunInv(n, r, news, faults.count) /\ r \in RunRecord /\ DraftsFit(n, r)
      /\ news \in Tables /\ faults.count \in Nat /\ r.source \in Sources
  BY RunFacts
<1>2. /\ r.pc = "working" /\ Become(n, h) /\ news' = With(news, r.drafts)
      /\ source' = [source EXCEPT ![r.source].checked = r.began, ![r.source].ok = r.ok]
      /\ UNCHANGED <<now, born, activeCities, asked, sent, pushed, faults>>
  BY DEF Commit
<1> HIDE DEF h
<1>3. /\ DOMAIN news \cap DOMAIN r.drafts = {}
      /\ RunInv(n, h, With(news, r.drafts), faults.count)
  BY <1>1, <1>2, CommittedRun DEF h
<1>4. r.drafts \in Tables
  BY <1>1 DEF RunRecord
<1>5. /\ news' \in Tables /\ DOMAIN news' = DOMAIN news \cup DOMAIN r.drafts
      /\ Extends(news, news')
  BY <1>1, <1>2, <1>3, <1>4, Inserted, StoriesInserted
<1>6. \A m \in Runs \ {n} : NoneOf(m, news, news')
  BY <1>1, <1>5 DEF NoneOf, DraftsFit
<1>7. Surroundings'
  <2>1. source' \in [Sources -> SourceRecord]
    <3>1. source \in [Sources -> SourceRecord]
      BY DEF IngestInv, Surroundings
    <3>2. r.began \in (0..MaxNow) \cup {Never} /\ r.ok \in BOOLEAN
      BY <1>1 DEF RunRecord
    <3>3. [source[r.source] EXCEPT !.checked = r.began, !.ok = r.ok] \in SourceRecord
      BY <1>1, <3>1, <3>2 DEF SourceRecord
    <3>4. source' = [source EXCEPT ![r.source] =
                        [source[r.source] EXCEPT !.checked = r.began, !.ok = r.ok]]
      BY <1>1, <1>2, <3>1
    <3> QED
      BY <3>1, <3>3, <3>4
  <2> QED
    BY <1>2, <2>1 DEF IngestInv, Surroundings
<1>8. run' = [run EXCEPT ![n] = run'[n]] /\ run'[n] = h /\ run[n].pc # "none"
  BY <1>2 DEF Become, IngestInv, RunsInv
<1>9. RunInv(n, run'[n], news', faults'.count)
  BY <1>2, <1>3, <1>8
<1>10. /\ RunsInv /\ pushed' \subseteq DOMAIN news' /\ faults'.count >= faults.count
       /\ sent' = sent
  BY <1>1, <1>2, <1>5 DEF IngestInv, RunsInv
<1> QED
  BY <1>1, <1>5, <1>6, <1>7, <1>8, <1>9, <1>10, OneRunMoves

LEMMA IngestHands ==
  ASSUME IngestInv, NEW n \in Runs,
         \/ \E id \in run[n].calls : PushOut(n, id)
         \/ \E id \in run[n].cards : Notify(n, id)
  PROVE  IngestInv'
<1> DEFINE r == run[n]
<1>1. /\ RunInv(n, r, news, faults.count) /\ r \in RunRecord /\ DraftsFit(n, r)
      /\ news \in Tables /\ faults.count \in Nat /\ Committed(n, r, news)
  BY RunFacts
<1>2. RunsInv /\ Surroundings
  BY DEF IngestInv
<1>3. ASSUME NEW id \in r.calls, PushOut(n, id) PROVE IngestInv'
  <2> DEFINE h == [r EXCEPT !.calls = @ \ {id}]
  <2>1. /\ r.pc = "handing" /\ Become(n, h) /\ pushed' = pushed \cup {id}
        /\ UNCHANGED <<now, born, activeCities, source, asked, sent, faults, news>>
    BY <1>3 DEF PushOut
  <2>2. RunInv(n, h, news, faults.count)
    BY <1>1, <2>1, HandedRun
  <2> HIDE DEF h
  <2>3. run' = [run EXCEPT ![n] = run'[n]] /\ run'[n] = h
    BY <1>2, <2>1 DEF Become, RunsInv
  <2>4. id \in DOMAIN news
    BY <1>1, <2>1 DEF DraftsFit, Committed
  <2>5. /\ RunInv(n, run'[n], news', faults'.count) /\ news' = news
        /\ pushed' \subseteq DOMAIN news' /\ faults'.count >= faults.count
    BY <1>1, <1>2, <2>1, <2>2, <2>3, <2>4 DEF RunsInv
  <2>6. Surroundings'
    BY <1>2, <2>1 DEF Surroundings
  <2> QED
    BY <1>1, <1>2, <2>1, <2>3, <2>5, <2>6, OneRunMoves, ItselfExtends
<1>4. ASSUME NEW id \in r.cards, Notify(n, id) PROVE IngestInv'
  <2> DEFINE h == [r EXCEPT !.cards = @ \ {id}]
  <2>1. /\ r.pc = "handing" /\ Become(n, h)
        /\ \/ news' = [news EXCEPT ![id].card = TRUE] /\ faults' = faults
           \/ Fault("card", {id}) /\ news' = news
        /\ UNCHANGED <<now, born, activeCities, source, asked, sent, pushed>>
    BY <1>4 DEF Notify
  <2>2. RunInv(n, h, news, faults.count)
    BY <1>1, <2>1, HandedRun
  <2> HIDE DEF h
  <2>3. run' = [run EXCEPT ![n] = run'[n]] /\ run'[n] = h
    BY <1>2, <2>1 DEF Become, RunsInv
  <2>4. /\ news' \in Tables /\ DOMAIN news' = DOMAIN news
        /\ \A d \in DOMAIN news : news'[d].story = news[d].story
    <3>1. CASE news' = [news EXCEPT ![id].card = TRUE]
      <4> DEFINE row == [news[id] EXCEPT !.card = TRUE]
                 new == news'
      <4>1. new = [news EXCEPT ![id] = row]
        BY <3>1
      <4>2. news[id] \in Row => row \in Row /\ row.story = news[id].story
        BY DEF Row
      <4>3. id \in DOMAIN news => news[id] \in Row
        BY <1>1, TableRows
      <4> HIDE DEF row, new
      <4>4. /\ new \in Tables /\ DOMAIN new = DOMAIN news
            /\ \A d \in DOMAIN news : new[d].story = news[d].story
        BY <1>1, <4>1, <4>2, <4>3, RowEdited
      <4> QED
        BY <4>4 DEF new
    <3>2. CASE news' = news
      BY <1>1, <3>2
    <3> QED
      BY <2>1, <3>1, <3>2
  <2>5. Extends(news, news') /\ \A m : NoneOf(m, news, news')
    BY <2>4 DEF Extends, NoneOf
  <2>6. faults'.count \in Nat /\ faults'.count >= faults.count
    BY <1>1, <2>1 DEF Fault
  <2>7. RunInv(n, run'[n], news', faults'.count)
    BY <1>1, <2>2, <2>3, <2>5, <2>6, RunKept
  <2>8. Surroundings' /\ pushed' \subseteq DOMAIN news'
    BY <1>2, <2>1, <2>4, <2>6 DEF Surroundings, RunsInv
  <2> QED
    BY <1>1, <1>2, <2>1, <2>3, <2>4, <2>5, <2>6, <2>7, <2>8, OneRunMoves
<1> QED
  BY <1>3, <1>4

\* An item that fails: the run goes on, without it or without a word of its row.
LEMMA FailedItem ==
  ASSUME IngestInv, NEW n \in Runs,
         (\E i \in Items : ItemFails(n, i)) \/ (\E id \in run[n].calls : SlotFails(n, id))
  PROVE  \E h, cost :
            /\ Become(n, h) /\ Fault("item", cost)
            /\ RunInv(n, h, news, faults.count)
            /\ h.source = run[n].source /\ h.drafts = run[n].drafts /\ h.locked = run[n].locked
            /\ run[n].pc = "working"
            /\ UNCHANGED <<now, born, activeCities, source, asked, sent, pushed, news>>
<1> DEFINE r == run[n]
<1>1. RunInv(n, r, news, faults.count) /\ DraftsFit(n, r) /\ faults.count \in Nat
  BY RunFacts
<1>2. ASSUME NEW i \in Items, ItemFails(n, i)
      PROVE  \E h, cost :
                /\ Become(n, h) /\ Fault("item", cost)
                /\ RunInv(n, h, news, faults.count)
                /\ h.source = r.source /\ h.drafts = r.drafts /\ h.locked = r.locked
                /\ r.pc = "working"
                /\ UNCHANGED <<now, born, activeCities, source, asked, sent, pushed, news>>
  <2> DEFINE h == [r EXCEPT !.todo = @ \ {i}]
             cost == {}
  <2>1. /\ Become(n, h) /\ Fault("item", cost) /\ r.pc = "working"
        /\ UNCHANGED <<now, born, activeCities, source, asked, sent, pushed, news>>
    BY <1>2 DEF ItemFails
  <2>2. /\ RunInv(n, h, news, faults.count)
        /\ h.source = r.source /\ h.drafts = r.drafts /\ h.locked = r.locked
    BY <1>1, SkippedItem
  <2> HIDE DEF h, cost
  <2> QED
    BY <2>1, <2>2
<1>3. ASSUME NEW id \in r.calls, SlotFails(n, id)
      PROVE  \E h, cost :
                /\ Become(n, h) /\ Fault("item", cost)
                /\ RunInv(n, h, news, faults.count)
                /\ h.source = r.source /\ h.drafts = r.drafts /\ h.locked = r.locked
                /\ r.pc = "working"
                /\ UNCHANGED <<now, born, activeCities, source, asked, sent, pushed, news>>
  <2> DEFINE K == r.cards \ {id}
             L == r.calls \ {id}
             h == Listed(r, K, L)
             cost == {id}
  <2>1. /\ Become(n, h) /\ Fault("item", cost) /\ r.pc = "working"
        /\ UNCHANGED <<now, born, activeCities, source, asked, sent, pushed, news>>
    BY <1>3 DEF SlotFails, Listed
  <2>2. K \cup L \subseteq DOMAIN r.drafts
    BY <1>1 DEF DraftsFit
  <2> HIDE DEF K, L
  <2>3. /\ RunInv(n, h, news, faults.count)
        /\ h.source = r.source /\ h.drafts = r.drafts /\ h.locked = r.locked
    BY <1>1, <2>2, ListedRun
  <2> HIDE DEF h, cost
  <2> QED
    BY <2>1, <2>3
<1> QED
  BY <1>2, <1>3

LEMMA IngestFails ==
  ASSUME IngestInv, NEW n \in Runs,
         (\E i \in Items : ItemFails(n, i)) \/ (\E id \in run[n].calls : SlotFails(n, id))
  PROVE  IngestInv'
<1>1. PICK h, cost :
         /\ Become(n, h) /\ Fault("item", cost)
         /\ RunInv(n, h, news, faults.count) /\ run[n].pc = "working"
         /\ UNCHANGED <<now, born, activeCities, source, asked, sent, pushed, news>>
  BY FailedItem
<1>2. RunInv(n, h, news, faults.count + 1)
  <2>1. Extends(news, news) /\ NoneOf(n, news, news) /\ faults.count \in Nat
    BY ItselfExtends, RunFacts
  <2>2. faults.count + 1 \in Nat /\ faults.count + 1 >= faults.count
    BY <2>1
  <2> QED
    BY <1>1, <2>1, <2>2, RunKept
<1> QED
  BY <1>1, <1>2, FaultyRun

LEMMA IngestStep ==
  ASSUME IngestInv, IngestNext
  PROVE  IngestInv'
<1>1. ASSUME NEW n \in Runs, RunStep(n) \/ FetchFails(n) \/ TaskFails(n) \/ WorkerDies(n)
      PROVE  IngestInv'
  BY <1>1, IngestBegins, IngestTakes, IngestInserts, IngestEnds, IngestCommits, IngestHands
  DEF RunStep
<1>2. ASSUME NEW s \in Sources,
             \/ DispatchDueSources(s) \/ SwitchSource(s)
             \/ CheckSourceNow(s) \/ DeleteSource(s)
      PROVE  IngestInv'
  BY <1>2, IngestEnqueues, IngestAround
<1>3. CASE (\E c \in Cities : SwitchCity(c)) \/ (\E i \in Items : Appear(i)) \/ Tick
  BY <1>3, IngestAround
<1>4. ASSUME NEW n \in Runs,
             (\E i \in Items : ItemFails(n, i)) \/ (\E id \in run[n].calls : SlotFails(n, id))
      PROVE  IngestInv'
  BY <1>4, IngestFails
<1> QED
  BY <1>1, <1>2, <1>3, <1>4 DEF IngestNext

LEMMA IngestStarts ==
  ASSUME Init
  PROVE  IngestInv
<1> PICK q \in Settings : IngestInit(q) /\ news = NoRows
  BY DEF Init
<1>1. q.now \in 0..MaxNow /\ q.messages \in 0..MaxRuns /\ q.faults \in Nat
  BY IntakeAssumption
<1>2. Surroundings
  BY <1>1 DEF IngestInit, Surroundings, SourceRecord
<1>3. RunsInv
  <2>1. run = [n \in Runs |-> Idle] /\ pushed = {} /\ faults.count = q.faults
    BY DEF IngestInit
  <2>2. ASSUME NEW n \in Runs PROVE RunInv(n, run[n], news, faults.count)
    <3>1. PICK s \in Sources : TRUE
      BY IngestionAssumption
    <3>2. \A id \in DOMAIN news : id[1] # n
      BY EmptyTable
    <3>3. RunInv(n, Idle, news, faults.count)
      BY <1>1, <2>1, <3>2, FirstMessage
    <3> QED
      BY <2>1, <3>3
  <2> QED
    BY <2>1, <2>2, EmptyTable, IdleIsRun DEF RunsInv
<1> QED
  BY <1>2, <1>3 DEF IngestInv

-----------------------------------------------------------------------------
(* The dialogues and the letters. *)

DialogueStates ==
  {"none", "choosing_city", "entering_text", "attaching_media", "attaching_location",
   "choosing_anonymity", "entering_author"}

StepNames ==
  {"choosing_city", "entering_text", "attaching_media", "attaching_location",
   "choosing_anonymity", "entering_author", "clearState", "clearData", "get", "read",
   "write", "append", "create", "enqueue"}
FieldNames == {"city", "cityTurn", "story", "textTurn", "media", "geo", "anonymous"}

HandlerRecord ==
  [reader : Readers \cup {CHOOSE u \in Readers : TRUE}, steps : Seq(StepNames),
   patch : LetterData, seen : LetterData, fields : SUBSET FieldNames]
SaidRecord == [turn : Nat, media : Nat, lost : BOOLEAN]
LetterRecord == [form : LetterData, said : Nat, whole : BOOLEAN]
WorkRecord ==
  [pc : {"none", "stored", "queued", "rewriting", "notifying", "pushing", "done"},
   attempt : Nat]

\* Every letter in the table was stored by the dialogue.
LettersInv ==
    /\ state \in [Readers -> DialogueStates]
    /\ data \in [Readers -> LetterData]
    /\ handler \in [Handlers -> HandlerRecord]
    /\ \A h \in Handlers : handler[h].steps # <<>> => handler[h].reader \in Readers
    /\ said \in [Readers -> SaidRecord]
    /\ letters \in [Letters -> LetterRecord]
    /\ work \in [Letters -> WorkRecord]
    /\ \A id \in DOMAIN news : id[1] = 0 => id[2] \in Letters /\ work[id[2]].pc # "none"

LEMMA DataFields ==
  DOMAIN NoData = FieldNames
  BY DEF NoData, FieldNames

LEMMA NoDataType == NoData \in LetterData
<1>1. <<>> \in Seq(Nat)
  OBVIOUS
<1> QED
  BY <1>1 DEF NoData, LetterData

LEMMA FreeHandler == Free \in HandlerRecord /\ Free.steps = <<>>
<1>1. <<>> \in Seq(StepNames)
  OBVIOUS
<1> QED
  BY <1>1, NoDataType DEF Free, HandlerRecord

LEMMA LettersStart ==
  ASSUME Init
  PROVE  LettersInv
<1> PICK q \in Settings : SubmissionsInit(q) /\ news = NoRows
  BY DEF Init
<1> USE DEF SubmissionsInit
<1>1. state \in [Readers -> DialogueStates] /\ data \in [Readers -> LetterData]
  BY NoDataType DEF DialogueStates
<1>2. /\ handler \in [Handlers -> HandlerRecord]
      /\ \A h \in Handlers : handler[h].steps # <<>> => handler[h].reader \in Readers
  BY FreeHandler
<1>3. said \in [Readers -> SaidRecord]
  BY DEF SaidRecord
<1>4. letters \in [Letters -> LetterRecord]
  BY NoDataType DEF LetterRecord
<1>5. work \in [Letters -> WorkRecord]
  BY DEF WorkRecord, NoWork
<1>6. DOMAIN news = {}
  BY EmptyTable
<1> QED
  BY <1>1, <1>2, <1>3, <1>4, <1>5, <1>6 DEF LettersInv

LEMMA Joined ==
  ASSUME NEW S, NEW s \in Seq(S), NEW t \in Seq(S), NEW w \in Seq(S),
         Len(w) = Len(s) + Len(t), \A i \in 1..Len(s) : w[i] = s[i],
         \A i \in 1..Len(t) : w[Len(s) + i] = t[i]
  PROVE  s \o t = w
<1>1. s \o t \in Seq(S) /\ Len(s \o t) = Len(w)
  OBVIOUS
<1>2. ASSUME NEW i \in 1..Len(w) PROVE (s \o t)[i] = w[i]
  <2>1. CASE i \in 1..Len(s)
    BY <2>1
  <2>2. CASE i \notin 1..Len(s)
    <3>1. i - Len(s) \in 1..Len(t) /\ i = Len(s) + (i - Len(s))
      BY <2>2
    <3>2. (s \o t)[i] = t[i - Len(s)]
      BY <2>2
    <3>3. w[i] = t[i - Len(s)]
      BY <3>1
    <3> QED
      BY <3>2, <3>3
  <2> QED
    BY <2>1, <2>2
<1> QED
  BY <1>1, <1>2, SeqEqual

\* The scripts of the updates, written out.
LEMMA Scripts ==
  /\ \A x \in StepNames : Update \o <<x>> = <<"read", "write", x>>
  /\ Update \o Create
        = <<"read", "write", "get", "clearState", "clearData", "create", "enqueue">>
  /\ <<"get", "append">> \o Update = <<"get", "append", "read", "write">>
  /\ <<"clearState", "clearData">> \o Update \o <<"entering_text">>
        = <<"clearState", "clearData", "read", "write", "entering_text">>
<1> USE DEF StepNames
<1>1. ASSUME NEW x \in StepNames PROVE Update \o <<x>> = <<"read", "write", x>>
  <2> DEFINE s == Update
             t == <<x>>
             w == <<"read", "write", x>>
  <2>1. /\ s \in Seq(StepNames) /\ t \in Seq(StepNames) /\ w \in Seq(StepNames)
        /\ Len(s) = 2 /\ Len(t) = 1 /\ Len(w) = 3
    BY DEF Update
  <2>2. /\ \A i \in 1..2 : w[i] = s[i]
        /\ \A i \in 1..1 : w[2 + i] = t[i]
    BY DEF Update
  <2> HIDE DEF s, t, w
  <2>3. /\ Len(w) = Len(s) + Len(t) /\ \A i \in 1..Len(s) : w[i] = s[i]
        /\ \A i \in 1..Len(t) : w[Len(s) + i] = t[i]
    BY <2>1, <2>2
  <2>4. s \o t = w
    BY ONLY <2>1, <2>3, Joined
  <2> QED
    BY <2>4 DEF s, t, w
<1>2. Update \o Create
        = <<"read", "write", "get", "clearState", "clearData", "create", "enqueue">>
  <2> DEFINE s == Update
             t == Create
             w == <<"read", "write", "get", "clearState", "clearData", "create", "enqueue">>
  <2>1. /\ s \in Seq(StepNames) /\ t \in Seq(StepNames) /\ w \in Seq(StepNames)
        /\ Len(s) = 2 /\ Len(t) = 5 /\ Len(w) = 7
    BY DEF Update, Create
  <2>2. /\ \A i \in 1..2 : w[i] = s[i]
        /\ \A i \in 1..5 : w[2 + i] = t[i]
    BY DEF Update, Create
  <2> HIDE DEF s, t, w
  <2>3. /\ Len(w) = Len(s) + Len(t) /\ \A i \in 1..Len(s) : w[i] = s[i]
        /\ \A i \in 1..Len(t) : w[Len(s) + i] = t[i]
    BY <2>1, <2>2
  <2>4. s \o t = w
    BY ONLY <2>1, <2>3, Joined
  <2> QED
    BY <2>4 DEF s, t, w
<1>3. <<"get", "append">> \o Update
        = <<"get", "append", "read", "write">>
  <2> DEFINE s == <<"get", "append">>
             t == Update
             w == <<"get", "append", "read", "write">>
  <2>1. /\ s \in Seq(StepNames) /\ t \in Seq(StepNames) /\ w \in Seq(StepNames)
        /\ Len(s) = 2 /\ Len(t) = 2 /\ Len(w) = 4
    BY DEF Update
  <2>2. /\ \A i \in 1..2 : w[i] = s[i]
        /\ \A i \in 1..2 : w[2 + i] = t[i]
    BY DEF Update
  <2> HIDE DEF s, t, w
  <2>3. /\ Len(w) = Len(s) + Len(t) /\ \A i \in 1..Len(s) : w[i] = s[i]
        /\ \A i \in 1..Len(t) : w[Len(s) + i] = t[i]
    BY <2>1, <2>2
  <2>4. s \o t = w
    BY ONLY <2>1, <2>3, Joined
  <2> QED
    BY <2>4 DEF s, t, w
<1>4. <<"clearState", "clearData">> \o Update
        = <<"clearState", "clearData", "read", "write">>
  <2> DEFINE s == <<"clearState", "clearData">>
             t == Update
             w == <<"clearState", "clearData", "read", "write">>
  <2>1. /\ s \in Seq(StepNames) /\ t \in Seq(StepNames) /\ w \in Seq(StepNames)
        /\ Len(s) = 2 /\ Len(t) = 2 /\ Len(w) = 4
    BY DEF Update
  <2>2. /\ \A i \in 1..2 : w[i] = s[i]
        /\ \A i \in 1..2 : w[2 + i] = t[i]
    BY DEF Update
  <2> HIDE DEF s, t, w
  <2>3. /\ Len(w) = Len(s) + Len(t) /\ \A i \in 1..Len(s) : w[i] = s[i]
        /\ \A i \in 1..Len(t) : w[Len(s) + i] = t[i]
    BY <2>1, <2>2
  <2>4. s \o t = w
    BY ONLY <2>1, <2>3, Joined
  <2> QED
    BY <2>4 DEF s, t, w
<1>5. <<"clearState", "clearData", "read", "write">> \o <<"entering_text">>
        = <<"clearState", "clearData", "read", "write", "entering_text">>
  <2> DEFINE s == <<"clearState", "clearData", "read", "write">>
             t == <<"entering_text">>
             w == <<"clearState", "clearData", "read", "write", "entering_text">>
  <2>1. /\ s \in Seq(StepNames) /\ t \in Seq(StepNames) /\ w \in Seq(StepNames)
        /\ Len(s) = 4 /\ Len(t) = 1 /\ Len(w) = 5
    OBVIOUS
  <2>2. /\ \A i \in 1..4 : w[i] = s[i]
        /\ \A i \in 1..1 : w[4 + i] = t[i]
    OBVIOUS
  <2> HIDE DEF s, t, w
  <2>3. /\ Len(w) = Len(s) + Len(t) /\ \A i \in 1..Len(s) : w[i] = s[i]
        /\ \A i \in 1..Len(t) : w[Len(s) + i] = t[i]
    BY <2>1, <2>2
  <2>4. s \o t = w
    BY ONLY <2>1, <2>3, Joined
  <2> QED
    BY <2>4 DEF s, t, w
<1> QED
  BY <1>1, <1>2, <1>3, <1>4, <1>5

\* An update begins.
LEMMA BeginsFits ==
  ASSUME LettersInv, NEW u \in Readers, NEW h \in Handlers, NEW event, NEW needed,
         NEW steps \in Seq(StepNames), NEW fields \in SUBSET FieldNames,
         NEW patch \in LetterData, Begins(u, h, event, needed, steps, fields, patch),
         said' \in [Readers -> SaidRecord]
  PROVE  LettersInv'
<1> DEFINE r == [reader |-> u, steps |-> steps, patch |-> patch, seen |-> NoData,
                 fields |-> fields]
<1>1. /\ handler' = [handler EXCEPT ![h] = r]
      /\ UNCHANGED <<state, data, letters, work, news>>
  BY DEF Begins
<1>2. r \in HandlerRecord /\ r.reader = u
  BY NoDataType DEF HandlerRecord
<1> HIDE DEF r
<1>3. handler \in [Handlers -> HandlerRecord]
  BY DEF LettersInv
<1>4. handler' \in [Handlers -> HandlerRecord]
  BY <1>1, <1>2, <1>3
<1>5. \A g \in Handlers : handler'[g].steps # <<>> => handler'[g].reader \in Readers
  BY <1>1, <1>2, <1>3 DEF LettersInv
<1> QED
  BY <1>1, <1>4, <1>5 DEF LettersInv

LEMMA PatchTypes ==
  ASSUME NEW n \in Nat
  PROVE  /\ \A c \in Cities : [NoData EXCEPT !.city = c, !.cityTurn = n] \in LetterData
         /\ \A s \in Stories : [NoData EXCEPT !.story = s, !.textTurn = n] \in LetterData
         /\ [NoData EXCEPT !.media = <<n>>] \in LetterData
         /\ [NoData EXCEPT !.geo = n] \in LetterData
         /\ \A yes \in BOOLEAN : [NoData EXCEPT !.anonymous = yes] \in LetterData
<1>1. <<n>> \in Seq(Nat)
  OBVIOUS
<1> QED
  BY <1>1, NoDataType DEF LetterData

LEMMA LettersSpeak ==
  ASSUME LettersInv, NEW u \in Readers, NEW h \in Handlers, Speaks(u, h)
  PROVE  LettersInv'
<1> USE DEF StepNames, FieldNames
<1>1. /\ said[u].turn \in Nat /\ said[u].turn + 1 \in Nat /\ said[u].media + 1 \in Nat
      /\ said \in [Readers -> SaidRecord]
      /\ Offered \subseteq Cities /\ Topics \subseteq Stories
  BY SubmissionsAssumption DEF LettersInv, SaidRecord
<1>2. ASSUME Suggest(u, h) PROVE LettersInv'
  <2> DEFINE steps == <<"choosing_city">>
             fields == {}
             patch == NoData
  <2>1. steps \in Seq(StepNames) /\ fields \in SUBSET FieldNames
    BY Scripts DEF Update, Create
  <2>2. patch \in LetterData
    BY <1>1, NoDataType
  <2>3. Begins(u, h, "suggest", "any", steps, fields, patch)
    BY <1>2 DEF Suggest
  <2>4. said' \in [Readers -> SaidRecord]
    BY <1>1, <1>2 DEF Suggest
  <2> HIDE DEF steps, fields, patch
  <2> QED
    BY <2>1, <2>2, <2>3, <2>4, BeginsFits
<1>3. ASSUME Cancel(u, h) PROVE LettersInv'
  <2> DEFINE steps == <<"clearState", "clearData">>
             fields == {}
             patch == NoData
  <2>1. steps \in Seq(StepNames) /\ fields \in SUBSET FieldNames
    BY Scripts DEF Update, Create
  <2>2. patch \in LetterData
    BY <1>1, NoDataType
  <2>3. Begins(u, h, "cancel", "any", steps, fields, patch)
    BY <1>3 DEF Cancel
  <2>4. said' \in [Readers -> SaidRecord]
    BY <1>1, <1>3 DEF Cancel
  <2> HIDE DEF steps, fields, patch
  <2> QED
    BY <2>1, <2>2, <2>3, <2>4, BeginsFits
<1>4. ASSUME AttachMedia(u, h) PROVE LettersInv'
  <2> DEFINE steps == <<"get", "append">> \o Update
             fields == {"media"}
             patch == [NoData EXCEPT !.media = <<said[u].turn>>]
  <2>1. steps \in Seq(StepNames) /\ fields \in SUBSET FieldNames
    BY Scripts DEF Update, Create
  <2>2. patch \in LetterData
    BY <1>1, PatchTypes
  <2>3. Begins(u, h, "media", "attaching_media", steps, fields, patch)
    BY <1>4 DEF AttachMedia
  <2>4. said' \in [Readers -> SaidRecord]
    BY <1>1, <1>4 DEF AttachMedia, SaidRecord
  <2> HIDE DEF steps, fields, patch
  <2> QED
    BY <2>1, <2>2, <2>3, <2>4, BeginsFits
<1>5. ASSUME MediaDone(u, h) PROVE LettersInv'
  <2> DEFINE steps == <<"attaching_location">>
             fields == {}
             patch == NoData
  <2>1. steps \in Seq(StepNames) /\ fields \in SUBSET FieldNames
    BY Scripts DEF Update, Create
  <2>2. patch \in LetterData
    BY <1>1, NoDataType
  <2>3. Begins(u, h, "done", "attaching_media", steps, fields, patch)
    BY <1>5 DEF MediaDone
  <2>4. said' \in [Readers -> SaidRecord]
    BY <1>1, <1>5 DEF MediaDone
  <2> HIDE DEF steps, fields, patch
  <2> QED
    BY <2>1, <2>2, <2>3, <2>4, BeginsFits
<1>6. ASSUME GotLocation(u, h) PROVE LettersInv'
  <2> DEFINE steps == Update \o <<"choosing_anonymity">>
             fields == {"geo"}
             patch == [NoData EXCEPT !.geo = said[u].turn]
  <2>1. steps \in Seq(StepNames) /\ fields \in SUBSET FieldNames
    BY Scripts DEF Update, Create
  <2>2. patch \in LetterData
    BY <1>1, PatchTypes
  <2>3. Begins(u, h, "location", "attaching_location", steps, fields, patch)
    BY <1>6 DEF GotLocation
  <2>4. said' \in [Readers -> SaidRecord]
    BY <1>1, <1>6 DEF GotLocation
  <2> HIDE DEF steps, fields, patch
  <2> QED
    BY <2>1, <2>2, <2>3, <2>4, BeginsFits
<1>7. ASSUME SkipLocation(u, h) PROVE LettersInv'
  <2> DEFINE steps == <<"choosing_anonymity">>
             fields == {}
             patch == NoData
  <2>1. steps \in Seq(StepNames) /\ fields \in SUBSET FieldNames
    BY Scripts DEF Update, Create
  <2>2. patch \in LetterData
    BY <1>1, NoDataType
  <2>3. Begins(u, h, "skip", "attaching_location", steps, fields, patch)
    BY <1>7 DEF SkipLocation
  <2>4. said' \in [Readers -> SaidRecord]
    BY <1>1, <1>7 DEF SkipLocation
  <2> HIDE DEF steps, fields, patch
  <2> QED
    BY <2>1, <2>2, <2>3, <2>4, BeginsFits
<1>8. ASSUME EnterAuthor(u, h) PROVE LettersInv'
  <2> DEFINE steps == Create
             fields == {}
             patch == NoData
  <2>1. steps \in Seq(StepNames) /\ fields \in SUBSET FieldNames
    BY Scripts DEF Update, Create
  <2>2. patch \in LetterData
    BY <1>1, NoDataType
  <2>3. Begins(u, h, "author", "entering_author", steps, fields, patch)
    BY <1>8 DEF EnterAuthor
  <2>4. said' \in [Readers -> SaidRecord]
    BY <1>1, <1>8 DEF EnterAuthor
  <2> HIDE DEF steps, fields, patch
  <2> QED
    BY <2>1, <2>2, <2>3, <2>4, BeginsFits
<1>9. ASSUME NEW c \in Offered, ChooseCity(u, h, c) PROVE LettersInv'
  <2> DEFINE steps == Update \o <<"entering_text">>
             fields == {"city", "cityTurn", "media"}
             patch == [NoData EXCEPT !.city = c, !.cityTurn = said[u].turn + 1]
  <2>1. steps \in Seq(StepNames) /\ fields \in SUBSET FieldNames
    BY Scripts DEF Update, Create
  <2>2. patch \in LetterData
    BY <1>1, PatchTypes
  <2>3. Begins(u, h, "city", "choosing_city", steps, fields, patch)
    BY <1>9 DEF ChooseCity
  <2>4. said' \in [Readers -> SaidRecord]
    BY <1>1, <1>9 DEF ChooseCity, NewTurn, SaidRecord
  <2> HIDE DEF steps, fields, patch
  <2> QED
    BY <2>1, <2>2, <2>3, <2>4, BeginsFits
<1>10. ASSUME NEW c \in Offered, DeepLink(u, h, c) PROVE LettersInv'
  <2> DEFINE steps == <<"clearState", "clearData">> \o Update \o <<"entering_text">>
             fields == {"city", "cityTurn", "media"}
             patch == [NoData EXCEPT !.city = c, !.cityTurn = said[u].turn + 1]
  <2>1. steps \in Seq(StepNames) /\ fields \in SUBSET FieldNames
    BY Scripts DEF Update, Create
  <2>2. patch \in LetterData
    BY <1>1, PatchTypes
  <2>3. Begins(u, h, "link", "any", steps, fields, patch)
    BY <1>10 DEF DeepLink
  <2>4. said' \in [Readers -> SaidRecord]
    BY <1>1, <1>10 DEF DeepLink, NewTurn, SaidRecord
  <2> HIDE DEF steps, fields, patch
  <2> QED
    BY <2>1, <2>2, <2>3, <2>4, BeginsFits
<1>11. ASSUME NEW s \in Topics, EnterText(u, h, s) PROVE LettersInv'
  <2> DEFINE steps == Update \o <<"attaching_media">>
             fields == {"story", "textTurn"}
             patch == [NoData EXCEPT !.story = s, !.textTurn = said[u].turn]
  <2>1. steps \in Seq(StepNames) /\ fields \in SUBSET FieldNames
    BY Scripts DEF Update, Create
  <2>2. patch \in LetterData
    BY <1>1, PatchTypes
  <2>3. Begins(u, h, "text", "entering_text", steps, fields, patch)
    BY <1>11 DEF EnterText
  <2>4. said' \in [Readers -> SaidRecord]
    BY <1>1, <1>11 DEF EnterText
  <2> HIDE DEF steps, fields, patch
  <2> QED
    BY <2>1, <2>2, <2>3, <2>4, BeginsFits
<1>12. ASSUME NEW yes \in BOOLEAN, ChooseAnonymity(u, h, yes) PROVE LettersInv'
  <2> DEFINE steps == Update \o (IF yes THEN Create ELSE <<"entering_author">>)
             fields == {"anonymous"}
             patch == [NoData EXCEPT !.anonymous = yes]
  <2>1. steps \in Seq(StepNames) /\ fields \in SUBSET FieldNames
    <3>1. Update \in Seq(StepNames) /\ Create \in Seq(StepNames)
      BY DEF Update, Create
    <3>2. <<"entering_author">> \in Seq(StepNames) /\ fields \in SUBSET FieldNames
      OBVIOUS
    <3> DEFINE a == Update
               b == <<"entering_author">>
               c == Create
               d == IF yes THEN c ELSE b
    <3> HIDE DEF a, b, c, StepNames
    <3>3. d \in Seq(StepNames)
      BY <3>1, <3>2 DEF b, c
    <3> HIDE DEF d
    <3>4. a \o d \in Seq(StepNames)
      BY <3>1, <3>3, ConcatProperties DEF a
    <3> QED
      BY <3>2, <3>4 DEF a, b, c, d
  <2>2. patch \in LetterData
    BY <1>1, PatchTypes
  <2>3. Begins(u, h, "anonymity", "choosing_anonymity", steps, fields, patch)
    BY <1>12 DEF ChooseAnonymity
  <2>4. said' \in [Readers -> SaidRecord]
    BY <1>1, <1>12 DEF ChooseAnonymity
  <2> HIDE DEF steps, fields, patch
  <2> QED
    BY <2>1, <2>2, <2>3, <2>4, BeginsFits
<1> QED
  BY <1>2, <1>3, <1>4, <1>5, <1>6, <1>7, <1>8, <1>9, <1>10, <1>11, <1>12 DEF Speaks

\* A handler takes a step: what is left of its record.
LEMMA RestOf ==
  ASSUME NEW r \in HandlerRecord, r.steps # <<>>, NEW d \in LetterData
  PROVE  /\ [r EXCEPT !.steps = Tail(@)] \in HandlerRecord
         /\ [r EXCEPT !.steps = Tail(@)].reader = r.reader
         /\ [[r EXCEPT !.steps = Tail(@)] EXCEPT !.seen = d] \in HandlerRecord
         /\ [[r EXCEPT !.steps = Tail(@)] EXCEPT !.seen = d].reader = r.reader
<1>1. Tail(r.steps) \in Seq(StepNames)
  BY DEF HandlerRecord
<1> QED
  BY <1>1 DEF HandlerRecord

LEMMA AppendedMedia ==
  ASSUME NEW r \in HandlerRecord, r.steps # <<>>
  PROVE  LET m == [[r EXCEPT !.steps = Tail(@)] EXCEPT !.patch.media = r.seen.media \o @]
         IN  m \in HandlerRecord /\ m.reader = r.reader
<1> DEFINE t == Tail(r.steps)
           l == r.seen.media \o r.patch.media
           p == [r.patch EXCEPT !.media = l]
           m == [r EXCEPT !.steps = t, !.patch = p]
<1>1. t \in Seq(StepNames)
  BY DEF HandlerRecord
<1>2. r.seen.media \in Seq(Nat) /\ r.patch.media \in Seq(Nat)
  BY DEF HandlerRecord, LetterData
<1>3. l \in Seq(Nat)
  BY <1>2, ConcatProperties
<1> HIDE DEF l
<1>4. p \in LetterData
  BY <1>3 DEF HandlerRecord, LetterData
<1> HIDE DEF p, t
<1>5. m \in HandlerRecord /\ m.reader = r.reader
  BY <1>1, <1>4 DEF HandlerRecord
<1>6. [[r EXCEPT !.steps = Tail(@)] EXCEPT !.patch.media = r.seen.media \o @] = m
  BY DEF HandlerRecord, p, l, t
<1> QED
  BY <1>5, <1>6

\* The record of one handler changes; letters stay and keep being worked on.
LEMMA HandlerMoved ==
  ASSUME LettersInv, NEW h \in Handlers, handler[h].steps # <<>>, NEW r \in HandlerRecord,
         r.reader = handler[h].reader, Moves(h, r),
         state' \in [Readers -> DialogueStates], data' \in [Readers -> LetterData],
         said' = said, letters' \in [Letters -> LetterRecord],
         work' \in [Letters -> WorkRecord],
         \A k \in Letters : work[k].pc # "none" => work'[k].pc # "none",
         \A id \in DOMAIN news' \ DOMAIN news :
            id[1] = 0 => id[2] \in Letters /\ work'[id[2]].pc # "none"
  PROVE  LettersInv'
<1>1. handler' = [handler EXCEPT ![h] = r]
  BY DEF Moves
<1>2. handler \in [Handlers -> HandlerRecord]
  BY DEF LettersInv
<1>3. handler' \in [Handlers -> HandlerRecord]
  BY <1>1, <1>2
<1>4. \A g \in Handlers : handler'[g].steps # <<>> => handler'[g].reader \in Readers
  BY <1>1, <1>2 DEF LettersInv
<1>5. \A id \in DOMAIN news' : id[1] = 0 => id[2] \in Letters /\ work'[id[2]].pc # "none"
  BY DEF LettersInv
<1> QED
  BY <1>3, <1>4, <1>5 DEF LettersInv

LEMMA LettersDialogue ==
  ASSUME LettersInv, NEW h \in Handlers,
         SetState(h) \/ GetData(h) \/ AppendMedia(h) \/ SetData(h)
  PROVE  LettersInv' /\ news' = news
<1> DEFINE r == handler[h]
<1>1. /\ r \in HandlerRecord /\ data \in [Readers -> LetterData]
      /\ state \in [Readers -> DialogueStates]
      /\ letters \in [Letters -> LetterRecord] /\ work \in [Letters -> WorkRecord]
  BY DEF LettersInv
<1>2. /\ r.steps # <<>> /\ r.reader \in Readers /\ UNCHANGED <<said, letters, work, news>>
  BY DEF SetState, GetData, AppendMedia, SetData, Takes, LettersInv
<1>3. Rest(h) \in HandlerRecord /\ Rest(h).reader = r.reader
  BY <1>1, <1>2, NoDataType, RestOf DEF Rest
<1>4. CASE SetState(h)
  <2>1. state' \in [Readers -> DialogueStates]
    BY <1>1, <1>4 DEF SetState, DialogueStates
  <2>2. data' = data /\ Moves(h, Rest(h))
    BY <1>4 DEF SetState
  <2> QED
    BY <1>1, <1>2, <1>3, <2>1, <2>2, HandlerMoved
<1>5. CASE GetData(h)
  <2> DEFINE g == [Rest(h) EXCEPT !.seen = data[r.reader]]
  <2>1. g \in HandlerRecord /\ g.reader = r.reader
    BY <1>1, <1>2, RestOf DEF Rest
  <2>2. data' = data /\ state' = state /\ Moves(h, g)
    BY <1>5 DEF GetData
  <2> HIDE DEF g
  <2> QED
    BY <1>1, <1>2, <2>1, <2>2, HandlerMoved
<1>6. CASE AppendMedia(h)
  <2> DEFINE g == [Rest(h) EXCEPT !.patch.media = r.seen.media \o @]
  <2>1. g \in HandlerRecord /\ g.reader = r.reader
    BY <1>1, <1>2, AppendedMedia DEF Rest
  <2>2. data' = data /\ state' = state /\ Moves(h, g)
    BY <1>6 DEF AppendMedia
  <2> HIDE DEF g
  <2> QED
    BY <1>1, <1>2, <2>1, <2>2, HandlerMoved
<1>7. CASE SetData(h)
  <2> DEFINE merged == [f \in DOMAIN NoData |->
                          IF f \in r.fields THEN r.patch[f] ELSE r.seen[f]]
  <2>1. merged \in LetterData
    <3>1. r.patch \in LetterData /\ r.seen \in LetterData
      BY <1>1 DEF HandlerRecord
    <3> QED
      BY <3>1, DataFields DEF LetterData, FieldNames
  <2>2. /\ \/ data' = [data EXCEPT ![r.reader] = merged]
           \/ data' = [data EXCEPT ![r.reader] = NoData]
        /\ state' = state /\ Moves(h, Rest(h))
    BY <1>7 DEF SetData
  <2> HIDE DEF merged
  <2>3. data' \in [Readers -> LetterData]
    BY <1>1, <2>1, <2>2, NoDataType
  <2> QED
    BY <1>1, <1>2, <1>3, <2>2, <2>3, HandlerMoved
<1> QED
  BY <1>2, <1>4, <1>5, <1>6, <1>7

\* What the letters do to the table: rows of letters come, and stories stay.
LettersGrow ==
    /\ news' \in Tables /\ Extends(news, news')
    /\ \A id \in DOMAIN news' \ DOMAIN news : id[1] = 0

LEMMA LettersCreated ==
  ASSUME news \in Tables, LettersInv, NEW h \in Handlers, CreateSubmission(h)
  PROVE  LettersInv' /\ LettersGrow
<1> DEFINE r == handler[h]
           x == r.seen
<1>1. /\ r \in HandlerRecord /\ x \in LetterData /\ r.steps # <<>> /\ r.reader \in Readers
      /\ said[r.reader] \in SaidRecord
  BY DEF LettersInv, CreateSubmission, Takes, HandlerRecord
<1>2. /\ letters \in [Letters -> LetterRecord] /\ work \in [Letters -> WorkRecord]
      /\ \A id \in DOMAIN news : id[1] = 0 => id[2] \in Letters /\ work[id[2]].pc # "none"
  BY DEF LettersInv
<1> PICK k \in Letters :
      /\ work[k].pc = "none"
      /\ letters' = [letters EXCEPT ![k] = [form |-> x, said |-> said[r.reader].media,
                                            whole |-> ~said[r.reader].lost]]
      /\ work' = [work EXCEPT ![k].pc = "stored"]
      /\ news' = With(news, [id \in {<<0, k, x.story>>} |->
                    [story |-> x.story, origin |-> "user", status |-> "processing",
                     cities |-> {x.city} \ {NoCity}, card |-> FALSE]])
  BY DEF CreateSubmission
<1> DEFINE id == <<0, k, x.story>>
           row == [story |-> x.story, origin |-> "user", status |-> "processing",
                   cities |-> {x.city} \ {NoCity}, card |-> FALSE]
           one == [d \in {id} |-> row]
<1>3. x.story \in Stories \cup {NoStory} /\ {x.city} \ {NoCity} \subseteq Cities
  BY <1>1 DEF LetterData
<1>4. row \in Row
  BY <1>3 DEF Row
<1>5. id \in RowIds /\ id[1] = 0 /\ id[2] = k
  BY <1>3, IngestionAssumption, SubmissionsAssumption DEF RowIds, Letters
<1>6. id \notin DOMAIN news
  BY <1>2, <1>5
<1> HIDE DEF id, row
<1>7. one \in Tables /\ DOMAIN one = {id}
  BY <1>4, <1>5, RowOf
<1>8. news' = With(news, one)
  BY DEF id, row
<1> HIDE DEF one
<1>9. news' \in Tables /\ DOMAIN news' = DOMAIN news \cup {id} /\ Extends(news, news')
  <2>1. With(news, one) \in Tables /\ DOMAIN With(news, one) = DOMAIN news \cup {id}
    BY <1>7, Inserted
  <2>2. Extends(news, With(news, one))
    BY <1>6, <1>7, StoriesInserted
  <2> QED
    BY <1>8, <2>1, <2>2
<1>10. LettersGrow
  BY <1>5, <1>9 DEF LettersGrow
<1>11. letters' \in [Letters -> LetterRecord]
  <2>1. [form |-> x, said |-> said[r.reader].media, whole |-> ~said[r.reader].lost]
           \in LetterRecord
    BY <1>1 DEF LetterRecord, SaidRecord
  <2> QED
    BY <1>2, <2>1
<1>12. work' \in [Letters -> WorkRecord] /\ work'[k].pc = "stored"
  BY <1>2 DEF WorkRecord
<1>13. \A j \in Letters : work[j].pc # "none" => work'[j].pc # "none"
  BY <1>2
<1>14. \A d \in DOMAIN news' \ DOMAIN news :
          d[1] = 0 => d[2] \in Letters /\ work'[d[2]].pc # "none"
  BY <1>5, <1>9, <1>12
<1>15. /\ Rest(h) \in HandlerRecord /\ Rest(h).reader = r.reader /\ Moves(h, Rest(h))
       /\ UNCHANGED <<state, data, said>>
  BY <1>1, RestOf DEF Rest, CreateSubmission
<1>16. state' \in [Readers -> DialogueStates] /\ data' \in [Readers -> LetterData]
  BY <1>15 DEF LettersInv
<1> QED
  BY <1>1, <1>10, <1>11, <1>12, <1>13, <1>14, <1>15, <1>16, HandlerMoved

LEMMA LettersEnqueued ==
  ASSUME news \in Tables, LettersInv, NEW h \in Handlers, EnqueueSubmission(h)
  PROVE  LettersInv' /\ news' = news
<1> DEFINE r == handler[h]
<1>1. /\ r \in HandlerRecord /\ r.steps # <<>>
      /\ letters \in [Letters -> LetterRecord] /\ work \in [Letters -> WorkRecord]
      /\ state \in [Readers -> DialogueStates] /\ data \in [Readers -> LetterData]
  BY DEF LettersInv, EnqueueSubmission, Takes
<1>2. PICK k \in Letters : \/ work' = [work EXCEPT ![k].pc = "queued"]
                           \/ work' = [work EXCEPT ![k].pc = "done"]
  BY DEF EnqueueSubmission
<1>3. /\ work' \in [Letters -> WorkRecord]
      /\ \A j \in Letters : work[j].pc # "none" => work'[j].pc # "none"
  BY <1>1, <1>2 DEF WorkRecord
<1>4. /\ Rest(h) \in HandlerRecord /\ Rest(h).reader = r.reader
  BY <1>1, NoDataType, RestOf DEF Rest
<1>5. Moves(h, Rest(h)) /\ UNCHANGED <<state, data, said, letters, news>>
  BY DEF EnqueueSubmission
<1> QED
  BY <1>1, <1>3, <1>4, <1>5, HandlerMoved

LEMMA LettersRestart ==
  ASSUME LettersInv, BotRestarts
  PROVE  LettersInv' /\ news' = news
<1>1. /\ handler' = [h \in Handlers |-> Free]
      /\ said' = [u \in Readers |-> [said[u] EXCEPT !.lost = @ \/ \E h \in Handlers :
                                       handler[h].reader = u /\ handler[h].steps # <<>>]]
      /\ UNCHANGED <<state, data, letters, work, news>>
  BY DEF BotRestarts
<1>2. /\ handler' \in [Handlers -> HandlerRecord]
      /\ \A h \in Handlers : handler'[h].steps = <<>>
  BY <1>1, FreeHandler
<1>3. said' \in [Readers -> SaidRecord]
  <2>1. \A u \in Readers : said[u] \in SaidRecord
    BY DEF LettersInv
  <2>2. ASSUME NEW u \in Readers
        PROVE  [said[u] EXCEPT !.lost = @ \/ \E h \in Handlers :
                   handler[h].reader = u /\ handler[h].steps # <<>>] \in SaidRecord
    <3> DEFINE busy == \E h \in Handlers : handler[h].reader = u /\ handler[h].steps # <<>>
               gone == said[u].lost \/ busy
    <3>1. gone \in BOOLEAN
      BY <2>1 DEF SaidRecord
    <3> HIDE DEF busy
    <3>2. [said[u] EXCEPT !.lost = gone] \in SaidRecord
      BY <2>1, <3>1 DEF SaidRecord
    <3> QED
      BY <3>2 DEF busy
  <2> QED
    BY <1>1, <2>2
<1> QED
  BY <1>1, <1>2, <1>3 DEF LettersInv

\* An UPDATE of the row of letter k.
LEMMA LetterRowEdited ==
  ASSUME news \in Tables, NEW id, NEW row,
         id \in DOMAIN news => row \in Row /\ row.story = news[id].story,
         news' = [news EXCEPT ![id] = row]
  PROVE  LettersGrow /\ DOMAIN news' = DOMAIN news
<1> DEFINE new == news'
<1>1. new = [news EXCEPT ![id] = row]
  OBVIOUS
<1> HIDE DEF new
<1>2. /\ new \in Tables /\ DOMAIN new = DOMAIN news
      /\ \A d \in DOMAIN news : new[d].story = news[d].story
  BY <1>1, RowEdited
<1> QED
  BY <1>2 DEF new, LettersGrow, Extends

LEMMA LettersWorked ==
  ASSUME news \in Tables, LettersInv, NEW k \in Letters,
         \/ LetterStep(k) \/ LetterFails(k) \/ LetterWorkerDies(k)
         \/ \E s \in {"approved", "rejected"} : DecideLetter(k, s)
  PROVE  LettersInv' /\ LettersGrow
<1>1. UNCHANGED <<state, data, handler, said, letters>>
  BY DEF LetterStep, Rewrite, StoreRewritten, NotifyLetter, PushLetter, LetterFails,
         LetterWorkerDies, DecideLetter, submissionVars
<1>2. work \in [Letters -> WorkRecord]
  BY DEF LettersInv
<1>3. /\ work' \in [Letters -> WorkRecord]
      /\ \A j \in Letters : work[j].pc # "none" => work'[j].pc # "none"
  <2>1. CASE LetterStep(k) \/ LetterWorkerDies(k)
    <3>1. \E pc \in {"rewriting", "notifying", "pushing", "done", "queued"} : Goes(k, pc)
      BY <2>1 DEF LetterStep, Rewrite, StoreRewritten, NotifyLetter, PushLetter,
                  LetterWorkerDies
    <3> QED
      BY <1>2, <3>1 DEF Goes, WorkRecord
  <2>2. CASE LetterFails(k)
    <3> DEFINE again == [pc |-> "queued", attempt |-> work[k].attempt + 1]
               over == [work[k] EXCEPT !.pc = "done"]
    <3>1. \/ work' = [work EXCEPT ![k] = again]
          \/ work' = [work EXCEPT ![k] = over]
      BY <2>2 DEF LetterFails
    <3>2. again \in WorkRecord /\ again.pc # "none" /\ over \in WorkRecord /\ over.pc # "none"
      BY <1>2 DEF WorkRecord
    <3> HIDE DEF again, over
    <3> QED
      BY <1>2, <3>1, <3>2
  <2>3. CASE \E s \in {"approved", "rejected"} : DecideLetter(k, s)
    BY <1>2, <2>3 DEF DecideLetter, submissionVars
  <2> QED
    BY <2>1, <2>2, <2>3
<1>4. LettersGrow /\ DOMAIN news' = DOMAIN news
  <2>1. CASE news' = news
    BY <2>1 DEF LettersGrow, Extends
  <2>2. ASSUME NEW st \in {"pending", "approved", "rejected"},
               news' = [news EXCEPT ![LetterId(k)].status = st]
        PROVE  LettersGrow /\ DOMAIN news' = DOMAIN news
    <3> DEFINE id == LetterId(k)
               row == [news[id] EXCEPT !.status = st]
    <3>1. news' = [news EXCEPT ![id] = row]
      BY <2>2
    <3>2. id \in DOMAIN news => row \in Row /\ row.story = news[id].story
      BY TableRows DEF Row
    <3> HIDE DEF id, row
    <3> QED
      BY <3>1, <3>2, LetterRowEdited
  <2>3. CASE news' = [news EXCEPT ![LetterId(k)].card = news[LetterId(k)].cities # {}]
    <3> DEFINE id == LetterId(k)
               card == news[id].cities # {}
               row == [news[id] EXCEPT !.card = card]
    <3>1. news' = [news EXCEPT ![id] = row]
      BY <2>3
    <3>3. card \in BOOLEAN
      OBVIOUS
    <3> HIDE DEF card
    <3>2. id \in DOMAIN news => row \in Row /\ row.story = news[id].story
      BY <3>3, TableRows DEF Row
    <3> HIDE DEF id, row
    <3> QED
      BY <3>1, <3>2, LetterRowEdited
  <2> QED
    BY <2>1, <2>2, <2>3
    DEF LetterStep, Rewrite, StoreRewritten, NotifyLetter, PushLetter, LetterFails,
        LetterWorkerDies, DecideLetter
<1>5. \A id \in DOMAIN news' : id[1] = 0 => id[2] \in Letters /\ work'[id[2]].pc # "none"
  BY <1>3, <1>4 DEF LettersInv
<1> QED
  BY <1>1, <1>3, <1>4, <1>5 DEF LettersInv

LEMMA LettersStep ==
  ASSUME news \in Tables, LettersInv, SubmissionsNext
  PROVE  LettersInv' /\ LettersGrow
<1>1. news' = news => LettersGrow
  BY DEF LettersGrow, Extends
<1>2. ASSUME NEW h \in Handlers, HandlerStep(h) PROVE LettersInv' /\ LettersGrow
  BY <1>1, <1>2, LettersDialogue, LettersCreated, LettersEnqueued DEF HandlerStep
<1>3. ASSUME NEW h \in Handlers, NEW u \in Readers, Speaks(u, h)
      PROVE  LettersInv' /\ LettersGrow
  <2>1. news' = news
    BY <1>3 DEF Speaks, Suggest, Cancel, AttachMedia, MediaDone, GotLocation, SkipLocation,
         EnterAuthor, ChooseCity, DeepLink, EnterText, ChooseAnonymity, Begins
  <2> QED
    BY <1>1, <1>3, <2>1, LettersSpeak
<1> QED
  BY <1>1, <1>2, <1>3, LettersWorked, LettersRestart DEF SubmissionsNext

\* The sources add no letters to the table.
LEMMA IngestRows ==
  ASSUME IngestInv, IngestNext
  PROVE  \A id \in DOMAIN news' : id \in DOMAIN news \/ id[1] \in Runs
<1>1. ASSUME NEW n \in Runs, Commit(n)
      PROVE  \A id \in DOMAIN news' : id \in DOMAIN news \/ id[1] \in Runs
  <2>1. news' = With(news, run[n].drafts)
    BY <1>1 DEF Commit
  <2>2. /\ DOMAIN With(news, run[n].drafts) = DOMAIN news \cup DOMAIN run[n].drafts
        /\ \A id \in DOMAIN run[n].drafts : id[1] = n
    <3>1. news \in Tables /\ run[n] \in RunRecord /\ DraftsFit(n, run[n])
      BY RunFacts
    <3>2. run[n].drafts \in Tables
      BY <3>1 DEF RunRecord
    <3> QED
      BY <3>1, <3>2, Inserted DEF DraftsFit
  <2> QED
    BY <2>1, <2>2
<1>2. CASE \A n \in Runs : ~Commit(n)
  <2>1. ASSUME NEW n \in Runs, NEW id, Notify(n, id) PROVE DOMAIN news' = DOMAIN news
    BY <2>1 DEF Notify
  <2>2. ASSUME NEW n \in Runs,
               \/ SkipInactive(n) \/ Fetch(n) \/ InsertFirst(n) \/ SourceVanished(n)
               \/ Finish(n) \/ FetchFails(n) \/ TaskFails(n) \/ WorkerDies(n)
        PROVE  news' = news
    BY <2>2 DEF SkipInactive, Fetch, InsertFirst, SourceVanished, Finish, FetchFails,
                TaskFails, WorkerDies
  <2>3. ASSUME NEW n \in Runs, NEW i,
               \/ SkipItem(n, i) \/ TakeItem(n, i) \/ PushOut(n, i)
               \/ ItemFails(n, i) \/ SlotFails(n, i)
        PROVE  news' = news
    BY <2>3 DEF SkipItem, TakeItem, PushOut, ItemFails, SlotFails
  <2>4. ASSUME \/ \E s \in Sources : \/ DispatchDueSources(s) \/ SwitchSource(s)
                                     \/ CheckSourceNow(s) \/ DeleteSource(s)
               \/ (\E c \in Cities : SwitchCity(c)) \/ (\E i \in Items : Appear(i)) \/ Tick
        PROVE  news' = news
    BY <2>4 DEF DispatchDueSources, SwitchSource, CheckSourceNow, DeleteSource, SwitchCity,
                Appear, Tick
  <2>5. DOMAIN news' = DOMAIN news
    BY <1>2, <2>1, <2>2, <2>3, <2>4 DEF IngestNext, RunStep
  <2> QED
    BY <2>5
<1> QED
  BY <1>1, <1>2

\* What holds of the table, the runs and the letters together.
IntakeInv == IngestInv /\ LettersInv

LEMMA IntakeStarts ==
  ASSUME Init
  PROVE  IntakeInv
  BY IngestStarts, LettersStart DEF IntakeInv

LEMMA IntakeStays ==
  ASSUME IntakeInv, UNCHANGED intakeVars
  PROVE  IntakeInv'
<1> USE DEF intakeVars, ingestVars, submissionVars
<1>1. /\ RunsInv /\ Surroundings' /\ faults.count \in Nat /\ news' \in Tables
      /\ Extends(news, news') /\ \A m \in Runs : NoneOf(m, news, news')
  BY ItselfExtends DEF IntakeInv, IngestInv, Surroundings, RunsInv
<1>2. IngestInv'
  BY <1>1, RunsStay
<1>3. LettersInv'
  BY DEF IntakeInv, LettersInv
<1> QED
  BY <1>2, <1>3 DEF IntakeInv

LEMMA IntakeKept ==
  ASSUME IntakeInv, [Next]_intakeVars
  PROVE  IntakeInv'
<1>1. CASE IngestNext /\ UNCHANGED submissionVars
  <2>1. IngestInv'
    BY <1>1, IngestStep DEF IntakeInv
  <2>2. \A id \in DOMAIN news' : id[1] = 0 => id[2] \in Letters /\ work[id[2]].pc # "none"
    <3>1. 0 \notin Runs
      BY IngestionAssumption DEF Runs
    <3> QED
      BY <1>1, <3>1, IngestRows DEF IntakeInv, LettersInv
  <2>3. LettersInv'
    BY <1>1, <2>2 DEF IntakeInv, LettersInv, submissionVars
  <2> QED
    BY <2>1, <2>3 DEF IntakeInv
<1>2. CASE SubmissionsNext /\ UNCHANGED ingestVars
  <2>1. LettersInv' /\ LettersGrow
    BY <1>2, LettersStep DEF IntakeInv, IngestInv, RunsInv
  <2>2. \A m \in Runs : NoneOf(m, news, news')
    BY <2>1, IngestionAssumption DEF LettersGrow, NoneOf, Runs
  <2>3. /\ RunsInv /\ Surroundings' /\ faults.count \in Nat
        /\ UNCHANGED <<run, sent, pushed, faults>>
    BY <1>2 DEF IntakeInv, IngestInv, Surroundings, ingestVars
  <2>4. IngestInv'
    BY <2>1, <2>2, <2>3, RunsStay DEF LettersGrow
  <2> QED
    BY <2>1, <2>4 DEF IntakeInv
<1>3. CASE UNCHANGED intakeVars
  BY <1>3, IntakeStays
<1> QED
  BY <1>1, <1>2, <1>3 DEF Next

LEMMA AlwaysIntakeInv == Spec => []IntakeInv
<1>1. Init => IntakeInv
  BY IntakeStarts
<1>2. IntakeInv /\ [Next]_intakeVars => IntakeInv'
  BY IntakeKept
<1> QED
  BY <1>1, <1>2, PTL DEF Spec

LEMMA IntakeTypes ==
  ASSUME IntakeInv
  PROVE  TypeOK
<1>1. \A id \in DOMAIN news : id \in RowIds /\ news[id] \in Row
  BY TableRows DEF IntakeInv, IngestInv, RunsInv
<1>2. ASSUME NEW n \in Runs PROVE RunOK(run[n])
  <2> DEFINE r == run[n]
  <2>1. r \in RunRecord /\ DraftsFit(n, r) /\ Counted(r, faults.count)
    BY DEF IntakeInv, IngestInv, RunsInv, RunInv
  <2>2. \A id \in DOMAIN r.drafts : id \in RowIds /\ r.drafts[id] \in Row
    BY <2>1, TableRows DEF RunRecord
  <2>3. r.execution \in 0..(MaxRetries + MaxFaults)
    BY <2>1, IngestionAssumption DEF RunRecord, Counted
  <2>4. r.cards \subseteq DOMAIN r.drafts /\ r.calls \subseteq DOMAIN r.drafts
    BY <2>1 DEF DraftsFit
  <2> QED
    BY <2>1, <2>2, <2>3, <2>4 DEF RunRecord, RunOK
<1>3. /\ now \in 0..MaxNow /\ born \in [Items -> (0..MaxNow) \cup {Never}]
      /\ activeCities \subseteq Cities /\ asked \subseteq Sources
      /\ source \in [Sources -> [exists : BOOLEAN, active : BOOLEAN,
                                 checked : (0..MaxNow) \cup {Never}, ok : BOOLEAN]]
      /\ sent \in 0..MaxRuns /\ pushed \subseteq DOMAIN news
  BY DEF IntakeInv, IngestInv, RunsInv, Surroundings, SourceRecord
<1>4. /\ state \in [Readers -> {"none", "choosing_city", "entering_text", "attaching_media",
                                "attaching_location", "choosing_anonymity",
                                "entering_author"}]
      /\ data \in [Readers -> LetterData]
      /\ letters \in [Letters -> [form : LetterData, said : Nat, whole : BOOLEAN]]
  BY DEF IntakeInv, LettersInv, DialogueStates, LetterRecord
<1> QED
  BY <1>1, <1>2, <1>3, <1>4 DEF TypeOK

\* Every variable keeps its type: a table only holds rows of messages that were sent
\* and of letters that were stored, and no message is executed more often than
\* max_retries and the faults allow.
THEOREM TypeCorrect == Spec => []TypeOK
<1>1. IntakeInv => TypeOK
  BY IntakeTypes
<1> QED
  BY <1>1, AlwaysIntakeInv, PTL

\* The tasks of a source may be retried, redelivered and dispatched twice: a run stores
\* no story that was on file when it began, and none twice.
THEOREM NothingStoredTwice == Spec => []StoredOnce
<1>1. ASSUME IntakeInv PROVE StoredOnce
  <2>1. \A n \in Runs : DraftsFit(n, run[n])
    BY <1>1 DEF IntakeInv, IngestInv, RunsInv, RunInv
  <2> QED
    BY <2>1 DEF StoredOnce, DraftsFit
<1> QED
  BY <1>1, AlwaysIntakeInv, PTL

\* Whatever editors do to sources and cities meanwhile, an item goes to cities of its
\* source that were active when its run began, and where its text says.
THEOREM ItemsGoWhereTheyBelong == Spec => []TargetsFit
<1>1. ASSUME IntakeInv PROVE TargetsFit
  <2>1. ASSUME NEW n \in Runs, NEW id \in DOMAIN run[n].drafts
        PROVE  CitiesFit(run[n], id[3], run[n].drafts[id].cities)
    BY <1>1 DEF IntakeInv, IngestInv, RunsInv, RunInv, DraftsFit
  <2> QED
    BY <2>1 DEF TargetsFit, CitiesFit
<1> QED
  BY <1>1, AlwaysIntakeInv, PTL

-----------------------------------------------------------------------------
(* Executions that overlap. *)

AtMostOne(S) == \A x, y \in S : x = y
RowsBy(rows, n, e) == {rows[id].story : id \in {d \in DOMAIN rows : d[1] = n /\ d[2] = e}}

\* Two executions of a source have one story in common at most; and so have one that
\* is at work, with the lock of the source's row, and one that has committed.
ApartInv ==
    /\ \A a, b \in DOMAIN news :
          /\ a[1] > 0 /\ b[1] > 0
          /\ a[1] # b[1] \/ a[2] # b[2]
          /\ run[a[1]].source = run[b[1]].source
          => AtMostOne(RowsBy(news, a[1], a[2]) \cap RowsBy(news, b[1], b[2]))
    /\ \A n \in Runs : run[n].locked =>
          \A d \in DOMAIN news :
             d[1] > 0 /\ run[d[1]].source = run[n].source =>
                AtMostOne(StoriesOf(run[n].drafts) \cap RowsBy(news, d[1], d[2]))

\* No run stores anything, and none commits.
Quiet ==
    /\ Extends(news, news') /\ \A m \in Runs : NoneOf(m, news, news')
    /\ \A m \in Runs : run'[m].source = run[m].source \/ \A id \in DOMAIN news : id[1] # m
    /\ \A m \in Runs : run'[m].locked =>
          run[m].locked /\ run'[m].drafts = run[m].drafts /\ run'[m].source = run[m].source

LEMMA RowsByStay ==
  ASSUME NEW old, NEW new, Extends(old, new), NEW n, NoneOf(n, old, new), NEW e
  PROVE  RowsBy(new, n, e) = RowsBy(old, n, e)
  BY DEF RowsBy, Extends, NoneOf

LEMMA RowsByOfStories ==
  ASSUME NEW rows, NEW n, NEW e
  PROVE  RowsBy(rows, n, e) \subseteq StoriesOf(rows)
  BY DEF RowsBy, StoriesOf

LEMMA RunOfRow ==
  ASSUME NEW rows \in Tables, NEW id \in DOMAIN rows
  PROVE  id[1] \in 0..MaxRuns /\ id[2] \in Nat /\ (id[1] > 0 => id[1] \in Runs)
<1>1. id \in RowIds
  BY TableRows
<1> QED
  BY <1>1, IngestionAssumption, SubmissionsAssumption DEF RowIds, Runs

LEMMA QuietApart ==
  ASSUME ApartInv, Quiet, news' \in Tables
  PROVE  ApartInv'
<1>1. ASSUME NEW d \in DOMAIN news', d[1] > 0
      PROVE  d[1] \in Runs /\ d \in DOMAIN news /\ run'[d[1]].source = run[d[1]].source
  <2>1. d[1] \in Runs
    BY <1>1, RunOfRow
  <2>2. d \in DOMAIN news
    BY <2>1 DEF Quiet, NoneOf
  <2> QED
    BY <2>1, <2>2 DEF Quiet
<1>2. \A m \in Runs : \A e : RowsBy(news', m, e) = RowsBy(news, m, e)
  BY RowsByStay DEF Quiet
<1>3. ASSUME NEW a \in DOMAIN news', NEW b \in DOMAIN news', a[1] > 0, b[1] > 0,
             a[1] # b[1] \/ a[2] # b[2], run'[a[1]].source = run'[b[1]].source
      PROVE  AtMostOne(RowsBy(news', a[1], a[2]) \cap RowsBy(news', b[1], b[2]))
  <2>1. /\ a[1] \in Runs /\ a \in DOMAIN news /\ b[1] \in Runs /\ b \in DOMAIN news
        /\ run[a[1]].source = run[b[1]].source
    BY <1>1, <1>3
  <2>2. AtMostOne(RowsBy(news, a[1], a[2]) \cap RowsBy(news, b[1], b[2]))
    BY <1>3, <2>1 DEF ApartInv
  <2> QED
    BY <1>2, <2>1, <2>2
<1>4. ASSUME NEW n \in Runs, run'[n].locked, NEW d \in DOMAIN news', d[1] > 0,
             run'[d[1]].source = run'[n].source
      PROVE  AtMostOne(StoriesOf(run'[n].drafts) \cap RowsBy(news', d[1], d[2]))
  <2>1. /\ d[1] \in Runs /\ d \in DOMAIN news /\ run[d[1]].source = run[n].source
        /\ run[n].locked /\ run'[n].drafts = run[n].drafts
    BY <1>1, <1>4 DEF Quiet
  <2>2. AtMostOne(StoriesOf(run[n].drafts) \cap RowsBy(news, d[1], d[2]))
    BY <1>4, <2>1 DEF ApartInv
  <2> QED
    BY <1>2, <2>1, <2>2
<1> QED
  BY <1>3, <1>4 DEF ApartInv

\* A run stores an item: its first, or one that is not on file.
LEMMA StoredApart ==
  ASSUME ApartInv, news \in Tables, NEW n \in Runs, NEW s, run' = [run EXCEPT ![n] = s],
         run \in [Runs -> RunRecord], news' = news, s.source = run[n].source, NEW x,
         StoriesOf(s.drafts) = StoriesOf(run[n].drafts) \cup {x},
         \/ run[n].locked /\ x \notin StoriesOf(news)
         \/ StoriesOf(run[n].drafts) = {}
  PROVE  ApartInv'
<1>1. run'[n] = s /\ \A m \in Runs : m # n => run'[m] = run[m]
  OBVIOUS
<1>2. \A m \in Runs : run'[m].source = run[m].source
  BY <1>1
<1>3. \A d \in DOMAIN news : d[1] > 0 => d[1] \in Runs
  BY RunOfRow
<1>4. ASSUME NEW a \in DOMAIN news, NEW b \in DOMAIN news, a[1] > 0, b[1] > 0,
             a[1] # b[1] \/ a[2] # b[2], run'[a[1]].source = run'[b[1]].source
      PROVE  AtMostOne(RowsBy(news, a[1], a[2]) \cap RowsBy(news, b[1], b[2]))
  BY <1>2, <1>3, <1>4 DEF ApartInv
<1>5. ASSUME NEW m \in Runs, run'[m].locked, NEW d \in DOMAIN news, d[1] > 0,
             run'[d[1]].source = run'[m].source
      PROVE  AtMostOne(StoriesOf(run'[m].drafts) \cap RowsBy(news, d[1], d[2]))
  <2>1. run[d[1]].source = run[m].source
    BY <1>2, <1>3, <1>5
  <2>2. CASE m # n
    BY <1>1, <1>5, <2>1, <2>2 DEF ApartInv
  <2>3. CASE m = n /\ run[n].locked /\ x \notin StoriesOf(news)
    <3>1. AtMostOne(StoriesOf(run[n].drafts) \cap RowsBy(news, d[1], d[2]))
      BY <1>5, <2>1, <2>3 DEF ApartInv
    <3>2. x \notin RowsBy(news, d[1], d[2])
      BY <2>3, RowsByOfStories
    <3> QED
      BY <1>1, <2>3, <3>1, <3>2 DEF AtMostOne
  <2>4. CASE m = n /\ StoriesOf(run[n].drafts) = {}
    BY <1>1, <2>4 DEF AtMostOne
  <2> QED
    BY <2>2, <2>3, <2>4
<1> QED
  BY <1>4, <1>5 DEF ApartInv

\* The commit: no other run of the source is at work with the lock.
LEMMA CommittedApart ==
  ASSUME IngestInv, ApartInv, NEW n \in Runs, Commit(n), news' \in Tables
  PROVE  ApartInv'
<1> DEFINE r == run[n]
           e == r.execution
           D == r.drafts
<1>1. /\ r \in RunRecord /\ DraftsFit(n, r) /\ WaitingFits(r) /\ Committed(n, r, news)
      /\ news \in Tables /\ D \in Tables /\ run \in [Runs -> RunRecord]
  BY RunFacts DEF IngestInv, RunsInv, RunRecord
<1>2. /\ r.pc = "working" /\ SourceFree(r.source, n) /\ news' = With(news, D)
      /\ run' = [run EXCEPT ![n] = [r EXCEPT !.pc = "handing", !.locked = FALSE]]
  BY DEF Commit, Become
<1>3. /\ \A m \in Runs : run'[m].source = run[m].source
      /\ \A m \in Runs : m # n => run'[m] = run[m]
      /\ ~run'[n].locked
  BY <1>1, <1>2 DEF RunRecord
<1>4. /\ \A id \in DOMAIN D : id[1] = n /\ id[2] = e
      /\ \A id \in DOMAIN news : id[1] = n => id[2] < e
      /\ ~r.locked => D = NoRows
  BY <1>1, <1>2 DEF DraftsFit, Committed, WaitingFits
<1>5. DOMAIN news \cap DOMAIN D = {} /\ e \in Nat
  BY <1>1, <1>4 DEF RunRecord
<1>6. /\ DOMAIN news' = DOMAIN news \cup DOMAIN D
      /\ \A id \in DOMAIN D : news'[id] = D[id]
      /\ \A id \in DOMAIN news : news'[id] = news[id]
  <2> DEFINE new == With(news, D)
  <2>1. /\ DOMAIN new = DOMAIN news \cup DOMAIN D
        /\ \A id \in DOMAIN D : new[id] = D[id]
        /\ \A id \in DOMAIN news \ DOMAIN D : new[id] = news[id]
    BY <1>1, Inserted
  <2> HIDE DEF new
  <2>2. news' = new
    BY <1>2 DEF new
  <2> QED
    BY <1>5, <2>1, <2>2
<1>7. ASSUME NEW m, NEW f, m # n \/ f # e PROVE RowsBy(news', m, f) = RowsBy(news, m, f)
  BY <1>4, <1>6, <1>7 DEF RowsBy
<1>8. RowsBy(news', n, e) \subseteq StoriesOf(D)
  BY <1>4, <1>5, <1>6 DEF RowsBy, StoriesOf
<1>9. \A d \in DOMAIN news' : d[1] > 0 => d[1] \in Runs
  BY RunOfRow
<1>10. ASSUME NEW b \in DOMAIN news', b[1] > 0, b[1] # n \/ b[2] # e,
              run[b[1]].source = r.source, DOMAIN D # {}
       PROVE  AtMostOne(RowsBy(news', n, e) \cap RowsBy(news', b[1], b[2]))
  <2>1. b \in DOMAIN news
    BY <1>4, <1>6, <1>10
  <2>2. r.locked
    BY <1>4, <1>10, EmptyTable
  <2>3. AtMostOne(StoriesOf(D) \cap RowsBy(news, b[1], b[2]))
    BY <1>10, <2>1, <2>2 DEF ApartInv
  <2>4. RowsBy(news', b[1], b[2]) = RowsBy(news, b[1], b[2])
    BY <1>7, <1>10
  <2> QED
    BY <1>8, <2>3, <2>4 DEF AtMostOne
<1>11. ASSUME NEW a \in DOMAIN news', a[1] = n, a[2] = e PROVE DOMAIN D # {}
  BY <1>1, <1>4, <1>5, <1>6, <1>11
<1>12. ASSUME NEW a \in DOMAIN news', NEW b \in DOMAIN news', a[1] > 0, b[1] > 0,
              a[1] # b[1] \/ a[2] # b[2], run'[a[1]].source = run'[b[1]].source
       PROVE  AtMostOne(RowsBy(news', a[1], a[2]) \cap RowsBy(news', b[1], b[2]))
  <2>1. run[a[1]].source = run[b[1]].source
    BY <1>3, <1>9, <1>12
  <2>2. CASE a[1] = n /\ a[2] = e
    BY <1>10, <1>11, <1>12, <2>1, <2>2
  <2>3. CASE b[1] = n /\ b[2] = e
    <3>1. AtMostOne(RowsBy(news', n, e) \cap RowsBy(news', a[1], a[2]))
      BY <1>10, <1>11, <1>12, <2>1, <2>3
    <3> QED
      BY <2>3, <3>1 DEF AtMostOne
  <2>4. CASE (a[1] # n \/ a[2] # e) /\ (b[1] # n \/ b[2] # e)
    <3>1. a \in DOMAIN news /\ b \in DOMAIN news
      BY <1>4, <1>6, <2>4
    <3>2. AtMostOne(RowsBy(news, a[1], a[2]) \cap RowsBy(news, b[1], b[2]))
      BY <1>12, <2>1, <3>1 DEF ApartInv
    <3>3. /\ RowsBy(news', a[1], a[2]) = RowsBy(news, a[1], a[2])
          /\ RowsBy(news', b[1], b[2]) = RowsBy(news, b[1], b[2])
      BY <1>7, <2>4
    <3> QED
      BY <3>2, <3>3
  <2> QED
    BY <2>2, <2>3, <2>4
<1>13. ASSUME NEW m \in Runs, run'[m].locked, NEW d \in DOMAIN news', d[1] > 0,
              run'[d[1]].source = run'[m].source
       PROVE  AtMostOne(StoriesOf(run'[m].drafts) \cap RowsBy(news', d[1], d[2]))
  <2>1. m # n /\ run'[m] = run[m] /\ run[m].locked
    BY <1>3, <1>13
  <2>2. run[m].source # r.source
    BY <1>2, <2>1 DEF SourceFree
  <2>3. d[1] # n /\ run[d[1]].source = run[m].source
    BY <1>3, <1>9, <1>13, <2>2
  <2>4. d \in DOMAIN news
    BY <1>4, <1>6, <2>3
  <2>5. AtMostOne(StoriesOf(run[m].drafts) \cap RowsBy(news, d[1], d[2]))
    BY <1>13, <2>1, <2>3, <2>4 DEF ApartInv
  <2>6. RowsBy(news', d[1], d[2]) = RowsBy(news, d[1], d[2])
    BY <1>7, <2>3
  <2> QED
    BY <2>1, <2>5, <2>6
<1> QED
  BY <1>12, <1>13 DEF ApartInv

\* The record of a run is replaced by one without the lock, or with what it had stored.
LEMMA QuietRun ==
  ASSUME IngestInv, NEW n \in Runs, NEW h, Become(n, h), h.source = run[n].source,
         h.locked => run[n].locked /\ h.drafts = run[n].drafts,
         Extends(news, news'), \A m \in Runs : NoneOf(m, news, news')
  PROVE  Quiet
<1>1. run' = [run EXCEPT ![n] = h] /\ run \in [Runs -> RunRecord]
  BY DEF Become, IngestInv, RunsInv
<1>2. run'[n] = h /\ \A m \in Runs : m # n => run'[m] = run[m]
  BY <1>1
<1> QED
  BY <1>2 DEF Quiet

LEMMA QuietSteps ==
  ASSUME IngestInv, NEW n \in Runs,
         \/ SkipInactive(n) \/ Fetch(n) \/ FetchFails(n) \/ SourceVanished(n) \/ Finish(n)
         \/ TaskFails(n) \/ WorkerDies(n)
  PROVE  Quiet
<1> DEFINE r == run[n]
<1>1. /\ RunInv(n, r, news, faults.count) /\ r \in RunRecord
      /\ news \in Tables /\ faults.count \in Nat /\ now \in 0..MaxNow
      /\ activeCities \subseteq Cities /\ source[r.source].ok \in BOOLEAN
  BY RunFacts
<1>2. Extends(news, news) /\ \A m \in Runs : NoneOf(m, news, news)
  BY ItselfExtends
<1>3. ASSUME NEW h, Become(n, h), Replaces(h, r), news' = news PROVE Quiet
  BY <1>2, <1>3, QuietRun DEF Replaces
<1>4. CASE SkipInactive(n) \/ Finish(n)
  <2>1. Replaces(Finished(r), r)
    BY <1>1, FinishedRun
  <2> QED
    BY <1>3, <1>4, <2>1 DEF SkipInactive, Finish
<1>5. CASE Fetch(n) \/ FetchFails(n)
  <2>1. PICK ok \in BOOLEAN, items \in SUBSET Items : Become(n, Begun(r, ok, items))
    BY <1>1, <1>5 DEF Fetch, FetchFails
  <2>2. r.pc = "queued" /\ news' = news
    BY <1>5 DEF Fetch, FetchFails
  <2>3. Replaces(Begun(r, ok, items), r)
    BY <1>1, <2>2, BegunRun
  <2> QED
    BY <1>3, <2>1, <2>2, <2>3
<1>6. CASE SourceVanished(n) \/ TaskFails(n) \/ WorkerDies(n)
  <2>1. /\ r.pc \in {"working", "inserting", "handing"} /\ news' = news
        /\ Become(n, RetryOrGiveUp(r)) \/ Become(n, Anew(r))
    BY <1>6 DEF SourceVanished, TaskFails, WorkerDies
  <2>2. Replaces(RetryOrGiveUp(r), r) /\ Replaces(Anew(r), r)
    BY <1>1, <2>1, AnotherExecution
  <2> QED
    BY <1>3, <2>1, <2>2
<1> QED
  BY <1>4, <1>5, <1>6

LEMMA QuietFails ==
  ASSUME IngestInv, NEW n \in Runs,
         (\E i \in Items : ItemFails(n, i)) \/ (\E id \in run[n].calls : SlotFails(n, id))
  PROVE  Quiet
<1>1. PICK h, cost :
         /\ Become(n, h) /\ h.source = run[n].source /\ h.drafts = run[n].drafts
         /\ h.locked = run[n].locked /\ news' = news
  BY FailedItem
<1>2. Extends(news, news') /\ \A m \in Runs : NoneOf(m, news, news')
  BY <1>1, ItselfExtends
<1> QED
  BY <1>1, <1>2, QuietRun

LEMMA QuietHands ==
  ASSUME IngestInv, NEW n \in Runs, NEW id, PushOut(n, id) \/ Notify(n, id)
  PROVE  Quiet
<1> DEFINE r == run[n]
<1>1. /\ RunInv(n, r, news, faults.count) /\ r \in RunRecord
      /\ news \in Tables /\ faults.count \in Nat
  BY RunFacts
<1>2. r.pc = "handing"
  BY DEF PushOut, Notify
<1>3. PICK h : /\ Become(n, h)
               /\ \/ h = [r EXCEPT !.cards = @ \ {id}]
                  \/ h = [r EXCEPT !.calls = @ \ {id}]
  BY DEF PushOut, Notify
<1>4. Replaces(h, r)
  BY <1>1, <1>2, <1>3, HandedRun
<1>5. DOMAIN news' = DOMAIN news /\ \A d \in DOMAIN news : news'[d].story = news[d].story
  <2>1. CASE news' = news
    BY <2>1
  <2>2. CASE news' = [news EXCEPT ![id].card = TRUE]
    BY <1>1, <2>2, TableRows DEF Row
  <2> QED
    BY <2>1, <2>2 DEF PushOut, Notify
<1>6. Extends(news, news') /\ \A m \in Runs : NoneOf(m, news, news')
  BY <1>5 DEF Extends, NoneOf
<1> QED
  BY <1>3, <1>4, <1>6, QuietRun DEF Replaces

LEMMA QuietAround ==
  ASSUME IngestInv,
         \/ \E s \in Sources : \/ DispatchDueSources(s) \/ SwitchSource(s)
                               \/ CheckSourceNow(s) \/ DeleteSource(s)
         \/ (\E c \in Cities : SwitchCity(c)) \/ (\E i \in Items : Appear(i)) \/ Tick
  PROVE  Quiet
<1>1. news' = news
  BY DEF DispatchDueSources, SwitchSource, CheckSourceNow, DeleteSource, SwitchCity, Appear, Tick
<1>2. Extends(news, news') /\ \A m \in Runs : NoneOf(m, news, news')
  BY <1>1, ItselfExtends
<1>3. CASE run' = run
  BY <1>2, <1>3 DEF Quiet
<1>4. ASSUME NEW s \in Sources, Enqueue(s) PROVE Quiet
  <2>1. /\ sent < MaxRuns /\ sent \in Nat /\ sent + 1 \in Runs
        /\ run' = [run EXCEPT ![sent + 1] = Message(s)] /\ run \in [Runs -> RunRecord]
        /\ sent + 1 > sent
    BY <1>4, IngestionAssumption DEF Enqueue, IngestInv, Surroundings, RunsInv, Runs
  <2>2. ~Message(s).locked
    BY <1>4, IsMessage DEF Blank
  <2>3. run[sent + 1].pc = "none"
    BY <2>1 DEF IngestInv, RunsInv
  <2>4. \A id \in DOMAIN news : id[1] # sent + 1
    BY <2>1, <2>3 DEF IngestInv, RunsInv, RunInv, Committed
  <2>5. /\ run'[sent + 1] = Message(s)
        /\ \A m \in Runs : m # sent + 1 => run'[m] = run[m]
    BY <2>1
  <2> QED
    BY <1>2, <2>2, <2>4, <2>5 DEF Quiet
<1> QED
  BY <1>3, <1>4 DEF DispatchDueSources, SwitchSource, CheckSourceNow, DeleteSource,
                    SwitchCity, Appear, Tick

LEMMA ApartTakes ==
  ASSUME IngestInv, ApartInv, NEW n \in Runs, NEW i \in Items,
         SkipItem(n, i) \/ TakeItem(n, i), news' \in Tables
  PROVE  ApartInv'
<1> DEFINE r == run[n]
           C == TargetsOf(r, i)
<1>1. /\ RunInv(n, r, news, faults.count) /\ r \in RunRecord /\ WaitingFits(r)
      /\ news \in Tables /\ faults.count \in Nat /\ activeCities \subseteq Cities
      /\ Committed(n, r, news) /\ run \in [Runs -> RunRecord]
  BY RunFacts DEF IngestInv, RunsInv
<1>2. r.pc = "working" /\ news' = news
  BY DEF SkipItem, TakeItem
<1>3. Extends(news, news') /\ \A m \in Runs : NoneOf(m, news, news')
  BY <1>2, ItselfExtends
<1>4. CASE SkipItem(n, i)
  <2> DEFINE s == [r EXCEPT !.todo = @ \ {i}]
  <2>1. s.source = r.source /\ s.drafts = r.drafts /\ s.locked = r.locked
    BY <1>1, SkippedItem
  <2>2. Become(n, s)
    BY <1>4 DEF SkipItem
  <2> HIDE DEF s
  <2>3. Quiet
    BY <1>3, <2>1, <2>2, QuietRun
  <2> QED
    BY <2>3, QuietApart
<1>5. CASE TakeItem(n, i)
  <2>1. C # {} /\ StoryOf[i] \notin StoriesOf(news) \cup StoriesOf(r.drafts)
    BY <1>5 DEF TakeItem, IsDuplicate
  <2>2. CitiesFit(r, i, C) /\ C \in SUBSET Cities
    BY <1>1, <2>1, TargetsAreFit
  <2>3. StoryOf[i] \notin r.known \cup StoriesOf(r.drafts)
    BY <1>1, <2>1 DEF Committed
  <2> HIDE DEF C
  <2>4. CASE r.locked
    <3>1. PICK slot \in Slots : Become(n, Reported(Stored(n, r, i, C, slot), IdOf(n, i)))
      BY <1>5, <2>4 DEF TakeItem, C
    <3> DEFINE s == Reported(Stored(n, r, i, C, slot), IdOf(n, i))
               x == StoryOf[i]
    <3>2. s.source = r.source /\ StoriesOf(s.drafts) = StoriesOf(r.drafts) \cup {x}
      BY <1>1, <1>2, <2>2, <2>3, TakenItem
    <3>3. run' = [run EXCEPT ![n] = s]
      BY <3>1 DEF Become
    <3>4. x \notin StoriesOf(news)
      BY <2>1
    <3> HIDE DEF s, x
    <3> QED
      BY <1>1, <1>2, <2>4, <3>2, <3>3, <3>4, StoredApart
  <2>5. CASE ~r.locked
    <3> DEFINE h == [r EXCEPT !.pc = "inserting", !.held = {[item |-> i, cities |-> C]}]
    <3>1. Become(n, h)
      BY <1>5, <2>5 DEF TakeItem, C
    <3>4. StoryOf[i] \notin r.known /\ C \in SUBSET Cities
      BY <2>2, <2>3
    <3>5. h = [r EXCEPT !.pc = "inserting", !.held = {[item |-> i, cities |-> C]}]
      OBVIOUS
    <3> HIDE DEF h, r
    <3>2. RunInv(n, h, news, faults.count) /\ Replaces(h, r)
      BY <1>1, <1>2, <2>2, <2>5, <3>4, <3>5, HeldItem
    <3>3. Quiet
      BY <1>3, <3>1, <3>2, QuietRun DEF Replaces, r
    <3> QED
      BY <3>3, QuietApart
  <2> QED
    BY <2>4, <2>5
<1> QED
  BY <1>4, <1>5

LEMMA ApartInserts ==
  ASSUME IngestInv, ApartInv, NEW n \in Runs, InsertFirst(n)
  PROVE  ApartInv'
<1> DEFINE r == run[n]
<1>1. /\ RunInv(n, r, news, faults.count) /\ r \in RunRecord /\ WaitingFits(r)
      /\ news \in Tables /\ faults.count \in Nat /\ run \in [Runs -> RunRecord]
  BY RunFacts DEF IngestInv, RunsInv
<1>2. PICK h \in r.held, slot \in Slots :
        Become(n, Reported(Stored(n, r, h.item, h.cities, slot), IdOf(n, h.item)))
  BY DEF InsertFirst
<1>3. r.pc = "inserting" /\ news' = news
  BY DEF InsertFirst
<1>4. h.item \in Items /\ h.cities \in SUBSET Cities
  BY <1>1 DEF RunRecord
<1>5. /\ StoryOf[h.item] \notin r.known /\ CitiesFit(r, h.item, h.cities)
      /\ StoriesOf(r.drafts) = {}
  BY <1>1, <1>3, EmptyTable DEF WaitingFits
<1> DEFINE s == Reported(Stored(n, r, h.item, h.cities, slot), IdOf(n, h.item))
<1>6. /\ s.source = r.source
      /\ StoriesOf(s.drafts) = StoriesOf(r.drafts) \cup {StoryOf[h.item]}
  BY <1>1, <1>3, <1>4, <1>5, TakenItem
<1>7. run' = [run EXCEPT ![n] = s]
  BY <1>2 DEF Become
<1> HIDE DEF s
<1> QED
  BY <1>1, <1>3, <1>5, <1>6, <1>7, StoredApart

LEMMA ApartKept ==
  ASSUME IntakeInv, ApartInv, [Next]_intakeVars
  PROVE  ApartInv'
<1>1. IngestInv /\ news' \in Tables /\ news \in Tables /\ LettersInv
  BY IntakeKept DEF IntakeInv, IngestInv, RunsInv
<1>2. CASE IngestNext
  <2>1. ASSUME NEW n \in Runs, RunStep(n) \/ FetchFails(n) \/ TaskFails(n) \/ WorkerDies(n)
        PROVE  ApartInv'
    <3>1. CASE \E i \in Items : SkipItem(n, i) \/ TakeItem(n, i)
      BY <1>1, <3>1, ApartTakes
    <3>2. CASE InsertFirst(n)
      BY <1>1, <3>2, ApartInserts
    <3>3. CASE Commit(n)
      BY <1>1, <3>3, CommittedApart
    <3>4. CASE \E id : PushOut(n, id) \/ Notify(n, id)
      BY <1>1, <3>4, QuietHands, QuietApart
    <3>5. CASE \/ SkipInactive(n) \/ Fetch(n) \/ FetchFails(n) \/ SourceVanished(n)
               \/ Finish(n) \/ TaskFails(n) \/ WorkerDies(n)
      BY <1>1, <3>5, QuietSteps, QuietApart
    <3> QED
      BY <2>1, <3>1, <3>2, <3>3, <3>4, <3>5 DEF RunStep
  <2>2. CASE \/ \E s \in Sources : \/ DispatchDueSources(s) \/ SwitchSource(s)
                                   \/ CheckSourceNow(s) \/ DeleteSource(s)
             \/ (\E c \in Cities : SwitchCity(c)) \/ (\E i \in Items : Appear(i)) \/ Tick
    BY <1>1, <2>2, QuietAround, QuietApart
  <2>3. ASSUME NEW n \in Runs,
               \/ \E i \in Items : ItemFails(n, i)
               \/ \E id \in run[n].calls : SlotFails(n, id)
        PROVE  ApartInv'
    BY <1>1, <2>3, QuietFails, QuietApart
  <2> QED
    BY <1>2, <2>1, <2>2, <2>3 DEF IngestNext
<1>3. CASE SubmissionsNext /\ UNCHANGED ingestVars
  <2>1. LettersGrow
    BY <1>1, <1>3, LettersStep
  <2>2. \A m \in Runs : NoneOf(m, news, news')
    BY <2>1, IngestionAssumption DEF LettersGrow, NoneOf, Runs
  <2>3. Quiet
    BY <1>3, <2>1, <2>2 DEF Quiet, LettersGrow, ingestVars
  <2> QED
    BY <1>1, <2>3, QuietApart
<1>4. CASE UNCHANGED intakeVars
  <2>1. Quiet
    BY <1>4, ItselfExtends DEF Quiet, intakeVars, ingestVars
  <2> QED
    BY <1>1, <2>1, QuietApart
<1> QED
  BY <1>2, <1>3, <1>4 DEF Next

LEMMA ApartStarts ==
  ASSUME Init
  PROVE  ApartInv
<1>1. news = NoRows /\ run = [n \in Runs |-> Idle]
  BY DEF Init, IngestInit
<1>2. DOMAIN news = {} /\ \A n \in Runs : ~run[n].locked
  BY <1>1, EmptyTable, IdleIsRun DEF Blank
<1> QED
  BY <1>2 DEF ApartInv

LEMMA OneAtMost ==
  ASSUME NEW S, AtMostOne(S)
  PROVE  Cardinality(S) <= 1
<1>1. CASE S = {}
  BY <1>1, FS_EmptySet
<1>2. ASSUME NEW x \in S PROVE Cardinality(S) <= 1
  <2>1. S = {x}
    BY DEF AtMostOne
  <2>2. Cardinality({x}) = 1
    BY FS_Singleton
  <2> QED
    BY <2>1, <2>2
<1> QED
  BY <1>1, <1>2

\* Two tasks of one source may run at once (a duplicate dispatch, a retry, a message
\* delivered again): they store one story twice at most, because the first INSERT of
\* each waits for the source's row and what comes after it is looked up again.
THEOREM OverlapIsCheap == Spec => []OverlapCostsOne
<1>1. Init => IntakeInv /\ ApartInv
  BY IntakeStarts, ApartStarts
<1>2. (IntakeInv /\ ApartInv) /\ [Next]_intakeVars => (IntakeInv /\ ApartInv)'
  BY IntakeKept, ApartKept
<1>3. ASSUME ApartInv PROVE OverlapCostsOne
  <2> SUFFICES ASSUME NEW a \in DOMAIN news, NEW b \in DOMAIN news, a[1] > 0, b[1] > 0,
                      <<a[1], a[2]>> # <<b[1], b[2]>>,
                      run[a[1]].source = run[b[1]].source
               PROVE  Cardinality(StoriesBy(a[1], a[2]) \cap StoriesBy(b[1], b[2])) <= 1
    BY DEF OverlapCostsOne
  <2>1. AtMostOne(RowsBy(news, a[1], a[2]) \cap RowsBy(news, b[1], b[2]))
    BY <1>3 DEF ApartInv
  <2> DEFINE S == RowsBy(news, a[1], a[2]) \cap RowsBy(news, b[1], b[2])
  <2>2. Cardinality(S) <= 1
    <3>1. AtMostOne(S)
      BY <2>1
    <3> HIDE DEF S
    <3> QED
      BY <3>1, OneAtMost
  <2> QED
    BY <2>2 DEF RowsBy, StoriesBy
<1> QED
  BY <1>1, <1>2, <1>3, PTL DEF Spec

-----------------------------------------------------------------------------
(* What a letter holds.  t: how often its reader has chosen a city; m: how much   *)
(* was attached since.                                                           *)

HasCity(d, t) == d.city # NoCity /\ d.cityTurn = t
CityOnly(d, t, m) == HasCity(d, t) /\ d.media = <<>> /\ m = 0
Whole(d, t, m) ==
    /\ HasCity(d, t) /\ d.story # NoStory /\ d.textTurn = t
    /\ d.media = [i \in 1..m |-> t]

\* What the state of the dialogue says of its data while no update is in progress.
Fits(st, d, t, m) ==
    /\ st = "entering_text" => CityOnly(d, t, m)
    /\ st \in {"attaching_media", "attaching_location", "choosing_anonymity",
               "entering_author"} => Whole(d, t, m)

SetsCity(r, t, m) == r.fields = {"city", "cityTurn", "media"} /\ CityOnly(r.patch, t, m)
SetsText(r, t) ==
    r.fields = {"story", "textTurn"} /\ r.patch.story # NoStory /\ r.patch.textTurn = t

\* What is left of the scripts, by the number of steps: of the deep link, of the
\* choice of a city, of the text, and so on.
Link5 == <<"clearState", "clearData", "read", "write", "entering_text">>
Link4 == <<"clearData", "read", "write", "entering_text">>
City3 == <<"read", "write", "entering_text">>
City2 == <<"write", "entering_text">>
City1 == <<"entering_text">>
Text3 == <<"read", "write", "attaching_media">>
Text2 == <<"write", "attaching_media">>
Text1 == <<"attaching_media">>
Media4 == <<"get", "append", "read", "write">>
Media3 == <<"append", "read", "write">>
Media2 == <<"read", "write">>
Media1 == <<"write">>
Place3 == <<"read", "write", "choosing_anonymity">>
Place2 == <<"write", "choosing_anonymity">>
Place1 == <<"choosing_anonymity">>
Name3 == <<"read", "write", "entering_author">>
Name2 == <<"write", "entering_author">>
Name1 == <<"entering_author">>
Hide7 == <<"read", "write", "get", "clearState", "clearData", "create", "enqueue">>
Hide6 == <<"write", "get", "clearState", "clearData", "create", "enqueue">>
Send5 == <<"get", "clearState", "clearData", "create", "enqueue">>
Send4 == <<"clearState", "clearData", "create", "enqueue">>
Send3 == <<"clearData", "create", "enqueue">>
Send2 == <<"create", "enqueue">>
Send1 == <<"enqueue">>
Done1 == <<"attaching_location">>
Ask1 == <<"choosing_city">>
Quit2 == <<"clearState", "clearData">>
Quit1 == <<"clearData">>

\* The steps a handler may have left, and what it will do to the data.
GoesToText(r, st, d, t, m) ==
    \/ /\ r.steps \in {Link5, Link4, City3, City2}
       /\ SetsCity(r, t, m)
    \/ r.steps = City1 /\ CityOnly(d, t, m)

GoesToMedia(r, st, d, t, m) ==
    \/ /\ r.steps = Text3
       /\ SetsText(r, t) /\ CityOnly(d, t, m)
    \/ /\ r.steps = Text2
       /\ SetsText(r, t) /\ CityOnly(r.seen, t, m)
    \/ r.steps = Text1 /\ Whole(d, t, m)

Attaches(r, st, d, t, m) ==
    /\ m > 0 /\ st = "attaching_media" /\ r.fields = {"media"}
    /\ \/ /\ r.steps = Media4
          /\ Whole(d, t, m - 1) /\ r.patch.media = <<t>>
       \/ /\ r.steps = Media3
          /\ Whole(d, t, m - 1) /\ r.patch.media = <<t>>
          /\ r.seen.media = [i \in 1..(m - 1) |-> t]
       \/ /\ r.steps = Media2
          /\ Whole(d, t, m - 1) /\ r.patch.media = [i \in 1..m |-> t]
       \/ /\ r.steps = Media1
          /\ Whole(r.seen, t, m - 1) /\ r.patch.media = [i \in 1..m |-> t]

GoesOn(r, st, d, t, m) ==
    \/ /\ r.steps \in {Place3, Name3, Hide7}
       /\ r.fields \in {{"geo"}, {"anonymous"}} /\ Whole(d, t, m)
    \/ /\ r.steps \in {Place2, Name2, Hide6}
       /\ r.fields \in {{"geo"}, {"anonymous"}} /\ Whole(r.seen, t, m)
    \/ /\ r.steps \in {Done1, Place1, Name1}
       /\ Whole(d, t, m)

Submits(r, st, d, t, m) ==
    \/ /\ r.steps = Send5
       /\ Whole(d, t, m)
    \/ /\ r.steps = Send4
       /\ Whole(r.seen, t, m)
    \/ /\ r.steps \in {Send3, Send2}
       /\ st = "none" /\ Whole(r.seen, t, m)

Leaves(r, st, d, t, m) ==
    \/ r.steps \in {Ask1, Quit2}
    \/ r.steps \in {Quit1, Send1} /\ st = "none"
    \/ r.steps = <<>> /\ Fits(st, d, t, m)

Continues(r, st, d, t, m) ==
    \/ GoesToText(r, st, d, t, m) \/ GoesToMedia(r, st, d, t, m) \/ Attaches(r, st, d, t, m)
    \/ GoesOn(r, st, d, t, m) \/ Submits(r, st, d, t, m) \/ Leaves(r, st, d, t, m)

\* What the scripts begin with, and what is left of them then: the scripts
\* that lead to the text.
LEMMA LinkSteps ==
  /\ Link5 # <<>> /\ Head(Link5) = "clearState" /\ Tail(Link5) = Link4
  /\ Link4 # <<>> /\ Head(Link4) = "clearData" /\ Tail(Link4) = City3
  /\ City3 # <<>> /\ Head(City3) = "read" /\ Tail(City3) = City2
  /\ City2 # <<>> /\ Head(City2) = "write" /\ Tail(City2) = City1
  /\ City1 # <<>> /\ Head(City1) = "entering_text" /\ Tail(City1) = <<>>
<1>1. Link5 # <<>> /\ Head(Link5) = "clearState" /\ Tail(Link5) = Link4
  BY DEF Link5, Link4
<1>2. Link4 # <<>> /\ Head(Link4) = "clearData" /\ Tail(Link4) = City3
  BY DEF Link4, City3
<1>3. City3 # <<>> /\ Head(City3) = "read" /\ Tail(City3) = City2
  BY DEF City3, City2
<1>4. City2 # <<>> /\ Head(City2) = "write" /\ Tail(City2) = City1
  BY DEF City2, City1
<1>5. City1 # <<>> /\ Head(City1) = "entering_text" /\ Tail(City1) = <<>>
  BY DEF City1
<1> QED
  BY <1>1, <1>2, <1>3, <1>4, <1>5

\* that store a text.
LEMMA TextSteps ==
  /\ Text3 # <<>> /\ Head(Text3) = "read" /\ Tail(Text3) = Text2
  /\ Text2 # <<>> /\ Head(Text2) = "write" /\ Tail(Text2) = Text1
  /\ Text1 # <<>> /\ Head(Text1) = "attaching_media" /\ Tail(Text1) = <<>>
<1>1. Text3 # <<>> /\ Head(Text3) = "read" /\ Tail(Text3) = Text2
  BY DEF Text3, Text2
<1>2. Text2 # <<>> /\ Head(Text2) = "write" /\ Tail(Text2) = Text1
  BY DEF Text2, Text1
<1>3. Text1 # <<>> /\ Head(Text1) = "attaching_media" /\ Tail(Text1) = <<>>
  BY DEF Text1
<1> QED
  BY <1>1, <1>2, <1>3

\* that attach a medium.
LEMMA MediaSteps ==
  /\ Media4 # <<>> /\ Head(Media4) = "get" /\ Tail(Media4) = Media3
  /\ Media3 # <<>> /\ Head(Media3) = "append" /\ Tail(Media3) = Media2
  /\ Media2 # <<>> /\ Head(Media2) = "read" /\ Tail(Media2) = Media1
  /\ Media1 # <<>> /\ Head(Media1) = "write" /\ Tail(Media1) = <<>>
<1>1. Media4 # <<>> /\ Head(Media4) = "get" /\ Tail(Media4) = Media3
  BY DEF Media4, Media3
<1>2. Media3 # <<>> /\ Head(Media3) = "append" /\ Tail(Media3) = Media2
  BY DEF Media3, Media2
<1>3. Media2 # <<>> /\ Head(Media2) = "read" /\ Tail(Media2) = Media1
  BY DEF Media2, Media1
<1>4. Media1 # <<>> /\ Head(Media1) = "write" /\ Tail(Media1) = <<>>
  BY DEF Media1
<1> QED
  BY <1>1, <1>2, <1>3, <1>4

\* that store the rest and go on.
LEMMA GoSteps ==
  /\ Place3 # <<>> /\ Head(Place3) = "read" /\ Tail(Place3) = Place2
  /\ Place2 # <<>> /\ Head(Place2) = "write" /\ Tail(Place2) = Place1
  /\ Place1 # <<>> /\ Head(Place1) = "choosing_anonymity" /\ Tail(Place1) = <<>>
  /\ Name3 # <<>> /\ Head(Name3) = "read" /\ Tail(Name3) = Name2
  /\ Name2 # <<>> /\ Head(Name2) = "write" /\ Tail(Name2) = Name1
  /\ Name1 # <<>> /\ Head(Name1) = "entering_author" /\ Tail(Name1) = <<>>
  /\ Hide7 # <<>> /\ Head(Hide7) = "read" /\ Tail(Hide7) = Hide6
  /\ Hide6 # <<>> /\ Head(Hide6) = "write" /\ Tail(Hide6) = Send5
  /\ Done1 # <<>> /\ Head(Done1) = "attaching_location" /\ Tail(Done1) = <<>>
<1>1. Place3 # <<>> /\ Head(Place3) = "read" /\ Tail(Place3) = Place2
  BY DEF Place3, Place2
<1>2. Place2 # <<>> /\ Head(Place2) = "write" /\ Tail(Place2) = Place1
  BY DEF Place2, Place1
<1>3. Place1 # <<>> /\ Head(Place1) = "choosing_anonymity" /\ Tail(Place1) = <<>>
  BY DEF Place1
<1>4. Name3 # <<>> /\ Head(Name3) = "read" /\ Tail(Name3) = Name2
  BY DEF Name3, Name2
<1>5. Name2 # <<>> /\ Head(Name2) = "write" /\ Tail(Name2) = Name1
  BY DEF Name2, Name1
<1>6. Name1 # <<>> /\ Head(Name1) = "entering_author" /\ Tail(Name1) = <<>>
  BY DEF Name1
<1>7. Hide7 # <<>> /\ Head(Hide7) = "read" /\ Tail(Hide7) = Hide6
  BY DEF Hide7, Hide6
<1>8. Hide6 # <<>> /\ Head(Hide6) = "write" /\ Tail(Hide6) = Send5
  BY DEF Hide6, Send5
<1>9. Done1 # <<>> /\ Head(Done1) = "attaching_location" /\ Tail(Done1) = <<>>
  BY DEF Done1
<1> QED
  BY <1>1, <1>2, <1>3, <1>4, <1>5, <1>6, <1>7, <1>8, <1>9

\* that submit.
LEMMA SendSteps ==
  /\ Send5 # <<>> /\ Head(Send5) = "get" /\ Tail(Send5) = Send4
  /\ Send4 # <<>> /\ Head(Send4) = "clearState" /\ Tail(Send4) = Send3
  /\ Send3 # <<>> /\ Head(Send3) = "clearData" /\ Tail(Send3) = Send2
  /\ Send2 # <<>> /\ Head(Send2) = "create" /\ Tail(Send2) = Send1
<1>1. Send5 # <<>> /\ Head(Send5) = "get" /\ Tail(Send5) = Send4
  BY DEF Send5, Send4
<1>2. Send4 # <<>> /\ Head(Send4) = "clearState" /\ Tail(Send4) = Send3
  BY DEF Send4, Send3
<1>3. Send3 # <<>> /\ Head(Send3) = "clearData" /\ Tail(Send3) = Send2
  BY DEF Send3, Send2
<1>4. Send2 # <<>> /\ Head(Send2) = "create" /\ Tail(Send2) = Send1
  BY DEF Send2, Send1
<1> QED
  BY <1>1, <1>2, <1>3, <1>4

\* that end a dialogue.
LEMMA LeaveSteps ==
  /\ Ask1 # <<>> /\ Head(Ask1) = "choosing_city" /\ Tail(Ask1) = <<>>
  /\ Quit2 # <<>> /\ Head(Quit2) = "clearState" /\ Tail(Quit2) = Quit1
  /\ Quit1 # <<>> /\ Head(Quit1) = "clearData" /\ Tail(Quit1) = <<>>
  /\ Send1 # <<>> /\ Head(Send1) = "enqueue" /\ Tail(Send1) = <<>>
<1>1. Ask1 # <<>> /\ Head(Ask1) = "choosing_city" /\ Tail(Ask1) = <<>>
  BY DEF Ask1
<1>2. Quit2 # <<>> /\ Head(Quit2) = "clearState" /\ Tail(Quit2) = Quit1
  BY DEF Quit2, Quit1
<1>3. Quit1 # <<>> /\ Head(Quit1) = "clearData" /\ Tail(Quit1) = <<>>
  BY DEF Quit1
<1>4. Send1 # <<>> /\ Head(Send1) = "enqueue" /\ Tail(Send1) = <<>>
  BY DEF Send1
<1> QED
  BY <1>1, <1>2, <1>3, <1>4

LEMMA OneMore ==
  ASSUME NEW t \in Nat, NEW m \in Nat, m > 0
  PROVE  [i \in 1..(m - 1) |-> t] \o <<t>> = [i \in 1..m |-> t]
<1> DEFINE s == [i \in 1..(m - 1) |-> t]
           u == <<t>>
           w == [i \in 1..m |-> t]
<1>1. /\ s \in Seq(Nat) /\ u \in Seq(Nat) /\ w \in Seq(Nat)
      /\ Len(s) = m - 1 /\ Len(u) = 1 /\ Len(w) = m
  OBVIOUS
<1>2. /\ \A i \in 1..(m - 1) : w[i] = s[i]
      /\ \A i \in 1..1 : w[m - 1 + i] = u[i]
  OBVIOUS
<1> HIDE DEF s, u, w
<1>3. /\ Len(w) = Len(s) + Len(u) /\ \A i \in 1..Len(s) : w[i] = s[i]
      /\ \A i \in 1..Len(u) : w[Len(s) + i] = u[i]
  BY <1>1, <1>2
<1>4. s \o u = w
  BY ONLY <1>1, <1>3, Joined
<1> QED
  BY <1>4 DEF s, u, w

LEMMA NothingAttached ==
  ASSUME NEW t
  PROVE  [i \in 1..0 |-> t] = <<>>
  OBVIOUS

\* A step leaves a handler with `q` of `r`: the rest of the script, and its fields.
Continued(q, r) == q.steps = Tail(r.steps) /\ q.fields = r.fields

LEMMA AfterSetState ==
  ASSUME NEW r, NEW st, NEW d, NEW t, NEW m, Continues(r, st, d, t, m),
         r.steps # <<>>, NEW s, Head(r.steps) = s,
         s \in {"choosing_city", "entering_text", "attaching_media", "attaching_location",
                "choosing_anonymity", "entering_author", "clearState"},
         NEW new, new = IF s = "clearState" THEN "none" ELSE s,
         NEW q, Continued(q, r), q.patch = r.patch, q.seen = r.seen
  PROVE  Continues(q, new, d, t, m)
<1> USE DEF Continued
<1>1. CASE GoesToText(r, st, d, t, m)
  <2>1. CASE r.steps = Link5
    <3>1. q.steps = Link4 /\ SetsCity(r, t, m)
      BY <1>1, <2>1, LinkSteps DEF GoesToText
    <3>2. GoesToText(q, new, d, t, m)
      BY <3>1 DEF GoesToText, SetsCity
    <3> QED
      BY <3>2 DEF Continues
  <2>2. CASE r.steps = City1
    <3>1. q.steps = <<>> /\ new = "entering_text" /\ CityOnly(d, t, m)
      BY <1>1, <2>2, LinkSteps DEF GoesToText
    <3>2. Leaves(q, new, d, t, m)
      BY <3>1 DEF Leaves, Fits
    <3> QED
      BY <3>2 DEF Continues
  <2>3. r.steps \notin {Link4, City3, City2}
    BY LinkSteps
  <2> QED
    BY <1>1, <2>1, <2>2, <2>3 DEF GoesToText
<1>2. CASE GoesToMedia(r, st, d, t, m)
  <2>1. Leaves(q, new, d, t, m)
    BY <1>2, TextSteps DEF GoesToMedia, Leaves, Fits
  <2> QED
    BY <2>1 DEF Continues
<1>3. CASE Attaches(r, st, d, t, m)
  BY <1>3, MediaSteps DEF Attaches
<1>4. CASE GoesOn(r, st, d, t, m)
  <2>1. r.steps \in {Done1, Place1, Name1} /\ Whole(d, t, m)
    BY <1>4, GoSteps DEF GoesOn
  <2>2. /\ q.steps = <<>>
        /\ s \in {"attaching_location", "choosing_anonymity", "entering_author"}
    <3>1. CASE r.steps = Done1
      BY <3>1, GoSteps
    <3>2. CASE r.steps = Place1
      BY <3>2, GoSteps
    <3>3. CASE r.steps = Name1
      BY <3>3, GoSteps
    <3> QED
      BY <2>1, <3>1, <3>2, <3>3
  <2>3. Leaves(q, new, d, t, m)
    BY <2>1, <2>2 DEF Leaves, Fits
  <2> QED
    BY <2>3 DEF Continues
<1>5. CASE Submits(r, st, d, t, m)
  <2>1. Submits(q, new, d, t, m)
    BY <1>5, SendSteps DEF Submits
  <2> QED
    BY <2>1 DEF Continues
<1>6. CASE Leaves(r, st, d, t, m)
  <2>1. CASE r.steps = Ask1
    <3>1. q.steps = <<>> /\ new = "choosing_city"
      BY <2>1, LeaveSteps
    <3>2. Leaves(q, new, d, t, m)
      BY <3>1 DEF Leaves, Fits
    <3> QED
      BY <3>2 DEF Continues
  <2>2. CASE r.steps = Quit2
    <3>1. q.steps = Quit1 /\ new = "none"
      BY <2>2, LeaveSteps
    <3>2. Leaves(q, new, d, t, m)
      BY <3>1 DEF Leaves
    <3> QED
      BY <3>2 DEF Continues
  <2>3. r.steps \in {Ask1, Quit2}
    BY <1>6, LeaveSteps DEF Leaves
  <2> QED
    BY <2>1, <2>2, <2>3
<1> QED
  BY <1>1, <1>2, <1>3, <1>4, <1>5, <1>6 DEF Continues

LEMMA AfterGetData ==
  ASSUME NEW r, NEW st, NEW d, NEW t, NEW m, Continues(r, st, d, t, m),
         r.steps # <<>>, Head(r.steps) \in {"get", "read"},
         NEW q, Continued(q, r), q.patch = r.patch, q.seen = d
  PROVE  Continues(q, st, d, t, m)
<1> USE DEF Continued
<1>1. CASE GoesToText(r, st, d, t, m)
  <2>1. GoesToText(q, st, d, t, m)
    BY <1>1, LinkSteps DEF GoesToText, SetsCity
  <2> QED
    BY <2>1 DEF Continues
<1>2. CASE GoesToMedia(r, st, d, t, m)
  <2>1. GoesToMedia(q, st, d, t, m)
    BY <1>2, TextSteps DEF GoesToMedia, SetsText
  <2> QED
    BY <2>1 DEF Continues
<1>3. CASE Attaches(r, st, d, t, m)
  <2>1. Attaches(q, st, d, t, m)
    BY <1>3, MediaSteps DEF Attaches, Whole
  <2> QED
    BY <2>1 DEF Continues
<1>4. CASE GoesOn(r, st, d, t, m)
  <2>1. q.steps = Tail(r.steps) /\ q.fields = r.fields /\ q.seen = d
    OBVIOUS
  <2>2. r.steps \in {Place3, Name3, Hide7}
    BY <1>4, GoSteps DEF GoesOn
  <2>3. r.fields \in {{"geo"}, {"anonymous"}} /\ Whole(d, t, m)
    BY <1>4, <2>2, GoSteps DEF GoesOn
  <2>4. q.steps \in {Place2, Name2, Hide6}
    BY <2>1, <2>2, GoSteps
  <2>5. GoesOn(q, st, d, t, m)
    BY <2>1, <2>3, <2>4 DEF GoesOn
  <2> QED
    BY <2>5 DEF Continues
<1>5. CASE Submits(r, st, d, t, m)
  <2>1. Submits(q, st, d, t, m)
    BY <1>5, SendSteps DEF Submits
  <2> QED
    BY <2>1 DEF Continues
<1>6. CASE Leaves(r, st, d, t, m)
  BY <1>6, LeaveSteps DEF Leaves
<1> QED
  BY <1>1, <1>2, <1>3, <1>4, <1>5, <1>6 DEF Continues

LEMMA AfterAppend ==
  ASSUME NEW r, NEW st, NEW d, NEW t \in Nat, NEW m \in Nat, Continues(r, st, d, t, m),
         r.steps # <<>>, Head(r.steps) = "append",
         NEW q, Continued(q, r), q.patch.media = r.seen.media \o r.patch.media
  PROVE  Continues(q, st, d, t, m)
<1> USE DEF Continued
<1>1. CASE Attaches(r, st, d, t, m)
  <2>1. /\ m > 0 /\ st = "attaching_media" /\ r.fields = {"media"}
        /\ r.steps = Media3 /\ Whole(d, t, m - 1)
        /\ r.patch.media = <<t>> /\ r.seen.media = [i \in 1..(m - 1) |-> t]
    BY <1>1, MediaSteps DEF Attaches
  <2>2. q.patch.media = [i \in 1..m |-> t]
    BY <2>1, OneMore
  <2>3. q.steps = Media2
    BY <2>1, MediaSteps
  <2>4. Attaches(q, st, d, t, m)
    BY <2>1, <2>2, <2>3 DEF Attaches
  <2> QED
    BY <2>4 DEF Continues
<1>2. CASE GoesToText(r, st, d, t, m) \/ GoesToMedia(r, st, d, t, m)
  BY <1>2, LinkSteps, TextSteps DEF GoesToText, GoesToMedia
<1>3. CASE GoesOn(r, st, d, t, m) \/ Submits(r, st, d, t, m) \/ Leaves(r, st, d, t, m)
  BY <1>3, GoSteps, SendSteps, LeaveSteps DEF GoesOn, Submits, Leaves
<1> QED
  BY <1>1, <1>2, <1>3 DEF Continues


LEMMA AfterWrite ==
  ASSUME NEW r, NEW st, NEW d, NEW t, NEW m, Continues(r, st, d, t, m),
         r.steps # <<>>, Head(r.steps) = "write", NEW x,
         x = [f \in DOMAIN NoData |-> IF f \in r.fields THEN r.patch[f] ELSE r.seen[f]],
         NEW q, Continued(q, r), q.patch = r.patch, q.seen = r.seen
  PROVE  Continues(q, st, x, t, m)
<1> DEFINE p == r.patch
           b == r.seen
           F == r.fields
<1>0. /\ x.city = IF "city" \in F THEN p.city ELSE b.city
      /\ x.cityTurn = IF "cityTurn" \in F THEN p.cityTurn ELSE b.cityTurn
      /\ x.story = IF "story" \in F THEN p.story ELSE b.story
      /\ x.textTurn = IF "textTurn" \in F THEN p.textTurn ELSE b.textTurn
      /\ x.media = IF "media" \in F THEN p.media ELSE b.media
  BY DataFields DEF FieldNames
<1>1. CASE GoesToText(r, st, d, t, m)
  <2>1. r.steps = City2 /\ F = {"city", "cityTurn", "media"} /\ CityOnly(p, t, m)
    BY <1>1, LinkSteps DEF GoesToText, SetsCity
  <2>2. CityOnly(x, t, m)
    BY <1>0, <2>1 DEF CityOnly, HasCity
  <2>3. q.steps = City1
    BY <2>1, LinkSteps DEF Continued
  <2> QED
    BY <2>2, <2>3 DEF GoesToText, Continues
<1>2. CASE GoesToMedia(r, st, d, t, m)
  <2>1. /\ r.steps = Text2 /\ F = {"story", "textTurn"}
        /\ p.story # NoStory /\ p.textTurn = t /\ CityOnly(b, t, m)
    BY <1>2, TextSteps DEF GoesToMedia, SetsText
  <2>2. /\ x.city = b.city /\ x.cityTurn = b.cityTurn /\ x.story = p.story
        /\ x.textTurn = p.textTurn /\ x.media = b.media
    BY <1>0, <2>1
  <2>3. m = 0 /\ b.media = [i \in 1..0 |-> t] /\ b.city # NoCity /\ b.cityTurn = t
    BY <2>1, NothingAttached DEF CityOnly, HasCity
  <2>4. x.media = [i \in 1..m |-> t]
    BY <2>2, <2>3
  <2>5. Whole(x, t, m)
    BY <2>1, <2>2, <2>3, <2>4 DEF Whole, HasCity
  <2>6. q.steps = Text1
    BY <2>1, TextSteps DEF Continued
  <2> QED
    BY <2>5, <2>6 DEF GoesToMedia, Continues
<1>3. CASE Attaches(r, st, d, t, m)
  <2>1. /\ r.steps = Media1 /\ F = {"media"} /\ st = "attaching_media"
        /\ Whole(b, t, m - 1) /\ p.media = [i \in 1..m |-> t]
    BY <1>3, MediaSteps DEF Attaches
  <2>2. Whole(x, t, m)
    BY <1>0, <2>1 DEF Whole, HasCity
  <2>3. q.steps = <<>>
    BY <2>1, MediaSteps DEF Continued
  <2> QED
    BY <2>1, <2>2, <2>3 DEF Leaves, Fits, Continues
<1>4. CASE GoesOn(r, st, d, t, m)
  <2>1. /\ r.steps \in {Place2, Name2, Hide6} /\ F \in {{"geo"}, {"anonymous"}}
        /\ Whole(b, t, m)
    BY <1>4, GoSteps DEF GoesOn
  <2>2. Whole(x, t, m)
    BY <1>0, <2>1 DEF Whole, HasCity
  <2>3. q.steps \in {Place1, Name1, Send5}
    BY <2>1, GoSteps DEF Continued
  <2> QED
    BY <2>2, <2>3 DEF GoesOn, Submits, Continues
<1>5. CASE Submits(r, st, d, t, m)
  BY <1>5, SendSteps DEF Submits
<1>6. CASE Leaves(r, st, d, t, m)
  BY <1>6, LeaveSteps DEF Leaves
<1> QED
  BY <1>1, <1>2, <1>3, <1>4, <1>5, <1>6 DEF Continues

LEMMA AfterClearData ==
  ASSUME NEW r, NEW st, NEW d, NEW t, NEW m, Continues(r, st, d, t, m),
         r.steps # <<>>, Head(r.steps) = "clearData",
         NEW q, Continued(q, r), q.patch = r.patch, q.seen = r.seen
  PROVE  Continues(q, st, NoData, t, m)
<1> USE DEF Continued
<1>1. CASE GoesToText(r, st, d, t, m)
  <2>1. r.steps = Link4 /\ SetsCity(r, t, m)
    BY <1>1, LinkSteps DEF GoesToText
  <2>2. q.steps = City3 /\ SetsCity(q, t, m)
    BY <2>1, LinkSteps DEF SetsCity
  <2> QED
    BY <2>2 DEF GoesToText, Continues
<1>2. CASE GoesToMedia(r, st, d, t, m) \/ Attaches(r, st, d, t, m)
  BY <1>2, TextSteps, MediaSteps DEF GoesToMedia, Attaches
<1>3. CASE GoesOn(r, st, d, t, m)
  BY <1>3, GoSteps DEF GoesOn
<1>4. CASE Submits(r, st, d, t, m)
  <2>1. r.steps = Send3 /\ st = "none" /\ Whole(r.seen, t, m)
    BY <1>4, SendSteps DEF Submits
  <2>2. q.steps = Send2
    BY <2>1, SendSteps
  <2> QED
    BY <2>1, <2>2 DEF Submits, Continues
<1>5. CASE Leaves(r, st, d, t, m)
  <2>1. r.steps = Quit1 /\ st = "none"
    BY <1>5, LeaveSteps DEF Leaves
  <2>2. q.steps = <<>>
    BY <2>1, LeaveSteps
  <2> QED
    BY <2>1, <2>2 DEF Leaves, Fits, Continues
<1> QED
  BY <1>1, <1>2, <1>3, <1>4, <1>5 DEF Continues

LEMMA AfterCreate ==
  ASSUME NEW r, NEW st, NEW d, NEW t, NEW m, Continues(r, st, d, t, m),
         r.steps # <<>>, Head(r.steps) = "create", NEW q, Continued(q, r)
  PROVE  Whole(r.seen, t, m) /\ Continues(q, st, d, t, m)
<1>1. r.steps = Send2 /\ st = "none" /\ Whole(r.seen, t, m)
  <2>1. CASE GoesToText(r, st, d, t, m) \/ GoesToMedia(r, st, d, t, m)
    BY <2>1, LinkSteps, TextSteps DEF GoesToText, GoesToMedia
  <2>2. CASE Attaches(r, st, d, t, m) \/ GoesOn(r, st, d, t, m)
    BY <2>2, MediaSteps, GoSteps DEF Attaches, GoesOn
  <2>3. CASE Submits(r, st, d, t, m)
    BY <2>3, SendSteps DEF Submits
  <2>4. CASE Leaves(r, st, d, t, m)
    BY <2>4, LeaveSteps DEF Leaves
  <2> QED
    BY <2>1, <2>2, <2>3, <2>4 DEF Continues
<1>2. q.steps = Send1
  BY <1>1, SendSteps DEF Continued
<1> QED
  BY <1>1, <1>2 DEF Leaves, Continues

LEMMA AfterEnqueue ==
  ASSUME NEW r, NEW st, NEW d, NEW t, NEW m, Continues(r, st, d, t, m),
         r.steps # <<>>, Head(r.steps) = "enqueue", NEW q, Continued(q, r)
  PROVE  Continues(q, st, d, t, m)
<1>1. r.steps = Send1 /\ st = "none"
  <2>1. CASE GoesToText(r, st, d, t, m) \/ GoesToMedia(r, st, d, t, m)
    BY <2>1, LinkSteps, TextSteps DEF GoesToText, GoesToMedia
  <2>2. CASE Attaches(r, st, d, t, m) \/ GoesOn(r, st, d, t, m)
    BY <2>2, MediaSteps, GoSteps DEF Attaches, GoesOn
  <2>3. CASE Submits(r, st, d, t, m)
    BY <2>3, SendSteps DEF Submits
  <2>4. CASE Leaves(r, st, d, t, m)
    BY <2>4, LeaveSteps DEF Leaves
  <2> QED
    BY <2>1, <2>2, <2>3, <2>4 DEF Continues
<1>2. q.steps = <<>>
  BY <1>1, LeaveSteps DEF Continued
<1> QED
  BY <1>1, <1>2 DEF Leaves, Fits, Continues


\* Handler h is busy with an update of reader u.  Nothing in the bot keeps two updates of
\* one reader apart; where they are, what their dialogue holds fits what they said.
Busy(h, u) == handler[h].steps # <<>> /\ handler[h].reader = u
OneAtATime == \A g, h \in Handlers : \A u \in Readers : Busy(g, u) /\ Busy(h, u) => g = h

Follows(u) ==
    /\ (\A h \in Handlers : ~Busy(h, u)) => Fits(state[u], data[u], said[u].turn, said[u].media)
    /\ \A h \in Handlers :
          Busy(h, u) => Continues(handler[h], state[u], data[u], said[u].turn, said[u].media)
DialogueInv == \A u \in Readers : ~said[u].lost => Follows(u)

LEMMA DialogueStarts ==
  ASSUME Init
  PROVE  DialogueInv /\ LetterIsComplete
<1>1. /\ \A u \in Readers : state[u] = "none"
      /\ \A h \in Handlers : handler[h].steps = <<>>
      /\ \A k \in Letters : work[k].pc = "none"
  BY FreeHandler DEF Init, SubmissionsInit, NoWork
<1>2. \A u \in Readers : Follows(u)
  BY <1>1 DEF Follows, Fits, Busy
<1> QED
  BY <1>1, <1>2 DEF DialogueInv, LetterIsComplete

LEMMA ScriptDone ==
  ASSUME NEW r, NEW st, NEW d, NEW t, NEW m, Continues(r, st, d, t, m), r.steps = <<>>
  PROVE  Fits(st, d, t, m)
<1>1. CASE GoesToText(r, st, d, t, m) \/ GoesToMedia(r, st, d, t, m)
  BY <1>1, LinkSteps, TextSteps DEF GoesToText, GoesToMedia
<1>2. CASE Attaches(r, st, d, t, m) \/ GoesOn(r, st, d, t, m)
  BY <1>2, MediaSteps, GoSteps DEF Attaches, GoesOn
<1>3. CASE Submits(r, st, d, t, m)
  BY <1>3, SendSteps DEF Submits
<1>4. CASE Leaves(r, st, d, t, m)
  BY <1>4, LeaveSteps DEF Leaves
<1> QED
  BY <1>1, <1>2, <1>3, <1>4 DEF Continues

\* One handler takes a step.
LEMMA DialogueMoves ==
  ASSUME LettersInv, OneAtATime, DialogueInv, NEW h \in Handlers, handler[h].steps # <<>>,
         NEW q, handler' = [handler EXCEPT ![h] = q], NEW u \in Readers,
         handler[h].reader = u, q.reader = u, said' = said,
         \A v \in Readers : v # u => state'[v] = state[v] /\ data'[v] = data[v],
         ~said[u].lost => Continues(q, state'[u], data'[u], said[u].turn, said[u].media)
  PROVE  DialogueInv'
<1>1. \A g \in Handlers : handler'[g] = IF g = h THEN q ELSE handler[g]
  BY DEF LettersInv
<1>2. ASSUME ~said[u].lost PROVE Follows(u)'
  <2>1. Continues(q, state'[u], data'[u], said[u].turn, said[u].media)
    BY <1>2
  <2>2. \A g \in Handlers : Busy(g, u)' => g = h
    BY <1>1 DEF OneAtATime, Busy
  <2>3. ASSUME \A g \in Handlers : ~Busy(g, u)'
        PROVE  Fits(state'[u], data'[u], said[u].turn, said[u].media)
    <3>1. q.steps = <<>>
      BY <1>1, <2>3 DEF Busy
    <3> QED
      BY <2>1, <3>1, ScriptDone
  <2> QED
    BY <1>1, <2>1, <2>2, <2>3 DEF Follows
<1>3. ASSUME NEW v \in Readers, v # u, ~said[v].lost PROVE Follows(v)'
  <2>1. Follows(v)
    BY <1>3 DEF DialogueInv
  <2>2. \A g \in Handlers : Busy(g, v)' <=> Busy(g, v)
    BY <1>1, <1>3 DEF Busy
  <2>3. \A g \in Handlers : Busy(g, v) => handler'[g] = handler[g]
    BY <1>1, <1>3 DEF Busy
  <2>4. state'[v] = state[v] /\ data'[v] = data[v] /\ said'[v] = said[v]
    BY <1>3
  <2> QED
    BY <2>1, <2>2, <2>3, <2>4 DEF Follows
<1> QED
  BY <1>2, <1>3 DEF DialogueInv

\* An update begins.
LEMMA DialogueBegins ==
  ASSUME LettersInv, OneAtATime', DialogueInv, NEW u \in Readers, NEW h \in Handlers,
         handler[h].steps = <<>>, NEW q, handler' = [handler EXCEPT ![h] = q],
         q.reader = u, q.steps # <<>>, state' = state, data' = data,
         \A v \in Readers : v # u => said'[v] = said[v],
         (~said'[u].lost /\ (~said[u].lost => Fits(state[u], data[u], said[u].turn, said[u].media)))
            => Continues(q, state[u], data[u], said'[u].turn, said'[u].media)
  PROVE  DialogueInv'
<1>1. \A g \in Handlers : handler'[g] = IF g = h THEN q ELSE handler[g]
  BY DEF LettersInv
<1>2. \A g \in Handlers : ~Busy(g, u)
  <2>1. Busy(h, u)' /\ ~Busy(h, u)
    BY <1>1 DEF Busy
  <2>2. \A g \in Handlers : g # h /\ Busy(g, u) => Busy(g, u)'
    BY <1>1 DEF Busy
  <2> QED
    BY <2>1, <2>2 DEF OneAtATime
<1>3. ASSUME ~said'[u].lost PROVE Follows(u)'
  <2>1. ~said[u].lost => Fits(state[u], data[u], said[u].turn, said[u].media)
    BY <1>2 DEF DialogueInv, Follows
  <2>2. Continues(q, state[u], data[u], said'[u].turn, said'[u].media)
    BY <1>3, <2>1
  <2>3. /\ Busy(h, u)' /\ handler'[h] = q
        /\ \A g \in Handlers : Busy(g, u)' => g = h
    BY <1>1, <1>2 DEF Busy
  <2> QED
    BY <2>2, <2>3 DEF Follows
<1>4. ASSUME NEW v \in Readers, v # u, ~said'[v].lost PROVE Follows(v)'
  <2>1. Follows(v)
    BY <1>4 DEF DialogueInv
  <2>2. \A g \in Handlers : Busy(g, v)' <=> Busy(g, v)
    BY <1>1, <1>4 DEF Busy
  <2>3. \A g \in Handlers : Busy(g, v) => handler'[g] = handler[g]
    BY <1>1, <1>4 DEF Busy
  <2>4. state'[v] = state[v] /\ data'[v] = data[v] /\ said'[v] = said[v]
    BY <1>4
  <2> QED
    BY <2>1, <2>2, <2>3, <2>4 DEF Follows
<1> QED
  BY <1>3, <1>4 DEF DialogueInv


\* The rest of a handler's record, as the steps leave it.
LEMMA RestFields ==
  ASSUME NEW r \in HandlerRecord, NEW q, q = [r EXCEPT !.steps = Tail(@)]
  PROVE  /\ Continued(q, r) /\ q.patch = r.patch /\ q.seen = r.seen /\ q.reader = r.reader
         /\ \A d : /\ Continued([q EXCEPT !.seen = d], r)
                   /\ [q EXCEPT !.seen = d].patch = r.patch
                   /\ [q EXCEPT !.seen = d].seen = d
                   /\ [q EXCEPT !.seen = d].reader = r.reader
  BY DEF HandlerRecord, Continued

LEMMA AppendedFields ==
  ASSUME NEW r \in HandlerRecord, NEW q,
         q = [[r EXCEPT !.steps = Tail(@)] EXCEPT !.patch.media = r.seen.media \o @]
  PROVE  /\ Continued(q, r) /\ q.reader = r.reader
         /\ q.patch.media = r.seen.media \o r.patch.media
<1> DEFINE l == r.seen.media \o r.patch.media
<1>1. q = [[r EXCEPT !.steps = Tail(@)] EXCEPT !.patch.media = l]
  BY DEF HandlerRecord
<1> HIDE DEF l
<1>2. q = [[r EXCEPT !.steps = Tail(@)] EXCEPT !.patch = [r.patch EXCEPT !.media = l]]
  BY <1>1 DEF HandlerRecord
<1>3. [r.patch EXCEPT !.media = l].media = l
  BY DEF HandlerRecord, LetterData
<1> DEFINE p == [r.patch EXCEPT !.media = l]
<1> HIDE DEF p
<1>4. q.steps = Tail(r.steps) /\ q.fields = r.fields /\ q.reader = r.reader /\ q.patch = p
  BY <1>2 DEF HandlerRecord, p
<1>5. Continued(q, r) /\ q.reader = r.reader /\ q.patch.media = l
  BY <1>3, <1>4 DEF Continued, p
<1> QED
  BY <1>5 DEF l

LEMMA DialogueHandled ==
  ASSUME LettersInv, OneAtATime, DialogueInv, NEW h \in Handlers, HandlerStep(h)
  PROVE  DialogueInv'
<1> DEFINE r == handler[h]
           u == r.reader
           t == said[u].turn
           m == said[u].media
<1>1. /\ r \in HandlerRecord /\ r.steps # <<>> /\ u \in Readers
      /\ state \in [Readers -> DialogueStates] /\ data \in [Readers -> LetterData]
      /\ t \in Nat /\ m \in Nat /\ said' = said
  BY DEF LettersInv, HandlerStep, SetState, GetData, AppendMedia, SetData,
         CreateSubmission, EnqueueSubmission, Takes, SaidRecord
<1>2. ~said[u].lost => Continues(r, state[u], data[u], t, m)
  BY <1>1 DEF DialogueInv, Follows, Busy
<1>3. /\ Continued(Rest(h), r) /\ Rest(h).patch = r.patch /\ Rest(h).seen = r.seen
      /\ Rest(h).reader = u
      /\ \A d : /\ Continued([Rest(h) EXCEPT !.seen = d], r)
                /\ [Rest(h) EXCEPT !.seen = d].patch = r.patch
                /\ [Rest(h) EXCEPT !.seen = d].seen = d
                /\ [Rest(h) EXCEPT !.seen = d].reader = u
  BY <1>1, RestFields DEF Rest
<1>4. ASSUME NEW q, Moves(h, q), q.reader = u,
             \A v \in Readers : v # u => state'[v] = state[v] /\ data'[v] = data[v],
             ~said[u].lost => Continues(q, state'[u], data'[u], t, m)
      PROVE  DialogueInv'
  BY <1>1, <1>4, DialogueMoves DEF Moves
<1> DEFINE rest == Rest(h)
<1>5. CASE SetState(h)
  <2> PICK s \in {"choosing_city", "entering_text", "attaching_media", "attaching_location",
                  "choosing_anonymity", "entering_author", "clearState"} :
         /\ Takes(h, s)
         /\ state' = [state EXCEPT ![u] = IF s = "clearState" THEN "none" ELSE s]
    BY <1>5 DEF SetState
  <2> DEFINE new == IF s = "clearState" THEN "none" ELSE s
  <2>1. Moves(h, rest) /\ data' = data
    BY <1>5 DEF SetState
  <2>2. state'[u] = new /\ \A v \in Readers : v # u => state'[v] = state[v]
    BY <1>1
  <2>3. Head(r.steps) = s
    BY DEF Takes
  <2>4. ~said[u].lost => Continues(rest, new, data[u], t, m)
    <3> HIDE DEF rest, t, m, r
    <3>1. new = IF s = "clearState" THEN "none" ELSE s
      OBVIOUS
    <3> HIDE DEF new
    <3> QED
      BY <1>1, <1>2, <1>3, <2>3, <3>1, AfterSetState DEF rest
  <2> HIDE DEF rest, t, m, new
  <2> QED
    BY <1>3, <1>4, <2>1, <2>2, <2>4 DEF rest
<1>6. CASE GetData(h)
  <2> DEFINE d == data[u]
             q == [rest EXCEPT !.seen = d]
  <2>1. Moves(h, q) /\ data' = data /\ state' = state
    BY <1>6 DEF GetData
  <2>2. Continued(q, r) /\ q.patch = r.patch /\ q.seen = d /\ q.reader = u
    BY <1>3
  <2>3. Head(r.steps) \in {"get", "read"}
    BY <1>6 DEF GetData, Takes
  <2> HIDE DEF q, r
  <2>4. ~said[u].lost => Continues(q, state[u], d, t, m)
    BY <1>1, <1>2, <2>2, <2>3, AfterGetData
  <2> QED
    BY <1>4, <2>1, <2>2, <2>4
<1>7. CASE AppendMedia(h)
  <2> DEFINE q == [rest EXCEPT !.patch.media = r.seen.media \o @]
  <2>1. Moves(h, q) /\ data' = data /\ state' = state /\ Head(r.steps) = "append"
    BY <1>7 DEF AppendMedia, Takes
  <2>2. Continued(q, r) /\ q.reader = u /\ q.patch.media = r.seen.media \o r.patch.media
    BY <1>1, AppendedFields DEF Rest
  <2> HIDE DEF q, r
  <2>3. ~said[u].lost => Continues(q, state[u], data[u], t, m)
    BY <1>1, <1>2, <2>1, <2>2, AfterAppend
  <2> QED
    BY <1>4, <2>1, <2>2, <2>3
<1>8. CASE SetData(h)
  <2> DEFINE x == [f \in DOMAIN NoData |-> IF f \in r.fields THEN r.patch[f] ELSE r.seen[f]]
  <2>1. /\ Moves(h, rest) /\ state' = state
        /\ \/ Head(r.steps) = "write" /\ data' = [data EXCEPT ![u] = x]
           \/ Head(r.steps) = "clearData" /\ data' = [data EXCEPT ![u] = NoData]
    BY <1>8 DEF SetData, Takes
  <2>2. \A v \in Readers : v # u => data'[v] = data[v]
    BY <1>1, <2>1
  <2>3. x = [f \in DOMAIN NoData |-> IF f \in r.fields THEN r.patch[f] ELSE r.seen[f]]
    OBVIOUS
  <2> HIDE DEF rest, r, x
  <2>4. ASSUME Head(r.steps) = "write", ~said[u].lost
        PROVE  Continues(rest, state[u], x, t, m)
    BY <1>1, <1>2, <1>3, <2>3, <2>4, AfterWrite DEF rest
  <2>5. ASSUME Head(r.steps) = "clearData", ~said[u].lost
        PROVE  Continues(rest, state[u], NoData, t, m)
    BY <1>1, <1>2, <1>3, <2>5, AfterClearData DEF rest
  <2>6. ~said[u].lost => Continues(rest, state'[u], data'[u], t, m)
    BY <1>1, <2>1, <2>4, <2>5
  <2> QED
    BY <1>3, <1>4, <2>1, <2>2, <2>6 DEF rest
<1>9. CASE CreateSubmission(h) \/ EnqueueSubmission(h)
  <2>1. /\ Moves(h, rest) /\ state' = state /\ data' = data
        /\ Head(r.steps) \in {"create", "enqueue"}
    BY <1>9 DEF CreateSubmission, EnqueueSubmission, Takes
  <2> HIDE DEF rest, r
  <2>2. ~said[u].lost => Continues(rest, state[u], data[u], t, m)
    BY <1>1, <1>2, <1>3, <2>1, AfterCreate, AfterEnqueue DEF rest
  <2> QED
    BY <1>3, <1>4, <2>1, <2>2 DEF rest
<1> QED
  BY <1>5, <1>6, <1>7, <1>8, <1>9 DEF HandlerStep

\* The bot restarts: a reader none of whose updates was lost had none in progress.
LEMMA DialogueRestart ==
  ASSUME LettersInv, DialogueInv, BotRestarts
  PROVE  DialogueInv'
<1>1. /\ handler' = [h \in Handlers |-> Free] /\ state' = state /\ data' = data
      /\ said' = [u \in Readers |-> [said[u] EXCEPT !.lost = @ \/ \E h \in Handlers :
                                       handler[h].reader = u /\ handler[h].steps # <<>>]]
  BY DEF BotRestarts
<1> SUFFICES ASSUME NEW u \in Readers, ~said'[u].lost PROVE Follows(u)'
  BY DEF DialogueInv
<1> DEFINE busy == \E h \in Handlers : handler[h].reader = u /\ handler[h].steps # <<>>
           gone == said[u].lost \/ busy
<1>2. said[u] \in SaidRecord /\ gone \in BOOLEAN
  BY DEF LettersInv, SaidRecord
<1>3. said'[u] = [said[u] EXCEPT !.lost = gone]
  BY <1>1
<1>4. ~said[u].lost /\ \A h \in Handlers : ~Busy(h, u)
  <2>1. ~gone
    <3> HIDE DEF gone
    <3> QED
      BY <1>2, <1>3 DEF SaidRecord
  <2> QED
    BY <2>1 DEF Busy
<1> HIDE DEF gone
<1>5. said'[u].turn = said[u].turn /\ said'[u].media = said[u].media
  BY <1>2, <1>3 DEF SaidRecord
<1>6. \A h \in Handlers : ~Busy(h, u)'
  BY <1>1, FreeHandler DEF Busy
<1>7. Fits(state[u], data[u], said[u].turn, said[u].media)
  BY <1>4 DEF DialogueInv, Follows
<1> QED
  BY <1>1, <1>5, <1>6, <1>7 DEF Follows


\* The scripts of the updates by their names.
LEMMA ScriptNames ==
  /\ <<"choosing_city">> = Ask1 /\ <<"clearState", "clearData">> = Quit2
  /\ Update \o <<"entering_text">> = City3
  /\ <<"clearState", "clearData">> \o Update \o <<"entering_text">> = Link5
  /\ Update \o <<"attaching_media">> = Text3
  /\ <<"get", "append">> \o Update = Media4
  /\ <<"attaching_location">> = Done1 /\ <<"choosing_anonymity">> = Place1
  /\ Update \o <<"choosing_anonymity">> = Place3
  /\ Update \o Create = Hide7 /\ Update \o <<"entering_author">> = Name3 /\ Create = Send5
<1>1. \A x \in {"entering_text", "attaching_media", "choosing_anonymity", "entering_author"} :
         Update \o <<x>> = <<"read", "write", x>>
  BY Scripts DEF StepNames
<1>2. /\ Update \o <<"entering_text">> = City3 /\ Update \o <<"attaching_media">> = Text3
      /\ Update \o <<"choosing_anonymity">> = Place3
      /\ Update \o <<"entering_author">> = Name3
  BY <1>1 DEF City3, Text3, Place3, Name3
<1>3. /\ Update \o Create = Hide7 /\ <<"get", "append">> \o Update = Media4
      /\ <<"clearState", "clearData">> \o Update \o <<"entering_text">> = Link5
  BY Scripts DEF Hide7, Media4, Link5
<1>4. Create = Send5
  BY DEF Create, Send5
<1>5. /\ <<"choosing_city">> = Ask1 /\ <<"clearState", "clearData">> = Quit2
      /\ <<"attaching_location">> = Done1 /\ <<"choosing_anonymity">> = Place1
  BY DEF Ask1, Quit2, Done1, Place1
<1> QED
  BY <1>2, <1>3, <1>4, <1>5

LEMMA DialogueSpeaks ==
  ASSUME LettersInv, OneAtATime', DialogueInv, NEW u \in Readers, NEW h \in Handlers,
         Speaks(u, h)
  PROVE  DialogueInv'
<1> DEFINE t == said[u].turn
           m == said[u].media
           fits == ~said[u].lost => Fits(state[u], data[u], t, m)
<1>1. /\ said \in [Readers -> SaidRecord] /\ said[u] \in SaidRecord
      /\ t \in Nat /\ m \in Nat
  BY DEF LettersInv, SaidRecord
<1>2. ASSUME NEW event, NEW needed, NEW steps, NEW fields, NEW patch, steps # <<>>,
             Begins(u, h, event, needed, steps, fields, patch),
             NEW q, q = [reader |-> u, steps |-> steps, patch |-> patch,
                         seen |-> NoData, fields |-> fields],
             \A v \in Readers : v # u => said'[v] = said[v],
             (~said'[u].lost /\ fits)
                => Continues(q, state[u], data[u], said'[u].turn, said'[u].media)
      PROVE  DialogueInv'
  <2>1. /\ handler[h].steps = <<>> /\ handler' = [handler EXCEPT ![h] = q]
        /\ q.reader = u /\ q.steps = steps /\ state' = state /\ data' = data
    BY <1>2 DEF Begins
  <2> QED
    BY <1>2, <2>1, DialogueBegins
<1>3. ASSUME NewTurn(u)
      PROVE  /\ \A v \in Readers : v # u => said'[v] = said[v]
             /\ said'[u].turn = t + 1 /\ said'[u].media = 0
  BY <1>1, <1>3 DEF NewTurn
<1>4. ASSUME Suggest(u, h) PROVE DialogueInv'
  <2> DEFINE fields == {}
             patch == NoData
             q == [reader |-> u, steps |-> Ask1, patch |-> patch, seen |-> NoData,
                   fields |-> fields]
  <2>1. Begins(u, h, "suggest", "any", Ask1, fields, patch)
    BY <1>4, ScriptNames DEF Suggest
  <2>2. said' = said
    BY <1>4 DEF Suggest
  <2>3. q.steps = Ask1 /\ q.fields = fields /\ q.patch = patch
    OBVIOUS
  <2> HIDE DEF q, patch
  <2>4. Continues(q, state[u], data[u], t, m)
    <3>1. Leaves(q, state[u], data[u], t, m)
      BY <2>3 DEF Leaves
    <3> QED
      BY <3>1 DEF Continues
  <2>5. (~said'[u].lost /\ fits)
           => Continues(q, state[u], data[u], said'[u].turn, said'[u].media)
    BY <2>2, <2>4
  <2>6. Ask1 # <<>>
    BY LeaveSteps
  <2> QED
    BY <1>2, <2>1, <2>2, <2>5, <2>6 DEF q
<1>5. ASSUME Cancel(u, h) PROVE DialogueInv'
  <2> DEFINE fields == {}
             patch == NoData
             q == [reader |-> u, steps |-> Quit2, patch |-> patch, seen |-> NoData,
                   fields |-> fields]
  <2>1. Begins(u, h, "cancel", "any", Quit2, fields, patch)
    BY <1>5, ScriptNames DEF Cancel
  <2>2. said' = said
    BY <1>5 DEF Cancel
  <2>3. q.steps = Quit2 /\ q.fields = fields /\ q.patch = patch
    OBVIOUS
  <2> HIDE DEF q, patch
  <2>4. Continues(q, state[u], data[u], t, m)
    <3>1. Leaves(q, state[u], data[u], t, m)
      BY <2>3 DEF Leaves
    <3> QED
      BY <3>1 DEF Continues
  <2>5. (~said'[u].lost /\ fits)
           => Continues(q, state[u], data[u], said'[u].turn, said'[u].media)
    BY <2>2, <2>4
  <2>6. Quit2 # <<>>
    BY LeaveSteps
  <2> QED
    BY <1>2, <2>1, <2>2, <2>5, <2>6 DEF q
<1>6. ASSUME NEW c \in Offered, ChooseCity(u, h, c) PROVE DialogueInv'
  <2> DEFINE fields == {"city", "cityTurn", "media"}
             patch == [NoData EXCEPT !.city = c, !.cityTurn = t + 1]
             q == [reader |-> u, steps |-> City3, patch |-> patch, seen |-> NoData,
                   fields |-> fields]
  <2>1. Begins(u, h, "city", "choosing_city", City3, fields, patch)
    BY <1>6, ScriptNames DEF ChooseCity
  <2>2. /\ \A v \in Readers : v # u => said'[v] = said[v]
        /\ said'[u].turn = t + 1 /\ said'[u].media = 0
    BY <1>3, <1>6 DEF ChooseCity
  <2>3. q.steps = City3 /\ q.fields = fields /\ q.patch = patch
    OBVIOUS
  <2>4. patch.city = c /\ patch.cityTurn = t + 1 /\ patch.media = <<>>
    BY DEF NoData
  <2>5. c # NoCity
    BY SubmissionsAssumption
  <2> HIDE DEF q, patch
  <2>6. Continues(q, state[u], data[u], t + 1, 0)
    <3>1. GoesToText(q, state[u], data[u], t + 1, 0)
      BY <2>3, <2>4, <2>5 DEF GoesToText, SetsCity, CityOnly, HasCity
    <3> QED
      BY <3>1 DEF Continues
  <2>7. (~said'[u].lost /\ fits)
           => Continues(q, state[u], data[u], said'[u].turn, said'[u].media)
    BY <2>2, <2>6
  <2>8. City3 # <<>>
    BY LinkSteps
  <2> QED
    BY <1>2, <2>1, <2>2, <2>7, <2>8 DEF q
<1>7. ASSUME NEW c \in Offered, DeepLink(u, h, c) PROVE DialogueInv'
  <2> DEFINE fields == {"city", "cityTurn", "media"}
             patch == [NoData EXCEPT !.city = c, !.cityTurn = t + 1]
             q == [reader |-> u, steps |-> Link5, patch |-> patch, seen |-> NoData,
                   fields |-> fields]
  <2>1. Begins(u, h, "link", "any", Link5, fields, patch)
    BY <1>7, ScriptNames DEF DeepLink
  <2>2. /\ \A v \in Readers : v # u => said'[v] = said[v]
        /\ said'[u].turn = t + 1 /\ said'[u].media = 0
    BY <1>3, <1>7 DEF DeepLink
  <2>3. q.steps = Link5 /\ q.fields = fields /\ q.patch = patch
    OBVIOUS
  <2>4. patch.city = c /\ patch.cityTurn = t + 1 /\ patch.media = <<>>
    BY DEF NoData
  <2>5. c # NoCity
    BY SubmissionsAssumption
  <2> HIDE DEF q, patch
  <2>6. Continues(q, state[u], data[u], t + 1, 0)
    <3>1. GoesToText(q, state[u], data[u], t + 1, 0)
      BY <2>3, <2>4, <2>5 DEF GoesToText, SetsCity, CityOnly, HasCity
    <3> QED
      BY <3>1 DEF Continues
  <2>7. (~said'[u].lost /\ fits)
           => Continues(q, state[u], data[u], said'[u].turn, said'[u].media)
    BY <2>2, <2>6
  <2>8. Link5 # <<>>
    BY LinkSteps
  <2> QED
    BY <1>2, <2>1, <2>2, <2>7, <2>8 DEF q
<1>8. ASSUME NEW s \in Topics, EnterText(u, h, s) PROVE DialogueInv'
  <2> DEFINE fields == {"story", "textTurn"}
             patch == [NoData EXCEPT !.story = s, !.textTurn = t]
             q == [reader |-> u, steps |-> Text3, patch |-> patch, seen |-> NoData,
                   fields |-> fields]
  <2>1. Begins(u, h, "text", "entering_text", Text3, fields, patch)
    BY <1>8, ScriptNames DEF EnterText
  <2>2. said' = said
    BY <1>8 DEF EnterText
  <2>3. q.steps = Text3 /\ q.fields = fields /\ q.patch = patch
    OBVIOUS
  <2>4. patch.story = s /\ patch.textTurn = t /\ s # NoStory
    BY SubmissionsAssumption DEF NoData
  <2>5. state[u] = "entering_text"
    BY <2>1 DEF Begins
  <2> HIDE DEF q, patch
  <2>6. (~said[u].lost /\ fits) => Continues(q, state[u], data[u], t, m)
    <3>1. (~said[u].lost /\ fits) => GoesToMedia(q, state[u], data[u], t, m)
      BY <2>3, <2>4, <2>5 DEF GoesToMedia, SetsText, Fits
    <3> QED
      BY <3>1 DEF Continues
  <2>7. (~said'[u].lost /\ fits)
           => Continues(q, state[u], data[u], said'[u].turn, said'[u].media)
    BY <2>2, <2>6
  <2>8. Text3 # <<>>
    BY TextSteps
  <2> QED
    BY <1>2, <2>1, <2>2, <2>7, <2>8 DEF q
<1>9. ASSUME AttachMedia(u, h) PROVE DialogueInv'
  <2> DEFINE fields == {"media"}
             patch == [NoData EXCEPT !.media = <<t>>]
             q == [reader |-> u, steps |-> Media4, patch |-> patch, seen |-> NoData,
                   fields |-> fields]
  <2>1. Begins(u, h, "media", "attaching_media", Media4, fields, patch)
    BY <1>9, ScriptNames DEF AttachMedia
  <2>2. /\ \A v \in Readers : v # u => said'[v] = said[v]
        /\ said'[u].turn = t /\ said'[u].media = m + 1 /\ said'[u].lost = said[u].lost
    BY <1>1, <1>9 DEF AttachMedia, SaidRecord
  <2>3. q.steps = Media4 /\ q.fields = fields /\ q.patch = patch
    OBVIOUS
  <2>4. patch.media = <<t>> /\ m + 1 > 0 /\ (m + 1) - 1 = m
    BY <1>1 DEF NoData
  <2>5. state[u] = "attaching_media"
    BY <2>1 DEF Begins
  <2> HIDE DEF q, patch
  <2>6. (~said[u].lost /\ fits) => Continues(q, state[u], data[u], t, m + 1)
    <3>1. (~said[u].lost /\ fits) => Attaches(q, state[u], data[u], t, m + 1)
      BY <2>3, <2>4, <2>5 DEF Attaches, Fits
    <3> QED
      BY <3>1 DEF Continues
  <2>7. (~said'[u].lost /\ fits)
           => Continues(q, state[u], data[u], said'[u].turn, said'[u].media)
    BY <2>2, <2>6
  <2>8. Media4 # <<>>
    BY MediaSteps
  <2> QED
    BY <1>2, <2>1, <2>2, <2>7, <2>8 DEF q
<1>10. ASSUME MediaDone(u, h) PROVE DialogueInv'
  <2> DEFINE fields == {}
             patch == NoData
             q == [reader |-> u, steps |-> Done1, patch |-> patch, seen |-> NoData,
                   fields |-> fields]
  <2>1. Begins(u, h, "done", "attaching_media", Done1, fields, patch)
    BY <1>10, ScriptNames DEF MediaDone
  <2>2. said' = said
    BY <1>10 DEF MediaDone
  <2>3. q.steps = Done1 /\ q.fields = fields /\ q.patch = patch
    OBVIOUS
  <2>4. state[u] = "attaching_media"
    BY <2>1 DEF Begins
  <2> HIDE DEF q, patch
  <2>5. (~said[u].lost /\ fits) => Continues(q, state[u], data[u], t, m)
    <3>1. (~said[u].lost /\ fits) => GoesOn(q, state[u], data[u], t, m)
      BY <2>3, <2>4 DEF GoesOn, Fits
    <3> QED
      BY <3>1 DEF Continues
  <2>6. (~said'[u].lost /\ fits)
           => Continues(q, state[u], data[u], said'[u].turn, said'[u].media)
    BY <2>2, <2>5
  <2>7. Done1 # <<>>
    BY GoSteps
  <2> QED
    BY <1>2, <2>1, <2>2, <2>6, <2>7 DEF q
<1>11. ASSUME GotLocation(u, h) PROVE DialogueInv'
  <2> DEFINE fields == {"geo"}
             patch == [NoData EXCEPT !.geo = t]
             q == [reader |-> u, steps |-> Place3, patch |-> patch, seen |-> NoData,
                   fields |-> fields]
  <2>1. Begins(u, h, "location", "attaching_location", Place3, fields, patch)
    BY <1>11, ScriptNames DEF GotLocation
  <2>2. said' = said
    BY <1>11 DEF GotLocation
  <2>3. q.steps = Place3 /\ q.fields = fields /\ q.patch = patch
    OBVIOUS
  <2>4. state[u] = "attaching_location"
    BY <2>1 DEF Begins
  <2> HIDE DEF q, patch
  <2>5. (~said[u].lost /\ fits) => Continues(q, state[u], data[u], t, m)
    <3>1. (~said[u].lost /\ fits) => GoesOn(q, state[u], data[u], t, m)
      BY <2>3, <2>4 DEF GoesOn, Fits
    <3> QED
      BY <3>1 DEF Continues
  <2>6. (~said'[u].lost /\ fits)
           => Continues(q, state[u], data[u], said'[u].turn, said'[u].media)
    BY <2>2, <2>5
  <2>7. Place3 # <<>>
    BY GoSteps
  <2> QED
    BY <1>2, <2>1, <2>2, <2>6, <2>7 DEF q
<1>12. ASSUME SkipLocation(u, h) PROVE DialogueInv'
  <2> DEFINE fields == {}
             patch == NoData
             q == [reader |-> u, steps |-> Place1, patch |-> patch, seen |-> NoData,
                   fields |-> fields]
  <2>1. Begins(u, h, "skip", "attaching_location", Place1, fields, patch)
    BY <1>12, ScriptNames DEF SkipLocation
  <2>2. said' = said
    BY <1>12 DEF SkipLocation
  <2>3. q.steps = Place1 /\ q.fields = fields /\ q.patch = patch
    OBVIOUS
  <2>4. state[u] = "attaching_location"
    BY <2>1 DEF Begins
  <2> HIDE DEF q, patch
  <2>5. (~said[u].lost /\ fits) => Continues(q, state[u], data[u], t, m)
    <3>1. (~said[u].lost /\ fits) => GoesOn(q, state[u], data[u], t, m)
      BY <2>3, <2>4 DEF GoesOn, Fits
    <3> QED
      BY <3>1 DEF Continues
  <2>6. (~said'[u].lost /\ fits)
           => Continues(q, state[u], data[u], said'[u].turn, said'[u].media)
    BY <2>2, <2>5
  <2>7. Place1 # <<>>
    BY GoSteps
  <2> QED
    BY <1>2, <2>1, <2>2, <2>6, <2>7 DEF q
<1>13. ASSUME ChooseAnonymity(u, h, TRUE) PROVE DialogueInv'
  <2> DEFINE fields == {"anonymous"}
             patch == [NoData EXCEPT !.anonymous = TRUE]
             q == [reader |-> u, steps |-> Hide7, patch |-> patch, seen |-> NoData,
                   fields |-> fields]
  <2>1. Begins(u, h, "anonymity", "choosing_anonymity", Hide7, fields, patch)
    BY <1>13, ScriptNames DEF ChooseAnonymity
  <2>2. said' = said
    BY <1>13 DEF ChooseAnonymity
  <2>3. q.steps = Hide7 /\ q.fields = fields /\ q.patch = patch
    OBVIOUS
  <2>4. state[u] = "choosing_anonymity"
    BY <2>1 DEF Begins
  <2> HIDE DEF q, patch
  <2>5. (~said[u].lost /\ fits) => Continues(q, state[u], data[u], t, m)
    <3>1. (~said[u].lost /\ fits) => GoesOn(q, state[u], data[u], t, m)
      BY <2>3, <2>4 DEF GoesOn, Fits
    <3> QED
      BY <3>1 DEF Continues
  <2>6. (~said'[u].lost /\ fits)
           => Continues(q, state[u], data[u], said'[u].turn, said'[u].media)
    BY <2>2, <2>5
  <2>7. Hide7 # <<>>
    BY GoSteps
  <2> QED
    BY <1>2, <2>1, <2>2, <2>6, <2>7 DEF q
<1>14. ASSUME ChooseAnonymity(u, h, FALSE) PROVE DialogueInv'
  <2> DEFINE fields == {"anonymous"}
             patch == [NoData EXCEPT !.anonymous = FALSE]
             q == [reader |-> u, steps |-> Name3, patch |-> patch, seen |-> NoData,
                   fields |-> fields]
  <2>1. Begins(u, h, "anonymity", "choosing_anonymity", Name3, fields, patch)
    BY <1>14, ScriptNames DEF ChooseAnonymity
  <2>2. said' = said
    BY <1>14 DEF ChooseAnonymity
  <2>3. q.steps = Name3 /\ q.fields = fields /\ q.patch = patch
    OBVIOUS
  <2>4. state[u] = "choosing_anonymity"
    BY <2>1 DEF Begins
  <2> HIDE DEF q, patch
  <2>5. (~said[u].lost /\ fits) => Continues(q, state[u], data[u], t, m)
    <3>1. (~said[u].lost /\ fits) => GoesOn(q, state[u], data[u], t, m)
      BY <2>3, <2>4 DEF GoesOn, Fits
    <3> QED
      BY <3>1 DEF Continues
  <2>6. (~said'[u].lost /\ fits)
           => Continues(q, state[u], data[u], said'[u].turn, said'[u].media)
    BY <2>2, <2>5
  <2>7. Name3 # <<>>
    BY GoSteps
  <2> QED
    BY <1>2, <2>1, <2>2, <2>6, <2>7 DEF q
<1>15. ASSUME EnterAuthor(u, h) PROVE DialogueInv'
  <2> DEFINE fields == {}
             patch == NoData
             q == [reader |-> u, steps |-> Send5, patch |-> patch, seen |-> NoData,
                   fields |-> fields]
  <2>1. Begins(u, h, "author", "entering_author", Send5, fields, patch)
    BY <1>15, ScriptNames DEF EnterAuthor
  <2>2. said' = said
    BY <1>15 DEF EnterAuthor
  <2>3. q.steps = Send5 /\ q.fields = fields /\ q.patch = patch
    OBVIOUS
  <2>4. state[u] = "entering_author"
    BY <2>1 DEF Begins
  <2> HIDE DEF q, patch
  <2>5. (~said[u].lost /\ fits) => Continues(q, state[u], data[u], t, m)
    <3>1. (~said[u].lost /\ fits) => Submits(q, state[u], data[u], t, m)
      BY <2>3, <2>4 DEF Submits, Fits
    <3> QED
      BY <3>1 DEF Continues
  <2>6. (~said'[u].lost /\ fits)
           => Continues(q, state[u], data[u], said'[u].turn, said'[u].media)
    BY <2>2, <2>5
  <2>7. Send5 # <<>>
    BY SendSteps
  <2> QED
    BY <1>2, <2>1, <2>2, <2>6, <2>7 DEF q
<1>16. ASSUME NEW yes \in BOOLEAN, ChooseAnonymity(u, h, yes) PROVE DialogueInv'
  <2>1. yes = TRUE \/ yes = FALSE
    OBVIOUS
  <2> QED
    BY <1>13, <1>14, <1>16, <2>1
<1> QED
  BY <1>4, <1>5, <1>6, <1>7, <1>8, <1>9, <1>10, <1>11, <1>12, <1>13, <1>14, <1>15, <1>16
  DEF Speaks


LEMMA DialogueKept ==
  ASSUME IntakeInv, OneAtATime, OneAtATime', DialogueInv, [Next]_intakeVars
  PROVE  DialogueInv'
<1>0. LettersInv
  BY DEF IntakeInv
<1>1. CASE UNCHANGED <<state, data, handler, said>>
  BY <1>1 DEF DialogueInv, Follows, Busy
<1>2. ASSUME NEW h \in Handlers, HandlerStep(h) PROVE DialogueInv'
  BY <1>0, <1>2, DialogueHandled
<1>3. ASSUME NEW h \in Handlers, NEW u \in Readers, Speaks(u, h) PROVE DialogueInv'
  BY <1>0, <1>3, DialogueSpeaks
<1>4. ASSUME NEW k \in Letters,
             \/ LetterStep(k) \/ LetterFails(k) \/ LetterWorkerDies(k)
             \/ \E s \in {"approved", "rejected"} : DecideLetter(k, s)
      PROVE  UNCHANGED <<state, data, handler, said>>
  BY <1>4 DEF LetterStep, Rewrite, StoreRewritten, NotifyLetter, PushLetter, LetterFails,
         LetterWorkerDies, DecideLetter, submissionVars
<1>5. CASE BotRestarts
  BY <1>0, <1>5, DialogueRestart
<1>6. CASE IngestNext /\ UNCHANGED submissionVars
  BY <1>1, <1>6 DEF submissionVars
<1>7. CASE SubmissionsNext
  BY <1>1, <1>2, <1>3, <1>4, <1>5, <1>7 DEF SubmissionsNext
<1>8. CASE UNCHANGED intakeVars
  BY <1>1, <1>8 DEF intakeVars, submissionVars
<1> QED
  BY <1>6, <1>7, <1>8 DEF Next

\* A letter that is stored holds what Redis held of a dialogue that is whole.
LEMMA LetterStaysComplete ==
  ASSUME IntakeInv, DialogueInv, LetterIsComplete, [Next]_intakeVars
  PROVE  LetterIsComplete'
<1> DEFINE Complete(x) ==
             /\ x.form.city # NoCity /\ x.form.story # NoStory
             /\ x.form.textTurn = x.form.cityTurn
             /\ x.form.media = [i \in 1..x.said |-> x.form.cityTurn]
<1>1. /\ letters \in [Letters -> LetterRecord] /\ work \in [Letters -> WorkRecord]
      /\ said \in [Readers -> SaidRecord]
      /\ \A h \in Handlers : handler[h] \in HandlerRecord
      /\ \A h \in Handlers : handler[h].steps # <<>> => handler[h].reader \in Readers
  BY DEF IntakeInv, LettersInv
<1>2. \A k \in Letters : work[k].pc # "none" /\ letters[k].whole => Complete(letters[k])
  BY DEF LetterIsComplete
<1>3. ASSUME letters' = letters,
             \A k \in Letters : work'[k].pc # "none" => work[k].pc # "none"
      PROVE  LetterIsComplete'
  BY <1>3 DEF LetterIsComplete
<1>4. ASSUME NEW h \in Handlers, CreateSubmission(h) PROVE LetterIsComplete'
  <2> DEFINE r == handler[h]
             u == r.reader
             x == r.seen
             t == said[u].turn
             m == said[u].media
  <2> PICK k \in Letters :
        /\ letters' = [letters EXCEPT ![k] = [form |-> x, said |-> m, whole |-> ~said[u].lost]]
        /\ work' = [work EXCEPT ![k].pc = "stored"]
    BY <1>4 DEF CreateSubmission
  <2>1. u \in Readers /\ r.steps # <<>> /\ Head(r.steps) = "create" /\ r \in HandlerRecord
    BY <1>1, <1>4 DEF CreateSubmission, Takes
  <2>2. ~said[u].lost => Whole(x, t, m)
    <3>1. ~said[u].lost => Continues(r, state[u], data[u], t, m)
      BY <2>1 DEF DialogueInv, Follows, Busy
    <3> DEFINE q == [r EXCEPT !.steps = Tail(@)]
    <3>2. Continued(q, r)
      BY <2>1, RestFields
    <3> HIDE DEF q, r, t, m
    <3> QED
      BY <2>1, <3>1, <3>2, AfterCreate
  <2>3. ~said[u].lost => Complete([form |-> x, said |-> m, whole |-> ~said[u].lost])
    BY <2>2 DEF Whole, HasCity
  <2>4. ASSUME NEW j \in Letters, work'[j].pc # "none", letters'[j].whole
        PROVE  Complete(letters'[j])
    <3>1. CASE j = k
      <4>1. letters'[j] = [form |-> x, said |-> m, whole |-> ~said[u].lost]
        BY <1>1, <3>1
      <4>2. ~said[u].lost
        <5>1. letters'[j].whole = ~said[u].lost
          BY <4>1
        <5> QED
          BY <2>4, <5>1, Zenon
      <4> HIDE DEF Complete, x, m
      <4> QED
        BY <2>3, <4>1, <4>2
    <3>2. CASE j # k
      <4>1. letters'[j] = letters[j] /\ work'[j] = work[j]
        BY <1>1, <3>2
      <4> QED
        BY <1>2, <2>4, <4>1
    <3> QED
      BY <3>1, <3>2
  <2> QED
    BY <2>4 DEF LetterIsComplete
<1>5. ASSUME NEW h \in Handlers, EnqueueSubmission(h) PROVE LetterIsComplete'
  <2>1. PICK k \in Letters : /\ work[k].pc = "stored"
                             /\ \/ work' = [work EXCEPT ![k].pc = "queued"]
                                \/ work' = [work EXCEPT ![k].pc = "done"]
    BY <1>5 DEF EnqueueSubmission
  <2>2. \A j \in Letters : work'[j].pc # "none" => work[j].pc # "none"
    BY <1>1, <2>1
  <2>3. letters' = letters
    BY <1>5 DEF EnqueueSubmission
  <2> QED
    BY <1>3, <2>2, <2>3
<1>6. CASE UNCHANGED <<letters, work>>
  BY <1>3, <1>6
<1>7. ASSUME NEW h \in Handlers,
             SetState(h) \/ GetData(h) \/ AppendMedia(h) \/ SetData(h)
      PROVE  UNCHANGED <<letters, work>>
  BY <1>7 DEF SetState, GetData, AppendMedia, SetData
<1>8. ASSUME NEW h \in Handlers, NEW u \in Readers, Speaks(u, h)
      PROVE  UNCHANGED <<letters, work>>
  BY <1>8 DEF Speaks, Suggest, Cancel, AttachMedia, MediaDone, GotLocation, SkipLocation,
         EnterAuthor, ChooseCity, DeepLink, EnterText, ChooseAnonymity, Begins
<1>9. ASSUME NEW k \in Letters,
             \/ LetterStep(k) \/ LetterFails(k) \/ LetterWorkerDies(k)
             \/ \E s \in {"approved", "rejected"} : DecideLetter(k, s)
      PROVE  LetterIsComplete'
  <2>1. letters' = letters
    BY <1>9 DEF LetterStep, Rewrite, StoreRewritten, NotifyLetter, PushLetter, LetterFails,
         LetterWorkerDies, DecideLetter, submissionVars
  <2>2. \/ work' = work
        \/ /\ work[k].pc # "none"
           /\ \A j \in Letters : j # k => work'[j] = work[j]
    <3>1. CASE LetterStep(k) \/ LetterWorkerDies(k)
      <4>1. /\ work[k].pc \in {"queued", "rewriting", "notifying", "pushing"}
            /\ \E pc \in {"rewriting", "notifying", "pushing", "done", "queued"} : Goes(k, pc)
        BY <3>1 DEF LetterStep, Rewrite, StoreRewritten, NotifyLetter, PushLetter,
                    LetterWorkerDies
      <4> QED
        BY <1>1, <4>1 DEF Goes
    <3>2. CASE LetterFails(k)
      <4>1. work[k].pc \in {"rewriting", "notifying", "pushing"}
        BY <3>2 DEF LetterFails
      <4>2. \A j \in Letters : j # k => work'[j] = work[j]
        <5>1. \E w : work' = [work EXCEPT ![k] = w]
          BY <3>2 DEF LetterFails
        <5> QED
          BY <1>1, <5>1
      <4> QED
        BY <4>1, <4>2
    <3>3. CASE \E s \in {"approved", "rejected"} : DecideLetter(k, s)
      BY <3>3 DEF DecideLetter, submissionVars
    <3> QED
      BY <1>9, <3>1, <3>2, <3>3
  <2>3. \A j \in Letters : work'[j].pc # "none" => work[j].pc # "none"
    BY <2>2
  <2> QED
    BY <1>3, <2>1, <2>3
<1>10. CASE BotRestarts
  BY <1>6, <1>10 DEF BotRestarts
<1>11. CASE IngestNext /\ UNCHANGED submissionVars
  BY <1>6, <1>11 DEF submissionVars
<1>12. CASE SubmissionsNext
  BY <1>4, <1>5, <1>6, <1>7, <1>8, <1>9, <1>10, <1>12 DEF SubmissionsNext, HandlerStep
<1>13. CASE UNCHANGED intakeVars
  BY <1>6, <1>13 DEF intakeVars, submissionVars
<1> QED
  BY <1>11, <1>12, <1>13 DEF Next

\* Where the bot handles one update of a reader at a time (it does not see to that: each
\* update is a task of its own), every letter holds a city, a text and every attachment,
\* all of them said since the city was chosen, through restarts of the bot, cancelled
\* dialogues and new ones: unless an update of that dialogue was lost in a restart.
THEOREM LettersAreComplete == Spec /\ []OneAtATime => []LetterIsComplete
<1>1. Init => IntakeInv /\ DialogueInv /\ LetterIsComplete
  BY IntakeStarts, DialogueStarts
<1>2. (IntakeInv /\ DialogueInv /\ LetterIsComplete) /\ OneAtATime /\ OneAtATime'
         /\ [Next]_intakeVars
      => (IntakeInv /\ DialogueInv /\ LetterIsComplete)'
  BY IntakeKept, DialogueKept, LetterStaysComplete
<1> QED
  BY <1>1, <1>2, PTL DEF Spec


\* So it is where the bot has room for one update only.
COROLLARY OneHandlerIsEnough ==
  ASSUME \A g, h \in Handlers : g = h
  PROVE  Spec => []LetterIsComplete
<1>1. OneAtATime
  BY DEF OneAtATime
<1>2. Spec => []OneAtATime
  BY <1>1, PTL
<1> QED
  BY <1>2, LettersAreComplete, PTL
===============================================================================
