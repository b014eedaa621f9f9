------------------------------ MODULE NewsTable ------------------------------
(***************************************************************************)
(* The rows of the news table as far as intake needs them: what a source   *)
(* or a reader brought in, where it goes, and whether moderators have its  *)
(* card.  An id is <<message, execution of it, item>>, 0 for letters.       *)
(***************************************************************************)
EXTENDS Integers, FiniteSets

CONSTANTS
    Cities,
    Stories,        \* what texts are about: dedup tells stories apart, no more
    NoStory         \* of a row without a text

VARIABLE news       \* the committed rows, by id

Row == [story : Stories \cup {NoStory}, origin : {"parser", "user"},
        status : {"processing", "pending", "approved", "scheduled", "rejected"},
        cities : SUBSET Cities,
        card : BOOLEAN]         \* moderation_message_id is set

\* What dedup compares a new item with: every row, whoever brought it in.
StoriesOf(rows) == {rows[id].story : id \in DOMAIN rows}

\* `rows` after the rows of `more` are inserted.
With(rows, more) ==
    [id \in DOMAIN rows \cup DOMAIN more |-> IF id \in DOMAIN more THEN more[id] ELSE rows[id]]

NoRows == [id \in {} |-> {}]
===============================================================================
