-------------------------------- MODULE Feed --------------------------------
(***************************************************************************)
(* Listings by page: the questions, a user's choices, a user's likes and   *)
(* the comments of a question.  A client walks through one listing; each   *)
(* page continues after the row its cursor names (keyset pagination),      *)
(* while votes, likes and activations reorder what is listed.              *)
(*                                                                         *)
(* Items are questions or comments, known by their ids.                    *)
(***************************************************************************)
EXTENDS Integers, FiniteSets

CONSTANTS
    Items,            \* ids
    published,        \* id -> time of publication
    Filters,          \* what may be listed: records [sort, scope]
    Limits,           \* how many rows a client may ask for on a page
    Contents, Tables, \* what a row may hold, and the tables to start from
    Start, None

VARIABLES
    row,       \* id -> [votes, likes, active, own]: own says the user voted on it, or likes it
    filters,   \* of the walk
    cursor,    \* the client's next_cursor: Start, a position, or None after the last page
    fetched,   \* whether a page has been fetched and not yet answered
    page,      \* its rows
    listed,    \* id -> how often the walk has listed it
    moved      \* items whose place or presence in the listing has changed during the walk

vars == <<row, filters, cursor, fetched, page, listed, moved>>

Sorts == {"popular", "liked", "latest", "comments"}
Scopes == {"all", "mine", "liked"}
Filter == [sort : Sorts, scope : Scopes]
Content == [votes : Nat, likes : Nat, active : BOOLEAN, own : BOOLEAN]
Position == [metric : Nat, published : Nat, id : Nat]
Cursor == [at : Position, filters : Filter]

ASSUME FeedAssumption ==
    /\ Items \subseteq Nat /\ IsFiniteSet(Items)
    /\ published \in [Items -> Nat]
    /\ Filters \subseteq Filter
    /\ Limits \subseteq Nat \ {0}
    /\ Contents \subseteq Content
    /\ Tables \subseteq [Items -> Contents]
    /\ Start \notin Cursor \cup {None} /\ None \notin Cursor

----------------------------------------------------------------------------
(* Order *)

\* Mutant: the metric is negated to sort in descending order.
NegatedMetric(c, f) == CASE f.sort = "popular" -> 0 - c.votes
                         [] f.sort = "liked" -> 0 - c.likes
                         [] OTHER -> 0

Metric(c, f) == CASE f.sort = "popular" -> c.votes
                  [] f.sort = "liked" -> c.likes
                  [] OTHER -> 0

Key(i, c, f) == [metric |-> Metric(c, f), id |-> i,
                 published |-> IF f.sort = "comments" THEN 0 ELSE published[i]]

\* Mutant: the row of the cursor is not left out.
NotAfter(a, b) ==
    \/ a.metric > b.metric
    \/ a.metric = b.metric /\ a.published > b.published
    \/ a.metric = b.metric /\ a.published = b.published /\ a.id >= b.id

\* Whether position a is listed before position b.
Before(a, b) ==
    \/ a.metric > b.metric
    \/ a.metric = b.metric /\ a.published > b.published
    \/ a.metric = b.metric /\ a.published = b.published /\ a.id > b.id

Visible(c, f) == c.active /\ (f.scope # "all" => c.own)

Place(i, f) == Key(i, row[i], f)

\* Mutant: the row the cursor names is listed again.
RestWithLast(f) == {i \in Items : Visible(row[i], f) /\ (cursor # Start => NotAfter(cursor.at, Place(i, f)))}

Rest(f) == {i \in Items : Visible(row[i], f) /\ (cursor # Start => Before(cursor.at, Place(i, f)))}

----------------------------------------------------------------------------
Init ==
    /\ row \in Tables
    /\ filters \in Filters
    /\ cursor = Start
    /\ fetched = FALSE /\ page = {}
    /\ listed = [i \in Items |-> 0]
    /\ moved = {}

\* Mutant: a cursor is good for every listing.
AcceptsAny(f) == TRUE

\* A cursor is bound to the filters it was made with.
Accepts(f) == cursor # Start => cursor.filters = f

\* One statement fetches the rows asked for and one more, to know whether to go on.
Fetch(f) ==
    /\ cursor # None /\ ~fetched /\ Accepts(f)
    /\ filters' = f /\ fetched' = TRUE
    /\ moved' = IF cursor = Start THEN {} ELSE moved
    /\ \E limit \in Limits, rows \in SUBSET Rest(f) :
         /\ page' = rows
         /\ \/ Cardinality(Rest(f)) <= limit /\ rows = Rest(f) /\ cursor' = None
            \/ /\ Cardinality(Rest(f)) > limit /\ Cardinality(rows) = limit
               /\ \A i \in rows, j \in Rest(f) \ rows : Before(Place(i, f), Place(j, f))
               /\ \E last \in rows :
                    /\ \A i \in rows \ {last} : Before(Place(i, f), Place(last, f))
                    /\ cursor' = [at |-> Place(last, f), filters |-> f]
    /\ UNCHANGED <<row, listed>>

\* The cursor of another listing is refused.
Refuse(f) == cursor # None /\ ~fetched /\ ~Accepts(f) /\ UNCHANGED vars

\* A user's own listing is answered from a second statement, over the user's
\* votes or likes: it finds only the rows that are still there.
StillThere(c, f) == (f.scope # "all" => c.own) /\ (f.scope = "liked" => c.active)

Answer ==
    /\ fetched
    /\ LET items == {i \in page : StillThere(row[i], filters)}
       IN listed' = [i \in Items |-> IF i \in items THEN listed[i] + 1 ELSE listed[i]]
    /\ fetched' = FALSE /\ page' = {}
    /\ UNCHANGED <<row, filters, cursor, moved>>

\* A vote, a like, an activation, a comment written or deleted.
Change(i, c) ==
    /\ c # row[i]
    /\ row' = [row EXCEPT ![i] = c]
    /\ moved' = IF Key(i, c, filters) = Place(i, filters) /\ Visible(c, filters) = Visible(row[i], filters)
                THEN moved ELSE moved \cup {i}
    /\ UNCHANGED <<filters, cursor, fetched, page, listed>>

Walk == (\E f \in Filters : Fetch(f)) \/ Answer

Done == cursor = None /\ ~fetched

Terminating == Done /\ UNCHANGED vars

Next ==
    \/ \E f \in Filters : Fetch(f)
    \/ \E f \in Filters : Refuse(f)
    \/ Answer
    \/ \E i \in Items, c \in Contents : Change(i, c)
    \/ Terminating

\* The client asks for the next page when it has one; the rows change freely.
Spec == Init /\ [][Next]_vars /\ WF_vars(Walk)

----------------------------------------------------------------------------
(* Properties *)

TypeOK ==
    /\ row \in [Items -> Contents]
    /\ filters \in Filters
    /\ cursor \in Cursor \cup {Start, None}
    /\ fetched \in BOOLEAN
    /\ page \subseteq Items
    /\ listed \in [Items -> Nat]
    /\ moved \subseteq Items

\* An item that keeps its place is listed at most once while the walk goes on
\* and, once it has ended, exactly once when it is visible, whatever happened
\* to the others.
SteadyListedOnce ==
    \A i \in Items \ moved :
        /\ listed[i] \in {0, 1}
        /\ Done => (listed[i] = 1 <=> Visible(row[i], filters))

\* The cursor a page ends with lies behind the one it was asked with.
CursorAdvances ==
    [][fetched' /\ ~fetched /\ {cursor, cursor'} \subseteq Cursor => Before(cursor.at, cursor'.at)]_vars

\* A walk ends, although the rows it still has to list may keep changing places.
WalkEnds == <>Done
=============================================================================
