----------------------------- MODULE FeedProofs -----------------------------
(***************************************************************************)
(* Theorems about Feed: its types, and that a walk lists every item that   *)
(* keeps its place exactly once, for all items, tables, filters and page   *)
(* sizes.                                                                  *)
(***************************************************************************)
EXTENDS Feed, TLAPS

(* Positions *)

\* A key made from any row's content is a position.
LEMMA KeyIsPosition ==
    ASSUME NEW i \in Items, NEW c \in Content, NEW f \in Filter
    PROVE  Key(i, c, f) \in Position /\ Key(i, c, f).id = i
<1>1. i \in Nat /\ published[i] \in Nat
  BY FeedAssumption
<1>2. Metric(c, f) \in Nat
  BY DEF Metric, Content
<1>3. QED
  BY <1>1, <1>2 DEF Key, Position

\* The listing order is a strict total order on positions of different items.
LEMMA BeforeIsStrict ==
    ASSUME NEW a \in Position
    PROVE  ~Before(a, a)
BY DEF Before, Position

LEMMA BeforeIsTransitive ==
    ASSUME NEW a \in Position, NEW b \in Position, NEW c \in Position,
           Before(a, b), Before(b, c)
    PROVE  Before(a, c)
BY DEF Before, Position

LEMMA BeforeIsAsymmetric ==
    ASSUME NEW a \in Position, NEW b \in Position, Before(a, b)
    PROVE  ~Before(b, a)
BY DEF Before, Position

----------------------------------------------------------------------------
(* Types *)

LEMMA RowContent ==
    ASSUME TypeOK, NEW i \in Items
    PROVE  row[i] \in Content
BY FeedAssumption DEF TypeOK

LEMMA PlaceIsPosition ==
    ASSUME TypeOK, NEW i \in Items, NEW f \in Filters
    PROVE  Place(i, f) \in Position
<1>1. f \in Filter /\ row[i] \in Content
  BY RowContent, FeedAssumption
<1>2. QED
  BY <1>1, KeyIsPosition DEF Place

LEMMA InitType == Init => TypeOK
<1> SUFFICES ASSUME Init PROVE TypeOK
  OBVIOUS
<1>1. row \in [Items -> Contents]
  BY FeedAssumption DEF Init
<1>2. listed \in [Items -> Nat]
  BY DEF Init
<1>3. QED
  BY <1>1, <1>2 DEF Init, TypeOK

LEMMA NextType == TypeOK /\ [Next]_vars => TypeOK'
<1> SUFFICES ASSUME TypeOK, [Next]_vars PROVE TypeOK'
  OBVIOUS
<1>1. ASSUME NEW f \in Filters, Fetch(f) PROVE TypeOK'
  <2>1. filters' \in Filters /\ fetched' \in BOOLEAN /\ row' = row /\ listed' = listed
    BY <1>1 DEF Fetch
  <2>2. moved' \subseteq Items
    BY <1>1 DEF Fetch, TypeOK
  <2>3. page' \subseteq Items
    BY <1>1 DEF Fetch, Rest
  <2>4. cursor' \in Cursor \cup {Start, None}
    <3>1. CASE cursor' = None
      BY <3>1
    <3>2. CASE \E last \in Rest(f) : cursor' = [at |-> Place(last, f), filters |-> f]
      <4>1. PICK last \in Rest(f) : cursor' = [at |-> Place(last, f), filters |-> f]
        BY <3>2
      <4>2. last \in Items
        BY DEF Rest
      <4>3. Place(last, f) \in Position /\ f \in Filter
        BY <4>2, PlaceIsPosition, FeedAssumption
      <4>4. cursor' \in Cursor
        BY <4>1, <4>3 DEF Cursor
      <4>5. QED
        BY <4>4
    <3>3. QED
      BY <1>1, <3>1, <3>2 DEF Fetch
  <2>5. QED
    BY <2>1, <2>2, <2>3, <2>4 DEF TypeOK
<1>2. ASSUME Answer PROVE TypeOK'
  <2>1. listed' \in [Items -> Nat]
    BY <1>2 DEF Answer, TypeOK
  <2>2. QED
    BY <1>2, <2>1 DEF Answer, TypeOK
<1>3. ASSUME NEW i \in Items, NEW c \in Contents, Change(i, c) PROVE TypeOK'
  BY <1>3 DEF Change, TypeOK
<1>4. CASE UNCHANGED vars
  BY <1>4 DEF vars, TypeOK
<1>5. QED
  BY <1>1, <1>2, <1>3, <1>4 DEF Next, Refuse, Terminating

\* Every variable keeps its type, for all items, tables, filters and page sizes.
THEOREM TypeCorrect == Spec => []TypeOK
<1>1. QED
  BY InitType, NextType, PTL DEF Spec

----------------------------------------------------------------------------
(* Every item that keeps its place is listed exactly once *)

\* The cursor has passed item i: it lies at or before it.
Passed(i) ==
    \/ cursor = None
    \/ cursor \in Cursor /\ ~Before(cursor.at, Place(i, filters))

\* Where a steady item stands: it was listed once, or is on the page fetched,
\* exactly when it is visible and the cursor has passed it.
Standing(i) ==
    /\ i \in page => listed[i] = 0
    /\ Visible(row[i], filters) /\ Passed(i) => i \in page \/ listed[i] = 1
    /\ ~(Visible(row[i], filters) /\ Passed(i)) => i \notin page /\ listed[i] = 0
    /\ listed[i] \in {0, 1}

\* A walk that has not begun has listed nothing; only a page that was fetched
\* has rows; a cursor carries the filters of the walk.
WalkInv ==
    /\ cursor = Start => ~fetched /\ \A i \in Items : listed[i] = 0
    /\ ~fetched => page = {}
    /\ cursor \in Cursor => cursor.filters = filters

SteadyInv ==
    /\ TypeOK
    /\ WalkInv
    /\ \A i \in Items \ moved : Standing(i)

LEMMA InitSteady == Init => SteadyInv
<1> SUFFICES ASSUME Init PROVE SteadyInv
  OBVIOUS
<1>1. TypeOK
  BY InitType
<1>2. cursor # None /\ cursor \notin Cursor
  BY FeedAssumption DEF Init
<1>3. QED
  BY <1>1, <1>2 DEF Init, SteadyInv, WalkInv, Standing, Passed

LEMMA FetchSteady ==
    ASSUME SteadyInv, NEW f \in Filters, Fetch(f)
    PROVE  SteadyInv'
<1>0. TypeOK' /\ TypeOK /\ WalkInv
  BY NextType DEF SteadyInv, Next
<1>1. row' = row /\ listed' = listed /\ filters' = f /\ fetched' = TRUE
  BY DEF Fetch
<1>2. page = {} /\ ~fetched /\ cursor # None
  BY <1>0 DEF Fetch, WalkInv
<1>3. \A i \in Items : Place(i, f)' = Place(i, f) /\ Place(i, f) \in Position
  BY <1>0, <1>1, PlaceIsPosition DEF Place
<1>4. Start \notin Cursor /\ None \notin Cursor /\ Start # None
  BY FeedAssumption
<1>5. cursor \in Cursor \cup {Start}
  BY <1>0, <1>2 DEF TypeOK
<1>6. cursor \in Cursor => filters = f
  BY <1>0, <1>4 DEF Fetch, Accepts, WalkInv
<1>7. PICK limit \in Limits, rows \in SUBSET Rest(f) :
        /\ page' = rows
        /\ \/ Cardinality(Rest(f)) <= limit /\ rows = Rest(f) /\ cursor' = None
           \/ /\ Cardinality(Rest(f)) > limit /\ Cardinality(rows) = limit
              /\ \A i \in rows, j \in Rest(f) \ rows : Before(Place(i, f), Place(j, f))
              /\ \E last \in rows :
                   /\ \A i \in rows \ {last} : Before(Place(i, f), Place(last, f))
                   /\ cursor' = [at |-> Place(last, f), filters |-> f]
  BY DEF Fetch
<1>8. WalkInv'
  <2>1. CASE cursor' = None
    BY <1>1, <1>4, <2>1 DEF WalkInv
  <2>2. CASE \E last \in rows : cursor' = [at |-> Place(last, f), filters |-> f]
    <3>1. PICK last \in rows : cursor' = [at |-> Place(last, f), filters |-> f]
      BY <2>2
    <3>2. last \in Items
      BY DEF Rest
    <3>3. cursor' \in Cursor /\ cursor'.filters = f
      BY <1>3, <3>1, <3>2, FeedAssumption DEF Cursor
    <3>4. QED
      BY <1>1, <1>4, <3>3 DEF WalkInv
  <2>3. QED
    BY <1>7, <2>1, <2>2
\* Before this page the item had not been listed, or the cursor had passed it.
<1>9. ASSUME NEW i \in Items \ moved'
      PROVE  /\ i \in Rest(f) => listed[i] = 0
             /\ ~Visible(row[i], f) => listed[i] = 0
             /\ Visible(row[i], f) /\ i \notin Rest(f) =>
                  /\ listed[i] = 1
                  /\ cursor \in Cursor /\ ~Before(cursor.at, Place(i, f))
  <2>1. CASE cursor = Start
    <3>1. listed[i] = 0
      BY <1>0, <2>1 DEF WalkInv
    <3>2. Visible(row[i], f) => i \in Rest(f)
      BY <2>1 DEF Rest
    <3>3. QED
      BY <3>1, <3>2
  <2>2. CASE cursor \in Cursor
    <3>1. i \notin moved
      BY <1>4, <2>2 DEF Fetch
    <3>2. Standing(i)
      BY <3>1 DEF SteadyInv
    <3>3. Passed(i) <=> ~Before(cursor.at, Place(i, f))
      BY <1>2, <1>6, <2>2 DEF Passed
    <3>4. i \in Rest(f) <=> Visible(row[i], f) /\ Before(cursor.at, Place(i, f))
      BY <1>4, <2>2 DEF Rest
    <3>5. QED
      BY <1>2, <1>6, <2>2, <3>2, <3>3, <3>4 DEF Standing
  <2>3. QED
    BY <1>5, <2>1, <2>2
<1>10. ASSUME NEW i \in Items \ moved' PROVE Standing(i)'
  <2>1. Visible(row[i], filters)' <=> Visible(row[i], f)
    BY <1>1
  <2>2. i \in rows => Visible(row[i], f)
    BY DEF Rest
  <2>3. CASE cursor' = None
    <3>1. rows = Rest(f)
      <4>1. ~\E last \in rows : cursor' = [at |-> Place(last, f), filters |-> f]
        <5>1. SUFFICES ASSUME NEW last \in rows, cursor' = [at |-> Place(last, f), filters |-> f]
                       PROVE FALSE
          OBVIOUS
        <5>2. last \in Items
          BY DEF Rest
        <5>3. cursor' \in Cursor
          BY <1>3, <5>1, <5>2, FeedAssumption DEF Cursor
        <5>4. QED
          BY <1>4, <2>3, <5>3
      <4>2. QED
        BY <1>7, <4>1
    <3>2. Passed(i)'
      BY <2>3 DEF Passed
    <3>3. QED
      BY <1>1, <1>7, <1>9, <2>1, <2>2, <3>1, <3>2 DEF Standing
  <2>4. CASE cursor' # None
    <3>1. PICK last \in rows :
            /\ \A j \in rows \ {last} : Before(Place(j, f), Place(last, f))
            /\ cursor' = [at |-> Place(last, f), filters |-> f]
      BY <1>7, <2>4
    <3>2. last \in Items /\ last \in Rest(f)
      BY DEF Rest
    <3>3. Place(last, f) \in Position /\ Place(i, f) \in Position
      BY <1>3, <3>2
    <3>4. cursor' \in Cursor /\ cursor'.at = Place(last, f)
      BY <3>1, <3>3, FeedAssumption DEF Cursor
    <3>5. Passed(i)' <=> ~Before(Place(last, f), Place(i, f))
      BY <1>1, <1>3, <2>4, <3>4 DEF Passed
    <3>6. CASE i \in rows
      <4>1. ~Before(Place(last, f), Place(i, f))
        BY <3>1, <3>3, <3>6, BeforeIsStrict, BeforeIsAsymmetric
      <4>2. QED
        BY <1>1, <1>7, <1>9, <2>1, <2>2, <3>5, <3>6, <4>1 DEF Standing
    <3>7. CASE i \in Rest(f) \ rows
      <4>1. Before(Place(last, f), Place(i, f))
        BY <1>4, <1>7, <2>4, <3>7
      <4>2. QED
        BY <1>1, <1>7, <1>9, <3>5, <3>7, <4>1 DEF Standing
    <3>8. CASE i \notin Rest(f) /\ Visible(row[i], f)
      <4>1. cursor \in Cursor /\ ~Before(cursor.at, Place(i, f)) /\ listed[i] = 1
        BY <1>9, <3>8
      <4>2. Before(cursor.at, Place(last, f))
        BY <1>4, <3>2, <4>1 DEF Rest
      <4>3. cursor.at \in Position
        BY <4>1 DEF Cursor
      <4>4. ~Before(Place(last, f), Place(i, f))
        BY <3>3, <4>1, <4>2, <4>3, BeforeIsTransitive
      <4>5. QED
        BY <1>1, <1>7, <2>1, <3>5, <3>8, <4>1, <4>4 DEF Standing
    <3>9. CASE ~Visible(row[i], f)
      BY <1>1, <1>7, <1>9, <2>1, <2>2, <3>9 DEF Standing
    <3>10. QED
      BY <3>6, <3>7, <3>8, <3>9
  <2>5. QED
    BY <2>3, <2>4
<1>11. QED
  BY <1>0, <1>8, <1>10 DEF SteadyInv

LEMMA AnswerSteady ==
    ASSUME SteadyInv, Answer
    PROVE  SteadyInv'
<1>0. TypeOK /\ TypeOK' /\ WalkInv
  BY NextType DEF SteadyInv, Next
<1>1. row' = row /\ filters' = filters /\ cursor' = cursor /\ moved' = moved
  BY DEF Answer
<1>2. fetched /\ fetched' = FALSE /\ page' = {}
  BY DEF Answer
<1>3. WalkInv'
  BY <1>0, <1>1, <1>2 DEF WalkInv
<1>4. ASSUME NEW i \in Items \ moved PROVE Standing(i)'
  <2>1. Standing(i) /\ listed[i] \in Nat
    BY <1>0, <1>4 DEF SteadyInv, TypeOK
  <2>2. (Visible(row[i], filters) /\ Passed(i))' <=> Visible(row[i], filters) /\ Passed(i)
    BY <1>1 DEF Passed, Place
  <2>3. i \in page => Visible(row[i], filters)
    BY <2>1 DEF Standing
  <2>4. Visible(row[i], filters) => StillThere(row[i], filters)
    BY DEF Visible, StillThere
  <2>5. listed'[i] = IF i \in page /\ StillThere(row[i], filters) THEN listed[i] + 1 ELSE listed[i]
    BY DEF Answer
  <2>6. QED
    BY <1>2, <2>1, <2>2, <2>3, <2>4, <2>5 DEF Standing
<1>5. QED
  BY <1>0, <1>1, <1>3, <1>4 DEF SteadyInv

LEMMA ChangeSteady ==
    ASSUME SteadyInv, NEW i \in Items, NEW c \in Contents, Change(i, c)
    PROVE  SteadyInv'
<1>0. TypeOK /\ TypeOK' /\ WalkInv
  BY NextType DEF SteadyInv, Next
<1>1. filters' = filters /\ cursor' = cursor /\ fetched' = fetched /\ page' = page /\ listed' = listed
  BY DEF Change
<1>2. row' = [row EXCEPT ![i] = c] /\ row \in [Items -> Contents]
  BY <1>0 DEF Change, TypeOK
<1>3. WalkInv'
  BY <1>0, <1>1 DEF WalkInv
<1>4. ASSUME NEW j \in Items \ moved' PROVE Standing(j)'
  <2>1. j \notin moved
    BY DEF Change
  <2>2. Standing(j)
    BY <1>4, <2>1 DEF SteadyInv
  <2>3. Place(j, filters)' = Place(j, filters) /\ (Visible(row[j], filters)' <=> Visible(row[j], filters))
    <3>1. CASE j = i
      <4>1. row'[j] = c
        BY <1>2, <3>1
      <4>2. Key(i, c, filters) = Place(i, filters) /\ Visible(c, filters) = Visible(row[i], filters)
        BY <1>4, <3>1 DEF Change
      <4>3. QED
        BY <1>1, <3>1, <4>1, <4>2 DEF Place
    <3>2. CASE j # i
      <4>1. row'[j] = row[j]
        BY <1>2, <3>2
      <4>2. QED
        BY <1>1, <4>1 DEF Place
    <3>3. QED
      BY <3>1, <3>2
  <2>4. Passed(j)' <=> Passed(j)
    BY <1>1, <2>3 DEF Passed
  <2>5. QED
    BY <1>1, <2>2, <2>3, <2>4 DEF Standing
<1>5. QED
  BY <1>0, <1>3, <1>4 DEF SteadyInv

LEMMA NextSteady == SteadyInv /\ [Next]_vars => SteadyInv'
<1> SUFFICES ASSUME SteadyInv, [Next]_vars PROVE SteadyInv'
  OBVIOUS
<1>1. ASSUME NEW f \in Filters, Fetch(f) PROVE SteadyInv'
  BY <1>1, FetchSteady
<1>2. CASE Answer
  BY <1>2, AnswerSteady
<1>3. ASSUME NEW i \in Items, NEW c \in Contents, Change(i, c) PROVE SteadyInv'
  BY <1>3, ChangeSteady
<1>4. CASE UNCHANGED vars
  BY <1>4 DEF vars, SteadyInv, TypeOK, WalkInv, Standing, Passed, Place
<1>5. QED
  BY <1>1, <1>2, <1>3, <1>4 DEF Next, Refuse, Terminating

LEMMA SteadyImplies == SteadyInv => SteadyListedOnce
<1> SUFFICES ASSUME SteadyInv, NEW i \in Items \ moved
             PROVE  /\ listed[i] \in {0, 1}
                    /\ Done => (listed[i] = 1 <=> Visible(row[i], filters))
  BY DEF SteadyListedOnce
<1>1. Standing(i)
  BY DEF SteadyInv
<1>2. Done => Passed(i) /\ page = {}
  BY DEF SteadyInv, WalkInv, Done, Passed
<1>3. QED
  BY <1>1, <1>2 DEF Standing

\* A walk through a listing lists every item that keeps its place exactly once
\* if it is visible, whatever votes, likes and activations do to the others
\* meanwhile and whatever page sizes the client asks for.
THEOREM ListedOnce == Spec => []SteadyListedOnce
<1>1. QED
  BY InitSteady, NextSteady, SteadyImplies, PTL DEF Spec

----------------------------------------------------------------------------
(* Cursors advance *)

LEMMA StepAdvances ==
    ASSUME TypeOK, [Next]_vars, ~fetched, fetched', {cursor, cursor'} \subseteq Cursor
    PROVE  Before(cursor.at, cursor'.at)
<1>1. PICK f \in Filters : Fetch(f)
  BY DEF Next, Refuse, Answer, Change, Terminating, vars
<1>2. cursor # Start /\ cursor' # None
  BY FeedAssumption
<1>3. PICK last \in Rest(f) : cursor' = [at |-> Place(last, f), filters |-> f]
  BY <1>1, <1>2 DEF Fetch
<1>4. Before(cursor.at, Place(last, f))
  BY <1>2 DEF Rest
<1>5. QED
  BY <1>3, <1>4

\* The cursor a page ends with lies behind the one the page was asked with.
THEOREM CursorsAdvance == Spec => CursorAdvances
<1>1. TypeOK /\ [Next]_vars =>
        [fetched' /\ ~fetched /\ {cursor, cursor'} \subseteq Cursor => Before(cursor.at, cursor'.at)]_vars
  BY StepAdvances
<1>2. QED
  BY <1>1, TypeCorrect, PTL DEF Spec, CursorAdvances
=============================================================================
