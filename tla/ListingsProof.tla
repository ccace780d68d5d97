---------------------------- MODULE ListingsProof ----------------------------
(***************************************************************************)
(* Theorems about Listings, for listings and pages of any size and for     *)
(* whatever the other requests do between two pages.                       *)
(***************************************************************************)
EXTENDS Listings, FiniteSetTheorems, TLAPS

\* A page is taken from the rows of the query.
LEMMA PageRows ==
  ASSUME NEW F \in Fetches, NEW P \in Pages(F)
  PROVE  P \subseteq F /\ F \subseteq Selected /\ Selected \subseteq listed
  BY DEF Fetches, Pages, Selected

\* The next cursor is on the page, unless the page is empty.
LEMMA CursorOnPage ==
  ASSUME NEW P, NEW c \in Onward(P)
  PROVE  c \in P \/ (P = {} /\ c = cursor)
  BY DEF Onward

-----------------------------------------------------------------------------
(* Type correctness. *)

LEMMA ListTypeInit == ListInit => ListTypeOK
<1> SUFFICES ASSUME ListInit PROVE ListTypeOK
  OBVIOUS
<1>1. query \in Queries
  BY DEF ListInit
<1>2. due \subseteq listed
  BY DEF ListInit, Selected
<1>3. cursor \in IF query.back THEN IDs ELSE seen \union {None}
  BY DEF ListInit
<1> QED
  BY <1>1, <1>2, <1>3 DEF ListInit, ListTypeOK

LEMMA ListTypeStep == ListTypeOK /\ [ListNext]_vars => ListTypeOK'
<1> SUFFICES ASSUME ListTypeOK, [ListNext]_vars
             PROVE  ListTypeOK'
  OBVIOUS
<1> USE DEF ListTypeOK
<1>1. CASE UNCHANGED vars
  BY <1>1 DEF vars
<1>2. CASE GetPage
  <2>1. PICK F \in Fetches : \E P \in Pages(F) : Answer(F, P)
    BY <1>2 DEF GetPage
  <2>. PICK P \in Pages(F) : Answer(F, P)
    BY <2>1
  <2>2. P \subseteq IDs
    BY PageRows
  <2>3. cursor' \in P \/ cursor' = cursor
    BY CursorOnPage DEF Answer
  <2>4. done' \in BOOLEAN /\ repeated' \in BOOLEAN
    BY DEF Answer, HasMore
  <2>5. stops' \subseteq Times
    BY <2>2 DEF Answer
  <2> QED
    BY <1>2, <2>2, <2>3, <2>4, <2>5 DEF GetPage, table, Answer
<1>3. ASSUME NEW i \in IDs, Appear(i) \/ Disappear(i)
      PROVE  ListTypeOK'
  BY <1>3 DEF Appear, Disappear, walk
<1>4. ASSUME NEW i \in IDs, NEW t \in Times, Move(i, t)
      PROVE  ListTypeOK'
  BY <1>4 DEF Move, walk
<1> QED
  BY <1>1, <1>2, <1>3, <1>4 DEF ListNext

\* A cursor is always the identifier of a record the client has been shown.
THEOREM ListTypeCorrect == ListSpec => []ListTypeOK
  BY ListTypeInit, ListTypeStep, PTL DEF ListSpec

-----------------------------------------------------------------------------
(* The walk.  Ahead(c, i): a client at c is still to come to i. *)

Ahead(c, i) == IF query.back THEN Precedes(i, c) ELSE Precedes(c, i)

\* What an agenda may pass over: a page ended where it starts.
Tied(i) == query.kind = "agenda" /\ starts[i] \in stops

\* Everything due is ahead or has been shown, but not both.
WalkInv ==
    ~swayed =>
        /\ ~repeated
        /\ seen # {} => cursor # None
        /\ \A i \in due \intersect seen : ~Beyond(i)
        /\ ~query.back => \A i \in due : i \in seen \/ Tied(i) \/ (~done /\ Beyond(i))

LEMMA BeyondAhead == \A i : Beyond(i) <=> cursor = None \/ Ahead(cursor, i)
  BY DEF Beyond, Ahead

LEMMA AheadTransitive ==
  ASSUME ListTypeOK, NEW a \in IDs, NEW b \in IDs, NEW c \in IDs,
         Ahead(a, b), Ahead(b, c)
  PROVE  Ahead(a, c)
<1>1. /\ a \in Nat /\ b \in Nat /\ c \in Nat
      /\ starts[a] \in Nat /\ starts[b] \in Nat /\ starts[c] \in Nat
  BY IDAssumption, TimeAssumption DEF ListTypeOK
<1>2. ASSUME NEW i \in IDs, NEW j \in IDs, NEW k \in IDs,
             i \in Nat, j \in Nat, k \in Nat,
             starts[i] \in Nat, starts[j] \in Nat, starts[k] \in Nat,
             Before(i, j), Before(j, k)
      PROVE  Before(i, k)
  BY <1>2 DEF Before, ByID
<1> QED
  BY <1>1, <1>2 DEF Ahead, Precedes

\* Only the agenda leaves two records in no order.
LEMMA AheadTotal ==
  ASSUME ListTypeOK, NEW a \in IDs, NEW b \in IDs, a # b, ~Ahead(a, b)
  PROVE  \/ Ahead(b, a)
         \/ query.kind = "agenda" /\ starts[a] = starts[b]
<1>1. /\ a \in Nat /\ b \in Nat /\ starts[a] \in Nat /\ starts[b] \in Nat
      /\ query.kind \in Kinds
  BY IDAssumption, TimeAssumption DEF ListTypeOK, Queries
<1>2. \/ Before(a, b) \/ Before(b, a)
      \/ query.kind = "agenda" /\ starts[a] = starts[b]
  BY <1>1 DEF Before, Kinds, ByID
<1> QED
  BY <1>2 DEF Ahead, Precedes

LEMMA WalkInit == ListInit => WalkInv
  BY DEF ListInit, WalkInv, Selected

\* A page lies ahead of the old cursor and not ahead of the new one.
LEMMA PageAhead ==
  ASSUME ListTypeOK, NEW F \in Fetches, NEW P \in Pages(F), NEW c \in Onward(P)
  PROVE  /\ P \subseteq IDs
         /\ \A i \in P : Beyond(i) /\ ~Ahead(c, i)
         /\ P # {} => c \in P
<1>1. P \subseteq Selected /\ Selected \subseteq IDs
  BY PageRows DEF ListTypeOK
<1> QED
  BY <1>1 DEF Selected, Onward, Ahead

\* A record the query selects is on the page, or still ahead of the new cursor,
\* or starts together with a record on the page.
LEMMA LeftAhead ==
  ASSUME ListTypeOK, ~query.back, NEW F \in Fetches, NEW P \in Pages(F),
         NEW c \in Onward(P), NEW i \in Selected
  PROVE  \/ i \in P
         \/ /\ HasMore(F)
            /\ \/ c = cursor
               \/ Ahead(c, i)
               \/ query.kind = "agenda" /\ c \in P /\ starts[c] = starts[i]
<1> SUFFICES ASSUME i \notin P
             PROVE  /\ HasMore(F)
                    /\ \/ c = cursor
                       \/ Ahead(c, i)
                       \/ query.kind = "agenda" /\ c \in P /\ starts[c] = starts[i]
  OBVIOUS
<1>0. /\ P \subseteq F /\ F \subseteq Selected /\ Selected \subseteq IDs /\ i \in IDs
      /\ query.limit \in Nat
  BY PageRows, LimitAssumption DEF ListTypeOK, Queries
<1>1. HasMore(F)
  <2>1. CASE F = Selected
    BY <2>1 DEF Pages
  <2>2. CASE Cardinality(F) = query.limit + 1
    BY <1>0, <2>2 DEF HasMore
  <2> QED
    BY <2>1, <2>2 DEF Fetches
<1>2. ASSUME c \in P
      PROVE  ~Ahead(i, c)
  <2>1. CASE i \in F
    <3>1. i \in Extra(F)
      BY <1>1, <2>1 DEF Pages
    <3>2. ~Nearer(i, c)
      BY <1>0, <1>2, <3>1 DEF Extra, LastRows, Reversed
    <3> QED
      BY <3>2 DEF Nearer, Reversed, Ahead
  <2>2. CASE i \notin F
    BY <1>0, <1>2, <2>2 DEF Fetches, Nearer, Reversed, Ahead
  <2> QED
    BY <2>1, <2>2
<1>3. CASE c \in P
  BY <1>0, <1>1, <1>2, <1>3, AheadTotal
<1> QED
  BY <1>1, <1>3, CursorOnPage

LEMMA WalkPageStep ==
  ASSUME ListTypeOK, WalkInv, GetPage
  PROVE  WalkInv'
<1>1. PICK F \in Fetches : \E P \in Pages(F) : Answer(F, P)
  BY DEF GetPage
<1>. PICK P \in Pages(F) : Answer(F, P)
  BY <1>1
<1>2. /\ cursor' \in Onward(P) /\ done' = ~HasMore(F) /\ seen' = seen \union P
      /\ repeated' = (repeated \/ P \intersect seen \intersect due # {})
      /\ stops \subseteq stops'
      /\ query.kind = "agenda" /\ cursor' \in P => starts[cursor'] \in stops'
      /\ swayed' = swayed /\ due' = due /\ query' = query
      /\ listed' = listed /\ starts' = starts /\ ~done
  BY DEF GetPage, Answer, table
<1>4. \A i : Beyond(i)' <=> cursor' = None \/ Ahead(cursor', i)
  BY <1>2 DEF Beyond, Ahead, Precedes, Before
<1>5. /\ P \subseteq IDs /\ seen \subseteq IDs /\ due \subseteq listed /\ listed \subseteq IDs
      /\ \A i \in P : Beyond(i) /\ ~Ahead(cursor', i)
      /\ P # {} => cursor' \in P
      /\ P = {} => cursor' = cursor
  BY <1>2, PageAhead DEF ListTypeOK, Onward
<1>6. None \notin IDs
  BY IDAssumption DEF None
<1> SUFFICES ASSUME ~swayed PROVE
        /\ ~repeated'
        /\ seen' # {} => cursor' # None
        /\ \A i \in due \intersect seen' : ~Beyond(i)'
        /\ ~query.back => \A i \in due : i \in seen' \/ Tied(i)' \/ (~done' /\ Beyond(i)')
  BY <1>2 DEF WalkInv
<1>7. ~repeated'
  BY <1>2, <1>5 DEF WalkInv
<1>8. seen' # {} => cursor' # None
  BY <1>2, <1>5, <1>6 DEF WalkInv
<1>9. ASSUME NEW i \in due \intersect seen'
      PROVE  ~Beyond(i)'
  <2>1. CASE P = {}
    BY <1>2, <1>4, <1>5, <1>9, <2>1, BeyondAhead DEF WalkInv
  <2>2. CASE i \in P
    BY <1>4, <1>5, <1>6, <2>2
  <2>3. CASE P # {} /\ i \notin P
    <3>1. /\ i \in seen /\ cursor # None /\ ~Ahead(cursor, i)
          /\ cursor' \in P /\ Ahead(cursor, cursor')
      BY <1>2, <1>5, <1>9, <2>3, BeyondAhead DEF WalkInv
    <3>2. i \in IDs /\ cursor \in IDs /\ cursor' \in IDs
      BY <1>5, <3>1 DEF ListTypeOK
    <3> QED
      BY <1>4, <1>6, <3>1, <3>2, AheadTransitive
  <2> QED
    BY <2>1, <2>2, <2>3
<1>10. ASSUME ~query.back, NEW i \in due
       PROVE  i \in seen' \/ Tied(i)' \/ (~done' /\ Beyond(i)')
  <2>1. CASE i \in seen
    BY <1>2, <2>1
  <2>2. CASE Tied(i)
    BY <1>2, <2>2 DEF Tied
  <2>3. CASE Beyond(i)
    <3>1. i \in Selected
      BY <1>5, <2>3 DEF Selected
    <3>2. \/ i \in P
          \/ /\ HasMore(F)
             /\ \/ cursor' = cursor
                \/ Ahead(cursor', i)
                \/ query.kind = "agenda" /\ cursor' \in P /\ starts[cursor'] = starts[i]
      BY <1>2, <1>10, <3>1, LeftAhead
    <3> QED
      BY <1>2, <1>4, <2>3, <3>2, BeyondAhead DEF Tied
  <2> QED
    BY <1>10, <2>1, <2>2, <2>3 DEF WalkInv
<1> QED
  BY <1>7, <1>8, <1>9, <1>10

\* Other requests make records appear, which are not due, and disappear.
LEMMA WalkTableStep ==
  ASSUME ListTypeOK, WalkInv, NEW i \in IDs, Appear(i) \/ Disappear(i)
  PROVE  WalkInv'
<1>1. /\ due' \subseteq due /\ seen' = seen /\ starts' = starts /\ query' = query
      /\ cursor' = cursor /\ done' = done /\ repeated' = repeated /\ swayed' = swayed
      /\ stops' = stops
  BY DEF Appear, Disappear, walk
<1>2. \A j : Beyond(j)' <=> Beyond(j)
  BY <1>1 DEF Beyond, Precedes, Before
<1>3. \A j : Tied(j)' <=> Tied(j)
  BY <1>1 DEF Tied
<1> QED
  BY <1>1, <1>2, <1>3 DEF WalkInv

\* A conference that is moved is no longer due; the others are where they were
\* as long as it is not the one at the cursor.
LEMMA WalkMoveStep ==
  ASSUME ListTypeOK, WalkInv, NEW i \in IDs, NEW t \in Times, Move(i, t)
  PROVE  WalkInv'
<1> SUFFICES ASSUME ~swayed' PROVE WalkInv'
  BY DEF WalkInv
<1>1. /\ due' = due \ {i} /\ seen' = seen /\ query' = query
      /\ starts' = [starts EXCEPT ![i] = t]
      /\ cursor' = cursor /\ done' = done /\ repeated' = repeated
      /\ ~swayed /\ i # cursor /\ query.kind \notin ByID /\ stops' = stops
      /\ starts \in [IDs -> Times] /\ due \subseteq IDs
  BY DEF Move, walk, ListTypeOK
<1>2. ASSUME NEW j \in due'
      PROVE  Beyond(j)' <=> Beyond(j)
  <2>1. starts'[j] = starts[j] /\ (cursor # None => starts'[cursor] = starts[cursor])
    BY <1>1, <1>2 DEF ListTypeOK
  <2> QED
    BY <1>1, <2>1 DEF Beyond, Precedes, Before, ByID
<1>3. \A j \in due' : Tied(j)' <=> Tied(j)
  BY <1>1 DEF Tied
<1> QED
  BY <1>1, <1>2, <1>3 DEF WalkInv

LEMMA WalkStep == ListTypeOK /\ WalkInv /\ [ListNext]_vars => WalkInv'
<1> SUFFICES ASSUME ListTypeOK, WalkInv, [ListNext]_vars
             PROVE  WalkInv'
  OBVIOUS
<1>1. CASE UNCHANGED vars
  BY <1>1 DEF vars, WalkInv, Tied, Beyond, Precedes, Before
<1> QED
  BY <1>1, WalkPageStep, WalkTableStep, WalkMoveStep DEF ListNext

LEMMA WalkInvariant == ListSpec => []WalkInv
  BY WalkInit, WalkStep, ListTypeCorrect, PTL DEF ListSpec

\* Reading forwards to the end shows all that was there all the time, of
\* listings of any size and with any interference but a move of the cursor.
THEOREM ForwardSkipsNothing == ListSpec => []NothingSkipped
<1>1. WalkInv => NothingSkipped
  BY DEF WalkInv, NothingSkipped, Tied
<1> QED
  BY <1>1, WalkInvariant, PTL

\* No walk, forwards or backwards, shows a record twice that stayed in place.
THEOREM NothingShownTwice == ListSpec => []NothingTwice
<1>1. WalkInv => NothingTwice
  BY DEF WalkInv, NothingTwice
<1> QED
  BY <1>1, WalkInvariant, PTL

-----------------------------------------------------------------------------
(* Backwards.  Lost: the records passed without having been shown.          *)

Lost == {i \in due \ seen : Precedes(cursor, i)}

BackInv ==
    query.back /\ query.kind \in ByID =>
        /\ cursor \notin due \ seen
        /\ Cardinality(Lost) <= cuts

LEMMA LostType ==
  ListTypeOK => IsFiniteSet(Lost) /\ Cardinality(Lost) \in Nat /\ cuts \in Nat
<1>. SUFFICES ASSUME ListTypeOK
              PROVE  IsFiniteSet(Lost) /\ Cardinality(Lost) \in Nat /\ cuts \in Nat
  OBVIOUS
<1>1. Lost \subseteq IDs
  BY DEF Lost, ListTypeOK
<1> QED
  BY <1>1, IDAssumption, FS_Subset, FS_CardinalityType DEF ListTypeOK

LEMMA LostInit == ListInit => BackInv
<1> SUFFICES ASSUME ListInit, query.back, query.kind \in ByID
             PROVE  cursor \notin due \ seen /\ Cardinality(Lost) <= cuts
  BY DEF BackInv
<1>1. ListTypeOK /\ ~query.desc
  BY ListTypeInit DEF ListInit, ByID, Queries
<1>2. cursor \in IDs /\ cursor \in Nat /\ cursor # None
  BY IDAssumption DEF ListInit, None
<1>3. \A i \in due : i \in Nat /\ i < cursor
  BY <1>1, <1>2, IDAssumption DEF ListInit, Selected, Beyond, Precedes, Before, ListTypeOK, ByID
<1>4. Lost = {}
  BY <1>1, <1>2, <1>3 DEF Lost, Precedes, Before, ByID
<1> QED
  BY <1>2, <1>3, <1>4, FS_EmptySet DEF ListInit

\* Adding an element adds at most one.
LEMMA OneMore ==
  ASSUME NEW S, IsFiniteSet(S), NEW x
  PROVE  /\ IsFiniteSet(S \union {x})
         /\ Cardinality(S \union {x}) <= Cardinality(S) + 1
<1>1. Cardinality(S) \in Nat
  BY FS_CardinalityType
<1>2. CASE x \in S
  <2>1. S \union {x} = S
    BY <1>2
  <2>2. IsFiniteSet(S \union {x}) /\ Cardinality(S \union {x}) = Cardinality(S)
    BY <2>1, Zenon
  <2> QED
    BY <1>1, <2>2
<1>3. CASE x \notin S
  <2>1. /\ IsFiniteSet(S \union {x})
        /\ Cardinality(S \union {x}) = Cardinality(S) + 1
    BY <1>3, FS_AddElement
  <2> QED
    BY <1>1, <2>1
<1> QED
  BY <1>2, <1>3

\* One page loses one record, and only when it says that there is more.
LEMMA LostPage ==
  ASSUME ListTypeOK, query.back, query.kind \in ByID,
         cursor \notin due \ seen,
         NEW F \in Fetches, NEW P \in Pages(F), Answer(F, P),
         UNCHANGED <<table, query, due, swayed>>
  PROVE  /\ cursor' \notin due' \ seen'
         /\ \/ Lost' \subseteq Lost
            \/ HasMore(F) /\ \E x : Lost' \subseteq Lost \union {x}
<1>1. /\ cursor' \in Onward(P) /\ seen' = seen \union P
      /\ due' = due /\ query' = query /\ starts' = starts
  BY DEF Answer, table
<1>2. /\ P \subseteq F /\ F \subseteq Selected /\ Selected \subseteq IDs /\ due \subseteq IDs
      /\ cursor \in IDs /\ cursor # None
  <2>1. P \subseteq F /\ F \subseteq Selected /\ Selected \subseteq IDs /\ due \subseteq IDs
    BY PageRows DEF ListTypeOK
  <2>2. cursor \in IDs
    BY DEF ListTypeOK
  <2> QED
    BY <2>1, <2>2, IDAssumption DEF None
<1>3. cursor' \in P \/ cursor' = cursor
  BY <1>1, CursorOnPage
<1>4. cursor' \notin due' \ seen'
  BY <1>1, <1>3
<1>5. ASSUME NEW i \in Lost'
      PROVE  i \in Lost \/ (i \in F \ P)
  <2>1. i \in due /\ i \notin seen /\ i \notin P /\ i \in IDs /\ Precedes(cursor', i)
    BY <1>1, <1>2 DEF Lost, Precedes, Before
  <2>2. CASE Precedes(cursor, i)
    BY <2>1, <2>2 DEF Lost
  <2>3. CASE ~Precedes(cursor, i)
    <3>1. Precedes(i, cursor)
      BY <1>2, <2>1, <2>3, AheadTotal DEF Ahead, ByID
    <3>2. i \in Selected
      BY <2>1, <3>1 DEF Selected, Beyond, ListTypeOK
    <3>3. cursor' \in F
      BY <1>2, <1>3, <2>1, <2>3
    <3>4. i \in F
      BY <2>1, <3>2, <3>3 DEF Fetches, Nearer, Reversed, ByID
    <3> QED
      BY <2>1, <3>4
  <2> QED
    BY <2>2, <2>3
<1>6. CASE HasMore(F)
  <2>1. PICK x : P = F \ {x}
    BY <1>6 DEF Pages
  <2> QED
    BY <1>4, <1>5, <1>6, <2>1
<1>7. CASE ~HasMore(F)
  BY <1>4, <1>5, <1>7 DEF Pages
<1> QED
  BY <1>6, <1>7

LEMMA LostStep == ListTypeOK /\ ListTypeOK' /\ BackInv /\ [ListNext]_vars => BackInv'
<1> SUFFICES ASSUME ListTypeOK, ListTypeOK', BackInv, [ListNext]_vars,
                    query'.back, query'.kind \in ByID
             PROVE  cursor' \notin due' \ seen' /\ Cardinality(Lost)' <= cuts'
  BY DEF BackInv
<1>0. query' = query
  BY DEF ListNext, vars, walk, GetPage, Appear, Disappear, Move
<1>1. cursor \notin due \ seen /\ Cardinality(Lost) <= cuts
  BY <1>0 DEF BackInv
<1>2. IsFiniteSet(Lost) /\ Cardinality(Lost) \in Nat /\ cuts \in Nat
  BY LostType
<1>3. IsFiniteSet(Lost') /\ Cardinality(Lost') \in Nat /\ cuts' \in Nat
  <2>1. Lost' \subseteq IDs /\ cuts' \in Nat
    BY DEF Lost, ListTypeOK
  <2> QED
    BY <2>1, IDAssumption, FS_Subset, FS_CardinalityType
<1>4. CASE GetPage
  <2>1. PICK F \in Fetches : \E P \in Pages(F) : Answer(F, P)
    BY <1>4 DEF GetPage
  <2>. PICK P \in Pages(F) : Answer(F, P)
    BY <2>1
  <2>2. UNCHANGED <<table, query, due, swayed>>
    BY <1>4 DEF GetPage
  <2>3. /\ cursor' \notin due' \ seen'
        /\ \/ Lost' \subseteq Lost
           \/ HasMore(F) /\ \E x : Lost' \subseteq Lost \union {x}
    BY <1>0, <1>1, <2>2, LostPage
  <2>4. cuts' = IF HasMore(F) THEN cuts + 1 ELSE cuts
    BY <1>0 DEF Answer
  <2>5. CASE Lost' \subseteq Lost
    <3>1. Cardinality(Lost') <= Cardinality(Lost)
      BY <1>2, <2>5, FS_Subset
    <3> QED
      BY <1>1, <1>2, <1>3, <2>3, <2>4, <3>1
  <2>6. ASSUME HasMore(F), NEW x, Lost' \subseteq Lost \union {x}
        PROVE  Cardinality(Lost') <= cuts'
    <3>1. /\ IsFiniteSet(Lost \union {x})
          /\ Cardinality(Lost \union {x}) <= Cardinality(Lost) + 1
      BY <1>2, OneMore
    <3>2. Cardinality(Lost') <= Cardinality(Lost \union {x})
      BY <2>6, <3>1, FS_Subset
    <3>3. Cardinality(Lost \union {x}) \in Nat
      BY <3>1, FS_CardinalityType
    <3> QED
      BY <1>1, <1>2, <1>3, <2>4, <2>6, <3>1, <3>2, <3>3
  <2> QED
    BY <2>3, <2>5, <2>6
<1>5. CASE UNCHANGED vars \/ \E i \in IDs : Appear(i) \/ Disappear(i)
  <2>1. /\ due' \subseteq due /\ seen' = seen /\ starts' = starts
        /\ cursor' = cursor /\ cuts' = cuts
    BY <1>5 DEF vars, walk, Appear, Disappear
  <2>2. Lost' \subseteq Lost
    BY <1>0, <2>1 DEF Lost, Precedes, Before
  <2>3. Cardinality(Lost') <= Cardinality(Lost)
    BY <1>2, <2>2, FS_Subset
  <2> QED
    BY <1>1, <1>2, <1>3, <2>1, <2>3
<1>6. ASSUME NEW i \in IDs, NEW t \in Times, Move(i, t)
      PROVE  FALSE
  BY <1>0, <1>6 DEF Move, ByID
<1> QED
  BY <1>4, <1>5, <1>6 DEF ListNext

\* Backwards, attendees and feedbacks lose at most one record with each page
\* that is not the last, however large listing and pages are.
THEOREM BackwardLossBounded == ListSpec => []BackSkipBound
<1>1. BackInv => BackSkipBound
  BY DEF BackInv, BackSkipBound, Lost
<1> QED
  BY <1>1, LostInit, LostStep, ListTypeCorrect, PTL DEF ListSpec
=============================================================================
