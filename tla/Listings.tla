------------------------------ MODULE Listings ------------------------------
(***************************************************************************)
(* A client reads one of the program's four paged listings to the end      *)
(* while other requests change what is listed:                             *)
(*                                                                         *)
(*   attendees      GetRegisteredUsersByConference, by user identifier     *)
(*   feedbacks      GetFeedbacksByConferenceID, by feedback identifier     *)
(*   agenda         GetRegisteredConferencesByUser, by start only          *)
(*   conferences    GetConferences, by start and identifier                *)
(*                                                                         *)
(* Each page is one query of at most limit + 1 rows beyond a cursor, the   *)
(* identifier of a record shown before; the server remembers nothing       *)
(* between two pages.                                                      *)
(***************************************************************************)
EXTENDS Integers, FiniteSets

CONSTANTS
    IDs,        \* identifiers, in the order the database compares them
    Times,      \* starts of conferences
    Limits      \* page sizes a client may ask for

ASSUME IDAssumption == IDs \subseteq Nat /\ IsFiniteSet(IDs)
ASSUME TimeAssumption == Times \subseteq Nat
ASSUME LimitAssumption == Limits \subseteq Nat \ {0}

Kinds == {"attendees", "feedbacks", "agenda", "conferences"}
ByID == {"attendees", "feedbacks"}

\* The query has no cursor: neither after_id nor before_id.
None == -1

VARIABLES
    listed,     \* records the query selects, paging aside
    starts,     \* start of every conference, of those not listed too
    query,      \* what the client asks for with every page but the cursor
    cursor,     \* the identifier the client sends along
    done,       \* the last answer said that there is no more
    \* Remembered for the properties.
    due,        \* listed, ahead of the walk when it began, and untouched since
    seen,       \* shown on some page
    repeated,   \* a record that was due and seen has been shown again
    swayed,     \* the conference at the cursor has been moved
    stops,      \* starts the pages of an agenda have ended with
    cuts        \* pages of a listing by identifier that said there is more

table == <<listed, starts>>
walk == <<query, cursor, done>>
vars == <<listed, starts, query, cursor, done, due, seen, repeated, swayed, stops, cuts>>

-----------------------------------------------------------------------------
(* The query.                                                              *)

Queries == [kind : Kinds, limit : Limits, back : BOOLEAN, desc : BOOLEAN]

\* ORDER BY as the client is to see it, were it ascending.
Before(i, j) ==
    \/ query.kind \in ByID /\ i < j
    \/ query.kind = "agenda" /\ starts[i] < starts[j]
    \/ /\ query.kind = "conferences"
       /\ starts[i] < starts[j] \/ (starts[i] = starts[j] /\ i < j)

\* order=desc, of conferences only.
Precedes(i, j) == IF query.desc THEN Before(j, i) ELSE Before(i, j)

\* Mutant: the cursor's own record is beyond it.
NotShort(i) == \/ cursor = None
               \/ IF query.back THEN ~Precedes(cursor, i) ELSE ~Precedes(i, cursor)

\* The condition on the cursor.  A conference is compared with where the
\* cursor's conference is by now, listed or not.
Beyond(i) == \/ cursor = None
             \/ IF query.back THEN Precedes(i, cursor) ELSE Precedes(cursor, i)

Selected == {i \in listed : Beyond(i)}

\* Mutant: before_id leaves the order of the query as it is.
NeverReversed == FALSE

\* before_id turns the order of the query around, except for conferences.
Reversed == query.back /\ query.kind # "conferences"
Nearer(i, j) == IF Reversed THEN Precedes(j, i) ELSE Precedes(i, j)

\* The query's rows, in any of the orders ORDER BY leaves open.
Fetches ==
    {F \in SUBSET Selected :
        /\ Cardinality(F) <= query.limit + 1
        /\ Cardinality(F) = query.limit + 1 \/ F = Selected
        /\ \A i \in F, j \in Selected \ F : ~Nearer(j, i)}

HasMore(F) == Cardinality(F) > query.limit

FirstRows(F) == {i \in F : \A j \in F : ~Nearer(j, i)}
LastRows(F) == {i \in F : \A j \in F : ~Nearer(i, j)}

\* Mutant: the first row goes whichever way the client reads.
ExtraFirst(F) == FirstRows(F)

\* The row that is taken away when there is one too many: the last of the
\* query, but when the order has been turned around, the first.
Extra(F) == IF Reversed THEN FirstRows(F) ELSE LastRows(F)

Pages(F) == IF HasMore(F) THEN {F \ {i} : i \in Extra(F)} ELSE {F}

\* Mutant: the cursor is the row that has been taken away.
OnwardExtra(P) ==
    IF P = Selected THEN {cursor}
    ELSE {i \in Selected \ P : \A j \in Selected \ P : ~Nearer(j, i)}

\* Mutant: first_id and last_id change places.
OnwardSwapped(P) ==
    IF P = {} THEN {cursor}
    ELSE IF query.back THEN {i \in P : \A j \in P : ~Precedes(i, j)}
    ELSE {i \in P : \A j \in P : ~Precedes(j, i)}

\* last_id or first_id of the page, once it is in the order of the listing.
\* The client keeps its cursor when the page is empty and they are null.
Onward(P) ==
    IF P = {} THEN {cursor}
    ELSE IF query.back THEN {i \in P : \A j \in P : ~Precedes(j, i)}
    ELSE {i \in P : \A j \in P : ~Precedes(i, j)}

-----------------------------------------------------------------------------
\* A client starts at the beginning, or goes back from a record it has been shown.
ListInit ==
    /\ query \in {q \in Queries : q.desc => q.kind = "conferences"}
    /\ listed \in SUBSET IDs
    /\ starts \in [IDs -> Times]
    /\ query.kind \in ByID => \A i, j \in IDs : starts[i] = starts[j]
    /\ cursor \in IF query.back THEN listed ELSE {None}
    /\ done = FALSE
    /\ due = Selected
    /\ seen = {}
    /\ repeated = FALSE
    /\ swayed = FALSE
    /\ stops = {}
    /\ cuts = 0

\* F are the rows of the query and P those on the page.
Answer(F, P) ==
    /\ cursor' \in Onward(P)
    /\ done' = ~HasMore(F)
    /\ seen' = seen \union P
    /\ repeated' = (repeated \/ P \intersect seen \intersect due # {})
    /\ stops' = IF query.kind = "agenda"
                THEN stops \union {starts[i] : i \in P \intersect {cursor'}}
                ELSE stops
    /\ cuts' = IF query.kind \in ByID /\ HasMore(F) THEN cuts + 1 ELSE cuts

\* The client asks for the next page and is answered.
GetPage ==
    /\ ~done
    /\ \E F \in Fetches : \E P \in Pages(F) : Answer(F, P)
    /\ UNCHANGED <<table, query, due, swayed>>

(* The other requests, and the clock.  What happens once the client has    *)
(* the last page does not concern it.                                      *)

\* A registration, a feedback, a proposal or a decision adds a record
\* anywhere: identifiers are drawn before rows are inserted.
Appear(i) ==
    /\ ~done
    /\ listed' = listed \union {i}
    /\ i \notin listed
    /\ UNCHANGED <<starts, walk, due, seen, repeated, swayed, stops, cuts>>

\* A feedback or a conference is deleted, a conference is decided on or ends.
\* Nobody unregisters.
Disappear(i) ==
    /\ ~done
    /\ query.kind # "attendees"
    /\ i \in listed
    /\ listed' = listed \ {i}
    /\ due' = due \ {i}
    /\ UNCHANGED <<starts, walk, seen, repeated, swayed, stops, cuts>>

\* A host moves a pending conference; and one that has been approved, and has
\* its registrations, when the edit read the row while it was pending.
Move(i, t) ==
    /\ ~done
    /\ query.kind \notin ByID
    /\ t # starts[i]
    /\ starts' = [starts EXCEPT ![i] = t]
    /\ due' = due \ {i}
    /\ swayed' = (swayed \/ i = cursor)
    /\ UNCHANGED <<listed, walk, seen, repeated, stops, cuts>>

ListNext ==
    \/ GetPage
    \/ \E i \in IDs :
          \/ Appear(i)
          \/ Disappear(i)
          \/ \E t \in Times : Move(i, t)

\* The client keeps asking as long as there is more.
ListSpec == ListInit /\ [][ListNext]_vars /\ WF_vars(GetPage)

-----------------------------------------------------------------------------
(* Properties *)

\* The cursor is a record the client has been shown.
ListTypeOK ==
    /\ listed \subseteq IDs /\ seen \subseteq IDs /\ due \subseteq listed
    /\ starts \in [IDs -> Times]
    /\ query \in Queries
    /\ cursor \in IF query.back THEN IDs ELSE seen \union {None}
    /\ done \in BOOLEAN /\ repeated \in BOOLEAN /\ swayed \in BOOLEAN
    /\ stops \subseteq Times
    /\ cuts \in Nat

\* "Request one extra record to determine if there are more results": whoever
\* reads a listing forwards to the end has been shown everything that was there
\* all the time, whatever came, went and moved between two pages.  In an agenda,
\* only what starts when the last conference of a page did, as that page was
\* shown, may be missing; and a client may miss conferences when the one it
\* stands at is moved.
NothingSkipped ==
    done /\ ~query.back /\ ~swayed =>
        \A i \in due \ seen : query.kind = "agenda" /\ starts[i] \in stops

\* Nothing that stays where it is is shown twice, in either direction, unless
\* the conference the client stands at is moved.
NothingTwice == ~swayed => ~repeated

\* Read backwards, attendees and feedbacks lose a record with every page that
\* is not the last, since it is the record next to the cursor that is taken
\* away and not the extra one; but never more than that.
BackSkipBound ==
    query.back /\ query.kind \in ByID =>
        Cardinality({i \in due \ seen : Precedes(cursor, i)}) <= cuts

MoveCursor == cursor # None /\ \E t \in Times : Move(cursor, t)

\* A client that goes on reaches the last page although records come, go and
\* move between any two pages, unless the conference it stands at is moved for
\* ever.  There are finitely many identifiers here: were records added beyond
\* the cursor for ever, as UUIDs ordered by time allow, there would always be
\* more.
WalkEnds == <>done \/ []<><<MoveCursor>>_vars
=============================================================================
