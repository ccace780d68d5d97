--------------------------- MODULE Registrations ---------------------------
(***************************************************************************)
(* The registration service, composed with the conference service whose    *)
(* table it reads.  Register is five statements and no transaction; what   *)
(* it checks is a private copy of the conference row and a count that may  *)
(* both be old when the row is inserted.  There is no way to unregister.   *)
(***************************************************************************)
EXTENDS Conferences

CONSTANT RegReqs     \* slots for concurrent registration requests

ASSUME RegAssumption == IsFiniteSet(Users) /\ IsFiniteSet(RegReqs)

VARIABLES
    registrations,   \* pairs <<user, conference>>: the table's primary key
    regTask          \* registration requests in flight

regVars == <<registrations, regTask>>
vars == <<now, conferences, deleted, task, registrations, regTask>>

RegTask == [pc : {"isRegistered", "count", "clash", "insert"},
            user : Users, conf : ConfIDs, row : Entities]

Taken(c) == {u \in Users : <<u, c>> \in registrations}

\* Mutant: the query forgets deleted_at.
ClashingOrDeleted(u, w) ==
    {c \in ConfIDs : <<u, c>> \in registrations /\ Clashes(conferences[c], w)}

\* GetConflictingRegistrations: no look at the status of the conferences.
ClashingRegistrations(u, w) ==
    {c \in ConfIDs \ deleted : /\ <<u, c>> \in registrations
                               /\ Clashes(conferences[c], w)}

RegGoto(g, t) == regTask' = [regTask EXCEPT ![g] = t]
RegContinue(g, ok, pc) ==
    RegGoto(g, IF ok THEN [regTask[g] EXCEPT !.pc = pc] ELSE Idle)

-----------------------------------------------------------------------------
RegInit ==
    /\ ConfInit
    /\ registrations = {}
    /\ regTask = [g \in RegReqs |-> Idle]

\* Mutant: hosts are let in.
MayRegisterHost(u, c) ==
    /\ Live(c)
    /\ conferences[c].status = "approved"
    /\ conferences[c].ends >= now

\* GetConferenceByID hides what is deleted, and from anybody but the host
\* what is not approved; the host is refused next.
MayRegister(u, c) ==
    /\ Live(c)
    /\ conferences[c].status = "approved"
    /\ conferences[c].host # u
    /\ conferences[c].ends >= now

RegisterGet(g, u, c) ==
    /\ regTask[g] = Idle
    /\ MayRegister(u, c)
    /\ RegGoto(g, [pc |-> "isRegistered", user |-> u, conf |-> c,
                   row |-> conferences[c]])
    /\ UNCHANGED registrations

RegisterIsRegistered(g) ==
    /\ regTask[g].pc = "isRegistered"
    /\ RegContinue(g, regTask[g].user \notin Taken(regTask[g].conf), "count")
    /\ UNCHANGED registrations

\* Mutant: one registration too many.
HasSeatOffByOne(t) == Cardinality(Taken(t.conf)) <= t.row.seats

HasSeat(t) == Cardinality(Taken(t.conf)) < t.row.seats

RegisterCount(g) ==
    /\ regTask[g].pc = "count"
    /\ RegContinue(g, HasSeat(regTask[g]), "clash")
    /\ UNCHANGED registrations

RegisterClash(g) ==
    /\ regTask[g].pc = "clash"
    /\ RegContinue(g, ClashingRegistrations(regTask[g].user, regTask[g].row) = {},
                   "insert")
    /\ UNCHANGED registrations

\* Mutant: the two identifiers change places on the way to the INSERT.
RegisterInsertSwapped(g) ==
    /\ regTask[g].pc = "insert"
    /\ registrations' = registrations \union {<<regTask[g].conf, regTask[g].user>>}
    /\ RegGoto(g, Idle)

\* The primary key refuses a second row for the same user and conference.
RegisterInsert(g) ==
    /\ regTask[g].pc = "insert"
    /\ registrations' = registrations \union {<<regTask[g].user, regTask[g].conf>>}
    /\ RegGoto(g, Idle)

RegisterFail(g) ==
    /\ regTask[g] # Idle
    /\ RegGoto(g, Idle)
    /\ UNCHANGED registrations

Register(g) ==
    \/ \E u \in Users, c \in ConfIDs : RegisterGet(g, u, c)
    \/ RegisterIsRegistered(g)
    \/ RegisterCount(g)
    \/ RegisterClash(g)
    \/ RegisterInsert(g)
    \/ RegisterFail(g)

RegNext ==
    \/ ConfNext /\ UNCHANGED regVars
    \/ (\E g \in RegReqs : Register(g)) /\ UNCHANGED confVars

RegSpec == RegInit /\ [][RegNext]_vars

-----------------------------------------------------------------------------
(* Properties *)

RegTypeOK ==
    /\ registrations \subseteq Users \X ConfIDs
    /\ regTask \in [RegReqs -> {Idle} \union RegTask]

\* Requests that have read the count but not inserted their row yet are the
\* only ones that can exceed the seats: at most one less than can be in flight.
SeatBound ==
    \A c \in ConfIDs : conferences[c] # NoRow =>
        Cardinality(Taken(c)) < conferences[c].seats + Cardinality(RegReqs)

\* "Conference is full. You're not allowed to register anymore."
\* (ErrConferenceFull): true of registrations served one at a time.
SeatsNeverExceeded ==
    \A c \in ConfIDs : conferences[c] # NoRow =>
        Cardinality(Taken(c)) <= conferences[c].seats

\* A host never attends their own conference, although the check reads a copy
\* of the row made before the insert.
HostNeverAttends ==
    \A c \in ConfIDs : conferences[c] # NoRow =>
        conferences[c].host \notin Taken(c)

\* Whoever is registered is registered to a conference that has been approved
\* and stays so (it may have been cancelled since).  True as long as the
\* conference requests are served one at a time, whatever registrations do.
RegisteredStayApproved ==
    \A u \in Users, c \in ConfIDs :
        <<u, c>> \in registrations => conferences[c].status = "approved"

\* Nobody is registered to two standing conferences that overlap, although two
\* requests of the same user may both have found no clash before either inserts
\* (and so may attend two that touch, which the query for clashes refuses).
NoDoubleBooking ==
    \A u \in Users, c, d \in ConfIDs \ deleted :
        /\ c # d
        /\ <<u, c>> \in registrations
        /\ <<u, d>> \in registrations
        => ~Overlaps(conferences[c], conferences[d])

\* The end of one is the start of the other.
Touches(c, w) == c.ends = w.starts \/ w.ends = c.starts

\* What the query for clashes can find, besides the registration that another
\* request of the same user has just made to the same conference: none that
\* shares any time with a conference still standing, only one that ends when it
\* starts or starts when it ends.  True as long as the conference requests are
\* served one at a time.
ClashOnlyTouches ==
    \A g \in RegReqs : regTask[g].pc = "clash" /\ regTask[g].conf \notin deleted =>
        \A c \in ClashingRegistrations(regTask[g].user, regTask[g].row)
                   \ {regTask[g].conf} : Touches(conferences[c], regTask[g].row)

\* "This is unlikely to happen. There will never be conflicting approved
\* conferences" (Register): the clash query finds nothing.
ClashNeverFound ==
    \A g \in RegReqs : regTask[g].pc = "clash" =>
        ClashingRegistrations(regTask[g].user, regTask[g].row) = {}
=============================================================================
