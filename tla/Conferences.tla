---------------------------- MODULE Conferences ----------------------------
(***************************************************************************)
(* The conference service: proposals, edits, decisions and cancellations   *)
(* of conferences in the one auditorium.                                   *)
(*                                                                         *)
(* Every request is served by a handler that issues several autocommitted  *)
(* SQL statements; there is no transaction and no lock, and two replicas   *)
(* of the server share the database.  One action below is one statement    *)
(* together with the code that runs after it and before the next one.  A   *)
(* request that is refused leaves the table alone, so a request refused    *)
(* by its first statement is no step at all.                               *)
(*                                                                         *)
(* The clock reads of this service belong to the statement before them:    *)
(* they refuse what has begun or is over, so that a later reading could    *)
(* only refuse a request that an earlier one lets through, and Fail covers *)
(* a request given up at any point.  (What a query is told of the clock is *)
(* read before it runs, and there an earlier reading refuses more.)        *)
(***************************************************************************)
EXTENDS Naturals, FiniteSets, TimeWindow

CONSTANTS
    ConfIDs,       \* identifiers the UUID generator may return
    Users,         \* people with role user: the possible hosts
    HostReqs,      \* slots for concurrent requests of hosts
    DeskReqs,      \* slots for concurrent requests of event coordinators
    Windows,       \* windows a request may ask for, disordered ones included
    SeatChoices,   \* seat counts a proposal may ask for
    MaxTime,       \* bound on the clock
    Seeds          \* conference tables the system may start from

Reqs == HostReqs \union DeskReqs

Decided == {"approved", "rejected"}
Statuses == {"pending"} \union Decided

\* entity.Conference: the columns UpdateConference writes back as a whole.
Entities == [status : Statuses, host : Users, seats : Nat \ {0},
             starts : Nat, ends : Nat]

\* A row that has not been inserted.
NoRow == [status |-> "absent"]

Tables == [ConfIDs -> Entities \union {NoRow}]

ASSUME FiniteAssumption == IsFiniteSet(ConfIDs) /\ IsFiniteSet(DeskReqs)
ASSUME WindowAssumption == Windows \subseteq [starts : Nat, ends : Nat]
ASSUME SeatAssumption == SeatChoices \subseteq Nat \ {0}
ASSUME ClockAssumption == MaxTime \in Nat
ASSUME SeedAssumption ==
    /\ Seeds \subseteq Tables
    /\ \A t \in Seeds : \A c \in ConfIDs : t[c] # NoRow => Ordered(t[c])

VARIABLES
    now,           \* the clock all replicas read
    conferences,   \* the table, without its deleted_at column
    deleted,       \* rows whose deleted_at is set
    task           \* what each request is about to do, with its local variables

confVars == <<now, conferences, deleted, task>>

-----------------------------------------------------------------------------
(* Requests in flight.  pc names the statement to run next; row is the     *)
(* handler's private copy of a conference, conf its identifier.            *)

Idle == [pc |-> "idle"]
CreateTask == [pc : {"create.conflicts", "create.insert"}, row : Entities]
WriteTask == [pc : {"update.conflicts", "update.write",
                    "status.conflicts", "status.write"},
              conf : ConfIDs, row : Entities]
DeleteTask == [pc : {"delete.write"}, conf : ConfIDs]

Goto(r, t) == task' = [task EXCEPT ![r] = t]

\* Go on to pc if the statement found nothing against it, give up otherwise.
Continue(r, ok, pc) == Goto(r, IF ok THEN [task[r] EXCEPT !.pc = pc] ELSE Idle)

-----------------------------------------------------------------------------
(* What the queries see.                                                   *)

\* Mutant: the query forgets deleted_at.
LiveOrDeleted(c) == conferences[c] # NoRow

\* Rows GetConferenceByID finds.
Live(c) == conferences[c] # NoRow /\ c \notin deleted

Approved == {c \in ConfIDs \ deleted : conferences[c].status = "approved"}

\* Mutant: looks only for conferences that start within the window.
ConflictingStarts(w, self) ==
    {c \in Approved \ self : /\ conferences[c].starts >= w.starts
                             /\ conferences[c].starts < w.ends}

\* GetConferencesConflictingWithTime; self is the excluded row, if any.
Conflicting(w, self) ==
    {c \in Approved \ self : Overlaps(conferences[c], w)}

ActiveProposals(u) ==
    {c \in ConfIDs \ deleted : /\ conferences[c].status = "pending"
                               /\ conferences[c].host = u
                               /\ conferences[c].ends > now}

\* Mutant: a pending conference that has begun no longer counts.
MayProposeOnceBegun(u) == \A c \in ActiveProposals(u) : conferences[c].starts <= now

\* The first query of a proposal: the host's pending conferences, past ones
\* left out (ends_at > now).
MayPropose(u) == ActiveProposals(u) = {}

\* Mutant: the order of the two ends is not checked.
AcceptsFuture(w) == w.starts >= now

\* ErrTimeAlreadyPassed and ErrEndTimeBeforeStart, for proposals and edits.
Accepts(w) == w.starts >= now /\ Ordered(w)

-----------------------------------------------------------------------------
ConfInit ==
    /\ now = 0
    /\ conferences \in Seeds
    /\ deleted = {}
    /\ task = [r \in Reqs |-> Idle]

\* Time passes between any two statements of any request.
Tick ==
    /\ now < MaxTime
    /\ now' = now + 1
    /\ UNCHANGED <<conferences, deleted, task>>

(* CreateConferenceProposal *)

CreateActive(r, u, w, n) ==
    /\ task[r] = Idle
    /\ MayPropose(u)
    /\ Goto(r, [pc |-> "create.conflicts",
                row |-> [status |-> "pending", host |-> u, seats |-> n,
                         starts |-> w.starts, ends |-> w.ends]])
    /\ UNCHANGED <<now, conferences, deleted>>

CreateConflicts(r) ==
    /\ task[r].pc = "create.conflicts"
    /\ LET row == task[r].row
       IN  Continue(r, Conflicting(row, {}) = {} /\ Accepts(row), "create.insert")
    /\ UNCHANGED <<now, conferences, deleted>>

FreshID(c) == conferences[c] = NoRow

CreateInsert(r) ==
    /\ task[r].pc = "create.insert"
    /\ \E c \in ConfIDs :
          /\ FreshID(c)
          /\ conferences' = [conferences EXCEPT ![c] = task[r].row]
    /\ Goto(r, Idle)
    /\ UNCHANGED <<now, deleted>>

(* UpdateConference.  An edit either leaves the window alone or names both *)
(* its ends: with only one of them the handler dereferences the missing    *)
(* pointer, panics and is answered with an error, having written nothing.  *)

\* Mutant: whatever the status is.
MayUpdateDecided(u, c) ==
    /\ Live(c)
    /\ conferences[c].host = u
    /\ conferences[c].ends >= now

MayUpdate(u, c) ==
    /\ Live(c)
    /\ conferences[c].host = u
    /\ conferences[c].ends >= now
    /\ conferences[c].status = "pending"

UpdateGetDetails(r, u, c) ==
    /\ task[r] = Idle
    /\ MayUpdate(u, c)
    /\ Goto(r, [pc |-> "update.write", conf |-> c, row |-> conferences[c]])
    /\ UNCHANGED <<now, conferences, deleted>>

UpdateGetWindow(r, u, c, w) ==
    /\ task[r] = Idle
    /\ MayUpdate(u, c)
    /\ Accepts(w)
    /\ Goto(r, [pc |-> "update.conflicts", conf |-> c,
                row |-> [conferences[c] EXCEPT !.starts = w.starts,
                                               !.ends = w.ends]])
    /\ UNCHANGED <<now, conferences, deleted>>

UpdateConflicts(r) ==
    /\ task[r].pc = "update.conflicts"
    /\ Continue(r, Conflicting(task[r].row, {task[r].conf}) = {}, "update.write")
    /\ UNCHANGED <<now, conferences, deleted>>

\* repository UpdateConference: every column of the private copy, whatever
\* the row holds by now, and whether or not it is deleted.
WriteRow(r) ==
    /\ conferences' = [conferences EXCEPT ![task[r].conf] = task[r].row]
    /\ Goto(r, Idle)
    /\ UNCHANGED <<now, deleted>>

UpdateWrite(r) ==
    /\ task[r].pc = "update.write"
    /\ WriteRow(r)

(* UpdateConferenceStatus.  Any of the three statuses may be asked for.    *)

\* Mutant: a decision may be taken again.
MayRedecide(c, to) == Live(c) /\ (conferences[c].starts >= now \/ to = "rejected")

MayDecide(c, to) ==
    /\ Live(c)
    /\ conferences[c].status = "pending"
    /\ conferences[c].starts >= now \/ to = "rejected"

\* Mutant: the hall is not looked at again when approving.
AfterGetUnchecked(to) == "status.write"

\* Only an approval needs the hall to be free.
AfterGet(to) == IF to = "approved" THEN "status.conflicts" ELSE "status.write"

StatusGet(r, c, to) ==
    /\ task[r] = Idle
    /\ MayDecide(c, to)
    /\ Goto(r, [pc |-> AfterGet(to), conf |-> c,
                row |-> [conferences[c] EXCEPT !.status = to]])
    /\ UNCHANGED <<now, conferences, deleted>>

StatusConflicts(r) ==
    /\ task[r].pc = "status.conflicts"
    /\ Continue(r, Conflicting(task[r].row, {task[r].conf}) = {}, "status.write")
    /\ UNCHANGED <<now, conferences, deleted>>

StatusWrite(r) ==
    /\ task[r].pc = "status.write"
    /\ WriteRow(r)

(* DeleteConference: by the host, or by any event coordinator.             *)

DeleteGet(r, c) ==
    /\ task[r] = Idle
    /\ Live(c)
    /\ Goto(r, [pc |-> "delete.write", conf |-> c])
    /\ UNCHANGED <<now, conferences, deleted>>

DeleteWrite(r) ==
    /\ task[r].pc = "delete.write"
    /\ deleted' = deleted \union {task[r].conf}
    /\ Goto(r, Idle)
    /\ UNCHANGED <<now, conferences>>

\* A statement returns an error, the handler panics, or the replica that
\* serves the request dies: what was written stays, the rest is not run.
Fail(r) ==
    /\ task[r] # Idle
    /\ Goto(r, Idle)
    /\ UNCHANGED <<now, conferences, deleted>>

HostStart(r) == \E u \in Users :
    \/ \E w \in Windows, n \in SeatChoices : CreateActive(r, u, w, n)
    \/ \E c \in ConfIDs :
          \/ UpdateGetDetails(r, u, c)
          \/ \E w \in Windows : UpdateGetWindow(r, u, c, w)
          \/ conferences[c] # NoRow /\ conferences[c].host = u /\ DeleteGet(r, c)

\* Mutant: the requested status is not validated.
DeskStartAnyStatus(r) ==
    \E c \in ConfIDs, to \in Statuses \union {"cancelled"} : StatusGet(r, c, to)

DeskStart(r) == \E c \in ConfIDs :
    \/ \E to \in Statuses : StatusGet(r, c, to)
    \/ DeleteGet(r, c)

Resume(r) ==
    \/ CreateConflicts(r) \/ CreateInsert(r)
    \/ UpdateConflicts(r) \/ UpdateWrite(r)
    \/ StatusConflicts(r) \/ StatusWrite(r)
    \/ DeleteWrite(r)
    \/ Fail(r)

ConfNext ==
    \/ Tick
    \/ \E r \in HostReqs : HostStart(r)
    \/ \E r \in DeskReqs : DeskStart(r)
    \/ \E r \in Reqs : Resume(r)

ConfSpec == ConfInit /\ [][ConfNext]_confVars

-----------------------------------------------------------------------------
(* Properties *)

TypeOK ==
    /\ now \in 0..MaxTime
    /\ conferences \in Tables
    /\ deleted \subseteq ConfIDs
    /\ task \in [Reqs -> {Idle} \union CreateTask \union WriteTask \union DeleteTask]

\* No row ever has a window that ends before it starts, although the table
\* does not check it and rows are rewritten from copies taken earlier.
WindowOrdered ==
    \A c \in ConfIDs : conferences[c] # NoRow => Ordered(conferences[c])

\* The auditorium is never promised twice: approved conferences do not
\* overlap.  True as long as one coordinator decides at a time, whatever the
\* hosts do meanwhile.
NoOverlapApproved ==
    \A c, d \in Approved : c # d => ~Overlaps(conferences[c], conferences[d])

InUse(t) == {c \in Approved : Occupies(conferences[c], t)}
DeskLimit == IF DeskReqs = {} THEN 1 ELSE Cardinality(DeskReqs)

\* With several coordinators deciding at once the damage is bounded: at no
\* time is the hall promised to more conferences than there are decisions in
\* flight.
OverlapBound ==
    \A c \in Approved : Cardinality(InUse(conferences[c].starts)) <= DeskLimit

\* "You're not allowed to update a conference that is not pending."
\* (ErrUpdateNotPendingConference): a decided conference keeps its status and
\* its window.  True of requests served one at a time.
NotPendingNotUpdated ==
    [][\A c \in ConfIDs : conferences[c].status \in Decided =>
          conferences'[c] = conferences[c]]_confVars

\* The same with one coordinator at a time and any number of hosts: what a
\* stale edit writes back may make a decided conference pending again, but no
\* decision ever turns into the other one, and while it stands the window does.
DecisionsOnlyUndone ==
    [][\A c \in ConfIDs :
          conferences[c].status \in Decided /\ conferences'[c] # conferences[c] =>
             conferences'[c].status = "pending"]_confVars

\* "You already have an active proposal. Please wait until it's accepted or
\* delete it." (ErrUserHasActiveProposal): a host with a pending conference
\* still ahead gets no second one.
NoSecondProposal ==
    [][\A c \in ConfIDs : conferences[c] = NoRow /\ conferences'[c] # NoRow =>
          ActiveProposals(conferences'[c].host) = {}]_confVars

Plan == INSTANCE ConferencePlan

\* Served one at a time, requests have the effect of the indivisible steps of
\* ConferencePlan, whichever of their statements fails and however the clock
\* moves between them.
ImplementsPlan == Plan!Spec
=============================================================================
