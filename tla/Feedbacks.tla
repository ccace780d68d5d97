----------------------------- MODULE Feedbacks -----------------------------
(***************************************************************************)
(* The feedback service, composed with the registration and conference     *)
(* services it asks.  CreateFeedback is four statements; the table has no  *)
(* constraint on user and conference.  A deleted feedback keeps its row,   *)
(* and the query for an earlier feedback does not look at deleted_at.      *)
(***************************************************************************)
EXTENDS Registrations

CONSTANTS
    FeedbackIDs,     \* identifiers the UUID generator may return
    FbReqs           \* slots for concurrent feedback requests

ASSUME FeedbackAssumption == IsFiniteSet(FeedbackIDs) /\ IsFiniteSet(FbReqs)

VARIABLES
    feedbacks,       \* the table, without its deleted_at column
    removed,         \* rows whose deleted_at is set
    fbTask           \* feedback requests in flight

fbVars == <<feedbacks, removed, fbTask>>
allVars == <<now, conferences, deleted, task, registrations, regTask,
             feedbacks, removed, fbTask>>

Feedback == [user : Users, conf : ConfIDs]
NoFeedback == [user |-> "nobody"]

\* Once the conference has been read, its end is all that is still used of it.
FbTask == [pc : {"isGiven", "conference"}, user : Users, conf : ConfIDs]
            \union [pc : {"ended", "insert"}, user : Users, conf : ConfIDs, ends : Nat]

FbGoto(f, t) == fbTask' = [fbTask EXCEPT ![f] = t]
FbContinue(f, ok, pc) == FbGoto(f, IF ok THEN [fbTask[f] EXCEPT !.pc = pc] ELSE Idle)

\* All that one user has ever said about one conference, deleted or not.
Said(u, c) == {i \in FeedbackIDs : feedbacks[i] = [user |-> u, conf |-> c]}

-----------------------------------------------------------------------------
FbInit ==
    /\ RegInit
    /\ feedbacks = [i \in FeedbackIDs |-> NoFeedback]
    /\ removed = {}
    /\ fbTask = [f \in FbReqs |-> Idle]

\* Mutant: attendance is not asked for.
MayGiveUnregistered(u, c) == TRUE

\* IsUserRegisteredToConference
MayGive(u, c) == u \in Taken(c)

GiveIsRegistered(f, u, c) ==
    /\ fbTask[f] = Idle
    /\ MayGive(u, c)
    /\ FbGoto(f, [pc |-> "isGiven", user |-> u, conf |-> c])
    /\ UNCHANGED <<feedbacks, removed>>

\* Mutant: the two identifiers change places on the way to the query.
IsGivenSwapped(u, c) == Said(c, u) # {}

IsGiven(u, c) == Said(u, c) # {}

GiveIsGiven(f) ==
    /\ fbTask[f].pc = "isGiven"
    /\ FbContinue(f, ~IsGiven(fbTask[f].user, fbTask[f].conf), "conference")
    /\ UNCHANGED <<feedbacks, removed>>

\* GetConferenceByID finds it for this user, who is not the host.
MayComment(u, c) ==
    /\ Live(c)
    /\ conferences[c].status = "approved"
    /\ conferences[c].host # u

\* Mutant: the start is taken for the end.
KnownStart(c) == conferences[c].starts

KnownEnd(c) == conferences[c].ends

GiveConference(f) ==
    /\ fbTask[f].pc = "conference"
    /\ LET u == fbTask[f].user
           c == fbTask[f].conf
       IN  FbGoto(f, IF MayComment(u, c)
                     THEN [pc |-> "ended", user |-> u, conf |-> c, ends |-> KnownEnd(c)]
                     ELSE Idle)
    /\ UNCHANGED <<feedbacks, removed>>

\* The clock is read after the row, and a later reading refuses less: the
\* conference may be deleted in between and come to its end then.
GiveEnded(f) ==
    /\ fbTask[f].pc = "ended"
    /\ FbContinue(f, fbTask[f].ends <= now, "insert")
    /\ UNCHANGED <<feedbacks, removed>>

GiveInsert(f) ==
    /\ fbTask[f].pc = "insert"
    /\ \E i \in FeedbackIDs :
          /\ feedbacks[i] = NoFeedback
          /\ feedbacks' = [feedbacks EXCEPT ![i] = [user |-> fbTask[f].user,
                                                    conf |-> fbTask[f].conf]]
    /\ FbGoto(f, Idle)
    /\ UNCHANGED removed

GiveFail(f) ==
    /\ fbTask[f] # Idle
    /\ FbGoto(f, Idle)
    /\ UNCHANGED <<feedbacks, removed>>

Give(f) ==
    \/ \E u \in Users, c \in ConfIDs : GiveIsRegistered(f, u, c)
    \/ GiveIsGiven(f)
    \/ GiveConference(f)
    \/ GiveEnded(f)
    \/ GiveInsert(f)
    \/ GiveFail(f)

\* Mutant: no look at the number of rows the statement has touched.
DeleteFeedbackAny(i) ==
    /\ removed' = removed \union {i}
    /\ UNCHANGED <<feedbacks, fbTask>>

\* Mutant: the row is deleted for good, and its author free to write again.
DeleteFeedbackForGood(i) ==
    /\ feedbacks[i] # NoFeedback
    /\ feedbacks' = [feedbacks EXCEPT ![i] = NoFeedback]
    /\ removed' = removed \ {i}
    /\ UNCHANGED fbTask

\* DeleteFeedback, by an event coordinator: one statement.
DeleteFeedback(i) ==
    /\ feedbacks[i] # NoFeedback
    /\ removed' = removed \union {i}
    /\ UNCHANGED <<feedbacks, fbTask>>

FbNext ==
    \/ RegNext /\ UNCHANGED fbVars
    \/ /\ \/ \E f \in FbReqs : Give(f)
          \/ \E i \in FeedbackIDs : DeleteFeedback(i)
       /\ UNCHANGED vars

FbSpec == FbInit /\ [][FbNext]_allVars

-----------------------------------------------------------------------------
(* Properties *)

FbTypeOK ==
    /\ feedbacks \in [FeedbackIDs -> Feedback \union {NoFeedback}]
    /\ removed \subseteq {i \in FeedbackIDs : feedbacks[i] # NoFeedback}
    /\ fbTask \in [FbReqs -> {Idle} \union FbTask]

\* "You already gave feedback to this conference." (ErrFeedbackAlreadyGiven):
\* nobody ever gives more feedback to one conference than requests can be in
\* flight, even when a coordinator deletes what was given; one, when they are
\* served one at a time.
FeedbackBound ==
    \A u \in Users, c \in ConfIDs : Cardinality(Said(u, c)) <= Cardinality(FbReqs)

\* Feedback is given by attendees, and a host is none of their own conference,
\* although attendance and host are looked up in different statements.
FeedbackFromAttendees ==
    \A i \in FeedbackIDs : feedbacks[i] # NoFeedback =>
        /\ feedbacks[i].user \in Taken(feedbacks[i].conf)
        /\ feedbacks[i].user # conferences[feedbacks[i].conf].host

\* Feedback is given to conferences that were approved and are over, and they
\* stay so: nothing can move or reopen a conference once feedback is in.  True
\* as long as conference requests are served one at a time.
FeedbackAfterEnd ==
    \A i \in FeedbackIDs : feedbacks[i] # NoFeedback =>
        /\ conferences[feedbacks[i].conf].status = "approved"
        /\ conferences[feedbacks[i].conf].ends <= now

Auditorium == INSTANCE AuditoriumPlan
                WITH RegSlots <- Cardinality(RegReqs), FbSlots <- Cardinality(FbReqs)

\* With conference requests served one at a time, the three services have the
\* effect of the indivisible steps of AuditoriumPlan, however registrations,
\* feedbacks and their failures interleave.
ImplementsAuditorium == Auditorium!AttendSpec
=============================================================================
