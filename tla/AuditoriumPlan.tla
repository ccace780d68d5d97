--------------------------- MODULE AuditoriumPlan ---------------------------
(***************************************************************************)
(* What the conference, registration and feedback services promise         *)
(* together, with every request one indivisible step.  How often the seats *)
(* and the rule of one feedback can be overrun depends on how many         *)
(* requests of a kind are served at once: not at all when it is one.       *)
(***************************************************************************)
EXTENDS ConferencePlan, FiniteSets

CONSTANTS
    FeedbackIDs,
    RegSlots,        \* registrations that may be served at once
    FbSlots          \* feedbacks that may be served at once

VARIABLES registrations, feedbacks, removed

attendVars == <<registrations, feedbacks, removed>>

Attendees(c) == {u \in Users : <<u, c>> \in registrations}
Feedback == [user : Users, conf : ConfIDs]
NoFeedback == [user |-> "nobody"]
Given(u, c) == {i \in FeedbackIDs : feedbacks[i] = [user |-> u, conf |-> c]}

AttendInit ==
    /\ Init
    /\ registrations = {}
    /\ feedbacks = [i \in FeedbackIDs |-> NoFeedback]
    /\ removed = {}

\* A guest takes a seat, of a conference that does not overlap another one
\* they attend.  It may have been cancelled while the request was served.
Attend(u, c) ==
    /\ <<u, c>> \notin registrations
    /\ registrations' = registrations \union {<<u, c>>}
    /\ conferences[c].status = "approved"
    /\ conferences[c].host # u
    /\ Cardinality(Attendees(c)) < conferences[c].seats + (RegSlots - 1)
    /\ c \in Approved => \A d \in Approved \ {c} :
                            u \in Attendees(d) => ~Overlaps(conferences[d], conferences[c])
    /\ UNCHANGED <<feedbacks, removed>>

\* Who was there says something about a conference that is over.
Give(i) ==
    LET new == feedbacks'[i]
    IN  /\ feedbacks[i] = NoFeedback
        /\ new \in Feedback
        /\ feedbacks' = [feedbacks EXCEPT ![i] = new]
        /\ new.user \in Attendees(new.conf)
        /\ conferences[new.conf].ends <= now
        /\ Cardinality(Given(new.user, new.conf)) < FbSlots
        /\ UNCHANGED <<registrations, removed>>

\* A feedback is hidden, not forgotten.
Hide(i) ==
    /\ feedbacks[i] # NoFeedback
    /\ removed' = removed \union {i}
    /\ UNCHANGED <<registrations, feedbacks>>

AttendNext ==
    \/ UNCHANGED attendVars /\ Next
    \/ /\ UNCHANGED planVars
       /\ \/ \E u \in Users, c \in ConfIDs : Attend(u, c)
          \/ \E i \in FeedbackIDs : Give(i) \/ Hide(i)

AttendSpec == AttendInit /\ [][AttendNext]_<<planVars, attendVars>>
=============================================================================
