------------------------- MODULE AuditoriumPlanProof -------------------------
(***************************************************************************)
(* What the plans are worth: that a system of indivisible requests keeps   *)
(* the promises the services make their users, apart from any program that *)
(* implements it.                                                          *)
(***************************************************************************)
EXTENDS AuditoriumPlan, FiniteSetTheorems, TLAPS

\* Tables of rows whose windows are in order and whose approved conferences
\* do not overlap.
FitSeeds ==
    /\ Seeds \subseteq [ConfIDs -> Row \union {NoRow}]
    /\ \A t \in Seeds : \A c \in ConfIDs : t[c] # NoRow => Ordered(t[c])
    /\ \A t \in Seeds : \A c, d \in ConfIDs :
          /\ c # d
          /\ t[c].status = "approved"
          /\ t[d].status = "approved"
          => ~Overlaps(t[c], t[d])

-----------------------------------------------------------------------------
(* The plan of the conferences. *)

PlanTypeOK ==
    /\ now \in Nat
    /\ conferences \in [ConfIDs -> Row \union {NoRow}]
    /\ deleted \subseteq ConfIDs

\* No conference ends before it starts, and the hall is never promised twice.
HallPromisedOnce ==
    /\ \A c \in ConfIDs : conferences[c] # NoRow => Ordered(conferences[c])
    /\ \A c, d \in Approved : c # d => ~Overlaps(conferences[c], conferences[d])

HallInv == PlanTypeOK /\ HallPromisedOnce

\* A row is not an absent one, and has the fields of a row.
LEMMA RowFields ==
  ASSUME NEW row \in Row
  PROVE  /\ row # NoRow
         /\ row.status \in {"pending", "approved", "rejected"}
         /\ row.starts \in Nat /\ row.ends \in Nat
  BY DEF Row, NoRow

LEMMA OverlapsBothWays ==
  ASSUME NEW v \in Row, NEW w \in Row
  PROVE  Overlaps(v, w) <=> Overlaps(w, v)
  BY DEF Row, Overlaps

\* How the plan writes the table: one row, of a conference that is not decided.
LEMMA PlanWrites ==
  ASSUME PlanTypeOK, NEW c \in ConfIDs,
         Propose(c) \/ Move(c) \/ \E to \in {"approved", "rejected"} : Decide(c, to)
  PROVE  /\ conferences[c].status \notin {"approved", "rejected"}
         /\ conferences'[c] \in Row
         /\ \A d \in ConfIDs : d # c => conferences'[d] = conferences[d]
         /\ conferences' \in [ConfIDs -> Row \union {NoRow}]
         /\ UNCHANGED <<now, deleted>>
<1>1. CASE Propose(c)
  BY <1>1 DEF Propose, PlanTypeOK, NoRow
<1>2. CASE Move(c)
  <2>1. conferences'[c] \in Row
    BY <1>2 DEF Move
  <2>2. /\ conferences[c] \in Row
        /\ conferences' = [conferences EXCEPT ![c] =
               [@ EXCEPT !.starts = conferences'[c].starts,
                         !.ends = conferences'[c].ends]]
    BY <1>2 DEF Move, Live, PlanTypeOK
  <2> QED
    BY <1>2, <2>1, <2>2 DEF Move, PlanTypeOK
<1>3. ASSUME NEW to \in {"approved", "rejected"}, Decide(c, to)
      PROVE  /\ conferences[c].status \notin {"approved", "rejected"}
             /\ conferences'[c] \in Row
             /\ \A d \in ConfIDs : d # c => conferences'[d] = conferences[d]
             /\ conferences' \in [ConfIDs -> Row \union {NoRow}]
             /\ UNCHANGED <<now, deleted>>
  <2>1. conferences[c] \in Row
    BY <1>3 DEF Decide, Live, PlanTypeOK
  <2>2. [conferences[c] EXCEPT !.status = to] \in Row
    BY <2>1 DEF Row
  <2>3. conferences'[c] = [conferences[c] EXCEPT !.status = to]
    BY <1>3 DEF Decide, PlanTypeOK
  <2> QED
    BY <1>3, <2>2, <2>3 DEF Decide, PlanTypeOK
<1> QED
  BY <1>1, <1>2, <1>3

\* What a write leaves in the row: a window in order, and if it approves one
\* that is free.
LEMMA PlanWritesFree ==
  ASSUME HallInv, NEW c \in ConfIDs,
         Propose(c) \/ Move(c) \/ \E to \in {"approved", "rejected"} : Decide(c, to)
  PROVE  /\ Ordered(conferences'[c])
         /\ conferences'[c].status = "approved" => HallFree(c, conferences'[c])
<1>0. PlanTypeOK
  BY DEF HallInv
<1>1. CASE Propose(c)
  BY <1>1 DEF Propose
<1>2. CASE Move(c)
  BY <1>2 DEF Move
<1>3. ASSUME NEW to \in {"approved", "rejected"}, Decide(c, to)
      PROVE  /\ Ordered(conferences'[c])
             /\ conferences'[c].status = "approved" => HallFree(c, conferences'[c])
  <2>1. conferences[c] \in Row /\ Ordered(conferences[c])
    BY <1>0, <1>3 DEF Decide, Live, PlanTypeOK, HallInv, HallPromisedOnce
  <2>2. conferences'[c] = [conferences[c] EXCEPT !.status = to]
    BY <1>0, <1>3 DEF Decide, PlanTypeOK
  <2>3. /\ conferences'[c].status = to
        /\ conferences'[c].starts = conferences[c].starts
        /\ conferences'[c].ends = conferences[c].ends
    BY <2>1, <2>2 DEF Row
  <2> QED
    BY <1>3, <2>1, <2>3 DEF Decide, HallFree, Ordered, Overlaps
<1> QED
  BY <1>1, <1>2, <1>3

LEMMA HallInit == ASSUME FitSeeds PROVE Init => HallInv
  BY FitSeeds DEF Init, FitSeeds, HallInv, PlanTypeOK, HallPromisedOnce, Approved

LEMMA HallStep == HallInv /\ [Next]_planVars => HallInv'
<1> SUFFICES ASSUME HallInv, [Next]_planVars PROVE HallInv'
  OBVIOUS
<1>0. PlanTypeOK /\ HallPromisedOnce
  BY DEF HallInv
<1>1. CASE UNCHANGED planVars \/ Advance
  BY <1>0, <1>1 DEF planVars, Advance, HallInv, PlanTypeOK, HallPromisedOnce, Approved
<1>2. ASSUME NEW c \in ConfIDs,
             Propose(c) \/ Move(c) \/ \E to \in {"approved", "rejected"} : Decide(c, to)
      PROVE  HallInv'
  <2>1. /\ conferences[c].status \notin {"approved", "rejected"}
        /\ conferences'[c] \in Row
        /\ \A d \in ConfIDs : d # c => conferences'[d] = conferences[d]
        /\ conferences' \in [ConfIDs -> Row \union {NoRow}]
        /\ UNCHANGED <<now, deleted>>
    BY <1>0, <1>2, PlanWrites
  <2>2. /\ Ordered(conferences'[c])
        /\ conferences'[c].status = "approved" => HallFree(c, conferences'[c])
    BY <1>2, PlanWritesFree
  <2>3. \A d \in Approved' : d # c =>
           d \in Approved \ {c} /\ conferences'[d] = conferences[d]
    BY <2>1 DEF Approved
  <2>4. \A d \in Approved' : conferences'[d] \in Row
    BY <2>1 DEF Approved, NoRow
  <2>5. ASSUME NEW d \in Approved', d # c, c \in Approved'
        PROVE  /\ ~Overlaps(conferences'[c], conferences'[d])
               /\ ~Overlaps(conferences'[d], conferences'[c])
    <3>1. HallFree(c, conferences'[c])
      BY <2>2, <2>5 DEF Approved
    <3>2. ~Overlaps(conferences'[d], conferences'[c])
      BY <2>3, <2>5, <3>1 DEF HallFree
    <3> QED
      BY <2>1, <2>4, <2>5, <3>2, OverlapsBothWays
  <2>6. ASSUME NEW d \in Approved', NEW e \in Approved', d # e
        PROVE  ~Overlaps(conferences'[d], conferences'[e])
    BY <1>0, <2>3, <2>5, <2>6 DEF HallPromisedOnce
  <2>7. PlanTypeOK'
    BY <1>0, <2>1 DEF PlanTypeOK
  <2>8. \A d \in ConfIDs : conferences'[d] # NoRow => Ordered(conferences'[d])
    BY <1>0, <2>1, <2>2 DEF HallPromisedOnce
  <2> QED
    BY <2>6, <2>7, <2>8 DEF HallInv, HallPromisedOnce
<1>3. ASSUME NEW c \in ConfIDs, Cancel(c)
      PROVE  HallInv'
  BY <1>0, <1>3 DEF Cancel, HallInv, PlanTypeOK, HallPromisedOnce, Approved
<1> QED
  BY <1>1, <1>2, <1>3 DEF Next

\* Refusing windows in which something is approved keeps the approved ones
\* apart, although proposals may overlap and be moved.
THEOREM PlanPromisesHallOnce ==
  ASSUME FitSeeds
  PROVE  Spec => []HallPromisedOnce
<1>1. HallInv => HallPromisedOnce
  BY DEF HallInv
<1>2. Init => HallInv
  BY FitSeeds, HallInit
<1> QED
  BY <1>1, <1>2, HallStep, PTL DEF Spec

\* A decision is final in the plan.
LEMMA DecidedStep ==
  ASSUME PlanTypeOK, [Next]_planVars,
         NEW c \in ConfIDs, conferences[c].status \in {"approved", "rejected"}
  PROVE  conferences'[c] = conferences[c]
<1>1. ASSUME NEW d \in ConfIDs,
             Propose(d) \/ Move(d) \/ \E to \in {"approved", "rejected"} : Decide(d, to)
      PROVE  conferences'[c] = conferences[c]
  BY <1>1, PlanWrites
<1>2. CASE UNCHANGED planVars \/ Advance \/ \E d \in ConfIDs : Cancel(d)
  BY <1>2 DEF planVars, Advance, Cancel
<1> QED
  BY <1>1, <1>2 DEF Next

-----------------------------------------------------------------------------
(* The plan of the three services together. *)

FiniteTables ==
    /\ IsFiniteSet(Users) /\ IsFiniteSet(FeedbackIDs)
    /\ RegSlots \in Nat \ {0} /\ FbSlots \in Nat \ {0}

AttendTypeOK ==
    /\ registrations \subseteq Users \X ConfIDs
    /\ feedbacks \in [FeedbackIDs -> Feedback \union {NoFeedback}]

\* Whoever attends is a guest of a conference that stays approved.
GuestsOfApproved ==
    \A u \in Users, c \in ConfIDs : <<u, c>> \in registrations =>
        conferences[c].status = "approved" /\ conferences[c].host # u

\* Nobody attends two standing conferences that overlap.
NobodyInTwoPlaces ==
    \A u \in Users, c, d \in Approved :
        c # d /\ <<u, c>> \in registrations /\ <<u, d>> \in registrations =>
            ~Overlaps(conferences[c], conferences[d])

\* Seats are exceeded by less than the registrations served at once.
SeatsWithinSlots ==
    \A c \in ConfIDs : conferences[c] # NoRow =>
        Cardinality(Attendees(c)) <= conferences[c].seats + (RegSlots - 1)

\* Feedback comes from those who were there, when it is over.
FeedbackAfterwards ==
    \A i \in FeedbackIDs : feedbacks[i] # NoFeedback =>
        /\ feedbacks[i].user \in Attendees(feedbacks[i].conf)
        /\ conferences[feedbacks[i].conf].ends <= now

\* A guest has as many says as are served at once.
FeedbackWithinSlots ==
    \A u \in Users, c \in ConfIDs : Cardinality(Given(u, c)) <= FbSlots

Promises == /\ GuestsOfApproved /\ NobodyInTwoPlaces /\ SeatsWithinSlots
            /\ FeedbackAfterwards /\ FeedbackWithinSlots

PromiseInv ==
    /\ HallInv /\ AttendTypeOK
    /\ GuestsOfApproved /\ SeatsWithinSlots
    /\ FeedbackAfterwards /\ FeedbackWithinSlots

LEMMA Counts ==
  ASSUME FiniteTables, NEW u, NEW c
  PROVE  /\ IsFiniteSet(Attendees(c)) /\ Cardinality(Attendees(c)) \in Nat
         /\ IsFiniteSet(Given(u, c)) /\ Cardinality(Given(u, c)) \in Nat
<1>1. Attendees(c) \subseteq Users /\ Given(u, c) \subseteq FeedbackIDs
  BY DEF Attendees, Given
<1> QED
  BY <1>1, FiniteTables, FS_Subset, FS_CardinalityType DEF FiniteTables

LEMMA PromiseInit == ASSUME FitSeeds, FiniteTables PROVE AttendInit => PromiseInv
<1> SUFFICES ASSUME AttendInit PROVE PromiseInv
  OBVIOUS
<1>1. HallInv
  BY FitSeeds, HallInit DEF AttendInit
<1>2. \A c : Attendees(c) = {}
  BY DEF AttendInit, Attendees
<1>3. \A u \in Users, c \in ConfIDs : Given(u, c) = {}
  <2>1. \A u, c : [user |-> u, conf |-> c] # NoFeedback
    BY DEF NoFeedback
  <2> QED
    BY <2>1 DEF AttendInit, Given
<1>4. Cardinality({}) = 0
  BY FS_EmptySet
<1>5. SeatsWithinSlots
  BY <1>1, <1>2, <1>4, FiniteTables
  DEF SeatsWithinSlots, FiniteTables, HallInv, PlanTypeOK, Row
<1>6. FeedbackWithinSlots
  BY <1>3, <1>4, FiniteTables DEF FeedbackWithinSlots, FiniteTables
<1> QED
  BY <1>1, <1>5, <1>6
  DEF PromiseInv, AttendInit, AttendTypeOK, GuestsOfApproved, FeedbackAfterwards

\* Requests of the conference service break none of this: what is attended is
\* approved, and so never written again, seats are never written at all, and the
\* clock does not go back.
LEMMA PromiseConfStep ==
  ASSUME FiniteTables, PromiseInv, [Next]_planVars, UNCHANGED attendVars
  PROVE  PromiseInv'
<1>0. /\ HallInv /\ HallInv' /\ PlanTypeOK /\ AttendTypeOK
      /\ GuestsOfApproved /\ SeatsWithinSlots
      /\ FeedbackAfterwards /\ FeedbackWithinSlots
      /\ UNCHANGED <<registrations, feedbacks>>
  BY HallStep DEF PromiseInv, HallInv, attendVars
<1>1. \A c \in ConfIDs : conferences[c].status = "approved" =>
         conferences'[c] = conferences[c]
  BY <1>0, DecidedStep
<1>2. now \in Nat /\ (now' = now \/ now' = now + 1)
  BY <1>0 DEF PlanTypeOK, Next, planVars, Advance, Propose, Move, Decide, Cancel
<1>3. GuestsOfApproved'
  BY <1>0, <1>1 DEF GuestsOfApproved
<1>4. ASSUME NEW c \in ConfIDs, conferences'[c] # NoRow
      PROVE  Cardinality(Attendees(c)) <= conferences'[c].seats + (RegSlots - 1)
  <2>1. CASE conferences[c].status = "approved"
    <3>1. conferences[c] # NoRow
      BY <2>1 DEF NoRow
    <3> QED
      BY <1>0, <1>1, <2>1, <3>1 DEF SeatsWithinSlots
  <2>2. CASE conferences[c].status # "approved"
    <3>1. Attendees(c) = {}
      BY <1>0, <2>2 DEF Attendees, GuestsOfApproved
    <3>2. Cardinality(Attendees(c)) = 0
      BY <3>1, FS_EmptySet
    <3>3. conferences'[c].seats \in Nat
      BY <1>0, <1>4 DEF HallInv, PlanTypeOK, Row
    <3> QED
      BY <3>2, <3>3, FiniteTables DEF FiniteTables
  <2> QED
    BY <2>1, <2>2
<1>5. SeatsWithinSlots'
  BY <1>0, <1>4 DEF SeatsWithinSlots, Attendees
<1>6. ASSUME NEW i \in FeedbackIDs, feedbacks[i] # NoFeedback
      PROVE  conferences'[feedbacks[i].conf].ends <= now'
  <2>1. feedbacks[i].conf \in ConfIDs /\ feedbacks[i].user \in Attendees(feedbacks[i].conf)
    BY <1>0, <1>6 DEF AttendTypeOK, Feedback, FeedbackAfterwards
  <2>2. conferences[feedbacks[i].conf].status = "approved"
    BY <1>0, <2>1 DEF Attendees, GuestsOfApproved
  <2>3. conferences[feedbacks[i].conf].ends \in Nat
    BY <1>0, <2>1, <2>2 DEF PlanTypeOK, Row, NoRow
  <2>4. conferences[feedbacks[i].conf].ends <= now
    BY <1>0, <1>6 DEF FeedbackAfterwards
  <2> QED
    BY <1>1, <1>2, <2>1, <2>2, <2>3, <2>4
<1>7. FeedbackAfterwards'
  BY <1>0, <1>6 DEF FeedbackAfterwards, Attendees
<1> QED
  BY <1>0, <1>3, <1>5, <1>7
  DEF PromiseInv, AttendTypeOK, FeedbackWithinSlots, Given

LEMMA PromiseAttend ==
  ASSUME FiniteTables, PromiseInv, NEW u \in Users, NEW c \in ConfIDs, Attend(u, c),
         UNCHANGED planVars
  PROVE  PromiseInv'
<1>0. /\ PlanTypeOK /\ AttendTypeOK /\ GuestsOfApproved /\ SeatsWithinSlots
      /\ FeedbackAfterwards /\ FeedbackWithinSlots
      /\ UNCHANGED <<now, conferences, deleted, feedbacks>>
      /\ registrations' = registrations \union {<<u, c>>}
  BY DEF PromiseInv, HallInv, Attend, planVars
<1>1. HallInv'
  BY <1>0 DEF PromiseInv, HallInv, PlanTypeOK, HallPromisedOnce, Approved
<1>2. /\ Attendees(c)' = Attendees(c) \union {u}
      /\ \A d : d # c => Attendees(d)' = Attendees(d)
      /\ \A d : Attendees(d) \subseteq Attendees(d)'
  BY <1>0 DEF Attendees
<1>3. SeatsWithinSlots'
  <2>1. u \notin Attendees(c)
    BY DEF Attend, Attendees
  <2>2. Cardinality(Attendees(c)') = Cardinality(Attendees(c)) + 1
    BY <1>2, <2>1, Counts, FS_AddElement
  <2>3. Cardinality(Attendees(c)) < conferences[c].seats + (RegSlots - 1)
    BY DEF Attend
  <2>4. conferences[c].seats \in Nat
    BY <1>0 DEF Attend, PlanTypeOK, Row, NoRow
  <2>5. Cardinality(Attendees(c)') <= conferences[c].seats + (RegSlots - 1)
    BY <2>2, <2>3, <2>4, Counts, FiniteTables DEF FiniteTables
  <2> QED
    BY <1>0, <1>2, <2>5 DEF SeatsWithinSlots
<1>4. GuestsOfApproved'
  BY <1>0 DEF GuestsOfApproved, Attend
<1>5. FeedbackAfterwards'
  BY <1>0, <1>2 DEF FeedbackAfterwards
<1> QED
  BY <1>0, <1>1, <1>3, <1>4, <1>5
  DEF PromiseInv, AttendTypeOK, FeedbackWithinSlots, Given

LEMMA PromiseGive ==
  ASSUME FiniteTables, PromiseInv, NEW i \in FeedbackIDs, Give(i), UNCHANGED planVars
  PROVE  PromiseInv'
<1> DEFINE new == feedbacks'[i]
<1>0. /\ AttendTypeOK /\ GuestsOfApproved /\ SeatsWithinSlots
      /\ FeedbackAfterwards /\ FeedbackWithinSlots
      /\ UNCHANGED <<now, conferences, deleted, registrations>>
  BY DEF PromiseInv, Give, planVars
<1>1. HallInv'
  BY <1>0 DEF PromiseInv, HallInv, PlanTypeOK, HallPromisedOnce, Approved
<1>2. /\ feedbacks[i] = NoFeedback /\ new \in Feedback
      /\ \A j \in FeedbackIDs : j # i => feedbacks'[j] = feedbacks[j]
      /\ feedbacks' \in [FeedbackIDs -> Feedback \union {NoFeedback}]
      /\ new.user \in Attendees(new.conf) /\ conferences[new.conf].ends <= now
      /\ Cardinality(Given(new.user, new.conf)) < FbSlots
  BY <1>0 DEF Give, AttendTypeOK
<1>3. FeedbackAfterwards'
  BY <1>0, <1>2 DEF FeedbackAfterwards, Attendees
<1>4. ASSUME NEW u \in Users, NEW c \in ConfIDs
      PROVE  Cardinality(Given(u, c)') <= FbSlots
  <2>1. CASE new = [user |-> u, conf |-> c]
    <3>1. i \notin Given(u, c)
      BY <1>2 DEF Given, NoFeedback
    <3>2. Given(u, c)' = Given(u, c) \union {i}
      BY <1>2, <2>1 DEF Given
    <3>3. Cardinality(Given(u, c)') = Cardinality(Given(u, c)) + 1
      BY <3>1, <3>2, Counts, FS_AddElement
    <3>4. new.user = u /\ new.conf = c
      BY <2>1
    <3>5. Cardinality(Given(u, c)) < FbSlots
      BY <1>2, <3>4
    <3> QED
      BY <3>3, <3>5, Counts, FiniteTables DEF FiniteTables
  <2>2. CASE new # [user |-> u, conf |-> c]
    <3>1. Given(u, c)' = Given(u, c)
      BY <1>2, <2>2 DEF Given, NoFeedback
    <3> QED
      BY <1>0, <3>1 DEF FeedbackWithinSlots
  <2> QED
    BY <2>1, <2>2
<1>5. FeedbackWithinSlots'
  BY <1>4 DEF FeedbackWithinSlots
<1> QED
  BY <1>0, <1>1, <1>2, <1>3, <1>5
  DEF PromiseInv, AttendTypeOK, GuestsOfApproved, SeatsWithinSlots, Attendees

LEMMA PromiseStep ==
  ASSUME FiniteTables, PromiseInv, [AttendNext]_<<planVars, attendVars>>
  PROVE  PromiseInv'
<1>1. CASE UNCHANGED attendVars /\ (Next \/ UNCHANGED planVars)
  BY <1>1, FiniteTables, PromiseConfStep
<1>2. ASSUME NEW u \in Users, NEW c \in ConfIDs, Attend(u, c), UNCHANGED planVars
      PROVE  PromiseInv'
  BY <1>2, FiniteTables, PromiseAttend
<1>3. ASSUME NEW i \in FeedbackIDs, Give(i), UNCHANGED planVars
      PROVE  PromiseInv'
  BY <1>3, FiniteTables, PromiseGive
<1>4. ASSUME NEW i \in FeedbackIDs, Hide(i), UNCHANGED planVars
      PROVE  PromiseInv'
  BY <1>4
  DEF Hide, planVars, PromiseInv, HallInv, PlanTypeOK, HallPromisedOnce, Approved,
      AttendTypeOK, GuestsOfApproved, SeatsWithinSlots, Attendees, FeedbackAfterwards,
      FeedbackWithinSlots, Given
<1> QED
  BY <1>1, <1>2, <1>3, <1>4 DEF AttendNext

\* What AuditoriumPlan promises, whatever number of requests of a kind it lets
\* overrun each other: guests of approved conferences only, nobody in two places,
\* feedback by those who were there and when it is over, and seats and feedbacks
\* within the number of requests.
THEOREM PlanKeepsPromises ==
  ASSUME FitSeeds, FiniteTables
  PROVE  AttendSpec => []Promises
<1>1. PromiseInv => Promises
  BY DEF PromiseInv, HallInv, HallPromisedOnce, Promises, NobodyInTwoPlaces
<1>2. AttendInit => PromiseInv
  BY FitSeeds, FiniteTables, PromiseInit
<1>3. PromiseInv /\ [AttendNext]_<<planVars, attendVars>> => PromiseInv'
  BY FiniteTables, PromiseStep
<1> QED
  BY <1>1, <1>2, <1>3, PTL DEF AttendSpec

\* "Conference is full." and "You already gave feedback to this conference."
ServedAlone ==
    /\ \A c \in ConfIDs : conferences[c] # NoRow =>
          Cardinality(Attendees(c)) <= conferences[c].seats
    /\ \A i, j \in FeedbackIDs :
          feedbacks[i] # NoFeedback /\ feedbacks[i] = feedbacks[j] => i = j

\* One registration and one feedback at a time: no seat too many, and no second
\* feedback of anybody on the same conference.
THEOREM PlanServedAlone ==
  ASSUME FitSeeds, FiniteTables, RegSlots = 1, FbSlots = 1
  PROVE  AttendSpec => []ServedAlone
<1>1. ASSUME PromiseInv PROVE ServedAlone
  <2>1. ASSUME NEW c \in ConfIDs, conferences[c] # NoRow
        PROVE  Cardinality(Attendees(c)) <= conferences[c].seats
    <3>1. conferences[c].seats \in Nat
      BY <1>1, <2>1 DEF PromiseInv, HallInv, PlanTypeOK, Row
    <3>2. Cardinality(Attendees(c)) <= conferences[c].seats + (1 - 1)
      BY <1>1, <2>1 DEF PromiseInv, SeatsWithinSlots
    <3> QED
      BY <3>1, <3>2
  <2>2. ASSUME NEW i \in FeedbackIDs, NEW j \in FeedbackIDs,
               feedbacks[i] # NoFeedback, feedbacks[i] = feedbacks[j], i # j
        PROVE  FALSE
    <3>1. PICK u \in Users, c \in ConfIDs : feedbacks[i] = [user |-> u, conf |-> c]
      BY <1>1, <2>2 DEF PromiseInv, AttendTypeOK, Feedback
    <3>2. {i, j} \subseteq Given(u, c)
      BY <2>2, <3>1 DEF Given
    <3>3. Cardinality({i, j}) = 2
      <4>1. IsFiniteSet({i}) /\ Cardinality({i}) = 1
        BY FS_Singleton
      <4>2. Cardinality({i} \union {j}) = Cardinality({i}) + 1
        BY <2>2, <4>1, FS_AddElement
      <4>3. {i, j} = {i} \union {j}
        OBVIOUS
      <4> QED
        BY <4>1, <4>2, <4>3
    <3>4. Cardinality({i, j}) <= Cardinality(Given(u, c))
      BY <3>2, FiniteTables, Counts, FS_Subset
    <3>5. Cardinality(Given(u, c)) <= 1
      BY <1>1 DEF PromiseInv, FeedbackWithinSlots
    <3> QED
      BY <3>3, <3>4, <3>5, FiniteTables, Counts
  <2> QED
    BY <2>1, <2>2 DEF ServedAlone
<1>2. AttendInit => PromiseInv
  BY FitSeeds, FiniteTables, PromiseInit
<1>3. PromiseInv /\ [AttendNext]_<<planVars, attendVars>> => PromiseInv'
  BY FiniteTables, PromiseStep
<1> QED
  BY <1>1, <1>2, <1>3, PTL DEF AttendSpec
=============================================================================
