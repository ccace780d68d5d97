--------------------------- MODULE FeedbacksProof ---------------------------
(***************************************************************************)
(* Theorems about Feedbacks, for any number of users, conferences and      *)
(* requests of every kind in flight.                                       *)
(***************************************************************************)
EXTENDS Feedbacks, RegistrationsProof

LEMMA FbStepRegStep == [FbNext]_allVars => [RegNext]_vars
  BY DEF FbNext, allVars, vars

\* The composition implements the registration service: feedback leaves the
\* tables it reads alone.
THEOREM FbImplementsReg == FbSpec => RegSpec
<1>1. FbInit => RegInit
  BY DEF FbInit
<1> QED BY <1>1, FbStepRegStep, PTL DEF FbSpec, RegSpec

-----------------------------------------------------------------------------
(* Type correctness. *)

LEMMA FbTypeInit == FbInit => FbTypeOK
  BY DEF FbInit, FbTypeOK

\* A feedback request in flight holds a user and a conference.
LEMMA FbBusy ==
  ASSUME FbTypeOK, NEW f \in FbReqs, fbTask[f].pc # "idle"
  PROVE  fbTask[f] \in FbTask
  BY DEF FbTypeOK, Idle

\* A feedback of somebody is a row.
LEMMA FeedbackIsRow ==
  ASSUME NEW t \in Feedback
  PROVE  t # NoFeedback
  BY DEF Feedback, NoFeedback

LEMMA FbTypeStep == TypeOK /\ FbTypeOK /\ [FbNext]_allVars => FbTypeOK'
<1> SUFFICES ASSUME TypeOK, FbTypeOK, [FbNext]_allVars
             PROVE  FbTypeOK'
  OBVIOUS
<1> USE DEF FbTypeOK
<1>1. CASE UNCHANGED allVars \/ UNCHANGED fbVars
  BY <1>1 DEF allVars, fbVars
<1>2. ASSUME NEW f \in FbReqs, NEW u \in Users, NEW c \in ConfIDs,
             GiveIsRegistered(f, u, c)
      PROVE  FbTypeOK'
  BY <1>2 DEF GiveIsRegistered, FbGoto, FbTask
<1>3. ASSUME NEW f \in FbReqs, GiveIsGiven(f) \/ GiveEnded(f)
      PROVE  FbTypeOK'
  <2>1. fbTask[f] \in FbTask
    BY <1>3, FbBusy DEF GiveIsGiven, GiveEnded
  <2> QED
    BY <1>3, <2>1 DEF GiveIsGiven, GiveEnded, FbContinue, FbGoto, FbTask
<1>4. ASSUME NEW f \in FbReqs, GiveConference(f)
      PROVE  FbTypeOK'
  <2>1. fbTask[f].user \in Users /\ fbTask[f].conf \in ConfIDs
    BY <1>4, FbBusy DEF GiveConference, FbTask
  <2>2. MayComment(fbTask[f].user, fbTask[f].conf) => KnownEnd(fbTask[f].conf) \in Nat
    BY <2>1 DEF MayComment, KnownEnd, TypeOK, Tables, Entities, NoRow
  <2> QED
    BY <1>4, <2>1, <2>2 DEF GiveConference, FbGoto, FbTask
<1>5. ASSUME NEW f \in FbReqs, GiveInsert(f)
      PROVE  FbTypeOK'
  <2>1. fbTask[f] \in FbTask
    BY <1>5, FbBusy DEF GiveInsert
  <2>2. [user |-> fbTask[f].user, conf |-> fbTask[f].conf] \in Feedback
    BY <2>1 DEF FbTask, Feedback
  <2> QED
    BY <1>5, <2>2, FeedbackIsRow DEF GiveInsert, FbGoto
<1>6. ASSUME NEW f \in FbReqs, GiveFail(f)
      PROVE  FbTypeOK'
  BY <1>6 DEF GiveFail, FbGoto
<1>7. ASSUME NEW i \in FeedbackIDs, DeleteFeedback(i)
      PROVE  FbTypeOK'
  BY <1>7 DEF DeleteFeedback
<1> QED
  BY <1>1, <1>2, <1>3, <1>4, <1>5, <1>6, <1>7 DEF FbNext, Give

LEMMA FbConfTypes == FbSpec => []TypeOK
  BY FbImplementsReg, RegImplementsConf, TypeCorrect, PTL

\* The feedbacks and the local variables of CreateFeedback keep their types.
THEOREM FbTypeCorrect == FbSpec => []FbTypeOK
  BY FbTypeInit, FbTypeStep, FbConfTypes, PTL DEF FbSpec

-----------------------------------------------------------------------------
(* Attendance.  There is no way to unregister, so what the first statement *)
(* saw is still true at the last.                                          *)

AttendanceInv ==
    /\ \A f \in FbReqs : fbTask[f].pc # "idle" =>
          fbTask[f].user \in Taken(fbTask[f].conf)
    /\ \A i \in FeedbackIDs : feedbacks[i] # NoFeedback =>
          feedbacks[i].user \in Taken(feedbacks[i].conf)

LEMMA RegistrationsStay == [RegNext]_vars => registrations \subseteq registrations'
<1> SUFFICES ASSUME [RegNext]_vars PROVE registrations \subseteq registrations'
  OBVIOUS
<1>1. ASSUME NEW g \in RegReqs, Register(g) PROVE registrations \subseteq registrations'
  BY <1>1 DEF Register, RegisterGet, RegisterIsRegistered, RegisterCount,
              RegisterClash, RegisterInsert, RegisterFail
<1> QED BY <1>1 DEF RegNext, regVars, vars

LEMMA AttendanceInit == FbInit => AttendanceInv
  BY DEF FbInit, AttendanceInv, Idle

LEMMA AttendanceStep ==
  ASSUME FbTypeOK, AttendanceInv, [FbNext]_allVars
  PROVE  AttendanceInv'
<1>1. registrations \subseteq registrations'
  BY FbStepRegStep, RegistrationsStay
<1>2. \A c : Taken(c) \subseteq Taken(c)'
  BY <1>1 DEF Taken
<1>3. CASE UNCHANGED allVars \/ UNCHANGED fbVars
  BY <1>2, <1>3 DEF AttendanceInv, allVars, fbVars
<1>4. ASSUME NEW f \in FbReqs, Give(f), UNCHANGED vars
      PROVE  AttendanceInv'
  <2>1. \A c : Taken(c)' = Taken(c)
    BY <1>4 DEF Taken, vars
  <2>2. ASSUME NEW u \in Users, NEW c \in ConfIDs, GiveIsRegistered(f, u, c)
        PROVE  AttendanceInv'
    BY <2>1, <2>2 DEF GiveIsRegistered, MayGive, FbGoto, FbTypeOK, AttendanceInv
  <2>3. ASSUME GiveIsGiven(f) \/ GiveConference(f) \/ GiveEnded(f)
        PROVE  AttendanceInv'
    <3>1. fbTask[f] \in FbTask
      BY <2>3, FbBusy DEF GiveIsGiven, GiveConference, GiveEnded
    <3>2. /\ \A h \in FbReqs : h # f => fbTask'[h] = fbTask[h]
          /\ \/ fbTask'[f].pc = "idle"
             \/ /\ fbTask'[f].user = fbTask[f].user
                /\ fbTask'[f].conf = fbTask[f].conf
          /\ fbTask[f].pc # "idle"
          /\ feedbacks' = feedbacks
      <4>1. CASE GiveConference(f)
        BY <3>1, <4>1 DEF GiveConference, FbGoto, FbTypeOK, Idle
      <4>2. CASE GiveIsGiven(f) \/ GiveEnded(f)
        BY <3>1, <4>2
        DEF GiveIsGiven, GiveEnded, FbContinue, FbGoto, FbTypeOK, FbTask, Idle
      <4> QED
        BY <2>3, <4>1, <4>2
    <3> QED
      BY <2>1, <3>2 DEF AttendanceInv
  <2>4. ASSUME GiveInsert(f)
        PROVE  AttendanceInv'
    <3>1. fbTask[f] \in FbTask /\ fbTask[f].pc = "insert"
      BY <2>4, FbBusy DEF GiveInsert
    <3>2. fbTask[f].user \in Taken(fbTask[f].conf)
      BY <3>1 DEF AttendanceInv
    <3> QED
      BY <2>1, <2>4, <3>2 DEF GiveInsert, FbGoto, FbTypeOK, AttendanceInv, Idle
  <2>5. ASSUME GiveFail(f)
        PROVE  AttendanceInv'
    BY <2>1, <2>5 DEF GiveFail, FbGoto, FbTypeOK, AttendanceInv, Idle
  <2> QED
    BY <1>4, <2>2, <2>3, <2>4, <2>5 DEF Give
<1>5. ASSUME NEW i \in FeedbackIDs, DeleteFeedback(i), UNCHANGED vars
      PROVE  AttendanceInv'
  BY <1>5 DEF DeleteFeedback, AttendanceInv, Taken, vars
<1> QED
  BY <1>3, <1>4, <1>5 DEF FbNext

\* Whatever the requests of all three services do, only attendees give
\* feedback, and no host to their own conference.
THEOREM OnlyAttendeesGive == FbSpec => []FeedbackFromAttendees
<1>1. FbTypeOK /\ AttendanceInv /\ AdmitInv => FeedbackFromAttendees
  <2> SUFFICES ASSUME FbTypeOK, AttendanceInv, GuestsOnly,
                      NEW i \in FeedbackIDs, feedbacks[i] # NoFeedback
               PROVE  /\ feedbacks[i].user \in Taken(feedbacks[i].conf)
                      /\ feedbacks[i].user # conferences[feedbacks[i].conf].host
    BY DEF FeedbackFromAttendees, AdmitInv
  <2>1. feedbacks[i] \in Feedback
    BY DEF FbTypeOK
  <2>2. feedbacks[i].user \in Taken(feedbacks[i].conf)
    BY DEF AttendanceInv
  <2> QED
    BY <2>1, <2>2 DEF GuestsOnly, Taken, Feedback
<1>2. FbSpec => []AdmitInv
  BY FbImplementsReg, AdmitInvariant, PTL
<1>3. FbTypeOK /\ AttendanceInv /\ [FbNext]_allVars => AttendanceInv'
  BY AttendanceStep
<1> QED
  BY <1>1, <1>2, <1>3, AttendanceInit, FbTypeCorrect, PTL DEF FbSpec

-----------------------------------------------------------------------------
(* Counting.  Requests that found no earlier feedback may still add one.   *)

Hoping(u, c) == {f \in FbReqs : /\ fbTask[f].pc \in {"conference", "ended", "insert"}
                                /\ fbTask[f].user = u
                                /\ fbTask[f].conf = c}

SaidInv ==
    \A u \in Users, c \in ConfIDs :
        Cardinality(Said(u, c)) + Cardinality(Hoping(u, c)) <= Cardinality(FbReqs)

LEMMA FbCountTypes ==
  ASSUME NEW u, NEW c
  PROVE  /\ IsFiniteSet(Said(u, c)) /\ Cardinality(Said(u, c)) \in Nat
         /\ IsFiniteSet(Hoping(u, c)) /\ Cardinality(Hoping(u, c)) \in Nat
         /\ Cardinality(Hoping(u, c)) <= Cardinality(FbReqs)
         /\ Cardinality(FbReqs) \in Nat
<1>1. Said(u, c) \in SUBSET FeedbackIDs /\ Hoping(u, c) \in SUBSET FbReqs
  BY DEF Said, Hoping
<1> QED
  BY <1>1, FeedbackAssumption, FS_Subset, FS_CardinalityType

LEMMA SaidInit == FbInit => SaidInv
<1> SUFFICES ASSUME FbInit, NEW u \in Users, NEW c \in ConfIDs
             PROVE  Cardinality(Said(u, c)) + Cardinality(Hoping(u, c))
                      <= Cardinality(FbReqs)
  BY DEF SaidInv
<1>1. [user |-> u, conf |-> c] # NoFeedback
  BY FeedbackIsRow DEF Feedback
<1>2. Said(u, c) = {} /\ Hoping(u, c) = {}
  BY <1>1 DEF FbInit, Said, Hoping, Idle
<1> QED
  BY <1>2, FS_EmptySet, FbCountTypes

\* A statement that inserts nothing keeps the bound as long as a request only
\* starts to hope when it has found nothing said.
LEMMA HopeStep ==
  ASSUME SaidInv, feedbacks' = feedbacks, NEW f \in FbReqs,
         \A h \in FbReqs : h # f => fbTask'[h] = fbTask[h],
         \/ fbTask'[f].pc \notin {"conference", "ended", "insert"}
         \/ /\ fbTask'[f].user = fbTask[f].user
            /\ fbTask'[f].conf = fbTask[f].conf
            /\ \/ fbTask[f].pc \in {"conference", "ended", "insert"}
               \/ Said(fbTask[f].user, fbTask[f].conf) = {}
  PROVE  SaidInv'
<1> SUFFICES ASSUME NEW u \in Users, NEW c \in ConfIDs
             PROVE  Cardinality(Said(u, c)') + Cardinality(Hoping(u, c)')
                      <= Cardinality(FbReqs)
  BY DEF SaidInv
<1>1. Said(u, c)' = Said(u, c)
  BY DEF Said
<1>2. Hoping(u, c)' \subseteq FbReqs
  BY DEF Hoping
<1>3. /\ Cardinality(Hoping(u, c)') \in Nat
      /\ Cardinality(Hoping(u, c)') <= Cardinality(FbReqs)
  BY <1>2, FeedbackAssumption, FS_Subset, FS_CardinalityType
<1>4. CASE Hoping(u, c)' \subseteq Hoping(u, c)
  <2>1. Cardinality(Hoping(u, c)') <= Cardinality(Hoping(u, c))
    BY <1>4, FbCountTypes, FS_Subset
  <2> QED
    BY <1>1, <1>3, <2>1, FbCountTypes DEF SaidInv
<1>5. CASE ~(Hoping(u, c)' \subseteq Hoping(u, c))
  <2>1. Said(u, c) = {}
    BY <1>5 DEF Hoping
  <2> QED
    BY <1>1, <1>3, <2>1, FS_EmptySet
<1> QED
  BY <1>4, <1>5

LEMMA SaidStep ==
  ASSUME FbTypeOK, SaidInv, [FbNext]_allVars
  PROVE  SaidInv'
<1>1. CASE UNCHANGED allVars \/ UNCHANGED fbVars
  BY <1>1 DEF SaidInv, Said, Hoping, allVars, fbVars
<1>2. ASSUME NEW i \in FeedbackIDs, DeleteFeedback(i)
      PROVE  SaidInv'
  BY <1>2 DEF DeleteFeedback, SaidInv, Said, Hoping
<1>3. ASSUME NEW f \in FbReqs, Give(f)
      PROVE  SaidInv'
  <2>1. ASSUME NEW u \in Users, NEW c \in ConfIDs, GiveIsRegistered(f, u, c)
        PROVE  SaidInv'
    <3>1. /\ \A h \in FbReqs : h # f => fbTask'[h] = fbTask[h]
          /\ fbTask'[f].pc = "isGiven"
          /\ feedbacks' = feedbacks
      BY <2>1 DEF GiveIsRegistered, FbGoto, FbTypeOK
    <3> QED BY <3>1, HopeStep
  <2>2. ASSUME GiveIsGiven(f)
        PROVE  SaidInv'
    <3>1. fbTask[f] \in FbTask
      BY <2>2, FbBusy DEF GiveIsGiven
    <3>2. /\ \A h \in FbReqs : h # f => fbTask'[h] = fbTask[h]
          /\ feedbacks' = feedbacks
      BY <2>2 DEF GiveIsGiven, FbContinue, FbGoto, FbTypeOK
    <3>3. CASE IsGiven(fbTask[f].user, fbTask[f].conf)
      <4>1. fbTask'[f].pc = "idle"
        BY <2>2, <3>3 DEF GiveIsGiven, FbContinue, FbGoto, FbTypeOK, Idle
      <4> QED BY <3>2, <4>1, HopeStep
    <3>4. CASE ~IsGiven(fbTask[f].user, fbTask[f].conf)
      <4>1. /\ fbTask'[f].user = fbTask[f].user
            /\ fbTask'[f].conf = fbTask[f].conf
        BY <2>2, <3>1, <3>4 DEF GiveIsGiven, FbContinue, FbGoto, FbTypeOK, FbTask
      <4>2. Said(fbTask[f].user, fbTask[f].conf) = {}
        BY <3>4 DEF IsGiven
      <4> QED BY <3>2, <4>1, <4>2, HopeStep
    <3> QED BY <3>3, <3>4
  <2>3. ASSUME GiveConference(f) \/ GiveEnded(f)
        PROVE  SaidInv'
    <3>1. fbTask[f] \in FbTask /\ fbTask[f].pc \in {"conference", "ended"}
      BY <2>3, FbBusy DEF GiveConference, GiveEnded
    <3>2. /\ \A h \in FbReqs : h # f => fbTask'[h] = fbTask[h]
          /\ feedbacks' = feedbacks
          /\ \/ fbTask'[f].pc = "idle"
             \/ /\ fbTask'[f].user = fbTask[f].user
                /\ fbTask'[f].conf = fbTask[f].conf
      <4>1. CASE GiveConference(f)
        BY <4>1 DEF GiveConference, FbGoto, FbTypeOK, Idle
      <4>2. CASE GiveEnded(f)
        BY <3>1, <4>2 DEF GiveEnded, FbContinue, FbGoto, FbTypeOK, FbTask, Idle
      <4> QED
        BY <2>3, <4>1, <4>2
    <3> QED BY <3>1, <3>2, HopeStep
  <2>4. ASSUME GiveFail(f)
        PROVE  SaidInv'
    <3>1. /\ \A h \in FbReqs : h # f => fbTask'[h] = fbTask[h]
          /\ fbTask'[f].pc = "idle"
          /\ feedbacks' = feedbacks
      BY <2>4 DEF GiveFail, FbGoto, FbTypeOK, Idle
    <3> QED BY <3>1, HopeStep
  <2>5. ASSUME GiveInsert(f)
        PROVE  SaidInv'
    <3> SUFFICES ASSUME NEW u \in Users, NEW c \in ConfIDs
                 PROVE  Cardinality(Said(u, c)') + Cardinality(Hoping(u, c)')
                          <= Cardinality(FbReqs)
      BY DEF SaidInv
    <3>1. /\ fbTask[f].pc = "insert"
          /\ fbTask' = [fbTask EXCEPT ![f] = Idle]
      BY <2>5 DEF GiveInsert, FbGoto
    <3>2. PICK i \in FeedbackIDs :
            /\ feedbacks[i] = NoFeedback
            /\ feedbacks' = [feedbacks EXCEPT ![i] = [user |-> fbTask[f].user,
                                                      conf |-> fbTask[f].conf]]
      BY <2>5 DEF GiveInsert
    <3>3. [user |-> u, conf |-> c] # NoFeedback
      BY FeedbackIsRow DEF Feedback
    <3>4. CASE fbTask[f].user = u /\ fbTask[f].conf = c
      <4>1. Said(u, c)' = Said(u, c) \union {i} /\ i \notin Said(u, c)
        BY <3>2, <3>3, <3>4 DEF Said, FbTypeOK
      <4>2. Hoping(u, c)' = Hoping(u, c) \ {f} /\ f \in Hoping(u, c)
        BY <3>1, <3>4 DEF Hoping, FbTypeOK, Idle
      <4>3. Cardinality(Said(u, c)') = Cardinality(Said(u, c)) + 1
        BY <4>1, FbCountTypes, FS_AddElement
      <4>4. Cardinality(Hoping(u, c)') = Cardinality(Hoping(u, c)) - 1
        BY <4>2, FbCountTypes, FS_RemoveElement
      <4> QED
        BY <4>3, <4>4, FbCountTypes DEF SaidInv
    <3>5. CASE ~(fbTask[f].user = u /\ fbTask[f].conf = c)
      <4>1. [user |-> fbTask[f].user, conf |-> fbTask[f].conf]
              # [user |-> u, conf |-> c]
        BY <3>5
      <4>2. Said(u, c)' = Said(u, c)
        BY <3>2, <3>3, <4>1 DEF Said, FbTypeOK
      <4>3. Hoping(u, c)' = Hoping(u, c)
        BY <3>1, <3>5 DEF Hoping, FbTypeOK, Idle
      <4> QED
        BY <4>2, <4>3 DEF SaidInv
    <3> QED
      BY <3>4, <3>5
  <2> QED
    BY <1>3, <2>1, <2>2, <2>3, <2>4, <2>5 DEF Give
<1> QED
  BY <1>1, <1>2, <1>3 DEF FbNext

\* Nobody gives more feedback to one conference than requests can be in
\* flight: one, when they are served one at a time.
THEOREM FeedbackBounded == FbSpec => []FeedbackBound
<1>1. SaidInv => FeedbackBound
  BY FbCountTypes DEF SaidInv, FeedbackBound
<1>2. FbTypeOK /\ SaidInv /\ [FbNext]_allVars => SaidInv'
  BY SaidStep
<1> QED
  BY <1>1, <1>2, SaidInit, FbTypeCorrect, PTL DEF FbSpec
=============================================================================
