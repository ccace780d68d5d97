------------------------- MODULE RegistrationsProof -------------------------
(***************************************************************************)
(* Theorems about Registrations, for any number of attendees, conferences, *)
(* seats and requests of every kind in flight.                             *)
(***************************************************************************)
EXTENDS Registrations, ConferencesProof

(* Registrations leave the conference service alone: whatever holds of it  *)
(* by itself holds of the composition.                                     *)

LEMMA RegStepConfStep == [RegNext]_vars => [ConfNext]_confVars
  BY DEF RegNext, vars, confVars

\* The composition implements the conference service.
THEOREM RegImplementsConf == RegSpec => ConfSpec
<1>1. RegInit => ConfInit
  BY DEF RegInit
<1> QED BY <1>1, RegStepConfStep, PTL DEF RegSpec, ConfSpec

-----------------------------------------------------------------------------
(* Type correctness. *)

LEMMA RegTypeInit == RegInit => RegTypeOK
  BY DEF RegInit, RegTypeOK

\* A registration request in flight holds a user, a conference and its row.
LEMMA BusyTask ==
  ASSUME RegTypeOK, NEW g \in RegReqs, regTask[g].pc # "idle"
  PROVE  regTask[g] \in RegTask
  BY DEF RegTypeOK, Idle

LEMMA RegTypeStep == TypeOK /\ RegTypeOK /\ [RegNext]_vars => RegTypeOK'
<1> SUFFICES ASSUME TypeOK, RegTypeOK, [RegNext]_vars
             PROVE  RegTypeOK'
  OBVIOUS
<1> USE DEF RegTypeOK
<1>1. CASE UNCHANGED vars \/ UNCHANGED regVars
  BY <1>1 DEF vars, regVars
<1>2. ASSUME NEW g \in RegReqs, NEW u \in Users, NEW c \in ConfIDs,
             RegisterGet(g, u, c)
      PROVE  RegTypeOK'
  BY <1>2 DEF RegisterGet, MayRegister, Live, RegGoto, RegTask, TypeOK, Tables
<1>3. ASSUME NEW g \in RegReqs,
             RegisterIsRegistered(g) \/ RegisterCount(g) \/ RegisterClash(g)
      PROVE  RegTypeOK'
  <2>1. regTask[g] \in RegTask
    BY <1>3, BusyTask DEF RegisterIsRegistered, RegisterCount, RegisterClash
  <2> QED
    BY <1>3, <2>1
    DEF RegisterIsRegistered, RegisterCount, RegisterClash, RegContinue,
        RegGoto, RegTask
<1>4. ASSUME NEW g \in RegReqs, RegisterInsert(g)
      PROVE  RegTypeOK'
  <2>1. regTask[g] \in RegTask
    BY <1>4, BusyTask DEF RegisterInsert
  <2> QED
    BY <1>4, <2>1 DEF RegisterInsert, RegGoto, RegTask
<1>5. ASSUME NEW g \in RegReqs, RegisterFail(g)
      PROVE  RegTypeOK'
  BY <1>5 DEF RegisterFail, RegGoto
<1> QED
  BY <1>1, <1>2, <1>3, <1>4, <1>5 DEF RegNext, Register

\* The registrations and the local variables of Register keep their types.
THEOREM RegTypeCorrect == RegSpec => []RegTypeOK
<1>1. RegSpec => []TypeOK
  BY RegImplementsConf, TypeCorrect, PTL
<1> QED
  BY <1>1, RegTypeInit, RegTypeStep, PTL DEF RegSpec

-----------------------------------------------------------------------------
(* Admission.  Requests that have passed the count wait for their insert;  *)
(* their copy of the row still agrees with it on host and seats.           *)

Waiting(c) == {g \in RegReqs : /\ regTask[g].pc \in {"clash", "insert"}
                               /\ regTask[g].conf = c}

RegCopiesAgree ==
    \A g \in RegReqs : regTask[g].pc # "idle" =>
        /\ conferences[regTask[g].conf] # NoRow
        /\ regTask[g].row.seats = conferences[regTask[g].conf].seats
        /\ regTask[g].user # conferences[regTask[g].conf].host

\* Whoever is registered is registered to a conference that exists, and is
\* not its host.
GuestsOnly ==
    \A u \in Users, c \in ConfIDs : <<u, c>> \in registrations =>
        conferences[c] # NoRow /\ conferences[c].host # u

SeatInv ==
    \A c \in ConfIDs : conferences[c] # NoRow =>
        Cardinality(Taken(c)) + Cardinality(Waiting(c))
            < conferences[c].seats + Cardinality(RegReqs)

AdmitInv == RegCopiesAgree /\ GuestsOnly /\ SeatInv

LEMMA CountTypes ==
  ASSUME NEW c
  PROVE  /\ IsFiniteSet(Taken(c)) /\ Cardinality(Taken(c)) \in Nat
         /\ IsFiniteSet(Waiting(c)) /\ Cardinality(Waiting(c)) \in Nat
         /\ Cardinality(Waiting(c)) <= Cardinality(RegReqs)
         /\ Cardinality(RegReqs) \in Nat
<1>1. Taken(c) \in SUBSET Users /\ Waiting(c) \in SUBSET RegReqs
  BY DEF Taken, Waiting
<1> QED
  BY <1>1, RegAssumption, FS_Subset, FS_CardinalityType

LEMMA SeatsType ==
  ASSUME TypeOK, NEW c \in ConfIDs, conferences[c] # NoRow
  PROVE  conferences[c].seats \in Nat /\ conferences[c].seats >= 1
  BY DEF TypeOK, Tables, Entities

LEMMA AdmitInit == RegInit => AdmitInv
<1> SUFFICES ASSUME RegInit PROVE AdmitInv
  OBVIOUS
<1>1. RegCopiesAgree /\ GuestsOnly
  BY DEF RegInit, RegCopiesAgree, GuestsOnly, Idle
<1>2. ASSUME NEW c \in ConfIDs, conferences[c] # NoRow
      PROVE  Cardinality(Taken(c)) + Cardinality(Waiting(c))
                < conferences[c].seats + Cardinality(RegReqs)
  <2>1. Taken(c) = {} /\ Waiting(c) = {}
    BY DEF RegInit, Taken, Waiting, Idle
  <2>2. conferences[c].seats \in Nat /\ conferences[c].seats >= 1
    BY <1>2, TypeInit, SeatsType DEF RegInit
  <2> QED
    BY <2>1, <2>2, FS_EmptySet, CountTypes
<1> QED
  BY <1>1, <1>2 DEF AdmitInv, SeatInv

\* A step of the conference service: the tables of registrations stand still,
\* and what changes in a conference is neither its host nor its seats.
LEMMA AdmitConfStep ==
  ASSUME TypeOK, TypeOK', RegTypeOK, AdmitInv, KeepsHostAndSeats,
         UNCHANGED regVars
  PROVE  AdmitInv'
<1>0. /\ RegCopiesAgree /\ GuestsOnly /\ SeatInv
      /\ regTask' = regTask /\ registrations' = registrations
  BY DEF AdmitInv, regVars
<1>1. RegCopiesAgree'
  BY <1>0, BusyTask DEF RegCopiesAgree, KeepsHostAndSeats, RegTask
<1>2. GuestsOnly'
  BY <1>0 DEF GuestsOnly, KeepsHostAndSeats
<1>3. ASSUME NEW c \in ConfIDs, conferences'[c] # NoRow
      PROVE  Cardinality(Taken(c)') + Cardinality(Waiting(c)')
                < conferences'[c].seats + Cardinality(RegReqs)
  <2>1. Taken(c)' = Taken(c) /\ Waiting(c)' = Waiting(c)
    BY <1>0 DEF Taken, Waiting
  <2>2. CASE conferences[c] # NoRow
    BY <1>0, <2>1, <2>2 DEF SeatInv, KeepsHostAndSeats
  <2>3. CASE conferences[c] = NoRow
    <3>1. Taken(c) = {} /\ Waiting(c) = {}
      BY <1>0, <2>3 DEF GuestsOnly, RegCopiesAgree, Taken, Waiting
    <3>2. conferences'[c].seats \in Nat /\ conferences'[c].seats >= 1
      BY <1>3 DEF TypeOK, Tables, Entities
    <3> QED
      BY <2>1, <3>1, <3>2, FS_EmptySet, CountTypes
  <2> QED
    BY <2>2, <2>3
<1> QED
  BY <1>1, <1>2, <1>3 DEF AdmitInv, SeatInv

\* A step that takes nobody in keeps the seats as long as a request only
\* starts waiting after it has seen a free seat.
LEMMA SeatCountStep ==
  ASSUME TypeOK, RegTypeOK, AdmitInv, UNCHANGED <<conferences, registrations>>,
         NEW g \in RegReqs,
         \A h \in RegReqs : h # g => regTask'[h] = regTask[h],
         \/ regTask'[g].pc \notin {"clash", "insert"}
         \/ /\ regTask'[g].conf = regTask[g].conf
            /\ regTask[g] \in RegTask
            /\ \/ regTask[g].pc \in {"clash", "insert"}
               \/ regTask[g].pc # "idle" /\ HasSeat(regTask[g])
  PROVE  SeatInv'
<1> SUFFICES ASSUME NEW c \in ConfIDs, conferences[c] # NoRow
             PROVE  Cardinality(Taken(c)') + Cardinality(Waiting(c)')
                      < conferences[c].seats + Cardinality(RegReqs)
  BY DEF SeatInv
<1>0. conferences[c].seats \in Nat /\ conferences[c].seats >= 1
  BY SeatsType
<1>1. Taken(c)' = Taken(c)
  BY DEF Taken
<1>2. Waiting(c)' \subseteq RegReqs
  BY DEF Waiting
<1>3. CASE Waiting(c)' \subseteq Waiting(c)
  <2>1. Cardinality(Waiting(c)') <= Cardinality(Waiting(c))
    BY <1>3, CountTypes, FS_Subset
  <2>2. Cardinality(Waiting(c)') \in Nat
    BY <1>2, RegAssumption, FS_Subset, FS_CardinalityType
  <2> QED
    BY <1>0, <1>1, <2>1, <2>2, CountTypes DEF AdmitInv, SeatInv
<1>4. CASE ~(Waiting(c)' \subseteq Waiting(c))
  <2>1. /\ regTask[g].pc # "idle" /\ regTask[g].conf = c
        /\ HasSeat(regTask[g])
    BY <1>4 DEF Waiting
  <2>2. Cardinality(Taken(c)) < conferences[c].seats
    BY <2>1 DEF HasSeat, AdmitInv, RegCopiesAgree
  <2>3. /\ Cardinality(Waiting(c)') <= Cardinality(RegReqs)
        /\ Cardinality(Waiting(c)') \in Nat
    BY <1>2, RegAssumption, FS_Subset, FS_CardinalityType
  <2> QED
    BY <1>0, <1>1, <2>2, <2>3, CountTypes
<1> QED
  BY <1>3, <1>4

\* One statement of Register.
LEMMA AdmitRegStep ==
  ASSUME TypeOK, RegTypeOK, AdmitInv, UNCHANGED confVars,
         NEW g \in RegReqs, Register(g)
  PROVE  AdmitInv'
<1>0. /\ RegCopiesAgree /\ GuestsOnly /\ SeatInv
      /\ conferences' = conferences
  BY DEF AdmitInv, confVars
<1>1. ASSUME NEW u \in Users, NEW c \in ConfIDs, RegisterGet(g, u, c)
      PROVE  AdmitInv'
  <2>1. /\ \A h \in RegReqs : h # g => regTask'[h] = regTask[h]
        /\ regTask'[g] = [pc |-> "isRegistered", user |-> u, conf |-> c,
                         row |-> conferences[c]]
        /\ registrations' = registrations
    BY <1>1 DEF RegisterGet, RegGoto, RegTypeOK
  <2>2. RegCopiesAgree'
    BY <1>0, <1>1, <2>1 DEF RegisterGet, MayRegister, Live, RegCopiesAgree
  <2>3. GuestsOnly'
    BY <1>0, <2>1 DEF GuestsOnly
  <2>4. SeatInv'
    BY <1>0, <2>1, SeatCountStep
  <2> QED
    BY <2>2, <2>3, <2>4 DEF AdmitInv
<1>2. ASSUME RegisterIsRegistered(g) \/ RegisterCount(g) \/ RegisterClash(g)
      PROVE  AdmitInv'
  <2>0. /\ regTask[g].pc \in {"isRegistered", "count", "clash"}
        /\ regTask[g] \in RegTask
        /\ registrations' = registrations
    BY <1>2, BusyTask DEF RegisterIsRegistered, RegisterCount, RegisterClash
  <2>1. /\ \A h \in RegReqs : h # g => regTask'[h] = regTask[h]
        /\ \/ regTask'[g].pc = "idle"
           \/ /\ regTask'[g].user = regTask[g].user
              /\ regTask'[g].conf = regTask[g].conf
              /\ regTask'[g].row = regTask[g].row
              /\ \/ regTask'[g].pc = "count"
                 \/ HasSeat(regTask[g])
                 \/ regTask[g].pc = "clash"
    <3>1. CASE RegisterIsRegistered(g)
      <4>1. CASE regTask[g].user \in Taken(regTask[g].conf)
        BY <2>0, <3>1, <4>1
        DEF RegisterIsRegistered, RegContinue, RegGoto, RegTypeOK, RegTask, Idle
      <4>2. CASE regTask[g].user \notin Taken(regTask[g].conf)
        BY <2>0, <3>1, <4>2
        DEF RegisterIsRegistered, RegContinue, RegGoto, RegTypeOK, RegTask, Idle
      <4> QED BY <4>1, <4>2
    <3>2. CASE RegisterCount(g)
      <4>1. CASE HasSeat(regTask[g])
        BY <2>0, <3>2, <4>1
        DEF RegisterCount, RegContinue, RegGoto, RegTypeOK, RegTask, Idle
      <4>2. CASE ~HasSeat(regTask[g])
        BY <2>0, <3>2, <4>2
        DEF RegisterCount, RegContinue, RegGoto, RegTypeOK, RegTask, Idle
      <4> QED BY <4>1, <4>2
    <3>3. CASE RegisterClash(g)
      BY <2>0, <3>3
      DEF RegisterClash, RegContinue, RegGoto, RegTypeOK, RegTask, Idle
    <3> QED
      BY <1>2, <3>1, <3>2, <3>3
  <2>2. RegCopiesAgree'
    BY <1>0, <2>0, <2>1 DEF RegCopiesAgree
  <2>3. GuestsOnly'
    BY <1>0, <2>0 DEF GuestsOnly
  <2>4. SeatInv'
    BY <1>0, <2>0, <2>1, SeatCountStep
  <2> QED
    BY <2>2, <2>3, <2>4 DEF AdmitInv
<1>3. ASSUME RegisterInsert(g)
      PROVE  AdmitInv'
  <2> DEFINE u == regTask[g].user
             d == regTask[g].conf
  <2>1. /\ regTask[g].pc = "insert"
        /\ u \in Users /\ d \in ConfIDs
        /\ registrations' = registrations \union {<<u, d>>}
        /\ regTask' = [regTask EXCEPT ![g] = Idle]
    BY <1>3, BusyTask DEF RegisterInsert, RegGoto, RegTask
  <2>2. RegCopiesAgree'
    BY <1>0, <2>1 DEF RegCopiesAgree, RegTypeOK, Idle
  <2>3. conferences[d] # NoRow /\ conferences[d].host # u
    BY <1>0, <2>1 DEF RegCopiesAgree
  <2>4. GuestsOnly'
    BY <1>0, <2>1, <2>3 DEF GuestsOnly
  <2>5. ASSUME NEW c \in ConfIDs, conferences[c] # NoRow
        PROVE  Cardinality(Taken(c)') + Cardinality(Waiting(c)')
                  < conferences[c].seats + Cardinality(RegReqs)
    <3>0. conferences[c].seats \in Nat
      BY <2>5, SeatsType
    <3>1. CASE c = d
      <4>1. Taken(c)' = Taken(c) \union {u}
        BY <2>1, <3>1 DEF Taken
      <4>2. Waiting(c)' = Waiting(c) \ {g} /\ g \in Waiting(c)
        BY <2>1, <3>1 DEF Waiting, RegTypeOK, Idle
      <4>3. /\ Cardinality(Taken(c)') \in Nat
            /\ Cardinality(Taken(c)') <= Cardinality(Taken(c)) + 1
        <5>1. IsFiniteSet(Taken(c)) /\ Cardinality(Taken(c)) \in Nat
          BY CountTypes
        <5>2. Cardinality(Taken(c) \union {u}) =
                IF u \in Taken(c) THEN Cardinality(Taken(c))
                                  ELSE Cardinality(Taken(c)) + 1
          BY <5>1, FS_AddElement
        <5> QED
          BY <4>1, <5>1, <5>2
      <4>4. Cardinality(Waiting(c)') = Cardinality(Waiting(c)) - 1
        BY <4>2, CountTypes, FS_RemoveElement
      <4> QED
        BY <1>0, <2>5, <3>0, <4>3, <4>4, CountTypes DEF SeatInv
    <3>2. CASE c # d
      <4>1. Taken(c)' = Taken(c) /\ Waiting(c)' = Waiting(c)
        BY <2>1, <3>2 DEF Taken, Waiting, RegTypeOK, Idle
      <4> QED
        BY <1>0, <2>5, <4>1 DEF SeatInv
    <3> QED
      BY <3>1, <3>2
  <2>6. SeatInv'
    BY <1>0, <2>5 DEF SeatInv
  <2> QED
    BY <2>2, <2>4, <2>6 DEF AdmitInv
<1>4. ASSUME RegisterFail(g)
      PROVE  AdmitInv'
  <2>1. /\ \A h \in RegReqs : h # g => regTask'[h] = regTask[h]
        /\ regTask'[g].pc = "idle"
        /\ registrations' = registrations
    BY <1>4 DEF RegisterFail, RegGoto, RegTypeOK, Idle
  <2>2. RegCopiesAgree'
    BY <1>0, <2>1 DEF RegCopiesAgree
  <2>3. GuestsOnly'
    BY <1>0, <2>1 DEF GuestsOnly
  <2>4. SeatInv'
    BY <1>0, <2>1, SeatCountStep
  <2> QED
    BY <2>2, <2>3, <2>4 DEF AdmitInv
<1> QED
  BY <1>1, <1>2, <1>3, <1>4 DEF Register

LEMMA AdmitStep ==
  ASSUME TypeOK, TypeOK', RegTypeOK, AdmitInv,
         [RegNext]_vars, [KeepsHostAndSeats]_confVars
  PROVE  AdmitInv'
<1>1. CASE UNCHANGED vars
  BY <1>1 DEF vars, AdmitInv, RegCopiesAgree, GuestsOnly, SeatInv, Taken, Waiting
<1>2. CASE ConfNext /\ UNCHANGED regVars
  <2>1. CASE KeepsHostAndSeats
    BY <1>2, <2>1, AdmitConfStep
  <2>2. CASE UNCHANGED confVars
    BY <1>2, <2>2
    DEF confVars, regVars, AdmitInv, RegCopiesAgree, GuestsOnly, SeatInv, Taken, Waiting
  <2> QED
    BY <2>1, <2>2
<1>3. CASE (\E g \in RegReqs : Register(g)) /\ UNCHANGED confVars
  BY <1>3, AdmitRegStep
<1> QED
  BY <1>1, <1>2, <1>3 DEF RegNext

LEMMA AdmitInvariant == RegSpec => [](TypeOK /\ AdmitInv)
<1>1. RegSpec => []TypeOK /\ [][KeepsHostAndSeats]_confVars
  BY RegImplementsConf, TypeCorrect, HostAndSeatsStay, PTL
<1>2. TypeOK /\ TypeOK' /\ RegTypeOK /\ AdmitInv /\ [RegNext]_vars
        /\ [KeepsHostAndSeats]_confVars => AdmitInv'
  BY AdmitStep
<1> QED
  BY <1>1, <1>2, AdmitInit, RegTypeCorrect, PTL DEF RegSpec

\* However registrations race, and whatever hosts and coordinators do to the
\* conference meanwhile, the seats are exceeded by less than the number of
\* registration requests that can be in flight.
THEOREM SeatsBounded == RegSpec => []SeatBound
<1>1. TypeOK /\ AdmitInv => SeatBound
  BY CountTypes, SeatsType DEF AdmitInv, SeatInv, SeatBound
<1> QED BY <1>1, AdmitInvariant, PTL

\* Registrations served one at a time never exceed the seats, even while
\* conference requests of any number run beside them.
THEOREM SoleRegistrationNeverOverbooks ==
  ASSUME Cardinality(RegReqs) = 1
  PROVE  RegSpec => []SeatsNeverExceeded
<1>1. TypeOK /\ SeatBound => SeatsNeverExceeded
  BY CountTypes, SeatsType DEF SeatBound, SeatsNeverExceeded
<1>2. RegSpec => []TypeOK
  BY RegImplementsConf, TypeCorrect, PTL
<1> QED BY <1>1, <1>2, SeatsBounded, PTL

\* No interleaving registers a host to their own conference.
THEOREM HostStaysOut == RegSpec => []HostNeverAttends
<1>1. AdmitInv => HostNeverAttends
  BY DEF AdmitInv, GuestsOnly, HostNeverAttends, Taken
<1> QED BY <1>1, AdmitInvariant, PTL
=============================================================================
