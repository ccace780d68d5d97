-------------------------- MODULE ConferencesProof --------------------------
(***************************************************************************)
(* Theorems about Conferences, for every set of hosts, coordinators,       *)
(* windows and requests in flight.                                         *)
(***************************************************************************)
EXTENDS Conferences, Functions, FiniteSetTheorems, TLAPS

(* Type correctness. *)

LEMMA TypeInit == ConfInit => TypeOK
  BY ClockAssumption, SeedAssumption
  DEF ConfInit, TypeOK

\* Every step keeps the table's rows and the requests' local variables in
\* their types.
LEMMA TypeStep == TypeOK /\ [ConfNext]_confVars => TypeOK'
<1> SUFFICES ASSUME TypeOK, [ConfNext]_confVars
             PROVE  TypeOK'
  OBVIOUS
<1> USE DEF TypeOK, Goto
<1>1. CASE UNCHANGED confVars
  BY <1>1 DEF confVars
<1>2. CASE Tick
  BY <1>2, ClockAssumption DEF Tick
<1>3. ASSUME NEW r \in HostReqs, NEW u \in Users, NEW w \in Windows,
             NEW n \in SeatChoices, CreateActive(r, u, w, n)
      PROVE  TypeOK'
  BY <1>3, WindowAssumption, SeatAssumption
  DEF CreateActive, Reqs, CreateTask, Entities, Statuses
<1>4. ASSUME NEW r \in HostReqs, NEW u \in Users, NEW c \in ConfIDs,
             UpdateGetDetails(r, u, c)
      PROVE  TypeOK'
  BY <1>4 DEF UpdateGetDetails, MayUpdate, Live, Reqs, WriteTask, Tables
<1>5. ASSUME NEW r \in HostReqs, NEW u \in Users, NEW c \in ConfIDs,
             NEW w \in Windows, UpdateGetWindow(r, u, c, w)
      PROVE  TypeOK'
  BY <1>5, WindowAssumption
  DEF UpdateGetWindow, Accepts, MayUpdate, Live, Reqs, WriteTask, Tables, Entities
<1>6. ASSUME NEW r \in DeskReqs, NEW c \in ConfIDs, NEW to \in Statuses,
             StatusGet(r, c, to)
      PROVE  TypeOK'
  BY <1>6 DEF StatusGet, MayDecide, AfterGet, Live, Reqs, WriteTask, Tables, Entities
<1>7. ASSUME NEW r \in Reqs, NEW c \in ConfIDs, DeleteGet(r, c)
      PROVE  TypeOK'
  BY <1>7 DEF DeleteGet, DeleteTask
<1>8. ASSUME NEW r \in Reqs, Resume(r)
      PROVE  TypeOK'
  <2>1. CASE CreateConflicts(r)
    BY <2>1 DEF CreateConflicts, Accepts, Continue, CreateTask, WriteTask, DeleteTask, Idle
  <2>2. CASE CreateInsert(r)
    BY <2>2 DEF CreateInsert, FreshID, CreateTask, WriteTask, DeleteTask, Idle, Tables
  <2>3. CASE UpdateConflicts(r)
    BY <2>3 DEF UpdateConflicts, Continue, CreateTask, WriteTask, DeleteTask, Idle
  <2>4. CASE StatusConflicts(r)
    BY <2>4 DEF StatusConflicts, Continue, CreateTask, WriteTask, DeleteTask, Idle
  <2>5. CASE UpdateWrite(r) \/ StatusWrite(r)
    BY <2>5 DEF UpdateWrite, StatusWrite, WriteRow, CreateTask, WriteTask,
                DeleteTask, Idle, Tables
  <2>6. CASE DeleteWrite(r)
    BY <2>6 DEF DeleteWrite, CreateTask, WriteTask, DeleteTask, Idle
  <2>7. CASE Fail(r)
    BY <2>7 DEF Fail
  <2> QED
    BY <1>8, <2>1, <2>2, <2>3, <2>4, <2>5, <2>6, <2>7 DEF Resume
<1> QED
  BY <1>1, <1>2, <1>3, <1>4, <1>5, <1>6, <1>7, <1>8
  DEF ConfNext, HostStart, DeskStart, Reqs

\* The table, the clock and the local variables of every request keep their
\* types, however the requests interleave.
THEOREM TypeCorrect == ConfSpec => []TypeOK
<1> QED BY TypeInit, TypeStep, PTL DEF ConfSpec

-----------------------------------------------------------------------------
(* Windows.  What a request will write has passed the check of its window, *)
(* or is a copy of a row that had.                                         *)

Checked == {"create.insert", "update.conflicts", "update.write",
            "status.conflicts", "status.write"}

\* What a request holds at each of its statements.
TaskShape ==
    \A r \in Reqs :
        /\ task[r].pc \in Checked => Ordered(task[r].row)
        /\ task[r].pc \in {"create.conflicts", "create.insert",
                           "update.conflicts", "update.write"}
           => task[r].row.status = "pending"
        /\ task[r].pc = "status.conflicts" => task[r].row.status = "approved"
        /\ task[r].pc \in {"status.conflicts", "status.write"} => r \in DeskReqs

ConfInv == TypeOK /\ WindowOrdered /\ TaskShape

LEMMA ConfInvInit == ConfInit => ConfInv
<1> SUFFICES ASSUME ConfInit PROVE ConfInv
  OBVIOUS
<1>1. WindowOrdered
  BY SeedAssumption DEF ConfInit, WindowOrdered
<1>2. TaskShape
  BY DEF ConfInit, TaskShape, Idle, Checked
<1> QED
  BY <1>1, <1>2, TypeInit DEF ConfInv

LEMMA ConfInvStep == ConfInv /\ [ConfNext]_confVars => ConfInv'
<1> SUFFICES ASSUME ConfInv, [ConfNext]_confVars
             PROVE  WindowOrdered' /\ TaskShape'
  BY TypeStep DEF ConfInv
<1>0. TypeOK /\ TypeOK' /\ WindowOrdered /\ TaskShape
  BY TypeStep DEF ConfInv
<1> USE <1>0 DEF Goto
<1>1. CASE UNCHANGED confVars
  BY <1>1 DEF confVars, WindowOrdered, TaskShape
<1>2. CASE Tick
  BY <1>2 DEF Tick, WindowOrdered, TaskShape
<1>3. ASSUME NEW r \in HostReqs, NEW u \in Users, NEW w \in Windows,
             NEW n \in SeatChoices, CreateActive(r, u, w, n)
      PROVE  WindowOrdered' /\ TaskShape'
  BY <1>3 DEF CreateActive, Reqs, WindowOrdered, TaskShape, TypeOK, Checked
<1>4. ASSUME NEW r \in HostReqs, NEW u \in Users, NEW c \in ConfIDs,
             UpdateGetDetails(r, u, c)
      PROVE  WindowOrdered' /\ TaskShape'
  BY <1>4 DEF UpdateGetDetails, MayUpdate, Live, Reqs, WindowOrdered,
              TaskShape, TypeOK, Checked
<1>5. ASSUME NEW r \in HostReqs, NEW u \in Users, NEW c \in ConfIDs,
             NEW w \in Windows, UpdateGetWindow(r, u, c, w)
      PROVE  WindowOrdered' /\ TaskShape'
  <2>1. [conferences[c] EXCEPT !.starts = w.starts, !.ends = w.ends]
            \in [status : Statuses, host : Users, seats : Nat \ {0},
                 starts : Nat, ends : Nat]
    BY <1>5, WindowAssumption
    DEF UpdateGetWindow, Accepts, MayUpdate, Live, TypeOK, Tables, Entities
  <2>2. conferences[c].status = "pending" /\ Ordered(w)
    BY <1>5 DEF UpdateGetWindow, Accepts, MayUpdate
  <2> QED
    BY <1>5, <2>1, <2>2, WindowAssumption
    DEF UpdateGetWindow, Accepts, MayUpdate, Live, TypeOK, Tables, Entities, Reqs,
        WindowOrdered, TaskShape, Checked, Ordered
<1>6. ASSUME NEW r \in DeskReqs, NEW c \in ConfIDs, NEW to \in Statuses,
             StatusGet(r, c, to)
      PROVE  WindowOrdered' /\ TaskShape'
  BY <1>6 DEF StatusGet, MayDecide, AfterGet, Live, Reqs, WindowOrdered, TaskShape, TypeOK, Checked,
              Tables, Entities, Ordered
<1>7. ASSUME NEW r \in Reqs, NEW c \in ConfIDs, DeleteGet(r, c)
      PROVE  WindowOrdered' /\ TaskShape'
  BY <1>7 DEF DeleteGet, WindowOrdered, TaskShape, TypeOK, Checked
<1>8. ASSUME NEW r \in Reqs, Resume(r)
      PROVE  WindowOrdered' /\ TaskShape'
  <2> USE DEF TaskShape, WindowOrdered
  <2>1. CASE CreateConflicts(r)
    BY <2>1 DEF CreateConflicts, Accepts, Continue, Checked, Idle, TypeOK, CreateTask,
                WriteTask, DeleteTask
  <2>2. CASE CreateInsert(r)
    BY <2>2 DEF CreateInsert, FreshID, Checked, Idle, TypeOK, Tables
  <2>3. CASE UpdateConflicts(r)
    <3>1. task[r].pc = "update.conflicts" /\ task[r] \in WriteTask
      BY <2>3 DEF UpdateConflicts, TypeOK, Idle, CreateTask, WriteTask, DeleteTask
    <3>2. \/ task'[r].pc = "idle"
          \/ task'[r].pc = "update.write" /\ task'[r].row = task[r].row
      BY <2>3, <3>1 DEF UpdateConflicts, Continue, Idle, TypeOK, WriteTask
    <3>3. \A s \in Reqs : s # r => task'[s] = task[s]
      BY <2>3 DEF UpdateConflicts, Continue, TypeOK
    <3> QED
      BY <2>3, <3>1, <3>2, <3>3 DEF UpdateConflicts, Checked
  <2>4. CASE StatusConflicts(r)
    <3>1. task[r].pc = "status.conflicts" /\ task[r] \in WriteTask
      BY <2>4 DEF StatusConflicts, TypeOK, Idle, CreateTask, WriteTask, DeleteTask
    <3>2. \/ task'[r].pc = "idle"
          \/ task'[r].pc = "status.write" /\ task'[r].row = task[r].row
      BY <2>4, <3>1 DEF StatusConflicts, Continue, Idle, TypeOK, WriteTask
    <3>3. \A s \in Reqs : s # r => task'[s] = task[s]
      BY <2>4 DEF StatusConflicts, Continue, TypeOK
    <3> QED
      BY <2>4, <3>1, <3>2, <3>3 DEF StatusConflicts, Checked
  <2>5. CASE UpdateWrite(r) \/ StatusWrite(r)
    BY <2>5 DEF UpdateWrite, StatusWrite, WriteRow, Checked, Idle, TypeOK, Tables
  <2>6. CASE DeleteWrite(r)
    BY <2>6 DEF DeleteWrite, Checked, Idle, TypeOK
  <2>7. CASE Fail(r)
    BY <2>7 DEF Fail, Checked, Idle, TypeOK
  <2> QED
    BY <1>8, <2>1, <2>2, <2>3, <2>4, <2>5, <2>6, <2>7 DEF Resume
<1> QED
  BY <1>1, <1>2, <1>3, <1>4, <1>5, <1>6, <1>7, <1>8
  DEF ConfNext, HostStart, DeskStart, Reqs

LEMMA ConfInvariant == ConfSpec => []ConfInv
<1> QED BY ConfInvInit, ConfInvStep, PTL DEF ConfSpec

\* No interleaving of proposals, edits and decisions leaves a conference whose
\* window ends before it starts.
THEOREM WindowsStayOrdered == ConfSpec => []WindowOrdered
<1>1. ConfInv => WindowOrdered
  BY DEF ConfInv
<1> QED BY <1>1, ConfInvariant, PTL

-----------------------------------------------------------------------------
(* Host and seats.  A copy may be stale in status and window only.         *)

Copying == {"update.conflicts", "update.write", "status.conflicts", "status.write"}

CopiesAgree ==
    \A r \in Reqs : task[r].pc \in Copying =>
        /\ conferences[task[r].conf] # NoRow
        /\ task[r].row.host = conferences[task[r].conf].host
        /\ task[r].row.seats = conferences[task[r].conf].seats

\* Nothing removes a row or changes its host or seats.
KeepsHostAndSeats ==
    \A c \in ConfIDs : conferences[c] # NoRow =>
        /\ conferences'[c] # NoRow
        /\ conferences'[c].host = conferences[c].host
        /\ conferences'[c].seats = conferences[c].seats

LEMMA CopiesInit == ConfInit => CopiesAgree
  BY DEF ConfInit, CopiesAgree, Copying, Idle

\* A request in one of these states holds a copy and knows whose it is.
LEMMA CopyTask ==
  ASSUME TypeOK, NEW r \in Reqs, task[r].pc \in Copying
  PROVE  task[r] \in WriteTask
  BY DEF TypeOK, Copying, Idle, CreateTask, DeleteTask

LEMMA CopiesStep ==
  ASSUME TypeOK, CopiesAgree, [ConfNext]_confVars
  PROVE  CopiesAgree' /\ (UNCHANGED confVars \/ KeepsHostAndSeats)
<1> USE DEF Goto, CopiesAgree
<1>1. CASE UNCHANGED confVars
  BY <1>1 DEF confVars
<1>2. CASE Tick
  BY <1>2 DEF Tick, KeepsHostAndSeats
<1>3. ASSUME NEW r \in HostReqs, NEW u \in Users, NEW w \in Windows,
             NEW n \in SeatChoices, CreateActive(r, u, w, n)
      PROVE  CopiesAgree' /\ KeepsHostAndSeats
  BY <1>3 DEF CreateActive, Reqs, TypeOK, Copying, KeepsHostAndSeats
<1>4. ASSUME NEW r \in HostReqs, NEW u \in Users, NEW c \in ConfIDs,
             UpdateGetDetails(r, u, c)
      PROVE  CopiesAgree' /\ KeepsHostAndSeats
  BY <1>4 DEF UpdateGetDetails, MayUpdate, Live, Reqs, TypeOK, Copying,
              KeepsHostAndSeats
<1>5. ASSUME NEW r \in HostReqs, NEW u \in Users, NEW c \in ConfIDs,
             NEW w \in Windows, UpdateGetWindow(r, u, c, w)
      PROVE  CopiesAgree' /\ KeepsHostAndSeats
  BY <1>5, WindowAssumption
  DEF UpdateGetWindow, Accepts, MayUpdate, Live, Reqs, TypeOK, Tables, Entities,
      Copying, KeepsHostAndSeats
<1>6. ASSUME NEW r \in DeskReqs, NEW c \in ConfIDs, NEW to \in Statuses,
             StatusGet(r, c, to)
      PROVE  CopiesAgree' /\ KeepsHostAndSeats
  BY <1>6 DEF StatusGet, MayDecide, AfterGet, Live, Reqs, TypeOK, Tables, Entities, Copying,
              KeepsHostAndSeats
<1>7. ASSUME NEW r \in Reqs, NEW c \in ConfIDs, DeleteGet(r, c)
      PROVE  CopiesAgree' /\ KeepsHostAndSeats
  BY <1>7 DEF DeleteGet, TypeOK, Copying, KeepsHostAndSeats
<1>8. ASSUME NEW r \in Reqs, Resume(r)
      PROVE  CopiesAgree' /\ KeepsHostAndSeats
  <2>1. CASE CreateConflicts(r)
    <3>1. task[r].pc = "create.conflicts" /\ task[r] \in CreateTask
      BY <2>1 DEF CreateConflicts, Accepts, TypeOK, Idle, WriteTask, DeleteTask
    <3>2. task'[r].pc \in {"idle", "create.insert"}
      BY <2>1, <3>1 DEF CreateConflicts, Accepts, Continue, Idle, TypeOK, CreateTask
    <3>3. \A s \in Reqs : s # r => task'[s] = task[s]
      BY <2>1 DEF CreateConflicts, Accepts, Continue, TypeOK
    <3> QED
      BY <2>1, <3>2, <3>3 DEF CreateConflicts, Accepts, Copying, KeepsHostAndSeats
  <2>2. CASE CreateInsert(r)
    <3>1. PICK c \in ConfIDs :
            /\ conferences[c] = NoRow
            /\ conferences' = [conferences EXCEPT ![c] = task[r].row]
      BY <2>2 DEF CreateInsert, FreshID
    <3>2. \A d \in ConfIDs : conferences[d] # NoRow => conferences'[d] = conferences[d]
      BY <3>1 DEF TypeOK, Tables
    <3>3. task' = [task EXCEPT ![r] = Idle]
      BY <2>2 DEF CreateInsert, FreshID
    <3>4. \A s \in Reqs : task'[s].pc \in Copying =>
            task'[s] = task[s] /\ task[s] \in WriteTask
      BY <3>3, CopyTask DEF TypeOK, Idle, Copying
    <3> QED
      BY <3>2, <3>4 DEF KeepsHostAndSeats, WriteTask
  <2>3. CASE UpdateConflicts(r)
    <3>1. task[r].pc = "update.conflicts" /\ task[r] \in WriteTask
      BY <2>3, CopyTask DEF UpdateConflicts, Copying
    <3>2. \/ task'[r].pc = "idle"
          \/ /\ task'[r].conf = task[r].conf
             /\ task'[r].row = task[r].row
      BY <2>3, <3>1 DEF UpdateConflicts, Continue, Idle, TypeOK, WriteTask
    <3>3. \A s \in Reqs : s # r => task'[s] = task[s]
      BY <2>3 DEF UpdateConflicts, Continue, TypeOK
    <3> QED
      BY <2>3, <3>1, <3>2, <3>3 DEF UpdateConflicts, Copying, KeepsHostAndSeats
  <2>4. CASE StatusConflicts(r)
    <3>1. task[r].pc = "status.conflicts" /\ task[r] \in WriteTask
      BY <2>4, CopyTask DEF StatusConflicts, Copying
    <3>2. \/ task'[r].pc = "idle"
          \/ /\ task'[r].conf = task[r].conf
             /\ task'[r].row = task[r].row
      BY <2>4, <3>1 DEF StatusConflicts, Continue, Idle, TypeOK, WriteTask
    <3>3. \A s \in Reqs : s # r => task'[s] = task[s]
      BY <2>4 DEF StatusConflicts, Continue, TypeOK
    <3> QED
      BY <2>4, <3>1, <3>2, <3>3 DEF StatusConflicts, Copying, KeepsHostAndSeats
  <2>5. CASE UpdateWrite(r) \/ StatusWrite(r)
    <3>1. task[r].pc \in Copying
      BY <2>5 DEF UpdateWrite, StatusWrite, Copying
    <3>2. task[r] \in WriteTask
      BY <3>1, CopyTask
    <3>3. task[r].row # NoRow
      BY <3>2 DEF WriteTask, Entities, Statuses, Decided, NoRow
    <3>4. KeepsHostAndSeats
      BY <2>5, <3>1, <3>2, <3>3
      DEF UpdateWrite, StatusWrite, WriteRow, KeepsHostAndSeats, TypeOK, Tables,
          WriteTask
    <3>5. \A s \in Reqs : task'[s].pc \in Copying =>
            task'[s] = task[s] /\ task[s] \in WriteTask
      BY <2>5, CopyTask DEF UpdateWrite, StatusWrite, WriteRow, TypeOK, Idle, Copying
    <3> QED
      BY <3>4, <3>5 DEF KeepsHostAndSeats, WriteTask
  <2>6. CASE DeleteWrite(r)
    BY <2>6 DEF DeleteWrite, TypeOK, Idle, Copying, KeepsHostAndSeats
  <2>7. CASE Fail(r)
    BY <2>7 DEF Fail, TypeOK, Idle, Copying, KeepsHostAndSeats
  <2> QED
    BY <1>8, <2>1, <2>2, <2>3, <2>4, <2>5, <2>6, <2>7 DEF Resume
<1> QED
  BY <1>1, <1>2, <1>3, <1>4, <1>5, <1>6, <1>7, <1>8
  DEF ConfNext, HostStart, DeskStart, Reqs

\* What a registration has seen of the host and the seats cannot get out of date.
LEMMA HostAndSeatsStay == ConfSpec => [][KeepsHostAndSeats]_confVars
<1>1. TypeOK /\ CopiesAgree /\ [ConfNext]_confVars
      => CopiesAgree' /\ [KeepsHostAndSeats]_confVars
  BY CopiesStep
<1> QED
  BY <1>1, TypeCorrect, CopiesInit, PTL DEF ConfSpec

-----------------------------------------------------------------------------
(* Approval.  A decision that has passed the conflict query and not been   *)
(* written yet grants the hall to its copy of the conference.              *)

Granting(r) == task[r].pc = "status.write" /\ task[r].row.status = "approved"

SoleDesk == \A r, s \in DeskReqs : r = s

SeedsDisjoint ==
    \A t \in Seeds : \A c, d \in ConfIDs :
        /\ c # d
        /\ t[c].status = "approved"
        /\ t[d].status = "approved"
        => ~Overlaps(t[c], t[d])

\* While a grant is pending nothing else is approved in its window.
GrantsFree ==
    \A r \in Reqs : Granting(r) =>
        \A c \in Approved : c # task[r].conf => ~Overlaps(conferences[c], task[r].row)

LEMMA OverlapsSymmetric ==
  ASSUME NEW v, NEW w, v.starts \in Nat, v.ends \in Nat,
         w.starts \in Nat, w.ends \in Nat
  PROVE  Overlaps(v, w) <=> Overlaps(w, v)
  BY DEF Overlaps

\* How a step may change the table's approved rows and the grants.  Only a
\* decision approves, and it only approves what it had been granted; only the
\* conflict query grants.
ApprovesGranted ==
    \A c \in Approved' :
        \/ c \in Approved /\ conferences'[c] = conferences[c]
        \/ \E r \in DeskReqs : /\ Granting(r)
                               /\ task'[r] = Idle
                               /\ task[r].conf = c
                               /\ conferences'[c] = task[r].row

GrantsQueried ==
    \A r \in Reqs : Granting(r)' =>
        \/ Granting(r) /\ task'[r] = task[r]
        \/ /\ r \in DeskReqs
           /\ task'[r].conf = task[r].conf
           /\ task'[r].row = task[r].row
           /\ task[r] \in WriteTask
           /\ Conflicting(task[r].row, {task[r].conf}) = {}
           /\ UNCHANGED <<conferences, deleted>>

LEMMA ApprovalStep ==
  ASSUME ConfInv, [ConfNext]_confVars
  PROVE  ApprovesGranted /\ GrantsQueried
<1>0. TypeOK /\ TaskShape
  BY DEF ConfInv
<1> USE <1>0 DEF Goto, Approved
<1>1. CASE UNCHANGED confVars
  BY <1>1 DEF confVars, ApprovesGranted, GrantsQueried, Granting
<1>2. CASE Tick
  BY <1>2 DEF Tick, ApprovesGranted, GrantsQueried, Granting
<1>3. ASSUME NEW r \in HostReqs, NEW u \in Users, NEW w \in Windows,
             NEW n \in SeatChoices, CreateActive(r, u, w, n)
      PROVE  ApprovesGranted /\ GrantsQueried
  BY <1>3 DEF CreateActive, TypeOK, ApprovesGranted, GrantsQueried, Granting
<1>4. ASSUME NEW r \in HostReqs, NEW u \in Users, NEW c \in ConfIDs,
             UpdateGetDetails(r, u, c)
      PROVE  ApprovesGranted /\ GrantsQueried
  BY <1>4 DEF UpdateGetDetails, TypeOK, ApprovesGranted, GrantsQueried, Granting
<1>5. ASSUME NEW r \in HostReqs, NEW u \in Users, NEW c \in ConfIDs,
             NEW w \in Windows, UpdateGetWindow(r, u, c, w)
      PROVE  ApprovesGranted /\ GrantsQueried
  BY <1>5 DEF UpdateGetWindow, Accepts, TypeOK, ApprovesGranted, GrantsQueried, Granting
<1>6. ASSUME NEW r \in DeskReqs, NEW c \in ConfIDs, NEW to \in Statuses,
             StatusGet(r, c, to)
      PROVE  ApprovesGranted /\ GrantsQueried
  <2>1. [conferences[c] EXCEPT !.status = to].status = to
    BY <1>6 DEF StatusGet, MayDecide, AfterGet, Live, TypeOK, Tables, Entities
  <2> QED
    BY <1>6, <2>1 DEF StatusGet, MayDecide, AfterGet, TypeOK, ApprovesGranted, GrantsQueried, Granting
<1>7. ASSUME NEW r \in Reqs, NEW c \in ConfIDs, DeleteGet(r, c)
      PROVE  ApprovesGranted /\ GrantsQueried
  BY <1>7 DEF DeleteGet, TypeOK, ApprovesGranted, GrantsQueried, Granting
<1>8. ASSUME NEW r \in Reqs, Resume(r)
      PROVE  ApprovesGranted /\ GrantsQueried
  <2>1. CASE CreateConflicts(r)
    <3>1. task[r].pc = "create.conflicts" /\ task[r] \in CreateTask
      BY <2>1 DEF CreateConflicts, Accepts, TypeOK, Idle, WriteTask, DeleteTask
    <3>2. task'[r].pc \in {"idle", "create.insert"}
      BY <2>1, <3>1 DEF CreateConflicts, Accepts, Continue, Idle, TypeOK, CreateTask
    <3>3. \A s \in Reqs : s # r => task'[s] = task[s]
      BY <2>1 DEF CreateConflicts, Accepts, Continue, TypeOK
    <3> QED
      BY <2>1, <3>2, <3>3 DEF CreateConflicts, Accepts, ApprovesGranted, GrantsQueried, Granting
  <2>2. CASE CreateInsert(r)
    BY <2>2 DEF CreateInsert, FreshID, TypeOK, Tables, TaskShape, Idle,
                ApprovesGranted, GrantsQueried, Granting
  <2>3. CASE UpdateConflicts(r)
    <3>1. task[r].pc = "update.conflicts" /\ task[r] \in WriteTask
      BY <2>3, CopyTask DEF UpdateConflicts, Copying
    <3>2. task'[r].pc \in {"idle", "update.write"}
      BY <2>3, <3>1 DEF UpdateConflicts, Continue, Idle, TypeOK, WriteTask
    <3>3. \A s \in Reqs : s # r => task'[s] = task[s]
      BY <2>3 DEF UpdateConflicts, Continue, TypeOK
    <3> QED
      BY <2>3, <3>2, <3>3 DEF UpdateConflicts, ApprovesGranted, GrantsQueried, Granting
  <2>4. CASE StatusConflicts(r)
    <3>1. /\ task[r].pc = "status.conflicts"
          /\ task[r] \in WriteTask
          /\ r \in DeskReqs
      BY <2>4, CopyTask DEF StatusConflicts, Copying, TaskShape
    <3>2. \/ task'[r].pc = "idle"
          \/ /\ task'[r].conf = task[r].conf
             /\ task'[r].row = task[r].row
             /\ Conflicting(task[r].row, {task[r].conf}) = {}
      BY <2>4, <3>1 DEF StatusConflicts, Continue, Idle, TypeOK, WriteTask
    <3>3. \A s \in Reqs : s # r => task'[s] = task[s]
      BY <2>4 DEF StatusConflicts, Continue, TypeOK
    <3>4. UNCHANGED <<conferences, deleted>>
      BY <2>4 DEF StatusConflicts
    <3> QED
      BY <3>1, <3>2, <3>3, <3>4 DEF ApprovesGranted, GrantsQueried, Granting
  <2>5. CASE UpdateWrite(r)
    BY <2>5 DEF UpdateWrite, WriteRow, TypeOK, Tables, TaskShape, Idle,
                ApprovesGranted, GrantsQueried, Granting
  <2>6. CASE StatusWrite(r)
    BY <2>6 DEF StatusWrite, WriteRow, TypeOK, Tables, TaskShape, Idle,
                ApprovesGranted, GrantsQueried, Granting
  <2>7. CASE DeleteWrite(r)
    BY <2>7 DEF DeleteWrite, TypeOK, Idle, ApprovesGranted, GrantsQueried, Granting
  <2>8. CASE Fail(r)
    BY <2>8 DEF Fail, TypeOK, Idle, ApprovesGranted, GrantsQueried, Granting
  <2> QED
    BY <1>8, <2>1, <2>2, <2>3, <2>4, <2>5, <2>6, <2>7, <2>8 DEF Resume
<1> QED
  BY <1>1, <1>2, <1>3, <1>4, <1>5, <1>6, <1>7, <1>8
  DEF ConfNext, HostStart, DeskStart, Reqs

(* One coordinator at a time. *)

OverlapInv == ConfInv /\ GrantsFree /\ NoOverlapApproved

LEMMA OverlapInit == ASSUME SeedsDisjoint PROVE ConfInit => OverlapInv
<1> SUFFICES ASSUME ConfInit PROVE GrantsFree /\ NoOverlapApproved
  BY ConfInvInit DEF OverlapInv
<1>1. GrantsFree
  BY DEF ConfInit, GrantsFree, Granting, Idle
<1>2. NoOverlapApproved
  BY SeedsDisjoint DEF ConfInit, NoOverlapApproved, Approved, SeedsDisjoint
<1> QED BY <1>1, <1>2

LEMMA OverlapStep ==
  ASSUME SoleDesk, OverlapInv, [ConfNext]_confVars
  PROVE  OverlapInv'
<1>0. /\ ConfInv /\ ConfInv' /\ TypeOK /\ TypeOK' /\ TaskShape
      /\ GrantsFree /\ NoOverlapApproved /\ ApprovesGranted /\ GrantsQueried
  BY ConfInvStep, ApprovalStep DEF OverlapInv, ConfInv
<1>1. ASSUME NEW r \in Reqs, Granting(r)',
             NEW c \in Approved', c # task'[r].conf
      PROVE  ~Overlaps(conferences'[c], task'[r].row)
  <2>1. CASE Granting(r) /\ task'[r] = task[r]
    <3>1. r \in DeskReqs
      BY <1>0, <2>1 DEF TaskShape, Granting
    <3>2. \A s \in DeskReqs : task'[s] # Idle
      BY <1>1, <3>1, SoleDesk DEF SoleDesk, Granting, Idle
    <3>3. c \in Approved /\ conferences'[c] = conferences[c]
      BY <1>0, <3>2 DEF ApprovesGranted
    <3> QED
      BY <1>0, <1>1, <2>1, <3>3 DEF GrantsFree
  <2>2. CASE /\ task'[r].conf = task[r].conf
             /\ task'[r].row = task[r].row
             /\ Conflicting(task[r].row, {task[r].conf}) = {}
             /\ UNCHANGED <<conferences, deleted>>
    BY <1>1, <2>2 DEF Conflicting, Approved
  <2> QED
    BY <1>0, <1>1, <2>1, <2>2 DEF GrantsQueried
<1>2. ASSUME NEW c \in Approved', NEW d \in Approved', c # d
      PROVE  ~Overlaps(conferences'[c], conferences'[d])
  <2>0. /\ conferences'[c].starts \in Nat /\ conferences'[c].ends \in Nat
        /\ conferences'[d].starts \in Nat /\ conferences'[d].ends \in Nat
    BY <1>0 DEF TypeOK, Tables, Entities, Approved, NoRow
  <2>1. ASSUME NEW a \in Approved', NEW b \in Approved', a # b,
               b \in Approved, conferences'[b] = conferences[b],
               NEW r \in DeskReqs, Granting(r), task[r].conf = a,
               conferences'[a] = task[r].row
        PROVE  ~Overlaps(conferences'[b], conferences'[a])
    BY <1>0, <2>1 DEF GrantsFree, Reqs
  <2>2. CASE /\ c \in Approved /\ conferences'[c] = conferences[c]
             /\ d \in Approved /\ conferences'[d] = conferences[d]
    BY <1>0, <1>2, <2>2 DEF NoOverlapApproved
  <2>3. CASE ~(c \in Approved /\ conferences'[c] = conferences[c])
    <3>1. PICK r \in DeskReqs : /\ Granting(r)
                                /\ task[r].conf = c
                                /\ conferences'[c] = task[r].row
      BY <1>0, <2>3 DEF ApprovesGranted
    <3>2. d \in Approved /\ conferences'[d] = conferences[d]
      BY <1>0, <1>2, <3>1, SoleDesk DEF ApprovesGranted, SoleDesk
    <3>3. ~Overlaps(conferences'[d], conferences'[c])
      BY <1>2, <2>1, <3>1, <3>2
    <3> QED
      BY <2>0, <3>3, OverlapsSymmetric
  <2>4. CASE ~(d \in Approved /\ conferences'[d] = conferences[d])
    <3>1. PICK r \in DeskReqs : /\ Granting(r)
                                /\ task[r].conf = d
                                /\ conferences'[d] = task[r].row
      BY <1>0, <2>4 DEF ApprovesGranted
    <3>2. c \in Approved /\ conferences'[c] = conferences[c]
      BY <1>0, <1>2, <3>1, SoleDesk DEF ApprovesGranted, SoleDesk
    <3> QED
      BY <1>2, <2>1, <3>1, <3>2
  <2> QED
    BY <2>2, <2>3, <2>4
<1> QED
  BY <1>0, <1>1, <1>2 DEF OverlapInv, GrantsFree, NoOverlapApproved

\* With one coordinator deciding at a time, and any number of hosts proposing
\* and editing meanwhile, approved conferences never overlap.
THEOREM SoleDeskNeverOverlaps ==
  ASSUME SoleDesk, SeedsDisjoint
  PROVE  ConfSpec => []NoOverlapApproved
<1>1. ConfInit => OverlapInv
  BY SeedsDisjoint, OverlapInit
<1>2. OverlapInv /\ [ConfNext]_confVars => OverlapInv'
  BY SoleDesk, OverlapStep
<1>3. OverlapInv => NoOverlapApproved
  BY DEF OverlapInv
<1> QED BY <1>1, <1>2, <1>3, PTL DEF ConfSpec

-----------------------------------------------------------------------------
(* Decisions.  What a coordinator is about to decide is still pending when *)
(* the decision is written, although hosts may have written the row since. *)

Deciding == {"status.conflicts", "status.write"}

PendingDecided ==
    \A r \in Reqs : task[r].pc \in Deciding =>
        conferences[task[r].conf].status = "pending"

\* Rows that are there change to pending ones, or by a decision that is over.
DecidedByDesk ==
    \A c \in ConfIDs :
        \/ conferences[c] = NoRow
        \/ conferences'[c] = conferences[c]
        \/ conferences'[c].status = "pending"
        \/ \E r \in DeskReqs : /\ task[r].pc \in Deciding
                               /\ task[r].conf = c
                               /\ task'[r] = Idle

\* A coordinator who goes on deciding is at the same row, or has just read it.
DecisionsRead ==
    \A r \in Reqs : task'[r].pc \in Deciding =>
        \/ /\ task[r].pc \in Deciding
           /\ task'[r].conf = task[r].conf
        \/ /\ UNCHANGED conferences
           /\ conferences[task'[r].conf].status = "pending"

LEMMA DecisionStep ==
  ASSUME ConfInv, [ConfNext]_confVars
  PROVE  DecidedByDesk /\ DecisionsRead
<1>0. TypeOK /\ TaskShape
  BY DEF ConfInv
<1> USE <1>0 DEF Goto, Deciding
<1>1. CASE UNCHANGED confVars
  BY <1>1 DEF confVars, DecidedByDesk, DecisionsRead
<1>2. CASE Tick
  BY <1>2 DEF Tick, DecidedByDesk, DecisionsRead
<1>3. ASSUME NEW r \in HostReqs, NEW u \in Users, NEW w \in Windows,
             NEW n \in SeatChoices, CreateActive(r, u, w, n)
      PROVE  DecidedByDesk /\ DecisionsRead
  BY <1>3 DEF CreateActive, TypeOK, DecidedByDesk, DecisionsRead
<1>4. ASSUME NEW r \in HostReqs, NEW u \in Users, NEW c \in ConfIDs,
             UpdateGetDetails(r, u, c)
      PROVE  DecidedByDesk /\ DecisionsRead
  BY <1>4 DEF UpdateGetDetails, TypeOK, DecidedByDesk, DecisionsRead
<1>5. ASSUME NEW r \in HostReqs, NEW u \in Users, NEW c \in ConfIDs,
             NEW w \in Windows, UpdateGetWindow(r, u, c, w)
      PROVE  DecidedByDesk /\ DecisionsRead
  BY <1>5 DEF UpdateGetWindow, Accepts, TypeOK, DecidedByDesk, DecisionsRead
<1>6. ASSUME NEW r \in DeskReqs, NEW c \in ConfIDs, NEW to \in Statuses,
             StatusGet(r, c, to)
      PROVE  DecidedByDesk /\ DecisionsRead
  BY <1>6 DEF StatusGet, MayDecide, TypeOK, DecidedByDesk, DecisionsRead
<1>7. ASSUME NEW r \in Reqs, NEW c \in ConfIDs, DeleteGet(r, c)
      PROVE  DecidedByDesk /\ DecisionsRead
  BY <1>7 DEF DeleteGet, TypeOK, DecidedByDesk, DecisionsRead
<1>8. ASSUME NEW r \in Reqs, Resume(r)
      PROVE  DecidedByDesk /\ DecisionsRead
  <2>1. CASE CreateConflicts(r)
    <3>1. task[r].pc = "create.conflicts" /\ task[r] \in CreateTask
      BY <2>1 DEF CreateConflicts, Accepts, TypeOK, Idle, WriteTask, DeleteTask
    <3>2. task'[r].pc \in {"idle", "create.insert"}
      BY <2>1, <3>1 DEF CreateConflicts, Accepts, Continue, Idle, TypeOK, CreateTask
    <3>3. \A s \in Reqs : s # r => task'[s] = task[s]
      BY <2>1 DEF CreateConflicts, Accepts, Continue, TypeOK
    <3> QED
      BY <2>1, <3>2, <3>3 DEF CreateConflicts, Accepts, DecidedByDesk, DecisionsRead
  <2>2. CASE CreateInsert(r)
    BY <2>2 DEF CreateInsert, FreshID, TypeOK, Tables, Idle, DecidedByDesk, DecisionsRead
  <2>3. CASE UpdateConflicts(r)
    <3>1. task[r].pc = "update.conflicts" /\ task[r] \in WriteTask
      BY <2>3, CopyTask DEF UpdateConflicts, Copying
    <3>2. task'[r].pc \in {"idle", "update.write"}
      BY <2>3, <3>1 DEF UpdateConflicts, Continue, Idle, TypeOK, WriteTask
    <3>3. \A s \in Reqs : s # r => task'[s] = task[s]
      BY <2>3 DEF UpdateConflicts, Continue, TypeOK
    <3> QED
      BY <2>3, <3>2, <3>3 DEF UpdateConflicts, DecidedByDesk, DecisionsRead
  <2>4. CASE StatusConflicts(r)
    <3>1. task[r].pc = "status.conflicts" /\ task[r] \in WriteTask
      BY <2>4, CopyTask DEF StatusConflicts, Copying
    <3>2. task'[r].pc = "idle" \/ task'[r].conf = task[r].conf
      BY <2>4, <3>1 DEF StatusConflicts, Continue, Idle, TypeOK, WriteTask
    <3>3. \A s \in Reqs : s # r => task'[s] = task[s]
      BY <2>4 DEF StatusConflicts, Continue, TypeOK
    <3> QED
      BY <2>4, <3>1, <3>2, <3>3 DEF StatusConflicts, DecidedByDesk, DecisionsRead
  <2>5. CASE UpdateWrite(r)
    BY <2>5 DEF UpdateWrite, WriteRow, TypeOK, Tables, TaskShape, Idle,
                DecidedByDesk, DecisionsRead
  <2>6. CASE StatusWrite(r)
    <3>1. task[r].pc = "status.write" /\ r \in DeskReqs /\ task'[r] = Idle
      BY <2>6 DEF StatusWrite, WriteRow, TypeOK, TaskShape
    <3>2. \A c \in ConfIDs : c # task[r].conf => conferences'[c] = conferences[c]
      BY <2>6 DEF StatusWrite, WriteRow, TypeOK, Tables
    <3>3. \A s \in Reqs : s # r => task'[s] = task[s]
      BY <2>6 DEF StatusWrite, WriteRow, TypeOK
    <3> QED
      BY <3>1, <3>2, <3>3 DEF DecidedByDesk, DecisionsRead, Idle
  <2>7. CASE DeleteWrite(r) \/ Fail(r)
    BY <2>7 DEF DeleteWrite, Fail, TypeOK, Idle, DecidedByDesk, DecisionsRead
  <2> QED
    BY <1>8, <2>1, <2>2, <2>3, <2>4, <2>5, <2>6, <2>7 DEF Resume
<1> QED
  BY <1>1, <1>2, <1>3, <1>4, <1>5, <1>6, <1>7, <1>8
  DEF ConfNext, HostStart, DeskStart, Reqs

DecisionInv == ConfInv /\ PendingDecided

LEMMA DecisionInvInit == ConfInit => DecisionInv
  BY ConfInvInit DEF ConfInit, DecisionInv, PendingDecided, Deciding, Idle

\* The one coordinator, still deciding, has seen nobody else decide.
LEMMA DecisionInvStep ==
  ASSUME SoleDesk, DecisionInv, [ConfNext]_confVars
  PROVE  DecisionInv'
<1>1. ConfInv /\ TypeOK /\ TypeOK' /\ TaskShape' /\ DecidedByDesk /\ DecisionsRead
  BY ConfInvStep, DecisionStep DEF DecisionInv, ConfInv
<1>2. ASSUME NEW r \in Reqs, task'[r].pc \in Deciding
      PROVE  conferences'[task'[r].conf].status = "pending"
  <2>1. CASE task[r].pc \in Deciding /\ task'[r].conf = task[r].conf
    <3> DEFINE c == task[r].conf
    <3>1. c \in ConfIDs /\ conferences[c].status = "pending"
      BY <1>1, <2>1, CopyTask DEF Deciding, Copying, WriteTask, DecisionInv, PendingDecided
    <3>2. r \in DeskReqs /\ task'[r] # Idle
      BY <1>1, <1>2 DEF TaskShape, Deciding, Idle
    <3>3. conferences'[c] = conferences[c] \/ conferences'[c].status = "pending"
      BY <1>1, <3>1, <3>2, SoleDesk DEF DecidedByDesk, SoleDesk, NoRow
    <3> QED
      BY <2>1, <3>1, <3>3
  <2>2. CASE UNCHANGED conferences /\ conferences[task'[r].conf].status = "pending"
    BY <2>2
  <2> QED
    BY <1>1, <1>2, <2>1, <2>2 DEF DecisionsRead
<1> QED
  BY <1>1, <1>2, ConfInvStep DEF DecisionInv, PendingDecided

\* With one coordinator deciding at a time, and any number of hosts editing
\* meanwhile, a decided conference keeps its decision and its window until a
\* stale edit makes it pending again; it is never decided differently at once.
THEOREM SoleDeskDecidesOnce ==
  ASSUME SoleDesk
  PROVE  ConfSpec => DecisionsOnlyUndone
<1> DEFINE OnlyUndone ==
      \A c \in ConfIDs :
         conferences[c].status \in Decided /\ conferences'[c] # conferences[c] =>
            conferences'[c].status = "pending"
<1>1. DecisionInv /\ [ConfNext]_confVars => DecisionInv' /\ [OnlyUndone]_confVars
  <2> SUFFICES ASSUME DecisionInv, [ConfNext]_confVars,
                      NEW c \in ConfIDs, conferences[c].status \in Decided,
                      conferences'[c] # conferences[c]
               PROVE  conferences'[c].status = "pending"
    BY SoleDesk, DecisionInvStep
  <2>1. ConfInv /\ DecidedByDesk
    BY DecisionStep DEF DecisionInv
  <2>2. ~\E r \in DeskReqs : task[r].pc \in Deciding /\ task[r].conf = c
    BY DEF DecisionInv, PendingDecided, Decided, Reqs
  <2>3. conferences[c] # NoRow
    BY DEF NoRow, Decided
  <2> QED
    BY <2>1, <2>2, <2>3 DEF DecidedByDesk
<1> QED
  BY <1>1, DecisionInvInit, PTL DEF ConfSpec, DecisionsOnlyUndone
-----------------------------------------------------------------------------
(* Any number of coordinators.  The hall is claimed at time t by the       *)
(* conferences approved for it and by those it has been granted to.        *)

Granters(t) == {r \in DeskReqs : Granting(r) /\ Occupies(task[r].row, t)}
Claims(t) == InUse(t) \union {task[r].conf : r \in Granters(t)}

ClaimBound == \A t \in Nat : Cardinality(Claims(t)) <= DeskLimit

ClaimInv == ConfInv /\ ClaimBound

LEMMA DeskLimitType ==
  /\ DeskLimit \in Nat /\ DeskLimit >= 1
  /\ DeskReqs # {} => DeskLimit = Cardinality(DeskReqs)
  BY FiniteAssumption, FS_CardinalityType, FS_EmptySet DEF DeskLimit

\* Conferences that use the hall at the same time overlap.
LEMMA OccupyOverlap ==
  ASSUME NEW v, NEW w, NEW t \in Nat, v.starts \in Nat, v.ends \in Nat,
         w.starts \in Nat, w.ends \in Nat, Occupies(v, t), Occupies(w, t)
  PROVE  Overlaps(v, w)
  BY DEF Occupies, Overlaps

LEMMA ClaimsFinite ==
  ASSUME TypeOK, NEW t
  PROVE  Claims(t) \subseteq ConfIDs /\ IsFiniteSet(Claims(t))
<1>1. \A r \in Granters(t) : task[r].conf \in ConfIDs
  <2> SUFFICES ASSUME NEW r \in Granters(t) PROVE task[r].conf \in ConfIDs
    OBVIOUS
  <2>1. r \in Reqs /\ task[r].pc \in Copying
    BY DEF Granters, Granting, Copying, Reqs
  <2> QED
    BY <2>1, CopyTask DEF WriteTask
<1>2. Claims(t) \subseteq ConfIDs
  BY <1>1 DEF Claims, InUse, Approved
<1> QED
  BY <1>2, FiniteAssumption, FS_Subset

\* A set that the requests of the desks can be mapped onto is no larger.
LEMMA GrantersBound ==
  ASSUME NEW S, NEW G, G \subseteq DeskReqs, NEW f \in Surjection(G, S)
  PROVE  Cardinality(S) <= Cardinality(DeskReqs)
<1>1. IsFiniteSet(G) /\ Cardinality(G) <= Cardinality(DeskReqs)
  BY FiniteAssumption, FS_Subset
<1>2. IsFiniteSet(S) /\ Cardinality(S) <= Cardinality(G)
  BY <1>1, FS_Surjection
<1> QED
  BY <1>1, <1>2, FiniteAssumption, FS_CardinalityType

LEMMA ClaimInit == ASSUME SeedsDisjoint PROVE ConfInit => ClaimInv
<1> SUFFICES ASSUME ConfInit, NEW t \in Nat
             PROVE  Cardinality(Claims(t)) <= DeskLimit
  BY ConfInvInit DEF ClaimInv, ClaimBound
<1>0. TypeOK
  BY TypeInit
<1>1. Granters(t) = {}
  BY DEF ConfInit, Granters, Granting, Idle, Reqs
<1>2. ASSUME NEW c \in Claims(t), NEW d \in Claims(t), c # d
      PROVE  FALSE
  <2>1. c \in InUse(t) /\ d \in InUse(t)
    BY <1>1 DEF Claims
  <2>2. Overlaps(conferences[c], conferences[d])
    BY <1>0, <2>1, OccupyOverlap
    DEF InUse, Approved, TypeOK, Tables, Entities, NoRow
  <2> QED
    BY <1>2, <2>1, <2>2, SeedsDisjoint
    DEF ConfInit, SeedsDisjoint, InUse, Approved
<1>3. Claims(t) = {} \/ \E c : Claims(t) = {c}
  BY <1>2
<1>4. Cardinality(Claims(t)) \in {0, 1}
  BY <1>3, FS_EmptySet, FS_Singleton
<1> QED
  BY <1>4, DeskLimitType

LEMMA ClaimStep ==
  ASSUME ClaimInv, [ConfNext]_confVars
  PROVE  ClaimInv'
<1>0. /\ ConfInv /\ ConfInv' /\ TypeOK /\ TypeOK' /\ TaskShape /\ TaskShape'
      /\ ClaimBound /\ ApprovesGranted /\ GrantsQueried
  BY ConfInvStep, ApprovalStep DEF ClaimInv, ConfInv
<1> SUFFICES ASSUME NEW t \in Nat
             PROVE  Cardinality(Claims(t)') <= DeskLimit
  BY <1>0 DEF ClaimInv, ClaimBound, DeskLimit
<1>1. CASE \E r \in Granters(t)' : ~(Granting(r) /\ task'[r] = task[r])
  \* a new grant for t: nothing but grants claims t from now on
  <2>1. PICK r \in DeskReqs :
          /\ Granting(r)'
          /\ Occupies(task'[r].row, t)
          /\ ~(Granting(r) /\ task'[r] = task[r])
    BY <1>1 DEF Granters
  <2>2. /\ task'[r].conf = task[r].conf
        /\ task'[r].row = task[r].row
        /\ task[r] \in WriteTask
        /\ Conflicting(task[r].row, {task[r].conf}) = {}
        /\ UNCHANGED <<conferences, deleted>>
    BY <1>0, <2>1 DEF GrantsQueried, Reqs
  <2>3. ASSUME NEW c \in InUse(t)'
        PROVE  c = task'[r].conf
    <3>1. c \in Approved /\ Occupies(conferences[c], t)
      BY <2>2 DEF InUse, Approved
    <3>2. Overlaps(conferences[c], task[r].row)
      BY <1>0, <2>1, <2>2, <3>1, OccupyOverlap
      DEF Approved, TypeOK, Tables, Entities, NoRow, WriteTask
    <3> QED
      BY <2>2, <3>1, <3>2 DEF Conflicting
  <2> DEFINE G == Granters(t)'
             f == [s \in G |-> task'[s].conf]
  <2>4. G \subseteq DeskReqs /\ r \in G
    BY <2>1 DEF Granters
  <2>5. Claims(t)' = {task'[s].conf : s \in G}
    BY <2>3, <2>4 DEF Claims
  <2>6. f \in Surjection(G, Claims(t)')
    BY <2>5 DEF Surjection
  <2>7. Cardinality(Claims(t)') <= Cardinality(DeskReqs)
    BY <2>4, <2>6, GrantersBound
  <2> QED
    BY <2>4, <2>7, DeskLimitType
<1>2. CASE \A r \in Granters(t)' : Granting(r) /\ task'[r] = task[r]
  \* no new grant: whatever claims t claimed it before
  <2>1. ASSUME NEW c \in InUse(t)'
        PROVE  c \in Claims(t)
    <3>1. CASE c \in Approved /\ conferences'[c] = conferences[c]
      BY <3>1 DEF InUse, Claims
    <3>2. ASSUME NEW r \in DeskReqs, Granting(r), task[r].conf = c,
                 conferences'[c] = task[r].row
          PROVE  c \in Claims(t)
      BY <3>2 DEF InUse, Claims, Granters
    <3> QED
      BY <1>0, <3>1, <3>2 DEF ApprovesGranted, InUse
  <2>2. ASSUME NEW r \in Granters(t)'
        PROVE  task'[r].conf \in Claims(t)
    BY <1>2 DEF Granters, Claims
  <2>3. Claims(t)' \subseteq Claims(t)
    BY <2>1, <2>2 DEF Claims
  <2>4. /\ Cardinality(Claims(t)') <= Cardinality(Claims(t))
        /\ Cardinality(Claims(t)') \in Nat /\ Cardinality(Claims(t)) \in Nat
    BY <1>0, <2>3, ClaimsFinite, FS_Subset, FS_CardinalityType
  <2>5. Cardinality(Claims(t)) <= DeskLimit
    BY <1>0 DEF ClaimBound
  <2> QED
    BY <2>4, <2>5, DeskLimitType
<1> QED
  BY <1>1, <1>2

\* Whatever coordinators decide at once, at no time is the hall promised to
\* more conferences than there are requests that can decide.
THEOREM OverlapBounded ==
  ASSUME SeedsDisjoint
  PROVE  ConfSpec => []OverlapBound
<1>1. ConfInit => ClaimInv
  BY SeedsDisjoint, ClaimInit
<1>2. ClaimInv /\ [ConfNext]_confVars => ClaimInv'
  BY ClaimStep
<1>3. ClaimInv => OverlapBound
  <2> SUFFICES ASSUME ClaimInv, NEW c \in Approved
               PROVE  Cardinality(InUse(conferences[c].starts)) <= DeskLimit
    BY DEF OverlapBound
  <2> DEFINE t == conferences[c].starts
  <2>0. TypeOK
    BY DEF ClaimInv, ConfInv
  <2>1. t \in Nat
    BY <2>0 DEF TypeOK, Tables, Entities, Approved, NoRow
  <2>2. InUse(t) \subseteq Claims(t)
    BY DEF Claims
  <2>3. /\ Cardinality(InUse(t)) <= Cardinality(Claims(t))
        /\ Cardinality(InUse(t)) \in Nat /\ Cardinality(Claims(t)) \in Nat
    BY <2>0, <2>2, ClaimsFinite, FS_Subset, FS_CardinalityType
  <2>4. Cardinality(Claims(t)) <= DeskLimit
    BY <2>1 DEF ClaimInv, ClaimBound
  <2> QED
    BY <2>3, <2>4, DeskLimitType
<1> QED BY <1>1, <1>2, <1>3, PTL DEF ConfSpec
=============================================================================
