----------------------------- MODULE SerialProof -----------------------------
(***************************************************************************)
(* What the services promise when conference requests are served one at a  *)
(* time, for any number of registrations and feedbacks beside them: the    *)
(* conference service implements ConferencePlan, the three services        *)
(* together implement AuditoriumPlan, and the promises of the error        *)
(* messages follow.                                                        *)
(***************************************************************************)
EXTENDS FeedbacksProof

SoleRequest == \A r, s \in Reqs : r = s

Creating == {"create.conflicts", "create.insert"}

\* What the statements run so far have found out for the next one is still
\* true: nobody else writes conferences meanwhile.
Prepared(r) ==
    /\ task[r].pc \in Creating => ActiveProposals(task[r].row.host) = {}
    /\ task[r].pc = "create.insert" => Conflicting(task[r].row, {}) = {}
    /\ task[r].pc \in Copying =>
          Live(task[r].conf) /\ conferences[task[r].conf].status = "pending"
    /\ task[r].pc = "update.write" =>
          \/ task[r].row = conferences[task[r].conf]
          \/ Conflicting(task[r].row, {task[r].conf}) = {}
    /\ task[r].pc \in Deciding =>
          /\ task[r].row.starts = conferences[task[r].conf].starts
          /\ task[r].row.ends = conferences[task[r].conf].ends
    /\ task[r].pc = "status.write" /\ task[r].row.status = "approved" =>
          Conflicting(task[r].row, {task[r].conf}) = {}
    /\ task[r].pc = "delete.write" => Live(task[r].conf)

SerialInv == ConfInv /\ CopiesAgree /\ \A r \in Reqs : Prepared(r)

LEMMA IdlePrepared == ASSUME NEW r, task[r].pc = "idle" PROVE Prepared(r)
  BY DEF Prepared, Creating, Copying, Deciding

LEMMA SerialInit == ConfInit => SerialInv
<1> SUFFICES ASSUME ConfInit PROVE SerialInv
  OBVIOUS
<1>1. \A r \in Reqs : Prepared(r)
  BY IdlePrepared DEF ConfInit, Idle
<1> QED
  BY <1>1, ConfInvInit, CopiesInit DEF SerialInv

\* A request that goes from one query to the next keeps its copy.
LEMMA QueryStep ==
  ASSUME TypeOK, NEW r \in Reqs, NEW ok \in BOOLEAN, NEW pc, Continue(r, ok, pc),
         task[r] \in CreateTask \union WriteTask
  PROVE  \/ task'[r].pc = "idle"
         \/ ok /\ task'[r] = [task[r] EXCEPT !.pc = pc]
  BY DEF Continue, Goto, Idle, TypeOK

LEMMA SerialStep ==
  ASSUME SoleRequest, SerialInv, [ConfNext]_confVars
  PROVE  SerialInv'
<1>0. /\ TypeOK /\ TypeOK' /\ ConfInv' /\ CopiesAgree' /\ TaskShape
      /\ \A r \in Reqs : Prepared(r)
  BY ConfInvStep, CopiesStep DEF SerialInv, ConfInv
<1> SUFFICES ASSUME NEW r \in Reqs PROVE Prepared(r)'
  BY <1>0 DEF SerialInv
<1>1. CASE UNCHANGED confVars
  BY <1>0, <1>1 DEF confVars, Prepared, ActiveProposals, Conflicting, Approved, Live
<1>2. CASE Tick
  <2>1. /\ now' = now + 1 /\ now \in Nat
        /\ UNCHANGED <<conferences, deleted, task>>
    BY <1>0, <1>2, ClockAssumption DEF Tick, TypeOK
  <2>2. \A u : ActiveProposals(u)' \subseteq ActiveProposals(u)
    BY <1>0, <2>1 DEF ActiveProposals, TypeOK, Tables, Entities, NoRow
  <2> QED
    BY <1>0, <2>1, <2>2 DEF Prepared, Conflicting, Approved, Live
<1>3. ASSUME NEW u \in Users, NEW w \in Windows, NEW n \in SeatChoices,
             CreateActive(r, u, w, n)
      PROVE  Prepared(r)'
  <2>1. /\ task'[r] = [pc |-> "create.conflicts",
                       row |-> [status |-> "pending", host |-> u, seats |-> n,
                                starts |-> w.starts, ends |-> w.ends]]
        /\ ActiveProposals(u)' = {}
    BY <1>0, <1>3 DEF CreateActive, MayPropose, Goto, TypeOK, ActiveProposals
  <2> QED
    BY <2>1 DEF Prepared, Creating, Copying, Deciding
<1>4. ASSUME NEW u \in Users, NEW c \in ConfIDs, UpdateGetDetails(r, u, c)
      PROVE  Prepared(r)'
  BY <1>0, <1>4
  DEF UpdateGetDetails, MayUpdate, Goto, TypeOK, Live, Prepared, Creating, Copying, Deciding
<1>5. ASSUME NEW u \in Users, NEW c \in ConfIDs, NEW w \in Windows,
             UpdateGetWindow(r, u, c, w)
      PROVE  Prepared(r)'
  BY <1>0, <1>5
  DEF UpdateGetWindow, MayUpdate, Goto, TypeOK, Live, Prepared, Creating, Copying, Deciding
<1>6. ASSUME NEW c \in ConfIDs, NEW to \in Statuses, StatusGet(r, c, to)
      PROVE  Prepared(r)'
  <2>1. /\ conferences[c] \in Entities /\ Live(c) /\ conferences[c].status = "pending"
        /\ task'[r] = [pc |-> AfterGet(to), conf |-> c,
                       row |-> [conferences[c] EXCEPT !.status = to]]
        /\ UNCHANGED <<conferences, deleted>>
    BY <1>0, <1>6 DEF StatusGet, MayDecide, Live, Goto, TypeOK, Tables
  <2>2. /\ task'[r].conf = c /\ task'[r].row.status = to
        /\ task'[r].row.starts = conferences[c].starts
        /\ task'[r].row.ends = conferences[c].ends
        /\ task'[r].pc = AfterGet(to)
    BY <2>1 DEF Entities
  <2> QED
    BY <2>1, <2>2 DEF AfterGet, Live, Prepared, Creating, Copying, Deciding
<1>7. ASSUME NEW c \in ConfIDs, DeleteGet(r, c)
      PROVE  Prepared(r)'
  BY <1>0, <1>7
  DEF DeleteGet, Goto, TypeOK, Live, Prepared, Creating, Copying, Deciding
<1>8. ASSUME Resume(r)
      PROVE  Prepared(r)'
  <2>1. CASE CreateConflicts(r)
    <3>1. task[r].pc = "create.conflicts" /\ task[r] \in CreateTask
      BY <1>0, <2>1 DEF CreateConflicts, TypeOK, Idle, WriteTask, DeleteTask
    <3>2. /\ UNCHANGED <<now, conferences, deleted>>
          /\ \/ task'[r].pc = "idle"
             \/ /\ Conflicting(task[r].row, {}) = {}
                /\ task'[r] = [task[r] EXCEPT !.pc = "create.insert"]
      BY <1>0, <2>1, <3>1, QueryStep DEF CreateConflicts
    <3>3. CASE task'[r] = [task[r] EXCEPT !.pc = "create.insert"]
               /\ Conflicting(task[r].row, {}) = {}
      <4>1. task'[r].pc = "create.insert" /\ task'[r].row = task[r].row
        BY <3>1, <3>3 DEF CreateTask
      <4>2. ActiveProposals(task[r].row.host) = {}
        BY <1>0, <3>1 DEF Prepared, Creating
      <4> QED
        BY <3>2, <3>3, <4>1, <4>2
        DEF Prepared, Creating, Copying, Deciding, ActiveProposals, Conflicting, Approved
    <3> QED
      BY <3>2, <3>3, IdlePrepared DEF Prepared, Creating, Copying, Deciding
  <2>2. CASE UpdateConflicts(r)
    <3>1. task[r].pc = "update.conflicts" /\ task[r] \in WriteTask
      BY <1>0, <2>2, CopyTask DEF UpdateConflicts, Copying
    <3>2. /\ UNCHANGED <<now, conferences, deleted>>
          /\ \/ task'[r].pc = "idle"
             \/ /\ Conflicting(task[r].row, {task[r].conf}) = {}
                /\ task'[r] = [task[r] EXCEPT !.pc = "update.write"]
      BY <1>0, <2>2, <3>1, QueryStep DEF UpdateConflicts
    <3>3. CASE /\ Conflicting(task[r].row, {task[r].conf}) = {}
               /\ task'[r] = [task[r] EXCEPT !.pc = "update.write"]
      <4>1. /\ task'[r].pc = "update.write"
            /\ task'[r].row = task[r].row /\ task'[r].conf = task[r].conf
        BY <3>1, <3>3 DEF WriteTask
      <4> QED
        BY <1>0, <3>1, <3>2, <3>3, <4>1
        DEF Prepared, Creating, Copying, Deciding, Live, Conflicting, Approved
    <3> QED
      BY <3>2, <3>3 DEF Prepared, Creating, Copying, Deciding
  <2>3. CASE StatusConflicts(r)
    <3>1. task[r].pc = "status.conflicts" /\ task[r] \in WriteTask
      BY <1>0, <2>3, CopyTask DEF StatusConflicts, Copying
    <3>2. /\ UNCHANGED <<now, conferences, deleted>>
          /\ \/ task'[r].pc = "idle"
             \/ /\ Conflicting(task[r].row, {task[r].conf}) = {}
                /\ task'[r] = [task[r] EXCEPT !.pc = "status.write"]
      BY <1>0, <2>3, <3>1, QueryStep DEF StatusConflicts
    <3>3. CASE /\ Conflicting(task[r].row, {task[r].conf}) = {}
               /\ task'[r] = [task[r] EXCEPT !.pc = "status.write"]
      <4>1. /\ task'[r].pc = "status.write"
            /\ task'[r].row = task[r].row /\ task'[r].conf = task[r].conf
        BY <3>1, <3>3 DEF WriteTask
      <4> QED
        BY <1>0, <3>1, <3>2, <3>3, <4>1
        DEF Prepared, Creating, Copying, Deciding, Live, Conflicting, Approved
    <3> QED
      BY <3>2, <3>3 DEF Prepared, Creating, Copying, Deciding
  <2>4. CASE CreateInsert(r) \/ UpdateWrite(r) \/ StatusWrite(r) \/ DeleteWrite(r) \/ Fail(r)
    <3>1. task'[r] = Idle
      BY <1>0, <2>4
      DEF CreateInsert, UpdateWrite, StatusWrite, WriteRow, DeleteWrite, Fail, Goto, TypeOK
    <3> QED
      BY <3>1 DEF Idle, Prepared, Creating, Copying, Deciding
  <2> QED
    BY <1>8, <2>1, <2>2, <2>3, <2>4 DEF Resume
<1>9. \A s \in Reqs : s = r
  BY DEF SoleRequest
<1> QED
  BY <1>1, <1>2, <1>3, <1>4, <1>5, <1>6, <1>7, <1>8, <1>9
  DEF ConfNext, HostStart, DeskStart, Reqs

-----------------------------------------------------------------------------
(* The plan of the conference service. *)

\* Writing a copy that agrees on the other columns moves the window alone.
LEMMA SameButWindow ==
  ASSUME NEW t \in Tables, NEW c \in ConfIDs, t[c] \in Entities, NEW a \in Entities,
         a.status = t[c].status, a.host = t[c].host, a.seats = t[c].seats
  PROVE  [t EXCEPT ![c] = a] = [t EXCEPT ![c].starts = a.starts, ![c].ends = a.ends]
<1>1. a = [t[c] EXCEPT !.starts = a.starts, !.ends = a.ends]
  BY DEF Entities
<1> QED
  BY <1>1 DEF Tables, Entities

\* A copy that agrees on the other columns differs in the status alone.
LEMMA SameButStatus ==
  ASSUME NEW a \in Entities, NEW b \in Entities,
         a.host = b.host, a.seats = b.seats, a.starts = b.starts, a.ends = b.ends
  PROVE  a = [b EXCEPT !.status = a.status]
  BY DEF Entities

\* What the conflict query finds is what the plan looks at.
LEMMA QueryHallFree ==
  ASSUME NEW c, NEW w, NEW self, self \subseteq {c}, Conflicting(w, self) = {}
  PROVE  Plan!HallFree(c, w)
  BY DEF Plan!HallFree, Plan!Approved, Conflicting, Approved, Plan!Overlaps, Overlaps

LEMMA PlanInsert ==
  ASSUME SerialInv, NEW r \in Reqs, CreateInsert(r)
  PROVE  \E c \in ConfIDs : Plan!Propose(c)
<1>1. PICK c \in ConfIDs : /\ conferences[c] = NoRow
                           /\ conferences' = [conferences EXCEPT ![c] = task[r].row]
  BY DEF CreateInsert, FreshID
<1>2. /\ TypeOK /\ task[r].pc = "create.insert" /\ UNCHANGED <<now, deleted>>
      /\ Ordered(task[r].row) /\ task[r].row.status = "pending"
      /\ ActiveProposals(task[r].row.host) = {} /\ Conflicting(task[r].row, {}) = {}
  <2>1. /\ TypeOK /\ task[r].pc = "create.insert" /\ UNCHANGED <<now, deleted>>
        /\ TaskShape /\ Prepared(r)
    BY DEF CreateInsert, SerialInv, ConfInv
  <2>2. Ordered(task[r].row) /\ task[r].row.status = "pending"
    BY <2>1 DEF TaskShape, Checked
  <2>3. ActiveProposals(task[r].row.host) = {} /\ Conflicting(task[r].row, {}) = {}
    BY <2>1 DEF Prepared, Creating
  <2> QED
    BY <2>1, <2>2, <2>3
<1>3. conferences'[c] = task[r].row
  BY <1>1, <1>2 DEF TypeOK, Tables
<1>4. \A d \in ConfIDs : /\ Plan!Live(d)
                         /\ conferences[d].status = "pending"
                         /\ conferences[d].host = task[r].row.host
                         => conferences[d].ends <= now
  <2> SUFFICES ASSUME NEW d \in ConfIDs, Plan!Live(d), conferences[d].status = "pending",
                      conferences[d].host = task[r].row.host
               PROVE  conferences[d].ends <= now
    OBVIOUS
  <2>1. conferences[d].ends \in Nat /\ now \in Nat
    BY <1>2 DEF Plan!Live, Plan!NoRow, NoRow, TypeOK, Tables, Entities
  <2>2. ~(conferences[d].ends > now)
    BY <1>2 DEF ActiveProposals, Plan!Live
  <2> QED
    BY <2>1, <2>2
<1>5. Plan!HallFree(c, task[r].row)
  BY <1>2, QueryHallFree
<1>6. Plan!NoRow = NoRow
  BY DEF Plan!NoRow, NoRow
<1>7. task[r].row \in Plan!Row
  <2>1. task[r] \in CreateTask
    BY <1>2 DEF TypeOK, Idle, WriteTask, DeleteTask
  <2> QED
    BY <2>1 DEF CreateTask, Entities, Statuses, Decided, Plan!Row
<1> QED
  BY <1>1, <1>2, <1>3, <1>4, <1>5, <1>6, <1>7 DEF Plan!Propose, Plan!Ordered, Ordered

\* What a write finds.
LEMMA WriteFacts ==
  ASSUME SerialInv, NEW r \in Reqs, task[r].pc \in Copying, WriteRow(r)
  PROVE  /\ task[r] \in WriteTask /\ task[r].row \in Entities
         /\ task[r].conf \in ConfIDs /\ conferences[task[r].conf] \in Entities
         /\ Plan!Live(task[r].conf) /\ conferences[task[r].conf].status = "pending"
         /\ task[r].row.host = conferences[task[r].conf].host
         /\ task[r].row.seats = conferences[task[r].conf].seats
         /\ conferences' = [conferences EXCEPT ![task[r].conf] = task[r].row]
         /\ conferences'[task[r].conf] = task[r].row
         /\ UNCHANGED <<now, deleted>>
<1>1. TypeOK /\ CopiesAgree /\ Prepared(r)
  BY DEF SerialInv, ConfInv
<1>2. task[r] \in WriteTask
  BY <1>1, CopyTask
<1>3. Live(task[r].conf) /\ conferences[task[r].conf].status = "pending"
  BY <1>1 DEF Prepared
<1>4. /\ task[r].row.host = conferences[task[r].conf].host
      /\ task[r].row.seats = conferences[task[r].conf].seats
  BY <1>1 DEF CopiesAgree
<1>5. task[r].row \in Entities /\ task[r].conf \in ConfIDs
  BY <1>2 DEF WriteTask
<1>6. conferences[task[r].conf] \in Entities
  BY <1>1, <1>3, <1>5 DEF TypeOK, Tables, Live
<1> QED
  BY <1>1, <1>2, <1>3, <1>4, <1>5, <1>6
  DEF WriteRow, TypeOK, Tables, Live, NoRow, Plan!Live, Plan!NoRow

LEMMA PlanUpdate ==
  ASSUME SerialInv, NEW r \in Reqs, UpdateWrite(r)
  PROVE  UNCHANGED Plan!planVars \/ \E c \in ConfIDs : Plan!Move(c)
<1> DEFINE c == task[r].conf
           row == task[r].row
<1>1. task[r].pc = "update.write" /\ WriteRow(r)
  BY DEF UpdateWrite
<1>2. /\ row \in Entities /\ c \in ConfIDs /\ conferences[c] \in Entities
      /\ Plan!Live(c) /\ conferences[c].status = "pending"
      /\ row.host = conferences[c].host /\ row.seats = conferences[c].seats
      /\ conferences' = [conferences EXCEPT ![c] = row] /\ conferences'[c] = row
      /\ UNCHANGED <<now, deleted>>
  BY <1>1, WriteFacts DEF Copying
<1>3. /\ row.status = "pending" /\ Ordered(row) /\ TypeOK
      /\ row = conferences[c] \/ Conflicting(row, {c}) = {}
  BY <1>1 DEF SerialInv, ConfInv, TaskShape, Checked, Prepared
<1>4. CASE row = conferences[c]
  <2>1. conferences' = conferences
    BY <1>2, <1>3, <1>4 DEF TypeOK, Tables
  <2> QED
    BY <1>2, <2>1 DEF Plan!planVars
<1>5. CASE Conflicting(row, {c}) = {}
  <2>1. Plan!HallFree(c, row)
    BY <1>5, QueryHallFree
  <2>2. conferences' = [conferences EXCEPT ![c].starts = row.starts, ![c].ends = row.ends]
    <3>1. conferences \in Tables /\ row.status = conferences[c].status
      BY <1>2, <1>3 DEF TypeOK
    <3> HIDE DEF c, row
    <3>2. [conferences EXCEPT ![c] = row]
            = [conferences EXCEPT ![c].starts = row.starts, ![c].ends = row.ends]
      BY <1>2, <3>1, SameButWindow
    <3> QED
      BY <1>2, <3>2, Zenon
  <2>3. row \in Plan!Row
    BY <1>2 DEF Entities, Statuses, Decided, Plan!Row
  <2>4. Plan!Move(c)
    BY <1>2, <1>3, <2>1, <2>2, <2>3 DEF Plan!Move, Plan!Ordered, Ordered
  <2> QED
    BY <1>2, <2>4
<1> QED
  BY <1>3, <1>4, <1>5

LEMMA PlanStatus ==
  ASSUME SerialInv, NEW r \in Reqs, StatusWrite(r)
  PROVE  \/ UNCHANGED Plan!planVars
         \/ \E c \in ConfIDs : \E to \in {"approved", "rejected"} : Plan!Decide(c, to)
<1> DEFINE c == task[r].conf
           row == task[r].row
<1>1. task[r].pc = "status.write" /\ WriteRow(r)
  BY DEF StatusWrite
<1>2. /\ row \in Entities /\ c \in ConfIDs /\ conferences[c] \in Entities
      /\ Plan!Live(c) /\ conferences[c].status = "pending"
      /\ row.host = conferences[c].host /\ row.seats = conferences[c].seats
      /\ conferences' = [conferences EXCEPT ![c] = row] /\ conferences'[c] = row
      /\ UNCHANGED <<now, deleted>>
  BY <1>1, WriteFacts DEF Copying
<1>3. /\ row.starts = conferences[c].starts /\ row.ends = conferences[c].ends
      /\ row.status = "approved" => Conflicting(row, {c}) = {}
      /\ TypeOK
  BY <1>1 DEF SerialInv, ConfInv, Prepared, Deciding
<1>4. row = [conferences[c] EXCEPT !.status = row.status]
  BY <1>2, <1>3, SameButStatus
<1>5. row.status \in {"pending", "approved", "rejected"}
  BY <1>2 DEF Entities, Statuses, Decided
<1>6. CASE row.status = "pending"
  <2>1. row = conferences[c]
    BY <1>2, <1>4, <1>6 DEF Entities
  <2>2. conferences' = conferences
    BY <1>2, <1>3, <2>1 DEF TypeOK, Tables
  <2> QED
    BY <1>2, <2>2 DEF Plan!planVars
<1>7. CASE row.status \in {"approved", "rejected"}
  <2>1. row.status = "approved" => Plan!HallFree(c, conferences[c])
    BY <1>3 DEF Plan!HallFree, Plan!Approved, Conflicting, Approved, Plan!Overlaps, Overlaps
  <2>2. conferences' = [conferences EXCEPT ![c].status = row.status]
    BY <1>2, <1>4
  <2>3. Plan!Decide(c, row.status)
    BY <1>2, <2>1, <2>2 DEF Plan!Decide
  <2> QED
    BY <1>2, <1>7, <2>3
<1> QED
  BY <1>5, <1>6, <1>7

LEMMA PlanDelete ==
  ASSUME SerialInv, NEW r \in Reqs, DeleteWrite(r)
  PROVE  \E c \in ConfIDs : Plan!Cancel(c)
<1>1. /\ task[r].pc = "delete.write" /\ deleted' = deleted \union {task[r].conf}
      /\ UNCHANGED <<now, conferences>>
  BY DEF DeleteWrite
<1>2. TypeOK /\ Prepared(r)
  BY DEF SerialInv, ConfInv
<1>3. task[r] \in DeleteTask
  BY <1>1, <1>2 DEF TypeOK, Idle, CreateTask, WriteTask
<1>4. Live(task[r].conf)
  BY <1>1, <1>2 DEF Prepared
<1> QED
  BY <1>1, <1>3, <1>4 DEF Plan!Cancel, Plan!Live, Plan!NoRow, Live, NoRow, DeleteTask

LEMMA PlanStep ==
  ASSUME SerialInv, [ConfNext]_confVars
  PROVE  [Plan!Next]_(Plan!planVars)
<1>1. CASE UNCHANGED confVars
  BY <1>1 DEF confVars, Plan!planVars
<1>2. CASE Tick
  BY <1>2 DEF Tick, Plan!Next, Plan!Advance
<1>3. CASE \E r \in HostReqs : HostStart(r)
  BY <1>3 DEF HostStart, CreateActive, UpdateGetDetails, UpdateGetWindow, DeleteGet,
              Plan!planVars
<1>4. CASE \E r \in DeskReqs : DeskStart(r)
  BY <1>4 DEF DeskStart, StatusGet, DeleteGet, Plan!planVars
<1>5. ASSUME NEW r \in Reqs, Resume(r)
      PROVE  [Plan!Next]_(Plan!planVars)
  <2>1. CASE CreateConflicts(r) \/ UpdateConflicts(r) \/ StatusConflicts(r) \/ Fail(r)
    BY <2>1 DEF CreateConflicts, UpdateConflicts, StatusConflicts, Fail, Plan!planVars
  <2>2. CASE CreateInsert(r)
    BY <2>2, PlanInsert DEF Plan!Next
  <2>3. CASE UpdateWrite(r)
    BY <2>3, PlanUpdate DEF Plan!Next
  <2>4. CASE StatusWrite(r)
    BY <2>4, PlanStatus DEF Plan!Next
  <2>5. CASE DeleteWrite(r)
    BY <2>5, PlanDelete DEF Plan!Next
  <2> QED
    BY <1>5, <2>1, <2>2, <2>3, <2>4, <2>5 DEF Resume
<1> QED
  BY <1>1, <1>2, <1>3, <1>4, <1>5 DEF ConfNext

LEMMA SerialInvariant == ASSUME SoleRequest PROVE ConfSpec => []SerialInv
<1>1. SerialInv /\ [ConfNext]_confVars => SerialInv'
  BY SoleRequest, SerialStep
<1> QED
  BY <1>1, SerialInit, PTL DEF ConfSpec

\* Served one at a time, failing anywhere and with the clock running between
\* statements, requests have the effect of the indivisible steps of the plan.
THEOREM SerialImplementsPlan ==
  ASSUME SoleRequest
  PROVE  ConfSpec => ImplementsPlan
<1>1. ConfInit => Plan!Init
  BY DEF ConfInit, Plan!Init
<1>2. SerialInv /\ [ConfNext]_confVars => [Plan!Next]_(Plan!planVars)
  BY PlanStep
<1>3. ConfSpec => []SerialInv
  BY SoleRequest, SerialInvariant
<1> QED
  BY <1>1, <1>2, <1>3, PTL DEF ConfSpec, ImplementsPlan, Plan!Spec

\* No step of the plan touches a conference that has been decided on.
LEMMA PlanKeepsDecided ==
  ASSUME TypeOK, [Plan!Next]_(Plan!planVars),
         NEW c \in ConfIDs, conferences[c].status \in Decided
  PROVE  conferences'[c] = conferences[c]
<1>1. conferences[c].status # "pending" /\ conferences[c] # Plan!NoRow
  BY DEF Decided, Plan!NoRow
<1>2. ASSUME NEW d \in ConfIDs,
             \/ Plan!Propose(d) \/ Plan!Move(d)
             \/ \E to \in {"approved", "rejected"} : Plan!Decide(d, to)
      PROVE  conferences'[c] = conferences[c]
  BY <1>1, <1>2 DEF Plan!Propose, Plan!Move, Plan!Decide, TypeOK, Tables
<1>3. CASE UNCHANGED Plan!planVars \/ Plan!Advance \/ \E d \in ConfIDs : Plan!Cancel(d)
  BY <1>3 DEF Plan!planVars, Plan!Advance, Plan!Cancel
<1> QED
  BY <1>2, <1>3 DEF Plan!Next

-----------------------------------------------------------------------------
(* Registrations.  Whoever has found a conference approved may rely on it   *)
(* to the end.                                                             *)

DecidedStay ==
    \A c \in ConfIDs : conferences[c].status \in Decided => conferences'[c] = conferences[c]

\* Nobody is registered, or about to be, to what is not approved; and the copy
\* a request has made of the conference is not out of date.
ApprovedInv ==
    /\ RegisteredStayApproved
    /\ \A g \in RegReqs : regTask[g].pc # "idle" =>
          /\ conferences[regTask[g].conf].status = "approved"
          /\ regTask[g].row = conferences[regTask[g].conf]

LEMMA ApprovedInit == RegInit => ApprovedInv
  BY DEF RegInit, ApprovedInv, RegisteredStayApproved, Idle

\* A registration that goes from one query to the next keeps what it is about.
LEMMA RegQueryStep ==
  ASSUME RegTypeOK, NEW g \in RegReqs, NEW ok \in BOOLEAN, NEW pc,
         RegContinue(g, ok, pc), regTask[g] \in RegTask
  PROVE  /\ \A h \in RegReqs : h # g => regTask'[h] = regTask[h]
         /\ \/ regTask'[g].pc = "idle"
            \/ regTask'[g].conf = regTask[g].conf /\ regTask'[g].row = regTask[g].row
<1>1. CASE ok = TRUE
  BY <1>1 DEF RegContinue, RegGoto, RegTypeOK, RegTask
<1>2. CASE ok = FALSE
  BY <1>2 DEF RegContinue, RegGoto, RegTypeOK, Idle
<1> QED
  BY <1>1, <1>2

LEMMA ApprovedStep ==
  ASSUME RegTypeOK, ApprovedInv, [RegNext]_vars, DecidedStay
  PROVE  ApprovedInv'
<1>0. \A c \in ConfIDs : conferences[c].status = "approved" =>
         conferences'[c] = conferences[c]
  BY DEF DecidedStay, Decided
<1>1. CASE UNCHANGED vars \/ UNCHANGED regVars
  <2>1. UNCHANGED regVars
    BY <1>1 DEF vars, regVars
  <2>2. \A g \in RegReqs : regTask[g].pc # "idle" => regTask[g].conf \in ConfIDs
    BY BusyTask DEF RegTask
  <2> QED
    BY <1>0, <2>1, <2>2 DEF regVars, ApprovedInv, RegisteredStayApproved
<1>2. ASSUME NEW g \in RegReqs, Register(g), UNCHANGED confVars
      PROVE  ApprovedInv'
  <2>0. conferences' = conferences
    BY <1>2 DEF confVars
  <2>1. ASSUME NEW u \in Users, NEW c \in ConfIDs, RegisterGet(g, u, c)
        PROVE  ApprovedInv'
    BY <2>0, <2>1 DEF RegisterGet, MayRegister, RegGoto, RegTypeOK, ApprovedInv,
                      RegisteredStayApproved
  <2>2. CASE RegisterIsRegistered(g) \/ RegisterCount(g) \/ RegisterClash(g)
    <3>1. /\ regTask[g] \in RegTask /\ regTask[g].pc # "idle"
          /\ registrations' = registrations
      BY <2>2, BusyTask DEF RegisterIsRegistered, RegisterCount, RegisterClash
    <3>2. /\ \A h \in RegReqs : h # g => regTask'[h] = regTask[h]
          /\ \/ regTask'[g].pc = "idle"
             \/ regTask'[g].conf = regTask[g].conf /\ regTask'[g].row = regTask[g].row
      <4>1. CASE RegisterIsRegistered(g)
        BY <3>1, <4>1, RegQueryStep DEF RegisterIsRegistered
      <4>2. CASE RegisterCount(g)
        <5>1. HasSeat(regTask[g]) \in BOOLEAN
          BY DEF HasSeat
        <5> QED
          BY <3>1, <4>2, <5>1, RegQueryStep DEF RegisterCount
      <4>3. CASE RegisterClash(g)
        BY <3>1, <4>3, RegQueryStep DEF RegisterClash
      <4> QED
        BY <2>2, <4>1, <4>2, <4>3
    <3> QED
      BY <2>0, <3>1, <3>2 DEF ApprovedInv, RegisteredStayApproved
  <2>3. CASE RegisterInsert(g)
    <3>1. regTask[g] \in RegTask /\ regTask[g].pc # "idle"
      BY <2>3, BusyTask DEF RegisterInsert
    <3>2. conferences[regTask[g].conf].status = "approved"
      BY <3>1 DEF ApprovedInv
    <3> QED
      BY <2>0, <2>3, <3>2
      DEF RegisterInsert, RegGoto, RegTypeOK, Idle, ApprovedInv, RegisteredStayApproved
  <2>4. CASE RegisterFail(g)
    BY <2>0, <2>4 DEF RegisterFail, RegGoto, RegTypeOK, Idle, ApprovedInv,
                      RegisteredStayApproved
  <2> QED
    BY <1>2, <2>1, <2>2, <2>3, <2>4 DEF Register
<1> QED
  BY <1>1, <1>2 DEF RegNext

LEMMA ConfKeepsDecided ==
  ASSUME SerialInv, [ConfNext]_confVars
  PROVE  DecidedStay
<1>1. [Plan!Next]_(Plan!planVars) /\ TypeOK
  BY PlanStep DEF SerialInv, ConfInv
<1> QED
  BY <1>1, PlanKeepsDecided DEF DecidedStay

LEMMA ApprovedInvariant == ASSUME SoleRequest PROVE RegSpec => []ApprovedInv
<1>1. RegTypeOK /\ SerialInv /\ ApprovedInv /\ [RegNext]_vars => ApprovedInv'
  BY RegStepConfStep, ConfKeepsDecided, ApprovedStep
<1>2. ConfSpec => []SerialInv
  BY SoleRequest, SerialInvariant
<1> QED
  BY <1>1, <1>2, ApprovedInit, RegTypeCorrect, RegImplementsConf, PTL DEF RegSpec

\* Nobody is ever registered to a conference that is not approved, or is
\* approved no longer, whatever the number of registrations in flight.
THEOREM SerialRegisteredStayApproved ==
  ASSUME SoleRequest
  PROVE  RegSpec => []RegisteredStayApproved
<1>1. ApprovedInv => RegisteredStayApproved
  BY DEF ApprovedInv
<1>2. RegSpec => []ApprovedInv
  BY SoleRequest, ApprovedInvariant
<1> QED
  BY <1>1, <1>2, PTL

\* Nobody is registered to two standing conferences that overlap, although the
\* query for clashes misses what another request is about to insert.
THEOREM SerialNoDoubleBooking ==
  ASSUME SoleRequest, SeedsDisjoint
  PROVE  RegSpec => []NoDoubleBooking
<1>1. SoleDesk
  BY SoleRequest DEF SoleRequest, SoleDesk, Reqs
<1>2. ConfSpec => []NoOverlapApproved
  BY <1>1, SeedsDisjoint, SoleDeskNeverOverlaps
<1>3. RegSpec => []RegisteredStayApproved
  BY SoleRequest, SerialRegisteredStayApproved
<1>4. NoOverlapApproved /\ RegisteredStayApproved => NoDoubleBooking
  BY DEF NoOverlapApproved, RegisteredStayApproved, NoDoubleBooking, Approved
<1> QED
  BY <1>2, <1>3, <1>4, RegImplementsConf, PTL

-----------------------------------------------------------------------------
(* The query for clashes.  A comment in Register says that it never finds   *)
(* anything, because approved conferences do not conflict; but it includes  *)
(* both ends of a window where the conflict query includes neither.        *)

\* All that lies between the two notions of being at the same time.
LEMMA ClashOverlapsOrTouches ==
  ASSUME NEW c \in Entities, NEW w \in Entities, Ordered(c), Ordered(w), Clashes(c, w)
  PROVE  Overlaps(c, w) \/ Touches(c, w)
  BY DEF Entities, Ordered, Clashes, Between, Overlaps, Touches

LEMMA ClashTouches ==
  ASSUME TypeOK, WindowOrdered, NoOverlapApproved, RegTypeOK, ApprovedInv
  PROVE  ClashOnlyTouches
<1> SUFFICES ASSUME NEW g \in RegReqs, regTask[g].pc = "clash", regTask[g].conf \notin deleted,
                    NEW c \in ClashingRegistrations(regTask[g].user, regTask[g].row),
                    c # regTask[g].conf
             PROVE  Touches(conferences[c], regTask[g].row)
  BY DEF ClashOnlyTouches
<1>1. /\ regTask[g].conf \in ConfIDs /\ regTask[g].user \in Users
      /\ regTask[g].row = conferences[regTask[g].conf]
      /\ regTask[g].conf \in Approved
  BY BusyTask DEF RegTask, ApprovedInv, Approved
<1>2. /\ c \in ConfIDs \ deleted /\ Clashes(conferences[c], regTask[g].row)
      /\ c \in Approved
  BY <1>1 DEF ClashingRegistrations, ApprovedInv, RegisteredStayApproved, Approved
<1>3. ~Overlaps(conferences[c], regTask[g].row)
  BY <1>1, <1>2 DEF NoOverlapApproved
<1>4. \A d \in Approved : conferences[d] \in Entities /\ Ordered(conferences[d])
  BY DEF Approved, TypeOK, Tables, NoRow, WindowOrdered
<1> QED
  BY <1>1, <1>2, <1>3, <1>4, ClashOverlapsOrTouches

\* The comment in Register, corrected: whoever is refused for a clash attends a
\* conference back to back with the new one, never at the same time, as long as
\* the requests that change conferences are served one at a time.
THEOREM SerialClashOnlyTouches ==
  ASSUME SoleRequest, SeedsDisjoint
  PROVE  RegSpec => []ClashOnlyTouches
<1>1. SoleDesk
  BY SoleRequest DEF SoleRequest, SoleDesk, Reqs
<1>2. ConfSpec => []NoOverlapApproved
  BY <1>1, SeedsDisjoint, SoleDeskNeverOverlaps
<1>3. RegSpec => []ApprovedInv
  BY SoleRequest, ApprovedInvariant
<1> QED
  BY <1>2, <1>3, ClashTouches, TypeCorrect, WindowsStayOrdered, RegImplementsConf,
     RegTypeCorrect, PTL

-----------------------------------------------------------------------------
(* Feedback.  A conference that is over stays over.                        *)

Over(c) == conferences[c].status = "approved" /\ conferences[c].ends <= now

\* The end a request has read of an approved conference is still its end.
EndKnown(t) ==
    t.pc \in {"ended", "insert"} =>
        conferences[t.conf].status = "approved" /\ conferences[t.conf].ends = t.ends

\* Nobody says, or is about to say, anything about what is not over.
OverInv ==
    /\ \A f \in FbReqs : /\ EndKnown(fbTask[f])
                         /\ fbTask[f].pc = "insert" => Over(fbTask[f].conf)
    /\ FeedbackAfterEnd

LEMMA OverInit == FbInit => OverInv
  BY DEF FbInit, OverInv, EndKnown, FeedbackAfterEnd, Idle

\* No step of the plan turns the clock back.
LEMMA PlanClock ==
  ASSUME [Plan!Next]_(Plan!planVars)
  PROVE  now' = now \/ now' = now + 1
  BY DEF Plan!Next, Plan!planVars, Plan!Advance, Plan!Propose, Plan!Move, Plan!Decide,
         Plan!Cancel

LEMMA OverStays ==
  ASSUME SerialInv, [ConfNext]_confVars, NEW c \in ConfIDs, Over(c)
  PROVE  Over(c)'
<1>1. conferences'[c] = conferences[c]
  BY ConfKeepsDecided DEF DecidedStay, Over, Decided
<1>2. TypeOK /\ [Plan!Next]_(Plan!planVars)
  BY PlanStep DEF SerialInv, ConfInv
<1>3. now' = now \/ now' = now + 1
  BY <1>2, PlanClock
<1>4. conferences[c].ends \in Nat /\ now \in Nat
  BY <1>2 DEF Over, TypeOK, Tables, Entities, NoRow
<1> QED
  BY <1>1, <1>3, <1>4 DEF Over

LEMMA OverStep ==
  ASSUME FbTypeOK, SerialInv, OverInv, [FbNext]_allVars
  PROVE  OverInv'
<1>0. [ConfNext]_confVars
  BY FbStepRegStep, RegStepConfStep
<1>1. \A c \in ConfIDs : Over(c) => Over(c)'
  BY <1>0, OverStays
<1>2. \A f \in FbReqs : fbTask[f].pc # "idle" => fbTask[f].conf \in ConfIDs
  BY FbBusy DEF FbTask
<1>3. \A i \in FeedbackIDs : feedbacks[i] # NoFeedback =>
         feedbacks[i].conf \in ConfIDs /\ Over(feedbacks[i].conf)
  BY DEF FbTypeOK, Feedback, OverInv, FeedbackAfterEnd, Over
<1>4. CASE UNCHANGED allVars \/ UNCHANGED fbVars \/ \E i \in FeedbackIDs : DeleteFeedback(i)
  <2>1. UNCHANGED <<feedbacks, fbTask>>
    BY <1>4 DEF allVars, fbVars, DeleteFeedback
  <2>2. ASSUME NEW f \in FbReqs
        PROVE  EndKnown(fbTask[f])'
    <3> SUFFICES ASSUME fbTask[f].pc \in {"ended", "insert"}
                 PROVE  /\ conferences'[fbTask[f].conf].status = "approved"
                        /\ conferences'[fbTask[f].conf].ends = fbTask[f].ends
      BY <2>1 DEF EndKnown
    <3>1. /\ fbTask[f].conf \in ConfIDs
          /\ conferences[fbTask[f].conf].status = "approved"
          /\ conferences[fbTask[f].conf].ends = fbTask[f].ends
      BY <1>2 DEF OverInv, EndKnown
    <3>2. conferences'[fbTask[f].conf] = conferences[fbTask[f].conf]
      BY <1>0, <3>1, ConfKeepsDecided DEF DecidedStay, Decided
    <3> QED
      BY <3>1, <3>2
  <2> QED
    BY <1>1, <1>2, <1>3, <2>1, <2>2, Zenon DEF OverInv, FeedbackAfterEnd, Over
<1>5. ASSUME NEW f \in FbReqs, Give(f), UNCHANGED vars
      PROVE  OverInv'
  <2>0. /\ UNCHANGED <<now, conferences>>
        /\ \A h \in FbReqs : h # f => fbTask'[h] = fbTask[h]
    BY <1>5 DEF vars, Give, GiveIsRegistered, GiveIsGiven, GiveConference, GiveEnded,
                GiveInsert, GiveFail, FbContinue, FbGoto, FbTypeOK
  <2>1. CASE (\E u \in Users, c \in ConfIDs : GiveIsRegistered(f, u, c)) \/ GiveFail(f)
    <3>1. fbTask'[f].pc \notin {"ended", "insert"} /\ feedbacks' = feedbacks
      BY <2>1 DEF GiveIsRegistered, GiveFail, FbGoto, FbTypeOK, Idle
    <3> QED
      BY <2>0, <3>1 DEF OverInv, EndKnown, FeedbackAfterEnd, Over
  <2>2. CASE GiveIsGiven(f)
    <3>1. fbTask[f] \in FbTask
      BY <2>2, FbBusy DEF GiveIsGiven
    <3>2. fbTask'[f].pc \notin {"ended", "insert"} /\ feedbacks' = feedbacks
      BY <2>2, <3>1 DEF GiveIsGiven, FbContinue, FbGoto, FbTypeOK, FbTask, Idle
    <3> QED
      BY <2>0, <3>2 DEF OverInv, EndKnown, FeedbackAfterEnd, Over
  <2>3. CASE GiveConference(f)
    <3>1. feedbacks' = feedbacks
      BY <2>3 DEF GiveConference
    <3>2. fbTask'[f].pc # "insert" /\ EndKnown(fbTask'[f])
      BY <2>3 DEF GiveConference, MayComment, KnownEnd, EndKnown, FbGoto, FbTypeOK, Idle
    <3> QED
      BY <2>0, <3>1, <3>2 DEF OverInv, EndKnown, FeedbackAfterEnd, Over
  <2>4. CASE GiveEnded(f)
    <3>1. /\ fbTask[f] \in FbTask /\ fbTask[f].pc = "ended" /\ feedbacks' = feedbacks
          /\ EndKnown(fbTask[f])
      BY <2>4, FbBusy DEF GiveEnded, OverInv
    <3>2. CASE fbTask[f].ends <= now
      <4>1. /\ fbTask'[f].pc = "insert" /\ fbTask'[f].conf = fbTask[f].conf
            /\ fbTask'[f].ends = fbTask[f].ends
        BY <2>4, <3>1, <3>2 DEF GiveEnded, FbContinue, FbGoto, FbTypeOK, FbTask
      <4> QED
        BY <2>0, <3>1, <3>2, <4>1 DEF OverInv, EndKnown, FeedbackAfterEnd, Over
    <3>3. CASE ~(fbTask[f].ends <= now)
      <4>1. fbTask'[f].pc = "idle"
        BY <2>4, <3>3 DEF GiveEnded, FbContinue, FbGoto, FbTypeOK, Idle
      <4> QED
        BY <2>0, <3>1, <4>1 DEF OverInv, EndKnown, FeedbackAfterEnd, Over
    <3> QED
      BY <3>2, <3>3
  <2>5. CASE GiveInsert(f)
    <3>1. Over(fbTask[f].conf)
      BY <2>5 DEF GiveInsert, OverInv
    <3>2. fbTask'[f].pc \notin {"ended", "insert"}
      BY <2>5 DEF GiveInsert, FbGoto, FbTypeOK, Idle
    <3>3. \A i \in FeedbackIDs : \/ feedbacks'[i] = feedbacks[i]
                                 \/ feedbacks'[i].conf = fbTask[f].conf
      BY <2>5 DEF GiveInsert, FbTypeOK
    <3> QED
      BY <2>0, <3>1, <3>2, <3>3 DEF OverInv, EndKnown, FeedbackAfterEnd, Over
  <2> QED
    BY <1>5, <2>1, <2>2, <2>3, <2>4, <2>5 DEF Give
<1> QED
  BY <1>4, <1>5 DEF FbNext

LEMMA FbImplementsSerial == ASSUME SoleRequest PROVE FbSpec => []SerialInv
<1>1. ConfSpec => []SerialInv
  BY SoleRequest, SerialInvariant
<1> QED
  BY <1>1, FbImplementsReg, RegImplementsConf, PTL

LEMMA OverInvariant == ASSUME SoleRequest PROVE FbSpec => []OverInv
<1>1. FbTypeOK /\ SerialInv /\ OverInv /\ [FbNext]_allVars => OverInv'
  BY OverStep
<1>2. FbSpec => []SerialInv
  BY SoleRequest, FbImplementsSerial
<1> QED
  BY <1>1, <1>2, OverInit, FbTypeCorrect, PTL DEF FbSpec

\* Feedback is about what was approved and is over, and remains so, although the
\* conference is read in another statement than the one that inserts.
THEOREM SerialFeedbackAfterEnd ==
  ASSUME SoleRequest
  PROVE  FbSpec => []FeedbackAfterEnd
<1>1. OverInv => FeedbackAfterEnd
  BY DEF OverInv
<1>2. FbSpec => []OverInv
  BY SoleRequest, OverInvariant
<1> QED
  BY <1>1, <1>2, PTL

-----------------------------------------------------------------------------
(* The three services together.                                            *)

AttendInv == /\ RegTypeOK /\ FbTypeOK
             /\ SerialInv /\ NoOverlapApproved
             /\ AdmitInv /\ ApprovedInv
             /\ AttendanceInv /\ SaidInv /\ OverInv

LEMMA AttendInvariant == ASSUME SoleRequest, SeedsDisjoint PROVE FbSpec => []AttendInv
<1>1. SoleDesk
  BY SoleRequest DEF SoleRequest, SoleDesk, Reqs
<1>2. FbSpec => [](RegTypeOK /\ NoOverlapApproved /\ AdmitInv /\ ApprovedInv)
  <2>1. ConfSpec => []NoOverlapApproved
    BY <1>1, SeedsDisjoint, SoleDeskNeverOverlaps
  <2>2. RegSpec => []ApprovedInv
    BY SoleRequest, ApprovedInvariant
  <2> QED
    BY <2>1, <2>2, FbImplementsReg, RegImplementsConf, RegTypeCorrect, AdmitInvariant, PTL
<1>3. FbSpec => [](FbTypeOK /\ AttendanceInv /\ SaidInv)
  <2>1. /\ FbTypeOK /\ AttendanceInv /\ [FbNext]_allVars => AttendanceInv'
        /\ FbTypeOK /\ SaidInv /\ [FbNext]_allVars => SaidInv'
    BY AttendanceStep, SaidStep
  <2> QED
    BY <2>1, AttendanceInit, SaidInit, FbTypeCorrect, PTL DEF FbSpec
<1>4. FbSpec => [](SerialInv /\ OverInv)
  <2>1. FbSpec => []SerialInv
    BY SoleRequest, FbImplementsSerial
  <2>2. FbSpec => []OverInv
    BY SoleRequest, OverInvariant
  <2> QED
    BY <2>1, <2>2, PTL
<1> QED
  BY <1>2, <1>3, <1>4, PTL DEF AttendInv

\* The plan of the conferences is the same one in both plans.
LEMMA SamePlan ==
  ASSUME [Plan!Next]_(Plan!planVars)
  PROVE  Auditorium!Next \/ UNCHANGED Auditorium!planVars
  BY DEF Plan!Next, Plan!planVars, Plan!Advance, Plan!Propose, Plan!Move, Plan!Decide,
         Plan!Cancel, Plan!HallFree, Plan!Approved, Plan!Live, Plan!Row, Plan!NoRow, Plan!Ordered,
         Plan!Overlaps, Auditorium!Next, Auditorium!planVars, Auditorium!Advance,
         Auditorium!Propose, Auditorium!Move, Auditorium!Decide, Auditorium!Cancel,
         Auditorium!HallFree, Auditorium!Approved, Auditorium!Live, Auditorium!Row, Auditorium!NoRow,
         Auditorium!Ordered, Auditorium!Overlaps

LEMMA SameCardinality == \A S : Auditorium!Cardinality(S) = Cardinality(S)
  BY DEF Auditorium!Cardinality, Cardinality

\* A row inserted by the last statement of Register, unless it was there.
LEMMA InsertAttends ==
  ASSUME AttendInv, UNCHANGED confVars, UNCHANGED fbVars, NEW g \in RegReqs, RegisterInsert(g)
  PROVE  \/ UNCHANGED registrations
         \/ \E u \in Users, c \in ConfIDs : Auditorium!Attend(u, c)
<1> DEFINE u == regTask[g].user
           c == regTask[g].conf
<1>1. /\ TypeOK /\ RegTypeOK /\ NoOverlapApproved /\ RegCopiesAgree /\ SeatInv /\ ApprovedInv
      /\ regTask[g].pc = "insert" /\ registrations' = registrations \union {<<u, c>>}
      /\ UNCHANGED <<feedbacks, removed>>
  BY DEF AttendInv, SerialInv, ConfInv, AdmitInv, RegisterInsert, fbVars
<1>2. u \in Users /\ c \in ConfIDs
  BY <1>1, BusyTask DEF RegTask
<1>3. conferences[c] # NoRow /\ conferences[c].host # u
  BY <1>1 DEF RegCopiesAgree
<1>4. conferences[c].status = "approved"
  BY <1>1 DEF ApprovedInv
<1>5. Cardinality(Taken(c)) < conferences[c].seats + (Cardinality(RegReqs) - 1)
  <2>1. g \in Waiting(c)
    BY <1>1 DEF Waiting
  <2>2. Cardinality(Waiting(c)) >= 1
    BY <2>1, CountTypes, FS_EmptySet
  <2>3. /\ conferences[c].seats \in Nat
        /\ Cardinality(Taken(c)) + Cardinality(Waiting(c))
             < conferences[c].seats + Cardinality(RegReqs)
    BY <1>1, <1>2, <1>3, SeatsType DEF SeatInv
  <2> QED
    BY <2>2, <2>3, CountTypes
<1>6. Auditorium!Attendees(c) = Taken(c)
  BY DEF Auditorium!Attendees, Taken
<1>7. c \in Auditorium!Approved =>
         \A d \in Auditorium!Approved \ {c} :
             ~Auditorium!Overlaps(conferences[d], conferences[c])
  BY <1>1 DEF NoOverlapApproved, Approved, Auditorium!Approved, Overlaps, Auditorium!Overlaps
<1>8. CASE <<u, c>> \in registrations
  BY <1>1, <1>8
<1>9. CASE <<u, c>> \notin registrations
  <2>1. Auditorium!Attend(u, c)
    <3> HIDE DEF u, c
    <3>1. Auditorium!Cardinality(Auditorium!Attendees(c))
            < conferences[c].seats + (Cardinality(RegReqs) - 1)
      BY <1>5, <1>6, SameCardinality, Zenon
    <3> QED
      BY <1>1, <1>3, <1>4, <1>7, <1>9, <3>1, Zenon DEF Auditorium!Attend
  <2> QED
    BY <1>2, <2>1
<1> QED
  BY <1>8, <1>9

\* A row inserted by the last statement of CreateFeedback.
LEMMA InsertGives ==
  ASSUME AttendInv, UNCHANGED vars, NEW f \in FbReqs, GiveInsert(f)
  PROVE  \E i \in FeedbackIDs : Auditorium!Give(i)
<1> DEFINE u == fbTask[f].user
           c == fbTask[f].conf
           new == [user |-> u, conf |-> c]
<1>1. /\ FbTypeOK /\ AttendanceInv /\ SaidInv /\ OverInv
      /\ fbTask[f].pc = "insert" /\ UNCHANGED <<registrations, removed>>
  BY DEF AttendInv, GiveInsert, vars
<1>2. PICK i \in FeedbackIDs : /\ feedbacks[i] = NoFeedback
                               /\ feedbacks' = [feedbacks EXCEPT ![i] = new]
  BY DEF GiveInsert
<1>3. u \in Users /\ c \in ConfIDs
  BY <1>1, FbBusy DEF FbTask
<1>4. new \in Auditorium!Feedback /\ Auditorium!NoFeedback = NoFeedback
  BY <1>3 DEF Auditorium!Feedback, Auditorium!NoFeedback, NoFeedback
<1>5. feedbacks'[i] = new
  BY <1>1, <1>2 DEF FbTypeOK
<1>6. u \in Auditorium!Attendees(c)
  BY <1>1 DEF AttendanceInv, Taken, Auditorium!Attendees
<1>7. conferences[c].ends <= now
  BY <1>1 DEF OverInv, Over
<1>8. Cardinality(Auditorium!Given(u, c)) < Cardinality(FbReqs)
  <2>1. f \in Hoping(u, c)
    BY <1>1 DEF Hoping
  <2>2. Cardinality(Hoping(u, c)) >= 1
    BY <2>1, FbCountTypes, FS_EmptySet
  <2>3. Auditorium!Given(u, c) = Said(u, c)
    BY DEF Auditorium!Given, Said
  <2>4. Cardinality(Said(u, c)) + Cardinality(Hoping(u, c)) <= Cardinality(FbReqs)
    BY <1>1, <1>3 DEF SaidInv
  <2> QED
    BY <2>2, <2>3, <2>4, FbCountTypes
<1>9. new.user = u /\ new.conf = c
  OBVIOUS
<1> HIDE DEF new, u, c
<1>10. Auditorium!Give(i)
  <2>1. /\ new.user \in Auditorium!Attendees(new.conf)
        /\ conferences[new.conf].ends <= now
        /\ Auditorium!Cardinality(Auditorium!Given(new.user, new.conf))
             < Cardinality(FbReqs)
    BY <1>6, <1>7, <1>8, <1>9, SameCardinality, Zenon
  <2> QED
    BY <1>1, <1>2, <1>4, <1>5, <2>1, Zenon DEF Auditorium!Give
<1> QED
  BY <1>10

LEMMA AttendStep ==
  ASSUME AttendInv, [FbNext]_allVars
  PROVE  [Auditorium!AttendNext]_<<Auditorium!planVars, Auditorium!attendVars>>
<1> USE DEF Auditorium!planVars, Auditorium!attendVars
<1>1. CASE UNCHANGED allVars
  BY <1>1 DEF allVars
<1>2. CASE ConfNext /\ UNCHANGED regVars /\ UNCHANGED fbVars
  <2>1. [Plan!Next]_(Plan!planVars)
    BY <1>2, PlanStep DEF AttendInv
  <2>2. Auditorium!Next \/ UNCHANGED Auditorium!planVars
    BY <2>1, SamePlan
  <2> QED
    BY <1>2, <2>2 DEF regVars, fbVars, Auditorium!AttendNext
<1>3. ASSUME NEW g \in RegReqs, Register(g), UNCHANGED confVars, UNCHANGED fbVars
      PROVE  [Auditorium!AttendNext]_<<Auditorium!planVars, Auditorium!attendVars>>
  <2>1. UNCHANGED <<now, conferences, deleted, feedbacks, removed>>
    BY <1>3 DEF confVars, fbVars
  <2>2. UNCHANGED registrations \/ RegisterInsert(g)
    BY <1>3 DEF Register, RegisterGet, RegisterIsRegistered, RegisterCount, RegisterClash,
                RegisterFail
  <2> QED
    BY <1>3, <2>1, <2>2, InsertAttends DEF Auditorium!AttendNext
<1>4. ASSUME NEW f \in FbReqs, Give(f), UNCHANGED vars
      PROVE  [Auditorium!AttendNext]_<<Auditorium!planVars, Auditorium!attendVars>>
  <2>1. UNCHANGED <<now, conferences, deleted, registrations>>
    BY <1>4 DEF vars
  <2>2. UNCHANGED <<feedbacks, removed>> \/ GiveInsert(f)
    BY <1>4 DEF Give, GiveIsRegistered, GiveIsGiven, GiveConference, GiveEnded, GiveFail
  <2> QED
    BY <1>4, <2>1, <2>2, InsertGives DEF Auditorium!AttendNext
<1>5. ASSUME NEW i \in FeedbackIDs, DeleteFeedback(i), UNCHANGED vars
      PROVE  [Auditorium!AttendNext]_<<Auditorium!planVars, Auditorium!attendVars>>
  <2>1. Auditorium!Hide(i)
    BY <1>5 DEF DeleteFeedback, vars, Auditorium!Hide, Auditorium!NoFeedback, NoFeedback
  <2> QED
    BY <1>5, <2>1 DEF vars, Auditorium!AttendNext
<1> QED
  BY <1>1, <1>2, <1>3, <1>4, <1>5 DEF FbNext, RegNext

\* With conference requests served one at a time, registrations and feedbacks
\* in any number have the effect of the indivisible steps of AuditoriumPlan.
THEOREM SerialImplementsAuditorium ==
  ASSUME SoleRequest, SeedsDisjoint
  PROVE  FbSpec => ImplementsAuditorium
<1>1. FbInit => Auditorium!AttendInit
  BY DEF FbInit, RegInit, ConfInit, Auditorium!AttendInit, Auditorium!Init,
         Auditorium!NoFeedback, NoFeedback
<1>2. AttendInv /\ [FbNext]_allVars
      => [Auditorium!AttendNext]_<<Auditorium!planVars, Auditorium!attendVars>>
  BY AttendStep
<1>3. FbSpec => []AttendInv
  BY SoleRequest, SeedsDisjoint, AttendInvariant
<1> QED
  BY <1>1, <1>2, <1>3, PTL DEF FbSpec, ImplementsAuditorium, Auditorium!AttendSpec
=============================================================================
