---------------------------- MODULE AccountsProof ----------------------------
(***************************************************************************)
(* Theorems about Accounts, for any number of requests of either kind in   *)
(* flight, any passwords and any emails.                                   *)
(***************************************************************************)
EXTENDS Accounts, FiniteSetTheorems, TLAPS

\* The rows and identifiers that requests carry: nobody's email ever changes,
\* so a copy, however old, still has the email of its row; and a profile edit
\* writes back a password that was read from the table and fits in it.
Carried(t) ==
    /\ t.pc \in {"profile.write", "reset.write"} =>
          users[t.id] # NoUser /\ t.row.email = users[t.id].email
    /\ t.pc = "profile.write" => t.row.password \in Storable
    /\ t.pc = "login.upsert" => users[t.id] # NoUser

CopiesAgree == \A r \in Slots : Carried(accTask[r])

SoleHolder ==
    \A i, j \in UserIDs \ erased :
       users[i] # NoUser /\ users[j] # NoUser /\ users[i].email = users[j].email => i = j

AccInv == AccTypeOK /\ CopiesAgree /\ SoleHolder

-----------------------------------------------------------------------------
(* Helpers. *)

\* A user is a row.
LEMMA UserIsRow ==
  ASSUME NEW u \in User
  PROVE  u # NoUser
  BY DEF User, NoUser

\* What a request in flight has read.
LEMMA AccBusy ==
  ASSUME AccTypeOK, NEW r \in Slots
  PROVE  /\ accTask[r].pc \in {"invite.set", "offer.set"} => accTask[r] \in CodeTask
         /\ accTask[r].pc \in {"register.void", "register.insert"}
               => accTask[r] \in RegisterTask
         /\ accTask[r].pc \in {"login.get", "reset.void", "reset.get"}
               => accTask[r] \in PasswordTask
         /\ accTask[r].pc = "login.upsert" => accTask[r] \in LoginTask
         /\ accTask[r].pc \in {"profile.write", "reset.write"} => accTask[r] \in RowTask
<1>1. accTask[r] \in {Idle} \union CodeTask \union RegisterTask
                       \union PasswordTask \union LoginTask \union RowTask
  BY DEF AccTypeOK
<1> QED
  BY <1>1 DEF Idle, CodeTask, RegisterTask, PasswordTask, LoginTask, RowTask

\* Whoever is found by email is in the table.
LEMMA HolderIsUser ==
  ASSUME AccTypeOK, NEW e, NEW i \in Holders(e)
  PROVE  i \in UserIDs \ erased /\ users[i] \in User /\ users[i].email = e
  BY DEF Holders, AccTypeOK

-----------------------------------------------------------------------------
LEMMA InvInit == AccInit => AccInv
  BY DEF AccInit, AccInv, AccTypeOK, CopiesAgree, Carried, SoleHolder, Idle

\* What a step can do to the table: add one row for an email that has none, or
\* write back a copy, which keeps the row's email; nobody comes back.
RowAdded(i) ==
    /\ users[i] = NoUser
    /\ \E u \in User : Holders(u.email) = {} /\ users' = [users EXCEPT ![i] = u]
    /\ UNCHANGED <<erased, sessions>>

RowWritten(i) ==
    /\ users[i] # NoUser
    /\ \E u \in User : u.email = users[i].email /\ users' = [users EXCEPT ![i] = u]
    /\ UNCHANGED <<erased, sessions>>

LEMMA CreateAddsRow ==
  ASSUME AccTypeOK, NEW e \in Emails, NEW n \in Names, NEW p \in Passwords,
         MayInsert(e, p), CreateUser(e, n, p), UNCHANGED <<erased, sessions>>
  PROVE  \E i \in UserIDs : RowAdded(i)
<1> DEFINE u == [email |-> e, name |-> n, password |-> p]
<1>1. u \in User /\ Holders(u.email) = {}
  BY DEF MayInsert, User
<1>2. PICK i \in UserIDs : users[i] = NoUser /\ users' = [users EXCEPT ![i] = u]
  BY DEF CreateUser
<1> QED
  BY <1>1, <1>2 DEF RowAdded

LEMMA WriteWritesRow ==
  ASSUME AccInv, NEW r \in Slots, accTask[r].pc \in {"profile.write", "reset.write"},
         accTask[r].row.password \in Storable, WriteRow(r),
         UNCHANGED <<erased, sessions>>
  PROVE  \E i \in UserIDs : RowWritten(i)
<1> DEFINE t == accTask[r]
<1>1. t \in RowTask
  BY AccBusy DEF AccInv
<1>2. t.id \in UserIDs /\ t.row \in User
  BY <1>1 DEF RowTask, User
<1>3. users[t.id] # NoUser /\ t.row.email = users[t.id].email
  BY DEF AccInv, CopiesAgree, Carried
<1> QED
  BY <1>2, <1>3 DEF RowWritten, WriteRow

-----------------------------------------------------------------------------
(* Each action does one of these to the table, or leaves it alone.         *)

TableStep ==
    \/ \E i \in UserIDs : RowAdded(i) \/ RowWritten(i)
    \/ \E i \in UserIDs : users[i] # NoUser /\ erased' = erased \union {i}
                            /\ UNCHANGED <<users, sessions>>
    \/ \E i \in UserIDs : users[i] # NoUser /\ sessions' = sessions \union {i}
                            /\ UNCHANGED <<users, erased>>
    \/ sessions' \subseteq sessions /\ UNCHANGED <<users, erased>>

LEMMA EveryTableStep ==
  ASSUME AccInv, [AccNext]_accVars
  PROVE  TableStep
<1> USE DEF AccInv
<1>1. CASE UNCHANGED accVars
  BY <1>1 DEF accVars, TableStep
<1>2. ASSUME NEW r \in SignReqs, SignStart(r)
      PROVE  TableStep
  BY <1>2 DEF SignStart, InviteGet, LoginStart, RegisterGetCode, TableStep
<1>3. ASSUME NEW r \in RowReqs, RowStart(r)
      PROVE  TableStep
  BY <1>3 DEF RowStart, OfferGet, ResetGetCode, ProfileGet, TableStep
<1>4. ASSUME NEW r \in Slots, AccResume(r)
      PROVE  TableStep
  <2>1. CASE InviteSet(r) \/ OfferSet(r) \/ RegisterVoid(r) \/ LoginGet(r)
              \/ ResetVoid(r) \/ ResetGetUser(r) \/ AccFail(r)
    BY <2>1 DEF InviteSet, OfferSet, RegisterVoid, LoginGet, ResetVoid,
                ResetGetUser, AccFail, TableStep
  <2>2. CASE RegisterInsert(r)
    <3> DEFINE t == accTask[r]
    <3>1. t \in RegisterTask /\ UNCHANGED <<erased, sessions>>
      BY <2>2, AccBusy DEF RegisterInsert, At
    <3>2. CASE MayInsert(t.email, t.password) /\ CreateUser(t.email, t.name, t.password)
      <4>1. t.email \in Emails /\ t.name \in Names /\ t.password \in Passwords
        BY <3>1 DEF RegisterTask
      <4> QED
        BY <3>1, <3>2, <4>1, CreateAddsRow DEF TableStep
    <3>3. CASE UNCHANGED users
      BY <3>1, <3>3 DEF TableStep
    <3> QED
      BY <2>2, <3>2, <3>3 DEF RegisterInsert
  <2>3. CASE LoginUpsert(r)
    <3>1. accTask[r].id \in UserIDs /\ users[accTask[r].id] # NoUser
      BY <2>3, AccBusy DEF LoginUpsert, At, LoginTask, CopiesAgree, Carried
    <3> QED
      BY <2>3, <3>1 DEF LoginUpsert, TableStep
  <2>4. CASE ResetWrite(r)
    <3>1. CASE accTask[r].row.password \in Storable /\ WriteRow(r)
      BY <2>4, <3>1, WriteWritesRow DEF ResetWrite, At, TableStep
    <3>2. CASE UNCHANGED users
      BY <2>4, <3>2 DEF ResetWrite, TableStep
    <3> QED
      BY <2>4, <3>1, <3>2 DEF ResetWrite
  <2>5. CASE ProfileWrite(r)
    <3>1. accTask[r].row.password \in Storable
      BY <2>5 DEF ProfileWrite, At, CopiesAgree, Carried
    <3> QED
      BY <2>5, <3>1, WriteWritesRow DEF ProfileWrite, At, TableStep
  <2> QED
    BY <1>4, <2>1, <2>2, <2>3, <2>4, <2>5 DEF AccResume
<1>5. ASSUME NEW e \in Emails, Expire(e)
      PROVE  TableStep
  BY <1>5 DEF Expire, TableStep
<1>6. ASSUME NEW e \in Emails, NEW n \in Names, NEW p \in Passwords, Appoint(e, n, p)
      PROVE  TableStep
  BY <1>6, CreateAddsRow DEF Appoint, TableStep
<1>7. ASSUME NEW i \in UserIDs, Logout(i) \/ Erase(i)
      PROVE  TableStep
  BY <1>7 DEF Logout, Erase, TableStep
<1> QED
  BY <1>1, <1>2, <1>3, <1>4, <1>5, <1>6, <1>7 DEF AccNext

\* Rows stay, and so do their emails.
LEMMA RowsKeepEmail ==
  ASSUME AccTypeOK, TableStep, NEW i \in UserIDs, users[i] # NoUser
  PROVE  users'[i] # NoUser /\ users'[i].email = users[i].email
<1>1. ASSUME NEW j \in UserIDs, RowAdded(j)
      PROVE  users'[i] # NoUser /\ users'[i].email = users[i].email
  BY <1>1 DEF RowAdded, AccTypeOK
<1>2. ASSUME NEW j \in UserIDs, RowWritten(j)
      PROVE  users'[i] # NoUser /\ users'[i].email = users[i].email
  BY <1>2, UserIsRow DEF RowWritten, AccTypeOK
<1> QED
  BY <1>1, <1>2 DEF TableStep

LEMMA SoleHolderStep ==
  ASSUME AccTypeOK, SoleHolder, TableStep
  PROVE  SoleHolder'
<1>1. ASSUME NEW k \in UserIDs, RowAdded(k)
      PROVE  SoleHolder'
  <2>1. PICK u \in User : Holders(u.email) = {} /\ users' = [users EXCEPT ![k] = u]
    BY <1>1 DEF RowAdded
  <2>2. \A i \in UserIDs \ erased : users[i] # NoUser => users[i].email # u.email
    BY <2>1 DEF Holders
  <2>3. \A i \in UserIDs : users'[i] = IF i = k THEN u ELSE users[i]
    BY <2>1 DEF AccTypeOK
  <2> QED
    BY <1>1, <2>2, <2>3 DEF SoleHolder, RowAdded
<1>2. ASSUME NEW k \in UserIDs, RowWritten(k)
      PROVE  SoleHolder'
  <2>1. PICK u \in User : u.email = users[k].email /\ users' = [users EXCEPT ![k] = u]
    BY <1>2 DEF RowWritten
  <2>2. \A i \in UserIDs : users'[i] = IF i = k THEN u ELSE users[i]
    BY <2>1 DEF AccTypeOK
  <2> QED
    BY <1>2, <2>1, <2>2 DEF SoleHolder, RowWritten
<1>3. CASE erased \subseteq erased' /\ UNCHANGED users
  BY <1>3 DEF SoleHolder
<1> QED
  BY <1>1, <1>2, <1>3 DEF TableStep

-----------------------------------------------------------------------------
(* And each leaves a request where it was, moves it on with what it has    *)
(* just read, or lets it end or log in.                                    *)

AnyTask == {Idle} \union CodeTask \union RegisterTask
             \union PasswordTask \union LoginTask \union RowTask

Moved(t) ==
    /\ t \in AnyTask
    /\ \/ t.pc \in {"idle", "login.get"}
       \/ Carried(t) /\ UNCHANGED users

TasksStep ==
    \/ UNCHANGED accTask
    \/ \E r \in Slots, t \in AnyTask : Moved(t) /\ accTask' = [accTask EXCEPT ![r] = t]

LEMMA IdleMoved == Moved(Idle)
  BY DEF Moved, AnyTask, Idle

\* A copy of a row that has just been read, with a new name or password.
LEMMA CopyMoved ==
  ASSUME AccTypeOK, NEW i \in UserIDs, users[i] \in User, UNCHANGED users,
         NEW row \in [email : Emails, name : Names, password : Passwords],
         row.email = users[i].email,
         NEW pc \in {"profile.write", "reset.write"},
         pc = "profile.write" => row.password \in Storable
  PROVE  Moved([pc |-> pc, id |-> i, row |-> row])
<1> DEFINE t == [pc |-> pc, id |-> i, row |-> row]
<1>1. t \in RowTask
  BY DEF RowTask
<1>2. Carried(t)
  BY UserIsRow DEF Carried
<1> QED
  BY <1>1, <1>2 DEF Moved, AnyTask

LEMMA LoginMoved ==
  ASSUME AccTypeOK, NEW e, NEW p, NEW i \in Authentic(e, p), UNCHANGED users
  PROVE  Moved([pc |-> "login.upsert", id |-> i])
<1> DEFINE t == [pc |-> "login.upsert", id |-> i]
<1>1. i \in UserIDs /\ users[i] # NoUser
  BY DEF Authentic, Holders
<1>2. t \in LoginTask /\ Carried(t)
  BY <1>1 DEF LoginTask, Carried
<1> QED
  BY <1>2 DEF Moved, AnyTask

LEMMA CodeMoved ==
  ASSUME NEW e \in Emails, NEW pc \in {"invite.set", "offer.set"}, UNCHANGED users
  PROVE  Moved([pc |-> pc, email |-> e])
  BY DEF Moved, AnyTask, CodeTask, Carried

LEMMA PasswordMoved ==
  ASSUME NEW e \in Emails, NEW p \in Passwords,
         NEW pc \in {"login.get", "reset.void", "reset.get"},
         UNCHANGED users \/ pc = "login.get"
  PROVE  Moved([pc |-> pc, email |-> e, password |-> p])
  BY DEF Moved, AnyTask, PasswordTask, Carried

LEMMA RegisterMoved ==
  ASSUME NEW e \in Emails, NEW n \in Names, NEW p \in Passwords,
         NEW pc \in {"register.void", "register.insert"}, UNCHANGED users
  PROVE  Moved([pc |-> pc, email |-> e, name |-> n, password |-> p])
  BY DEF Moved, AnyTask, RegisterTask, Carried

LEMMA StartStep ==
  ASSUME AccTypeOK, NEW r \in Slots, SignStart(r) \/ RowStart(r)
  PROVE  TasksStep
<1>1. \A e \in Emails : InviteGet(r, e) => TasksStep
  BY CodeMoved DEF InviteGet, Goto, Moved, TasksStep
<1>2. \A e \in Emails : OfferGet(r, e) => TasksStep
  BY CodeMoved DEF OfferGet, Goto, Moved, TasksStep
<1>3. \A e \in Emails, p \in Passwords : LoginStart(r, e, p) => TasksStep
  BY LoginMoved DEF LoginStart, Goto, Moved, TasksStep
<1>4. \A e \in Emails, n \in Names, p \in Passwords :
         RegisterGetCode(r, e, n, p) => TasksStep
  BY RegisterMoved DEF RegisterGetCode, Goto, Moved, TasksStep
<1>5. \A e \in Emails, p \in Passwords : ResetGetCode(r, e, p) => TasksStep
  BY PasswordMoved DEF ResetGetCode, Goto, Moved, TasksStep
<1>6. ASSUME NEW i \in UserIDs, NEW n \in Names, ProfileGet(r, i, n)
      PROVE  TasksStep
  <2> DEFINE row == [users[i] EXCEPT !.name = n]
  <2>1. users[i] \in User
    BY <1>6 DEF ProfileGet, AccTypeOK
  <2>2. /\ row \in [email : Emails, name : Names, password : Passwords]
        /\ row.email = users[i].email
        /\ row.password \in Storable
    BY <2>1, PasswordAssumption DEF User
  <2>3. Moved([pc |-> "profile.write", id |-> i, row |-> row])
    BY <1>6, <2>1, <2>2, CopyMoved DEF ProfileGet
  <2> QED
    BY <1>6, <2>3 DEF ProfileGet, Goto, Moved, TasksStep
<1> QED
  BY <1>1, <1>2, <1>3, <1>4, <1>5, <1>6 DEF SignStart, RowStart

LEMMA ResumeStep ==
  ASSUME AccTypeOK, NEW r \in Slots, AccResume(r)
  PROVE  TasksStep
<1>1. CASE InviteSet(r) \/ OfferSet(r) \/ LoginUpsert(r) \/ ProfileWrite(r) \/ AccFail(r)
  BY <1>1, IdleMoved
  DEF InviteSet, OfferSet, LoginUpsert, ProfileWrite, AccFail, Goto, Moved, TasksStep
<1>2. CASE RegisterVoid(r) \/ RegisterInsert(r)
  <2> DEFINE t == accTask[r]
  <2>1. t \in RegisterTask
    BY <1>2, AccBusy DEF RegisterVoid, RegisterInsert, At
  <2>2. t.email \in Emails /\ t.name \in Names /\ t.password \in Passwords
    BY <2>1 DEF RegisterTask
  <2>3. CASE RegisterVoid(r)
    <3>1. [t EXCEPT !.pc = "register.insert"]
            = [pc |-> "register.insert", email |-> t.email, name |-> t.name,
               password |-> t.password]
      BY <2>1 DEF RegisterTask
    <3> QED
      BY <2>2, <2>3, <3>1, RegisterMoved DEF RegisterVoid, Goto, Moved, TasksStep
  <2>4. CASE RegisterInsert(r)
    BY <2>2, <2>4, PasswordMoved, IdleMoved DEF RegisterInsert, Goto, Moved, TasksStep
  <2> QED
    BY <1>2, <2>3, <2>4
<1>3. CASE LoginGet(r)
  BY <1>3, LoginMoved, IdleMoved DEF LoginGet, Goto, Moved, TasksStep
<1>4. CASE ResetVoid(r) \/ ResetGetUser(r)
  <2> DEFINE t == accTask[r]
  <2>1. t \in PasswordTask
    BY <1>4, AccBusy DEF ResetVoid, ResetGetUser, At
  <2>2. t.email \in Emails /\ t.password \in Passwords
    BY <2>1 DEF PasswordTask
  <2>3. CASE ResetVoid(r)
    <3>1. [t EXCEPT !.pc = "reset.get"]
            = [pc |-> "reset.get", email |-> t.email, password |-> t.password]
      BY <2>1 DEF PasswordTask
    <3> QED
      BY <2>2, <2>3, <3>1, PasswordMoved DEF ResetVoid, Goto, Moved, TasksStep
  <2>4. ASSUME ResetGetUser(r), NEW i \in Holders(t.email),
               Goto(r, [pc |-> "reset.write", id |-> i,
                        row |-> [users[i] EXCEPT !.password = t.password]])
        PROVE  TasksStep
    <3> DEFINE row == [users[i] EXCEPT !.password = t.password]
    <3>1. i \in UserIDs /\ users[i] \in User
      BY HolderIsUser
    <3>2. /\ row \in [email : Emails, name : Names, password : Passwords]
          /\ row.email = users[i].email
      BY <2>2, <3>1 DEF User
    <3>3. Moved([pc |-> "reset.write", id |-> i, row |-> row])
      BY <2>4, <3>1, <3>2, CopyMoved DEF ResetGetUser
    <3> QED
      BY <2>4, <3>3 DEF Goto, Moved, TasksStep
  <2>5. CASE ResetGetUser(r)
    BY <2>4, <2>5, IdleMoved DEF ResetGetUser, Goto, Moved, TasksStep
  <2> QED
    BY <1>4, <2>3, <2>5
<1>5. CASE ResetWrite(r)
  <2> DEFINE row == accTask[r].row
  <2>1. row.email \in Emails /\ row.password \in Passwords
    BY <1>5, AccBusy DEF ResetWrite, At, RowTask
  <2> QED
    BY <1>5, <2>1, PasswordMoved, IdleMoved DEF ResetWrite, Goto, Moved, TasksStep
<1> QED
  BY <1>1, <1>2, <1>3, <1>4, <1>5 DEF AccResume

LEMMA EveryTasksStep ==
  ASSUME AccTypeOK, [AccNext]_accVars
  PROVE  TasksStep
<1>1. CASE UNCHANGED accVars
  BY <1>1 DEF accVars, TasksStep
<1>2. \A r \in Slots : SignStart(r) \/ RowStart(r) \/ AccResume(r) => TasksStep
  BY StartStep, ResumeStep
<1>3. ASSUME \/ \E e \in Emails : Expire(e)
             \/ \E e \in Emails, n \in Names, p \in Passwords : Appoint(e, n, p)
             \/ \E i \in UserIDs : Logout(i) \/ Erase(i)
      PROVE  TasksStep
  BY <1>3 DEF Expire, Appoint, Logout, Erase, TasksStep
<1> QED
  BY <1>1, <1>2, <1>3 DEF AccNext, Slots

LEMMA CopiesAgreeStep ==
  ASSUME AccTypeOK, CopiesAgree, TableStep, TasksStep
  PROVE  CopiesAgree'
<1> SUFFICES ASSUME NEW s \in Slots PROVE Carried(accTask[s])'
  BY DEF CopiesAgree
<1>1. CASE accTask'[s] = accTask[s]
  <2>1. Carried(accTask[s])
    BY DEF CopiesAgree
  <2>2. accTask[s].pc \in {"profile.write", "reset.write", "login.upsert"}
          => accTask[s].id \in UserIDs
    BY AccBusy DEF RowTask, LoginTask
  <2> QED
    BY <1>1, <2>1, <2>2, RowsKeepEmail DEF Carried
<1>2. CASE accTask'[s] # accTask[s]
  <2>1. PICK r \in Slots, t \in AnyTask : Moved(t) /\ accTask' = [accTask EXCEPT ![r] = t]
    BY <1>2 DEF TasksStep
  <2>2. accTask'[s] = t
    BY <1>2, <2>1 DEF AccTypeOK
  <2> QED
    BY <2>1, <2>2 DEF Moved, Carried
<1> QED
  BY <1>1, <1>2
-----------------------------------------------------------------------------
(* Types, and the invariant. *)

LEMMA CodesStep ==
  ASSUME AccTypeOK, [AccNext]_accVars
  PROVE  regCodes' \union resetCodes' \subseteq Emails
<1>1. CASE UNCHANGED codeVars
  BY <1>1 DEF codeVars, AccTypeOK
<1>2. ASSUME NEW r \in Slots, InviteSet(r) \/ OfferSet(r)
      PROVE  regCodes' \union resetCodes' \subseteq Emails
  <2>1. accTask[r].email \in Emails
    BY <1>2, AccBusy DEF InviteSet, OfferSet, At, CodeTask
  <2> QED
    BY <1>2, <2>1 DEF InviteSet, OfferSet, AccTypeOK
<1>3. ASSUME NEW r \in Slots, RegisterVoid(r) \/ ResetVoid(r)
      PROVE  regCodes' \union resetCodes' \subseteq Emails
  BY <1>3 DEF RegisterVoid, ResetVoid, AccTypeOK
<1>4. ASSUME NEW e \in Emails, Expire(e)
      PROVE  regCodes' \union resetCodes' \subseteq Emails
  BY <1>4 DEF Expire, AccTypeOK
<1>5. ASSUME NEW r \in Slots, AccResume(r)
      PROVE  regCodes' \union resetCodes' \subseteq Emails
  <2>1. \/ UNCHANGED codeVars
        \/ InviteSet(r) \/ OfferSet(r) \/ RegisterVoid(r) \/ ResetVoid(r)
    BY <1>5 DEF AccResume, RegisterInsert, LoginGet, LoginUpsert, ResetGetUser,
                ResetWrite, ProfileWrite, AccFail, codeVars
  <2> QED
    BY <1>1, <1>2, <1>3, <2>1
<1>6. CASE \/ \E r \in SignReqs : SignStart(r)
           \/ \E r \in RowReqs : RowStart(r)
           \/ \E e \in Emails, n \in Names, p \in Passwords : Appoint(e, n, p)
           \/ \E i \in UserIDs : Logout(i) \/ Erase(i)
  <2>1. UNCHANGED codeVars
    BY <1>6 DEF SignStart, InviteGet, LoginStart, RegisterGetCode, RowStart, OfferGet,
                ResetGetCode, ProfileGet, Appoint, Logout, Erase, codeVars
  <2> QED
    BY <1>1, <2>1
<1>7. CASE UNCHANGED accVars
  BY <1>1, <1>7 DEF accVars, codeVars
<1> QED
  BY <1>4, <1>5, <1>6, <1>7 DEF AccNext

LEMMA AccTypeStep ==
  ASSUME AccTypeOK, TableStep, TasksStep, [AccNext]_accVars
  PROVE  AccTypeOK'
<1>1. users' \in [UserIDs -> User \union {NoUser}]
  BY DEF TableStep, RowAdded, RowWritten, AccTypeOK
<1>2. erased' \union sessions' \subseteq {i \in UserIDs : users'[i] # NoUser}
  <2>1. erased' \union sessions' \subseteq {i \in UserIDs : users[i] # NoUser}
    BY DEF TableStep, RowAdded, RowWritten, AccTypeOK
  <2> QED
    BY <2>1, RowsKeepEmail
<1>3. accTask' \in [Slots -> AnyTask]
  BY DEF TasksStep, Moved, AccTypeOK, AnyTask
<1> QED
  BY <1>1, <1>2, <1>3, CodesStep DEF AccTypeOK, AnyTask

LEMMA InvStep == AccInv /\ [AccNext]_accVars => AccInv'
<1> SUFFICES ASSUME AccInv, [AccNext]_accVars
             PROVE  AccInv'
  OBVIOUS
<1>1. TableStep /\ TasksStep
  BY EveryTableStep, EveryTasksStep DEF AccInv
<1> QED
  BY <1>1, AccTypeStep, CopiesAgreeStep, SoleHolderStep DEF AccInv

\* The table of users, the codes, the sessions and the local variables of all
\* requests keep their types; in particular no password wider than the column
\* is ever stored, not even from a copy.
THEOREM AccTypeCorrect == AccSpec => []AccTypeOK
<1>1. AccInv => AccTypeOK
  BY DEF AccInv
<1> QED
  BY <1>1, InvInit, InvStep, PTL DEF AccSpec

\* However requests interleave and fail, an email address has at most one
\* account that is not deleted: the unique index guards the insert, and a copy
\* written back, even to a row deleted meanwhile, never carries another email.
THEOREM OneAccountAtATime == AccSpec => []OneAccountPerEmail
<1>1. AccInv => OneAccountPerEmail
  <2> SUFFICES ASSUME AccInv, NEW e \in Emails
               PROVE  Cardinality(Holders(e)) <= 1
    BY DEF OneAccountPerEmail
  <2>1. CASE Holders(e) = {}
    BY <2>1, FS_EmptySet
  <2>2. ASSUME NEW i \in Holders(e)
        PROVE  Cardinality(Holders(e)) <= 1
    <3>1. Holders(e) = {i}
      BY <2>2 DEF AccInv, SoleHolder, Holders
    <3> QED
      BY <3>1, FS_Singleton
  <2> QED
    BY <2>1, <2>2
<1> QED
  BY <1>1, InvInit, InvStep, PTL DEF AccSpec
-----------------------------------------------------------------------------
(* One slot for profile edits, reset codes and resets.                     *)

SoleRow == \A r, s \in RowReqs : r = s

RowStates == {"offer.set", "profile.write", "reset.void", "reset.get", "reset.write"}

RowsApart == \A r \in Slots : accTask[r].pc \in RowStates => r \in RowReqs

\* Nobody else writes a row that is there or makes a reset code: the copy is
\* still the row, aside from what it is to change, and a blanked code is blank.
Fresh(t) ==
    /\ t.pc = "profile.write" => t.row.password = users[t.id].password
    /\ t.pc = "reset.write" => t.row.name = users[t.id].name
    /\ t.pc = "reset.get" => t.email \notin resetCodes
    /\ t.pc = "reset.write" => t.row.email \notin resetCodes

SoleInv == AccInv /\ RowsApart /\ \A r \in Slots : Fresh(accTask[r])

LEMMA SoleInit == AccInit => SoleInv
  BY InvInit DEF AccInit, SoleInv, RowsApart, RowStates, Fresh, Idle

\* A request that moves is in a slot of its own kind, and no other slot moves.
SlotStep(r) ==
    \/ r \in SignReqs /\ SignStart(r)
    \/ r \in RowReqs /\ RowStart(r)
    \/ AccResume(r)

LEMMA SlotMoves ==
  ASSUME AccTypeOK, NEW r \in Slots, SlotStep(r), NEW s \in Slots, s # r
  PROVE  accTask'[s] = accTask[s]
<1>1. \E t : Goto(r, t)
  <2>1. CASE SignStart(r)
    BY <2>1 DEF SignStart, InviteGet, LoginStart, RegisterGetCode
  <2>2. CASE RowStart(r)
    BY <2>2 DEF RowStart, OfferGet, ResetGetCode, ProfileGet
  <2>3. CASE InviteSet(r) \/ OfferSet(r) \/ RegisterVoid(r) \/ RegisterInsert(r)
               \/ LoginGet(r) \/ LoginUpsert(r)
    BY <2>3 DEF InviteSet, OfferSet, RegisterVoid, RegisterInsert, LoginGet, LoginUpsert
  <2>4. CASE ResetVoid(r) \/ ResetGetUser(r) \/ ResetWrite(r) \/ ProfileWrite(r)
               \/ AccFail(r)
    BY <2>4 DEF ResetVoid, ResetGetUser, ResetWrite, ProfileWrite, AccFail
  <2> QED
    BY <2>1, <2>2, <2>3, <2>4 DEF SlotStep, AccResume
<1> QED
  BY <1>1 DEF Goto, AccTypeOK

\* What a request reads, it keeps to itself: nobody rewrites a row or makes a
\* reset code while the one slot for that has something else to do.
Untouched ==
    /\ \A i \in UserIDs : users[i] # NoUser => users'[i] = users[i]
    /\ resetCodes' \subseteq resetCodes

\* A step is one of a slot, or leaves all requests and what they read alone.
LEMMA SlotOrNot ==
  ASSUME AccTypeOK, [AccNext]_accVars
  PROVE  \/ \E r \in Slots : SlotStep(r)
         \/ UNCHANGED accTask /\ Untouched
<1> USE DEF Untouched
<1>1. CASE UNCHANGED accVars
  BY <1>1 DEF accVars
<1>2. ASSUME NEW e \in Emails, NEW n \in Names, NEW p \in Passwords, Appoint(e, n, p)
      PROVE  UNCHANGED accTask /\ Untouched
  BY <1>2 DEF Appoint, CreateUser, codeVars, AccTypeOK
<1>3. ASSUME NEW e \in Emails, Expire(e)
      PROVE  UNCHANGED accTask /\ Untouched
  BY <1>3 DEF Expire
<1>4. ASSUME NEW i \in UserIDs, Logout(i) \/ Erase(i)
      PROVE  UNCHANGED accTask /\ Untouched
  BY <1>4 DEF Logout, Erase, codeVars
<1> QED
  BY <1>1, <1>2, <1>3, <1>4 DEF AccNext, SlotStep, Slots

LEMMA OthersTouchNothing ==
  ASSUME AccTypeOK, NEW r \in Slots, SlotStep(r)
  PROVE  \/ Untouched
         \/ OfferSet(r) \/ ResetWrite(r) \/ ProfileWrite(r)
<1>1. CASE SignStart(r)
  BY <1>1 DEF SignStart, InviteGet, LoginStart, RegisterGetCode, codeVars, Untouched
<1>2. CASE RowStart(r)
  BY <1>2 DEF RowStart, OfferGet, ResetGetCode, ProfileGet, codeVars, Untouched
<1>3. CASE InviteSet(r) \/ RegisterVoid(r) \/ LoginGet(r) \/ LoginUpsert(r)
             \/ ResetVoid(r) \/ ResetGetUser(r) \/ AccFail(r)
  BY <1>3 DEF InviteSet, RegisterVoid, LoginGet, LoginUpsert, ResetVoid, ResetGetUser,
              AccFail, codeVars, Untouched
<1>4. CASE RegisterInsert(r)
  BY <1>4 DEF RegisterInsert, CreateUser, codeVars, Untouched, AccTypeOK
<1> QED
  BY <1>1, <1>2, <1>3, <1>4 DEF SlotStep, AccResume

LEMMA RowsApartStep ==
  ASSUME AccTypeOK, RowsApart, [AccNext]_accVars
  PROVE  RowsApart'
<1> SUFFICES ASSUME NEW s \in Slots, accTask'[s].pc \in RowStates
             PROVE  s \in RowReqs
  BY DEF RowsApart
<1>1. CASE accTask'[s] = accTask[s]
  BY <1>1 DEF RowsApart
<1>2. CASE SlotStep(s)
  <2>1. CASE SignStart(s)
    <3>1. accTask'[s].pc \in {"invite.set", "login.upsert", "register.void"}
      BY <2>1 DEF SignStart, InviteGet, LoginStart, RegisterGetCode, Goto, AccTypeOK
    <3> QED
      BY <3>1 DEF RowStates
  <2>2. CASE InviteSet(s) \/ OfferSet(s) \/ LoginUpsert(s) \/ ProfileWrite(s) \/ AccFail(s)
    <3>1. accTask'[s] = Idle
      BY <2>2 DEF InviteSet, OfferSet, LoginUpsert, ProfileWrite, AccFail, Goto, AccTypeOK
    <3> QED
      BY <3>1 DEF Idle, RowStates
  <2>3. CASE RegisterVoid(s) \/ RegisterInsert(s) \/ LoginGet(s)
    <3>1. ASSUME RegisterVoid(s)
          PROVE  accTask'[s].pc = "register.insert"
      <4>1. accTask[s] \in RegisterTask
        BY <3>1, AccBusy DEF RegisterVoid, At
      <4> QED
        BY <3>1, <4>1 DEF RegisterVoid, Goto, AccTypeOK, RegisterTask
    <3>2. RegisterInsert(s) \/ LoginGet(s)
            => accTask'[s].pc \in {"login.get", "login.upsert", "idle"}
      BY DEF RegisterInsert, LoginGet, Goto, AccTypeOK, Idle
    <3> QED
      BY <2>3, <3>1, <3>2 DEF RowStates
  <2>4. CASE ResetVoid(s) \/ ResetGetUser(s) \/ ResetWrite(s)
    BY <2>4 DEF ResetVoid, ResetGetUser, ResetWrite, At, RowsApart, RowStates
  <2> QED
    BY <1>2, <2>1, <2>2, <2>3, <2>4 DEF SlotStep, AccResume
<1>3. CASE UNCHANGED accTask
  BY <1>1, <1>3
<1> QED
  BY <1>1, <1>2, <1>3, SlotOrNot, SlotMoves

\* What a request has just read is so.
LEMMA NewlyFresh ==
  ASSUME AccTypeOK, NEW r \in Slots, Fresh(accTask[r]), SlotStep(r)
  PROVE  Fresh(accTask[r])'
<1>1. CASE SignStart(r)
  <2>1. accTask'[r].pc \in {"invite.set", "login.upsert", "register.void"}
    BY <1>1 DEF SignStart, InviteGet, LoginStart, RegisterGetCode, Goto, AccTypeOK
  <2> QED
    BY <2>1 DEF Fresh
<1>2. ASSUME NEW i \in UserIDs, NEW n \in Names, ProfileGet(r, i, n)
      PROVE  Fresh(accTask[r])'
  <2>1. users[i] \in User
    BY <1>2 DEF ProfileGet, AccTypeOK
  <2>2. [users[i] EXCEPT !.name = n].password = users[i].password
    BY <2>1 DEF User
  <2> QED
    BY <1>2, <2>2 DEF ProfileGet, Goto, Fresh, AccTypeOK
<1>3. CASE RowStart(r)
  <2>1. \A e \in Emails : OfferGet(r, e) => accTask'[r].pc = "offer.set"
    BY DEF OfferGet, Goto, AccTypeOK
  <2>2. \A e \in Emails, p \in Passwords :
           ResetGetCode(r, e, p) => accTask'[r].pc = "reset.void"
    BY DEF ResetGetCode, Goto, AccTypeOK
  <2> QED
    BY <1>2, <1>3, <2>1, <2>2 DEF RowStart, Fresh
<1>4. CASE AccResume(r)
  <2>1. CASE InviteSet(r) \/ OfferSet(r) \/ LoginUpsert(r) \/ ProfileWrite(r) \/ AccFail(r)
    <3>1. accTask'[r] = Idle
      BY <2>1 DEF InviteSet, OfferSet, LoginUpsert, ProfileWrite, AccFail, Goto, AccTypeOK
    <3> QED
      BY <3>1 DEF Idle, Fresh
  <2>2. CASE RegisterInsert(r) \/ LoginGet(r) \/ ResetWrite(r)
    <3>1. accTask'[r].pc \in {"login.get", "login.upsert", "idle"}
      BY <2>2 DEF RegisterInsert, LoginGet, ResetWrite, Goto, AccTypeOK, Idle
    <3> QED
      BY <3>1 DEF Fresh
  <2>3. CASE RegisterVoid(r)
    <3>1. accTask[r] \in RegisterTask
      BY <2>3, AccBusy DEF RegisterVoid, At
    <3>2. accTask'[r].pc = "register.insert"
      BY <2>3, <3>1 DEF RegisterVoid, Goto, AccTypeOK, RegisterTask
    <3> QED
      BY <3>2 DEF Fresh
  <2>4. CASE ResetVoid(r)
    <3>1. accTask[r] \in PasswordTask
      BY <2>4, AccBusy DEF ResetVoid, At
    <3>2. accTask'[r].pc = "reset.get" /\ accTask'[r].email = accTask[r].email
      BY <2>4, <3>1 DEF ResetVoid, Goto, AccTypeOK, PasswordTask
    <3> QED
      BY <2>4, <3>2 DEF ResetVoid, Fresh
  <2>5. CASE ResetGetUser(r)
    <3> DEFINE t == accTask[r]
    <3>1. t.email \notin resetCodes /\ UNCHANGED <<users, resetCodes>>
      BY <2>5 DEF ResetGetUser, At, Fresh, codeVars
    <3>2. CASE Goto(r, Idle)
      BY <3>2 DEF Goto, AccTypeOK, Idle, Fresh
    <3>3. ASSUME NEW i \in Holders(t.email),
                 Goto(r, [pc |-> "reset.write", id |-> i,
                          row |-> [users[i] EXCEPT !.password = t.password]])
          PROVE  Fresh(accTask[r])'
      <4> DEFINE row == [users[i] EXCEPT !.password = t.password]
      <4>1. users[i] \in User /\ users[i].email = t.email
        BY HolderIsUser
      <4>2. row.name = users[i].name /\ row.email = t.email
        BY <4>1 DEF User
      <4>3. accTask'[r] = [pc |-> "reset.write", id |-> i, row |-> row]
        BY <3>3 DEF Goto, AccTypeOK
      <4>4. row.email \notin resetCodes' /\ row.name = users'[i].name
        BY <3>1, <4>2
      <4> HIDE DEF row
      <4> QED
        BY <4>3, <4>4 DEF Fresh
    <3> QED
      BY <2>5, <3>2, <3>3 DEF ResetGetUser
  <2> QED
    BY <1>4, <2>1, <2>2, <2>3, <2>4, <2>5 DEF AccResume
<1> QED
  BY <1>1, <1>3, <1>4 DEF SlotStep

LEMMA FreshStep ==
  ASSUME SoleRow, SoleInv, [AccNext]_accVars, NEW s \in Slots
  PROVE  Fresh(accTask[s])'
<1> USE DEF SoleInv, AccInv
<1>1. ASSUME Untouched, accTask'[s] = accTask[s]
      PROVE  Fresh(accTask[s])'
  <2>1. Fresh(accTask[s]) /\ Carried(accTask[s])
    BY DEF CopiesAgree
  <2>2. accTask[s].pc \in {"profile.write", "reset.write"} => accTask[s].id \in UserIDs
    BY AccBusy DEF RowTask
  <2> QED
    BY <1>1, <2>1, <2>2 DEF Fresh, Carried, Untouched
<1>2. ASSUME NEW r \in Slots, SlotStep(r), r # s
      PROVE  Fresh(accTask[s])'
  <2>1. accTask'[s] = accTask[s]
    BY <1>2, SlotMoves
  <2>2. CASE Untouched
    BY <1>1, <2>1, <2>2
  <2>3. CASE OfferSet(r) \/ ResetWrite(r) \/ ProfileWrite(r)
    <3>1. r \in RowReqs
      BY <2>3 DEF OfferSet, ResetWrite, ProfileWrite, At, RowsApart, RowStates
    <3>2. accTask[s].pc \notin RowStates
      BY <1>2, <3>1 DEF SoleRow, RowsApart
    <3> QED
      BY <2>1, <3>2 DEF Fresh, RowStates
  <2> QED
    BY <1>2, <2>2, <2>3, OthersTouchNothing
<1>3. CASE SlotStep(s)
  BY <1>3, NewlyFresh
<1>4. CASE UNCHANGED accTask /\ Untouched
  BY <1>1, <1>4
<1> QED
  BY <1>2, <1>3, <1>4, SlotOrNot

LEMMA SoleStep ==
  ASSUME SoleRow, SoleInv, [AccNext]_accVars
  PROVE  SoleInv'
  BY InvStep, RowsApartStep, FreshStep DEF SoleInv, AccInv

-----------------------------------------------------------------------------
(* The mapping to AccountPlan, and its steps. *)

Mapped == [i \in UserIDs |-> IF i \in erased THEN Gone
                             ELSE IF users[i] = NoUser THEN None ELSE users[i]]

LEMMA PlanVariables == Plan!planVars = <<Mapped, Spendable>>
  BY DEF Plan!planVars, Mapped, Spendable

LEMMA UserIsNoMark ==
  ASSUME NEW u \in User
  PROVE  u # NoUser /\ u # None /\ u # Gone
  BY DEF User, NoUser, None, Gone

LEMMA MarksDiffer == None # Gone /\ None # NoUser /\ Gone # NoUser
<1>1. None.email # Gone.email
  BY DEF None, Gone
<1>2. None.email # NoUser.email
  BY DEF None, NoUser
<1>3. Gone.email # NoUser.email
  BY DEF Gone, NoUser
<1> QED
  BY <1>1, <1>2, <1>3

\* The accounts that stand are the rows that are not deleted.
LEMMA StandingRows ==
  ASSUME AccTypeOK, NEW i \in UserIDs
  PROVE  /\ Plan!Standing(i) <=> i \notin erased /\ users[i] # NoUser
         /\ Plan!Standing(i) => users[i] \in User /\ Mapped[i] = users[i]
<1>1. Plan!Standing(i) <=> Mapped[i] \notin {None, Gone}
  BY DEF Plan!Standing, Mapped
<1>2. Mapped[i] = IF i \in erased THEN Gone
                  ELSE IF users[i] = NoUser THEN None ELSE users[i]
  BY DEF Mapped
<1>3. users[i] # NoUser => users[i] \in User
  BY DEF AccTypeOK
<1> QED
  BY <1>1, <1>2, <1>3, UserIsNoMark, MarksDiffer

LEMMA PlanStutters ==
  ASSUME UNCHANGED <<users, erased, Spendable>>
  PROVE  UNCHANGED Plan!planVars
  BY PlanVariables DEF Plan!planVars, Mapped, Spendable

LEMMA PlanOpens ==
  ASSUME AccTypeOK, AccTypeOK', NEW i \in UserIDs, RowAdded(i), UNCHANGED Spendable
  PROVE  Plan!Open(i)
<1>1. PICK u \in User : Holders(u.email) = {} /\ users' = [users EXCEPT ![i] = u]
  BY DEF RowAdded
<1>2. i \notin erased /\ users[i] = NoUser /\ erased' = erased
  BY DEF RowAdded, AccTypeOK
<1>3. Mapped[i] = None
  BY <1>2 DEF Mapped
<1>4. Mapped'[i] = u /\ Mapped' = [Mapped EXCEPT ![i] = u]
  <2>1. users'[i] = u /\ u # NoUser
    BY <1>1, UserIsNoMark DEF AccTypeOK
  <2>2. \A j \in UserIDs : j # i => users'[j] = users[j]
    BY <1>1 DEF AccTypeOK
  <2> QED
    BY <1>2, <2>1, <2>2 DEF Mapped
<1>5. \A j \in UserIDs : Plan!Standing(j) => Mapped[j].email # u.email
  BY <1>1, StandingRows DEF Holders
<1>6. u.email \in Emails
  BY DEF User
<1> QED
  BY <1>3, <1>4, <1>5, <1>6 DEF Plan!Open, Mapped, Spendable

LEMMA PlanCloses ==
  ASSUME AccTypeOK, NEW i \in UserIDs, Erase(i), UNCHANGED Spendable
  PROVE  Plan!Close(i)
<1>1. Plan!Standing(i) /\ users' = users /\ erased' = erased \union {i}
  BY StandingRows DEF Erase
<1>2. Mapped' = [Mapped EXCEPT ![i] = Gone]
  BY <1>1 DEF Mapped
<1> QED
  BY <1>1, <1>2 DEF Plan!Close, Mapped, Spendable

\* Writing a row that is not deleted shows, writing one that is does not.
LEMMA MappedWrite ==
  ASSUME AccTypeOK, NEW i \in UserIDs, users[i] # NoUser, NEW u \in User,
         users' = [users EXCEPT ![i] = u], erased' = erased
  PROVE  /\ i \in erased => Mapped' = Mapped
         /\ i \notin erased => Mapped' = [Mapped EXCEPT ![i] = u] /\ Mapped'[i] = u
<1>1. users'[i] = u /\ u # NoUser
  BY UserIsNoMark DEF AccTypeOK
<1>2. \A j \in UserIDs : j # i => users'[j] = users[j]
  BY DEF AccTypeOK
<1> QED
  BY <1>1, <1>2 DEF Mapped

LEMMA PlanRenames ==
  ASSUME AccTypeOK, NEW i \in UserIDs, users[i] # NoUser, NEW u \in User,
         users' = [users EXCEPT ![i] = u], erased' = erased, UNCHANGED Spendable,
         u.email = users[i].email, u.password = users[i].password
  PROVE  Plan!Rename(i) \/ UNCHANGED Plan!planVars
<1>1. CASE i \in erased
  BY <1>1, MappedWrite DEF Plan!planVars, Mapped, Spendable
<1>2. CASE i \notin erased
  <2>1. Plan!Standing(i) /\ users[i] \in User /\ Mapped[i] = users[i]
    BY <1>2, StandingRows
  <2>2. u = [users[i] EXCEPT !.name = u.name]
    BY <2>1 DEF User
  <2>3. Mapped' = [Mapped EXCEPT ![i] = u] /\ Mapped'[i] = u
    BY <1>2, MappedWrite
  <2>4. Mapped' = [Mapped EXCEPT ![i].name = Mapped'[i].name]
    BY <2>1, <2>2, <2>3
  <2> QED
    BY <2>1, <2>4 DEF Plan!Rename, Mapped, Spendable
<1> QED
  BY <1>1, <1>2

LEMMA PlanResets ==
  ASSUME AccTypeOK, NEW i \in UserIDs, users[i] # NoUser, NEW u \in User,
         users' = [users EXCEPT ![i] = u], erased' = erased,
         u.email = users[i].email, u.name = users[i].name,
         u.email \in Spendable, Spendable' = Spendable \ {u.email}
  PROVE  Plan!Reset(i) \/ Plan!Void(u.email)
<1>1. CASE i \in erased
  BY <1>1, MappedWrite DEF Plan!Void, Mapped, Spendable
<1>2. CASE i \notin erased
  <2>1. Plan!Standing(i) /\ users[i] \in User /\ Mapped[i] = users[i]
    BY <1>2, StandingRows
  <2>2. u = [users[i] EXCEPT !.password = u.password]
    BY <2>1 DEF User
  <2>3. Mapped' = [Mapped EXCEPT ![i] = u] /\ Mapped'[i] = u
    BY <1>2, MappedWrite
  <2>4. Mapped' = [Mapped EXCEPT ![i].password = Mapped'[i].password]
    BY <2>1, <2>2, <2>3
  <2> QED
    BY <2>1, <2>4 DEF Plan!Reset, Mapped, Spendable
<1> QED
  BY <1>1, <1>2

LEMMA PlanVoids ==
  ASSUME NEW e \in Spendable, Spendable' = Spendable \ {e}, UNCHANGED <<users, erased>>
  PROVE  Plan!Void(e)
  BY DEF Plan!Void, Mapped, Spendable

-----------------------------------------------------------------------------
\* The code a request is spending.
Own(t) == IF t.pc \in {"reset.void", "reset.get"} THEN {t.email}
          ELSE IF t.pc = "reset.write" THEN {t.row.email} ELSE {}

LEMMA SpendingIsOwn ==
  /\ Spending = UNION {Own(accTask[r]) : r \in Slots}
  /\ Spending' = UNION {Own(accTask'[r]) : r \in Slots}
  BY DEF Spending, Own

LEMMA SoleSpending ==
  ASSUME SoleRow, RowsApart, RowsApart', NEW r \in RowReqs
  PROVE  Spending = Own(accTask[r]) /\ Spending' = Own(accTask'[r])
<1>1. \A s \in Slots : s # r =>
         accTask[s].pc \notin RowStates /\ accTask'[s].pc \notin RowStates
  BY DEF SoleRow, RowsApart
<1>2. \A s \in Slots : s # r => Own(accTask[s]) = {} /\ Own(accTask'[s]) = {}
  BY <1>1 DEF Own, RowStates
<1>3. r \in Slots
  BY DEF Slots
<1> QED
  BY <1>2, <1>3, SpendingIsOwn

LEMMA SpendingKept ==
  ASSUME AccTypeOK, NEW r \in Slots, SlotStep(r), Own(accTask'[r]) = Own(accTask[r])
  PROVE  Spending' = Spending
  BY SlotMoves, SpendingIsOwn

\* A step of a request that has nothing to do with codes and rows.
LEMMA SignStutters ==
  ASSUME AccTypeOK, NEW r \in Slots, SlotStep(r),
         accTask[r].pc \notin {"reset.void", "reset.get", "reset.write"},
         accTask'[r].pc \notin {"reset.void", "reset.get", "reset.write"},
         UNCHANGED resetCodes
  PROVE  UNCHANGED Spendable
<1>1. Own(accTask[r]) = {} /\ Own(accTask'[r]) = {}
  BY DEF Own
<1> QED
  BY <1>1, SpendingKept DEF Spendable

LEMMA PlanSlotStep ==
  ASSUME SoleRow, SoleInv, SoleInv', NEW r \in Slots, SlotStep(r)
  PROVE  Plan!Next \/ UNCHANGED Plan!planVars
<1> DEFINE t == accTask[r]
<1> USE DEF SoleInv, AccInv
<1>1. CASE SignStart(r)
  <2>1. /\ accTask[r] = Idle /\ UNCHANGED <<users, erased, resetCodes>>
        /\ accTask'[r].pc \in {"invite.set", "login.upsert", "register.void"}
    BY <1>1 DEF SignStart, InviteGet, LoginStart, RegisterGetCode, Goto, AccTypeOK, codeVars
  <2> QED
    BY <2>1, SignStutters, PlanStutters DEF Idle
<1>2. ASSUME r \in RowReqs, RowStart(r)
      PROVE  UNCHANGED Plan!planVars
  <2>1. accTask[r] = Idle /\ UNCHANGED <<users, erased, resetCodes>>
    BY <1>2 DEF RowStart, OfferGet, ResetGetCode, ProfileGet, codeVars
  <2>2. ASSUME NEW e \in Emails, NEW p \in Passwords, ResetGetCode(r, e, p)
        PROVE  UNCHANGED Spendable
    <3>1. accTask'[r].pc = "reset.void" /\ accTask'[r].email = e /\ e \in resetCodes
      BY <2>2 DEF ResetGetCode, Goto, AccTypeOK
    <3>2. Own(accTask[r]) = {} /\ Own(accTask'[r]) = {e}
      BY <2>1, <3>1 DEF Own, Idle
    <3> QED
      BY <1>2, <2>1, <3>1, <3>2, SoleSpending DEF Spendable
  <2>3. \A e \in Emails : OfferGet(r, e) => accTask'[r].pc = "offer.set"
    BY DEF OfferGet, Goto, AccTypeOK
  <2>4. \A i \in UserIDs, n \in Names :
           ProfileGet(r, i, n) => accTask'[r].pc = "profile.write"
    BY DEF ProfileGet, Goto, AccTypeOK
  <2>5. accTask'[r].pc \in {"offer.set", "profile.write"} => UNCHANGED Spendable
    BY <2>1, SignStutters DEF Idle
  <2> QED
    BY <1>2, <2>1, <2>2, <2>3, <2>4, <2>5, PlanStutters DEF RowStart
<1>3. CASE InviteSet(r) \/ LoginUpsert(r)
  BY <1>3, SignStutters, PlanStutters
  DEF InviteSet, LoginUpsert, Goto, At, AccTypeOK, Idle, codeVars
<1>4. CASE RegisterVoid(r)
  <2>1. t \in RegisterTask
    BY <1>4, AccBusy DEF RegisterVoid, At
  <2>2. accTask'[r].pc = "register.insert"
    BY <1>4, <2>1 DEF RegisterVoid, Goto, AccTypeOK, RegisterTask
  <2> QED
    BY <1>4, <2>2, SignStutters, PlanStutters DEF RegisterVoid, At
<1>5. CASE RegisterInsert(r)
  <2>1. t \in RegisterTask /\ UNCHANGED <<erased, sessions, resetCodes>>
    BY <1>5, AccBusy DEF RegisterInsert, At, codeVars
  <2>2. accTask'[r].pc \in {"login.get", "idle"}
    BY <1>5 DEF RegisterInsert, Goto, AccTypeOK, Idle
  <2>3. UNCHANGED Spendable
    BY <1>5, <2>1, <2>2, SignStutters DEF RegisterInsert, At
  <2>4. CASE MayInsert(t.email, t.password) /\ CreateUser(t.email, t.name, t.password)
    <3>1. \E i \in UserIDs : RowAdded(i)
      BY <2>1, <2>4, CreateAddsRow DEF RegisterTask
    <3> QED
      BY <2>3, <3>1, PlanOpens DEF Plan!Next
  <2>5. CASE UNCHANGED users
    BY <2>1, <2>3, <2>5, PlanStutters
  <2> QED
    BY <1>5, <2>4, <2>5 DEF RegisterInsert
<1>6. CASE LoginGet(r)
  <2>1. accTask'[r].pc \in {"login.upsert", "idle"}
    BY <1>6 DEF LoginGet, Goto, AccTypeOK, Idle
  <2> QED
    BY <1>6, <2>1, SignStutters, PlanStutters DEF LoginGet, At, codeVars
<1>7. CASE OfferSet(r)
  <2>1. t.email \in Emails
    BY <1>7, AccBusy DEF OfferSet, At, CodeTask
  <2>2. accTask'[r] = Idle
    BY <1>7 DEF OfferSet, Goto, AccTypeOK
  <2>3. Own(accTask[r]) = {} /\ Own(accTask'[r]) = {}
    BY <1>7, <2>2 DEF OfferSet, At, Own, Idle
  <2>4. Spendable' = Spendable \union {t.email} /\ UNCHANGED <<users, erased>>
    BY <1>7, <2>3, SpendingKept DEF OfferSet, Spendable
  <2>5. Plan!Offer(t.email)
    BY <2>4 DEF Plan!Offer, Spendable, Mapped
  <2> QED
    BY <2>1, <2>5 DEF Plan!Next
<1>8. CASE ResetVoid(r)
  <2>1. t \in PasswordTask /\ r \in RowReqs
    BY <1>8, AccBusy DEF ResetVoid, At, RowsApart, RowStates
  <2>2. accTask'[r].pc = "reset.get" /\ accTask'[r].email = t.email
    BY <1>8, <2>1 DEF ResetVoid, Goto, AccTypeOK, PasswordTask
  <2>3. Own(accTask[r]) = {t.email} /\ Own(accTask'[r]) = {t.email}
    BY <1>8, <2>2 DEF ResetVoid, At, Own
  <2>4. UNCHANGED Spendable
    BY <1>8, <2>1, <2>3, SoleSpending DEF Spendable, ResetVoid
  <2> QED
    BY <1>8, <2>4, PlanStutters DEF ResetVoid
<1>9. CASE ResetGetUser(r)
  <2>1. t \in PasswordTask /\ r \in RowReqs
    BY <1>9, AccBusy DEF ResetGetUser, At, RowsApart, RowStates
  <2>2. t.email \in Emails /\ t.email \notin resetCodes
    BY <1>9, <2>1 DEF ResetGetUser, At, Fresh, PasswordTask
  <2>3. Spending = {t.email} /\ Spending' = Own(accTask'[r])
    BY <1>9, <2>1, SoleSpending DEF ResetGetUser, At, Own
  <2>4. UNCHANGED <<users, erased, resetCodes>>
    BY <1>9 DEF ResetGetUser, codeVars
  <2>5. CASE Goto(r, Idle)
    <3>1. Spending' = {}
      BY <2>3, <2>5 DEF Goto, AccTypeOK, Idle, Own
    <3> QED
      BY <2>2, <2>3, <2>4, <3>1, PlanVoids DEF Spendable, Plan!Next
  <2>6. ASSUME NEW i \in Holders(t.email),
               Goto(r, [pc |-> "reset.write", id |-> i,
                        row |-> [users[i] EXCEPT !.password = t.password]])
        PROVE  UNCHANGED Plan!planVars
    <3>1. users[i] \in User /\ users[i].email = t.email
      BY HolderIsUser
    <3>2. [users[i] EXCEPT !.password = t.password].email = t.email
      BY <3>1 DEF User
    <3>3. Own(accTask'[r]) = {t.email}
      BY <2>6, <3>2 DEF Goto, AccTypeOK, Own
    <3> QED
      BY <2>3, <2>4, <3>3, PlanStutters DEF Spendable
  <2> QED
    BY <1>9, <2>5, <2>6 DEF ResetGetUser
<1>10. CASE ResetWrite(r)
  <2> DEFINE row == t.row
  <2>1. t \in RowTask /\ r \in RowReqs
    BY <1>10, AccBusy DEF ResetWrite, At, RowsApart, RowStates
  <2>2. /\ t.id \in UserIDs /\ users[t.id] # NoUser /\ row.email = users[t.id].email
        /\ row.name = users[t.id].name /\ row.email \notin resetCodes
        /\ row.email \in Emails
    BY <1>10, <2>1 DEF ResetWrite, At, CopiesAgree, Carried, Fresh, RowTask
  <2>3. accTask'[r].pc \in {"login.get", "idle"}
    BY <1>10 DEF ResetWrite, Goto, AccTypeOK, Idle
  <2>4. Spending = {row.email} /\ Spending' = {}
    BY <1>10, <2>1, <2>3, SoleSpending DEF ResetWrite, At, Own
  <2>5. UNCHANGED <<erased, resetCodes>>
    BY <1>10 DEF ResetWrite, codeVars
  <2>6. row.email \in Spendable /\ Spendable' = Spendable \ {row.email}
    BY <2>2, <2>4, <2>5 DEF Spendable
  <2>7. CASE row.password \in Storable /\ WriteRow(r)
    <3>1. row \in User /\ users' = [users EXCEPT ![t.id] = row]
      BY <2>1, <2>7 DEF RowTask, User, WriteRow
    <3> QED
      BY <2>2, <2>5, <2>6, <3>1, PlanResets DEF Plan!Next
  <2>8. CASE UNCHANGED users
    BY <2>2, <2>5, <2>6, <2>8, PlanVoids DEF Plan!Next
  <2> QED
    BY <1>10, <2>7, <2>8 DEF ResetWrite
<1>11. CASE ProfileWrite(r)
  <2> DEFINE row == t.row
  <2>1. t \in RowTask
    BY <1>11, AccBusy DEF ProfileWrite, At
  <2>2. /\ t.id \in UserIDs /\ users[t.id] # NoUser /\ row.email = users[t.id].email
        /\ row.password = users[t.id].password /\ row.password \in Storable
    BY <1>11, <2>1 DEF ProfileWrite, At, CopiesAgree, Carried, Fresh, RowTask
  <2>3. row \in User /\ users' = [users EXCEPT ![t.id] = row]
    BY <1>11, <2>1, <2>2 DEF RowTask, User, ProfileWrite, WriteRow
  <2>4. UNCHANGED Spendable
    BY <1>11, SignStutters DEF ProfileWrite, At, Goto, AccTypeOK, Idle, codeVars
  <2>5. UNCHANGED erased
    BY <1>11 DEF ProfileWrite
  <2> QED
    BY <2>2, <2>3, <2>4, <2>5, PlanRenames DEF Plan!Next
<1>12. CASE AccFail(r)
  <2>1. UNCHANGED <<users, erased, resetCodes>> /\ accTask'[r] = Idle
    BY <1>12 DEF AccFail, Goto, AccTypeOK, codeVars
  <2>2. CASE t.pc \in {"reset.void", "reset.get", "reset.write"}
    <3>1. r \in RowReqs
      BY <2>2 DEF RowsApart, RowStates
    <3>2. PICK e \in Emails : Own(t) = {e}
      BY <2>2, AccBusy DEF Own, PasswordTask, RowTask
    <3>3. Spending = {e} /\ Spending' = {}
      BY <2>1, <3>1, <3>2, SoleSpending DEF Own, Idle
    <3>4. UNCHANGED Spendable \/ (e \in Spendable /\ Spendable' = Spendable \ {e})
      BY <2>1, <3>3 DEF Spendable
    <3> QED
      BY <2>1, <3>4, PlanVoids, PlanStutters DEF Plan!Next
  <2>3. CASE t.pc \notin {"reset.void", "reset.get", "reset.write"}
    BY <2>1, <2>3, SignStutters, PlanStutters DEF Idle
  <2> QED
    BY <2>2, <2>3
<1> QED
  BY <1>1, <1>2, <1>3, <1>4, <1>5, <1>6, <1>7, <1>8, <1>9, <1>10, <1>11, <1>12
  DEF SlotStep, AccResume

LEMMA PlanStep ==
  ASSUME SoleRow, SoleInv, SoleInv', [AccNext]_accVars
  PROVE  [Plan!Next]_(Plan!planVars)
<1> USE DEF SoleInv, AccInv
<1>1. ASSUME UNCHANGED accTask
      PROVE  Spending' = Spending
  BY <1>1 DEF Spending
<1>2. CASE UNCHANGED accVars
  BY <1>1, <1>2, PlanStutters DEF accVars, Spendable
<1>3. ASSUME NEW e \in Emails, Expire(e)
      PROVE  Plan!Next \/ UNCHANGED Plan!planVars
  <2>1. UNCHANGED <<users, erased>> /\ Spending' = Spending
    BY <1>1, <1>3 DEF Expire
  <2>2. UNCHANGED Spendable \/ (e \in Spendable /\ Spendable' = Spendable \ {e})
    BY <1>3, <2>1 DEF Expire, Spendable
  <2> QED
    BY <2>1, <2>2, PlanVoids, PlanStutters DEF Plan!Next
<1>4. ASSUME NEW e \in Emails, NEW n \in Names, NEW p \in Passwords, Appoint(e, n, p)
      PROVE  Plan!Next
  <2>1. \E i \in UserIDs : RowAdded(i)
    BY <1>4, CreateAddsRow DEF Appoint
  <2>2. UNCHANGED Spendable
    BY <1>1, <1>4 DEF Appoint, Spendable, codeVars
  <2> QED
    BY <2>1, <2>2, PlanOpens DEF Plan!Next
<1>5. ASSUME NEW i \in UserIDs, Logout(i) \/ Erase(i)
      PROVE  Plan!Next \/ UNCHANGED Plan!planVars
  <2>1. UNCHANGED Spendable
    BY <1>1, <1>5 DEF Logout, Erase, Spendable, codeVars
  <2>2. CASE Logout(i)
    BY <2>1, <2>2, PlanStutters DEF Logout
  <2>3. CASE Erase(i)
    BY <2>1, <2>3, PlanCloses DEF Plan!Next
  <2> QED
    BY <1>5, <2>2, <2>3
<1>6. ASSUME NEW r \in Slots, SlotStep(r)
      PROVE  Plan!Next \/ UNCHANGED Plan!planVars
  BY <1>6, PlanSlotStep
<1> QED
  BY <1>2, <1>3, <1>4, <1>5, <1>6 DEF AccNext, SlotStep, Slots

LEMMA PlanStart == AccInit => Plan!Init
<1> SUFFICES ASSUME AccInit PROVE Plan!Init
  OBVIOUS
<1>1. Mapped = [i \in UserIDs |-> None]
  BY DEF AccInit, Mapped
<1>2. Spendable = {}
  BY DEF AccInit, Spendable, Spending, Idle
<1> QED
  BY <1>1, <1>2 DEF Plan!Init, Mapped, Spendable

\* With one request at a time that edits profiles, offers reset codes or
\* resets passwords, and any others beside it, accounts change as AccountPlan
\* says: a password only by a reset and never back by an edit of the profile,
\* and no code is good for two resets.
THEOREM SoleRowImplementsPlan ==
  ASSUME SoleRow
  PROVE  AccSpec => ImplementsPlan
<1>1. SoleInv /\ [AccNext]_accVars => SoleInv'
  BY SoleStep
<1>2. SoleInv /\ SoleInv' /\ [AccNext]_accVars => [Plan!Next]_(Plan!planVars)
  BY PlanStep
<1> QED
  BY <1>1, <1>2, SoleInit, PlanStart, PTL DEF AccSpec, ImplementsPlan, Plan!Spec

=============================================================================
