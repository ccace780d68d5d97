------------------------------ MODULE Accounts ------------------------------
(***************************************************************************)
(* Users, the codes mailed to them and their sessions: the auth and the    *)
(* user service.  Users and sessions are tables, codes are keys in Redis   *)
(* that expire.  As elsewhere one action is one statement or Redis command *)
(* with the code up to the next one.                                       *)
(*                                                                         *)
(* A code is abstracted to whether there is one for an email that its      *)
(* reader could present; a blank one, left when a reset spends it, matches *)
(* no request (the field is required).  A newer code replaces an older one.*)
(* Mail is not modelled: it may be lost, and whoever presents a code has   *)
(* got it.  A refreshed access token changes no state.                     *)
(***************************************************************************)
EXTENDS Naturals, FiniteSets

CONSTANTS
    UserIDs,       \* identifiers the UUID generator may return
    Emails,
    Names,
    Passwords,     \* what the validator accepts: up to 72 characters
    Storable,      \* what the column holds: up to 60
    SignReqs,      \* slots for requests to sign up and to log in
    RowReqs        \* slots for profile edits, reset codes and resets

ASSUME UserAssumption == IsFiniteSet(UserIDs)
ASSUME PasswordAssumption == Storable \subseteq Passwords

VARIABLES
    users,         \* the table, without its deleted_at column
    erased,        \* rows whose deleted_at is set
    sessions,      \* users that have a row in auth_sessions
    regCodes,      \* emails with a register code in Redis
    resetCodes,    \* emails with a reset code in Redis, the blank one aside
    accTask        \* requests in flight

codeVars == <<regCodes, resetCodes>>
accVars == <<users, erased, sessions, regCodes, resetCodes, accTask>>

Slots == SignReqs \union RowReqs

User == [email : Emails, name : Names, password : Storable]
NoUser == [email |-> "nobody"]

Idle == [pc |-> "idle"]
CodeTask == [pc : {"invite.set", "offer.set"}, email : Emails]
RegisterTask == [pc : {"register.void", "register.insert"},
                 email : Emails, name : Names, password : Passwords]
PasswordTask == [pc : {"login.get", "reset.void", "reset.get"},
                 email : Emails, password : Passwords]
LoginTask == [pc : {"login.upsert"}, id : UserIDs]
RowTask == [pc : {"profile.write", "reset.write"}, id : UserIDs,
            row : [email : Emails, name : Names, password : Passwords]]

Goto(r, t) == accTask' = [accTask EXCEPT ![r] = t]
At(r, pc) == accTask[r].pc = pc

\* Rows that GetUserByField finds.
Holders(e) == {i \in UserIDs \ erased : users[i] # NoUser /\ users[i].email = e}

-----------------------------------------------------------------------------
AccInit ==
    /\ users = [i \in UserIDs |-> NoUser]
    /\ erased = {}
    /\ sessions = {}
    /\ regCodes = {}
    /\ resetCodes = {}
    /\ accTask = [r \in Slots |-> Idle]

(* Codes: RequestOTPRegisterUser and RequestOTPResetPassword.              *)

InviteGet(r, e) ==
    /\ accTask[r] = Idle
    /\ Holders(e) = {}
    /\ Goto(r, [pc |-> "invite.set", email |-> e])
    /\ UNCHANGED <<users, erased, sessions, codeVars>>

InviteSet(r) ==
    /\ At(r, "invite.set")
    /\ regCodes' = regCodes \union {accTask[r].email}
    /\ Goto(r, Idle)
    /\ UNCHANGED <<users, erased, sessions, resetCodes>>

OfferGet(r, e) ==
    /\ accTask[r] = Idle
    /\ Holders(e) # {}
    /\ Goto(r, [pc |-> "offer.set", email |-> e])
    /\ UNCHANGED <<users, erased, sessions, codeVars>>

OfferSet(r) ==
    /\ At(r, "offer.set")
    /\ resetCodes' = resetCodes \union {accTask[r].email}
    /\ Goto(r, Idle)
    /\ UNCHANGED <<users, erased, sessions, regCodes>>

\* Redis drops a key after ten minutes.
Expire(e) ==
    /\ \/ e \in regCodes /\ regCodes' = regCodes \ {e} /\ UNCHANGED resetCodes
       \/ e \in resetCodes /\ resetCodes' = resetCodes \ {e} /\ UNCHANGED regCodes
    /\ UNCHANGED <<users, erased, sessions, accTask>>

(* RegisterUser, which ends in a login. *)

RegisterGetCode(r, e, n, p) ==
    /\ accTask[r] = Idle
    /\ e \in regCodes
    /\ Goto(r, [pc |-> "register.void", email |-> e, name |-> n, password |-> p])
    /\ UNCHANGED <<users, erased, sessions, codeVars>>

RegisterVoid(r) ==
    /\ At(r, "register.void")
    /\ regCodes' = regCodes \ {accTask[r].email}
    /\ Goto(r, [accTask[r] EXCEPT !.pc = "register.insert"])
    /\ UNCHANGED <<users, erased, sessions, resetCodes>>

\* Mutants: no unique index; a column as wide as the validator allows.
MayInsertTwice(e, p) == p \in Storable
MayInsertLong(e, p) == Holders(e) = {}

\* users_email_key, the unique index on emails of accounts not deleted, and
\* the width of the column.
MayInsert(e, p) == Holders(e) = {} /\ p \in Storable

CreateUser(e, n, p) == \E i \in UserIDs :
    /\ users[i] = NoUser
    /\ users' = [users EXCEPT ![i] = [email |-> e, name |-> n, password |-> p]]

RegisterInsert(r) ==
    /\ At(r, "register.insert")
    /\ LET t == accTask[r]
       IN \/ /\ MayInsert(t.email, t.password)
             /\ CreateUser(t.email, t.name, t.password)
             /\ Goto(r, [pc |-> "login.get", email |-> t.email, password |-> t.password])
          \/ /\ ~MayInsert(t.email, t.password)
             /\ Goto(r, Idle)
             /\ UNCHANGED users
    /\ UNCHANGED <<erased, sessions, codeVars>>

(* Login, by itself or at the end of another request. *)

\* The user found by email, if the password is the right one.
Authentic(e, p) == {i \in Holders(e) : users[i].password = p}

LoginStart(r, e, p) ==
    /\ accTask[r] = Idle
    /\ \E i \in Authentic(e, p) : Goto(r, [pc |-> "login.upsert", id |-> i])
    /\ UNCHANGED <<users, erased, sessions, codeVars>>

LoginGet(r) ==
    /\ At(r, "login.get")
    /\ LET found == Authentic(accTask[r].email, accTask[r].password)
       IN \/ \E i \in found : Goto(r, [pc |-> "login.upsert", id |-> i])
          \/ found = {} /\ Goto(r, Idle)
    /\ UNCHANGED <<users, erased, sessions, codeVars>>

LoginUpsert(r) ==
    /\ At(r, "login.upsert")
    /\ sessions' = sessions \union {accTask[r].id}
    /\ Goto(r, Idle)
    /\ UNCHANGED <<users, erased, codeVars>>

\* One statement; an access token needs no session and no account any more.
Logout(i) ==
    /\ i \in sessions
    /\ sessions' = sessions \ {i}
    /\ UNCHANGED <<users, erased, codeVars, accTask>>

(* ResetPassword, which ends in a login. *)

ResetGetCode(r, e, p) ==
    /\ accTask[r] = Idle
    /\ e \in resetCodes
    /\ Goto(r, [pc |-> "reset.void", email |-> e, password |-> p])
    /\ UNCHANGED <<users, erased, sessions, codeVars>>

\* Mutant: the code is left as it is.
ResetVoidNothing(r) ==
    /\ At(r, "reset.void")
    /\ Goto(r, [accTask[r] EXCEPT !.pc = "reset.get"])
    /\ UNCHANGED <<users, erased, sessions, codeVars>>

\* SetOTPResetPassword with the blank code: the key remains, the code does not.
ResetVoid(r) ==
    /\ At(r, "reset.void")
    /\ resetCodes' = resetCodes \ {accTask[r].email}
    /\ Goto(r, [accTask[r] EXCEPT !.pc = "reset.get"])
    /\ UNCHANGED <<users, erased, sessions, regCodes>>

ResetGetUser(r) ==
    /\ At(r, "reset.get")
    /\ LET found == Holders(accTask[r].email)
       IN \/ \E i \in found :
                Goto(r, [pc |-> "reset.write", id |-> i,
                         row |-> [users[i] EXCEPT !.password = accTask[r].password]])
          \/ found = {} /\ Goto(r, Idle)
    /\ UNCHANGED <<users, erased, sessions, codeVars>>

\* repository UpdateUser: every column of the private copy, deleted or not.
WriteRow(r) == users' = [users EXCEPT ![accTask[r].id] = accTask[r].row]

ResetWrite(r) ==
    /\ At(r, "reset.write")
    /\ LET row == accTask[r].row
       IN \/ /\ row.password \in Storable
             /\ WriteRow(r)
             /\ Goto(r, [pc |-> "login.get", email |-> row.email,
                         password |-> row.password])
          \/ /\ row.password \notin Storable
             /\ Goto(r, Idle)
             /\ UNCHANGED users
    /\ UNCHANGED <<erased, sessions, codeVars>>

(* The user service's own requests. *)

ProfileGet(r, i, n) ==
    /\ accTask[r] = Idle
    /\ users[i] # NoUser /\ i \notin erased
    /\ Goto(r, [pc |-> "profile.write", id |-> i, row |-> [users[i] EXCEPT !.name = n]])
    /\ UNCHANGED <<users, erased, sessions, codeVars>>

ProfileWrite(r) ==
    /\ At(r, "profile.write")
    /\ WriteRow(r)
    /\ Goto(r, Idle)
    /\ UNCHANGED <<erased, sessions, codeVars>>

\* CreateUser by an administrator: one statement and no code.
Appoint(e, n, p) ==
    /\ MayInsert(e, p)
    /\ CreateUser(e, n, p)
    /\ UNCHANGED <<erased, sessions, codeVars, accTask>>

\* DeleteUser by an administrator: the sessions and the codes stay.
Erase(i) ==
    /\ users[i] # NoUser /\ i \notin erased
    /\ erased' = erased \union {i}
    /\ UNCHANGED <<users, sessions, codeVars, accTask>>

AccFail(r) ==
    /\ accTask[r] # Idle
    /\ Goto(r, Idle)
    /\ UNCHANGED <<users, erased, sessions, codeVars>>

SignStart(r) == \E e \in Emails :
    \/ InviteGet(r, e)
    \/ \E p \in Passwords :
          \/ LoginStart(r, e, p)
          \/ \E n \in Names : RegisterGetCode(r, e, n, p)

RowStart(r) ==
    \/ \E e \in Emails :
          \/ OfferGet(r, e)
          \/ \E p \in Passwords : ResetGetCode(r, e, p)
    \/ \E i \in UserIDs, n \in Names : ProfileGet(r, i, n)

AccResume(r) ==
    \/ InviteSet(r) \/ OfferSet(r)
    \/ RegisterVoid(r) \/ RegisterInsert(r)
    \/ LoginGet(r) \/ LoginUpsert(r)
    \/ ResetVoid(r) \/ ResetGetUser(r) \/ ResetWrite(r)
    \/ ProfileWrite(r)
    \/ AccFail(r)

AccNext ==
    \/ \E r \in SignReqs : SignStart(r)
    \/ \E r \in RowReqs : RowStart(r)
    \/ \E r \in Slots : AccResume(r)
    \/ \E e \in Emails : Expire(e)
    \/ \E e \in Emails, n \in Names, p \in Passwords : Appoint(e, n, p)
    \/ \E i \in UserIDs : Logout(i) \/ Erase(i)

AccSpec == AccInit /\ [][AccNext]_accVars

-----------------------------------------------------------------------------
(* Properties *)

AccTypeOK ==
    /\ users \in [UserIDs -> User \union {NoUser}]
    /\ erased \union sessions \subseteq {i \in UserIDs : users[i] # NoUser}
    /\ regCodes \union resetCodes \subseteq Emails
    /\ accTask \in [Slots -> {Idle} \union CodeTask \union RegisterTask
                              \union PasswordTask \union LoginTask \union RowTask]

\* An email address has at most one account that is not deleted, although
\* whether it is free is asked several statements before the account is made
\* and rows are rewritten from copies taken before they were deleted.
OneAccountPerEmail == \A e \in Emails : Cardinality(Holders(e)) <= 1

None == [email |-> "none"]
Gone == [email |-> "gone"]

\* Emails whose code a reset in flight has already read and not yet used up.
Spending == {accTask[r].email : r \in {s \in Slots :
                 accTask[s].pc \in {"reset.void", "reset.get"}}}
       \union {accTask[r].row.email : r \in {s \in Slots : accTask[s].pc = "reset.write"}}

Spendable == resetCodes \union Spending

Plan == INSTANCE AccountPlan
          WITH accounts <- [i \in UserIDs |-> IF i \in erased THEN Gone
                              ELSE IF users[i] = NoUser THEN None ELSE users[i]],
               codes <- Spendable

\* With profile edits, reset codes and resets served one at a time, and all
\* other requests at once, accounts change as AccountPlan says: a password
\* only by a reset and never back by an edit of the profile, and no code is
\* good for two resets.  With two of the first kind at once neither is so: an
\* edit writes back the password it has read, and two resets may both find the
\* code before either spends it.
ImplementsPlan == Plan!Spec
=============================================================================
