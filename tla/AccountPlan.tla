---------------------------- MODULE AccountPlan ----------------------------
(***************************************************************************)
(* What the account services promise: an email address has at most one     *)
(* account at a time, a password changes only when a reset code for it is  *)
(* spent, each code is spent at most once, and editing a profile changes   *)
(* nothing else.                                                           *)
(***************************************************************************)
CONSTANTS UserIDs, Emails, None, Gone

VARIABLES
    accounts,     \* for each identifier a record, None before and Gone after
    codes         \* emails with a reset code that may still be spent

planVars == <<accounts, codes>>

Standing(i) == accounts[i] \notin {None, Gone}

Init == accounts = [i \in UserIDs |-> None] /\ codes = {}

Open(i) ==
    /\ accounts[i] = None
    /\ LET row == accounts'[i]
       IN /\ row.email \in Emails
          /\ \A j \in UserIDs : Standing(j) => accounts[j].email # row.email
          /\ accounts' = [accounts EXCEPT ![i] = row]
    /\ UNCHANGED codes

Close(i) ==
    /\ Standing(i)
    /\ accounts' = [accounts EXCEPT ![i] = Gone]
    /\ UNCHANGED codes

Rename(i) ==
    /\ Standing(i)
    /\ accounts' = [accounts EXCEPT ![i].name = accounts'[i].name]
    /\ UNCHANGED codes

Offer(e) == codes' = codes \union {e} /\ UNCHANGED accounts

\* A code runs out, or the request that spends it comes to nothing.
Void(e) == e \in codes /\ codes' = codes \ {e} /\ UNCHANGED accounts

Reset(i) ==
    /\ Standing(i)
    /\ accounts[i].email \in codes
    /\ accounts' = [accounts EXCEPT ![i].password = accounts'[i].password]
    /\ codes' = codes \ {accounts[i].email}

Next ==
    \/ \E i \in UserIDs : Open(i) \/ Close(i) \/ Rename(i) \/ Reset(i)
    \/ \E e \in Emails : Offer(e) \/ Void(e)

Spec == Init /\ [][Next]_planVars
=============================================================================
