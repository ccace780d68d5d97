---------------------------- MODULE MCFeedbacks ----------------------------
(***************************************************************************)
(* A small instance for TLC of the three services that share the           *)
(* conferences: Feedbacks, and with it Registrations and Conferences.      *)
(***************************************************************************)
EXTENDS Feedbacks, TLC

CONSTANTS c1, c2, u1, u2, u3

Row(st, s, e) == [status |-> st, host |-> u1, seats |-> 1, starts |-> s, ends |-> e]

\* The window the pending conference may be moved to.
MCWindows == {[starts |-> 1, ends |-> 3]}

\* An approved conference with one seat, and a pending one that overlaps it.
\* Both identifiers are taken, so that proposals would come to nothing.
MCSeeds == {c1 :> Row("approved", 0, 2) @@ c2 :> Row("pending", 1, 3)}

\* Everybody but the host is interchangeable, and so are slots and identifiers.
AttendeeSymmetry == Permutations(Users \ {u1}) \union Permutations(RegReqs)
                      \union Permutations(FbReqs) \union Permutations(FeedbackIDs)
=============================================================================
