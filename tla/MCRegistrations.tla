-------------------------- MODULE MCRegistrations --------------------------
(***************************************************************************)
(* Small instances of Registrations for TLC.                               *)
(***************************************************************************)
EXTENDS Registrations, TLC

CONSTANTS c1, c2, u1, u2, u3, u4

Win(s, e) == [starts |-> s, ends |-> e]
Row(st, n, s, e) == [status |-> st, host |-> u1, seats |-> n,
                     starts |-> s, ends |-> e]
Empty == [c \in ConfIDs |-> NoRow]

\* A window that begins when the first one of the seeds ends.
MCWindows == {Win(1, 2)}

\* Nothing yet; or an approved conference with one seat and a pending one that
\* overlaps it, until it is moved behind it and may be approved as well.
MCSeeds == {Empty, c1 :> Row("approved", 1, 0, 1) @@ c2 :> Row("pending", 1, 0, 2)}

\* An approved conference with one seat.
OneSeatSeeds == {(c1 :> Row("approved", 1, 0, 2)) @@ Empty}

\* Two approved conferences, the second starting when the first one ends.
BackToBackSeeds == {c1 :> Row("approved", 2, 0, 1) @@ c2 :> Row("approved", 2, 1, 2)}

\* Everybody but the host of the seeds is interchangeable, and so are slots.
GuestSymmetry == Permutations(Users \ {u1}) \union Permutations(RegReqs)
=============================================================================
