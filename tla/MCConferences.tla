--------------------------- MODULE MCConferences ---------------------------
(***************************************************************************)
(* Small instances of Conferences for TLC.                                 *)
(***************************************************************************)
EXTENDS Conferences, TLC

CONSTANTS c1, c2, c3, u1, u2

Win(s, e) == [starts |-> s, ends |-> e]
Row(st, u, s, e) == [status |-> st, host |-> u, seats |-> 1,
                     starts |-> s, ends |-> e]

Empty == [c \in ConfIDs |-> NoRow]

\* Two windows that overlap and one whose end precedes its start.
MCWindows == {Win(0, 2), Win(1, 3), Win(2, 0)}

\* The window pending conferences may be moved to while desks decide.
DeskWindows == {Win(1, 3)}

\* Nothing yet, or an approved conference and a pending one after it.
MCSeeds == {Empty, (c1 :> Row("approved", u1, 0, 1) @@ c2 :> Row("pending", u2, 1, 3)) @@ Empty}

\* Three pending conferences that overlap pairwise; u1 proposed two at once.
CrowdedSeeds == {(c1 :> Row("pending", u1, 0, 2) @@ c2 :> Row("pending", u2, 1, 3)
                    @@ c3 :> Row("pending", u1, 1, 2)) @@ Empty}

\* Slots of one kind are interchangeable.
SlotSymmetry == Permutations(HostReqs) \union Permutations(DeskReqs)

OnePendingSeeds == {(c1 :> Row("pending", u1, 1, 2)) @@ Empty}
EmptySeeds == {Empty}
=============================================================================
