--------------------------- MODULE ConferencePlan ---------------------------
(***************************************************************************)
(* What the conference service promises its users, with every request one  *)
(* indivisible step: the rules its error messages state.  Conferences      *)
(* implements it when requests are served one at a time.                   *)
(***************************************************************************)
EXTENDS Naturals, TimeWindow

CONSTANTS ConfIDs, Users, Seeds

VARIABLES now, conferences, deleted

planVars == <<now, conferences, deleted>>

Row == [status : {"pending", "approved", "rejected"}, host : Users,
        seats : Nat \ {0}, starts : Nat, ends : Nat]

NoRow == [status |-> "absent"]

Live(c) == conferences[c] # NoRow /\ c \notin deleted

Approved == {c \in ConfIDs \ deleted : conferences[c].status = "approved"}

\* Nothing else is approved in the window w of conference c.
HallFree(c, w) == \A d \in Approved \ {c} : ~Overlaps(conferences[d], w)

Init == /\ now = 0
        /\ conferences \in Seeds
        /\ deleted = {}

Advance == /\ now' = now + 1
           /\ UNCHANGED <<conferences, deleted>>

\* A host without a pending conference ahead proposes one in a free window.
Propose(c) ==
    /\ conferences[c] = NoRow
    /\ LET row == conferences'[c]
       IN /\ row \in Row
          /\ row.status = "pending"
          /\ Ordered(row)
          /\ HallFree(c, row)
          /\ \A d \in ConfIDs : /\ Live(d)
                                /\ conferences[d].status = "pending"
                                /\ conferences[d].host = row.host
                                => conferences[d].ends <= now
          /\ conferences' = [conferences EXCEPT ![c] = row]
    /\ UNCHANGED <<now, deleted>>

\* A pending conference is moved to a free window, and nothing else changes.
Move(c) ==
    /\ Live(c)
    /\ conferences[c].status = "pending"
    /\ LET row == conferences'[c]
       IN /\ row \in Row
          /\ Ordered(row)
          /\ HallFree(c, row)
          /\ conferences' = [conferences EXCEPT ![c].starts = row.starts,
                                                ![c].ends = row.ends]
    /\ UNCHANGED <<now, deleted>>

\* A pending conference is decided on, once; approved only in a free window.
Decide(c, to) ==
    /\ Live(c)
    /\ conferences[c].status = "pending"
    /\ to = "approved" => HallFree(c, conferences[c])
    /\ conferences' = [conferences EXCEPT ![c].status = to]
    /\ UNCHANGED <<now, deleted>>

Cancel(c) ==
    /\ Live(c)
    /\ deleted' = deleted \union {c}
    /\ UNCHANGED <<now, conferences>>

Next == \/ Advance
        \/ \E c \in ConfIDs :
              \/ Propose(c)
              \/ Move(c)
              \/ \E to \in {"approved", "rejected"} : Decide(c, to)
              \/ Cancel(c)

Spec == Init /\ [][Next]_planVars
=============================================================================
