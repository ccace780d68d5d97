----------------------------- MODULE TimeWindow -----------------------------
(***************************************************************************)
(* Time windows and the two SQL predicates that compare them.  A window is *)
(* any record with the fields starts and ends; time is a natural number.   *)
(*                                                                         *)
(* The program has two notions of "at the same time".  Conferences are     *)
(* compared with strict inequalities (half-open windows), registrations    *)
(* with three BETWEENs, which include both ends (closed windows).          *)
(***************************************************************************)
EXTENDS Naturals

\* The handler never checks the order; the service refuses EndsAt before StartsAt.
Ordered(w) == w.starts <= w.ends

\* GetConferencesConflictingWithTime: c.starts_at < endsAt AND c.ends_at > startsAt
Overlaps(c, w) == c.starts < w.ends /\ c.ends > w.starts

\* x BETWEEN lo AND hi
Between(x, lo, hi) == lo <= x /\ x <= hi

\* GetConflictingRegistrations: c is the conference already registered to,
\* w the window of the one being registered to.
Clashes(c, w) == \/ Between(w.starts, c.starts, c.ends)
                 \/ Between(w.ends, c.starts, c.ends)
                 \/ Between(c.starts, w.starts, w.ends)

\* The hall is in use by w during the unit of time [t, t + 1).
Occupies(w, t) == w.starts <= t /\ t < w.ends
=============================================================================
