----------------------------- MODULE MCListings -----------------------------
(***************************************************************************)
(* A small instance of Listings for TLC.                                   *)
(***************************************************************************)
EXTENDS Listings

\* More records than two pages hold, so that a walk has a middle.
MCIDs == 1..4

\* Two starts are enough for ties, and for moves to and fro.
MCTimes == 1..2
=============================================================================
