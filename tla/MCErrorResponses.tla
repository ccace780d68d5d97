-------------------------- MODULE MCErrorResponses --------------------------
(***************************************************************************)
(* A small instance of ErrorResponses for TLC.                             *)
(***************************************************************************)
EXTENDS ErrorResponses, TLC

\* Requests are only ever compared with one another.
RequestSymmetry == Permutations(Requests)
=============================================================================
