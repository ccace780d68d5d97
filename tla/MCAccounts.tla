---------------------------- MODULE MCAccounts ----------------------------
(***************************************************************************)
(* A small instance of Accounts for TLC.                                   *)
(***************************************************************************)
EXTENDS Accounts, TLC

CONSTANTS n1, n2, p1, p2, long

\* Nothing tells two identifiers, two slots of a kind, two names, or two
\* passwords that fit apart.
AccountSymmetry == Permutations(UserIDs) \union Permutations(SignReqs)
                     \union Permutations(Names) \union Permutations(Storable)
=============================================================================
