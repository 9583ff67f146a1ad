----------------------------- MODULE MCPollers -----------------------------
(* Instances of Pollers for TLC.  Nothing tells apart the issues, the      *)
(* comments, or the messages that match the query.                         *)
EXTENDS Pollers, TLC

\* A cfg has no negative numbers.
WestOfUTC == -1

Symmetry ==
  Permutations(Issues) \cup Permutations(Comments) \cup Permutations(Queried)
=============================================================================
