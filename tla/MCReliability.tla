--------------------------- MODULE MCReliability ---------------------------
(* A small instance of Reliability for TLC. *)
EXTENDS Reliability, TLC

(* A clean record, and one close to a score of 0. *)
MCEarlier == {0, -92}

Symmetric ==
  Permutations(Users) \cup Permutations(Orders) \cup Permutations(Reqs)
=============================================================================
