-------------------------------- MODULE Lists --------------------------------
(* What the backend's pure functions do with arrays.                       *)
EXTENDS Integers, Sequences, FiniteSets, SequencesExt

(* numbers.reduce((a, b) => a + b, 0) *)
SumOf(list) == FoldLeft(LAMBDA sum, x : sum + x, 0, list)
=============================================================================
