---------------------------- MODULE MCAlgorithms ----------------------------
(* Small inputs for Splitting and Matching, which TLC checks in one run: a *)
(* state is an input of one of them (the other's is empty), or its result. *)
EXTENDS Splitting, Matching

MCPrices == {1, 2, 7}
MCQuantities == {1, 3}
MCFees == {0, 1, 5, 10}
MCScoreLists == {<<>>, <<0>>, <<0, 50>>}

MCInit == \/ /\ Init
             /\ groups = <<>> /\ ranked = NoAnswer /\ heat = NoAnswer
             /\ request \in [hostel : Hostels, store : Stores]
          \/ /\ MatchInit
             /\ items = <<>> /\ fee = 0 /\ split = NoSplit

MCNext == \/ items # <<>> /\ Split /\ UNCHANGED matchVars
          \/ items = <<>> /\ Answer /\ UNCHANGED vars

MCSpec == MCInit /\ [][MCNext]_<<vars, matchVars>>

Symmetric == Permutations(Students) \cup Permutations(Hostels)
             \cup Permutations(Stores)
=============================================================================
