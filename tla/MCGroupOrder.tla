---------------------------- MODULE MCGroupOrder ----------------------------
(* Small instances of GroupOrder for TLC. *)
EXTENDS GroupOrderProperties, TLC

MCOrdering == {"create", "join", "claim"}
MCSettling == MCOrdering \cup {"pay", "confirm", "complete"}
MCAdverse == {"create", "join", "claim", "pay", "dispute", "resolve"}
MCEveryMember == MCSettling \cup {"dispute"}

Symmetric == Permutations(Users) \cup Permutations(Reqs)
=============================================================================
