------------------------------- MODULE MCCalls -------------------------------
(* Instances of Calls. *)
EXTENDS Calls, TLC

CONSTANTS a1, a2, c1, c2, c3, s1, s2, s3

OneAccount == [c \in Call |-> a1]
TwoAccounts == [c \in Call |-> IF c = c3 THEN a2 ELSE a1]

(* The calls of one account, and the slots, are interchangeable. *)
Symmetry == Permutations(Call) \union Permutations(Slot)
=============================================================================
