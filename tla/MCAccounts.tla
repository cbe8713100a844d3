------------------------------ MODULE MCAccounts ------------------------------
(* Instances of Accounts. *)
EXTENDS Accounts, TLC

(* Names, objects and the threads of the server are interchangeable. *)
Symmetry == Permutations(Name) \union Permutations(Obj) \union Permutations(Http)
=============================================================================
