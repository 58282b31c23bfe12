---------------------------- MODULE MCSessionStore ----------------------------
(* Instances of SessionStore for TLC, with the flag that calls take turns. *)
(* A TTL of 1 against a clock of 0..2 lets an entry be fresh, on the       *)
(* boundary and expired; limits -1, 1 and 2 and 3 ids let the store be     *)
(* unlimited, overfull by one and by two.                                  *)
EXTENDS SessionStoreInTurn

MCTTLs == {-1, 1}
MCLimits == {-1, 1}
NoChange == {}
CallerSymmetry == Permutations(Callers)
IdSymmetry == Permutations(Ids)
Symmetry == CallerSymmetry \cup IdSymmetry
===============================================================================
