---------------------------- MODULE MCHumanInputs ----------------------------
(* HumanInputs on a small instance: slots and players are interchangeable.   *)
EXTENDS HumanInputs, TLC

Symmetry == Permutations(Slots) \union Permutations(Players)
=============================================================================
