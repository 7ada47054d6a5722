---------------------------- MODULE MCConflict ----------------------------
(* Values for TLC's instances of Conflict. *)
EXTENDS Conflict, TLC

OneDepartment  == <<"shop">>
TwoDepartments == <<"shop", "factories">>
Symmetry       == Permutations(Value) \cup Permutations(Worker)
=============================================================================
