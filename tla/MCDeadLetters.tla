--------------------------- MODULE MCDeadLetters ---------------------------
(* Symmetry for TLC's instances of DeadLetters. *)
EXTENDS DeadLetters, TLC

Symmetry == Permutations(Event) \cup Permutations(Steward)
=============================================================================
