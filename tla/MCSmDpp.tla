------------------------------- MODULE MCSmDpp -------------------------------
(***************************************************************************)
(* Small instances of SmDpp for TLC.                                       *)
(***************************************************************************)
EXTENDS SmDpp, TLC

\* eUICCs are told apart only by being different, and so are signatures.
Symmetry == Permutations(Euiccs) \cup Permutations(Sigs)

=============================================================================
