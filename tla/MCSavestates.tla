---------------------------- MODULE MCSavestates ----------------------------
(***************************************************************************)
(* Model-checking instances of Savestates.                                 *)
(***************************************************************************)
EXTENDS Savestates, TLC

Symmetry == Permutations(Clients) \cup Permutations(Paths)

=============================================================================
