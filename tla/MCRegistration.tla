--------------------------- MODULE MCRegistration ---------------------------
(***************************************************************************)
(* Instances of Registration for TLC: model values for registration ids,   *)
(* topics, send ids and workers.                                           *)
(***************************************************************************)
EXTENDS Registration, TLC

WorkerSymmetry == Permutations(Workers)

Symmetry == WorkerSymmetry \union Permutations(Topics)

=============================================================================
