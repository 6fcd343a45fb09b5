----------------------------- MODULE MCAdminApi -----------------------------
(***************************************************************************)
(* Instances of AdminApi for TLC.                                          *)
(***************************************************************************)
EXTENDS AdminApi, TLC

Symmetry == Permutations(Requests) \union Permutations(Services)

=============================================================================
