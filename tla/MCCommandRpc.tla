---------------------------- MODULE MCCommandRpc ----------------------------
(***************************************************************************)
(* Instances of CommandRpc for TLC: model values for the requests and the  *)
(* connections of the device.                                              *)
(***************************************************************************)
EXTENDS CommandRpc, TLC

(* For runs without liveness properties only.                              *)
Symmetry == Permutations(Requests) \union Permutations(Clients)

=============================================================================
