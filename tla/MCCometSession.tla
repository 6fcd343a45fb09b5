--------------------------- MODULE MCCometSession ---------------------------
(***************************************************************************)
(* Instances of CometSession for TLC: model values for the servers, the    *)
(* devices and the connections.                                            *)
(***************************************************************************)
EXTENDS CometSession, TLC

(* Connections, servers and devices are interchangeable; used in runs      *)
(* without liveness properties only.                                       *)
Symmetry ==
  Permutations(Conns) \union Permutations(Servers) \union Permutations(Devices)

=============================================================================
