--------------------------- MODULE MCPushPipeline ---------------------------
(***************************************************************************)
(* Instances of PushPipeline for TLC.                                      *)
(***************************************************************************)
EXTENDS PushPipeline, TLC

Symmetry == Permutations(Workers)

=============================================================================
