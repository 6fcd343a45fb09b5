---------------------------- MODULE MCConnection ----------------------------
(***************************************************************************)
(* Instances of Connection for TLC: one device sends up to two messages,   *)
(* among them heartbeats, empty ones, unknown ones and too big ones, while *)
(* the others are silent.                                                  *)
(***************************************************************************)
EXTENDS Connection, TLC

Messages ==
  {Message(0, 0), Message(1, 0), Message(1, 1), Message(4, 2), Message(4, 3), Message(9, 1)}

MCPlans ==
  {[o \in Conns |-> IF o = c THEN ms ELSE <<>>] : c \in Conns, ms \in SeqOf(Messages, 2)}

Symmetry == Permutations(Conns)

=============================================================================
