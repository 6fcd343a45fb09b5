--------------------------- MODULE MCPushTargets ---------------------------
(***************************************************************************)
(* Instances of PushTargets for TLC: two devices, of whose registrations   *)
(* one may have a user, topics and a send id, and messages of every type.  *)
(* Devices share nothing, so one is enough to meet every step of the push  *)
(* with every step of a device: the other one stays as it is once there is *)
(* a message.                                                              *)
(***************************************************************************)
EXTENDS PushTargets

Profile(user, topics, ids) == [user |-> user, topics |-> topics, ids |-> ids]

(* One of the two devices, whichever. *)
SomeDevice == CHOOSE d \in Devices : TRUE

MCProfiles ==
  LET plain == Profile(None, {}, {})
      full  == Profile("u1", {"t1"}, {"i1"})
      other == Profile("u2", {"t1", "t2"}, {})
      Pair(p, q) == [d \in Devices |-> IF d = SomeDevice THEN p ELSE q]
  IN {Pair(full, other), Pair(other, plain)}

Msg(type, to, op, sendid, ttl) ==
  [type |-> type, to |-> to, op |-> op, sendid |-> sendid, ttl |-> ttl]

MCMessages ==
  {Msg("all", {}, "or", "i1", 1), Msg("user", {"u1", "u2"}, "or", None, 1),
   Msg("alias", {}, "or", None, 1), Msg("regid", {SomeDevice}, "or", None, 1),
   Msg("devid", Devices, "or", None, 0),
   Msg("group", {SomeDevice}, "or", None, 1), Msg("group", Devices, "or", None, 1)}
    \union {Msg("topic", <<"t1", "t2">>, op, None, 1) : op \in {"and", "or", "except"}}

Others == Devices \ {SomeDevice}
AtRest(d) == conn[d] \in {"none", "up"}

(* The other device steps in the first second, while this one rests, and   *)
(* rests when the message comes.                                           *)
MCNext ==
  /\ Next
  /\ msg # None \/ clock > 0 => \A d \in Others : conn'[d] = conn[d]
  /\ msg' # None => \A d \in Others : AtRest(d)
  /\ (\E d \in Others : ~AtRest(d)') => AtRest(SomeDevice)'

MCSpec == Init /\ [][MCNext]_vars /\ WF_vars(ConsumerStep)

=============================================================================
