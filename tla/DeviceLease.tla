---------------------------- MODULE DeviceLease ----------------------------
(***************************************************************************)
(* What the comet servers promise about the sessions of a device: it is a  *)
(* lease.  At most one connection holds a device at a time, a connection   *)
(* holds at most one device, and a lease never passes from one connection  *)
(* to another without being free in between.  The end of a server process  *)
(* frees many leases at once.                                              *)
(***************************************************************************)
CONSTANTS Devices, Conns, None

VARIABLE holder  \* the connection that holds the device, or None

Init == holder = [d \in Devices |-> None]

(* createClient                                                            *)
Acquire(d, c) ==
  /\ holder[d] = None
  /\ \A e \in Devices : holder[e] # c
  /\ holder' = [holder EXCEPT ![d] = c]

(* closeClient                                                             *)
Release(d) ==
  /\ holder[d] # None
  /\ holder' = [holder EXCEPT ![d] = None]

(* a process ends: some sessions are gone                                  *)
Lose(D) ==
  /\ D # {}
  /\ holder' = [d \in Devices |-> IF d \in D THEN None ELSE holder[d]]

Next ==
  \/ \E d \in Devices, c \in Conns : Acquire(d, c)
  \/ \E d \in Devices : Release(d)
  \/ \E D \in SUBSET Devices : Lose(D)

Spec == Init /\ [][Next]_holder

=============================================================================
