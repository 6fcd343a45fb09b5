--------------------------- MODULE RemoteCommand ---------------------------
(***************************************************************************)
(* What the API promises of the commands it passes to devices: a device    *)
(* gets a command at most once.  Each call returns once, with the answer   *)
(* of the device to this command, with the word that it was refused, and   *)
(* then the device did not get the command and never will, or with the     *)
(* word that there was no answer in time, which leaves open what becomes   *)
(* of it: the device may have carried out the command, or will yet.        *)
(***************************************************************************)
EXTENDS Naturals

CONSTANTS
  Commands,  \* each stands for its answer as well
  Refusals,  \* results of which the device knows nothing
  Timeouts,  \* results that leave it open
  Nothing    \* no result yet

VARIABLES
  got,    \* how often the device got each command
  result  \* of each call

Init ==
  /\ got = [r \in Commands |-> 0]
  /\ result = [r \in Commands |-> Nothing]

(* The device gets the command, maybe after the call has given up.         *)
Get(r) ==
  /\ got[r] = 0 /\ result[r] \notin Refusals
  /\ got' = [got EXCEPT ![r] = 1]
  /\ UNCHANGED result

(* What a call may return.                                                 *)
Outcomes(r) == Timeouts \union (IF got[r] = 0 THEN Refusals ELSE {r})

Return(r) ==
  /\ result[r] = Nothing
  /\ \E x \in Outcomes(r) : result' = [result EXCEPT ![r] = x]
  /\ UNCHANGED got

Next == \E r \in Commands : Get(r) \/ Return(r)

Spec == Init /\ [][Next]_<<got, result>>

=============================================================================
