------------------------------ MODULE SyncApi -------------------------------
(***************************************************************************)
(* The sync service (syncapi.go): it answers requests to tell the devices  *)
(* of a user that there is something to synchronise, collects them, one of *)
(* a kind, and pushes each through the push API when no request has come   *)
(* in for a while.  Nothing of it is persistent.                           *)
(***************************************************************************)
EXTENDS Naturals, Sequences, SequencesExt

CONSTANTS
  Keys,      \* kinds of messages: app, user, send id and registration id
  BoxCap,    \* capacity of msgBox (100)
  Interval   \* conf.Config.Sync.Interval, in ticks

ASSUME SyncAssumption == BoxCap \in Nat \ {0} /\ Interval \in Nat \ {0}

VARIABLES
  box,      \* msgBox
  waiting,  \* waitingMsgs
  collector, \* the goroutine that collects: in select, pushing, or gone
  timer,    \* ticks since it entered select
  batch,    \* keys of waitingMsgs it has still to push
  owed      \* keys with an answered request no push has been tried for since

syncVars == <<box, waiting, collector, timer, batch, owed>>

-----------------------------------------------------------------------------
SyncInit ==
  /\ box = <<>> /\ waiting = {} /\ batch = {} /\ owed = {}
  /\ collector = "select"
  /\ timer = 0

Running == collector # "gone"

-----------------------------------------------------------------------------
(* Wrong variants of definitions, each a mistake one could make in the     *)
(* code; none is part of the specification.                                *)

(* A request that fails is logged, and the message forgotten. *)
PushFailsLogged(k) ==
  /\ collector = "push" /\ k \in batch
  /\ batch' = batch \ {k}
  /\ UNCHANGED <<box, waiting, collector, timer, owed>>

(* The loop over waitingMsgs may end after its first push. *)
PushedFirst ==
  /\ collector = "push" /\ (batch # waiting \/ batch = {})
  /\ collector' = "select" /\ waiting' = {} /\ batch' = {} /\ timer' = 0
  /\ UNCHANGED <<box, owed>>

-----------------------------------------------------------------------------
(* addMessage: the send to msgBox, which waits for room, and the answer.   *)
Post(k) ==
  /\ Running
  /\ Len(box) < BoxCap
  /\ box' = Append(box, k)
  /\ owed' = owed \union {k}
  /\ UNCHANGED <<waiting, collector, timer, batch>>

(* A message comes out of msgBox; a select that begins again starts a new  *)
(* time.After.                                                             *)
ReceiveMsg ==
  /\ collector = "select" /\ box # <<>>
  /\ waiting' = waiting \union {Head(box)}
  /\ box' = Tail(box)
  /\ timer' = 0
  /\ UNCHANGED <<collector, batch, owed>>

SyncTick ==
  /\ collector = "select" /\ timer < Interval
  /\ timer' = timer + 1
  /\ UNCHANGED <<box, waiting, collector, batch, owed>>

(* The timer has fired.                                                    *)
TimerFires ==
  /\ collector = "select" /\ timer = Interval
  /\ collector' = "push"
  /\ batch' = waiting
  /\ UNCHANGED <<box, waiting, timer, owed>>

(* The push API answers, whatever it answers; then the next key has its    *)
(* turn.  The http.Client has no timeout, so nothing makes it answer.      *)
Push(k) ==
  /\ collector = "push" /\ k \in batch
  /\ batch' = batch \ {k}
  /\ owed' = owed \ {k}
  /\ UNCHANGED <<box, waiting, collector, timer>>

(* client.Do fails and returns no response: push panics on it, and the     *)
(* process ends.                                                           *)
PushFails(k) ==
  /\ collector = "push" /\ k \in batch
  /\ collector' = "gone"
  /\ UNCHANGED <<box, waiting, timer, batch, owed>>

PushedAll ==
  /\ collector = "push" /\ batch = {}
  /\ collector' = "select" /\ waiting' = {} /\ timer' = 0
  /\ UNCHANGED <<box, batch, owed>>

(* A signal has closed ctrl.                                               *)
StopSync ==
  /\ collector = "select"
  /\ collector' = "gone"
  /\ UNCHANGED <<box, waiting, timer, batch, owed>>

SyncNext ==
  \/ SyncTick \/ TimerFires \/ PushedAll \/ ReceiveMsg \/ StopSync
  \/ \E k \in Keys : Post(k) \/ Push(k) \/ PushFails(k)

SyncSpec == SyncInit /\ [][SyncNext]_syncVars

-----------------------------------------------------------------------------
(* Properties.                                                             *)

(* The variables have the values their declarations promise; the channel   *)
(* keeps its capacity.                                                     *)
SyncTypeOK ==
  /\ box \in Seq(Keys) /\ Len(box) <= BoxCap
  /\ waiting \subseteq Keys /\ batch \subseteq Keys /\ owed \subseteq Keys
  /\ collector \in {"select", "push", "gone"}
  /\ timer \in 0..Interval

(* An answered request is not lost as long as the process lives: not in    *)
(* the deduplication, and not when it comes in during a push of the same   *)
(* key, before or after that key's turn, although the map is then emptied  *)
(* as a whole.  (A failing push API ends the process.)                     *)
RequestsKept ==
  Running => owed \subseteq ToSet(box) \union
                              (IF collector = "select" THEN waiting ELSE batch)

(* The push API keeps the collector waiting.                               *)
Hanging == collector = "push" /\ batch # {}

(* The timer has not run out.                                              *)
Restarted == collector = "select" /\ timer < Interval

(* What was answered is pushed, unless the process ends, the push API      *)
(* leaves a request without an answer for ever, or requests keep coming    *)
(* and each starts the timer again before it runs out.                     *)
RequestsPushed ==
  \A k \in Keys :
    k \in owed ~> \/ k \notin owed
                 \/ ~Running
                 \/ []Hanging
                 \/ ([]Restarted /\ []<>(box # <<>>))

=============================================================================
