----------------------------- MODULE MCServices -----------------------------
(***************************************************************************)
(* The small services around the push API, for TLC: the list of comet      *)
(* servers it keeps for devices, the sync service, and a request to the    *)
(* notify service.  They share nothing, so a behaviour shows one of them.  *)
(***************************************************************************)
EXTENDS ZkWatcher, SyncApi, NotifyApi

VARIABLE service  \* the one this behaviour shows

vars == <<zkVars, syncVars, notifyVars, service>>

Init ==
  /\ ZkInit /\ SyncInit /\ NotifyInit
  /\ service \in {"zk", "sync", "notify"}
  /\ service # "zk" => children = {}

Shown(s) == service = s /\ UNCHANGED service

(* The others do nothing. *)
Zk(Step)     == Shown("zk") /\ Step /\ UNCHANGED <<syncVars, notifyVars>>
Sync(Step)   == Shown("sync") /\ Step /\ UNCHANGED <<zkVars, notifyVars>>
Notify(Step) == Shown("notify") /\ Step /\ UNCHANGED <<zkVars, syncVars>>

Next == Zk(ZkNext) \/ Sync(SyncNext) \/ Notify(NotifyNext)

(* The goroutines run, time passes, and ZooKeeper delivers the events of   *)
(* watches; a select with a message and a timer that has run out does not  *)
(* choose the same one for ever.  Nothing makes the push API answer the    *)
(* sync service, and nothing makes a goroutine of a notice go on: both     *)
(* wait for services without a timeout.                                    *)
Fairness ==
  /\ WF_vars(Zk(WatcherStep)) /\ WF_vars(Zk(HandlerStep))
  /\ WF_vars(Sync(SyncTick)) /\ WF_vars(Sync(PushedAll))
  /\ SF_vars(Sync(TimerFires)) /\ SF_vars(Sync(ReceiveMsg))
  /\ WF_vars(Notify(NotifyWork))

FairSpec == Init /\ [][Next]_vars /\ Fairness

=============================================================================
