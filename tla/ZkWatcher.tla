----------------------------- MODULE ZkWatcher ------------------------------
(***************************************************************************)
(* How the API knows the comet servers: each server creates an ephemeral   *)
(* sequential node in ZooKeeper (zk.go), the API watches their parent and  *)
(* keeps a map from nodes to addresses (watcher.go), which GET             *)
(* /api/v1/server hands to the devices.  A goroutine watches and compares, *)
(* another one carries out what the first one found.                       *)
(*                                                                         *)
(* The name of a node is never used twice; a server whose ZooKeeper        *)
(* session has expired does not register again.                            *)
(***************************************************************************)
EXTENDS Naturals, Sequences, SequencesExt, FiniteSets

CONSTANTS
  Nodes,      \* the nodes of all servers there ever are
  ChCap,      \* capacity of the channel between the goroutines (1024)
  MaxFaults,  \* bound on failed ZooKeeper calls
  None        \* no node; the address of a node that could not be read

ASSUME NodesAssumption == IsFiniteSet(Nodes) /\ None \notin Nodes
ASSUME BoundAssumption == ChCap \in Nat \ {0} /\ MaxFaults \in Nat

VARIABLES
  children,  \* the nodes in ZooKeeper
  created,   \* the nodes created so far
  watch,     \* the watch on the parent: none, set, or fired
  watcher,   \* the goroutine watchCometRoot
  ch,        \* the channel of events
  handler,   \* the goroutine handleCometNodeEvent
  infoMap,   \* cometNodeInfoMap: node -> address
  missed,    \* ZooKeeper has changed unseen: see Change, OtherEvent, FindDeleted
  faults     \* failed calls so far

zookeeper == <<children, created, watch>>
zkVars == <<zookeeper, watcher, ch, handler, infoMap, missed, faults>>

-----------------------------------------------------------------------------
Event(kind, n) == [kind |-> kind, node |-> n]

(* watchCometRoot sets the watch (watch), waits for it to fire (wait), and *)
(* reads the children (read).  Those not compared yet are todo, those that *)
(* were are seen (compare); gone are those to be deleted (delete).  With   *)
(* the channel of a failed ChildrenW it waits for ever (stuck).            *)
Watcher(pc, todo, seen, gone) ==
  [pc |-> pc, todo |-> todo, seen |-> seen, gone |-> gone]

(* handleCometNodeEvent has received an event (get), has read the address  *)
(* of the node (put).                                                      *)
HandlerIdle == [pc |-> "idle", node |-> None, addr |-> None]

(* The addresses GetComet returns; that of a node is named like the node.  *)
GetComet == {infoMap[n] : n \in DOMAIN infoMap}

(* InitWatcher: initCometNodeInfo is about to read the children.  With more *)
(* of them than the channel takes it would never return.                   *)
MayInit(nodes) == Cardinality(nodes) <= ChCap

ZkInit ==
  /\ children \in {nodes \in SUBSET Nodes : MayInit(nodes)}
  /\ created = children
  /\ watch = "none"
  /\ watcher = Watcher("init", {}, {}, {})
  /\ ch = <<>>
  /\ handler = HandlerIdle
  /\ infoMap = <<>>
  /\ missed = FALSE
  /\ faults = 0

Fault == faults < MaxFaults /\ faults' = faults + 1

-----------------------------------------------------------------------------
(* Wrong variants of definitions, each a mistake one could make in the     *)
(* code; none is part of the specification.                                *)

(* nodesMap gets only the nodes that are new. *)
CompareNewOnly(n) ==
  /\ watcher.pc = "compare" /\ n \in watcher.todo
  /\ n \in DOMAIN infoMap \/ Len(ch) < ChCap
  /\ ch' = IF n \in DOMAIN infoMap THEN ch ELSE Append(ch, Event("add", n))
  /\ watcher' = [watcher EXCEPT !.todo = @ \ {n},
                   !.seen = IF n \in DOMAIN infoMap THEN @ ELSE @ \union {n}]
  /\ UNCHANGED <<zookeeper, handler, infoMap, missed, faults>>

(* An event is handled without setting the watch again. *)
DeletedAllNoWatch ==
  /\ watcher.pc = "delete" /\ watcher.gone = {}
  /\ watcher' = Watcher("wait", {}, {}, {})
  /\ UNCHANGED <<zookeeper, ch, handler, infoMap, missed, faults>>

-----------------------------------------------------------------------------
(* ZooKeeper.                                                              *)

(* A change fires the watch.  It goes unseen if the children have been     *)
(* read and the next watch is not set yet.                                 *)
Change ==
  /\ watch' = IF watch = "set" THEN "fired" ELSE watch
  /\ missed' = (missed \/ watcher.pc \in {"compare", "delete", "watch"})
  /\ UNCHANGED <<watcher, ch, handler, infoMap, faults>>

(* A comet server starts and registers.                                    *)
Register(n) ==
  /\ n \notin created
  /\ created' = created \union {n}
  /\ children' = children \union {n}
  /\ watcher.pc = "init" => MayInit(children')
  /\ Change

(* The session of a server ends, with the server or without it.            *)
Expire(n) ==
  /\ n \in children
  /\ children' = children \ {n}
  /\ UNCHANGED created
  /\ Change

-----------------------------------------------------------------------------
(* watchCometRoot, and initCometNodeInfo before it.                        *)

(* initCometNodeInfo reads the children; every one becomes an event before *)
(* the goroutines start.                                                   *)
ReadInitial ==
  /\ watcher.pc = "init"
  /\ watcher' = Watcher("watch", {}, {}, {})
  /\ \/ /\ \E s \in SetToSeqs(children) : ch' = [i \in DOMAIN s |-> Event("add", s[i])]
        /\ UNCHANGED faults
     \/ Fault /\ UNCHANGED ch
  /\ UNCHANGED <<zookeeper, handler, infoMap, missed>>

(* ChildrenW; the children it returns are not looked at.                   *)
SetWatch ==
  /\ watcher.pc = "watch"
  /\ watch' = "set"
  /\ watcher' = Watcher("wait", {}, {}, {})
  /\ UNCHANGED <<children, created, ch, handler, infoMap, missed, faults>>

(* It fails, and the channel it returns is nil.                            *)
SetWatchFails ==
  /\ watcher.pc = "watch" /\ Fault
  /\ watcher' = Watcher("stuck", {}, {}, {})
  /\ UNCHANGED <<zookeeper, ch, handler, infoMap, missed>>

(* The event arrives; its type says that the children have changed.        *)
WatchFires ==
  /\ watcher.pc = "wait" /\ watch = "fired"
  /\ watch' = "none"
  /\ watcher' = Watcher("read", {}, {}, {})
  /\ UNCHANGED <<children, created, ch, handler, infoMap, missed, faults>>

(* An event of another type arrives: the parent was deleted, or the        *)
(* session of the API is over and with it the watch, perhaps before the    *)
(* news that the children have changed.  The children are not read.        *)
OtherEvent ==
  /\ watcher.pc = "wait" /\ watch \in {"set", "fired"}
  /\ watch' = "none"
  /\ watcher' = Watcher("watch", {}, {}, {})
  /\ missed' = (missed \/ watch = "fired")
  /\ UNCHANGED <<children, created, ch, handler, infoMap, faults>>

(* Children; if it fails, there seem to be none.                           *)
ReadChildren ==
  /\ watcher.pc = "read"
  /\ missed' = FALSE
  /\ \/ watcher' = Watcher("compare", children, {}, {}) /\ UNCHANGED faults
     \/ watcher' = Watcher("compare", {}, {}, {}) /\ Fault
  /\ UNCHANGED <<zookeeper, ch, handler, infoMap>>

(* A child that is not in the map becomes an event.                        *)
Compare(n) ==
  /\ watcher.pc = "compare" /\ n \in watcher.todo
  /\ n \in DOMAIN infoMap \/ Len(ch) < ChCap
  /\ ch' = IF n \in DOMAIN infoMap THEN ch ELSE Append(ch, Event("add", n))
  /\ watcher' = [watcher EXCEPT !.todo = @ \ {n}, !.seen = @ \union {n}]
  /\ UNCHANGED <<zookeeper, handler, infoMap, missed, faults>>

(* The range over the map, for those that are no children any more.  A     *)
(* node whose addition is still under way is overlooked.                   *)
FindDeleted ==
  LET Pending(n) == \/ handler.node = n
                    \/ \E i \in DOMAIN ch : ch[i] = Event("add", n)
  IN /\ watcher.pc = "compare" /\ watcher.todo = {}
     /\ watcher' = Watcher("delete", {}, {}, DOMAIN infoMap \ watcher.seen)
     /\ missed' = (missed \/ \E n \in Nodes \ (watcher.seen \union DOMAIN infoMap) :
                               Pending(n))
     /\ UNCHANGED <<zookeeper, ch, handler, infoMap, faults>>

SendDelete(n) ==
  /\ watcher.pc = "delete" /\ n \in watcher.gone
  /\ Len(ch) < ChCap
  /\ ch' = Append(ch, Event("del", n))
  /\ watcher' = [watcher EXCEPT !.gone = @ \ {n}]
  /\ UNCHANGED <<zookeeper, handler, infoMap, missed, faults>>

DeletedAll ==
  /\ watcher.pc = "delete" /\ watcher.gone = {}
  /\ watcher' = Watcher("watch", {}, {}, {})
  /\ UNCHANGED <<zookeeper, ch, handler, infoMap, missed, faults>>

-----------------------------------------------------------------------------
(* handleCometNodeEvent.                                                   *)

HandleDelete ==
  /\ handler.pc = "idle" /\ ch # <<>> /\ Head(ch).kind = "del"
  /\ ch' = Tail(ch)
  /\ infoMap' = [n \in DOMAIN infoMap \ {Head(ch).node} |-> infoMap[n]]
  /\ UNCHANGED <<zookeeper, watcher, handler, missed, faults>>

ReceiveAdd ==
  /\ handler.pc = "idle" /\ ch # <<>> /\ Head(ch).kind = "add"
  /\ ch' = Tail(ch)
  /\ handler' = [HandlerIdle EXCEPT !.pc = "get", !.node = Head(ch).node]
  /\ UNCHANGED <<zookeeper, watcher, infoMap, missed, faults>>

(* Get; if it fails the address is empty.                                  *)
GetAddr ==
  /\ handler.pc = "get"
  /\ \/ /\ handler' = [handler EXCEPT !.pc = "put",
                         !.addr = IF handler.node \in children THEN handler.node
                                  ELSE None]
        /\ UNCHANGED faults
     \/ handler' = [handler EXCEPT !.pc = "put"] /\ Fault
  /\ UNCHANGED <<zookeeper, watcher, ch, infoMap, missed>>

(* The copy of the map with the new entry takes the place of the map.      *)
PutNode ==
  /\ handler.pc = "put"
  /\ infoMap' = [n \in DOMAIN infoMap \union {handler.node} |->
                   IF n = handler.node THEN handler.addr ELSE infoMap[n]]
  /\ handler' = HandlerIdle
  /\ UNCHANGED <<zookeeper, watcher, ch, missed, faults>>

-----------------------------------------------------------------------------
ZooKeeperStep == \E n \in Nodes : Register(n) \/ Expire(n)

WatcherStep ==
  \/ ReadInitial \/ SetWatch \/ SetWatchFails \/ WatchFires \/ ReadChildren
  \/ (\E n \in Nodes : Compare(n) \/ SendDelete(n))
  \/ FindDeleted \/ DeletedAll

HandlerStep == HandleDelete \/ ReceiveAdd \/ GetAddr \/ PutNode

ZkNext == ZooKeeperStep \/ OtherEvent \/ WatcherStep \/ HandlerStep

ZkSpec == ZkInit /\ [][ZkNext]_zkVars

-----------------------------------------------------------------------------
(* Properties.                                                             *)

(* The variables have the values their declarations promise.               *)
ZkTypeOK ==
  /\ children \subseteq created /\ created \subseteq Nodes
  /\ watch \in {"none", "set", "fired"}
  /\ watcher \in [pc : {"init", "watch", "wait", "stuck", "read", "compare",
                        "delete"},
                  todo : SUBSET Nodes, seen : SUBSET Nodes, gone : SUBSET Nodes]
  /\ ch \in Seq([kind : {"add", "del"}, node : Nodes]) /\ Len(ch) <= ChCap
  /\ handler \in [pc : {"idle", "get", "put"}, node : Nodes \union {None},
                  addr : Nodes \union {None}]
  /\ DOMAIN infoMap \subseteq Nodes
  /\ \A n \in DOMAIN infoMap : infoMap[n] \in {n, None}
  /\ missed \in BOOLEAN
  /\ faults \in 0..MaxFaults

(* No call of ZooKeeper has failed: then an event to delete a node is only *)
(* under way for a node that is gone, and a living node is in the list     *)
(* with its address.  Devices are never kept from a living server that was *)
(* known before.                                                           *)
LivingStay ==
  faults = 0 =>
    /\ watcher.gone \intersect children = {}
    /\ \A i \in DOMAIN ch : ch[i].kind = "del" => ch[i].node \notin children
    /\ \A n \in DOMAIN infoMap \intersect children : infoMap[n] = n

(* The list catches up with ZooKeeper, unless a call failed or the last    *)
(* change went unseen, which it can in three ways: in the gap between      *)
(* Children and the next ChildrenW, because an event of another type came  *)
(* instead of the one that tells of it, or because it undid an addition    *)
(* that was still under way.                                               *)
CatchesUp == <>[](GetComet = children \/ missed \/ faults > 0)

=============================================================================
