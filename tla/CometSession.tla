---------------------------- MODULE CometSession ----------------------------
(***************************************************************************)
(* The life of a device session across the comet servers (pushd): the      *)
(* connection goroutine from the accepted INIT message to closeClient, the *)
(* per-process DevicesMap, and the registry in Redis by which the servers  *)
(* find out where a device is connected.                                   *)
(*                                                                         *)
(* Redis holds a set  comet_nodes  of server names and, per server, a hash *)
(* comet:<name>  of device ids.  The hash has a time to live that only the *)
(* server itself renews.  A hash whose last field is deleted is no key any *)
(* more, so its time to live goes with it; a hash created by HSET has none *)
(* until the next EXPIRE.                                                  *)
(*                                                                         *)
(* One tick of the model is NODE_REFRESH_INTERVAL (30 s).                  *)
(***************************************************************************)
EXTENDS Integers, FiniteSets

CONSTANTS
  Servers,      \* comet servers, named by their IP
  Devices,      \* device ids
  Conns,        \* TCP connections that may exist at one time
  WaitLimit,    \* how often waitInit waits for an old session (5)
  ExpireTicks,  \* NODE_EXPIRE_TIMEOUT / NODE_REFRESH_INTERVAL (2)
  MaxOverlaps,  \* bound on the connections a device opens while waitInit
                \* still handles an earlier one of the same device
  MaxFaults,    \* bound on the Redis commands that go wrong
  MaxExits,     \* bound on the exits of server processes
  None          \* "no connection", "no server", "no device"

ASSUME NoneAssumption == None \notin Servers \union Devices \union Conns
ASSUME WaitAssumption == WaitLimit \in Nat
ASSUME ExpireAssumption == ExpireTicks \in Nat /\ ExpireTicks >= 2
ASSUME BoundAssumption ==
  MaxOverlaps \in Nat /\ MaxFaults \in Nat /\ MaxExits \in Nat

VARIABLES
  status,      \* the process: down, in Server.Init, or in Server.Run
  cometNodes,  \* Redis set comet_nodes
  registry,    \* Redis hash comet:<server>: the device ids in it
  ttl,         \* its time to live in ticks; 0: it does not expire
  due,         \* the refresh routine is about to send its EXPIRE
  devicesMap,  \* DevicesMap of the process
  conn,        \* the connection goroutines
  overlaps,    \* overlapping connections so far
  faults,      \* Redis commands gone wrong so far
  exits        \* exits of server processes so far

redis  == <<cometNodes, registry, ttl>>
bounds == <<overlaps, faults, exits>>
vars   == <<status, redis, due, devicesMap, conn, bounds>>

-----------------------------------------------------------------------------
(* Where a connection goroutine stands:                                    *)
(*   wait    in the loop of waitInit that waits for the old session        *)
(*   names   about to read comet_nodes in CheckDevice                      *)
(*   check   asking the servers read there, one HEXISTS at a time          *)
(*   set     device added to the registry, not yet in DevicesMap           *)
(*   loop    in DevicesMap: the rest of waitInit, then the read loop       *)
(*   delete  in closeClient before DevicesMap.Delete                       *)
(*   remove  in closeClient before the HDEL                                *)
InitPhases == {"wait", "names", "check", "set"}
HeldPhases == {"set", "loop", "delete", "remove"}
Phases     == {"idle"} \union InitPhases \union HeldPhases

NoConn == [pc |-> "idle", srv |-> None, dev |-> None, closed |-> FALSE,
           waitcnt |-> 0, names |-> {}]

ConnType == [pc : Phases, srv : Servers \union {None},
             dev : Devices \union {None}, closed : BOOLEAN,
             waitcnt : 0..WaitLimit, names : SUBSET Servers]

(* Connection c is past the HSET of AddDevice and has not finished its     *)
(* HDEL: it stands for a session of device d.                              *)
Holds(c, d) == conn[c].pc \in HeldPhases /\ conn[c].dev = d

Initialising(d) == \E c \in Conns : conn[c].pc \in InitPhases /\ conn[c].dev = d

(* The entry of a connection's device in the DevicesMap of its server.     *)
MapEntry(c) == devicesMap[conn[c].srv][conn[c].dev]

(* The time to live that goes with contents D of a hash: a hash without    *)
(* fields is no key.                                                       *)
TtlOf(D, t) == IF D = {} THEN 0 ELSE t

EmptyMap == [d \in Devices |-> None]

Init ==
  /\ status = [s \in Servers |-> "down"]
  /\ cometNodes = {}
  /\ registry = [s \in Servers |-> {}]
  /\ ttl = [s \in Servers |-> 0]
  /\ due = [s \in Servers |-> FALSE]
  /\ devicesMap = [s \in Servers |-> EmptyMap]
  /\ conn = [c \in Conns |-> NoConn]
  /\ overlaps = 0
  /\ faults = 0
  /\ exits = 0

Fault == faults < MaxFaults /\ faults' = faults + 1

-----------------------------------------------------------------------------
(* Wrong variants of actions below, each a mistake one could make in the   *)
(* code; none is part of the specification.                                *)

(* Server.Init without InitDevices. *)
StartInitKeepsDevices(s) ==
  /\ status[s] = "down"
  /\ status' = [status EXCEPT ![s] = "init"]
  /\ UNCHANGED <<redis, due, devicesMap, conn, bounds>>

(* NODE_EXPIRE_TIMEOUT no longer than NODE_REFRESH_INTERVAL. *)
RefreshDevicesTooShort(s) ==
  /\ status[s] = "run" /\ due[s]
  /\ due' = [due EXCEPT ![s] = FALSE]
  /\ ttl' = [ttl EXCEPT ![s] = TtlOf(registry[s], 1)]
  /\ UNCHANGED <<status, cometNodes, registry, devicesMap, conn, bounds>>

(* No look into DevicesMap before CheckDevice. *)
OldGoneUnchecked(c) ==
  /\ conn[c].pc = "wait"
  /\ conn' = [conn EXCEPT ![c].pc = "names"]
  /\ UNCHANGED <<status, redis, due, devicesMap, bounds>>

(* Waiting without a limit and without closing the old session. *)
KickOldPolitely(c) ==
  /\ conn[c].pc = "wait" /\ MapEntry(c) # None /\ conn[c].waitcnt < WaitLimit
  /\ UNCHANGED vars

(* CheckDevice asks the other servers only. *)
ReadOtherServerNames(c) ==
  /\ conn[c].pc = "names"
  /\ conn' = [conn EXCEPT ![c].pc = "check",
                          ![c].names = cometNodes \ {conn[c].srv}]
  /\ UNCHANGED <<status, redis, due, devicesMap, bounds>>

(* closeClient without DevicesMap.Delete. *)
DeleteFromMapForgotten(c) ==
  /\ conn[c].pc = "delete"
  /\ conn' = [conn EXCEPT ![c].pc = "remove"]
  /\ UNCHANGED <<status, redis, due, devicesMap, bounds>>

-----------------------------------------------------------------------------
(* The server process.                                                     *)

(* Server.Init: forget whatever an earlier process of this name left in    *)
(* the registry.                                                           *)
StartInit(s) ==
  /\ status[s] = "down"
  /\ status' = [status EXCEPT ![s] = "init"]
  /\ registry' = [registry EXCEPT ![s] = {}]
  /\ ttl' = [ttl EXCEPT ![s] = 0]
  /\ UNCHANGED <<cometNodes, due, devicesMap, conn, bounds>>

(* Server.Run up to the accept loop.  A failed AddComet is only logged.    *)
StartRun(s) ==
  /\ status[s] = "init"
  /\ status' = [status EXCEPT ![s] = "run"]
  /\ \/ cometNodes' = cometNodes \union {s} /\ UNCHANGED faults
     \/ Fault /\ UNCHANGED cometNodes
  /\ UNCHANGED <<registry, ttl, due, devicesMap, conn, overlaps, exits>>

(* NODE_REFRESH_INTERVAL passes for the hash of s.  A hash whose time is   *)
(* up disappears.  Of a running server the refresh routine wakes up; its   *)
(* EXPIRE is sent well before the next interval ends.                      *)
Interval(s) ==
  /\ \/ status[s] = "run" /\ ~due[s] /\ due' = [due EXCEPT ![s] = TRUE]
     \/ status[s] = "down" /\ ttl[s] > 0 /\ UNCHANGED due
  /\ ttl' = [ttl EXCEPT ![s] = IF @ > 0 THEN @ - 1 ELSE 0]
  /\ registry' = [registry EXCEPT ![s] = IF ttl[s] = 1 THEN {} ELSE @]
  /\ UNCHANGED <<status, cometNodes, devicesMap, conn, bounds>>

(* The EXPIRE of the refresh routine; it does nothing to a missing hash.   *)
RefreshDevices(s) ==
  /\ status[s] = "run" /\ due[s]
  /\ due' = [due EXCEPT ![s] = FALSE]
  /\ ttl' = [ttl EXCEPT ![s] = TtlOf(registry[s], ExpireTicks)]
  /\ UNCHANGED <<status, cometNodes, registry, devicesMap, conn, bounds>>

(* The EXPIRE fails: its result is ignored until the next interval.        *)
RefreshFails(s) ==
  /\ status[s] = "run" /\ due[s] /\ Fault
  /\ due' = [due EXCEPT ![s] = FALSE]
  /\ UNCHANGED <<status, redis, devicesMap, conn, overlaps, exits>>

(* The process ends.  Server.Stop waits for an empty WaitGroup, so a       *)
(* graceful stop runs closeClient for nobody either: memory and            *)
(* connections are gone, Redis stays as it is.                             *)
Exit(s) ==
  /\ status[s] # "down"
  /\ exits < MaxExits /\ exits' = exits + 1
  /\ status' = [status EXCEPT ![s] = "down"]
  /\ due' = [due EXCEPT ![s] = FALSE]
  /\ devicesMap' = [devicesMap EXCEPT ![s] = EmptyMap]
  /\ conn' = [c \in Conns |-> IF conn[c].srv = s THEN NoConn ELSE conn[c]]
  /\ UNCHANGED <<redis, overlaps, faults>>

-----------------------------------------------------------------------------
(* waitInit.                                                               *)

(* A connection is accepted and its INIT message read and found valid      *)
(* (what is refused before this point leaves no trace).                    *)
Connect(c, s, d) ==
  /\ conn[c].pc = "idle" /\ status[s] = "run"
  /\ \/ ~Initialising(d) /\ UNCHANGED overlaps
     \/ Initialising(d) /\ overlaps < MaxOverlaps /\ overlaps' = overlaps + 1
  /\ conn' = [conn EXCEPT ![c] = [NoConn EXCEPT !.pc = "wait", !.srv = s,
                                                !.dev = d]]
  /\ UNCHANGED <<status, redis, due, devicesMap, faults, exits>>

(* DevicesMap has no session of the device (any more).                     *)
OldGone(c) ==
  /\ conn[c].pc = "wait" /\ MapEntry(c) = None
  /\ conn' = [conn EXCEPT ![c].pc = "names"]
  /\ UNCHANGED <<status, redis, due, devicesMap, bounds>>

(* It has one: mark it closed, sleep two seconds and look again.           *)
KickOld(c) ==
  /\ conn[c].pc = "wait" /\ MapEntry(c) # None /\ conn[c].waitcnt < WaitLimit
  /\ conn' = [conn EXCEPT ![c].waitcnt = @ + 1, ![MapEntry(c)].closed = TRUE]
  /\ UNCHANGED <<status, redis, due, devicesMap, bounds>>

(* It still has one after WaitLimit rounds: refuse the new connection.     *)
GiveUp(c) ==
  /\ conn[c].pc = "wait" /\ MapEntry(c) # None /\ conn[c].waitcnt >= WaitLimit
  /\ conn' = [conn EXCEPT ![c] = NoConn]
  /\ UNCHANGED <<status, redis, due, devicesMap, bounds>>

(* CheckDevice reads the server names ...                                  *)
ReadServerNames(c) ==
  /\ conn[c].pc = "names"
  /\ conn' = [conn EXCEPT ![c].pc = "check", ![c].names = cometNodes]
  /\ UNCHANGED <<status, redis, due, devicesMap, bounds>>

(* ... and asks for the device on one after the other: not on s,           *)
NotOnServer(c, s) ==
  /\ conn[c].pc = "check" /\ s \in conn[c].names
  /\ conn[c].dev \notin registry[s]
  /\ conn' = [conn EXCEPT ![c].names = @ \ {s}]
  /\ UNCHANGED <<status, redis, due, devicesMap, bounds>>

(* or on s: refuse the connection.                                         *)
FoundOnServer(c, s) ==
  /\ conn[c].pc = "check" /\ s \in conn[c].names
  /\ conn[c].dev \in registry[s]
  /\ conn' = [conn EXCEPT ![c] = NoConn]
  /\ UNCHANGED <<status, redis, due, devicesMap, bounds>>

(* A Redis error in CheckDevice, or an HSET that does not arrive: the      *)
(* connection is refused.                                                  *)
InitFails(c) ==
  /\ conn[c].pc \in {"names", "check"}
  /\ conn' = [conn EXCEPT ![c] = NoConn]
  /\ UNCHANGED <<status, redis, due, devicesMap, bounds>>

(* createClient, first half: the HSET of AddDevice.                        *)
AddDevice(c) ==
  /\ conn[c].pc = "check" /\ conn[c].names = {}
  /\ registry' = [registry EXCEPT ![conn[c].srv] = @ \union {conn[c].dev}]
  /\ conn' = [conn EXCEPT ![c].pc = "set"]
  /\ UNCHANGED <<status, cometNodes, ttl, due, devicesMap, bounds>>

(* The HSET is carried out but its answer is lost: the connection is       *)
(* refused and the device stays registered.                                *)
AddDeviceLost(c) ==
  /\ conn[c].pc = "check" /\ conn[c].names = {} /\ Fault
  /\ registry' = [registry EXCEPT ![conn[c].srv] = @ \union {conn[c].dev}]
  /\ conn' = [conn EXCEPT ![c] = NoConn]
  /\ UNCHANGED <<status, cometNodes, ttl, due, devicesMap, overlaps, exits>>

(* createClient, second half: DevicesMap.Set replaces whatever is there.   *)
SetClient(c) ==
  /\ conn[c].pc = "set"
  /\ devicesMap' = [devicesMap EXCEPT ![conn[c].srv][conn[c].dev] = c]
  /\ conn' = [conn EXCEPT ![c].pc = "loop"]
  /\ UNCHANGED <<status, redis, due, bounds>>

-----------------------------------------------------------------------------
(* The end of handleConnection.                                            *)

(* The read loop ends: client.closed, heartbeat timeout, a read error, a   *)
(* bad header or a handler that says so.                                   *)
LeaveLoop(c) ==
  /\ conn[c].pc = "loop"
  /\ conn' = [conn EXCEPT ![c].pc = "delete", ![c].closed = TRUE]
  /\ UNCHANGED <<status, redis, due, devicesMap, bounds>>

(* closeClient deletes by device id, whoever's entry it is.                *)
DeleteFromMap(c) ==
  /\ conn[c].pc = "delete"
  /\ devicesMap' = [devicesMap EXCEPT ![conn[c].srv][conn[c].dev] = None]
  /\ conn' = [conn EXCEPT ![c].pc = "remove"]
  /\ UNCHANGED <<status, redis, due, bounds>>

(* The HDEL of RemoveDevice.                                               *)
RemoveDevice(c) ==
  LET s == conn[c].srv
      D == registry[s] \ {conn[c].dev}
  IN /\ conn[c].pc = "remove"
     /\ registry' = [registry EXCEPT ![s] = D]
     /\ ttl' = [ttl EXCEPT ![s] = TtlOf(D, @)]
     /\ conn' = [conn EXCEPT ![c] = NoConn]
     /\ UNCHANGED <<status, cometNodes, due, devicesMap, bounds>>

(* The HDEL fails: logged and forgotten.                                   *)
RemoveDeviceFails(c) ==
  /\ conn[c].pc = "remove" /\ Fault
  /\ conn' = [conn EXCEPT ![c] = NoConn]
  /\ UNCHANGED <<status, redis, due, devicesMap, overlaps, exits>>

-----------------------------------------------------------------------------
ServerStep(s) ==
  \/ StartInit(s) \/ StartRun(s) \/ Interval(s)
  \/ RefreshDevices(s) \/ RefreshFails(s) \/ Exit(s)

(* The steps of a connection goroutine that need nobody else.              *)
Proceed(c) ==
  \/ OldGone(c) \/ KickOld(c) \/ GiveUp(c)
  \/ ReadServerNames(c)
  \/ \E s \in Servers : NotOnServer(c, s) \/ FoundOnServer(c, s)
  \/ AddDevice(c) \/ SetClient(c)
  \/ conn[c].closed /\ LeaveLoop(c)
  \/ DeleteFromMap(c) \/ RemoveDevice(c)

ConnStep(c) ==
  \/ \E s \in Servers, d \in Devices : Connect(c, s, d)
  \/ Proceed(c)
  \/ InitFails(c) \/ AddDeviceLost(c)
  \/ LeaveLoop(c) \/ RemoveDeviceFails(c)

Next ==
  \/ \E s \in Servers : ServerStep(s)
  \/ \E c \in Conns : ConnStep(c)

(* The supervisor restarts a process that ended (supervisord autorestart), *)
(* time passes, the refresh routine and the connection goroutines run.     *)
Fairness ==
  /\ \A s \in Servers :
       WF_vars(StartInit(s)) /\ WF_vars(StartRun(s))
         /\ WF_vars(Interval(s)) /\ WF_vars(RefreshDevices(s))
  /\ \A c \in Conns : WF_vars(Proceed(c))

Spec == Init /\ [][Next]_vars
FairSpec == Spec /\ Fairness

-----------------------------------------------------------------------------
(* Properties.                                                             *)

(* The variables have the values their declarations promise.               *)
TypeOK ==
  /\ status \in [Servers -> {"down", "init", "run"}]
  /\ cometNodes \subseteq Servers
  /\ registry \in [Servers -> SUBSET Devices]
  /\ ttl \in [Servers -> 0..ExpireTicks]
  /\ due \in [Servers -> BOOLEAN]
  /\ devicesMap \in [Servers -> [Devices -> Conns \union {None}]]
  /\ conn \in [Conns -> ConnType]
  /\ overlaps \in 0..MaxOverlaps
  /\ faults \in 0..MaxFaults
  /\ exits \in 0..MaxExits

(* A device has one session in the whole cluster: as long as it opened no  *)
(* overlapping connections and Redis did what it was told, no two          *)
(* connections of a device, on one server or on two, are both between the  *)
(* HSET of createClient and the HDEL of closeClient, whatever the servers' *)
(* exits and restarts.                                                     *)
OneSession ==
  overlaps = 0 /\ faults = 0 =>
    \A c1, c2 \in Conns : \A d \in Devices :
      Holds(c1, d) /\ Holds(c2, d) => c1 = c2

(* Under the same conditions a session in its read loop can be found by    *)
(* everyone who looks for it: by its process in DevicesMap, by the others  *)
(* in the hash of a server listed in comet_nodes.  In particular the hash  *)
(* of a running server never expires.                                      *)
SessionFindable ==
  overlaps = 0 /\ faults = 0 =>
    \A c \in Conns :
      conn[c].pc = "loop" =>
        /\ MapEntry(c) = c
        /\ conn[c].dev \in registry[conn[c].srv]
        /\ conn[c].srv \in cometNodes

(* DevicesMap never leads to a connection that has left it: an entry       *)
(* belongs to a session of this device on this server whose goroutine      *)
(* still is to delete it.  This holds with overlapping connections and     *)
(* Redis errors too, although closeClient deletes by device id.            *)
MapEntriesAlive ==
  \A s \in Servers, d \in Devices, c \in Conns :
    devicesMap[s][d] = c =>
      conn[c].pc \in {"loop", "delete"} /\ conn[c].srv = s /\ conn[c].dev = d

(* No device is locked out by a server that runs: what its hash contains   *)
(* is backed by a connection that is going to remove it.  Redis errors     *)
(* excepted (an HDEL that failed is never repeated).                       *)
RegistryBacked ==
  faults = 0 =>
    \A s \in Servers : status[s] # "down" =>
      \A d \in registry[s] : \E c \in Conns : Holds(c, d) /\ conn[c].srv = s

(* DevicesMap.Set finds no session to replace, and so closeClient deletes  *)
(* its own entry and no other, unless a device opened overlapping          *)
(* connections.  Redis errors do not change that.                          *)
MapNeverReplaced ==
  [][overlaps' = 0 =>
       \A s \in Servers, d \in Devices :
         devicesMap'[s][d] # devicesMap[s][d] =>
           None \in {devicesMap[s][d], devicesMap'[s][d]}]_vars

(* A registry entry without a session, left by a process that ended, goes  *)
(* away: by its time to live, or by the InitDevices of the next process.   *)
Stale(s, d) ==
  d \in registry[s] /\ ~\E c \in Conns : Holds(c, d) /\ conn[c].srv = s

StaleEntryGone == \A s \in Servers, d \in Devices : Stale(s, d) ~> ~Stale(s, d)

(* Every INIT is answered: accepted or refused, also while the old session *)
(* of the device takes its time.                                           *)
InitEnds ==
  \A c \in Conns : conn[c].pc \in InitPhases ~> conn[c].pc \notin InitPhases

-----------------------------------------------------------------------------
(* Why the properties hold: parts of an inductive invariant.               *)

(* A connection lives in a running process.                                *)
ConnsRun ==
  \A c \in Conns : conn[c].pc # "idle" =>
    /\ conn[c].srv \in Servers /\ conn[c].dev \in Devices
    /\ status[conn[c].srv] = "run"

(* Nothing is registered by a server before it runs.                       *)
InitClean ==
  \A s \in Servers : status[s] = "init" => registry[s] = {} /\ ttl[s] = 0

(* At most one connection of a device is in waitInit.                      *)
SerialInit ==
  overlaps = 0 =>
    \A c1, c2 \in Conns :
      /\ conn[c1].pc \in InitPhases /\ conn[c2].pc \in InitPhases
      /\ conn[c1].dev = conn[c2].dev
      => c1 = c2

(* A connection is in DevicesMap from SetClient to DeleteFromMap, and the  *)
(* entry is free from OldGone to SetClient.                                *)
MapOwned ==
  overlaps = 0 =>
    \A c \in Conns :
      /\ conn[c].pc \in {"names", "check", "set"} => MapEntry(c) = None
      /\ conn[c].pc \in {"loop", "delete"} => MapEntry(c) = c

(* A hash that anybody may have to look at belongs to a listed server.     *)
Listed ==
  faults = 0 =>
    \A s \in Servers :
      /\ status[s] = "run" => s \in cometNodes
      /\ registry[s] # {} => s \in cometNodes

(* The time to live of a running server's hash is full after each EXPIRE,  *)
(* one interval less when the next one is due.                             *)
TtlRenewed ==
  faults = 0 =>
    \A s \in Servers : status[s] = "run" /\ ttl[s] > 0 =>
      ttl[s] = IF due[s] THEN ExpireTicks - 1 ELSE ExpireTicks

(* A session is registered by its server.                                  *)
HeldRegistered ==
  overlaps = 0 /\ faults = 0 =>
    \A c \in Conns : conn[c].pc \in HeldPhases =>
      conn[c].dev \in registry[conn[c].srv]

(* What CheckDevice has seen so far still is true: nobody else can have    *)
(* registered the device in the meantime.                                  *)
CheckedFree ==
  overlaps = 0 /\ faults = 0 =>
    \A c \in Conns : conn[c].pc = "check" =>
      \A s \in Servers : s \in conn[c].names \/ conn[c].dev \notin registry[s]

SessionInv ==
  /\ ConnsRun /\ InitClean /\ SerialInit /\ MapOwned
  /\ Listed /\ TtlRenewed /\ HeldRegistered /\ CheckedFree

-----------------------------------------------------------------------------
(* The sessions implement leases: per device at most one holder, which     *)
(* gives its lease back before anybody else gets it.                       *)
Holder(d) == IF \E c \in Conns : Holds(c, d)
             THEN CHOOSE c \in Conns : Holds(c, d) ELSE None

Lease == INSTANCE DeviceLease WITH holder <- [d \in Devices |-> Holder(d)]

(* As long as nothing overlaps and no Redis command goes wrong, the        *)
(* connections of a device take turns as DeviceLease says.                 *)
LeaseSpec == Lease!Spec

=============================================================================
