------------------------- MODULE CometSessionProofs -------------------------
(***************************************************************************)
(* Proofs about CometSession, for any number of servers, devices and       *)
(* connections and any bounds.                                             *)
(***************************************************************************)
EXTENDS CometSession, TLAPS

USE DEF Phases, InitPhases, HeldPhases

(* The assumptions of CometSession as facts, and the bits of arithmetic    *)
(* the bounded counters need.                                              *)
LEMMA Bounds ==
  /\ None \notin Conns /\ None \notin Servers /\ None \notin Devices
  /\ WaitLimit \in Nat
  /\ ExpireTicks \in Nat /\ ExpireTicks >= 2
  /\ MaxOverlaps \in Nat /\ MaxFaults \in Nat /\ MaxExits \in Nat
  BY NoneAssumption, WaitAssumption, ExpireAssumption, BoundAssumption

(* An idle connection is a connection.                                     *)
LEMMA NoConnType == NoConn \in ConnType
  BY Bounds DEF NoConn, ConnType

-----------------------------------------------------------------------------
(* A step of a server, type correctness.                                   *)
LEMMA ServerStepType ==
  ASSUME TypeOK, NEW s \in Servers, ServerStep(s)
  PROVE  TypeOK'
  <1>0. USE Bounds, NoConnType DEF TypeOK, redis, bounds, Fault
  <1>1. CASE StartInit(s) BY <1>1 DEF StartInit
  <1>2. CASE StartRun(s) BY <1>2 DEF StartRun
  <1>3. CASE Interval(s)
    <2>1. (IF ttl[s] > 0 THEN ttl[s] - 1 ELSE 0) \in 0..ExpireTicks
      OBVIOUS
    <2>2. ttl' \in [Servers -> 0..ExpireTicks]
      BY <1>3, <2>1 DEF Interval
    <2>3. registry' \in [Servers -> SUBSET Devices]
      BY <1>3 DEF Interval
    <2>4. due' \in [Servers -> BOOLEAN]
      BY <1>3 DEF Interval
    <2>5. QED BY <1>3, <2>2, <2>3, <2>4 DEF Interval
  <1>4. CASE RefreshDevices(s) BY <1>4 DEF RefreshDevices, TtlOf
  <1>5. CASE RefreshFails(s) BY <1>5 DEF RefreshFails
  <1>6. CASE Exit(s) BY <1>6 DEF Exit, EmptyMap
  <1>7. QED BY <1>1, <1>2, <1>3, <1>4, <1>5, <1>6 DEF ServerStep

(* The updates of a connection that the actions make.                      *)
LEMMA ConnUpdates ==
  ASSUME NEW r \in ConnType
  PROVE  /\ \A p \in Phases : [r EXCEPT !.pc = p] \in ConnType
         /\ [r EXCEPT !.closed = TRUE] \in ConnType
         /\ \A p \in Phases : [r EXCEPT !.pc = p, !.closed = TRUE] \in ConnType
         /\ \A N \in SUBSET Servers : [r EXCEPT !.names = N] \in ConnType
         /\ \A p \in Phases, N \in SUBSET Servers :
              [r EXCEPT !.pc = p, !.names = N] \in ConnType
         /\ r.waitcnt < WaitLimit =>
              [r EXCEPT !.waitcnt = @ + 1] \in ConnType
  <1>1. ASSUME r.waitcnt < WaitLimit
        PROVE  [r EXCEPT !.waitcnt = @ + 1] \in ConnType
    <2>1. r.waitcnt + 1 \in 0..WaitLimit
      BY <1>1, Bounds DEF ConnType
    <2>2. QED BY <2>1 DEF ConnType
  <1>2. QED BY <1>1 DEF ConnType

(* A step of a connection, type correctness.                               *)
LEMMA ConnStepType ==
  ASSUME TypeOK, ConnsRun, NEW c \in Conns, ConnStep(c)
  PROVE  TypeOK'
  <1>0. USE Bounds, NoConnType DEF TypeOK, redis, bounds, Fault
  <1>1. ASSUME NEW s \in Servers, NEW d \in Devices, Connect(c, s, d)
        PROVE  TypeOK'
    <2>1. [NoConn EXCEPT !.pc = "wait", !.srv = s, !.dev = d] \in ConnType
      BY DEF NoConn, ConnType
    <2>2. QED BY <1>1, <2>1 DEF Connect
  <1>2. CASE OldGone(c)
    <2>1. [conn[c] EXCEPT !.pc = "names"] \in ConnType
      BY ConnUpdates
    <2>2. QED BY <1>2, <2>1 DEF OldGone
  <1>3. CASE KickOld(c)
    <2>1. DEFINE o == MapEntry(c)
                 k == [conn EXCEPT ![c].waitcnt = @ + 1]
    <2>2. [conn[c] EXCEPT !.waitcnt = @ + 1] \in ConnType
      BY <1>3, ConnUpdates DEF KickOld
    <2>3. k \in [Conns -> ConnType]
      BY <2>2
    <2>4. [k EXCEPT ![o].closed = TRUE] \in [Conns -> ConnType]
      <3>1. CASE o \in Conns
        <4>1. [k[o] EXCEPT !.closed = TRUE] \in ConnType
          BY <2>3, <3>1, ConnUpdates
        <4>2. QED BY <2>3, <4>1
      <3>2. CASE o \notin Conns
        BY <2>3, <3>2
      <3>3. QED BY <3>1, <3>2
    <2>5. QED BY <1>3, <2>4 DEF KickOld
  <1>4. CASE GiveUp(c) BY <1>4 DEF GiveUp
  <1>5. CASE ReadServerNames(c) BY <1>5 DEF ReadServerNames, ConnType
  <1>6. ASSUME NEW s \in Servers, NotOnServer(c, s)
        PROVE  TypeOK'
    BY <1>6 DEF NotOnServer, ConnType
  <1>7. ASSUME NEW s \in Servers, FoundOnServer(c, s)
        PROVE  TypeOK'
    BY <1>7 DEF FoundOnServer
  <1>8. CASE InitFails(c) BY <1>8 DEF InitFails
  <1>9. CASE AddDevice(c)
    <2>1. conn[c].dev \in Devices
      BY <1>9 DEF AddDevice, ConnsRun
    <2>2. registry' \in [Servers -> SUBSET Devices]
      BY <1>9, <2>1 DEF AddDevice
    <2>3. conn' \in [Conns -> ConnType]
      BY <1>9, ConnUpdates DEF AddDevice
    <2>4. QED BY <1>9, <2>2, <2>3 DEF AddDevice
  <1>10. CASE AddDeviceLost(c)
    <2>1. conn[c].dev \in Devices
      BY <1>10 DEF AddDeviceLost, ConnsRun
    <2>2. registry' \in [Servers -> SUBSET Devices]
      BY <1>10, <2>1 DEF AddDeviceLost
    <2>3. QED BY <1>10, <2>2 DEF AddDeviceLost
  <1>11. CASE SetClient(c) BY <1>11 DEF SetClient, ConnType
  <1>12. CASE LeaveLoop(c) BY <1>12 DEF LeaveLoop, ConnType
  <1>13. CASE DeleteFromMap(c) BY <1>13 DEF DeleteFromMap, ConnType
  <1>14. CASE RemoveDevice(c)
    <2>1. registry' \in [Servers -> SUBSET Devices]
      BY <1>14 DEF RemoveDevice
    <2>2. conn[c].srv \in Servers
      BY <1>14 DEF RemoveDevice, ConnsRun
    <2>3. ASSUME NEW D PROVE TtlOf(D, ttl[conn[c].srv]) \in 0..ExpireTicks
      BY <2>2 DEF TtlOf
    <2>4. ttl' \in [Servers -> 0..ExpireTicks]
      BY <1>14, <2>2, <2>3 DEF RemoveDevice
    <2>5. QED BY <1>14, <2>1, <2>4 DEF RemoveDevice
  <1>15. CASE RemoveDeviceFails(c) BY <1>15 DEF RemoveDeviceFails
  <1>16. QED
    BY <1>1, <1>2, <1>3, <1>4, <1>5, <1>6, <1>7, <1>8, <1>9, <1>10, <1>11,
       <1>12, <1>13, <1>14, <1>15
    DEF ConnStep, Proceed

-----------------------------------------------------------------------------
(* What a step of one connection leaves alone: other connections keep      *)
(* everything but, when their device comes back, the flag closed.          *)
LEMMA OthersKept ==
  ASSUME TypeOK, NEW c \in Conns, ConnStep(c), NEW x \in Conns, x # c
  PROVE  /\ conn'[x].pc = conn[x].pc
         /\ conn'[x].srv = conn[x].srv
         /\ conn'[x].dev = conn[x].dev
         /\ conn'[x].names = conn[x].names
  <1>1. CASE KickOld(c)
    BY <1>1 DEF KickOld, TypeOK, ConnType
  <1>2. CASE ~KickOld(c)
    BY <1>2
    DEF TypeOK, ConnStep, Proceed, Connect, OldGone, GiveUp, ReadServerNames,
        NotOnServer, FoundOnServer, InitFails, AddDevice, AddDeviceLost,
        SetClient, LeaveLoop, DeleteFromMap, RemoveDevice, RemoveDeviceFails
  <1>3. QED BY <1>1, <1>2

(* The connection itself starts, ends, or stays with server and device.    *)
LEMMA OwnKept ==
  ASSUME TypeOK, NEW c \in Conns, ConnStep(c)
  PROVE  \/ \E s \in Servers, d \in Devices : Connect(c, s, d)
         \/ conn' = [conn EXCEPT ![c] = NoConn]
         \/ /\ conn[c].pc # "idle" /\ conn'[c].pc # "idle"
            /\ conn'[c].srv = conn[c].srv /\ conn'[c].dev = conn[c].dev
  <1>1. CASE GiveUp(c) \/ InitFails(c) \/ AddDeviceLost(c)
               \/ RemoveDevice(c) \/ RemoveDeviceFails(c)
    BY <1>1 DEF GiveUp, InitFails, AddDeviceLost, RemoveDevice,
                RemoveDeviceFails
  <1>2. ASSUME NEW s \in Servers, FoundOnServer(c, s) \/ NotOnServer(c, s)
        PROVE  \/ conn' = [conn EXCEPT ![c] = NoConn]
               \/ /\ conn[c].pc # "idle" /\ conn'[c].pc # "idle"
                  /\ conn'[c].srv = conn[c].srv /\ conn'[c].dev = conn[c].dev
    BY <1>2 DEF FoundOnServer, NotOnServer, TypeOK, ConnType
  <1>3. CASE KickOld(c)
    BY <1>3 DEF KickOld, TypeOK, ConnType
  <1>4. CASE OldGone(c) \/ ReadServerNames(c) \/ AddDevice(c) \/ SetClient(c)
               \/ LeaveLoop(c) \/ DeleteFromMap(c)
    BY <1>4 DEF OldGone, ReadServerNames, AddDevice, SetClient, LeaveLoop,
                DeleteFromMap, TypeOK, ConnType
  <1>5. QED BY <1>1, <1>2, <1>3, <1>4 DEF ConnStep, Proceed

(* A connection belongs to a running process: step of a server ...         *)
LEMMA ServerStepConnsRun ==
  ASSUME TypeOK, ConnsRun, NEW s \in Servers, ServerStep(s)
  PROVE  ConnsRun'
  <1>1. CASE Exit(s)
    BY <1>1, Bounds DEF Exit, ConnsRun, TypeOK, NoConn
  <1>2. CASE StartInit(s)
    BY <1>2 DEF StartInit, ConnsRun, TypeOK
  <1>3. CASE StartRun(s)
    BY <1>3 DEF StartRun, ConnsRun, TypeOK
  <1>4. CASE Interval(s) \/ RefreshDevices(s) \/ RefreshFails(s)
    BY <1>4 DEF Interval, RefreshDevices, RefreshFails, ConnsRun, redis
  <1>5. QED BY <1>1, <1>2, <1>3, <1>4 DEF ServerStep

(* ... and of a connection: it starts on a running server, and none of     *)
(* them changes a server's status.                                         *)
LEMMA ConnStepConnsRun ==
  ASSUME TypeOK, ConnsRun, NEW c \in Conns, ConnStep(c)
  PROVE  ConnsRun'
  <1>1. status' = status
    BY DEF ConnStep, Proceed, Connect, OldGone, KickOld, GiveUp,
           ReadServerNames, NotOnServer, FoundOnServer, InitFails, AddDevice,
           AddDeviceLost, SetClient, LeaveLoop, DeleteFromMap, RemoveDevice,
           RemoveDeviceFails
  <1>2. conn'[c].pc # "idle" =>
          /\ conn'[c].srv \in Servers /\ conn'[c].dev \in Devices
          /\ status[conn'[c].srv] = "run"
    <2>1. CASE \E s \in Servers, d \in Devices : Connect(c, s, d)
      BY <2>1 DEF Connect, TypeOK, NoConn
    <2>2. CASE conn' = [conn EXCEPT ![c] = NoConn]
      BY <2>2 DEF TypeOK, NoConn
    <2>3. QED BY <2>1, <2>2, OwnKept DEF ConnsRun
  <1>3. QED BY <1>1, <1>2, OthersKept DEF ConnsRun

LEMMA StutterType ==
  ASSUME UNCHANGED vars
  PROVE  /\ TypeOK => TypeOK'
         /\ ConnsRun => ConnsRun'
  BY DEF vars, redis, bounds, TypeOK, ConnsRun

LEMMA BaseInductive ==
  /\ Init => TypeOK /\ ConnsRun
  /\ TypeOK /\ ConnsRun /\ [Next]_vars => TypeOK' /\ ConnsRun'
  <1>1. ASSUME Init PROVE TypeOK /\ ConnsRun
    BY <1>1, Bounds, NoConnType DEF Init, TypeOK, ConnsRun, EmptyMap, NoConn
  <1>2. ASSUME TypeOK, ConnsRun, [Next]_vars PROVE TypeOK' /\ ConnsRun'
    <2>1. ASSUME NEW s \in Servers, ServerStep(s) PROVE TypeOK' /\ ConnsRun'
      BY <1>2, <2>1, ServerStepType, ServerStepConnsRun
    <2>2. ASSUME NEW c \in Conns, ConnStep(c) PROVE TypeOK' /\ ConnsRun'
      BY <1>2, <2>2, ConnStepType, ConnStepConnsRun
    <2>3. QED BY <1>2, <2>1, <2>2, StutterType DEF Next
  <1>3. QED BY <1>1, <1>2

(* The variables of the session model always have their types, whatever    *)
(* the servers, devices and connections do: in particular waitInit never   *)
(* waits more than WaitLimit times, and no time to live exceeds the one    *)
(* RefreshDevices gives.                                                   *)
THEOREM TypeCorrect == Spec => []TypeOK
  <1>1. Init => TypeOK /\ ConnsRun
    BY BaseInductive
  <1>2. (TypeOK /\ ConnsRun) /\ [Next]_vars => (TypeOK /\ ConnsRun)'
    BY BaseInductive
  <1>3. QED BY <1>1, <1>2, PTL DEF Spec

-----------------------------------------------------------------------------
(* Entries of DevicesMap: they change in SetClient, DeleteFromMap and Exit *)
(* only.                                                                   *)
LEMMA MapFrame ==
  ASSUME NEW c \in Conns, ConnStep(c), ~SetClient(c), ~DeleteFromMap(c)
  PROVE  devicesMap' = devicesMap
  BY DEF ConnStep, Proceed, Connect, OldGone, KickOld, GiveUp,
         ReadServerNames, NotOnServer, FoundOnServer, InitFails, AddDevice,
         AddDeviceLost, LeaveLoop, RemoveDevice, RemoveDeviceFails

(* A connection that is in DevicesMap stays where it is, unless it leaves  *)
(* the loop or is the one deleted.                                         *)
LEMMA MappedKept ==
  ASSUME TypeOK, NEW c \in Conns, ConnStep(c), ~DeleteFromMap(c),
         NEW x \in Conns, conn[x].pc \in {"loop", "delete"}
  PROVE  /\ conn'[x].pc \in {"loop", "delete"}
         /\ conn'[x].srv = conn[x].srv /\ conn'[x].dev = conn[x].dev
  <1>1. CASE x # c
    BY <1>1, OthersKept
  <1>2. CASE x = c
    <2>1. LeaveLoop(c)
      BY <1>2 DEF ConnStep, Proceed, Connect, OldGone, KickOld, GiveUp,
         ReadServerNames, NotOnServer, FoundOnServer, InitFails, AddDevice,
         AddDeviceLost, SetClient, RemoveDevice, RemoveDeviceFails
    <2>2. QED BY <1>2, <2>1 DEF LeaveLoop, TypeOK, ConnType
  <1>3. QED BY <1>1, <1>2

LEMMA MapEntriesAliveStep ==
  ASSUME TypeOK, ConnsRun, MapEntriesAlive, [Next]_vars
  PROVE  MapEntriesAlive'
  <1>1. ASSUME NEW s \in Servers, ServerStep(s) PROVE MapEntriesAlive'
    <2>1. CASE Exit(s)
      BY <2>1, Bounds DEF Exit, EmptyMap, MapEntriesAlive, TypeOK
    <2>2. CASE ~Exit(s)
      BY <1>1, <2>2
      DEF MapEntriesAlive, ServerStep, StartInit, StartRun, Interval,
          RefreshDevices, RefreshFails, redis
    <2>3. QED BY <2>1, <2>2
  <1>2. ASSUME NEW c \in Conns, ConnStep(c) PROVE MapEntriesAlive'
    <2>1. SUFFICES ASSUME NEW s \in Servers, NEW d \in Devices,
                          NEW x \in Conns, devicesMap'[s][d] = x
                   PROVE  /\ conn'[x].pc \in {"loop", "delete"}
                          /\ conn'[x].srv = s /\ conn'[x].dev = d
      BY DEF MapEntriesAlive
    <2>2. CASE SetClient(c)
      <3>1. CASE x = c /\ s = conn[c].srv /\ d = conn[c].dev
        BY <2>2, <3>1 DEF SetClient, TypeOK, ConnType
      <3>2. CASE ~(s = conn[c].srv /\ d = conn[c].dev)
        <4>1. devicesMap[s][d] = x
          BY <2>1, <2>2, <3>2 DEF SetClient, TypeOK
        <4>2. x # c
          BY <2>2, <4>1 DEF SetClient, MapEntriesAlive
        <4>3. QED BY <1>2, <4>1, <4>2, OthersKept DEF MapEntriesAlive
      <3>3. QED
        BY <2>1, <2>2, <3>1, <3>2 DEF SetClient, TypeOK
    <2>3. CASE DeleteFromMap(c)
      <3>1. ~(s = conn[c].srv /\ d = conn[c].dev)
        BY <2>1, <2>3, Bounds DEF DeleteFromMap, TypeOK
      <3>2. devicesMap[s][d] = x
        BY <2>1, <2>3, <3>1 DEF DeleteFromMap, TypeOK
      <3>3. x # c
        BY <3>1, <3>2 DEF MapEntriesAlive
      <3>4. QED BY <1>2, <3>2, <3>3, OthersKept DEF MapEntriesAlive
    <2>4. CASE ~SetClient(c) /\ ~DeleteFromMap(c)
      BY <1>2, <2>1, <2>4, MapFrame, MappedKept DEF MapEntriesAlive
    <2>5. QED BY <2>2, <2>3, <2>4
  <1>3. CASE UNCHANGED vars
    BY <1>3 DEF vars, MapEntriesAlive
  <1>4. QED BY <1>1, <1>2, <1>3 DEF Next

(* DevicesMap never holds a session that has left it: GetAppByDevice and   *)
(* the command RPC look at live clients only.                              *)
THEOREM MapEntriesAliveHolds == Spec => []MapEntriesAlive
  <1> DEFINE I == TypeOK /\ ConnsRun /\ MapEntriesAlive
  <1>1. Init => I
    BY BaseInductive, Bounds DEF Init, MapEntriesAlive, EmptyMap
  <1>2. I /\ [Next]_vars => I'
    BY BaseInductive, MapEntriesAliveStep
  <1>3. QED BY <1>1, <1>2, PTL DEF Spec

-----------------------------------------------------------------------------
(* The disturbances only count up, so what holds as long as there was none *)
(* may use that there was none before the step either.                     *)
LEMMA CountersGrow ==
  ASSUME TypeOK, [Next]_vars
  PROVE  /\ overlaps' = 0 => overlaps = 0
         /\ faults' = 0 => faults = 0
  <1>1. ASSUME NEW s \in Servers, ServerStep(s)
        PROVE  overlaps' = overlaps /\ (faults' = 0 => faults = 0)
    BY <1>1 DEF TypeOK, ServerStep, StartInit, StartRun, Interval,
       RefreshDevices, RefreshFails, Exit, Fault, bounds
  <1>2. ASSUME NEW c \in Conns, ConnStep(c)
        PROVE  (overlaps' = 0 => overlaps = 0) /\ (faults' = 0 => faults = 0)
    <2>1. overlaps \in Nat /\ faults \in Nat
      BY Bounds DEF TypeOK
    <2>2. CASE AddDeviceLost(c) \/ RemoveDeviceFails(c)
      BY <2>1, <2>2 DEF AddDeviceLost, RemoveDeviceFails, Fault
    <2>3. CASE \E s \in Servers, d \in Devices : Connect(c, s, d)
      BY <2>1, <2>3 DEF Connect
    <2>4. CASE /\ ~(AddDeviceLost(c) \/ RemoveDeviceFails(c))
               /\ ~\E s \in Servers, d \in Devices : Connect(c, s, d)
      BY <1>2, <2>4
      DEF ConnStep, Proceed, OldGone, KickOld, GiveUp, ReadServerNames,
          NotOnServer, FoundOnServer, InitFails, AddDevice, SetClient,
          LeaveLoop, DeleteFromMap, RemoveDevice, bounds
    <2>5. QED BY <2>2, <2>3, <2>4
  <1>3. QED BY <1>1, <1>2 DEF Next, vars, bounds

(* Only AddDevice and AddDeviceLost add to the registry, only RemoveDevice *)
(* takes away from it, of what connections do.                             *)
LEMMA RegistryFrame ==
  ASSUME NEW c \in Conns, ConnStep(c), ~RemoveDevice(c),
         ~AddDevice(c), ~AddDeviceLost(c)
  PROVE  registry' = registry /\ ttl' = ttl /\ cometNodes' = cometNodes
  BY DEF ConnStep, Proceed, Connect, OldGone, KickOld, GiveUp,
         ReadServerNames, NotOnServer, FoundOnServer, InitFails, SetClient,
         LeaveLoop, DeleteFromMap, RemoveDeviceFails, redis

(* A session ends with RemoveDevice, with an HDEL that fails or with its   *)
(* process.                                                                *)
LEMMA HeldKept ==
  ASSUME TypeOK, NEW c \in Conns, ConnStep(c),
         ~RemoveDevice(c), ~RemoveDeviceFails(c),
         NEW x \in Conns, conn[x].pc \in HeldPhases
  PROVE  /\ conn'[x].pc \in HeldPhases
         /\ conn'[x].srv = conn[x].srv /\ conn'[x].dev = conn[x].dev
  <1>1. CASE x # c
    BY <1>1, OthersKept
  <1>2. CASE x = c
    <2>1. SetClient(c) \/ LeaveLoop(c) \/ DeleteFromMap(c)
      BY <1>2 DEF ConnStep, Proceed, Connect, OldGone, KickOld, GiveUp,
         ReadServerNames, NotOnServer, FoundOnServer, InitFails, AddDevice,
         AddDeviceLost
    <2>2. QED
      BY <1>2, <2>1 DEF SetClient, LeaveLoop, DeleteFromMap, TypeOK, ConnType
  <1>3. QED BY <1>1, <1>2

LEMMA InitCleanStep ==
  ASSUME TypeOK, ConnsRun, InitClean, [Next]_vars
  PROVE  InitClean'
  <1>1. ASSUME NEW s \in Servers, ServerStep(s) PROVE InitClean'
    BY <1>1 DEF ServerStep, StartInit, StartRun, Interval, RefreshDevices,
       RefreshFails, Exit, InitClean, TypeOK, redis
  <1>2. ASSUME NEW c \in Conns, ConnStep(c) PROVE InitClean'
    <2>1. status' = status
      BY <1>2 DEF ConnStep, Proceed, Connect, OldGone, KickOld, GiveUp,
           ReadServerNames, NotOnServer, FoundOnServer, InitFails, AddDevice,
           AddDeviceLost, SetClient, LeaveLoop, DeleteFromMap, RemoveDevice,
           RemoveDeviceFails
    <2>2. CASE AddDevice(c) \/ AddDeviceLost(c) \/ RemoveDevice(c)
      <3>1. conn[c].srv \in Servers /\ status[conn[c].srv] = "run"
        BY <2>2 DEF AddDevice, AddDeviceLost, RemoveDevice, ConnsRun
      <3>2. \A s \in Servers \ {conn[c].srv} :
              registry'[s] = registry[s] /\ ttl'[s] = ttl[s]
        BY <2>2, <3>1 DEF AddDevice, AddDeviceLost, RemoveDevice, TypeOK
      <3>3. QED BY <2>1, <3>1, <3>2 DEF InitClean
    <2>3. CASE ~(AddDevice(c) \/ AddDeviceLost(c) \/ RemoveDevice(c))
      BY <1>2, <2>1, <2>3, RegistryFrame DEF InitClean
    <2>4. QED BY <2>2, <2>3
  <1>3. CASE UNCHANGED vars
    BY <1>3 DEF vars, redis, InitClean
  <1>4. QED BY <1>1, <1>2, <1>3 DEF Next

LEMMA RegistryBackedStep ==
  ASSUME TypeOK, ConnsRun, InitClean, RegistryBacked, [Next]_vars
  PROVE  RegistryBacked'
  <1>1. SUFFICES ASSUME faults' = 0,
                        NEW s \in Servers, status'[s] # "down",
                        NEW d \in registry'[s]
                 PROVE  \E x \in Conns : Holds(x, d)' /\ conn'[x].srv = s
    BY DEF RegistryBacked
  <1>2. faults = 0
    BY <1>1, CountersGrow
  <1>3. ASSUME NEW u \in Servers, ServerStep(u)
        PROVE  \E x \in Conns : Holds(x, d)' /\ conn'[x].srv = s
    <2>1. CASE Exit(u)
      <3>1. s # u
        BY <1>1, <2>1 DEF Exit, TypeOK
      <3>2. PICK x \in Conns : Holds(x, d) /\ conn[x].srv = s
        BY <1>1, <1>2, <2>1, <3>1 DEF RegistryBacked, Exit, TypeOK, redis
      <3>3. conn'[x] = conn[x]
        BY <2>1, <3>1, <3>2 DEF Exit
      <3>4. QED BY <3>2, <3>3 DEF Holds
    <2>2. CASE StartInit(u)
      <3>1. s # u
        BY <1>1, <2>2 DEF StartInit, TypeOK
      <3>2. status[s] # "down" /\ d \in registry[s] /\ conn' = conn
        BY <1>1, <2>2, <3>1 DEF StartInit, TypeOK
      <3>3. QED BY <1>2, <3>2 DEF RegistryBacked, Holds
    <2>3. CASE StartRun(u)
      <3>1. status[s] # "down" /\ d \in registry[s] /\ conn' = conn
        BY <1>1, <2>3 DEF StartRun, TypeOK
      <3>2. QED BY <1>2, <3>1 DEF RegistryBacked, Holds
    <2>4. CASE Interval(u) \/ RefreshDevices(u) \/ RefreshFails(u)
      <3>1. status[s] # "down" /\ d \in registry[s] /\ conn' = conn
        BY <1>1, <2>4
        DEF Interval, RefreshDevices, RefreshFails, TypeOK, redis
      <3>2. QED BY <1>2, <3>1 DEF RegistryBacked, Holds
    <2>5. QED BY <1>3, <2>1, <2>2, <2>3, <2>4 DEF ServerStep
  <1>4. ASSUME NEW c \in Conns, ConnStep(c)
        PROVE  \E x \in Conns : Holds(x, d)' /\ conn'[x].srv = s
    <2>1. status' = status
      BY <1>4 DEF ConnStep, Proceed, Connect, OldGone, KickOld, GiveUp,
           ReadServerNames, NotOnServer, FoundOnServer, InitFails, AddDevice,
           AddDeviceLost, SetClient, LeaveLoop, DeleteFromMap, RemoveDevice,
           RemoveDeviceFails
    <2>2. ~AddDeviceLost(c) /\ ~RemoveDeviceFails(c)
      BY <1>1, <1>2 DEF AddDeviceLost, RemoveDeviceFails, Fault
    <2>3. CASE AddDevice(c) /\ s = conn[c].srv /\ d = conn[c].dev
      BY <2>3 DEF AddDevice, Holds, TypeOK, ConnType
    <2>4. CASE RemoveDevice(c)
      <3>1. d \in registry[s] /\ ~(s = conn[c].srv /\ d = conn[c].dev)
        BY <1>1, <2>4 DEF RemoveDevice, TypeOK
      <3>2. PICK x \in Conns : Holds(x, d) /\ conn[x].srv = s
        BY <1>1, <1>2, <2>1, <3>1 DEF RegistryBacked
      <3>3. x # c
        BY <3>1, <3>2 DEF Holds
      <3>4. QED BY <1>4, <3>2, <3>3, OthersKept DEF Holds
    <2>5. CASE /\ ~(AddDevice(c) /\ s = conn[c].srv /\ d = conn[c].dev)
               /\ ~RemoveDevice(c)
      <3>1. d \in registry[s]
        BY <1>1, <1>4, <2>2, <2>5, RegistryFrame DEF AddDevice, TypeOK
      <3>2. PICK x \in Conns : Holds(x, d) /\ conn[x].srv = s
        BY <1>1, <1>2, <2>1, <3>1 DEF RegistryBacked
      <3>3. QED BY <1>4, <2>2, <2>5, <3>2, HeldKept DEF Holds
    <2>6. QED BY <2>3, <2>4, <2>5
  <1>5. CASE UNCHANGED vars
    BY <1>1, <1>2, <1>5 DEF vars, redis, RegistryBacked, Holds
  <1>6. QED BY <1>3, <1>4, <1>5 DEF Next

(* A running server locks nobody out: every device in its hash has a       *)
(* connection there that is going to remove it (as long as no Redis        *)
(* command went wrong; overlapping connections do no harm here).           *)
THEOREM RegistryBackedHolds == Spec => []RegistryBacked
  <1> DEFINE I == TypeOK /\ ConnsRun /\ InitClean /\ RegistryBacked
  <1>1. Init => I
    BY BaseInductive DEF Init, InitClean, RegistryBacked
  <1>2. I /\ [Next]_vars => I'
    BY BaseInductive, InitCleanStep, RegistryBackedStep
  <1>3. QED BY <1>1, <1>2, PTL DEF Spec

-----------------------------------------------------------------------------
(* waitInit without overlapping connections.                               *)

(* A connection gets into waitInit by Connect only.                        *)
LEMMA InitKept ==
  ASSUME TypeOK, NEW c \in Conns, ConnStep(c),
         ~\E s \in Servers, d \in Devices : Connect(c, s, d),
         NEW x \in Conns, conn'[x].pc \in InitPhases
  PROVE  conn[x].pc \in InitPhases /\ conn'[x].dev = conn[x].dev
  <1>1. CASE x # c
    BY <1>1, OthersKept
  <1>2. CASE x = c
    <2>1. conn' # [conn EXCEPT ![c] = NoConn]
      BY <1>2 DEF NoConn, TypeOK
    <2>2. ~LeaveLoop(c) /\ ~DeleteFromMap(c) /\ ~SetClient(c)
      BY <1>2 DEF LeaveLoop, DeleteFromMap, SetClient, TypeOK, ConnType
    <2>3. OldGone(c) \/ KickOld(c) \/ ReadServerNames(c) \/ AddDevice(c)
            \/ \E s \in Servers : NotOnServer(c, s)
      BY <2>1, <2>2 DEF ConnStep, Proceed, GiveUp, FoundOnServer, InitFails,
         AddDeviceLost, RemoveDevice, RemoveDeviceFails
    <2>4. conn[c].pc \in InitPhases
      BY <2>3 DEF OldGone, KickOld, ReadServerNames, AddDevice, NotOnServer
    <2>5. QED BY <1>2, <2>1, <2>4, OwnKept
  <1>3. QED BY <1>1, <1>2

LEMMA SerialInitStep ==
  ASSUME TypeOK, ConnsRun, SerialInit, [Next]_vars
  PROVE  SerialInit'
  <1>1. SUFFICES ASSUME overlaps' = 0, NEW c1 \in Conns, NEW c2 \in Conns,
                        conn'[c1].pc \in InitPhases,
                        conn'[c2].pc \in InitPhases,
                        conn'[c1].dev = conn'[c2].dev
                 PROVE  c1 = c2
    BY DEF SerialInit
  <1>2. overlaps = 0
    BY <1>1, CountersGrow
  <1>3. ASSUME NEW s \in Servers, ServerStep(s) PROVE c1 = c2
    <2>1. \A x \in Conns : conn'[x] = conn[x] \/ conn'[x] = NoConn
      BY <1>3 DEF ServerStep, StartInit, StartRun, Interval, RefreshDevices,
                  RefreshFails, Exit, redis
    <2>2. QED BY <1>1, <1>2, <2>1 DEF SerialInit, NoConn
  <1>4. ASSUME NEW c \in Conns, ConnStep(c) PROVE c1 = c2
    <2>1. ASSUME NEW s \in Servers, NEW d \in Devices, Connect(c, s, d)
          PROVE  c1 = c2
      <3>1. ~Initialising(d)
        BY <1>1, <1>2, <2>1, Bounds DEF Connect, TypeOK
      <3>2. conn'[c].dev = d /\ \A x \in Conns \ {c} : conn'[x] = conn[x]
        BY <2>1 DEF Connect, TypeOK, NoConn
      <3>3. QED BY <1>1, <1>2, <3>1, <3>2 DEF Initialising, SerialInit
    <2>2. CASE ~\E s \in Servers, d \in Devices : Connect(c, s, d)
      BY <1>1, <1>2, <1>4, <2>2, InitKept DEF SerialInit
    <2>3. QED BY <2>1, <2>2
  <1>5. CASE UNCHANGED vars
    BY <1>1, <1>2, <1>5 DEF vars, SerialInit
  <1>6. QED BY <1>3, <1>4, <1>5 DEF Next

(* The second loop of the argument: who owns the entry of a device in the  *)
(* DevicesMap of its server.                                               *)
LEMMA MapOwnedStep ==
  ASSUME TypeOK, ConnsRun, SerialInit, MapOwned, [Next]_vars
  PROVE  MapOwned'
  <1>1. SUFFICES ASSUME overlaps' = 0, NEW x \in Conns
                 PROVE  /\ conn'[x].pc \in {"names", "check", "set"}
                             => MapEntry(x)' = None
                        /\ conn'[x].pc \in {"loop", "delete"}
                             => MapEntry(x)' = x
    BY DEF MapOwned
  <1>2. overlaps = 0
    BY <1>1, CountersGrow
  <1> DEFINE Goal == /\ conn'[x].pc \in {"names", "check", "set"}
                         => MapEntry(x)' = None
                     /\ conn'[x].pc \in {"loop", "delete"}
                         => MapEntry(x)' = x
  <1>3. ASSUME NEW s \in Servers, ServerStep(s) PROVE Goal
    <2>1. CASE Exit(s)
      <3>1. CASE conn[x].srv = s
        BY <2>1, <3>1 DEF Exit, NoConn
      <3>2. CASE conn[x].srv # s
        <4>1. conn'[x] = conn[x]
          BY <2>1, <3>2 DEF Exit
        <4>2. conn[x].pc # "idle" => MapEntry(x)' = MapEntry(x)
          BY <2>1, <3>2, <4>1 DEF Exit, MapEntry, TypeOK, ConnsRun
        <4>3. QED BY <1>2, <4>1, <4>2 DEF MapOwned
      <3>3. QED BY <3>1, <3>2
    <2>2. CASE ~Exit(s)
      BY <1>2, <1>3, <2>2 DEF ServerStep, StartInit, StartRun, Interval,
         RefreshDevices, RefreshFails, redis, MapOwned, MapEntry
    <2>3. QED BY <2>1, <2>2
  <1>4. ASSUME NEW c \in Conns, ConnStep(c) PROVE Goal
    <2>1. CASE SetClient(c)
      <3>1. CASE x = c
        BY <2>1, <3>1 DEF SetClient, MapEntry, TypeOK, ConnType, ConnsRun
      <3>2. CASE x # c
        <4>1. /\ conn'[x].pc = conn[x].pc /\ conn'[x].srv = conn[x].srv
              /\ conn'[x].dev = conn[x].dev
          BY <1>4, <3>2, OthersKept
        <4>2. conn[x].pc \in {"names", "check", "set", "loop", "delete"} =>
                ~(conn[x].srv = conn[c].srv /\ conn[x].dev = conn[c].dev)
          BY <1>2, <2>1, <3>2, Bounds DEF SetClient, SerialInit, MapOwned, MapEntry
        <4>3. conn[x].pc \in {"names", "check", "set", "loop", "delete"} =>
                MapEntry(x)' = MapEntry(x)
          BY <2>1, <4>1, <4>2
          DEF SetClient, MapEntry, TypeOK, ConnsRun
        <4>4. QED BY <1>2, <4>1, <4>3 DEF MapOwned
      <3>3. QED BY <3>1, <3>2
    <2>2. CASE DeleteFromMap(c)
      <3>1. CASE x = c
        BY <2>2, <3>1 DEF DeleteFromMap, TypeOK, ConnType
      <3>2. CASE x # c
        <4>1. /\ conn'[x].pc = conn[x].pc /\ conn'[x].srv = conn[x].srv
              /\ conn'[x].dev = conn[x].dev
          BY <1>4, <3>2, OthersKept
        <4>2. CASE conn[x].srv = conn[c].srv /\ conn[x].dev = conn[c].dev
          <5>1. conn[x].pc \notin {"loop", "delete"}
            BY <1>2, <2>2, <3>2, <4>2 DEF DeleteFromMap, MapOwned, MapEntry
          <5>2. conn[x].pc \in {"names", "check", "set"} => MapEntry(x)' = None
            BY <2>2, <4>1, <4>2
            DEF DeleteFromMap, MapEntry, TypeOK, ConnsRun
          <5>3. QED BY <4>1, <5>1, <5>2
        <4>3. CASE ~(conn[x].srv = conn[c].srv /\ conn[x].dev = conn[c].dev)
          <5>1. conn[x].pc # "idle" => MapEntry(x)' = MapEntry(x)
            BY <2>2, <4>1, <4>3
            DEF DeleteFromMap, MapEntry, TypeOK, ConnsRun
          <5>2. QED BY <1>2, <4>1, <5>1 DEF MapOwned
        <4>4. QED BY <4>2, <4>3
      <3>3. QED BY <3>1, <3>2
    <2>3. CASE ~SetClient(c) /\ ~DeleteFromMap(c)
      <3>1. devicesMap' = devicesMap
        BY <1>4, <2>3, MapFrame
      <3>2. CASE x # c
        <4>1. /\ conn'[x].pc = conn[x].pc /\ conn'[x].srv = conn[x].srv
              /\ conn'[x].dev = conn[x].dev
          BY <1>4, <3>2, OthersKept
        <4>2. QED BY <1>2, <3>1, <4>1 DEF MapOwned, MapEntry
      <3>3. CASE x = c
        <4>1. CASE OldGone(c)
          BY <3>1, <3>3, <4>1 DEF OldGone, MapEntry, TypeOK, ConnType
        <4>2. CASE ReadServerNames(c)
          BY <1>2, <3>1, <3>3, <4>2
          DEF ReadServerNames, MapOwned, MapEntry, TypeOK, ConnType
        <4>3. ASSUME NEW s \in Servers, NotOnServer(c, s) PROVE Goal
          BY <1>2, <3>1, <3>3, <4>3
          DEF NotOnServer, MapOwned, MapEntry, TypeOK, ConnType
        <4>4. CASE AddDevice(c)
          BY <1>2, <3>1, <3>3, <4>4
          DEF AddDevice, MapOwned, MapEntry, TypeOK, ConnType
        <4>5. CASE LeaveLoop(c)
          BY <1>2, <3>1, <3>3, <4>5
          DEF LeaveLoop, MapOwned, MapEntry, TypeOK, ConnType
        <4>6. CASE KickOld(c)
          <5>1. conn'[c].pc = "wait"
            BY <4>6 DEF KickOld, TypeOK, ConnType
          <5>2. QED BY <3>3, <5>1
        <4>7. CASE \E s \in Servers, d \in Devices : Connect(c, s, d)
          <5>1. conn'[c].pc = "wait"
            BY <4>7 DEF Connect, TypeOK, NoConn
          <5>2. QED BY <3>3, <5>1
        <4>8. CASE conn' = [conn EXCEPT ![c] = NoConn]
          BY <3>3, <4>8 DEF TypeOK, NoConn
        <4>9. QED
          BY <1>4, <2>3, <4>1, <4>2, <4>3, <4>4, <4>5, <4>6, <4>7, <4>8
          DEF ConnStep, Proceed, GiveUp, FoundOnServer, InitFails,
              AddDeviceLost, RemoveDevice, RemoveDeviceFails
      <3>4. QED BY <3>2, <3>3
    <2>4. QED BY <2>1, <2>2, <2>3
  <1>5. CASE UNCHANGED vars
    BY <1>2, <1>5 DEF vars, MapOwned, MapEntry
  <1>6. QED BY <1>3, <1>4, <1>5 DEF Next

(* Without overlapping connections DevicesMap.Set never replaces a         *)
(* session, whatever goes wrong in Redis: it is only called when the entry *)
(* is free.                                                                *)
THEOREM MapNeverReplacedHolds == Spec => MapNeverReplaced
  <1> DEFINE I == TypeOK /\ ConnsRun /\ SerialInit /\ MapOwned
             A == overlaps' = 0 =>
                    \A s \in Servers, d \in Devices :
                      devicesMap'[s][d] # devicesMap[s][d] =>
                        None \in {devicesMap[s][d], devicesMap'[s][d]}
  <1>1. Init => I
    BY BaseInductive DEF Init, SerialInit, MapOwned, NoConn
  <1>2. I /\ [Next]_vars => I'
    BY BaseInductive, SerialInitStep, MapOwnedStep
  <1>3. I /\ [Next]_vars => [A]_vars
    <2>1. SUFFICES ASSUME I, Next, overlaps' = 0,
                          NEW s \in Servers, NEW d \in Devices,
                          devicesMap'[s][d] # devicesMap[s][d]
                   PROVE  None \in {devicesMap[s][d], devicesMap'[s][d]}
      OBVIOUS
    <2>2. overlaps = 0
      BY <2>1, CountersGrow
    <2>3. ASSUME NEW u \in Servers, ServerStep(u)
          PROVE  None \in {devicesMap[s][d], devicesMap'[s][d]}
      BY <2>1, <2>3 DEF ServerStep, StartInit, StartRun, Interval,
         RefreshDevices, RefreshFails, Exit, redis, EmptyMap, TypeOK
    <2>4. ASSUME NEW c \in Conns, ConnStep(c)
          PROVE  None \in {devicesMap[s][d], devicesMap'[s][d]}
      <3>1. CASE SetClient(c)
        BY <2>1, <2>2, <3>1 DEF SetClient, MapOwned, MapEntry, TypeOK
      <3>2. CASE DeleteFromMap(c)
        BY <2>1, <3>2 DEF DeleteFromMap, TypeOK
      <3>3. QED BY <2>1, <2>4, <3>1, <3>2, MapFrame
    <2>5. QED BY <2>1, <2>3, <2>4 DEF Next
  <1>4. QED BY <1>1, <1>2, <1>3, PTL DEF Spec, MapNeverReplaced

-----------------------------------------------------------------------------
(* The registry, without overlapping connections and Redis errors.         *)

LEMMA ListedStep ==
  ASSUME TypeOK, ConnsRun, Listed, [Next]_vars
  PROVE  Listed'
  <1>1. SUFFICES ASSUME faults' = 0, faults = 0
                 PROVE  Listed'
    BY CountersGrow DEF Listed
  <1>2. ASSUME NEW s \in Servers, ServerStep(s) PROVE Listed'
    BY <1>1, <1>2 DEF ServerStep, StartInit, StartRun, Interval,
       RefreshDevices, RefreshFails, Exit, Fault, Listed, TypeOK, redis
  <1>3. ASSUME NEW c \in Conns, ConnStep(c) PROVE Listed'
    <2>1. status' = status /\ cometNodes' = cometNodes
      BY <1>3 DEF ConnStep, Proceed, Connect, OldGone, KickOld, GiveUp,
           ReadServerNames, NotOnServer, FoundOnServer, InitFails, AddDevice,
           AddDeviceLost, SetClient, LeaveLoop, DeleteFromMap, RemoveDevice,
           RemoveDeviceFails, redis
    <2>2. CASE AddDevice(c) \/ AddDeviceLost(c) \/ RemoveDevice(c)
      <3>1. conn[c].srv \in cometNodes
        BY <1>1, <2>2
        DEF Listed, ConnsRun, AddDevice, AddDeviceLost, RemoveDevice
      <3>2. \A s \in Servers \ {conn[c].srv} : registry'[s] = registry[s]
        BY <2>2 DEF AddDevice, AddDeviceLost, RemoveDevice, TypeOK
      <3>3. QED BY <1>1, <2>1, <3>1, <3>2 DEF Listed
    <2>3. CASE ~(AddDevice(c) \/ AddDeviceLost(c) \/ RemoveDevice(c))
      BY <1>1, <1>3, <2>1, <2>3, RegistryFrame DEF Listed
    <2>4. QED BY <2>2, <2>3
  <1>4. CASE UNCHANGED vars
    BY <1>1, <1>4 DEF vars, redis, Listed
  <1>5. QED BY <1>2, <1>3, <1>4 DEF Next

(* NODE_EXPIRE_TIMEOUT is at least two intervals, so the time to live of a *)
(* running server's hash never gets down to zero.                          *)
LEMMA TtlRenewedStep ==
  ASSUME TypeOK, ConnsRun, InitClean, TtlRenewed, [Next]_vars
  PROVE  TtlRenewed'
  <1>1. SUFFICES ASSUME faults' = 0, faults = 0, NEW s \in Servers,
                        status'[s] = "run", ttl'[s] > 0
                 PROVE  ttl'[s] = IF due'[s] THEN ExpireTicks - 1
                                             ELSE ExpireTicks
    BY CountersGrow DEF TtlRenewed
  <1> DEFINE Goal == ttl'[s] = IF due'[s] THEN ExpireTicks - 1 ELSE ExpireTicks
  <1>2. ASSUME NEW u \in Servers, ServerStep(u) PROVE Goal
    <2>1. CASE u # s
      <3>1. ttl'[s] = ttl[s] /\ due'[s] = due[s] /\ status'[s] = status[s]
        BY <1>2, <2>1 DEF ServerStep, StartInit, StartRun, Interval,
           RefreshDevices, RefreshFails, Exit, TypeOK, redis
      <3>2. QED BY <1>1, <3>1 DEF TtlRenewed
    <2>2. CASE u = s
      <3>1. CASE StartInit(s)
        BY <1>1, <3>1 DEF StartInit, TypeOK
      <3>2. CASE StartRun(s)
        BY <1>1, <3>2 DEF StartRun, InitClean, TypeOK
      <3>3. CASE Interval(s)
        BY <1>1, <3>3, Bounds DEF Interval, TtlRenewed, TypeOK
      <3>4. CASE RefreshDevices(s)
        BY <1>1, <3>4, Bounds DEF RefreshDevices, TtlOf, TypeOK
      <3>5. CASE RefreshFails(s)
        BY <1>1, <3>5 DEF RefreshFails, Fault
      <3>6. CASE Exit(s)
        BY <1>1, <3>6 DEF Exit, TypeOK
      <3>7. QED BY <1>2, <2>2, <3>1, <3>2, <3>3, <3>4, <3>5, <3>6 DEF ServerStep
    <2>3. QED BY <2>1, <2>2
  <1>3. ASSUME NEW c \in Conns, ConnStep(c) PROVE Goal
    <2>1. status' = status /\ due' = due
      BY <1>3 DEF ConnStep, Proceed, Connect, OldGone, KickOld, GiveUp,
           ReadServerNames, NotOnServer, FoundOnServer, InitFails, AddDevice,
           AddDeviceLost, SetClient, LeaveLoop, DeleteFromMap, RemoveDevice,
           RemoveDeviceFails
    <2>2. CASE RemoveDevice(c)
      <3>1. ttl'[s] = ttl[s] \/ ttl'[s] = 0
        BY <2>2 DEF RemoveDevice, TtlOf, TypeOK
      <3>2. QED BY <1>1, <2>1, <3>1 DEF TtlRenewed
    <2>3. CASE ~RemoveDevice(c)
      <3>1. ttl' = ttl
        BY <1>3, <2>3, RegistryFrame DEF AddDevice, AddDeviceLost
      <3>2. QED BY <1>1, <2>1, <3>1 DEF TtlRenewed
    <2>4. QED BY <2>2, <2>3
  <1>4. CASE UNCHANGED vars
    BY <1>1, <1>4 DEF vars, redis, TtlRenewed
  <1>5. QED BY <1>2, <1>3, <1>4 DEF Next

(* Nothing disappears from the hash of a running server by itself.         *)
LEMMA RunningKept ==
  ASSUME TypeOK, TtlRenewed, faults = 0, faults' = 0,
         NEW u \in Servers, ServerStep(u),
         NEW s \in Servers, status[s] = "run"
  PROVE  registry'[s] = registry[s]
  <1>1. CASE Interval(u)
    BY <1>1, Bounds DEF Interval, TtlRenewed, TypeOK
  <1>2. CASE ~Interval(u)
    BY <1>2 DEF ServerStep, StartInit, StartRun, RefreshDevices,
       RefreshFails, Exit, TypeOK, redis
  <1>3. QED BY <1>1, <1>2

(* No server step adds to a hash or to a CheckDevice in progress, and the  *)
(* connections it does not end stay as they are.                           *)
LEMMA ServerFrame ==
  ASSUME TypeOK, NEW u \in Servers, ServerStep(u)
  PROVE  /\ \A s \in Servers : registry'[s] \subseteq registry[s]
         /\ \A x \in Conns : conn'[x] = conn[x] \/ conn'[x] = NoConn
  BY DEF ServerStep, StartInit, StartRun, Interval, RefreshDevices,
         RefreshFails, Exit, TypeOK, redis

(* A connection gets into its session by AddDevice only.                   *)
LEMMA HeldOrigin ==
  ASSUME TypeOK, NEW c \in Conns, ConnStep(c), ~AddDevice(c),
         NEW x \in Conns, conn'[x].pc \in HeldPhases
  PROVE  /\ conn[x].pc \in HeldPhases
         /\ conn'[x].srv = conn[x].srv /\ conn'[x].dev = conn[x].dev
  <1>1. CASE x # c
    BY <1>1, OthersKept
  <1>2. CASE x = c
    <2>1. conn' # [conn EXCEPT ![c] = NoConn]
      BY <1>2 DEF NoConn, TypeOK
    <2>2. ~\E s \in Servers, d \in Devices : Connect(c, s, d)
      BY <1>2 DEF Connect, TypeOK, NoConn
    <2>3. ~KickOld(c)
      BY <1>2 DEF KickOld, TypeOK, ConnType
    <2>4. ~OldGone(c) /\ ~ReadServerNames(c)
            /\ ~\E s \in Servers : NotOnServer(c, s)
      BY <1>2 DEF OldGone, ReadServerNames, NotOnServer, TypeOK, ConnType
    <2>5. SetClient(c) \/ LeaveLoop(c) \/ DeleteFromMap(c)
      BY <2>1, <2>2, <2>3, <2>4 DEF ConnStep, Proceed, GiveUp, FoundOnServer,
         InitFails, AddDeviceLost, RemoveDevice, RemoveDeviceFails
    <2>6. QED
      BY <1>2, <2>5 DEF SetClient, LeaveLoop, DeleteFromMap, TypeOK, ConnType
  <1>3. QED BY <1>1, <1>2

(* AddDevice happens when the device is registered nowhere, so nobody      *)
(* holds it.                                                               *)
LEMMA AddDeviceFree ==
  ASSUME TypeOK, ConnsRun, HeldRegistered, CheckedFree,
         overlaps = 0, faults = 0, NEW c \in Conns, AddDevice(c)
  PROVE  /\ \A s \in Servers : conn[c].dev \notin registry[s]
         /\ \A x \in Conns : ~Holds(x, conn[c].dev)
  <1>1. \A s \in Servers : conn[c].dev \notin registry[s]
    BY DEF AddDevice, CheckedFree
  <1>2. QED BY <1>1 DEF HeldRegistered, Holds, ConnsRun

LEMMA HeldRegisteredStep ==
  ASSUME TypeOK, ConnsRun, TtlRenewed, HeldRegistered, OneSession, [Next]_vars
  PROVE  HeldRegistered'
  <1>1. SUFFICES ASSUME overlaps' = 0, faults' = 0, NEW x \in Conns,
                        conn'[x].pc \in HeldPhases
                 PROVE  conn'[x].dev \in registry'[conn'[x].srv]
    BY DEF HeldRegistered
  <1>2. overlaps = 0 /\ faults = 0
    BY <1>1, CountersGrow
  <1>3. ASSUME NEW u \in Servers, ServerStep(u)
        PROVE  conn'[x].dev \in registry'[conn'[x].srv]
    <2>1. conn'[x] = conn[x]
      BY <1>1, <1>3, ServerFrame DEF NoConn
    <2>2. conn[x].srv \in Servers /\ status[conn[x].srv] = "run"
      BY <1>1, <2>1 DEF ConnsRun
    <2>3. registry'[conn[x].srv] = registry[conn[x].srv]
      BY <1>1, <1>2, <1>3, <2>2, RunningKept
    <2>4. QED BY <1>1, <1>2, <2>1, <2>3 DEF HeldRegistered
  <1>4. ASSUME NEW c \in Conns, ConnStep(c)
        PROVE  conn'[x].dev \in registry'[conn'[x].srv]
    <2>1. CASE AddDevice(c)
      <3>1. conn[c].srv \in Servers
        BY <2>1 DEF AddDevice, ConnsRun
      <3>2. CASE x = c
        BY <2>1, <3>1, <3>2 DEF AddDevice, TypeOK, ConnType
      <3>3. CASE x # c
        <4>1. conn'[x] = conn[x]
          BY <2>1, <3>3 DEF AddDevice
        <4>2. conn[x].dev \in registry[conn[x].srv] /\ conn[x].srv \in Servers
          BY <1>1, <1>2, <4>1 DEF HeldRegistered, ConnsRun
        <4>3. QED BY <2>1, <3>1, <4>1, <4>2 DEF AddDevice, TypeOK
      <3>4. QED BY <3>2, <3>3
    <2>2. CASE ~AddDevice(c)
      <3>1. /\ conn[x].pc \in HeldPhases
            /\ conn'[x].srv = conn[x].srv /\ conn'[x].dev = conn[x].dev
        BY <1>1, <1>4, <2>2, HeldOrigin
      <3>2. conn[x].dev \in registry[conn[x].srv]
        BY <1>2, <3>1 DEF HeldRegistered
      <3>3. CASE RemoveDevice(c)
        <4>1. x # c
          BY <1>1, <3>3 DEF RemoveDevice, NoConn, TypeOK
        <4>2. conn[x].dev \in Devices /\ conn[x].srv \in Servers
          BY <3>1 DEF ConnsRun
        <4>3. conn[x].dev # conn[c].dev
          BY <1>2, <3>1, <3>3, <4>1, <4>2 DEF RemoveDevice, OneSession, Holds
        <4>4. QED BY <3>1, <3>2, <3>3, <4>2, <4>3 DEF RemoveDevice, TypeOK
      <3>4. CASE ~RemoveDevice(c)
        <4>1. ~AddDeviceLost(c)
          BY <1>1, <1>2 DEF AddDeviceLost, Fault
        <4>2. registry' = registry
          BY <1>4, <2>2, <3>4, <4>1, RegistryFrame
        <4>3. QED BY <3>1, <3>2, <4>2
      <3>5. QED BY <3>3, <3>4
    <2>3. QED BY <2>1, <2>2
  <1>5. CASE UNCHANGED vars
    BY <1>1, <1>2, <1>5 DEF vars, redis, HeldRegistered
  <1>6. QED BY <1>3, <1>4, <1>5 DEF Next

LEMMA CheckedFreeStep ==
  ASSUME TypeOK, ConnsRun, SerialInit, Listed, CheckedFree, [Next]_vars
  PROVE  CheckedFree'
  <1>1. SUFFICES ASSUME overlaps' = 0, faults' = 0, NEW x \in Conns,
                        conn'[x].pc = "check", NEW s \in Servers,
                        s \notin conn'[x].names
                 PROVE  conn'[x].dev \notin registry'[s]
    BY DEF CheckedFree
  <1>2. overlaps = 0 /\ faults = 0
    BY <1>1, CountersGrow
  <1>3. ASSUME NEW u \in Servers, ServerStep(u)
        PROVE  conn'[x].dev \notin registry'[s]
    BY <1>1, <1>2, <1>3, ServerFrame DEF NoConn, CheckedFree
  <1>4. ASSUME NEW c \in Conns, ConnStep(c)
        PROVE  conn'[x].dev \notin registry'[s]
    <2>1. ~AddDeviceLost(c)
      BY <1>1, <1>2 DEF AddDeviceLost, Fault
    <2>2. CASE x # c
      <3>1. /\ conn[x].pc = "check" /\ s \notin conn[x].names
            /\ conn'[x].dev = conn[x].dev
        BY <1>1, <1>4, <2>2, OthersKept
      <3>2. conn[x].dev \notin registry[s]
        BY <1>2, <3>1 DEF CheckedFree
      <3>3. CASE AddDevice(c)
        <4>1. conn[x].dev # conn[c].dev
          BY <1>2, <2>2, <3>1, <3>3 DEF AddDevice, SerialInit
        <4>2. QED BY <3>1, <3>2, <3>3, <4>1 DEF AddDevice, TypeOK
      <3>4. CASE RemoveDevice(c)
        BY <3>1, <3>2, <3>4 DEF RemoveDevice, TypeOK
      <3>5. CASE ~AddDevice(c) /\ ~RemoveDevice(c)
        BY <1>4, <2>1, <3>1, <3>2, <3>5, RegistryFrame
      <3>6. QED BY <3>3, <3>4, <3>5
    <2>3. CASE x = c
      <3>1. ASSUME NEW u \in Servers, NotOnServer(c, u)
            PROVE  conn'[x].dev \notin registry'[s]
        BY <1>1, <1>2, <2>3, <3>1 DEF NotOnServer, CheckedFree, TypeOK,
           ConnType, redis
      <3>2. CASE ReadServerNames(c)
        BY <1>1, <1>2, <2>3, <3>2 DEF ReadServerNames, Listed, TypeOK,
           ConnType, redis
      <3>3. CASE /\ ~ReadServerNames(c)
                 /\ ~\E u \in Servers : NotOnServer(c, u)
        <4>1. conn' # [conn EXCEPT ![c] = NoConn]
          BY <1>1, <2>3 DEF NoConn, TypeOK
        <4>2. ~\E u \in Servers, d \in Devices : Connect(c, u, d)
          <5>1. ASSUME NEW u \in Servers, NEW d \in Devices, Connect(c, u, d)
                PROVE  conn'[c].pc = "wait"
            BY <5>1 DEF Connect, TypeOK, NoConn
          <5>2. QED BY <1>1, <2>3, <5>1
        <4>3. ~KickOld(c)
          BY <1>1, <2>3 DEF KickOld, TypeOK, ConnType
        <4>4. ~OldGone(c) /\ ~AddDevice(c) /\ ~SetClient(c)
                /\ ~LeaveLoop(c) /\ ~DeleteFromMap(c)
          BY <1>1, <2>3 DEF OldGone, AddDevice, SetClient, LeaveLoop,
             DeleteFromMap, TypeOK, ConnType
        <4>5. QED
          BY <1>4, <3>3, <4>1, <4>2, <4>3, <4>4 DEF ConnStep, Proceed, GiveUp,
             FoundOnServer, InitFails, AddDeviceLost, RemoveDevice,
             RemoveDeviceFails
      <3>4. QED BY <3>1, <3>2, <3>3
    <2>4. QED BY <2>2, <2>3
  <1>5. CASE UNCHANGED vars
    BY <1>1, <1>2, <1>5 DEF vars, redis, CheckedFree
  <1>6. QED BY <1>3, <1>4, <1>5 DEF Next

LEMMA OneSessionStep ==
  ASSUME TypeOK, ConnsRun, HeldRegistered, CheckedFree, OneSession, [Next]_vars
  PROVE  OneSession'
  <1>1. SUFFICES ASSUME overlaps' = 0, faults' = 0,
                        NEW c1 \in Conns, NEW c2 \in Conns, NEW d \in Devices,
                        Holds(c1, d)', Holds(c2, d)'
                 PROVE  c1 = c2
    BY DEF OneSession
  <1>2. overlaps = 0 /\ faults = 0
    BY <1>1, CountersGrow
  <1>3. ASSUME NEW u \in Servers, ServerStep(u) PROVE c1 = c2
    BY <1>1, <1>2, <1>3, ServerFrame DEF OneSession, Holds, NoConn
  <1>4. ASSUME NEW c \in Conns, ConnStep(c) PROVE c1 = c2
    <2>1. CASE AddDevice(c)
      <3>1. \A x \in Conns : ~Holds(x, conn[c].dev)
        BY <1>2, <2>1, AddDeviceFree
      <3>2. \A x \in Conns \ {c} : conn'[x] = conn[x]
        BY <2>1 DEF AddDevice
      <3>3. conn'[c].dev = conn[c].dev
        BY <2>1 DEF AddDevice, TypeOK, ConnType
      <3>4. QED BY <1>1, <1>2, <3>1, <3>2, <3>3 DEF Holds, OneSession
    <2>2. CASE ~AddDevice(c)
      BY <1>1, <1>2, <1>4, <2>2, HeldOrigin DEF OneSession, Holds
    <2>3. QED BY <2>1, <2>2
  <1>5. CASE UNCHANGED vars
    BY <1>1, <1>2, <1>5 DEF vars, OneSession, Holds
  <1>6. QED BY <1>3, <1>4, <1>5 DEF Next

-----------------------------------------------------------------------------
(* The inductive invariant.                                                *)
FullInv == TypeOK /\ SessionInv /\ OneSession

LEMMA FullInvInit == Init => FullInv
  BY BaseInductive DEF Init, FullInv, SessionInv, OneSession, InitClean,
     SerialInit, MapOwned, Listed, TtlRenewed, HeldRegistered, CheckedFree,
     Holds, NoConn

LEMMA FullInvStep == FullInv /\ [Next]_vars => FullInv'
  BY BaseInductive, InitCleanStep, SerialInitStep, MapOwnedStep, ListedStep,
     TtlRenewedStep, HeldRegisteredStep, CheckedFreeStep, OneSessionStep
  DEF FullInv, SessionInv

LEMMA FullInvHolds == Spec => []FullInv
  BY FullInvInit, FullInvStep, PTL DEF Spec

(* One session per device in the whole cluster, through every interleaving *)
(* of initialising and closing connections, refreshes, expiries, exits and *)
(* restarts.                                                               *)
THEOREM OneSessionHolds == Spec => []OneSession
  <1>1. FullInv => OneSession
    BY DEF FullInv
  <1>2. QED BY <1>1, FullInvHolds, PTL

(* Who is in the read loop is in DevicesMap, in the hash of its server and *)
(* its server in comet_nodes.                                              *)
THEOREM SessionFindableHolds == Spec => []SessionFindable
  <1>1. FullInv => SessionFindable
    BY DEF FullInv, SessionInv, SessionFindable, ConnsRun, MapOwned, Listed,
       HeldRegistered
  <1>2. QED BY <1>1, FullInvHolds, PTL

-----------------------------------------------------------------------------
(* Refinement: sessions are leases.                                        *)

Calm == overlaps = 0 /\ faults = 0

(* With at most one session per device the holder is that session.         *)
LEMMA HolderIs ==
  ASSUME OneSession, Calm, NEW d \in Devices
  PROVE  /\ \A c \in Conns : Holds(c, d) => Holder(d) = c
         /\ (\A c \in Conns : ~Holds(c, d)) => Holder(d) = None
         /\ Holder(d) # None => Holder(d) \in Conns /\ Holds(Holder(d), d)
  BY DEF Calm, OneSession, Holder

LEMMA HolderIsNext ==
  ASSUME OneSession', Calm', NEW d \in Devices
  PROVE  /\ \A c \in Conns : Holds(c, d)' => Holder(d)' = c
         /\ (\A c \in Conns : ~Holds(c, d)') => Holder(d)' = None
  BY DEF Calm, OneSession, Holder

(* Who keeps its sessions keeps its holder.                                *)
LEMMA HolderKept ==
  ASSUME OneSession, Calm, OneSession', Calm', NEW d \in Devices,
         \A c \in Conns : Holds(c, d)' <=> Holds(c, d)
  PROVE  Holder(d)' = Holder(d)
  <1>1. CASE \E c \in Conns : Holds(c, d)
    BY <1>1, HolderIs, HolderIsNext
  <1>2. CASE \A c \in Conns : ~Holds(c, d)
    BY <1>2, HolderIs, HolderIsNext
  <1>3. QED BY <1>1, <1>2

LEMMA LeaseStep ==
  ASSUME FullInv, Calm, FullInv', Calm', [Next]_vars
  PROVE  [Lease!Next]_([d \in Devices |-> Holder(d)])
  <1> DEFINE h == [d \in Devices |-> Holder(d)]
  <1>1. TypeOK /\ ConnsRun /\ OneSession /\ HeldRegistered /\ CheckedFree
          /\ OneSession'
    BY DEF FullInv, SessionInv
  <1>2. SUFFICES Lease!Next \/ h' = h
    OBVIOUS
  <1>3. ASSUME \A d \in Devices, c \in Conns : Holds(c, d)' <=> Holds(c, d)
        PROVE  h' = h
    BY <1>1, <1>3, HolderKept
  <1>4. ASSUME NEW s \in Servers, ServerStep(s)
        PROVE  Lease!Next \/ h' = h
    <2>1. CASE Exit(s)
      <3> DEFINE D == {d \in Devices :
                         \E c \in Conns : Holds(c, d) /\ conn[c].srv = s}
      <3>1. ASSUME NEW d \in D PROVE Holder(d)' = None
        <4>1. \A c \in Conns : ~Holds(c, d)'
          BY <1>1, <2>1, Calm DEF Exit, Holds, NoConn, OneSession, Calm
        <4>2. QED BY <1>1, <4>1, HolderIsNext
      <3>2. ASSUME NEW d \in Devices \ D PROVE Holder(d)' = Holder(d)
        <4>1. \A c \in Conns : Holds(c, d)' <=> Holds(c, d)
          BY <2>1 DEF Exit, Holds, NoConn
        <4>2. QED BY <1>1, <4>1, HolderKept
      <3>3. CASE D = {}
        BY <3>2, <3>3
      <3>4. CASE D # {}
        <4>1. h' = [d \in Devices |-> IF d \in D THEN None ELSE h[d]]
          BY <3>1, <3>2
        <4>2. Lease!Lose(D)
          BY <3>4, <4>1 DEF Lease!Lose
        <4>3. QED BY <4>2 DEF Lease!Next
      <3>5. QED BY <3>3, <3>4
    <2>2. CASE ~Exit(s)
      <3>1. conn' = conn
        BY <1>4, <2>2 DEF ServerStep, StartInit, StartRun, Interval,
           RefreshDevices, RefreshFails
      <3>2. QED BY <1>3, <3>1 DEF Holds
    <2>3. QED BY <2>1, <2>2
  <1>5. ASSUME NEW c \in Conns, ConnStep(c)
        PROVE  Lease!Next \/ h' = h
    <2>1. ~AddDeviceLost(c) /\ ~RemoveDeviceFails(c)
      BY <1>1 DEF Calm, AddDeviceLost, RemoveDeviceFails, Fault
    <2>2. CASE AddDevice(c)
      <3>1. PICK d \in Devices : d = conn[c].dev /\ conn[c].pc = "check"
        BY <1>1, <2>2 DEF AddDevice, ConnsRun
      <3>2. h[d] = None
        BY <1>1, <2>2, <3>1, AddDeviceFree, HolderIs DEF Calm
      <3>3. \A e \in Devices : h[e] # c
        <4>1. \A e \in Devices : ~Holds(c, e)
          BY <3>1 DEF Holds
        <4>2. QED BY <1>1, <4>1, HolderIs, Bounds
      <3>4. Holds(c, d)'
        BY <1>1, <2>2, <3>1 DEF AddDevice, Holds, TypeOK, ConnType
      <3>5. \A e \in Devices \ {d}, x \in Conns : Holds(x, e)' <=> Holds(x, e)
        BY <1>1, <2>2, <3>1 DEF AddDevice, Holds, TypeOK, ConnType
      <3>6. h' = [h EXCEPT ![d] = c]
        <4>1. Holder(d)' = c
          BY <1>1, <3>4, HolderIsNext
        <4>2. \A e \in Devices \ {d} : Holder(e)' = Holder(e)
          BY <1>1, <3>5, HolderKept
        <4>3. QED BY <4>1, <4>2
      <3>7. Lease!Acquire(d, c)
        BY <3>2, <3>3, <3>6 DEF Lease!Acquire
      <3>8. QED BY <3>1, <3>7 DEF Lease!Next
    <2>3. CASE RemoveDevice(c)
      <3>1. PICK d \in Devices : d = conn[c].dev /\ Holds(c, d)
        BY <1>1, <2>3 DEF RemoveDevice, ConnsRun, Holds
      <3>2. h[d] # None
        BY <1>1, <3>1, HolderIs, Bounds
      <3>3. \A x \in Conns : ~Holds(x, d)'
        BY <1>1, <2>3, <3>1 DEF RemoveDevice, Holds, NoConn, TypeOK,
           OneSession, Calm
      <3>4. \A e \in Devices \ {d}, x \in Conns : Holds(x, e)' <=> Holds(x, e)
        BY <1>1, <2>3, <3>1 DEF RemoveDevice, Holds, NoConn, TypeOK
      <3>5. h' = [h EXCEPT ![d] = None]
        <4>1. Holder(d)' = None
          BY <1>1, <3>3, HolderIsNext
        <4>2. \A e \in Devices \ {d} : Holder(e)' = Holder(e)
          BY <1>1, <3>4, HolderKept
        <4>3. QED BY <4>1, <4>2
      <3>6. Lease!Release(d)
        BY <3>1, <3>2, <3>5 DEF Lease!Release
      <3>7. QED BY <3>1, <3>6 DEF Lease!Next
    <2>4. CASE ~AddDevice(c) /\ ~RemoveDevice(c)
      <3>1. ASSUME NEW e \in Devices, NEW x \in Conns
            PROVE  Holds(x, e)' <=> Holds(x, e)
        BY <1>1, <1>5, <2>1, <2>4, HeldKept, HeldOrigin DEF Holds
      <3>2. QED BY <1>3, <3>1
    <2>5. QED BY <2>2, <2>3, <2>4
  <1>6. CASE UNCHANGED vars
    BY <1>3, <1>6 DEF vars, Holds
  <1>7. QED BY <1>4, <1>5, <1>6 DEF Next

(* As long as devices do not overlap their connections and Redis does as   *)
(* it is told, the sessions of the comet servers implement leases: every   *)
(* step takes, gives back or loses leases, or changes none.                *)
THEOREM LeaseImplemented ==
  ASSUME MaxOverlaps = 0, MaxFaults = 0
  PROVE  Spec => LeaseSpec
  <1>1. TypeOK => Calm
    BY DEF TypeOK, Calm
  <1>2. Init => Lease!Init
    <2>1. SUFFICES ASSUME Init, NEW d \in Devices PROVE Holder(d) = None
      BY DEF Lease!Init
    <2>2. QED BY <2>1 DEF Init, Holder, Holds, NoConn
  <1>3. FullInv /\ FullInv' /\ [Next]_vars =>
          [Lease!Next]_([d \in Devices |-> Holder(d)])
    <2>1. SUFFICES ASSUME FullInv, FullInv', [Next]_vars
                   PROVE  [Lease!Next]_([d \in Devices |-> Holder(d)])
      OBVIOUS
    <2>2. Calm /\ Calm'
      BY <2>1 DEF FullInv, TypeOK, Calm
    <2>3. QED BY <2>1, <2>2, LeaseStep
  <1>4. QED BY <1>2, <1>3, FullInvHolds, PTL DEF Spec, LeaseSpec, Lease!Spec
=============================================================================
