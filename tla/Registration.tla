---------------------------- MODULE Registration ----------------------------
(***************************************************************************)
(* The registration of an app on a device: what the comet server keeps in  *)
(* memory (AppManager.regappMap and Client.RegApps), what Redis keeps      *)
(* (db_app_<app>, db_device_<device>, db_user_<user>), and the jobs by     *)
(* which acknowledged pushes get from one to the other.                    *)
(*                                                                         *)
(* One device, one app and one comet process; registrations of other       *)
(* devices and apps have registration ids and hash fields of their own.    *)
(* The device has one connection at a time (see CometSession).  The        *)
(* goroutine of the connection handles one request after the other; every  *)
(* Redis command of a handler is a step.  The workers run beside it, and   *)
(* a worker keeps the jobs of a connection that is gone.                   *)
(*                                                                         *)
(* Topics and SendIds of an AppInfo are Go slices.  A queued job holds a   *)
(* copy of the AppInfo, but not of the arrays behind the slices.           *)
(***************************************************************************)
EXTENDS Integers, Sequences, SequencesExt

CONSTANTS
  RegIds,      \* registration ids: one for each user, one for no user
  WithUser,    \* those of a user
  Topics,      \* names of topics
  SendIds,     \* send ids
  MaxTopics,   \* limit on the topics of a registration (10)
  MaxSendIds,  \* bound on the send ids of a registration
  MaxMsg,      \* bound on the ids of messages
  MaxFaults,   \* bound on the failures counted by  faults
  Workers,     \* workers of the process
  QueueCap,    \* capacity of a worker's jobChannel (1000)
  None         \* no registration, no worker, no entry

ASSUME NoneAssumption == None \notin RegIds \union Workers
ASSUME UserAssumption == WithUser \subseteq RegIds
ASSUME BoundAssumption ==
  /\ {MaxTopics, MaxMsg, MaxFaults, QueueCap} \subseteq Nat
  /\ MaxSendIds \in Nat \ {0}

VARIABLES
  dbApp,      \* Redis hash db_app_<app>: the stored AppInfo, or None
  dbDevice,   \* field <app> of the Redis hash db_device_<device>, or None
  dbUser,     \* the registration ids in the Redis hashes db_user_<user>
  regappMap,  \* the registrations in memory
  regApp,     \* the registration in Client.RegApps, or None
  worker,     \* the worker of the connection; None: no connection
  handler,    \* what the connection's goroutine is doing
  queue,      \* jobChannel of each worker
  known,      \* the registration id the device believes in, or None
  acked,      \* per registration id the last message the device has
              \* acknowledged, in the past and now
  faults,     \* how often a Redis command failed, or the process ended
              \* within a handler
  stale       \* a job was written after its registration or connection ended

redis  == <<dbApp, dbDevice, dbUser>>
memory == <<regappMap, regApp>>
device == <<known, acked>>
vars   == <<redis, memory, worker, handler, queue, device, faults, stale>>

-----------------------------------------------------------------------------
(* AppInfo; message ids start with 1, last 0 stands for LastMsgId -1.      *)
Fresh == [last |-> 0, topics |-> <<>>, sendids |-> <<>>]

Idle == [pc |-> "idle", reg |-> None, ids |-> {}]

Init ==
  /\ dbApp = [r \in RegIds |-> None]
  /\ dbDevice = None
  /\ dbUser = {}
  /\ regappMap = [r \in RegIds |-> None]
  /\ regApp = None
  /\ worker = None
  /\ handler = Idle
  /\ queue = [w \in Workers |-> <<>>]
  /\ known = None
  /\ acked = [r \in RegIds |-> 0]
  /\ faults = 0
  /\ stale = FALSE

Fault == faults < MaxFaults /\ faults' = faults + 1

(* The goroutine waits for a request.                                      *)
Ready == worker # None /\ handler = Idle

(* Requests for an existing registration carry its id.                     *)
Requested == Ready /\ known # None /\ known = regApp

(* The device gets the reply to what it asked for, or loses it.            *)
Told(r) == known' \in {known, r}

OnJobs(F(_)) ==
  [w \in Workers |-> [i \in DOMAIN queue[w] |-> F(queue[w][i])]]

(* A job of a connection or a registration that has ended; its slices are  *)
(* its own from now on.                                                    *)
Outlived(j) == [j EXCEPT !.live = FALSE, !.shared = {}]

-----------------------------------------------------------------------------
(* Wrong variants of definitions below, each a mistake one could make in   *)
(* the code; none is part of the specification.                            *)

(* closeClient without DelApp. *)
DisconnectKeepsApps ==
  /\ Ready
  /\ worker' = None /\ regApp' = None
  /\ queue' = OnJobs(Outlived)
  /\ UNCHANGED <<redis, regappMap, handler, device, faults, stale>>

(* handlePushReply without the comparison of RegId. *)
PushReplyAnyRegId(r, n) ==
  LET new == [regappMap[regApp] EXCEPT !.last = n]
  IN /\ Ready /\ regApp # None /\ n > regappMap[regApp].last
     /\ Len(queue[worker]) < QueueCap
     /\ regappMap' = [regappMap EXCEPT ![regApp] = new]
     /\ queue' = [queue EXCEPT ![worker] =
                    Append(@, [reg |-> r, info |-> new, live |-> TRUE,
                               shared |-> {"topics", "sendids"}])]
     /\ acked' = [acked EXCEPT ![r] = IF n > @ THEN n ELSE @]
     /\ UNCHANGED <<redis, regApp, worker, handler, known, faults, stale>>

(* handlePushReply without the comparison with LastMsgId. *)
PushReplyAnyOrder(r, n) ==
  LET new == [regappMap[r] EXCEPT !.last = n]
  IN /\ Ready /\ r = regApp /\ Len(queue[worker]) < QueueCap
     /\ regappMap' = [regappMap EXCEPT ![r] = new]
     /\ queue' = [queue EXCEPT ![worker] =
                    Append(@, [reg |-> r, info |-> new, live |-> TRUE,
                               shared |-> {"topics", "sendids"}])]
     /\ acked' = [acked EXCEPT ![r] = IF n > @ THEN n ELSE @]
     /\ UNCHANGED <<redis, regApp, worker, handler, known, faults, stale>>

(* RegisterApp does not record the app of the device. *)
RegisterDeviceForgotten ==
  /\ handler.pc = "regDevice"
  /\ handler' = [handler EXCEPT !.pc = "regUser"]
  /\ UNCHANGED <<redis, memory, worker, queue, device, faults, stale>>

(* UpdateJob writes without LastMsgId. *)
UpdateJobNoLast(w) ==
  LET job == Head(queue[w])
  IN /\ queue[w] # <<>>
     /\ queue' = [queue EXCEPT ![w] = Tail(@)]
     /\ stale' = (stale \/ ~job.live)
     /\ dbApp' = [dbApp EXCEPT ![job.reg] = [job.info EXCEPT !.last = 0]]
     /\ UNCHANGED <<dbDevice, dbUser, memory, worker, handler, device, faults>>

(* The new list of topics is not put into memory. *)
PutStoredOnly(info) ==
  /\ dbApp' = [dbApp EXCEPT ![regApp] = info]
  /\ UNCHANGED <<regappMap, faults>>

-----------------------------------------------------------------------------
(* UpdateAppInfo of the registration in RegApps, followed by the change in *)
(* memory ...                                                              *)
Put(info) ==
  /\ dbApp' = [dbApp EXCEPT ![regApp] = info]
  /\ regappMap' = [regappMap EXCEPT ![regApp] = info]
  /\ UNCHANGED faults

(* ... or failing (carried out or not), and memory stays as left.          *)
PutFails(info, left) ==
  /\ Fault
  /\ dbApp' \in {dbApp, [dbApp EXCEPT ![regApp] = info]}
  /\ regappMap' = [regappMap EXCEPT ![regApp] = left]

(* subscribing to a topic and adding a send id are done only if it is not  *)
(* there yet, and topics are limited                                       *)
MayAdd(f, x) ==
  LET l == regappMap[regApp][f]
  IN /\ x \notin ToSet(l)
     /\ f = "topics" => Len(l) < MaxTopics
     /\ f = "sendids" => Len(l) < MaxSendIds

(* append(l, x), in place or in a new array.  In place it overwrites what  *)
(* a job sees that still has a longer slice of the array; the array has    *)
(* room then, and append takes no new one.                                 *)
AddItem(f, x) ==
  LET info == regappMap[regApp]
      n == Len(info[f])
      new == [info EXCEPT ![f] = Append(@, x)]
      Longer(j) == f \in j.shared /\ Len(j.info[f]) > n
      Overwritten(j) == IF Longer(j) THEN [j EXCEPT !.info[f][n + 1] = x] ELSE j
      Unshared(j) == [j EXCEPT !.shared = @ \ {f}]
  IN /\ MayAdd(f, x)
     /\ \/ /\ queue' = OnJobs(Overwritten)
           /\ Put(new) \/ PutFails(new, info)
        \/ /\ \A w \in Workers : \A i \in DOMAIN queue[w] : ~Longer(queue[w][i])
           /\ \/ Put(new) /\ queue' = OnJobs(Unshared)
              \/ PutFails(new, info) /\ UNCHANGED queue

(* append(l[:i], l[i+1:]...) moves the items behind i to the front in the  *)
(* array of l, for everyone who has a slice of it.                         *)
RemoveItem(f, i) ==
  LET info == regappMap[regApp]
      l == info[f]
      new == [info EXCEPT ![f] = RemoveAt(l, i)]
      Shifted(s) == [k \in DOMAIN s |-> IF i <= k /\ k < Len(l) THEN l[k + 1]
                                        ELSE s[k]]
      InJob(j) == IF f \in j.shared THEN [j EXCEPT !.info[f] = Shifted(@)] ELSE j
  IN /\ queue' = OnJobs(InJob)
     /\ \/ Put(new)
        \/ PutFails(new, [info EXCEPT ![f] = Shifted(l)])

-----------------------------------------------------------------------------
(* The connection.                                                         *)

(* INIT with Sync = 0: the device lists its registration.  What it lists   *)
(* is loaded if it is in storage; otherwise, and if reading fails, the     *)
(* session starts as if nothing were listed, and the device is not told.   *)
ConnectListed(w) ==
  /\ worker = None /\ worker' = w
  /\ known # None
  /\ \/ /\ regappMap[known] = None /\ dbApp[known] # None
        /\ regApp' = known
        /\ regappMap' = [regappMap EXCEPT ![known] = dbApp[known]]
        /\ UNCHANGED faults
     \/ /\ Fault \/ (dbApp[known] = None /\ UNCHANGED faults)
        /\ UNCHANGED memory
  /\ UNCHANGED <<redis, handler, queue, device, stale>>

(* The same from a device that has no registration, or has forgotten it.   *)
ConnectUnlisted(w) ==
  /\ worker = None /\ worker' = w
  /\ known' = None
  /\ UNCHANGED <<redis, memory, handler, queue, acked, faults, stale>>

(* INIT with Sync # 0: the server loads what it finds in db_device and     *)
(* tells the device; a failing command is the same as finding nothing.     *)
ConnectSync(w) ==
  LET r == dbDevice
  IN /\ worker = None /\ worker' = w
     /\ \/ /\ r # None /\ dbApp[r] # None
           /\ regApp' = r
           /\ regappMap' = [regappMap EXCEPT ![r] = IF @ = None THEN dbApp[r] ELSE @]
           /\ Told(r)
           /\ UNCHANGED faults
        \/ /\ \/ Fault
              \/ r = None /\ UNCHANGED faults
              \/ r # None /\ dbApp[r] = None /\ UNCHANGED faults
           /\ Told(None)
           /\ UNCHANGED memory
     /\ UNCHANGED <<redis, handler, queue, acked, stale>>

(* closeClient                                                             *)
Disconnect ==
  /\ Ready
  /\ worker' = None /\ regApp' = None
  /\ regappMap' = [r \in RegIds |-> IF r = regApp THEN None ELSE regappMap[r]]
  /\ queue' = OnJobs(Outlived)
  /\ UNCHANGED <<redis, handler, device, faults, stale>>

(* The process ends, in the middle of whatever it does, and is restarted.  *)
Exit ==
  /\ worker' = None /\ regApp' = None
  /\ regappMap' = [r \in RegIds |-> None]
  /\ queue' = [w \in Workers |-> <<>>]
  /\ handler' = Idle
  /\ \/ handler = Idle /\ UNCHANGED faults
     \/ handler # Idle /\ Fault
  /\ UNCHANGED <<redis, device, stale>>

-----------------------------------------------------------------------------
(* handleRegister (ids = {}) and handleRegister2 (ids = {id}).             *)

(* The app is not registered on this connection: RegisterApp, first HSET,  *)
(* of an AppInfo without past.  If it fails, the device is told so.        *)
RegisterApp(r, ids) ==
  /\ Ready /\ regApp = None /\ regappMap[r] = None
  /\ \/ /\ dbApp' = [dbApp EXCEPT ![r] = Fresh]
        /\ handler' = [pc |-> "regDevice", reg |-> r, ids |-> ids]
        /\ UNCHANGED faults
     \/ /\ dbApp' \in {dbApp, [dbApp EXCEPT ![r] = Fresh]}
        /\ Fault
        /\ UNCHANGED handler
  /\ UNCHANGED <<dbDevice, dbUser, memory, worker, queue, device, stale>>

(* The app is registered on this connection: if it is for the same user,   *)
(* the device is told its id, and else that there is a conflict.           *)
RegisterAgain ==
  /\ Ready /\ regApp # None
  /\ Told(regApp)
  /\ UNCHANGED <<redis, memory, worker, handler, queue, acked, faults, stale>>

(* HSET db_device; its result is ignored.                                  *)
RegisterDevice ==
  /\ handler.pc = "regDevice"
  /\ handler' = [handler EXCEPT !.pc = "regUser"]
  /\ \/ dbDevice' = handler.reg /\ UNCHANGED faults
     \/ Fault /\ UNCHANGED dbDevice
  /\ UNCHANGED <<dbApp, dbUser, memory, worker, queue, device, stale>>

(* HSETNX db_user, if there is a user; then AddApp, the entry in RegApps,  *)
(* and for handleRegister the reply.                                       *)
RegisterUser ==
  LET r == handler.reg
  IN /\ handler.pc = "regUser"
     /\ \/ dbUser' = dbUser \union ({r} \intersect WithUser) /\ UNCHANGED faults
        \/ r \in WithUser /\ Fault /\ UNCHANGED dbUser
     /\ regappMap' = [regappMap EXCEPT ![r] = Fresh]
     /\ regApp' = r
     /\ \/ handler.ids = {} /\ handler' = Idle /\ Told(r)
        \/ /\ handler.ids # {} /\ handler' = [handler EXCEPT !.pc = "regIds"]
           /\ UNCHANGED known
     /\ UNCHANGED <<dbApp, dbDevice, worker, queue, acked, stale>>

(* addSendids after a registration, or of an app that is registered.  The  *)
(* reply has the registration id even if it reports an error.              *)
AddSendId(x) ==
  /\ \/ handler.pc = "regIds" /\ x \in handler.ids
     \/ Ready /\ regApp # None
  /\ AddItem("sendids", x)
  /\ handler' = Idle
  /\ Told(regApp)
  /\ UNCHANGED <<dbDevice, dbUser, regApp, worker, acked, stale>>

-----------------------------------------------------------------------------
(* handleUnregister, and the end of handleUnregister2.                     *)

(* UnregisterApp: HDEL db_app, ...                                         *)
Unregister ==
  /\ Requested \/ handler.pc = "unregister"
  /\ handler' = [pc |-> "unregDevice", reg |-> regApp, ids |-> {}]
  /\ \/ dbApp' = [dbApp EXCEPT ![regApp] = None] /\ UNCHANGED faults
     \/ Fault /\ UNCHANGED dbApp
  /\ queue' = OnJobs(Outlived)
  /\ UNCHANGED <<dbDevice, dbUser, memory, worker, device, stale>>

(* ... HDEL db_device, ...                                                 *)
UnregisterDevice ==
  /\ handler.pc = "unregDevice"
  /\ handler' = [handler EXCEPT !.pc = "unregUser"]
  /\ \/ dbDevice' = None /\ UNCHANGED faults
     \/ Fault /\ UNCHANGED dbDevice
  /\ UNCHANGED <<dbApp, dbUser, memory, worker, queue, device, stale>>

(* ... HDEL db_user and DelApp; then the entry in RegApps and the reply.   *)
UnregisterUser ==
  LET r == handler.reg
  IN /\ handler.pc = "unregUser"
     /\ handler' = Idle
     /\ \/ dbUser' = dbUser \ {r} /\ UNCHANGED faults
        \/ r \in WithUser /\ Fault /\ UNCHANGED dbUser
     /\ regappMap' = [regappMap EXCEPT ![r] = None]
     /\ regApp' = None
     /\ Told(None)
     /\ UNCHANGED <<dbApp, dbDevice, worker, queue, acked, stale>>

(* handleUnregister2 with one send id: delSendid.  The registration ends   *)
(* with its last send id, or if it never had one.                          *)
DelSendId(x) ==
  LET l == regappMap[regApp].sendids
      unregister == [pc |-> "unregister", reg |-> regApp, ids |-> {}]
  IN /\ Requested
     /\ \/ /\ l = <<>>
           /\ handler' = unregister
           /\ UNCHANGED <<dbApp, regappMap, queue, faults>>
        \/ \E i \in DOMAIN l :
             /\ l[i] = x /\ \A k \in 1..(i - 1) : l[k] # x
             /\ RemoveItem("sendids", i)
             /\ handler' = IF Len(regappMap'[regApp].sendids) = 0 THEN unregister
                           ELSE Idle
     /\ UNCHANGED <<dbDevice, dbUser, regApp, worker, device, stale>>

(* handleUnregister2 with "[all]".                                         *)
DelAllSendIds ==
  LET info == regappMap[regApp]
      new == [info EXCEPT !.sendids = <<>>]
  IN /\ Requested
     /\ \/ /\ Put(new)
           /\ handler' = [pc |-> "unregister", reg |-> regApp, ids |-> {}]
        \/ PutFails(new, info) /\ UNCHANGED handler
     /\ UNCHANGED <<dbDevice, dbUser, regApp, worker, queue, device, stale>>

-----------------------------------------------------------------------------
Subscribe(t) ==
  /\ Requested
  /\ AddItem("topics", t)
  /\ UNCHANGED <<dbDevice, dbUser, regApp, worker, handler, device, stale>>

(* The loop in handleUnsubscribe finds the last index of the topic.        *)
Unsubscribe(t) ==
  LET l == regappMap[regApp].topics
  IN /\ Requested
     /\ \E i \in DOMAIN l :
          /\ l[i] = t /\ \A k \in (i + 1)..Len(l) : l[k] # t
          /\ RemoveItem("topics", i)
     /\ UNCHANGED <<dbDevice, dbUser, regApp, worker, handler, device, stale>>

(* handlePushReply: the reply is for registration r, which need not be the *)
(* one of this session.  The new LastMsgId is put into memory and, with    *)
(* all of the AppInfo, into a job.                                         *)
PushReply(r, n) ==
  LET new == [regappMap[r] EXCEPT !.last = n]
      Accepted == r = regApp /\ n > regappMap[r].last
  IN /\ Ready
     /\ acked' = [acked EXCEPT ![r] = IF n > @ THEN n ELSE @]
     /\ \/ /\ ~Accepted
           /\ UNCHANGED <<regappMap, queue>>
        \/ /\ Accepted
           /\ Len(queue[worker]) < QueueCap
           /\ regappMap' = [regappMap EXCEPT ![r] = new]
           /\ queue' = [queue EXCEPT ![worker] =
                          Append(@, [reg |-> r, info |-> new, live |-> TRUE,
                                     shared |-> {"topics", "sendids"}])]
     /\ UNCHANGED <<redis, regApp, worker, handler, known, faults, stale>>

(* UpdateJob.Do: HSET db_app, whether the registration still exists or     *)
(* not; its result is ignored.                                             *)
UpdateJob(w) ==
  LET job == Head(queue[w])
  IN /\ queue[w] # <<>>
     /\ queue' = [queue EXCEPT ![w] = Tail(@)]
     /\ stale' = (stale \/ ~job.live)
     /\ \/ dbApp' = [dbApp EXCEPT ![job.reg] = job.info] /\ UNCHANGED faults
        \/ Fault /\ UNCHANGED dbApp
     /\ UNCHANGED <<dbDevice, dbUser, memory, worker, handler, device>>

-----------------------------------------------------------------------------
Request ==
  \/ \E r \in RegIds :
       \/ RegisterApp(r, {})
       \/ \E x \in SendIds : RegisterApp(r, {x})
       \/ \E n \in 1..MaxMsg : PushReply(r, n)
  \/ RegisterAgain \/ RegisterDevice \/ RegisterUser
  \/ Unregister \/ UnregisterDevice \/ UnregisterUser \/ DelAllSendIds
  \/ \E x \in SendIds : AddSendId(x) \/ DelSendId(x)
  \/ \E t \in Topics : Subscribe(t) \/ Unsubscribe(t)

Next ==
  \/ Request
  \/ \E w \in Workers : \/ ConnectListed(w) \/ ConnectUnlisted(w)
                      \/ ConnectSync(w) \/ UpdateJob(w)
  \/ Disconnect
  \/ Exit

Spec == Init /\ [][Next]_vars

-----------------------------------------------------------------------------
(* Properties.                                                             *)

InfoType ==
  {i \in [last : 0..MaxMsg, topics : Seq(Topics), sendids : Seq(SendIds)] :
     Len(i.topics) <= MaxTopics /\ Len(i.sendids) <= MaxSendIds}

(* The missing entry of a hash or a map is no AppInfo.                     *)
ASSUME InfoAssumption == None \notin InfoType

JobType == [reg : RegIds, info : InfoType, live : BOOLEAN,
            shared : SUBSET {"topics", "sendids"}]

Phases == {"idle", "regDevice", "regUser", "regIds", "unregister",
           "unregDevice", "unregUser"}

(* The variables have the values their declarations promise; in particular *)
(* no registration has more than MaxTopics topics, in memory or in Redis.  *)
TypeOK ==
  /\ dbApp \in [RegIds -> InfoType \union {None}]
  /\ dbDevice \in RegIds \union {None}
  /\ dbUser \subseteq WithUser
  /\ regappMap \in [RegIds -> InfoType \union {None}]
  /\ regApp \in RegIds \union {None}
  /\ worker \in Workers \union {None}
  /\ handler \in [pc : Phases, reg : RegIds \union {None}, ids : SUBSET SendIds]
  /\ queue \in [Workers -> Seq(JobType)]
  /\ \A w \in Workers : Len(queue[w]) <= QueueCap
  /\ known \in RegIds \union {None}
  /\ acked \in [RegIds -> 0..MaxMsg]
  /\ faults \in 0..MaxFaults
  /\ stale \in BOOLEAN

(* The app map contains the registration of the living connection and      *)
(* nothing else, whatever fails: otherwise registering again would be      *)
(* refused ("in memory already") until the process is restarted, and       *)
(* pushes would go to a registration without connection.                   *)
MemoryBacked ==
  \A r \in RegIds : regappMap[r] # None <=> (r = regApp /\ worker # None)

(* Nothing counts as received that the device did not acknowledge: the     *)
(* LastMsgId of a registration, in memory, in Redis or on its way there,   *)
(* is never ahead of what the device has acknowledged for it, although     *)
(* snapshots of several connections and registrations are written at any   *)
(* time.                                                                   *)
AckedOnly ==
  \A r \in RegIds :
    /\ regappMap[r] # None => regappMap[r].last <= acked[r]
    /\ dbApp[r] # None => dbApp[r].last <= acked[r]
    /\ \A w \in Workers : \A i \in DOMAIN queue[w] :
         queue[w][i].reg = r => queue[w][i].info.last <= acked[r]

(* A registration that a session works with can be found in all three      *)
(* places of the storage, so that the next session, on whatever server,    *)
(* finds it too.  Unless a Redis command failed, a process ended within a  *)
(* handler, or a late job has written what was unregistered.               *)
RegisteredStored ==
  faults = 0 /\ ~stale /\ handler.pc \in {"idle", "regIds", "unregister"}
    /\ regApp # None
  => /\ dbApp[regApp] # None
     /\ dbDevice = regApp
     /\ regApp \in WithUser => regApp \in dbUser

(* What is acknowledged gets into storage: when no job of the connection   *)
(* waits any more, the stored LastMsgId is the one in memory.              *)
Pending == \E w \in Workers : \E i \in DOMAIN queue[w] : queue[w][i].live

AckStored ==
  faults = 0 /\ ~stale /\ ~Pending
    /\ handler.pc \in {"idle", "regIds", "unregister"} /\ regApp # None
  => dbApp[regApp].last = regappMap[regApp].last

(* A write of a job may take back an acknowledgement that is stored        *)
(* already, since a subscription in between stores the newer LastMsgId     *)
(* first.  Then the job that brings it back waits behind: a live one of    *)
(* the same registration with a LastMsgId no lower than the stored one.    *)
(* (If that job fails or the process ends before, the lower value stays.)  *)
(* No other write of a handler or a job lowers a stored LastMsgId,         *)
(* whatever failed before, with two exceptions: RegisterApp, which stores  *)
(* an AppInfo without past, after which nothing brings the old one back;   *)
(* and jobs written late, after their connection or registration ended.    *)
Restorer(j, r, n) == j.live /\ j.reg = r /\ j.info.last >= n

LastMsgIdKept ==
  [][~stale' =>
       \A r \in RegIds :
         dbApp[r] # None /\ dbApp'[r] # None /\ dbApp'[r].last < dbApp[r].last =>
           \/ \E w \in Workers : \E i \in DOMAIN queue'[w] :
                Restorer(queue'[w][i], r, dbApp[r].last)
           \/ \E ids \in SUBSET SendIds : RegisterApp(r, ids)]_vars

(* As long as no push was acknowledged, memory and storage agree on topics *)
(* and send ids, and no list has an item twice.                            *)
ListsStored ==
  faults = 0 /\ (\A r \in RegIds : acked[r] = 0)
    /\ handler.pc \in {"idle", "regIds", "unregister"} /\ regApp # None
  => \A f \in {"topics", "sendids"} :
       /\ dbApp[regApp][f] = regappMap[regApp][f]
       /\ IsInjective(regappMap[regApp][f])

=============================================================================
