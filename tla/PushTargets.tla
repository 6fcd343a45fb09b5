---------------------------- MODULE PushTargets ----------------------------
(***************************************************************************)
(* Whom a message is for.  The code answers that in two places: the        *)
(* consumer of the comet server picks registrations of connected devices   *)
(* (PushMessages), and a device that connects picks among the messages     *)
(* kept for its app (handleOfflineMsgs).  In between lie registrations,    *)
(* connections, the clock that decides what is too old, and the pages of a *)
(* group.                                                                  *)
(*                                                                         *)
(* One message, one app, devices with at most one registration each, one   *)
(* comet server, no failures.  What happens to a push after a worker has   *)
(* got it, several messages and LastMsgId are in PushPipeline.             *)
(***************************************************************************)
EXTENDS Integers, Sequences, FiniteSets

CONSTANTS
  Devices,
  Profiles,  \* what a registration of each device has: user (or None), topics,
             \* send ids
  Messages,  \* type, addressees, topicOp, send id (or None), options.ttl
  PageSize,  \* members of a group one SSCAN returns
  MaxTime,   \* bound on the clock, in seconds
  Skews,     \* how far the clock of the API may be ahead of that of the comet
             \* server
  None

ASSUME BoundAssumption == PageSize \in Nat \ {0} /\ MaxTime \in Nat
ASSUME SkewAssumption == Skews \subseteq Int
ASSUME ProfileAssumption ==
  \A p \in Profiles, d \in Devices : DOMAIN p[d] = {"user", "topics", "ids"}
(* What checkMessage lets through; without topicOp it is "or".             *)
ASSUME MessageAssumption ==
  \A m \in Messages :
    /\ DOMAIN m = {"type", "to", "op", "sendid", "ttl"}
    /\ m.type \in {"all", "regid", "user", "devid", "topic", "alias", "group"}
    /\ m.op \in {"or", "and", "except"} /\ m.ttl \in Int
    /\ m.type = "topic" => 1 \in DOMAIN m.to
    /\ m.type = "user" => None \notin m.to
    /\ m.type = "group" => IsFiniteSet(m.to)
ASSUME NoneAssumption == None \notin Messages /\ None \notin [dev : Devices, live : BOOLEAN]

VARIABLES
  clock,     \* time.Now().Unix() of the comet server
  profile,   \* what a registration of each device has
  conn,      \* the goroutine of the connection of each device: see DeviceStep
  regTime,   \* RegTime of the registration of each device; 0 without one
  dbApp,     \* the devices in db_app (and db_device)
  dbUser,    \* the devices in db_user
  regappMap, \* the devices in the app map
  regApps,   \* the devices with a registration in RegApps of their client
  msg,       \* the message, or None
  ctime,     \* its CTime
  stored,    \* it is in Redis, and published
  consumer,  \* PushMessages
  job,       \* what it waits to give to a worker, or None
  pushed,    \* how often each device was given it while connected (2: or more)
  read,      \* the devices that got it as offline message
  steady,    \* devices attached all the time since PushMessages began
  known      \* devices that had been registered when it began, or have read
             \* offline messages since, and have not registered since then

deviceVars  == <<profile, conn, regTime, dbApp, dbUser, regappMap, regApps>>
msgVars     == <<msg, ctime, stored>>
gotVars     == <<pushed, read>>
historyVars == <<steady, known>>
vars == <<clock, deviceVars, msgVars, consumer, job, gotVars, historyVars>>

-----------------------------------------------------------------------------
(* PushMessages has to look up names (names) and to push to registrations  *)
(* it found (apps); they stay what they were when it found them.           *)
Consumer(pc, names, apps) == [pc |-> pc, names |-> names, apps |-> apps]

(* A job for the connection of a device, and whether that still lives.     *)
Job(d, live) == [dev |-> d, live |-> live]

Init ==
  /\ clock = 0
  /\ profile \in Profiles
  /\ conn = [d \in Devices |-> "none"]
  /\ regTime = [d \in Devices |-> 0]
  /\ dbApp = {} /\ dbUser = {} /\ regappMap = {} /\ regApps = {}
  /\ msg = None /\ ctime = 0 /\ stored = FALSE
  /\ consumer = Consumer("idle", {}, {}) /\ job = None
  /\ pushed = [d \in Devices |-> 0]
  /\ read = {} /\ steady = {} /\ known = {}

(* DevicesMap has its client.                                              *)
InDevicesMap(d) == conn[d] # "none"

(* It is connected and registered, and neither leaves nor unregisters.     *)
Attached(d) == d \in regApps /\ conn[d] \in {"listed", "up"}

(* handleRegister is at work on its registration.                          *)
Registering(d) == conn[d] \in {"timed", "stored", "named", "mapped"}

(* The members of the group that SSCAN returns: the cursor it is called    *)
(* with is always 0, so the first page, again and again.                   *)
FitsPage == Cardinality(msg.to) <= PageSize
Page == IF FitsPage THEN msg.to
        ELSE CHOOSE page \in SUBSET msg.to : Cardinality(page) = PageSize

-----------------------------------------------------------------------------
(* Wrong variants of definitions, each a mistake one could make in the     *)
(* code; none is part of the specification.                                *)

(* "except" forgets that the first topic is wanted. *)
MatchTopicsExceptAll(subscriptions, topics, topicOp) ==
  CASE topicOp = "and" -> \A i \in DOMAIN topics : topics[i] \in subscriptions
    [] topicOp = "except" -> \A i \in DOMAIN topics : i = 1 \/ topics[i] \notin subscriptions
    [] OTHER -> \E i \in DOMAIN topics : topics[i] \in subscriptions

(* A message counts as expired one second too early. *)
UnreadTooShort(d) ==
  stored /\ msg.ttl > 0 /\ ctime > regTime[d] /\ ctime + msg.ttl > clock + 1

(* GetAppsByUser puts the registrations found so far into one list that    *)
(* all users share. *)
UserAppsOfAll(u) ==
  {d \in dbUser \intersect regappMap : profile[d].user \in msg.to}

(* The scan of a group goes on whatever cursor it got. *)
NextPageAlways ==
  /\ consumer.pc = "page" /\ consumer.names = {} /\ consumer.apps = {} /\ job = None
  /\ consumer' = Consumer("scan", {}, {})
  /\ UNCHANGED <<clock, deviceVars, msgVars, job, gotVars, historyVars>>

-----------------------------------------------------------------------------
(* matchTopics: without topicOp the topics are alternatives.  "except"     *)
(* takes who has the first topic and none of the others.                   *)
MatchTopics(subscriptions, topics, topicOp) ==
  CASE topicOp = "and" -> \A i \in DOMAIN topics : topics[i] \in subscriptions
    [] topicOp = "except" ->
         \A i \in DOMAIN topics : (topics[i] \in subscriptions) <=> (i = 1)
    [] OTHER -> \E i \in DOMAIN topics : topics[i] \in subscriptions

(* Both kinds of reading compare in whole seconds: what was created in the *)
(* second of the registration is not read, nor what expires in this one.   *)
Unread(d) == stored /\ msg.ttl > 0 /\ ctime > regTime[d] /\ ctime + msg.ttl > clock

-----------------------------------------------------------------------------
(* Devices.  conn[d] is where the goroutine of the connection is: without  *)
(* connection (none), in waitInit (opened, added, listed), in the read     *)
(* loop (up), in handleRegister (timed, stored, named, mapped), in         *)
(* handleUnregister (removed, unnamed, unmapped), or in closeClient        *)
(* (closing, dropped).                                                     *)
Goes(d, from, to) == conn[d] = from /\ conn' = [conn EXCEPT ![d] = to]

(* createClient.                                                           *)
CreateClient(d) ==
  /\ Goes(d, "none", "opened")
  /\ UNCHANGED <<clock, profile, regTime, dbApp, dbUser, regappMap, regApps, msgVars,
                 consumer, job, gotVars, historyVars>>

(* waitInit: nothing is stored, or the device does not name it.            *)
NoApp(d) ==
  /\ Goes(d, "opened", "listed")
  /\ UNCHANGED <<clock, profile, regTime, dbApp, dbUser, regappMap, regApps, msgVars,
                 consumer, job, gotVars, historyVars>>

(* AddApp, for a registration in storage or for a new one.                 *)
AddApp(d) ==
  /\ \/ d \in dbApp /\ Goes(d, "opened", "added")
     \/ Goes(d, "named", "mapped")
  /\ regappMap' = regappMap \union {d}
  /\ UNCHANGED <<clock, profile, regTime, dbApp, dbUser, regApps, msgVars,
                 consumer, job, gotVars, historyVars>>

(* The entry in RegApps, which both make then.                             *)
ListApp(d) ==
  /\ Goes(d, "added", "listed") \/ Goes(d, "mapped", "up")
  /\ regApps' = regApps \union {d}
  /\ UNCHANGED <<clock, profile, regTime, dbApp, dbUser, regappMap, msgVars,
                 consumer, job, gotVars, historyVars>>

(* handleRegister: RegisterApp takes the time, ...                         *)
RegisterApp(d) ==
  /\ d \notin regApps /\ Goes(d, "up", "timed")
  /\ regTime' = [regTime EXCEPT ![d] = clock]
  /\ known' = known \ {d}
  /\ UNCHANGED <<clock, profile, dbApp, dbUser, regappMap, regApps, msgVars,
                 consumer, job, gotVars, steady>>

(* ... writes db_app and db_device, which only this goroutine reads, ...   *)
StoreApp(d) ==
  /\ Goes(d, "timed", "stored")
  /\ dbApp' = dbApp \union {d}
  /\ UNCHANGED <<clock, profile, regTime, dbUser, regappMap, regApps, msgVars,
                 consumer, job, gotVars, historyVars>>

(* ... and db_user, if there is a user.                                    *)
StoreUser(d) ==
  /\ Goes(d, "stored", "named")
  /\ dbUser' = IF profile[d].user = None THEN dbUser ELSE dbUser \union {d}
  /\ UNCHANGED <<clock, profile, regTime, dbApp, regappMap, regApps, msgVars,
                 consumer, job, gotVars, historyVars>>

(* handleUnregister removes all this in the same order; a consumer that    *)
(* has found the registration keeps it.                                    *)
UnregisterApp(d) ==
  /\ d \in regApps /\ Goes(d, "up", "removed")
  /\ dbApp' = dbApp \ {d}
  /\ regTime' = [regTime EXCEPT ![d] = 0]
  /\ steady' = steady \ {d}
  /\ UNCHANGED <<clock, profile, dbUser, regappMap, regApps, msgVars,
                 consumer, job, gotVars, known>>

RemoveUser(d) ==
  /\ Goes(d, "removed", "unnamed")
  /\ dbUser' = dbUser \ {d}
  /\ UNCHANGED <<clock, profile, regTime, dbApp, regappMap, regApps, msgVars,
                 consumer, job, gotVars, historyVars>>

(* DelApp, in UnregisterApp and in closeClient.                            *)
DelApp(d) ==
  /\ Goes(d, "unnamed", "unmapped") \/ Goes(d, "closing", "dropped")
  /\ regappMap' = regappMap \ {d}
  /\ UNCHANGED <<clock, profile, regTime, dbApp, dbUser, regApps, msgVars,
                 consumer, job, gotVars, historyVars>>

(* The entry in RegApps is deleted; in closeClient the client then leaves  *)
(* DevicesMap, too, and is not found any more.                             *)
DelistApp(d) ==
  /\ Goes(d, "unmapped", "up") \/ Goes(d, "dropped", "none")
  /\ regApps' = regApps \ {d}
  /\ UNCHANGED <<clock, profile, regTime, dbApp, dbUser, regappMap, msgVars,
                 consumer, job, gotVars, historyVars>>

(* closeClient closes the connection first: a job for it comes too late.   *)
CloseConn(d) ==
  /\ Goes(d, "up", "closing")
  /\ job' = IF job = Job(d, TRUE) THEN Job(d, FALSE) ELSE job
  /\ steady' = steady \ {d}
  /\ UNCHANGED <<clock, profile, regTime, dbApp, dbUser, regappMap, regApps, msgVars,
                 consumer, gotVars, known>>

(* handleOfflineMsgs decides by the type of the message, ...               *)
OfflineTarget(d) ==
  LET p == profile[d]
  IN CASE msg.type = "all" -> TRUE
       [] msg.type = "user" -> p.user # None /\ p.user \in msg.to
       [] msg.type \in {"regid", "devid", "group"} -> d \in msg.to
       [] msg.type = "topic" -> MatchTopics(p.topics, msg.to, msg.op)
       [] OTHER -> FALSE

(* ... and a registration with send ids takes messages with one of them,   *)
(* or with none.                                                           *)
OfflineSendId(p) == p.ids = {} \/ msg.sendid = None \/ msg.sendid \in p.ids

ReadOffline(d) ==
  /\ Goes(d, "listed", "up")
  /\ read' = IF /\ d \in regApps /\ Unread(d)
                /\ OfflineTarget(d) /\ OfflineSendId(profile[d])
             THEN read \union {d} ELSE read
  /\ known' = IF consumer.pc = "idle" THEN known ELSE known \union {d}
  /\ UNCHANGED <<clock, profile, regTime, dbApp, dbUser, regappMap, regApps, msgVars,
                 consumer, job, pushed, steady>>

-----------------------------------------------------------------------------
(* The push API.                                                           *)

(* addMessage accepts a message and gives it the time of its own clock.    *)
AddMessage(m) ==
  /\ msg = None
  /\ msg' = m
  /\ \E skew \in Skews : ctime' = clock + skew
  /\ UNCHANGED <<clock, deviceVars, stored, consumer, job, gotVars, historyVars>>

(* The main loop stores it, keeps it if it has a lifetime, publishes it.   *)
Store ==
  /\ msg # None /\ ~stored
  /\ stored' = TRUE
  /\ UNCHANGED <<clock, deviceVars, msg, ctime, consumer, job, gotVars, historyVars>>

-----------------------------------------------------------------------------
(* PushMessages of the comet server.                                       *)

(* GetApps and GetAppsByTopic look at the app map once, ...                *)
AppsByTopic == {d \in regappMap : MatchTopics(profile[d].topics, msg.to, msg.op)}

PushMessages ==
  /\ stored /\ consumer.pc = "idle"
  /\ consumer' = CASE msg.type = "all"   -> Consumer("push", {}, regappMap)
                   [] msg.type = "topic" -> Consumer("push", {}, AppsByTopic)
                   [] msg.type = "group" -> Consumer("scan", {}, {})
                   [] msg.type = "alias" -> Consumer("push", {}, {})
                   [] OTHER              -> Consumer("push", msg.to, {})
  /\ steady' = {d \in Devices : Attached(d)}
  /\ known' = {d \in dbApp : ~Registering(d)}
  /\ UNCHANGED <<clock, deviceVars, msgVars, job, gotVars>>

(* ... GetApp for each registration id, GetAppByDevice, which asks the     *)
(* client of the device, for each device of the message, GetAppsByUser for *)
(* each user: those of db_user that are in the map.  A look-up finds of a  *)
(* device what it would at one moment during it, and is one step.          *)
UserApps(u) == {d \in dbUser \intersect regappMap : profile[d].user = u}

Found(n) ==
  CASE msg.type = "user"  -> UserApps(n)
    [] msg.type = "regid" -> {n} \intersect regappMap
    [] OTHER              -> {d \in {n} \intersect regApps : InDevicesMap(d)}

LookUp(n) ==
  /\ consumer.pc \in {"push", "page"} /\ consumer.apps = {} /\ job = None
  /\ n \in consumer.names
  /\ consumer' = [consumer EXCEPT !.names = @ \ {n}, !.apps = Found(n)]
  /\ UNCHANGED <<clock, deviceVars, msgVars, job, gotVars, historyVars>>

(* pushMessage: a message with a send id is only for registrations with    *)
(* this one; the device is looked up again, and may have another           *)
(* connection by now, or one that is being closed.                         *)
PushMessage(d) ==
  /\ job = None /\ d \in consumer.apps
  /\ consumer' = [consumer EXCEPT !.apps = @ \ {d}]
  /\ job' = IF /\ msg.sendid = None \/ msg.sendid \in profile[d].ids
               /\ InDevicesMap(d)
            THEN Job(d, conn[d] \notin {"closing", "dropped"}) ELSE None
  /\ UNCHANGED <<clock, deviceVars, msgVars, gotVars, historyVars>>

(* SendMessage2, once the channel of the worker has room.                  *)
SendMessage2 ==
  /\ job # None
  /\ job' = None
  /\ pushed' = IF job.live /\ pushed[job.dev] < 2
               THEN [pushed EXCEPT ![job.dev] = @ + 1] ELSE pushed
  /\ UNCHANGED <<clock, deviceVars, msgVars, consumer, read, historyVars>>

(* GetDevicesByGroup returns a page of the group, and the cursor of the    *)
(* next one, 0 after the last one.                                         *)
ScanGroup ==
  /\ consumer.pc = "scan"
  /\ consumer' = Consumer("page", Page, {})
  /\ UNCHANGED <<clock, deviceVars, msgVars, job, gotVars, historyVars>>

NextPage ==
  /\ consumer.pc = "page" /\ consumer.names = {} /\ consumer.apps = {} /\ job = None
  /\ consumer' = Consumer(IF FitsPage THEN "done" ELSE "scan", {}, {})
  /\ UNCHANGED <<clock, deviceVars, msgVars, job, gotVars, historyVars>>

PushedAll ==
  /\ consumer = Consumer("push", {}, {}) /\ job = None
  /\ consumer' = Consumer("done", {}, {})
  /\ UNCHANGED <<clock, deviceVars, msgVars, job, gotVars, historyVars>>

Tick ==
  /\ clock < MaxTime
  /\ clock' = clock + 1
  /\ UNCHANGED <<deviceVars, msgVars, consumer, job, gotVars, historyVars>>

-----------------------------------------------------------------------------
DeviceStep(d) ==
  \/ CreateClient(d) \/ NoApp(d) \/ AddApp(d) \/ ListApp(d) \/ ReadOffline(d)
  \/ RegisterApp(d) \/ StoreApp(d) \/ StoreUser(d)
  \/ UnregisterApp(d) \/ RemoveUser(d) \/ DelApp(d) \/ DelistApp(d) \/ CloseConn(d)

ConsumerStep ==
  \/ PushMessages \/ ScanGroup \/ NextPage \/ PushedAll
  \/ \E n \in consumer.names : LookUp(n)
  \/ \E d \in Devices : PushMessage(d)

Next ==
  \/ \E d \in Devices : DeviceStep(d)
  \/ \E m \in Messages : AddMessage(m)
  \/ Store \/ ConsumerStep \/ SendMessage2 \/ Tick

(* The consumer runs; but nothing makes room in the channel of a worker,   *)
(* which may hang in a write without deadline.                             *)
Spec == Init /\ [][Next]_vars
FairSpec == Spec /\ WF_vars(ConsumerStep)

-----------------------------------------------------------------------------
(* Properties.                                                             *)

(* Whom the message is for, and whether its send id lets it through: for a *)
(* connected device only if the registration has this send id, for one     *)
(* that connects also if it has no send ids at all.                        *)
Addressed(d) ==
  LET p == profile[d]
  IN \/ msg.type = "all"
     \/ msg.type \in {"regid", "devid", "group"} /\ d \in msg.to
     \/ msg.type = "user" /\ p.user \in msg.to
     \/ /\ msg.type = "topic"
        /\ LET wanted == {msg.to[i] : i \in DOMAIN msg.to}
               others == {msg.to[i] : i \in DOMAIN msg.to \ {1}}
           IN \/ msg.op = "and" /\ wanted \subseteq p.topics
              \/ msg.op = "or" /\ wanted \intersect p.topics # {}
              \/ /\ msg.op = "except"
                 /\ msg.to[1] \in p.topics /\ others \intersect p.topics = {}

SendIdGiven(d) == msg.sendid = None \/ msg.sendid \in profile[d].ids

(* PushMessages is done: a device that was there all the time got the      *)
(* message, once, if it is addressed and has its send id, and else it did  *)
(* not get it.                                                             *)
PushedRight ==
  consumer.pc = "done" =>
    \A d \in steady : pushed[d] = IF Addressed(d) /\ SendIdGiven(d) THEN 1 ELSE 0

(* Nobody else gets it, by either way and whatever the device does in      *)
(* between: only addressed devices, with its send id or without any.       *)
OnlyAddressed ==
  \A d \in Devices :
    pushed[d] > 0 \/ d \in read =>
      Addressed(d) /\ (SendIdGiven(d) \/ profile[d].ids = {})

(* PushMessages is done; the device is connected and registered, in an     *)
(* earlier second than that of the message: it has got the message, by one *)
(* way or the other, unless it has expired or was not to be kept.          *)
(*                                                                         *)
(* Not so yet with a registration that was under way when PushMessages     *)
(* began: the consumer may look for it before AddApp, and                  *)
(* handleOfflineMsgs comes only with the next connection (known).  Nor     *)
(* ever in the second of the registration, which is compared with the      *)
(* clock of another host.                                                  *)
Claims(d) ==
  /\ Addressed(d) /\ SendIdGiven(d)
  /\ conn[d] = "up" /\ d \in regApps /\ d \in known
  /\ regTime[d] < ctime /\ msg.ttl > 0 /\ clock < ctime + msg.ttl

NoGap ==
  consumer.pc = "done" =>
    \A d \in Devices : Claims(d) => pushed[d] > 0 \/ d \in read

(* Live pushes and offline messages together reach those, and only those,  *)
(* the message is for.                                                     *)
ReachesAddressed == OnlyAddressed /\ NoGap

(* A push comes to its end, unless the consumer waits for ever for room in *)
(* the channel of a worker.  One to a group with more than a page has no   *)
(* end: every member of the first page that stays gets it again.           *)
PushEnds ==
  consumer.pc \in {"push", "scan", "page"} ~>
    \/ consumer.pc = "done"
    \/ [](job # None)
    \/ /\ consumer.pc \in {"scan", "page"} /\ ~FitsPage
       /\ \A d \in Page \intersect steady : SendIdGiven(d) => pushed[d] = 2

=============================================================================
