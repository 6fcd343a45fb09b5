# A TLA+ development for `push`

`push` is a push service in Go. Devices keep TCP connections to *comet* servers
(`pushd`, `src/comet`); applications send messages and commands over an HTTP API
(`pushapi`); the two sides meet in RabbitMQ (`src/mq`) and Redis
(`src/storage`), and ZooKeeper (`src/zk`) tells the API which comet servers
exist. This directory models the parts of it in which several goroutines,
processes and connections work on the same state, checks them with TLC on small
instances, and proves what matters most with TLAPS for all instances.

## 1. Inventory

| Component | State it keeps | Operations | What makes it correct |
|---|---|---|---|
| **Sessions and registry**: `comet/server.go` (`waitInit`, `createClient`, `closeClient`, `Init`, `Run`, the refresh routine), `utils/safemap`, the device operations of `storage/redis.go` | `DevicesMap` per process; in Redis the set `comet_nodes` and a hash `comet:<server>` with a time to live; `Client.closed` | accept an INIT, push an old session aside, `CheckDevice`, `AddDevice`, `DevicesMap.Set`; leave the loop, `Delete`, `RemoveDevice`; EXPIRE, exit, restart | one session per device in the cluster; a session can be found; no device is locked out; every INIT is answered |
| **Command RPC**: `mq/rpc_client.go`, `mq/rpc_server.go`, `handleCmdReply`, `Client.SendMessage`, `SendJob` | `requestTable` of the API; the RPC and callback queues; `Client.replyChannels`, `nextSeq`; a worker's `jobChannel` | `Control`, `handleResponse`, `handleRpcRequest`, `SendMessage`, `MsgTimeout`, worker, reply | no answer goes to another request; every call returns; nobody waits for ever; nothing panics |
| **App manager and registration**: `comet/app_manager.go`, the handlers of `comet/handlers.go`, the end of `waitInit` | `regappMap`, `Client.RegApps`; in Redis `db_app_*`, `db_device_*`, `db_user_*`; queued `UpdateJob`s | connect (listed, unlisted, sync), `handleRegister`, `handleRegister2`, `handleUnregister`, `handleUnregister2`, `handleSubscribe`, `handleUnsubscribe`, `handlePushReply`, `UpdateJob.Do`, `closeClient` | memory holds the apps of living connections; storage can restore them; nothing counts as received that was not acknowledged |
| **Send workers**: `comet/job.go`, `SendJob` | `jobChannel` of each worker | enqueue, write, add the reply channel | part of the two rows above |
| **Push pipeline**: `pushapi` (`addMessage`), `mq/producer.go`, `mq/consumer.go`, `comet/comet.go` (`PushMessages`), the look-ups of `comet/app_manager.go`, offline messages in `storage/redis.go` | `db_msg`, `db_offline_msg_*`, the exchange and queue of each server, `LastMsgId` | store, publish, consume, look up, push, read offline messages, acknowledge | a stored message reaches each registration it is for, once, or is found offline later; nobody else gets it |
| **Admission**: `handleConnection`, `checkBlacklist` in `server.go` | `clientCount`, the black list | count, refuse, refresh | the counter is the number of connections |
| **Framing**: the reader in `handleConnection`, `comet/message.go` | the bytes read so far | header and body, by pieces, heartbeat timeout | a message is what was sent, whatever the segments |
| **Application administration**: `pushapi/pushapi.go` | `db_apps`, `db_packages` | add (two ways), delete, find | a package belongs to one app, an app has its package |
| **ZooKeeper watcher**: `zk/zk.go`, `zk/watcher.go` | the map of comet nodes, events between two goroutines | register, watch, re-read, add, remove | the list catches up with ZooKeeper; living servers stay in it |
| **Sync API, notify API**: `syncapi`, `notifyapi` | a batch with a timer; goroutines and result channels by id | collect and push; wait for results | every answered request is pushed; every notice gets its own result |
| **Statistics**: `stats/stats.go`, the counters of `storage/redis.go`, `postRouterCommand` | per service the numbers of commands and of their outcomes, a list of services | count, read, clear | each command has one outcome; what is counted is found |
| **Authentication** `auth`, **device centre** `devcenter`, **start-up** `pushd`, `conf`, **utilities**, **test client** | counters, settings | | little control flow of their own |

How they interact. A connection goroutine of the comet server runs `waitInit`
and then the read loop; it alone changes `Client.RegApps`, which the consumer
of pushes reads without a lock (`GetAppByDevice`, `app_manager.go:194`).
`DevicesMap` and the app map are shared with this consumer and the handlers of
RPC requests, `replyChannels` with the worker and with timers, and the job
channel of a worker with every connection given to that worker. Processes know of each other only
through Redis and the queues. There are no transactions: each Redis command is a
step by itself, and most of their results are ignored.

What is hard about it: reconnects that overlap the end of the old session;
checks that are separate from what they check; the exit of a process between two
commands; timers that race the answer they wait for; unbuffered channels with a
peer that has left; writes to a connection, which have no deadline and hold up
a worker for as long as the device does not read; snapshots of a registration that are written late; Go
slices with an array in common; a target selection written twice, for devices
that are connected and for those that come later. `PROJECT.json` lists these hazards line by line.

## 2. Plan

Most important behaviour first. Parameters are constants with named
assumptions; an operation, handler or goroutine step is one action; invariants
are conjunctions of named parts; no module declares `RECURSIVE` operators as
long as something is to be proved about it.

| Order | Module | Composes / refines | State |
|---|---|---|---|
| 1 | `CometSession`, abstract `DeviceLease` | sessions implement leases | checked; all safety and the refinement proved |
| 2 | `CommandRpc`, abstract `RemoteCommand` | API, queues, comet server and device in one module; the path of a command implements a remote command | checked; all safety and the refinement proved |
| 3 | `Registration` | one device, its connections, the workers, Redis | checked; all safety proved |
| 4 | `PushPipeline` | API, RabbitMQ, consumer, workers, connections, offline messages; one session at a time, as `DeviceLease` promises | checked; all safety proved |
| 5 | `PushTargets` | the two selections of targets, live and offline, with registrations, connections and the clock between them | checked; all safety proved |
| 6 | `AdminApi` | apps, packages and statistics: overlapping requests of the API on Redis | checked; all safety proved |
| 7 | `Connection` | admission, and the reader against "the messages sent" | checked; all safety proved |
| 8 | `ZkWatcher`, `SyncApi`, `NotifyApi` | each alone; `MCServices` shows them in one run | checked; all safety proved |

The proofs were made in the order of the table and are in a module of their own
for each component (the three services share `ServicesProofs`); section 5 says
what they rest on. Left for later: an abstract specification of the push pipeline (an
ordered channel that loses nothing while its mark is kept), and one of
`NotifyApi`'s answer.

## 3. The modules

### CometSession and DeviceLease

`conn[c]` is a connection goroutine; its `pc` names the place in `waitInit`,
`createClient` or `closeClient` where it stands, its other fields the local
variables that matter (`waitcnt`, the server names still to ask). Each Redis
command, each operation on `DevicesMap` and each look at `closed` is a step of
its own. `KickOld` is one round of the loop at `server.go:553`, `ReadServerNames`,
`NotOnServer` and `FoundOnServer` are `CheckDevice`, `AddDevice` and `SetClient`
the two halves of `createClient`, `DeleteFromMap` and `RemoveDevice` those of
`closeClient`. A server process runs `StartInit` (`InitDevices`), `StartRun`
(`AddComet`), and may `Exit` at any moment. `Server.Stop` waits for a
`WaitGroup` to which nobody adds connections, so a graceful stop is an exit as
well and nothing of Redis is cleaned up.

Time is counted in refresh intervals. `Interval(s)` lets one pass for the hash
of `s`; of a running server the refresh routine is then due, and its EXPIRE
comes before the next interval is over. This is the only assumption on timing.
Redis drops a hash with its last field, and the time to live with it; `HSET`
creates a hash without one.

`DeviceLease` is what this is for: a device is held by at most one connection,
and is free before another one gets it. `LeaseSpec` is its specification with
the connection between `AddDevice` and `RemoveDevice` as holder.

### CommandRpc and RemoteCommand

`call[r]` is `RpcClient.Control` for request `r`, in the order of the code:
publish, then add the channel to `requestTable`, then wait; the deferred steps
delete the entry and close the channel. `responder` is `handleResponse` after it
has looked up a channel and released the lock. `handler[r]` is
`handleRpcRequest`, one goroutine for a request: look up the device, take a
number (`SendMessage`), put a job into the channel of the worker (`Enqueue`),
wait for the reply or the timer. `writing` says that the worker is in the
`conn.Write` of the first job (`StartWrite`): it may stay there for ever, as long
as the device keeps the connection and does not read, and then the jobs behind
fill the channel (`Room`). `worker` is the job written to the connection
but not yet in `replyChannels` (`job.go` and `SendJob.Do`). A connection is in
its read loop or in `handleCmdReply` about to send to a reply channel
(`deliver`); this channel is unbuffered, so the send meets a handler that waits
(`ReceiveReply`) or waits itself. The device answers in any order, at any time,
once for each command, or not at all.

`RemoteCommand` is what all this amounts to for the two ends: a device gets a
command at most once, and a call returns once, with the answer to its command,
with a refusal, after which the device has not got the command and never will,
or with a timeout, which says nothing: the command may be in a worker's queue
and reach the device after the caller was told. `got[r]` counts how often the
device got the command of `r`; no step of the program reads it. `CommandSpec`
is `RemoteCommand` with `got` and `result`: `WriteJob` gives the device a
command, `Refuse`, `ReceiveResponse` and `CallTimeout` are the returns.

### Registration

One app of one device on one process; a registration id stands for the pair of
this device and a user (or nobody). The connection's goroutine handles one
request after the other, one step for each Redis command; `handler` is the place
in the handler it is in. `regApp` is the entry in `Client.RegApps`, `regappMap`
the app map of the process. `known` is what the device believes its
registration id to be: it takes it from replies, which it may lose.

A job of a push reply is a snapshot of the `AppInfo` and is written by a worker
at any later time, also after its connection or registration is gone. The
snapshot shares the arrays of `Topics` and `SendIds` with the registration in
memory (`shared`); `AddItem` and `RemoveItem` say what Go's `append` does to it:
in the free room of the array, in a new array, or moving items to the front in
place. Which of the first two happens depends on capacities the model leaves
open, except that no new array is taken while a longer slice shows there is room.

A failing Redis command is one of `MaxFaults`; what is carried out although the
answer is lost is covered for the writes whose result is looked at.

### PushPipeline

The way of a message. `numbered` holds the ids of `addMessage` handlers between
`getMsgID` and `msgBox`; `main` is the loop in `pushapi/main.go`, one step for
each write to Redis and one for the publication; `mq` is the durable queue of
the comet server; `consumer` is `handle` in `mq/consumer.go` with `PushMessages`
and `pushMessage`, which look at the message in Redis, at the app map and at
`DevicesMap` and then wait for room in the channel of a worker, each a step of
its own. `session` goes through `createClient`, `RegisterApp2`,
`handleOfflineMsgs` (read, then send one by one), the read loop and the two
halves of `closeClient`. A `push` job knows whether its connection still lives;
an `update` job is what `handlePushReply` leaves to a worker for `LastMsgId`.
A write to a connection reaches the device, or breaks the connection for
everything after it.

`received` is what the device has got. `overtaken` records the two places where
the code lets a message pass another one: handlers put ids into `msgBox` in an
order other than that of the ids (`PutInBox`), and the consumer pushes to a
connection whose `waitInit` has not sent all offline messages (`SendPush`).
`LastMsgId` is a high-water mark, so a message that was passed and not received
is lost when the mark is stored. `NothingSkipped` and `InOrder` say that without
a failure there is no third way. The process of the comet server may exit at any
time without counting as a failure; that of the API counts, because messages in
its `msgBox` are gone, although their senders hold an id.

### PushTargets

`PushPipeline` follows one registration, for which all messages are; this module
asks whom a message is for. One message of any type goes out, once as a live
push and, to those who connect later, as an offline message. `PushMessages`
decides by type: `GetApps` and `GetAppsByTopic` copy registrations out of the
app map at one moment (`apps`), registration ids, devices, users and members of
a group are looked up one after the other (`names`), each in a step of its own
(`LookUp`), and so is each `PushMessage`, which looks the device up again. By
then it may have left, or have another connection, or one that `closeClient` has
closed but not yet taken out of `DevicesMap`: `job` is what the consumer holds
then, with a mark whether its connection lives, until there is room in the
channel of a worker (`SendMessage2`).

`conn[d]` is the place of the connection's goroutine, one step for each entry it
writes: `RegisterApp` takes `RegTime`, `StoreApp` writes `db_app` and
`db_device`, `StoreUser` `db_user`, `AddApp` the app map, `ListApp` `RegApps`;
`UnregisterApp`, `RemoveUser`, `DelApp` and `DelistApp` remove them in the same
order, the last two in `closeClient` as well (`CloseConn`). A connection starts
with `CreateClient`, then `AddApp` and `ListApp` for a stored registration or
`NoApp` without one, then `ReadOffline`, which is `handleOfflineMsgs` after
`GetOfflineMsgs`, with its own switch over the types and its own treatment of
send ids, over what Redis holds by then. `AddMessage` gives the message a second
by the clock of the API, which may differ from that of the comet server
(`Skews`); `Store` is the main loop of the API; `Tick` passes a second.

`steady` and `known` are history: the devices attached all the time since
`PushMessages` began, and those whose registration was complete when it began,
or that have read offline messages since, and have not registered anew. A
registration still under way when `PushMessages` begins may get nothing for now:
the consumer may look for it before `AddApp`, and its connection has read its
offline messages already, so the message waits for the next connection.

The members of the group are external: nothing in the repository writes them.
Lists of ids have no repetitions here (the code would push to a repeated id
twice). Acknowledgements are left out, they are in `PushPipeline`.

The two selections differ in three ways, which the properties keep apart: a
connected device needs the send id of the message, one that connects needs it
only if it has any; offline messages of the second of the registration, or of
what the clock of the API takes for it, are not read; a live push of a group
goes on for ever if the group has more than a page, since `SetScan` always starts
at cursor 0, and so keeps every message after it from being pushed.

### AdminApi

The handlers of the push API work on `db_apps`, `db_packages` and the statistics
with one Redis command after the other; `req[q]` is a request with its local
variables, one step for each command, any of which may fail. `addApp` and
`addApp2` check a package, write the app, then the package; `delApp` reads the
app, deletes it, then its package; a command is counted, sent, and its outcome
counted; `ClearStats` and `GetStats` go through services and counters. `met`
records which requests were under way at the same time, so that properties can
say what overlaps explain and what nothing explains.

### Connection

`handleConnection`: `clientCount` is checked before `waitInit` and changed after
it, without lock, so increment and decrement are a read and a write each
(`ReadCount`, `Increment`, `Decrement`), modulo `2^Width`. The loop reads first
byte, rest of the header and body in pieces; `io.ReadFull` under a deadline
returns what came until then (`MayRead`). `now` is read at the top of the loop
and becomes `lastActive` after a message, however long the reads took.

### ZkWatcher, SyncApi, NotifyApi

`ZkWatcher` has ZooKeeper's children of the comet root with its one-time watch,
`watchCometRoot` (watch, wait, read, compare, delete) and
`handleCometNodeEvent`, joined by a bounded channel, and the map both use.
`missed` is set in three cases: a change falls between reading the children and
setting the next watch; an event of another type (`OtherEvent`: the session of
the API, the parent node) comes in place of the one that tells of the change,
and sets the watch anew without reading; a change undoes an addition that is
still in the channel.

`SyncApi` has the channel `msgBox`, the map of waiting messages and the
goroutine that selects between them and `time.After`; `owed` are answered
requests not pushed yet. Requests come as often as they like, and the push API
answers (`Push`), fails (`PushFails`), or is silent for ever. `NotifyApi` has one request, its goroutines, their
unbuffered channels, kept by notice id, and the loop that waits for each.
`MCServices` puts the three into one run; they share nothing, and `service` is
the one that moves.

## 4. The runs

| Run | What it shows | Bounds and why they are enough |
|---|---|---|
| `session_safety` | `OneSession`, `SessionFindable`, `MapEntriesAlive`, `RegistryBacked`, `MapNeverReplaced` | 2 servers, 1 device, 3 connections, one overlap, one Redis error, one exit: the device can be on both servers with a third connection knocking; devices have fields and entries of their own and do not influence each other except through the time to live of a hash, which the proofs cover |
| `session_live` | sessions implement `DeviceLease`; entries without session disappear; every INIT ends | 2 servers, 2 connections, 2 exits: the second exit may come during the recovery from the first |
| `rpc_safety` | `NoCrossTalk`; `ChannelsBacked`: only a timeout can leave a reply channel behind; `CommandSpec`: commands implement `RemoteCommand` | two requests to mix up, two connections in which numbers start again, a job channel for one job, one message waiting: each limit is reached |
| `rpc_live` | every `Control` returns; every handler answers, unless it waits for ever behind a write that hangs (`BehindWrite`) | one request, two connections, pushes that fill the job channel |
| `rpc_stuck` | *violation*: a connection's goroutine blocks in `handleCmdReply` | smallest instance |
| `reg_safety` | `MemoryBacked`, `AckedOnly`, `RegisteredStored` | an anonymous and a user's registration that can supplant each other in `db_device`, two workers (a reconnect while the old worker still has a job), a queue for one job, one failure |
| `reg_lists` | `ListsStored`: lists in memory and storage; `AckStored`; `LastMsgIdKept`: what may take back a stored `LastMsgId`, and what is then behind it | three topics with a limit of two, so that lists grow, shrink and fill up; two messages and a worker with room for two jobs, so that a job can be behind a later one and share lists with it; one failure |
| `push` | `PublishedStored`, `NothingSkipped`, `InOrder`; `Delivered`: a kept message reaches a device that stays connected | two messages, the fewest that can be in the wrong order; two workers, so that a job of an old connection runs late; channels for one message or job; one failure; any number of reconnects and exits of the comet process |
| `targets` | `PushedRight`: a connected device gets a push once if and only if it is for it; `ReachesAddressed`: so do both ways together; `PushEnds`: a push ends, unless the consumer waits for room in a worker's channel for ever or the group has more than a page | two devices with different users, topics and send ids (two pairs of profiles), ten messages of all seven types, with and without send id and lifetime, a group of one page and one of two, three values of the clock and an API that agrees or is a second ahead: registered before, in, and after the second of the message, connected before and after it expired. Devices share nothing but the consumer, so one of them takes steps at any moment, the other only in the first second and before the message |
| `admin_api` | `PackagesBacked`, `AppsFound`, `StatsConsistent`, `SnapshotBounded` | three requests of any kind that overlap in any way, one package to contend for, two services, one failing command: what goes wrong takes two requests, the third starts from what they left |
| `connection` | `Framed`, `DriftBounded`, `ActiveFresh` | two connections, for overlapping updates of a count with a limit of one; up to two messages out of six (heartbeat, empty, two sizes, too big, unknown) on one of them, in all pieces; a header of three bytes, a deadline of two ticks and a heartbeat timeout of three, so that both can pass within a message |
| `services` | `LivingStay`, `CatchesUp`; `RequestsKept`, `RequestsPushed`; `AnswerRight`, `LeaksExplained`, `NotifyAnswers` | three servers, channel for one event, one failed call; any number of requests of two kinds, a channel for two, an interval of two ticks; three notices with two ids, one of which is used twice or missing |

The bounds that are no constants of the code: `MaxOverlaps`, `MaxFaults`,
`MaxFailed` and `MaxExits` count events the code has no control over; properties
that depend on their absence say so in their premise, so that one run has both
cases. `MaxMsg`, `MaxSendIds` and `MaxTime` bound message ids, send
ids and the clock. `Skews` is how far two hosts' clocks may be apart. `WaitLimit`, `QueueCap`, `MaxWaiting`, `MaxTopics`,
`BoxCap`, `ChCap`, `MaxNotices`, `PageSize`, `HeadSize`, `MaxBody`, `Width` and
the timeouts are constants or settings of the code, made small so that they are
reached. Deadlock is not checked where requests, connections or notices are used
up, or goroutines may wait for good as the code lets them.

Every property of a passing run is broken by a mistake in the code that was made
on purpose; the definitions headed "wrong variants" are these mistakes.

### Fairness

`session_live`: a process that ended is restarted (`autorestart=true`,
`src/pushd/conf/supervisord.conf:26`), time passes, the refresh routine runs, and
a connection goroutine goes on when it waits for nobody; a session marked
`closed` leaves its loop, since the read has a deadline. Nothing forces a device
to connect or leave. `rpc_live` and `rpc_stuck`: timers fire and goroutines run;
a worker takes its next job, but nothing makes a write come to an end as long as
the connection is open (`conn.Write` has no deadline), only closing it does.
Strong fairness for `Enqueue` alone: a Go channel serves waiting senders in
their order, so a sender is not passed over for ever. Nothing makes a device
answer, nor a message arrive that was published. `push`: the same for `SendPush`
and `SendOffline`; the main loop, the consumer, the workers and `waitInit` go
on; nothing makes a device connect, acknowledge or stay. These workers are assumed to get their writes done: `Delivered`
is about a device that reads what it is sent. `targets`: the consumer
runs; devices and the clock do as they like, and nothing makes room in the
channel of a worker. `services`: the goroutines run, time passes,
ZooKeeper delivers the event of a watch; strong fairness for `ReceiveMsg` and
`TimerFires`, since `select` chooses among ready cases at random. Changes in
ZooKeeper are bounded, so they end: `CatchesUp` is about what happens then.
Nothing makes the push API answer the sync service (`syncapi.go:80`, no
timeout). In the notify service only the loop that
waits is fair; its goroutines call other services without a timeout.

### What the violation means, and what else the models show

* **Blocked connection** (`handlers.go:287`, `rpc_stuck`). The reply is handed
  over on an unbuffered channel after the entry has been deleted from
  `replyChannels`; a handler that ran into its timer in between is gone, and the
  goroutine of the connection never returns to its loop. By `ChannelsBacked`
  nothing but that timer can do this, or leave a channel in the map, where it
  counts against `MAX_WAITING_MSGS` until the connection ends.

What follows is in the models and covered by a premise or a guard of the
properties; no run is made for it.

* **Writes without deadline** (`server.go:127`, `133`). A device that keeps its
  connection alive but does not read stops its worker in a write. The channel of
  the worker fills, and then everyone who has a job for it waits: the handlers
  of commands for all devices of this worker (`BehindWrite`; their timers start
  only after that wait), the connections' goroutines, and the consumer of
  pushes, with every message behind it (`PushEnds`). `CallsReturn` does not
  depend on it, since `Control` has a timer of its own.
* **Overlapping INITs** (`server.go:585`). `CheckDevice` and `AddDevice` are
  separate commands. A device that opens a second connection before `waitInit`
  is through with the first gets two sessions. `OneSession` shows this to be the
  only way, apart from Redis errors. On *one* server the second session replaces
  the first in `DevicesMap`: `SafeMap.Set` overwrites and returns true, although
  its comment (`safemap.go:32`) says it "changes nothing" then; `MapNeverReplaced`
  is stated for the case without overlap for that reason.
* **Send on a closed channel** (`rpc_client.go:165`, `SendOnClosed`). The lookup
  and the send of `handleResponse` are not under one lock, and `Control` closes
  the channel: the process panics.
* **Lost subscription** (`handlers.go:266`). The snapshot in the job of a push
  reply is older than a subscription made after it, and is written later;
  `ListsStored` therefore speaks of devices that have acknowledged nothing yet.
* **Late jobs and failures in `Registration`**. `RegisterApp` always writes a
  fresh `AppInfo` (`app_manager.go:97`), although the comment above it promises
  to take the stored one into memory if there is one, so registering again resets
  `LastMsgId`, topics and send ids. A subscription stores the `LastMsgId` in
  memory ahead of the jobs in the queue; the first of them takes it back, and
  the last one brings it forward again (`LastMsgIdKept`), but if that one fails,
  or the process exits before, the lower value stays, and acknowledged messages
  are sent again. A job written late recreates the entry of an
  app that has unregistered, or takes back what a later connection stored
  (`stale`); `handleUnsubscribe` shifts the list under
  a queued snapshot, which may then hold a topic twice; a failed `UpdateAppInfo`
  in it leaves the list in memory shifted (`PutFails`); `waitInit` passes an
  empty user id to `RegisterApp2`.
* **Apps and statistics**. Two overlapping `addApp` of a package leave an app no
  package leads to; a `delApp` that overlaps another one and an `addApp` takes
  away the package of the new app, one that fails half-way leaves a package that
  can never be added again (`pushapi.go:336`). A command counted during
  `ClearStats` keeps counters that no list names.
* **Messages during a registration** (`app_manager.go:99`). A message created in
  a later second than `RegTime`, but pushed before `AddApp`, is found neither by
  the consumer nor, on this connection, by `handleOfflineMsgs`; with a lifetime
  it is read with the next connection, if that comes in time. One of the second
  of `RegTime`, by the API's clock, is never read.
* **ZooKeeper** (`watcher.go`). The three cases of `missed` leave the list wrong
  until the next change; a failed `ChildrenW` returns a nil channel, and the
  watcher waits for it for ever.
* **Sync and notify**. `push` closes the body of a response that is nil after a
  failed request (`syncapi.go:91`), and the process ends with what it had
  accepted; a push API that does not answer stops the collector, as the request
  has no timeout, and the channel fills; requests faster than `Interval` keep a batch from being sent, as each
  starts the timer again; `getUids` panics on an answer without the expected
  fields (`notify.go:88`); a goroutine whose notice timed out, or whose channel
  another notice replaced, is left behind for good.
* **Large groups** (`redis.go:705`): see `PushTargets`.
* **Black list** (`server.go:251`, `729`). `Init` assigns the list whatever
  comes of reading it, so devices listed at the start of a server are refused.
  Later `checkBlacklist` reads it again, for every INIT, but replaces the copy
  only if reading *failed* (the condition is the wrong way round): devices listed
  later are let in, devices taken off stay refused, and one failed read empties
  the list. It is not modelled: there are no interleavings to explore.

## 5. The proofs

Eight modules hold theorems. Each proves an inductive invariant (`Init` implies
it, every action keeps it, stuttering keeps it), from which the properties of
the runs follow; what the runs show for a small instance then holds for all
values of the constants. The assumptions are those the modules name with
`ASSUME`, and TLC evaluates each of them. They say that bounds are natural
numbers, that capacities of channels are at least 1 where a component could not
move otherwise, that what stands for nothing (`None`) is no value of the set it
is added to, and that the requests and connections that are counted are
finitely many. Six of them say more:

* `StatusAssumption` (`CommandRpc`): a request, which stands for the answer to
  it, is none of the status words (`offline`, `send_timeout`, ...).
* `InfoAssumption` (`Registration`): the missing entry of a map is no `AppInfo`.
* `MessageAssumption` (`PushTargets`): messages are what `checkMessage`
  (`pushapi.go:66`) lets through: one of seven types, a topic message with at
  least one topic and one of three operators, users that are not empty, a
  finite list of group members.
* `SkewAssumption` (`PushTargets`): the clocks of two hosts differ by whole
  seconds, any number of them either way.
* `ExpireAssumption` (`CometSession`): the time to live of a hash is at least two
  refresh intervals.
* `PlansAssumption` (`Connection`): what a device sends is a sequence of messages
  with a type and a length; both are any natural number, also one that the
  server knows no handler for or refuses.

| Theorems | Property of the runs | Inductive invariant |
|---|---|---|
| `CometSessionProofs` | `OneSession`, `SessionFindable`, `MapEntriesAlive`, `RegistryBacked`, `MapNeverReplaced`, `LeaseSpec` (for `MaxOverlaps = 0`, `MaxFaults = 0`), and the types | `FullInv` |
| `CommandRpcProofs` | `NoCrossTalk`, `ChannelsBacked` (and the types); `CommandSpec` | `IInv`; `CommandInv` |
| `RegistrationProofs` | `MemoryBacked`, `AckedOnly`, `RegisteredStored`, `AckStored`, `ListsStored` (and the types); the action property `LastMsgIdKept` | `IInv`; with `Behind` |
| `PushPipelineProofs` | `PublishedStored`, `NothingSkipped`, the action property `InOrder` (and the types) | `IInv` |
| `PushTargetsProofs` | `PushedRight`, `ReachesAddressed` | `IInv` |
| `AdminApiProofs` | `PackagesBacked`, `AppsFound`, `StatsConsistent`, `SnapshotBounded` | `IInv` |
| `ConnectionProofs` | `DriftBounded`, `ActiveFresh`; `Framed` | `IInv`; with `FrameInv` |
| `ServicesProofs` | `RequestsKept`; `AnswerRight`, `LeaksExplained`; `LivingStay` | `SyncInv`; `NotifyInv`; `ZkInv` |

**CometSession.** `OneSession` is not inductive. That a second HSET for a device is impossible
follows from what `CheckDevice` saw, so the invariant must say that this is
still true when the HSET comes (`CheckedFree`). It stays true because nobody
else is in `waitInit` for this device (`SerialInit`), because a server whose
hash is not empty is listed (`Listed`), and because a session is in its
server's hash (`HeldRegistered`). The last one needs the hash to survive
(`TtlRenewed`), which is where the ratio of the two timeouts comes in, and that
nobody deletes another one's field, which is `OneSession` again; so the parts
are proved together. `MapOwned` rules out the other way to remove a session,
deleting the `DevicesMap` entry of another connection. `SessionInv` is the
conjunction of these parts; together with `TypeOK`, `MapEntriesAlive`, `RegistryBacked` and `OneSession` it is the
inductive invariant (`FullInv`). There is one lemma for each part, with a case
for server steps and one for connection steps; frame lemmas say once what a step
of a connection leaves alone.

**CommandRpc.** An answer reaches the wrong caller only if its number or its
channel is mixed up somewhere on its way, so the invariant follows both.
`NumbersUnique` says that a connection gave each number to one request and that
`nextSeq` counts them; `AnswersNumbered` that an answer, in the socket or held
by `handleCmdReply`, carries the number of the request it answers;
`OnePlace` that a reply channel is in one place only (job, worker, map, or taken
out): if it could be in the map again after it was taken, a second answer would
find it. `JobsBacked` and `ChannelsOpen` are `ChannelsBacked` for all these
places; a job is written after its handler may have timed out, which is why an
open handler is one that waits or timed out. `HandlersOrdered` says that a
request is handled once.

`CommandImplemented` relates what the caller is told to what the device got, at
any distance in time. `GotOnce` says that a command the device got has left the
queue for good; `AnswersGot` that every answer, wherever it is, is to a command
that was got; `RefusedUnsent` that a handler that reports a refusal never took a
number, without which there is no job; `StatusesKept` that the status the caller
gets is still the one its handler ended with; `ResultsLast` that a call refused
at once was never published and that a result is given once. With these parts
(`CommandInv`) a step that changes `got` is a `Get` (`GetStep`), one that changes
`result` is a `Return` (`ReturnStep`), and each other step leaves both.

**Registration.** `MemoryBacked` and `AckedOnly` are nearly inductive: they need
`HandlerOK`, that a handler works on the registration its phase promises.
`RegisteredStored` is about the moments between handlers, so `StorageOrdered`
says for each phase of a handler which of the three entries are written already,
also for the id the device believes in and for the one in `db_device`: they
decide what the next registration supplants. `AckStored` speaks of a connection
without jobs; for one with jobs `LiveJobs` says that its last job has the
`LastMsgId` in memory, `LastStored` what holds after it was written. `ListsKept`
is `ListsStored` with the lists in Redis of all registration ids, since the
handler of a later connection reads them.

`LastMsgIdKept` is about single steps and, unlike `AckStored`, holds with failing
Redis commands too, after which memory and storage may differ. `Behind` is what is left
then: nothing stored or queued by a living connection is ahead of the
registration in memory. A handler that writes the registration in memory
therefore does not lower what is stored; a job of a living connection does so
only if the last one behind it, of the same registration, has `LastMsgId` as it
is in memory: the `Restorer`, which is in the queue when the lower value is
written. The theorem says no more than that: it does not say that the restorer
gets to be written, nor anything of `RegisterApp` and of jobs written late, which
lower what is stored with nothing behind them.

**PushPipeline.** That `LastMsgId` skips nothing has a chain of reasons. Marks
are ids the device has got (`MarksReceived`); it gets messages in order
(`ReceivedInOrder`), so all below a mark it has got too; it gets them in order
because they are sent so (`SentInOrder`: in `session.msgs`, and in the queue of
each worker, everything still missing with a lower id comes before), and this
needs what the consumer pushes next to be above everything that is not yet on
its way (`Covered`, `IdsOrdered`, `IdsGiven`). `Covered` is the delicate one: between
reading the offline messages and pushing, a missing message is among those
read, in the queue, or on its way between main loop and worker, where the
consumer's look at the app map must not have been too early (`SessionCalm`).
Without `overtaken` ids are in order from `numbered` to the consumer, which is
`IdsOrdered`. `InOrder`, an action property, follows from the invariant before
and after a step. In `OfflineMsgs` the result of `GetOfflineMsgs` is stated by
what makes it right, the sorted sequence of the ids that qualify (`Ascending`).

**PushTargets.** What the consumer has still to do has three forms: names to
look up, copies of registrations, and a job that waits for room. `Targets` says
that all concern addressed devices, each once; `PushedOnce`, for devices
attached throughout, that exactly those who do not wait any more (`Waits`) got
the push; `Given` that nobody else ever did. A device that stays is found when
its turn comes only if its entries are where the place of its goroutine says
(`Placed`): who is attached is in the app map and `RegApps`, and under its user
in `db_user`; this is also where the order of the writes of `RegisterApp` comes
in. `Reached` is the same as `PushedOnce` for devices that come and go, with what
they have read. A device that had registered before the push began, or has connected since
(`known`), in an earlier second than that of the message, either waits for the
consumer still, or has got the message live, or its job was lost with its
connection, and then the next one reads it offline (`Claims`). `IInv` was also checked as an
invariant of the instance of `targets`.

**AdminApi.** Apps: `AppsFound` is about packages no request works on;
`PackagesRight` says for each place in `addApp` and `delApp` how far the package
is, given that its requests neither overlap nor fail, and needs the new id to be
unused (`FreshIds`) and the app a deletion has loaded to stay one of its package
(`LoadedRight`); requests on *other* packages may overlap and fail as they like.
Statistics: `OutcomesCounted` needs `Begun` and `CountersListed` needs `Listed`,
that `ClearStats` has only listed services left to clear that have counters. For
`SnapshotBounded`, `ReadRight` compares the number of commands `GetStats` has
read with the outcomes it has added so far plus those it has yet to read, and
`NoneLost` says where it starts from. All this is relative to `met`, hence
`Overlaps`.

**Connection.** An update of the count writes one more or less than what it
has read, so `Counts` says of `clientCount` and of what each half-done update
has read alike that it is right modulo `2^Width` but for at most `overlaps`; a
write adds one to the distance of every other half-done update, and `overlaps`
grows by their number. `AllTimely` bounds what `now` may be when it becomes
`lastActive`.

`Framed` is about streams of any length: what handlers got is `Handled` of the
messages read in full. `FrameInv` says where the reader stands between two of its
pieces: there is a message number `i` such that the first `i` messages have been
handled as they should, the bytes not yet read are those after message `i` less
what the reader holds of the next one, and what it holds is a prefix of the
header, or of the body with type and length decoded right. `Bytes` and `Handled`
concatenate what each message adds (`FlattenSeq`), so the proof needs how they
grow by one message (`StreamSteps`, `HandledSteps`). That the recursive function
behind `FlattenSeq` exists and adds element by element is proved by induction:
the library states it for an operator, which the provers cannot instantiate;
`Induction` states it for a set of numbers and derives it from the
well-foundedness of proper subsets (`Least`).

**Services.** `RequestsKept` is inductive with the types. `AnswerRight` needs
each id to be in one place between the loop and the answer (`FateKnown`), the
kept channels to be those of notices with that id (`ChannelsKept`), and a result
to be reported as sent only after the push API accepted it (`WorkersRight`,
`Delivered`). `LivingStay` needs that the comparison of the watcher covers all
nodes that are in the map, at the handler or in the channel (`LivingRight`), and
that these have been created (`FoundCreated`).

Every invariant and every action property of the passing runs is proved, and so
are both refinements. Only model-checked is liveness (`StaleEntryGone`,
`InitEnds`, `CallsReturn`, `HandlersEnd`, `Delivered`, `PushEnds`, `CatchesUp`,
`RequestsPushed`, `NotifyAnswers`): liveness under fairness and `ENABLED` are out
of the prover's reach. So are `RECURSIVE` operators, which is why there are none.

## 6. What is not modelled

Authentication and the device centre are HTTP requests whose results the
handlers branch on (an authentication that fails ends the request without a
change of state). Start-up reads settings, apart from `Init` and `Run` of the
comet server, which are in `CometSession`. The utilities have no state; the test
client is not part of the service. Of the statistics, three plain counters of
messages and the device counts are left out; of the HTTP handlers, the
validation of requests that changes no state, and the commands of
`controlapi.go` other than their way to a device, which is the same for all.

In the modelled parts, the following is left out: several registrations of a
device in `PushPipeline` and `PushTargets`, and a push to a registration id that
is listed twice; the second delivery of a message whose acknowledgement got lost
on the way to RabbitMQ; failing look-ups of users and groups in `PushMessages`,
which end the look-up; in `PushTargets`, subscriptions and send ids that change
after the registration began (`profile` is fixed), and failing Redis commands;
the contents of messages; the wrap-around of the 32-bit
sequence number of a connection; several apps of a device, which have entries
and fields of their own; the time-out of a message body, which ends a connection
as `Leave` does; the data races of the unlocked maps `replyChannels`, `cometNodeInfoMap` and
`Client.RegApps` beyond the interleaving of their operations.
