---------------------------- MODULE PushPipeline ----------------------------
(***************************************************************************)
(* The way of a push from the HTTP handler of the push API to a device:    *)
(* the handlers number messages and put them into msgBox; the main loop of *)
(* the API stores each and publishes its id; the consumer of the comet     *)
(* server looks up whom it is for and gives it to the worker of the        *)
(* connection.  What a device misses, it gets as offline messages when it  *)
(* connects: those with an id above LastMsgId, the last one acknowledged.  *)
(*                                                                         *)
(* One device with one registered app, for which all messages are, and one *)
(* comet process that may end at any time and is started again; the device *)
(* connects one time after the other (CometSession).  Messages do not      *)
(* expire, and jobs other than pushes and UpdateJobs are left out.         *)
(***************************************************************************)
EXTENDS Integers, Sequences, FiniteSets, SequencesExt

CONSTANTS
  MaxMsg,     \* bound on the number of messages
  BoxCap,     \* capacity of msgBox (10)
  Workers,    \* workers of the comet process
  QueueCap,   \* capacity of a worker's jobChannel (1000)
  MaxFaults,  \* bound on failures of Redis and RabbitMQ and exits of the API
  None        \* no worker

ASSUME NoneAssumption == None \notin Workers
ASSUME BoundAssumption ==
  /\ MaxMsg \in Nat /\ MaxFaults \in Nat
  /\ BoxCap \in Nat \ {0} /\ QueueCap \in Nat \ {0}

Ids == 1..MaxMsg

VARIABLES
  nextId,     \* the counter in Redis
  numbered,   \* ids in handlers between getMsgID and msgBox
  msgBox,     \* channel to the main loop
  main,       \* the main loop of the API
  dbMsg,      \* Redis hash db_msg_<app>
  dbOffline,  \* Redis hash db_offline_msg_<app>
  dbLast,     \* LastMsgId of the registration in db_app_<app>
  mq,         \* queue of the comet server in RabbitMQ
  consumer,   \* the goroutine that consumes it
  session,    \* the connection of the device
  queue,      \* jobChannel of each worker
  received,   \* messages the device has got
  overtaken,  \* a message may have passed another one: see PutInBox, SendPush
  faults      \* failures so far

apiVars   == <<nextId, numbered, msgBox, main>>
redis     == <<dbMsg, dbOffline, dbLast>>
cometVars == <<mq, consumer, session, queue>>
vars      == <<apiVars, redis, cometVars, received, overtaken, faults>>

-----------------------------------------------------------------------------
(* The main loop has stored message id and keeps it as offline message     *)
(* (keep) or publishes it (publish) next.                                  *)
MainIdle == [pc |-> "idle", id |-> 0]

(* The consumer has acknowledged message id to RabbitMQ and looks it up    *)
(* (got), has found the registration (found), or the connection too, of    *)
(* which it knows the worker and, unnoticed by it, whether it still lives. *)
ConsumerIdle == [pc |-> "idle", id |-> 0, to |-> None, live |-> FALSE]

(* The connection is in DevicesMap (set) and its registration in the app   *)
(* map (read), offline messages are put into jobs (offline), the read loop *)
(* is entered (loop), the registration has left the app map (closing).  A  *)
(* broken connection swallows what is written to it.  Registration and     *)
(* LastMsgId are only there if they could be loaded.                       *)
NoSession == [pc |-> "none", worker |-> None, reg |-> FALSE, last |-> 0,
              msgs |-> <<>>, broken |-> FALSE]

Init ==
  /\ nextId = 0
  /\ numbered = {}
  /\ msgBox = <<>>
  /\ main = MainIdle
  /\ dbMsg = {}
  /\ dbOffline = {}
  /\ dbLast = 0
  /\ mq = <<>>
  /\ consumer = ConsumerIdle
  /\ session = NoSession
  /\ queue = [w \in Workers |-> <<>>]
  /\ received = {}
  /\ overtaken = FALSE
  /\ faults = 0

Fault == faults < MaxFaults /\ faults' = faults + 1

Ascending(s) == \A i, j \in DOMAIN s : i < j => s[i] < s[j]

-----------------------------------------------------------------------------
(* Wrong variants of definitions, each a mistake one could make in the     *)
(* code; none is part of the specification.                                *)

(* A message that could not be stored is kept and published nevertheless. *)
StoreFailsGoesOn ==
  /\ main.pc = "idle" /\ msgBox # <<>> /\ Fault
  /\ main' = [pc |-> "publish", id |-> Head(msgBox)]
  /\ msgBox' = Tail(msgBox)
  /\ UNCHANGED <<nextId, numbered, redis, cometVars, received, overtaken>>

(* GetOfflineMsgs without the sort. *)
OfflineMsgsUnsorted(last) ==
  LET missed == {m \in dbOffline : m > last}
  IN {s \in [1..Cardinality(missed) -> missed] : ToSet(s) = missed}

(* GetOfflineMsgs compares with one id too many. *)
OfflineMsgsOneLess(last) ==
  LET missed == {m \in dbOffline : m > last + 1}
  IN {s \in [1..Cardinality(missed) -> missed] :
        Ascending(s) /\ ToSet(s) = missed}

(* An offline message is dropped if the job channel is full. *)
SendOfflineDrops ==
  /\ session.pc = "offline"
  /\ queue' = IF Len(queue[session.worker]) >= QueueCap THEN queue
              ELSE [queue EXCEPT ![session.worker] =
                      Append(@, [kind |-> "push", id |-> Head(session.msgs),
                                 live |-> TRUE])]
  /\ session' = [session EXCEPT !.msgs = Tail(@),
                   !.pc = IF Len(session.msgs) = 1 THEN "loop" ELSE "offline"]
  /\ UNCHANGED <<apiVars, redis, mq, consumer, received, overtaken, faults>>

-----------------------------------------------------------------------------
(* The registration is in the app map.                                     *)
InAppMap == session.reg /\ session.pc \in {"read", "offline", "loop"}

HasRoom(w) == Len(queue[w]) < QueueCap

PushJob(m, alive) == [kind |-> "push", id |-> m, live |-> alive]

(* GetOfflineMsgs: the ids above the last one, sorted.                     *)
OfflineMsgs(last) ==
  LET missed == {m \in dbOffline : m > last}
  IN {s \in [1..Cardinality(missed) -> missed] :
        Ascending(s) /\ ToSet(s) = missed}

-----------------------------------------------------------------------------
(* The push API.                                                           *)

(* addMessage takes an id for a valid message ...                          *)
GetMsgID ==
  /\ nextId < MaxMsg
  /\ nextId' = nextId + 1
  /\ numbered' = numbered \union {nextId + 1}
  /\ UNCHANGED <<msgBox, main, redis, cometVars, received, overtaken, faults>>

(* ... and puts the message into msgBox, where one of another handler with *)
(* a greater id may be already.                                            *)
PutInBox(m) ==
  /\ m \in numbered /\ Len(msgBox) < BoxCap
  /\ numbered' = numbered \ {m}
  /\ msgBox' = Append(msgBox, m)
  /\ overtaken' = (overtaken \/ \E k \in numbered : k < m)
  /\ UNCHANGED <<nextId, main, redis, cometVars, received, faults>>

(* The main loop: store the message and, unless it was sent with a         *)
(* negative TTL, ...                                                       *)
Store ==
  /\ main.pc = "idle" /\ msgBox # <<>>
  /\ main' \in [pc : {"keep", "publish"}, id : {Head(msgBox)}]
  /\ msgBox' = Tail(msgBox)
  /\ dbMsg' = dbMsg \union {Head(msgBox)}
  /\ UNCHANGED <<nextId, numbered, dbOffline, dbLast, cometVars, received,
                 overtaken, faults>>

(* (or fail, and forget about the message)                                 *)
StoreFails ==
  /\ main.pc = "idle" /\ msgBox # <<>> /\ Fault
  /\ msgBox' = Tail(msgBox)
  /\ dbMsg' \in {dbMsg, dbMsg \union {Head(msgBox)}}
  /\ UNCHANGED <<nextId, numbered, main, dbOffline, dbLast, cometVars,
                 received, overtaken>>

(* keep it for the devices that are not connected, ...                     *)
Keep ==
  /\ main.pc = "keep"
  /\ main' = [main EXCEPT !.pc = "publish"]
  /\ dbOffline' = dbOffline \union {main.id}
  /\ UNCHANGED <<nextId, numbered, msgBox, dbMsg, dbLast, cometVars, received,
                 overtaken, faults>>

KeepFails ==
  /\ main.pc = "keep" /\ Fault
  /\ main' = MainIdle
  /\ dbOffline' \in {dbOffline, dbOffline \union {main.id}}
  /\ UNCHANGED <<nextId, numbered, msgBox, dbMsg, dbLast, cometVars, received,
                 overtaken>>

(* publish its id to the queues of all comet servers.                      *)
Publish ==
  /\ main.pc = "publish"
  /\ main' = MainIdle
  /\ mq' = Append(mq, main.id)
  /\ UNCHANGED <<nextId, numbered, msgBox, redis, consumer, session, queue,
                 received, overtaken, faults>>

(* Publishing fails, or RabbitMQ loses the message, which is transient.    *)
PublishFails ==
  /\ main.pc = "publish" /\ Fault
  /\ main' = MainIdle
  /\ UNCHANGED <<nextId, numbered, msgBox, redis, cometVars, received, overtaken>>

(* The API process ends and is started again.                              *)
ApiExit ==
  /\ Fault
  /\ numbered' = {} /\ msgBox' = <<>> /\ main' = MainIdle
  /\ UNCHANGED <<nextId, redis, cometVars, received, overtaken>>

-----------------------------------------------------------------------------
(* The consumer of the comet server.                                       *)

(* Take a message and acknowledge it to RabbitMQ.                          *)
Consume ==
  /\ consumer.pc = "idle" /\ mq # <<>>
  /\ consumer' = [ConsumerIdle EXCEPT !.pc = "got", !.id = Head(mq)]
  /\ mq' = Tail(mq)
  /\ UNCHANGED <<apiVars, redis, session, queue, received, overtaken, faults>>

(* GetRawMsg, and the registrations in the app map it is for.              *)
LookUp ==
  /\ consumer.pc = "got"
  /\ \/ consumer.id \in dbMsg /\ InAppMap
        /\ consumer' = [consumer EXCEPT !.pc = "found"]
        /\ UNCHANGED faults
     \/ /\ (~(consumer.id \in dbMsg /\ InAppMap) /\ UNCHANGED faults) \/ Fault
        /\ consumer' = ConsumerIdle
  /\ UNCHANGED <<apiVars, redis, mq, session, queue, received, overtaken>>

(* pushMessage: DevicesMap.Get ...                                         *)
GetClient ==
  /\ consumer.pc = "found"
  /\ consumer' = IF session.pc = "none" THEN ConsumerIdle
                 ELSE [consumer EXCEPT !.pc = "send", !.to = session.worker,
                                       !.live = session.pc # "closing"]
  /\ UNCHANGED <<apiVars, redis, mq, session, queue, received, overtaken, faults>>

(* ... and SendMessage2.  If waitInit of the connection still is on its    *)
(* way, this push may get before the offline messages.                     *)
SendPush ==
  /\ consumer.pc = "send" /\ HasRoom(consumer.to)
  /\ consumer' = ConsumerIdle
  /\ queue' = [queue EXCEPT ![consumer.to] =
                 Append(@, PushJob(consumer.id, consumer.live))]
  /\ overtaken' = (overtaken \/ (consumer.live /\ session.pc # "loop"))
  /\ UNCHANGED <<apiVars, redis, mq, session, received, faults>>

-----------------------------------------------------------------------------
(* The connection.                                                         *)

(* An INIT is accepted: createClient.                                      *)
CreateClient(w) ==
  /\ session.pc = "none"
  /\ session' = [NoSession EXCEPT !.pc = "set", !.worker = w]
  /\ UNCHANGED <<apiVars, redis, mq, consumer, queue, received, overtaken, faults>>

(* RegisterApp2 loads the registration and adds it to the app map.         *)
LoadApp ==
  /\ session.pc = "set"
  /\ \/ session' = [session EXCEPT !.pc = "read", !.reg = TRUE, !.last = dbLast]
        /\ UNCHANGED faults
     \/ Fault /\ session' = [session EXCEPT !.pc = "loop"]
  /\ UNCHANGED <<apiVars, redis, mq, consumer, queue, received, overtaken>>

(* handleOfflineMsgs reads the offline messages, ...                       *)
ReadOffline ==
  /\ session.pc = "read"
  /\ \/ /\ \E msgs \in OfflineMsgs(session.last) :
             session' = [session EXCEPT !.msgs = msgs,
                           !.pc = IF msgs = <<>> THEN "loop" ELSE "offline"]
        /\ UNCHANGED faults
     \/ Fault /\ session' = [session EXCEPT !.pc = "loop"]
  /\ UNCHANGED <<apiVars, redis, mq, consumer, queue, received, overtaken>>

(* ... and sends them one by one.                                          *)
SendOffline ==
  /\ session.pc = "offline" /\ HasRoom(session.worker)
  /\ queue' = [queue EXCEPT ![session.worker] =
                 Append(@, PushJob(Head(session.msgs), TRUE))]
  /\ session' = [session EXCEPT !.msgs = Tail(@),
                   !.pc = IF Len(session.msgs) = 1 THEN "loop" ELSE "offline"]
  /\ UNCHANGED <<apiVars, redis, mq, consumer, received, overtaken, faults>>

(* handlePushReply, for any message the device has got and in any order;   *)
(* one that is not above LastMsgId changes nothing.                        *)
PushReply(m) ==
  /\ session.pc = "loop" /\ session.reg
  /\ m \in received /\ m > session.last
  /\ HasRoom(session.worker)
  /\ session' = [session EXCEPT !.last = m]
  /\ queue' = [queue EXCEPT ![session.worker] =
                 Append(@, [kind |-> "update", id |-> m, live |-> TRUE])]
  /\ UNCHANGED <<apiVars, redis, mq, consumer, received, overtaken, faults>>

(* closeClient up to DelApp: jobs of the connection will do nothing, ...   *)
DelApp ==
  /\ session.pc = "loop"
  /\ session' = [session EXCEPT !.pc = "closing"]
  /\ consumer' = [consumer EXCEPT !.live = FALSE]
  /\ queue' = [w \in Workers |->
                 [i \in DOMAIN queue[w] |-> [queue[w][i] EXCEPT !.live = FALSE]]]
  /\ UNCHANGED <<apiVars, redis, mq, received, overtaken, faults>>

(* ... and from DevicesMap.Delete.                                         *)
CloseClient ==
  /\ session.pc = "closing"
  /\ session' = NoSession
  /\ UNCHANGED <<apiVars, redis, mq, consumer, queue, received, overtaken, faults>>

(* A worker carries out a job: a push is written if the connection still   *)
(* is open, and reaches the device if nothing before it was lost.          *)
WritePush(w) ==
  /\ queue[w] # <<>> /\ Head(queue[w]).kind = "push"
  /\ queue' = [queue EXCEPT ![w] = Tail(@)]
  /\ \/ /\ Head(queue[w]).live /\ ~session.broken
        /\ received' = received \union {Head(queue[w]).id}
        /\ UNCHANGED session
     \/ /\ Head(queue[w]).live
        /\ session' = [session EXCEPT !.broken = TRUE]
        /\ UNCHANGED received
     \/ ~Head(queue[w]).live /\ UNCHANGED <<session, received>>
  /\ UNCHANGED <<apiVars, redis, mq, consumer, overtaken, faults>>

(* UpdateJob, whose snapshot may be older than what is stored.             *)
UpdateLast(w) ==
  /\ queue[w] # <<>> /\ Head(queue[w]).kind = "update"
  /\ queue' = [queue EXCEPT ![w] = Tail(@)]
  /\ \/ dbLast' = Head(queue[w]).id /\ UNCHANGED faults
     \/ Fault /\ UNCHANGED dbLast
  /\ UNCHANGED <<apiVars, dbMsg, dbOffline, mq, consumer, session, received,
                 overtaken>>

(* The comet process ends and is started again; its queue in RabbitMQ is   *)
(* durable.                                                                *)
CometExit ==
  /\ session' = NoSession
  /\ consumer' = ConsumerIdle
  /\ queue' = [w \in Workers |-> <<>>]
  /\ UNCHANGED <<apiVars, redis, mq, received, overtaken, faults>>

-----------------------------------------------------------------------------
ApiStep ==
  \/ GetMsgID
  \/ \E m \in Ids : PutInBox(m)
  \/ Store \/ StoreFails \/ Keep \/ KeepFails \/ Publish \/ PublishFails
  \/ ApiExit

CometStep ==
  \/ Consume \/ LookUp \/ GetClient \/ SendPush
  \/ \E w \in Workers : CreateClient(w) \/ WritePush(w) \/ UpdateLast(w)
  \/ LoadApp \/ ReadOffline \/ SendOffline
  \/ \E m \in Ids : PushReply(m)
  \/ DelApp \/ CloseClient
  \/ CometExit

Next == ApiStep \/ CometStep

(* The goroutines run; nothing makes a device connect, acknowledge or      *)
(* stay.  Go channels serve waiting senders in their order, so room that   *)
(* comes again and again comes to each of them.                            *)
Fairness ==
  /\ \A m \in Ids : WF_vars(PutInBox(m))
  /\ WF_vars(Store) /\ WF_vars(Keep) /\ WF_vars(Publish)
  /\ WF_vars(Consume) /\ WF_vars(LookUp) /\ WF_vars(GetClient)
  /\ WF_vars(LoadApp) /\ WF_vars(ReadOffline)
  /\ SF_vars(SendPush) /\ SF_vars(SendOffline)
  /\ \A w \in Workers : WF_vars(WritePush(w)) /\ WF_vars(UpdateLast(w))

Spec == Init /\ [][Next]_vars
FairSpec == Spec /\ Fairness

-----------------------------------------------------------------------------
(* Properties.                                                             *)

JobType == [kind : {"push", "update"}, id : Ids, live : BOOLEAN]

(* The variables have the values their declarations promise; channels keep *)
(* their capacities.                                                       *)
TypeOK ==
  /\ nextId \in 0..MaxMsg
  /\ numbered \subseteq Ids
  /\ msgBox \in Seq(Ids) /\ Len(msgBox) <= BoxCap
  /\ main \in [pc : {"idle", "keep", "publish"}, id : 0..MaxMsg]
  /\ dbMsg \subseteq Ids /\ dbOffline \subseteq Ids
  /\ dbLast \in 0..MaxMsg
  /\ mq \in Seq(Ids)
  /\ consumer \in [pc : {"idle", "got", "found", "send"}, id : 0..MaxMsg,
                   to : Workers \union {None}, live : BOOLEAN]
  /\ session \in [pc : {"none", "set", "read", "offline", "loop", "closing"},
                  worker : Workers \union {None}, reg : BOOLEAN,
                  last : 0..MaxMsg, msgs : Seq(Ids), broken : BOOLEAN]
  /\ queue \in [Workers -> Seq(JobType)]
  /\ \A w \in Workers : Len(queue[w]) <= QueueCap
  /\ received \subseteq Ids
  /\ overtaken \in BOOLEAN
  /\ faults \in 0..MaxFaults

(* Whatever fails, an id under way in RabbitMQ or the consumer is the id   *)
(* of a stored message.                                                    *)
PublishedStored ==
  /\ ToSet(mq) \subseteq dbMsg
  /\ consumer.pc # "idle" => consumer.id \in dbMsg

(* No message the device has not got is behind a mark that says it has: in *)
(* memory, in Redis, or on the way there.  Otherwise no offline reading    *)
(* would find it again.  The comet process may end and the device may      *)
(* reconnect at any time; only an overtaking or a failure of Redis,        *)
(* RabbitMQ or the API can make a message be skipped.                      *)
NothingSkipped ==
  faults = 0 /\ ~overtaken =>
    \A m \in dbOffline \ received :
      /\ dbLast < m
      /\ session.last < m
      /\ \A w \in Workers : \A i \in DOMAIN queue[w] :
           queue[w][i].kind = "update" => queue[w][i].id < m

(* Under the same conditions the device gets the messages that are kept    *)
(* for it in the order of their ids (repetitions apart).                   *)
InOrder ==
  [][faults' = 0 /\ ~overtaken' =>
       \A m \in received' \ received : \A k \in dbOffline \ received' : m < k]_vars

(* A kept message reaches the device if it stays connected: as a push, or  *)
(* as an offline message if it came too late for that.                     *)
Delivered ==
  \A m \in Ids :
    m \in dbOffline ~> \/ m \in received
                       \/ session.pc \in {"none", "closing"} \/ session.broken
                       \/ overtaken \/ faults > 0

=============================================================================
