----------------------------- MODULE CommandRpc -----------------------------
(***************************************************************************)
(* Commands to a device: an HTTP request of the push API calls             *)
(* RpcClient.Control, which sends the command over RabbitMQ to the comet   *)
(* server of the device; a handler goroutine there passes it to the        *)
(* device's connection by way of a send worker and waits for the device's  *)
(* reply; the reply goes back over the client's callback queue.            *)
(*                                                                         *)
(* Two tables match replies to requests, one per process: requestTable of  *)
(* the API by correlation id, and Client.replyChannels of the comet server *)
(* by sequence number.  All channels in them are unbuffered: who sends     *)
(* waits for who receives.                                                 *)
(*                                                                         *)
(* One device and one comet server; the device may lose its connection and *)
(* come back with another one.                                             *)
(***************************************************************************)
EXTENDS Integers, Sequences, FiniteSets

CONSTANTS
  Requests,    \* calls of Control; a request stands for its correlation id
               \* and for the command it carries
  Clients,     \* connections of the device, one after the other
  QueueCap,    \* capacity of a worker's jobChannel (1000)
  MaxWaiting,  \* MAX_WAITING_MSGS (20)
  None         \* no request, no connection

ASSUME NoneAssumption == None \notin Requests \union Clients
ASSUME FiniteAssumption == IsFiniteSet(Requests)
ASSUME CapAssumption == QueueCap \in Nat \ {0} /\ MaxWaiting \in Nat \ {0}

VARIABLES
  apiUp,         \* the API process has not panicked
  call,          \* RpcClient.Control of each request: where it stands
  result,        \* what it returned or is about to return
  requestTable,  \* the requests with an entry in requestTable
  responses,     \* messages in the callback queue
  responder,     \* the response handleResponse is passing on, or None
  rpcQueue,      \* requests published to the comet server
  handler,       \* handleRpcRequest of each request
  queue,         \* jobChannel of the device's worker, and before it the job
                 \* that the worker is writing
  writing,       \* the worker is in SendJob.Do with the first job of queue
  worker,        \* the job whose reply channel the worker is about to add
  current,       \* the device's entry in DevicesMap
  client,        \* the connections of the device
  inbox,         \* commands the device got and has not answered
  outbox,        \* replies of the device on their way, in order
  got            \* how often the device got the command of each request

apiVars    == <<apiUp, call, result, requestTable, responder>>
mqVars     == <<rpcQueue, responses>>
cometVars  == <<handler, queue, writing, worker>>
deviceVars == <<current, client, inbox, outbox, got>>
vars       == <<apiVars, mqVars, cometVars, deviceVars>>

-----------------------------------------------------------------------------
(* The status of an RPC reply: the answer of the device to the command of  *)
(* request r is written r itself.                                          *)
Failures == {"no_device", "send_failed", "send_timeout"}
Statuses == Requests \union Failures
Results  == Statuses \union {"none", "offline", "timeout"}

(* Requests are correlation ids, and none of them is a status code.        *)
ASSUME StatusAssumption ==
  Requests \intersect (Failures \union {"none", "offline", "timeout"}) = {}

(* NextSeq numbers the messages of a connection; each request takes at     *)
(* most one number.                                                        *)
Seqs == 1..Cardinality(Requests)

(* replyChannels of a connection maps a sequence number to the request     *)
(* that waits for it.                                                      *)
NoChannels == [n \in Seqs |-> None]
Waiting(c) == {n \in Seqs : client[c].reply[n] # None}

NoHandler == [pc |-> "none", client |-> None, seq |-> 0, status |-> "none"]

(* A connection is new, has its goroutine in the read loop (read) or in    *)
(* handleCmdReply before the channel send (deliver), or is closed (gone).  *)
NewClient == [pc |-> "new", closed |-> FALSE, nextSeq |-> 0,
              reply |-> NoChannels, to |-> None, answer |-> None]

Init ==
  /\ apiUp = TRUE
  /\ call = [r \in Requests |-> "idle"]
  /\ result = [r \in Requests |-> "none"]
  /\ requestTable = {}
  /\ responses = {}
  /\ responder = None
  /\ rpcQueue = {}
  /\ handler = [r \in Requests |-> NoHandler]
  /\ queue = <<>>
  /\ writing = FALSE
  /\ worker = None
  /\ current = None
  /\ client = [c \in Clients |-> NewClient]
  /\ inbox = [c \in Clients |-> {}]
  /\ outbox = [c \in Clients |-> <<>>]
  /\ got = [r \in Requests |-> 0]

-----------------------------------------------------------------------------
(* There is room in the job channel; a job that is being written is out of *)
(* it.                                                                     *)
Room == Len(queue) < IF writing THEN QueueCap + 1 ELSE QueueCap

(* Wrong variants of actions below, each a mistake one could make in the   *)
(* code; none is part of the specification.                                *)

(* NextSeq returns the next number without counting up. *)
SendMessageSameSeq(r) ==
  LET c == handler[r].client
  IN /\ handler[r].pc = "send" /\ Cardinality(Waiting(c)) < MaxWaiting
     /\ handler' = [handler EXCEPT ![r].pc = "enqueue",
                                   ![r].seq = client[c].nextSeq + 1]
     /\ UNCHANGED <<apiVars, mqVars, queue, writing, worker, deviceVars>>

(* handleCmdReply leaves the channel in the map. *)
ReadReplyKeepsChannel(c) ==
  /\ client[c].pc = "read" /\ outbox[c] # <<>>
  /\ LET m == Head(outbox[c])
         r == client[c].reply[m.seq]
     IN client' = IF r = None THEN client
                  ELSE [client EXCEPT ![c].pc = "deliver", ![c].to = r,
                                      ![c].answer = m.answer]
  /\ outbox' = [outbox EXCEPT ![c] = Tail(@)]
  /\ UNCHANGED <<apiVars, mqVars, cometVars, current, inbox, got>>

(* handleResponse sends to the channel under the lock that Control needs   *)
(* to delete its entry. *)
UnregisterLocked(r) ==
  /\ apiUp /\ call[r] = "closing" /\ responder = None
  /\ call' = [call EXCEPT ![r] = "close"]
  /\ requestTable' = requestTable \ {r}
  /\ UNCHANGED <<apiUp, result, responder, mqVars, cometVars, deviceVars>>

(* handleRpcRequest sends the command again after its timer. *)
MsgTimeoutRetries(r) ==
  /\ handler[r].pc = "late"
  /\ client' = [client EXCEPT ![handler[r].client].reply[handler[r].seq] = None]
  /\ handler' = [handler EXCEPT ![r].pc = "enqueue"]
  /\ UNCHANGED <<apiVars, mqVars, queue, writing, worker, current,
                 inbox, outbox, got>>

(* handleRpcRequest waits for the reply without a timer. *)
SendTimeoutNever(r) ==
  /\ handler[r].pc = "wait" /\ FALSE
  /\ UNCHANGED vars

-----------------------------------------------------------------------------
(* The API: Control and its deferred clean-up.                             *)

(* CheckDevice finds no server, or fails, or publishing fails: Control     *)
(* returns at once.                                                        *)
Refuse(r) ==
  /\ apiUp /\ call[r] = "idle"
  /\ call' = [call EXCEPT ![r] = "done"]
  /\ result' = [result EXCEPT ![r] = "offline"]
  /\ UNCHANGED <<apiUp, requestTable, responder, mqVars, cometVars, deviceVars>>

(* The device is registered: publish the command to its server, or to      *)
(* nowhere if that server has no queue (any more).  Nobody waits for the   *)
(* reply yet.                                                              *)
Publish(r) ==
  /\ apiUp /\ call[r] = "idle"
  /\ call' = [call EXCEPT ![r] = "published"]
  /\ rpcQueue' \in {rpcQueue, rpcQueue \union {r}}
  /\ UNCHANGED <<apiUp, result, requestTable, responder, responses, cometVars,
                 deviceVars>>

(* Only now the reply channel gets into requestTable.                      *)
Register(r) ==
  /\ apiUp /\ call[r] = "published"
  /\ call' = [call EXCEPT ![r] = "waiting"]
  /\ requestTable' = requestTable \union {r}
  /\ UNCHANGED <<apiUp, result, responder, mqVars, cometVars, deviceVars>>

(* The select in Control takes the reply from handleResponse ...           *)
ReceiveResponse(r) ==
  /\ apiUp /\ call[r] = "waiting" /\ responder # None /\ responder.req = r
  /\ call' = [call EXCEPT ![r] = "closing"]
  /\ result' = [result EXCEPT ![r] = responder.status]
  /\ responder' = None
  /\ UNCHANGED <<apiUp, requestTable, mqVars, cometVars, deviceVars>>

(* ... or its timer, even if the reply is there.                           *)
CallTimeout(r) ==
  /\ apiUp /\ call[r] = "waiting"
  /\ call' = [call EXCEPT ![r] = "closing"]
  /\ result' = [result EXCEPT ![r] = "timeout"]
  /\ UNCHANGED <<apiUp, requestTable, responder, mqVars, cometVars, deviceVars>>

(* The deferred function: delete the entry under the lock, ...             *)
Unregister(r) ==
  /\ apiUp /\ call[r] = "closing"
  /\ call' = [call EXCEPT ![r] = "close"]
  /\ requestTable' = requestTable \ {r}
  /\ UNCHANGED <<apiUp, result, responder, mqVars, cometVars, deviceVars>>

(* ... then close the channel, and Control returns.                        *)
CloseChannel(r) ==
  /\ apiUp /\ call[r] = "close"
  /\ call' = [call EXCEPT ![r] = "done"]
  /\ UNCHANGED <<apiUp, result, requestTable, responder, mqVars, cometVars,
                 deviceVars>>

(* handleResponse takes a message and looks its request up; the lock is    *)
(* free again when it goes on to send.  A response nobody waits for is     *)
(* dropped.                                                                *)
HandleResponse(m) ==
  /\ apiUp /\ responder = None /\ m \in responses
  /\ responses' = responses \ {m}
  /\ responder' = IF m.req \in requestTable THEN m ELSE None
  /\ UNCHANGED <<apiUp, call, result, requestTable, rpcQueue, cometVars,
                 deviceVars>>

(* It sends to a channel that Control has closed meanwhile: the process    *)
(* panics.                                                                 *)
SendOnClosed ==
  /\ apiUp /\ responder # None /\ call[responder.req] = "done"
  /\ apiUp' = FALSE
  /\ UNCHANGED <<call, result, requestTable, responder, mqVars, cometVars,
                 deviceVars>>

-----------------------------------------------------------------------------
(* The comet server: handleDeliveries starts a goroutine per request.      *)
HandleDelivery(r) ==
  /\ r \in rpcQueue
  /\ rpcQueue' = rpcQueue \ {r}
  /\ handler' = [handler EXCEPT ![r].pc = "get"]
  /\ UNCHANGED <<apiVars, responses, queue, writing, worker, deviceVars>>

(* handleRpcRequest, one step at a time: DevicesMap.Get, ...               *)
GetDevice(r) ==
  /\ handler[r].pc = "get"
  /\ handler' = IF current = None
                THEN [handler EXCEPT ![r].pc = "answer", ![r].status = "no_device"]
                ELSE [handler EXCEPT ![r].pc = "send", ![r].client = current]
  /\ UNCHANGED <<apiVars, mqVars, queue, writing, worker, deviceVars>>

(* ... SendMessage up to the channel send: it refuses when the connection  *)
(* has MaxWaiting messages waiting, else the message gets its number.      *)
SendMessage(r) ==
  LET c == handler[r].client
      n == client[c].nextSeq + 1
  IN /\ handler[r].pc = "send"
     /\ \/ /\ Cardinality(Waiting(c)) >= MaxWaiting
           /\ handler' = [handler EXCEPT ![r].pc = "answer",
                                         ![r].status = "send_failed"]
           /\ UNCHANGED client
        \/ /\ Cardinality(Waiting(c)) < MaxWaiting
           /\ client' = [client EXCEPT ![c].nextSeq = n]
           /\ handler' = [handler EXCEPT ![r].pc = "enqueue", ![r].seq = n]
     /\ UNCHANGED <<apiVars, mqVars, queue, writing, worker, current,
                 inbox, outbox, got>>

(* ... the channel send, which waits for room, ...                         *)
Enqueue(r) ==
  /\ handler[r].pc = "enqueue" /\ Room
  /\ queue' = Append(queue, [client |-> handler[r].client,
                             seq |-> handler[r].seq, req |-> r])
  /\ handler' = [handler EXCEPT ![r].pc = "wait"]
  /\ UNCHANGED <<apiVars, mqVars, writing, worker, deviceVars>>

(* ... the reply, handed over by the connection's goroutine, ...           *)
ReceiveReply(r, c) ==
  /\ handler[r].pc = "wait" /\ client[c].pc = "deliver" /\ client[c].to = r
  /\ handler' = [handler EXCEPT ![r].pc = "answer",
                                ![r].status = client[c].answer]
  /\ client' = [client EXCEPT ![c].pc = "read", ![c].to = None,
                              ![c].answer = None]
  /\ UNCHANGED <<apiVars, mqVars, queue, writing, worker, current,
                 inbox, outbox, got>>

(* ... or the timer, ...                                                   *)
SendTimeout(r) ==
  /\ handler[r].pc = "wait"
  /\ handler' = [handler EXCEPT ![r].pc = "late"]
  /\ UNCHANGED <<apiVars, mqVars, queue, writing, worker, deviceVars>>

(* ... after which MsgTimeout takes the channel out of the map, if it is   *)
(* (still, or already) there, ...                                          *)
MsgTimeout(r) ==
  /\ handler[r].pc = "late"
  /\ client' = [client EXCEPT ![handler[r].client].reply[handler[r].seq] = None]
  /\ handler' = [handler EXCEPT ![r].pc = "answer", ![r].status = "send_timeout"]
  /\ UNCHANGED <<apiVars, mqVars, queue, writing, worker, current,
                 inbox, outbox, got>>

(* ... and SendRpcResponse.                                                *)
SendRpcResponse(r) ==
  /\ handler[r].pc = "answer"
  /\ responses' = responses \union {[req |-> r, status |-> handler[r].status]}
  /\ handler' = [handler EXCEPT ![r].pc = "done"]
  /\ UNCHANGED <<apiVars, rpcQueue, queue, writing, worker, deviceVars>>

-----------------------------------------------------------------------------
(* Messages that expect no reply (pushes, replies to the device) share the *)
(* worker's channel.                                                       *)
EnqueuePush(c) ==
  /\ current = c /\ Room
  /\ queue' = Append(queue, [client |-> c, seq |-> 0, req |-> None])
  /\ UNCHANGED <<apiVars, mqVars, handler, writing, worker, deviceVars>>

(* The worker, SendJob.Do: a job of a closed client is dropped; ...        *)
DropJob ==
  /\ worker = None /\ ~writing /\ queue # <<>>
  /\ client[Head(queue).client].closed
  /\ queue' = Tail(queue)
  /\ UNCHANGED <<apiVars, mqVars, handler, writing, worker, deviceVars>>

(* ... else it is written to the connection.  The write has no deadline:   *)
(* it takes as long as the device does not read, and the worker with it.   *)
StartWrite ==
  /\ worker = None /\ ~writing /\ queue # <<>>
  /\ ~client[Head(queue).client].closed
  /\ writing' = TRUE
  /\ UNCHANGED <<apiVars, mqVars, handler, queue, worker, deviceVars>>

(* A write that fails closes the client, as does one to a connection that  *)
(* was closed meanwhile; ...                                               *)
WriteFails ==
  /\ writing
  /\ writing' = FALSE
  /\ queue' = Tail(queue)
  /\ client' = [client EXCEPT ![Head(queue).client].closed = TRUE]
  /\ UNCHANGED <<apiVars, mqVars, handler, worker, current, inbox, outbox, got>>

(* ... a write that succeeds reaches the device before the reply channel,  *)
(* if there is one, is in the map.                                         *)
WriteJob ==
  LET job == Head(queue)
      c == job.client
  IN /\ writing /\ client[c].pc # "gone"
     /\ writing' = FALSE
     /\ queue' = Tail(queue)
     /\ \/ job.req = None /\ UNCHANGED <<worker, inbox, got>>
        \/ /\ job.req # None
           /\ worker' = job
           /\ inbox' = [inbox EXCEPT ![c] = @ \union {[seq |-> job.seq,
                                                       answer |-> job.req]}]
           /\ got' = [got EXCEPT ![job.req] = @ + 1]
     /\ UNCHANGED <<apiVars, mqVars, handler, current, client, outbox>>

AddReplyChannel ==
  /\ worker # None
  /\ client' = [client EXCEPT ![worker.client].reply[worker.seq] = worker.req]
  /\ worker' = None
  /\ UNCHANGED <<apiVars, mqVars, handler, queue, writing, current, inbox,
                 outbox, got>>

-----------------------------------------------------------------------------
(* The device and its connection.                                          *)

(* waitInit accepts a new connection when the last one is gone.            *)
Connect(c) ==
  /\ client[c].pc = "new" /\ current = None
  /\ client' = [client EXCEPT ![c].pc = "read"]
  /\ current' = c
  /\ UNCHANGED <<apiVars, mqVars, cometVars, inbox, outbox, got>>

(* The device comes back while its last connection is still there:         *)
(* waitInit marks that one closed.                                         *)
KickOld(c) ==
  /\ current = c /\ ~client[c].closed
  /\ client' = [client EXCEPT ![c].closed = TRUE]
  /\ UNCHANGED <<apiVars, mqVars, cometVars, current, inbox, outbox, got>>

(* The device answers a command, in whatever order and after any time.     *)
Answer(c, m) ==
  /\ m \in inbox[c] /\ client[c].pc # "gone"
  /\ inbox' = [inbox EXCEPT ![c] = @ \ {m}]
  /\ outbox' = [outbox EXCEPT ![c] = Append(@, m)]
  /\ UNCHANGED <<apiVars, mqVars, cometVars, current, client, got>>

(* The read loop gets a reply: handleCmdReply takes the channel out of the *)
(* map and is about to send to it; without a channel the reply is too late *)
(* and dropped.                                                            *)
ReadReply(c) ==
  /\ client[c].pc = "read" /\ outbox[c] # <<>>
  /\ LET m == Head(outbox[c])
         r == client[c].reply[m.seq]
     IN client' = IF r = None THEN client
                  ELSE [client EXCEPT ![c].pc = "deliver", ![c].to = r,
                                      ![c].answer = m.answer,
                                      ![c].reply[m.seq] = None]
  /\ outbox' = [outbox EXCEPT ![c] = Tail(@)]
  /\ UNCHANGED <<apiVars, mqVars, cometVars, current, inbox, got>>

(* The read loop ends, and closeClient takes the device out of DevicesMap. *)
(* The goroutine must be in its loop for that.                             *)
(* What is still on its way on the connection is lost with it.             *)
CloseClient(c) ==
  /\ client[c].pc = "read"
  /\ client' = [client EXCEPT ![c].pc = "gone", ![c].closed = TRUE]
  /\ current' = None
  /\ inbox' = [inbox EXCEPT ![c] = {}]
  /\ outbox' = [outbox EXCEPT ![c] = <<>>]
  /\ UNCHANGED <<apiVars, mqVars, cometVars, got>>

-----------------------------------------------------------------------------
ApiStep(r) ==
  \/ Refuse(r) \/ Publish(r) \/ Register(r) \/ ReceiveResponse(r)
  \/ CallTimeout(r) \/ Unregister(r) \/ CloseChannel(r)

HandlerStep(r) ==
  \/ HandleDelivery(r) \/ GetDevice(r) \/ SendMessage(r) \/ Enqueue(r)
  \/ \E c \in Clients : ReceiveReply(r, c)
  \/ SendTimeout(r) \/ MsgTimeout(r) \/ SendRpcResponse(r)

WorkerStep ==
  DropJob \/ StartWrite \/ WriteFails \/ WriteJob \/ AddReplyChannel

DeviceStep(c) ==
  \/ Connect(c) \/ KickOld(c) \/ EnqueuePush(c)
  \/ \E m \in inbox[c] : Answer(c, m)
  \/ ReadReply(c)
  \/ CloseClient(c)

Next ==
  \/ \E r \in Requests : ApiStep(r) \/ HandlerStep(r)
  \/ \E m \in responses : HandleResponse(m)
  \/ SendOnClosed
  \/ WorkerStep
  \/ \E c \in Clients : DeviceStep(c)

(* The write at hand is to a connection that was closed.                   *)
WriteToGone == writing /\ client[Head(queue).client].pc = "gone"

(* Timers fire and goroutines run; nothing makes a device answer, read,    *)
(* connect or disconnect, so a write may hang for ever; only closing the   *)
(* connection ends it for sure.  A client that was closed leaves its read  *)
(* loop when it gets there.  A Go channel serves its waiting senders in    *)
(* their order, so room in the job channel that comes again and again      *)
(* comes to each.                                                          *)
Fairness ==
  /\ \A r \in Requests :
       /\ WF_vars(Register(r)) /\ WF_vars(Unregister(r))
       /\ WF_vars(CloseChannel(r)) /\ WF_vars(CallTimeout(r))
       /\ WF_vars(HandlerStep(r)) /\ SF_vars(Enqueue(r))
  /\ WF_vars(\E m \in responses : HandleResponse(m))
  /\ WF_vars(DropJob) /\ WF_vars(StartWrite) /\ WF_vars(AddReplyChannel)
  /\ WF_vars(WriteToGone /\ WriteFails)
  /\ \A c \in Clients : WF_vars(client[c].closed /\ CloseClient(c))

Spec == Init /\ [][Next]_vars
FairSpec == Spec /\ Fairness

-----------------------------------------------------------------------------
(* Properties.                                                             *)

JobType == [client : Clients, seq : Seqs, req : Requests]
PushType == [client : Clients, seq : {0}, req : {None}]
AnswerType == [seq : Seqs, answer : Requests]

HandlerType ==
  [pc : {"none", "get", "send", "enqueue", "wait", "late", "answer", "done"},
   client : Clients \union {None}, seq : 0..Cardinality(Requests),
   status : Statuses \union {"none"}]

ClientType ==
  [pc : {"new", "read", "deliver", "gone"}, closed : BOOLEAN,
   nextSeq : 0..Cardinality(Requests),
   reply : [Seqs -> Requests \union {None}],
   to : Requests \union {None}, answer : Requests \union {None}]

(* The variables have the values their declarations promise.               *)
TypeOK ==
  /\ apiUp \in BOOLEAN
  /\ call \in [Requests -> {"idle", "published", "waiting", "closing",
                            "close", "done"}]
  /\ result \in [Requests -> Results]
  /\ requestTable \subseteq Requests
  /\ responses \subseteq [req : Requests, status : Statuses]
  /\ responder \in [req : Requests, status : Statuses] \union {None}
  /\ rpcQueue \subseteq Requests
  /\ handler \in [Requests -> HandlerType]
  /\ queue \in Seq(JobType \union PushType) /\ Len(queue) <= QueueCap + 1
  /\ writing \in BOOLEAN /\ (writing => queue # <<>>)
  /\ worker \in JobType \union {None}
  /\ current \in Clients \union {None}
  /\ client \in [Clients -> ClientType]
  /\ inbox \in [Clients -> SUBSET AnswerType]
  /\ outbox \in [Clients -> Seq(AnswerType)]
  /\ got \in [Requests -> Nat]

(* Nobody gets the answer to another one's command: what Control returns   *)
(* as the device's answer is the answer to its own command, although       *)
(* sequence numbers start again with every connection, replies come in any *)
(* order and after any timeout, and late ones are still around.            *)
NoCrossTalk ==
  \A r \in Requests :
    /\ result[r] \in Requests => result[r] = r
    /\ handler[r].status \in Requests => handler[r].status = r
    /\ \A m \in responses : m.req = r /\ m.status \in Requests => m.status = r

(* A handler that ran into its timer. *)
TimedOut(r) == handler[r].pc = "late" \/ handler[r].status = "send_timeout"

(* Every reply channel in the map of a connection, and every one its       *)
(* goroutine is about to send to, belongs to a handler that got this       *)
(* number from this connection, and waits for it, unless it ran into its   *)
(* timer.  So only a timeout can leave a channel in the map for good,      *)
(* where it counts against MaxWaiting, or a goroutine with a channel that  *)
(* nobody listens on.                                                      *)
ChannelsBacked ==
  \A c \in Clients :
    /\ \A n \in Waiting(c) :
         LET r == client[c].reply[n]
         IN /\ handler[r].client = c /\ handler[r].seq = n
            /\ handler[r].pc = "wait" \/ TimedOut(r)
    /\ client[c].pc = "deliver" =>
         LET r == client[c].to
         IN handler[r].client = c /\ (handler[r].pc = "wait" \/ TimedOut(r))

(* A command is carried out at most once, and never after the caller was   *)
(* told that there is no device or that it could not be sent; what the     *)
(* caller gets as answer is from a device that got the command: see        *)
(* RemoteCommand.                                                          *)
Command ==
  INSTANCE RemoteCommand
    WITH Commands <- Requests, Refusals <- {"offline", "no_device", "send_failed"},
         Timeouts <- {"timeout", "send_timeout"}, Nothing <- "none"

CommandSpec == Command!Spec

(* Every Control returns, whatever becomes of the command (unless the      *)
(* process dies): the goroutine that hands out responses and the deferred  *)
(* clean-up never wait for each other.                                     *)
CallsReturn ==
  \A r \in Requests : call[r] = "published" ~> (call[r] = "done" \/ ~apiUp)

(* A handler waits for room in the job channel, whose worker is in a write *)
(* to a connection that is still open.                                     *)
BehindWrite(r) ==
  /\ handler[r].pc = "enqueue" /\ ~Room
  /\ writing /\ client[Head(queue).client].pc # "gone"

(* Every handler on the comet server ends with a response, unless it waits *)
(* for ever for room in the job channel behind a write that never ends, to *)
(* a connection that nobody closes: its timer starts only after that wait. *)
(* Nothing else holds it up for good, neither the reply channels, nor the  *)
(* connection's goroutine, nor the device.                                 *)
HandlersEnd ==
  \A r \in Requests :
    handler[r].pc = "get" ~> (handler[r].pc = "done" \/ []BehindWrite(r))

(* handleCmdReply: a reply whose handler does not wait any more is too     *)
(* late and dropped, so a connection's goroutine always gets back to its   *)
(* read loop.                                                              *)
ConnectionsGoOn ==
  \A c \in Clients : client[c].pc = "deliver" ~> client[c].pc # "deliver"

=============================================================================
