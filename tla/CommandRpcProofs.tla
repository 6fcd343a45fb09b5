-------------------------- MODULE CommandRpcProofs --------------------------
(***************************************************************************)
(* Proofs about CommandRpc, for any number of requests and connections and *)
(* any capacities.                                                         *)
(***************************************************************************)
EXTENDS CommandRpc, FiniteSetTheorems, SequenceTheorems, TLAPS

-----------------------------------------------------------------------------
(* The inductive invariant.                                                *)

(* The handler of r got number n of connection c, and waits for the reply  *)
(* or ran into its timer.                                                  *)
Open(r, c, n) ==
  /\ handler[r].client = c /\ handler[r].seq = n
  /\ handler[r].pc = "wait" \/ TimedOut(r)

(* A request is delivered at most once, and a handler's fields are set in  *)
(* the order of its steps.                                                 *)
HandlersOrdered ==
  \A r \in Requests :
    /\ r \in rpcQueue => call[r] # "idle" /\ handler[r].pc = "none"
    /\ call[r] = "idle" => handler[r].pc = "none"
    /\ handler[r].pc \in {"none", "get", "send"} => handler[r].seq = 0
    /\ handler[r].pc \in {"send", "enqueue", "wait", "late"} =>
         handler[r].client \in Clients
    /\ handler[r].pc \in {"enqueue", "wait", "late"} => handler[r].seq # 0
    /\ handler[r].seq # 0 => handler[r].client \in Clients
    /\ handler[r].pc \in {"answer", "done"} <=> handler[r].status # "none"

(* The numbers of a connection are given to one request each, and nextSeq  *)
(* counts the requests that have one.                                      *)
Numbered(c) == {r \in Requests : handler[r].client = c /\ handler[r].seq # 0}

NumbersUnique ==
  \A c \in Clients :
    /\ client[c].nextSeq = Cardinality(Numbered(c))
    /\ \A r \in Numbered(c) : handler[r].seq <= client[c].nextSeq
    /\ \A r, s \in Numbered(c) : handler[r].seq = handler[s].seq => r = s

(* A job that wants a reply belongs to an open handler ...                 *)
JobsBacked ==
  /\ \A i \in DOMAIN queue :
       queue[i].req # None => Open(queue[i].req, queue[i].client, queue[i].seq)
  /\ worker # None => Open(worker.req, worker.client, worker.seq)

(* ... and so does every channel in a map or taken from it.                *)
ChannelsOpen ==
  \A c \in Clients :
    /\ \A n \in Waiting(c) : Open(client[c].reply[n], c, n)
    /\ client[c].pc = "deliver" =>
         /\ client[c].to # None
         /\ Open(client[c].to, c, handler[client[c].to].seq)

(* The reply channel of a request is in one place: in the job on its way   *)
(* to the worker, at the worker, in the map, or taken from it.             *)
Unplaced(r) ==
  /\ \A c \in Clients : client[c].pc = "deliver" => client[c].to # r
  /\ \A c \in Clients : \A n \in Seqs : client[c].reply[n] # r

OnePlace ==
  /\ \A i \in DOMAIN queue : queue[i].req # None => Unplaced(queue[i].req)
  /\ \A i, j \in DOMAIN queue :
       queue[i].req # None /\ queue[i].req = queue[j].req => i = j
  /\ worker # None => /\ Unplaced(worker.req)
                      /\ \A i \in DOMAIN queue : queue[i].req # worker.req
  /\ \A c \in Clients : client[c].pc = "deliver" =>
       \A n \in Seqs : client[c].reply[n] # client[c].to

(* A reply of the device has the number of the request it answers, and     *)
(* gets to the handler of that request only.                               *)
AnswersNumbered ==
  \A c \in Clients :
    /\ \A m \in inbox[c] :
         handler[m.answer].client = c /\ handler[m.answer].seq = m.seq
    /\ \A i \in DOMAIN outbox[c] :
         /\ handler[outbox[c][i].answer].client = c
         /\ handler[outbox[c][i].answer].seq = outbox[c][i].seq
    /\ client[c].pc = "deliver" => client[c].answer = client[c].to

(* What handleResponse holds between two steps is as safe as the rest.     *)
ResponsesOwn ==
  /\ NoCrossTalk
  /\ responder # None /\ responder.status \in Requests =>
       responder.status = responder.req

IInv ==
  /\ TypeOK
  /\ HandlersOrdered /\ NumbersUnique /\ JobsBacked /\ ChannelsOpen
  /\ OnePlace /\ AnswersNumbered /\ ResponsesOwn

-----------------------------------------------------------------------------
LEMMA Bounds ==
  /\ None \notin Requests /\ None \notin Clients
  /\ IsFiniteSet(Requests) /\ Cardinality(Requests) \in Nat
  /\ QueueCap \in Nat \ {0} /\ MaxWaiting \in Nat \ {0}
  BY NoneAssumption, FiniteAssumption, CapAssumption, FS_CardinalityType

(* No status code is a request.                                            *)
LEMMA StatusNoRequest ==
  /\ \A x \in Failures : x \notin Requests
  /\ "none" \notin Requests /\ "offline" \notin Requests
  /\ "timeout" \notin Requests
  BY StatusAssumption

(* What Init sets up.                                                      *)
LEMMA InitIInv == Init => IInv
  <1> SUFFICES ASSUME Init PROVE IInv
    OBVIOUS
  <1> USE Bounds, StatusNoRequest
  <1>1. TypeOK
    <2>1. 0 \in 0..Cardinality(Requests)
      OBVIOUS
    <2>2. NewClient \in ClientType
      BY <2>1 DEF NewClient, NoChannels, ClientType
    <2>3. queue \in Seq(JobType \union PushType) /\ Len(queue) <= QueueCap + 1
      BY DEF Init
    <2>4. outbox \in [Clients -> Seq(AnswerType)]
      BY DEF Init
    <2>5. handler \in [Requests -> HandlerType]
      BY <2>1 DEF Init, NoHandler, HandlerType
    <2>6. QED BY <2>2, <2>3, <2>4, <2>5 DEF Init, TypeOK, Results
  <1>2. HandlersOrdered
    BY DEF Init, HandlersOrdered, NoHandler
  <1>3. NumbersUnique
    <2>1. \A c \in Clients : Numbered(c) = {}
      BY DEF Init, Numbered, NoHandler
    <2>2. QED BY <2>1, FS_EmptySet DEF Init, NumbersUnique, NewClient
  <1>4. JobsBacked /\ OnePlace
    BY DEF Init, JobsBacked, OnePlace, NewClient
  <1>5. ChannelsOpen
    BY DEF Init, ChannelsOpen, Waiting, NewClient, NoChannels
  <1>6. AnswersNumbered
    BY DEF Init, AnswersNumbered, NewClient
  <1>7. ResponsesOwn
    BY DEF Init, ResponsesOwn, NoCrossTalk, NoHandler
  <1>8. QED BY <1>1, <1>2, <1>3, <1>4, <1>5, <1>6, <1>7 DEF IInv

-----------------------------------------------------------------------------
(* What an update of a sequence of jobs or messages has in it.             *)
LEMMA TailElements ==
  ASSUME NEW S, NEW q \in Seq(S), q # <<>>
  PROVE  /\ Head(q) \in S /\ Head(q) = q[1] /\ 1 \in DOMAIN q
         /\ Tail(q) \in Seq(S) /\ Len(Tail(q)) = Len(q) - 1
         /\ \A i \in DOMAIN Tail(q) : i + 1 \in DOMAIN q /\ Tail(q)[i] = q[i + 1]
                                     /\ i \in Nat
  BY HeadTailProperties

LEMMA AppendElements ==
  ASSUME NEW S, NEW q \in Seq(S), NEW x \in S
  PROVE  /\ Append(q, x) \in Seq(S) /\ Len(Append(q, x)) = Len(q) + 1
         /\ \A i \in DOMAIN Append(q, x) :
              IF i = Len(q) + 1 THEN Append(q, x)[i] = x
              ELSE i \in DOMAIN q /\ Append(q, x)[i] = q[i]
  BY AppendProperties

(* A connection has a number left for a request that has none.             *)
LEMMA NextNumber ==
  ASSUME TypeOK, NumbersUnique, NEW c \in Clients, NEW r \in Requests,
         handler[r].seq = 0
  PROVE  /\ client[c].nextSeq + 1 \in Seqs
         /\ IsFiniteSet(Numbered(c)) /\ r \notin Numbered(c)
         /\ Cardinality(Numbered(c) \union {r}) = client[c].nextSeq + 1
  <1>1. Numbered(c) \union {r} \subseteq Requests /\ r \notin Numbered(c)
    BY DEF Numbered
  <1>2. IsFiniteSet(Numbered(c)) /\ IsFiniteSet(Numbered(c) \union {r})
    BY <1>1, Bounds, FS_Subset
  <1>3. Cardinality(Numbered(c) \union {r}) = client[c].nextSeq + 1
    BY <1>1, <1>2, FS_AddElement DEF NumbersUnique
  <1>4. Cardinality(Numbered(c) \union {r}) <= Cardinality(Requests)
    BY <1>1, Bounds, FS_Subset
  <1>5. client[c].nextSeq \in Nat
    BY DEF TypeOK, ClientType
  <1>6. QED BY <1>1, <1>2, <1>3, <1>4, <1>5, Bounds DEF Seqs

-----------------------------------------------------------------------------
(* The updates of a handler and of a connection that the actions make.     *)
LEMMA HandlerUpdates ==
  ASSUME NEW h \in HandlerType
  PROVE  /\ \A p \in {"get", "wait", "late", "done"} :
              [h EXCEPT !.pc = p] \in HandlerType
         /\ \A x \in Statuses :
              [h EXCEPT !.pc = "answer", !.status = x] \in HandlerType
         /\ \A n \in Seqs :
              [h EXCEPT !.pc = "enqueue", !.seq = n] \in HandlerType
         /\ \A c \in Clients :
              [h EXCEPT !.pc = "send", !.client = c] \in HandlerType
  <1> USE DEF HandlerType
  <1>1. \A p \in {"get", "wait", "late", "done"} : [h EXCEPT !.pc = p] \in HandlerType
    OBVIOUS
  <1>2. \A x \in Statuses :
          [h EXCEPT !.pc = "answer", !.status = x] \in HandlerType
    OBVIOUS
  <1>3. \A n \in Seqs : [h EXCEPT !.pc = "enqueue", !.seq = n] \in HandlerType
    <2>1. \A n \in Seqs : n \in 0..Cardinality(Requests)
      BY Bounds DEF Seqs
    <2>2. QED BY <2>1
  <1>4. \A c \in Clients : [h EXCEPT !.pc = "send", !.client = c] \in HandlerType
    OBVIOUS
  <1>5. QED BY <1>1, <1>2, <1>3, <1>4

LEMMA ClientUpdates ==
  ASSUME NEW k \in ClientType
  PROVE  /\ [k EXCEPT !.pc = "read"] \in ClientType
         /\ [k EXCEPT !.closed = TRUE] \in ClientType
         /\ [k EXCEPT !.pc = "gone", !.closed = TRUE] \in ClientType
         /\ \A n \in Seqs : [k EXCEPT !.nextSeq = n] \in ClientType
         /\ [k EXCEPT !.pc = "read", !.to = None, !.answer = None]
              \in ClientType
         /\ \A n \in Seqs, x \in Requests \union {None} :
              [k EXCEPT !.reply[n] = x] \in ClientType
         /\ \A n \in Seqs, r, s \in Requests :
              [k EXCEPT !.pc = "deliver", !.to = r, !.answer = s,
                        !.reply[n] = None] \in ClientType
  <1> USE Bounds DEF ClientType
  <1>1. \A n \in Seqs : [k EXCEPT !.nextSeq = n] \in ClientType
    BY DEF Seqs
  <1>2. \A n \in Seqs, x \in Requests \union {None} :
          [k EXCEPT !.reply[n] = x] \in ClientType
    OBVIOUS
  <1>3. \A n \in Seqs, r, s \in Requests :
          [k EXCEPT !.pc = "deliver", !.to = r, !.answer = s,
                    !.reply[n] = None] \in ClientType
    OBVIOUS
  <1>4. QED BY <1>1, <1>2, <1>3

(* Type correctness.                                                       *)
LEMMA ApiStepType ==
  ASSUME TypeOK, NEW r \in Requests, ApiStep(r)
  PROVE  TypeOK'
  <1> USE Bounds DEF TypeOK, vars, apiVars, mqVars, cometVars, deviceVars, Results
  <1>1. CASE Refuse(r) BY <1>1 DEF Refuse
  <1>2. CASE Publish(r) BY <1>2 DEF Publish
  <1>3. CASE Register(r) BY <1>3 DEF Register
  <1>4. CASE ReceiveResponse(r) BY <1>4 DEF ReceiveResponse
  <1>5. CASE CallTimeout(r) BY <1>5 DEF CallTimeout
  <1>6. CASE Unregister(r) BY <1>6 DEF Unregister
  <1>7. CASE CloseChannel(r) BY <1>7 DEF CloseChannel
  <1>8. QED BY <1>1, <1>2, <1>3, <1>4, <1>5, <1>6, <1>7 DEF ApiStep

LEMMA HandlerStepType ==
  ASSUME IInv, NEW r \in Requests, HandlerStep(r)
  PROVE  TypeOK'
  <1> DEFINE h == handler[r]
             cl == handler[r].client
  <1>0. /\ TypeOK /\ HandlersOrdered /\ NumbersUnique
        /\ handler \in [Requests -> HandlerType] /\ h \in HandlerType
        /\ client \in [Clients -> ClientType]
        /\ \A c \in Clients : client[c] \in ClientType
        /\ {"no_device", "send_failed", "send_timeout"} \subseteq Statuses
    BY DEF IInv, TypeOK, Statuses, Failures
  <1>a. ASSUME h.pc \in {"enqueue", "wait", "late"}
        PROVE  cl \in Clients /\ h.seq \in Seqs
    BY <1>0, <1>a, Bounds DEF HandlersOrdered, Seqs, HandlerType
  <1> USE DEF apiVars, mqVars, cometVars, deviceVars
  <1>1. CASE HandleDelivery(r)
    <2>1. handler' \in [Requests -> HandlerType]
      BY <1>0, <1>1, HandlerUpdates DEF HandleDelivery
    <2>2. QED BY <1>0, <1>1, <2>1 DEF HandleDelivery, TypeOK
  <1>2. CASE GetDevice(r)
    <2>1. handler' = [handler EXCEPT ![r] =
                        [h EXCEPT !.pc = "answer", !.status = "no_device"]]
          \/ /\ current \in Clients
             /\ handler' = [handler EXCEPT ![r] =
                              [h EXCEPT !.pc = "send", !.client = current]]
      BY <1>0, <1>2 DEF GetDevice, TypeOK
    <2>2. handler' \in [Requests -> HandlerType]
      BY <1>0, <2>1, HandlerUpdates
    <2>3. QED BY <1>0, <1>2, <2>2 DEF GetDevice, TypeOK
  <1>3. CASE SendMessage(r)
    <2>1. cl \in Clients /\ client[cl].nextSeq + 1 \in Seqs
      BY <1>0, <1>3, NextNumber DEF SendMessage, HandlersOrdered
    <2> DEFINE n == client[cl].nextSeq + 1
    <2>2. \/ /\ handler' = [handler EXCEPT ![r] =
                              [h EXCEPT !.pc = "answer", !.status = "send_failed"]]
             /\ client' = client
          \/ /\ handler' = [handler EXCEPT ![r] =
                              [h EXCEPT !.pc = "enqueue", !.seq = n]]
             /\ client' = [client EXCEPT ![cl] = [client[cl] EXCEPT !.nextSeq = n]]
      BY <1>0, <1>3 DEF SendMessage
    <2> HIDE DEF n
    <2>0. n \in Seqs
      BY <2>1 DEF n
    <2>a. [h EXCEPT !.pc = "enqueue", !.seq = n] \in HandlerType
      BY <1>0, <2>0, HandlerUpdates
    <2>b. [h EXCEPT !.pc = "answer", !.status = "send_failed"] \in HandlerType
      BY <1>0, HandlerUpdates
    <2>c. [client[cl] EXCEPT !.nextSeq = n] \in ClientType
      BY <1>0, <2>0, <2>1, ClientUpdates
    <2>3. handler' \in [Requests -> HandlerType]
      BY <1>0, <2>2, <2>a, <2>b
    <2>4. client' \in [Clients -> ClientType]
      BY <1>0, <2>2, <2>c
    <2>5. QED BY <1>0, <1>3, <2>3, <2>4 DEF SendMessage, TypeOK
  <1>4. CASE Enqueue(r)
    <2>1. [client |-> cl, seq |-> h.seq, req |-> r] \in JobType \union PushType
      BY <1>4, <1>a DEF Enqueue, JobType
    <2>2. /\ queue' \in Seq(JobType \union PushType)
          /\ Len(queue') = Len(queue) + 1
      BY <1>0, <1>4, <2>1, AppendElements DEF Enqueue, TypeOK
    <2>3. Len(queue') <= QueueCap + 1
      BY <1>0, <1>4, <2>2, Bounds DEF Enqueue, Room, TypeOK
    <2>4. handler' \in [Requests -> HandlerType]
      BY <1>0, <1>4, HandlerUpdates DEF Enqueue
    <2>5. QED BY <1>0, <1>4, <2>2, <2>3, <2>4 DEF Enqueue, TypeOK
  <1>5. ASSUME NEW c \in Clients, ReceiveReply(r, c)
        PROVE  TypeOK'
    <2>1. client[c].answer \in Statuses
      BY <1>5 DEF ReceiveReply, IInv, AnswersNumbered, ChannelsOpen, Statuses
    <2>2. /\ handler' = [handler EXCEPT ![r] = [h EXCEPT !.pc = "answer",
                                               !.status = client[c].answer]]
          /\ client' = [client EXCEPT ![c] =
                          [client[c] EXCEPT !.pc = "read", !.to = None,
                                            !.answer = None]]
      BY <1>0, <1>5 DEF ReceiveReply
    <2>3. /\ handler' \in [Requests -> HandlerType]
          /\ client' \in [Clients -> ClientType]
      BY <1>0, <2>1, <2>2, HandlerUpdates, ClientUpdates
    <2>4. QED BY <1>0, <1>5, <2>3 DEF ReceiveReply, TypeOK
  <1>6. CASE SendTimeout(r)
    <2>1. handler' \in [Requests -> HandlerType]
      BY <1>0, <1>6, HandlerUpdates DEF SendTimeout
    <2>2. QED BY <1>0, <1>6, <2>1 DEF SendTimeout, TypeOK
  <1>7. CASE MsgTimeout(r)
    <2>1. cl \in Clients /\ h.seq \in Seqs
      BY <1>7, <1>a DEF MsgTimeout
    <2>2. /\ handler' = [handler EXCEPT ![r] = [h EXCEPT !.pc = "answer",
                                               !.status = "send_timeout"]]
          /\ client' = [client EXCEPT ![cl] = [@ EXCEPT !.reply[h.seq] = None]]
      BY <1>0, <1>7 DEF MsgTimeout
    <2>3. /\ handler' \in [Requests -> HandlerType]
          /\ client' \in [Clients -> ClientType]
      BY <1>0, <2>1, <2>2, HandlerUpdates, ClientUpdates
    <2>4. QED BY <1>0, <1>7, <2>3 DEF MsgTimeout, TypeOK
  <1>8. CASE SendRpcResponse(r)
    <2>1. h.status \in Statuses
      BY <1>0, <1>8 DEF SendRpcResponse, HandlersOrdered, HandlerType
    <2>2. handler' \in [Requests -> HandlerType]
      BY <1>0, <1>8, HandlerUpdates DEF SendRpcResponse
    <2>3. QED BY <1>0, <1>8, <2>1, <2>2 DEF SendRpcResponse, TypeOK
  <1>9. QED
    BY <1>1, <1>2, <1>3, <1>4, <1>5, <1>6, <1>7, <1>8 DEF HandlerStep

LEMMA WorkerStepType ==
  ASSUME TypeOK, WorkerStep
  PROVE  TypeOK'
  <1> USE DEF apiVars, mqVars, cometVars, deviceVars
  <1>0. /\ client \in [Clients -> ClientType]
        /\ \A c \in Clients : client[c] \in ClientType
    BY DEF TypeOK
  <1>1. ASSUME queue # <<>>
        PROVE  /\ Head(queue) \in JobType \union PushType
               /\ Head(queue).client \in Clients
               /\ Head(queue).req # None => Head(queue) \in JobType
               /\ Tail(queue) \in Seq(JobType \union PushType)
               /\ Len(Tail(queue)) <= QueueCap + 1
    <2>1. /\ Head(queue) \in JobType \union PushType
          /\ Tail(queue) \in Seq(JobType \union PushType)
          /\ Len(Tail(queue)) = Len(queue) - 1
      BY <1>1, TailElements DEF TypeOK
    <2>2. Len(Tail(queue)) <= QueueCap + 1
      BY <2>1, Bounds DEF TypeOK
    <2>3. QED BY <2>1, <2>2 DEF JobType, PushType
  <1>2. CASE DropJob BY <1>1, <1>2 DEF DropJob, TypeOK
  <1>a. CASE StartWrite BY <1>a DEF StartWrite, TypeOK
  <1>b. writing => queue # <<>> BY DEF TypeOK
  <1>3. CASE WriteFails
    <2>1. client' \in [Clients -> ClientType]
      BY <1>0, <1>1, <1>3, <1>b, ClientUpdates DEF WriteFails
    <2>2. QED BY <1>1, <1>3, <1>b, <2>1 DEF WriteFails, TypeOK
  <1>4. CASE WriteJob
    <2>1. CASE Head(queue).req = None
      BY <1>1, <1>4, <1>b, <2>1 DEF WriteJob, TypeOK
    <2>2. CASE Head(queue).req # None
      <3>1. [seq |-> Head(queue).seq, answer |-> Head(queue).req] \in AnswerType
        BY <1>1, <1>4, <1>b, <2>2 DEF WriteJob, AnswerType, JobType
      <3> DEFINE x == [seq |-> Head(queue).seq, answer |-> Head(queue).req]
                 cl == Head(queue).client
      <3>a. inbox' = [inbox EXCEPT ![cl] = inbox[cl] \union {x}]
        BY <1>1, <1>4, <1>b, <2>2 DEF WriteJob, TypeOK
      <3> HIDE DEF x, cl
      <3>2. inbox' \in [Clients -> SUBSET AnswerType]
        BY <1>1, <1>4, <1>b, <3>1, <3>a DEF TypeOK, x, cl
      <3>3. Head(queue).req \in Requests /\ worker' \in JobType
        BY <1>1, <1>4, <1>b, <2>2 DEF WriteJob, JobType
      <3>4. got' \in [Requests -> Nat]
        <4>1. got' = [got EXCEPT ![Head(queue).req] = @ + 1]
          BY <1>4, <2>2 DEF WriteJob
        <4>2. QED BY <3>3, <4>1 DEF TypeOK
      <3>5. QED BY <1>1, <1>4, <1>b, <3>2, <3>3, <3>4 DEF WriteJob, TypeOK
    <2>3. QED BY <2>1, <2>2
  <1>5. CASE AddReplyChannel
    <2>1. worker \in JobType
      BY <1>5 DEF AddReplyChannel, TypeOK
    <2>2. worker.client \in Clients /\ worker.seq \in Seqs
          /\ worker.req \in Requests \union {None}
      BY <2>1 DEF JobType
    <2>3. [client[worker.client] EXCEPT !.reply[worker.seq] = worker.req]
            \in ClientType
      BY <1>0, <2>2, ClientUpdates
    <2>4. client' \in [Clients -> ClientType]
      BY <1>0, <1>5, <2>3 DEF AddReplyChannel
    <2>5. QED BY <1>5, <2>4 DEF AddReplyChannel, TypeOK
  <1>6. QED BY <1>2, <1>a, <1>3, <1>4, <1>5 DEF WorkerStep

LEMMA DeviceStepType ==
  ASSUME TypeOK, NEW c \in Clients, DeviceStep(c)
  PROVE  TypeOK'
  <1> USE DEF apiVars, mqVars, cometVars, deviceVars
  <1>0. /\ client \in [Clients -> ClientType] /\ client[c] \in ClientType
        /\ outbox[c] \in Seq(AnswerType)
    BY DEF TypeOK
  <1>1. CASE Connect(c)
    <2>1. client' \in [Clients -> ClientType]
      BY <1>0, <1>1, ClientUpdates DEF Connect
    <2>2. QED BY <1>1, <2>1 DEF Connect, TypeOK
  <1>2. CASE KickOld(c)
    <2>1. client' \in [Clients -> ClientType]
      BY <1>0, <1>2, ClientUpdates DEF KickOld
    <2>2. QED BY <1>2, <2>1 DEF KickOld, TypeOK
  <1>3. CASE EnqueuePush(c)
    <2>1. [client |-> c, seq |-> 0, req |-> None] \in JobType \union PushType
      BY DEF PushType
    <2>2. /\ queue' \in Seq(JobType \union PushType)
          /\ Len(queue') = Len(queue) + 1
      BY <1>3, <2>1, AppendElements DEF EnqueuePush, TypeOK
    <2>3. Len(queue') <= QueueCap + 1
      BY <1>3, <2>2, Bounds DEF EnqueuePush, Room, TypeOK
    <2>4. queue' # <<>>
      BY <2>2, Bounds DEF TypeOK
    <2>5. QED BY <1>3, <2>2, <2>3, <2>4 DEF EnqueuePush, TypeOK
  <1>4. ASSUME NEW m \in inbox[c], Answer(c, m)
        PROVE  TypeOK'
    <2>1. m \in AnswerType
      BY DEF TypeOK
    <2>2. Append(outbox[c], m) \in Seq(AnswerType)
      BY <1>0, <2>1, AppendElements
    <2>3. QED BY <1>4, <2>2 DEF Answer, TypeOK
  <1>5. CASE ReadReply(c)
    <2>1. Head(outbox[c]) \in AnswerType /\ Tail(outbox[c]) \in Seq(AnswerType)
      BY <1>0, <1>5, TailElements DEF ReadReply
    <2> DEFINE m == Head(outbox[c])
               r == client[c].reply[m.seq]
    <2>2. /\ m.seq \in Seqs /\ m.answer \in Requests
          /\ r # None => r \in Requests
      BY <1>0, <2>1 DEF AnswerType, ClientType
    <2>3. r # None => [client[c] EXCEPT !.pc = "deliver", !.to = r,
                            !.answer = m.answer, !.reply[m.seq] = None]
                        \in ClientType
      BY <1>0, <2>2, ClientUpdates
    <2>4. client' \in [Clients -> ClientType]
      BY <1>0, <1>5, <2>3 DEF ReadReply
    <2>5. QED BY <1>5, <2>1, <2>4 DEF ReadReply, TypeOK
  <1>6. CASE CloseClient(c)
    <2>1. client' \in [Clients -> ClientType]
      BY <1>0, <1>6, ClientUpdates DEF CloseClient
    <2>2. /\ inbox' \in [Clients -> SUBSET AnswerType]
          /\ outbox' \in [Clients -> Seq(AnswerType)]
      BY <1>6, EmptySeq DEF CloseClient, TypeOK
    <2>3. QED BY <1>6, <2>1, <2>2 DEF CloseClient, TypeOK
  <1>7. QED BY <1>1, <1>2, <1>3, <1>4, <1>5, <1>6 DEF DeviceStep

LEMMA StepType ==
  ASSUME IInv, [Next]_vars
  PROVE  TypeOK'
  <1> USE DEF vars, apiVars, mqVars, cometVars, deviceVars
  <1>0. TypeOK BY DEF IInv
  <1>1. ASSUME NEW m \in responses, HandleResponse(m)
        PROVE  TypeOK'
    BY <1>0, <1>1 DEF HandleResponse, TypeOK
  <1>2. CASE SendOnClosed BY <1>0, <1>2 DEF SendOnClosed, TypeOK
  <1>3. CASE UNCHANGED vars BY <1>0, <1>3 DEF TypeOK
  <1>4. QED
    BY <1>0, <1>1, <1>2, <1>3, ApiStepType, HandlerStepType, WorkerStepType,
       DeviceStepType
    DEF Next

-----------------------------------------------------------------------------
(* What one step does to the handlers.                                     *)
(* The steps of the handler of r, but for the reply.                       *)
Moves(r) ==
  \/ handler[r].pc = "none" /\ handler' = [handler EXCEPT ![r].pc = "get"]
  \/ /\ handler[r].pc = "get"
     /\ \/ handler' = [handler EXCEPT ![r].pc = "answer", ![r].status = "no_device"]
        \/ /\ current \in Clients
           /\ handler' = [handler EXCEPT ![r].pc = "send", ![r].client = current]
  \/ /\ handler[r].pc = "send"
     /\ \/ handler' = [handler EXCEPT ![r].pc = "answer", ![r].status = "send_failed"]
        \/ handler' = [handler EXCEPT ![r].pc = "enqueue",
                          ![r].seq = client[handler[r].client].nextSeq + 1]
  \/ handler[r].pc = "enqueue" /\ handler' = [handler EXCEPT ![r].pc = "wait"]
  \/ handler[r].pc = "wait" /\ handler' = [handler EXCEPT ![r].pc = "late"]
  \/ /\ handler[r].pc = "late"
     /\ handler' = [handler EXCEPT ![r].pc = "answer", ![r].status = "send_timeout"]
  \/ handler[r].pc = "answer" /\ handler' = [handler EXCEPT ![r].pc = "done"]

Replied(r, c) ==
  /\ handler[r].pc = "wait" /\ client[c].pc = "deliver" /\ client[c].to = r
  /\ handler' = [handler EXCEPT ![r].pc = "answer",
                                ![r].status = client[c].answer]

LEMMA HandlerStepMoves ==
  ASSUME IInv, NEW r \in Requests, HandlerStep(r)
  PROVE  Moves(r) \/ \E c \in Clients : Replied(r, c) /\ ReceiveReply(r, c)
  <1>1. CASE HandleDelivery(r)
    BY <1>1 DEF IInv, HandlersOrdered, HandleDelivery, Moves
  <1>2. CASE GetDevice(r)
    BY <1>2 DEF IInv, TypeOK, GetDevice, Moves
  <1>3. CASE SendMessage(r) BY <1>3 DEF SendMessage, Moves
  <1>4. CASE Enqueue(r) BY <1>4 DEF Enqueue, Moves
  <1>5. CASE SendTimeout(r) BY <1>5 DEF SendTimeout, Moves
  <1>6. CASE MsgTimeout(r) BY <1>6 DEF MsgTimeout, Moves
  <1>7. CASE SendRpcResponse(r) BY <1>7 DEF SendRpcResponse, Moves
  <1>8. CASE \E c \in Clients : ReceiveReply(r, c)
    BY <1>8 DEF ReceiveReply, Replied
  <1>9. QED
    BY <1>1, <1>2, <1>3, <1>4, <1>5, <1>6, <1>7, <1>8 DEF HandlerStep

LEMMA HandlerMoves ==
  ASSUME IInv, [Next]_vars
  PROVE  \/ UNCHANGED handler
         \/ \E r \in Requests :
              /\ HandlerStep(r)
              /\ Moves(r) \/ \E c \in Clients : Replied(r, c) /\ ReceiveReply(r, c)
  <1> USE DEF vars, apiVars, mqVars, cometVars, deviceVars
  <1>1. ASSUME NEW r \in Requests, ApiStep(r)
        PROVE  UNCHANGED handler
    BY <1>1 DEF ApiStep, Refuse, Publish, Register, ReceiveResponse, CallTimeout,
                Unregister, CloseChannel
  <1>2. ASSUME WorkerStep PROVE UNCHANGED handler
    BY <1>2 DEF WorkerStep, DropJob, StartWrite, WriteFails, WriteJob, AddReplyChannel
  <1>3. ASSUME NEW c \in Clients, DeviceStep(c) PROVE UNCHANGED handler
    BY <1>3 DEF DeviceStep, Connect, KickOld, EnqueuePush, Answer, ReadReply,
                CloseClient
  <1>4. QED
    BY <1>1, <1>2, <1>3, HandlerStepMoves DEF Next, HandleResponse, SendOnClosed

(* The same field by field.                                                *)
LEMMA MovesFields ==
  ASSUME IInv, NEW r \in Requests, Moves(r) \/ \E c \in Clients : Replied(r, c)
  PROVE  /\ \A s \in Requests : s # r => handler'[s] = handler[s]
         /\ handler[r].pc # "get" => handler'[r].client = handler[r].client
         /\ handler[r].pc # "send" => handler'[r].seq = handler[r].seq
         /\ handler[r].pc \notin {"get", "send", "wait", "late"} =>
              handler'[r].status = handler[r].status
         /\ handler[r].pc = "none" => handler'[r].pc = "get"
         /\ handler[r].pc = "get" =>
              \/ handler'[r].pc = "answer" /\ handler'[r].status = "no_device"
              \/ /\ handler'[r].pc = "send" /\ handler'[r].client \in Clients
                 /\ handler'[r].status = handler[r].status
         /\ handler[r].pc = "send" =>
              \/ /\ handler'[r].pc = "answer" /\ handler'[r].status = "send_failed"
                 /\ handler'[r].seq = handler[r].seq
              \/ /\ handler'[r].pc = "enqueue"
                 /\ handler'[r].status = handler[r].status
                 /\ handler'[r].seq = client[handler[r].client].nextSeq + 1
         /\ handler[r].pc = "enqueue" => handler'[r].pc = "wait"
         /\ handler[r].pc = "wait" =>
              \/ /\ handler'[r].pc = "late"
                 /\ handler'[r].status = handler[r].status
              \/ \E c \in Clients :
                   /\ client[c].pc = "deliver" /\ client[c].to = r
                   /\ handler'[r].pc = "answer"
                   /\ handler'[r].status = client[c].answer
         /\ handler[r].pc = "late" => /\ handler'[r].pc = "answer"
                                      /\ handler'[r].status = "send_timeout"
         /\ handler[r].pc = "answer" => handler'[r].pc = "done"
         /\ handler[r].pc # "done"
  <1>0. handler \in [Requests -> HandlerType] /\ handler[r] \in HandlerType
    BY DEF IInv, TypeOK
  <1>1. CASE Moves(r)
    <2>1. CASE handler[r].pc = "none" BY <1>0, <1>1, <2>1 DEF Moves, HandlerType
    <2>2. CASE handler[r].pc = "get" BY <1>0, <1>1, <2>2 DEF Moves, HandlerType
    <2>3. CASE handler[r].pc = "send" BY <1>0, <1>1, <2>3 DEF Moves, HandlerType
    <2>4. CASE handler[r].pc = "enqueue" BY <1>0, <1>1, <2>4 DEF Moves, HandlerType
    <2>5. CASE handler[r].pc = "wait" BY <1>0, <1>1, <2>5 DEF Moves, HandlerType
    <2>6. CASE handler[r].pc = "late" BY <1>0, <1>1, <2>6 DEF Moves, HandlerType
    <2>7. CASE handler[r].pc = "answer" BY <1>0, <1>1, <2>7 DEF Moves, HandlerType
    <2>8. handler[r].pc # "done" BY <1>1 DEF Moves
    <2>9. QED BY <1>0, <2>1, <2>2, <2>3, <2>4, <2>5, <2>6, <2>7, <2>8 DEF HandlerType
  <1>2. CASE \E c \in Clients : Replied(r, c)
    <2>1. PICK c \in Clients : Replied(r, c) BY <1>2
    <2>2. /\ handler[r].pc = "wait" /\ handler'[r].pc = "answer"
          /\ client[c].pc = "deliver" /\ client[c].to = r
          /\ handler'[r].status = client[c].answer
          /\ handler'[r].client = handler[r].client
          /\ handler'[r].seq = handler[r].seq
      BY <1>0, <2>1 DEF Replied, HandlerType
    <2>3. \A s \in Requests : s # r => handler'[s] = handler[s]
      BY <1>0, <2>1 DEF Replied
    <2>4. QED BY <2>2, <2>3
  <1>3. QED BY <1>1, <1>2

LEMMA StepHandlersOrdered ==
  ASSUME IInv, [Next]_vars
  PROVE  HandlersOrdered'
  <1> USE DEF vars, apiVars, mqVars, cometVars, deviceVars
  <1>0. /\ TypeOK /\ HandlersOrdered
        /\ \A r \in Requests : handler[r] \in HandlerType
    BY DEF IInv, TypeOK
  <1> DEFINE Delivery(r) == /\ r \in rpcQueue => call[r] # "idle" /\ handler[r].pc = "none"
                            /\ call[r] = "idle" => handler[r].pc = "none"
             Fields(h) == /\ h.pc \in {"none", "get", "send"} => h.seq = 0
                          /\ h.pc \in {"send", "enqueue", "wait", "late"} =>
                               h.client \in Clients
                          /\ h.pc \in {"enqueue", "wait", "late"} => h.seq # 0
                          /\ h.seq # 0 => h.client \in Clients
                          /\ h.pc \in {"answer", "done"} <=> h.status # "none"
  <1>1. \A r \in Requests : Delivery(r) /\ Fields(handler[r])
    BY <1>0 DEF HandlersOrdered
  <1>2. ASSUME NEW r \in Requests
        PROVE  Delivery(r)'
    <2>1. ASSUME NEW s \in Requests, ApiStep(s) PROVE Delivery(r)'
      BY <1>0, <1>1, <2>1
      DEF ApiStep, Refuse, Publish, Register, ReceiveResponse, CallTimeout,
          Unregister, CloseChannel, TypeOK
    <2>2. ASSUME NEW s \in Requests, HandleDelivery(s) PROVE Delivery(r)'
      BY <1>0, <1>1, <2>2 DEF HandleDelivery, TypeOK
    <2>3. ASSUME NEW s \in Requests, HandlerStep(s), ~HandleDelivery(s)
          PROVE  Delivery(r)'
      <3>1. UNCHANGED <<call, rpcQueue>> /\ handler[s].pc # "none"
        BY <2>3 DEF HandlerStep, GetDevice, SendMessage, Enqueue, ReceiveReply,
                    SendTimeout, MsgTimeout, SendRpcResponse
      <3>2. /\ r # s => handler'[r] = handler[r]
            /\ handler'[s].pc # "none"
        BY <1>0, <2>3, <3>1, HandlerStepMoves, MovesFields DEF HandlerType
      <3>3. QED BY <1>1, <3>1, <3>2
    <2>4. ASSUME UNCHANGED <<call, rpcQueue, handler>> PROVE Delivery(r)'
      BY <1>1, <2>4
    <2>5. ASSUME WorkerStep PROVE UNCHANGED <<call, rpcQueue, handler>>
      BY <2>5 DEF WorkerStep, DropJob, StartWrite, WriteFails, WriteJob, AddReplyChannel
    <2>6. ASSUME NEW c \in Clients, DeviceStep(c)
          PROVE  UNCHANGED <<call, rpcQueue, handler>>
      BY <2>6 DEF DeviceStep, Connect, KickOld, EnqueuePush, Answer, ReadReply,
                  CloseClient
    <2>7. QED BY <2>1, <2>2, <2>3, <2>4, <2>5, <2>6
              DEF Next, HandleResponse, SendOnClosed
  <1>3. ASSUME NEW r \in Requests
        PROVE  Fields(handler'[r])
    <2>1. ASSUME NEW s \in Requests, Moves(s) \/ \E c \in Clients : Replied(s, c)
          PROVE  Fields(handler'[r])
      <3>1. CASE r # s BY <1>1, <2>1, <3>1, MovesFields
      <3>2. CASE r = s
        <4>1. handler[s].pc = "send" => client[handler[s].client].nextSeq + 1 # 0
          BY <1>0, <1>1 DEF TypeOK, ClientType
        <4>2. \A c \in Clients : client[c].pc = "deliver" /\ client[c].to = s =>
                client[c].answer # "none"
          BY StatusNoRequest DEF IInv, AnswersNumbered
        <4> HIDE DEF Fields
        <4>3. CASE handler[s].pc \in {"none", "get", "send"}
          BY <1>1, <2>1, <3>2, <4>1, <4>3, MovesFields DEF Fields
        <4>4. CASE handler[s].pc \in {"enqueue", "late", "answer"}
          BY <1>1, <2>1, <3>2, <4>4, MovesFields DEF Fields
        <4>5. CASE handler[s].pc = "wait"
          BY <1>1, <2>1, <3>2, <4>2, <4>5, MovesFields DEF Fields
        <4>6. QED BY <1>0, <2>1, <4>3, <4>4, <4>5, MovesFields DEF HandlerType
      <3>3. QED BY <3>1, <3>2
    <2>2. QED BY <1>1, <2>1, HandlerMoves
  <1>4. QED BY <1>2, <1>3 DEF HandlersOrdered

-----------------------------------------------------------------------------
(* What one step does to a connection, field by field.                     *)
Same(c, fields) == \A f \in fields : client'[c][f] = client[c][f]

ClientMoves(c) ==
  /\ \A d \in Clients : d # c => client'[d] = client[d]
  /\ \/ /\ Same(c, {"pc", "to", "answer", "reply", "nextSeq"})
     \/ /\ Same(c, {"pc", "to", "answer", "reply"})
        /\ client'[c].nextSeq = client[c].nextSeq + 1
        /\ \E r \in Requests : SendMessage(r) /\ handler[r].client = c
     \/ /\ Same(c, {"reply", "nextSeq"}) /\ client'[c].pc = "read"
        /\ \E r \in Requests : ReceiveReply(r, c)
     \/ /\ Same(c, {"pc", "to", "answer", "nextSeq"})
        /\ \E r \in Requests :
             /\ MsgTimeout(r) /\ handler[r].client = c
             /\ client'[c].reply = [client[c].reply EXCEPT ![handler[r].seq] = None]
     \/ /\ Same(c, {"pc", "to", "answer", "nextSeq"})
        /\ AddReplyChannel /\ worker.client = c
        /\ client'[c].reply = [client[c].reply EXCEPT ![worker.seq] = worker.req]
     \/ /\ Same(c, {"reply", "nextSeq"})
        /\ client[c].pc # "deliver" /\ client'[c].pc # "deliver"
        /\ UNCHANGED <<handler, queue, worker>>
     \/ /\ Same(c, {"nextSeq"}) /\ ReadReply(c)
        /\ client[c].reply[Head(outbox[c]).seq] # None
        /\ client'[c].pc = "deliver"
        /\ client'[c].to = client[c].reply[Head(outbox[c]).seq]
        /\ client'[c].answer = Head(outbox[c]).answer
        /\ client'[c].reply = [client[c].reply EXCEPT ![Head(outbox[c]).seq] = None]

LEMMA ClientSteps ==
  ASSUME IInv, [Next]_vars
  PROVE  UNCHANGED client \/ \E c \in Clients : ClientMoves(c)
  <1> USE DEF vars, apiVars, mqVars, cometVars, deviceVars
  <1>0. /\ TypeOK /\ HandlersOrdered
        /\ client \in [Clients -> ClientType]
        /\ \A c \in Clients : client[c] \in ClientType
    BY DEF IInv, TypeOK
  <1>1. ASSUME NEW r \in Requests, SendMessage(r)
        PROVE  UNCHANGED client \/ ClientMoves(handler[r].client)
    <2> DEFINE c == handler[r].client
    <2>1. CASE client' = [client EXCEPT ![c].nextSeq = client[c].nextSeq + 1]
      <3>1. c \in Clients
        BY <1>0, <1>1 DEF SendMessage, HandlersOrdered
      <3>2. Same(c, {"pc", "to", "answer", "reply"})
        BY <1>0, <2>1, <3>1 DEF Same, ClientType
      <3>3. client'[c].nextSeq = client[c].nextSeq + 1
        BY <1>0, <2>1, <3>1 DEF ClientType
      <3>4. \A d \in Clients : d # c => client'[d] = client[d]
        BY <1>0, <2>1
      <3>5. QED BY <1>1, <3>2, <3>3, <3>4 DEF ClientMoves
    <2>2. QED BY <1>1, <2>1 DEF SendMessage
  <1>2. ASSUME NEW r \in Requests, NEW c \in Clients, ReceiveReply(r, c)
        PROVE  ClientMoves(c)
    <2>1. Same(c, {"reply", "nextSeq"}) /\ client'[c].pc = "read"
      BY <1>0, <1>2 DEF ReceiveReply, Same, ClientType
    <2>2. \A d \in Clients : d # c => client'[d] = client[d]
      BY <1>0, <1>2 DEF ReceiveReply
    <2>3. QED BY <1>2, <2>1, <2>2 DEF ClientMoves
  <1>3. ASSUME NEW r \in Requests, MsgTimeout(r)
        PROVE  handler[r].client \in Clients /\ ClientMoves(handler[r].client)
    <2> DEFINE c == handler[r].client
    <2>1. c \in Clients
      BY <1>0, <1>3 DEF MsgTimeout, HandlersOrdered
    <2>2. Same(c, {"pc", "to", "answer", "nextSeq"})
      BY <1>0, <1>3, <2>1 DEF MsgTimeout, Same, ClientType
    <2>3. client'[c].reply = [client[c].reply EXCEPT ![handler[r].seq] = None]
      BY <1>0, <1>3, <2>1 DEF MsgTimeout, ClientType
    <2>4. \A d \in Clients : d # c => client'[d] = client[d]
      BY <1>0, <1>3 DEF MsgTimeout
    <2>5. QED BY <1>3, <2>1, <2>2, <2>3, <2>4 DEF ClientMoves
  <1>4. ASSUME AddReplyChannel
        PROVE  worker.client \in Clients /\ ClientMoves(worker.client)
    <2> DEFINE c == worker.client
    <2>1. c \in Clients
      BY <1>0, <1>4 DEF AddReplyChannel, TypeOK, JobType
    <2>2. Same(c, {"pc", "to", "answer", "nextSeq"})
      BY <1>0, <1>4, <2>1 DEF AddReplyChannel, Same, ClientType
    <2>3. client'[c].reply = [client[c].reply EXCEPT ![worker.seq] = worker.req]
      BY <1>0, <1>4, <2>1 DEF AddReplyChannel, ClientType
    <2>4. \A d \in Clients : d # c => client'[d] = client[d]
      BY <1>0, <1>4 DEF AddReplyChannel
    <2>5. QED BY <1>4, <2>1, <2>2, <2>3, <2>4 DEF ClientMoves
  <1>5. ASSUME NEW c \in Clients,
               \/ KickOld(c)
               \/ /\ WriteFails /\ c = Head(queue).client
        PROVE  ClientMoves(c)
    <2>1. client' = [client EXCEPT ![c].closed = TRUE]
      BY <1>5 DEF KickOld, WriteFails
    <2>2. Same(c, {"pc", "to", "answer", "reply", "nextSeq"})
      BY <1>0, <2>1 DEF Same, ClientType
    <2>3. QED BY <1>0, <2>1, <2>2 DEF ClientMoves
  <1>6. ASSUME WriteFails PROVE Head(queue).client \in Clients
    BY <1>0, <1>6, TailElements DEF WriteFails, TypeOK, JobType, PushType
  <1>7. ASSUME NEW c \in Clients, Connect(c) \/ CloseClient(c)
        PROVE  ClientMoves(c)
    <2>1. Same(c, {"reply", "nextSeq"})
      BY <1>0, <1>7 DEF Connect, CloseClient, Same, ClientType
    <2>2. client[c].pc # "deliver" /\ client'[c].pc # "deliver"
      BY <1>0, <1>7 DEF Connect, CloseClient, ClientType
    <2>3. \A d \in Clients : d # c => client'[d] = client[d]
      BY <1>0, <1>7 DEF Connect, CloseClient
    <2>4. UNCHANGED <<handler, queue, worker>>
      BY <1>7 DEF Connect, CloseClient
    <2>5. QED BY <2>1, <2>2, <2>3, <2>4 DEF ClientMoves
  <1>8. ASSUME NEW c \in Clients, ReadReply(c), client' # client
        PROVE  ClientMoves(c)
    <2> DEFINE n == Head(outbox[c]).seq
               a == Head(outbox[c]).answer
               r == client[c].reply[n]
    <2>1. /\ client' = [client EXCEPT ![c].pc = "deliver", ![c].to = r,
                                     ![c].answer = a, ![c].reply[n] = None]
          /\ r # None
      BY <1>8 DEF ReadReply
    <2> HIDE DEF r, n, a
    <2>2. \A d \in Clients : d # c => client'[d] = client[d]
      BY <1>0, <2>1
    <2>3. /\ client'[c].pc = "deliver" /\ client'[c].to = r
          /\ client'[c].answer = a
          /\ client'[c].nextSeq = client[c].nextSeq
          /\ client'[c].reply = [client[c].reply EXCEPT ![n] = None]
      BY <1>0, <2>1 DEF ClientType
    <2>4. QED BY <1>8, <2>1, <2>2, <2>3 DEF ClientMoves, Same, r, n, a
  <1>9. QED
    <2>1. ASSUME NEW r \in Requests, ApiStep(r) PROVE UNCHANGED client
      BY <2>1 DEF ApiStep, Refuse, Publish, Register, ReceiveResponse, CallTimeout,
                  Unregister, CloseChannel
    <2>2. ASSUME NEW r \in Requests, HandlerStep(r)
          PROVE  UNCHANGED client \/ \E c \in Clients : ClientMoves(c)
      <3>1. SendMessage(r) => handler[r].client \in Clients
        BY <1>0 DEF SendMessage, HandlersOrdered
      <3>2. QED
        BY <1>1, <1>2, <1>3, <2>2, <3>1
        DEF HandlerStep, HandleDelivery, GetDevice, Enqueue, SendTimeout,
            SendRpcResponse
    <2>3. ASSUME WorkerStep
          PROVE  UNCHANGED client \/ \E c \in Clients : ClientMoves(c)
      BY <1>4, <1>5, <1>6, <2>3 DEF WorkerStep, DropJob, StartWrite, WriteJob
    <2>4. ASSUME NEW c \in Clients, DeviceStep(c)
          PROVE  UNCHANGED client \/ ClientMoves(c)
      BY <1>5, <1>7, <1>8, <2>4 DEF DeviceStep, EnqueuePush, Answer
    <2>5. QED
      BY <2>1, <2>2, <2>3, <2>4 DEF Next, HandleResponse, SendOnClosed

-----------------------------------------------------------------------------
(* A number, once given, stays.                                            *)
LEMMA NumberKept ==
  ASSUME IInv, [Next]_vars, NEW r \in Requests, handler[r].seq # 0
  PROVE  handler'[r].seq = handler[r].seq /\ handler'[r].client = handler[r].client
  <1>1. handler[r].pc \notin {"get", "send"}
    BY DEF IInv, HandlersOrdered
  <1>2. QED BY <1>1, HandlerMoves, MovesFields

(* Only SendMessage gives one, and counts it.                              *)
LEMMA NumberGiven ==
  ASSUME IInv, [Next]_vars
  PROVE  \/ /\ \A c \in Clients : client'[c].nextSeq = client[c].nextSeq
            /\ \A r \in Requests : handler'[r].seq = handler[r].seq
         \/ \E r \in Requests, c \in Clients :
              /\ handler[r].seq = 0 /\ handler'[r].client = c
              /\ handler'[r].seq = client[c].nextSeq + 1
              /\ client'[c].nextSeq = client[c].nextSeq + 1
              /\ \A s \in Requests : s # r => handler'[s] = handler[s]
              /\ \A d \in Clients : d # c =>
                   client'[d].nextSeq = client[d].nextSeq
  <1> USE DEF vars, apiVars, mqVars, cometVars, deviceVars
  <1>0. /\ TypeOK /\ HandlersOrdered
        /\ client \in [Clients -> ClientType]
        /\ \A c \in Clients : client[c] \in ClientType
        /\ handler \in [Requests -> HandlerType]
    BY DEF IInv, TypeOK
  <1>1. ASSUME NEW r \in Requests, HandlerStep(r), handler[r].pc = "send"
        PROVE  SendMessage(r)
    BY <1>0, <1>1
    DEF HandlerStep, HandleDelivery, GetDevice, Enqueue, ReceiveReply,
        SendTimeout, MsgTimeout, SendRpcResponse, HandlersOrdered
  <1>2. CASE \E r \in Requests : SendMessage(r)
    <2>1. PICK r \in Requests : SendMessage(r) BY <1>2
    <2> DEFINE c == handler[r].client
               n == client[c].nextSeq + 1
    <2>2. c \in Clients /\ handler[r].seq = 0
      BY <1>0, <2>1 DEF SendMessage, HandlersOrdered
    <2>3. CASE /\ client' = client
               /\ handler' = [handler EXCEPT ![r].pc = "answer",
                                            ![r].status = "send_failed"]
      BY <1>0, <2>3 DEF HandlerType
    <2>4. CASE /\ client' = [client EXCEPT ![c].nextSeq = n]
               /\ handler' = [handler EXCEPT ![r].pc = "enqueue", ![r].seq = n]
      <3>1. /\ client'[c].nextSeq = n
            /\ \A d \in Clients : d # c => client'[d] = client[d]
        BY <1>0, <2>2, <2>4 DEF ClientType
      <3>2. /\ handler'[r].seq = n /\ handler'[r].client = c
            /\ \A s \in Requests : s # r => handler'[s] = handler[s]
        BY <1>0, <2>4 DEF HandlerType
      <3>3. QED BY <2>2, <3>1, <3>2
    <2>5. QED BY <2>1, <2>3, <2>4 DEF SendMessage
  <1>3. CASE ~ \E r \in Requests : SendMessage(r)
    <2>1. \A c \in Clients : client'[c].nextSeq = client[c].nextSeq
      BY <1>3, ClientSteps DEF ClientMoves, Same
    <2>2. \A r \in Requests : handler'[r].seq = handler[r].seq
      BY <1>1, <1>3, HandlerMoves, MovesFields
    <2>3. QED BY <2>1, <2>2
  <1>4. QED BY <1>2, <1>3

(* NumbersUnique without the count, for the connection d.                  *)
NumbersDiffer(d) ==
  /\ \A r \in Numbered(d) : handler[r].seq <= client[d].nextSeq
  /\ \A r, s \in Numbered(d) : handler[r].seq = handler[s].seq => r = s

LEMMA StepNumbersUnique ==
  ASSUME IInv, [Next]_vars
  PROVE  NumbersUnique'
  <1>0. /\ NumbersUnique
        /\ \A c \in Clients : client[c].nextSeq \in Nat
        /\ \A r \in Requests : handler[r].seq \in Nat
    BY DEF IInv, TypeOK, ClientType, HandlerType
  <1>1. CASE /\ \A c \in Clients : client'[c].nextSeq = client[c].nextSeq
             /\ \A r \in Requests : handler'[r].seq = handler[r].seq
    <2>1. \A c \in Clients : Numbered(c)' = Numbered(c)
      <3>1. \A r \in Requests : handler[r].seq # 0 =>
              handler'[r].client = handler[r].client
        BY NumberKept
      <3>2. QED BY <1>1, <3>1 DEF Numbered
    <2>2. QED BY <1>0, <1>1, <2>1 DEF NumbersUnique, Numbered
  <1>2. ASSUME NEW r \in Requests, NEW c \in Clients,
               handler[r].seq = 0, handler'[r].client = c,
               handler'[r].seq = client[c].nextSeq + 1,
               client'[c].nextSeq = client[c].nextSeq + 1,
               \A s \in Requests : s # r => handler'[s] = handler[s],
               \A d \in Clients : d # c => client'[d].nextSeq = client[d].nextSeq
        PROVE  NumbersUnique'
    <2>1. Numbered(c)' = Numbered(c) \union {r} /\ r \notin Numbered(c)
      BY <1>0, <1>2 DEF Numbered
    <2>2. \A d \in Clients : d # c => Numbered(d)' = Numbered(d) /\ r \notin Numbered(d)
      BY <1>0, <1>2 DEF Numbered
    <2>3. Cardinality(Numbered(c)') = client'[c].nextSeq
      BY <1>2, <2>1, <1>0, NextNumber DEF IInv
    <2>4. \A d \in Clients : client'[d].nextSeq = Cardinality(Numbered(d)')
      BY <1>0, <1>2, <2>2, <2>3 DEF NumbersUnique
    <2>5. \A s \in Numbered(c) :
            s # r /\ handler'[s] = handler[s] /\ handler[s].seq <= client[c].nextSeq
      BY <1>0, <1>2, <2>1 DEF NumbersUnique, Numbered
    <2>6. \A s, t \in Numbered(c) : handler[s].seq = handler[t].seq => s = t
      BY <1>0 DEF NumbersUnique
    <2>7. \A s \in Numbered(c) : handler[s].seq \in Nat
      BY <1>0 DEF Numbered
    <2>8. NumbersDiffer(c)'
      BY <1>0, <1>2, <2>1, <2>5, <2>6, <2>7 DEF NumbersDiffer
    <2>9. ASSUME NEW d \in Clients, d # c
          PROVE  NumbersDiffer(d)'
      <3>1. \A s \in Numbered(d) : handler'[s] = handler[s]
        BY <1>2, <2>2, <2>9 DEF Numbered
      <3>2. NumbersDiffer(d)
        BY <1>0 DEF NumbersUnique, NumbersDiffer
      <3>3. QED BY <1>2, <2>2, <2>9, <3>1, <3>2 DEF NumbersDiffer
    <2>10. QED BY <2>4, <2>8, <2>9 DEF NumbersUnique, NumbersDiffer
  <1>3. QED BY <1>1, <1>2, NumberGiven

-----------------------------------------------------------------------------
(* An open handler stays open until it gets its reply.                     *)
LEMMA OpenKept ==
  ASSUME IInv, [Next]_vars, NEW r \in Requests, NEW c, NEW n, Open(r, c, n),
         ~ \E d \in Clients : ReceiveReply(r, d)
  PROVE  Open(r, c, n)'
  <1>0. handler \in [Requests -> HandlerType] /\ HandlersOrdered
    BY DEF IInv, TypeOK
  <1>1. CASE UNCHANGED handler
    BY <1>1 DEF Open, TimedOut
  <1>2. ASSUME NEW s \in Requests, s # r,
               Moves(s) \/ \E d \in Clients : Replied(s, d)
        PROVE  Open(r, c, n)'
    BY <1>2, MovesFields DEF Open, TimedOut
  <1>3. CASE Moves(r)
    <2>1. CASE handler[r].pc = "wait"
      BY <1>0, <1>3, <2>1 DEF Moves, Open, TimedOut, HandlerType
    <2>2. CASE handler[r].pc # "wait"
      <3>1. handler[r].pc \in {"late", "answer", "done"}
        BY <1>0, <2>2 DEF Open, TimedOut, HandlersOrdered
      <3>2. QED BY <1>0, <1>3, <3>1, MovesFields DEF Open, TimedOut
    <2>3. QED BY <2>1, <2>2
  <1>4. QED BY <1>1, <1>2, <1>3, HandlerMoves

(* What one step does to the jobs.                                         *)
LEMMA JobSteps ==
  ASSUME IInv, [Next]_vars
  PROVE  \/ UNCHANGED <<queue, worker>>
         \/ UNCHANGED worker /\ queue # <<>> /\ queue' = Tail(queue)
         \/ /\ queue # <<>> /\ queue' = Tail(queue) /\ UNCHANGED <<handler, client>>
            /\ Head(queue).req # None /\ worker' = Head(queue)
         \/ AddReplyChannel /\ worker' = None /\ UNCHANGED queue
         \/ /\ UNCHANGED worker
            /\ \E c \in Clients :
                 queue' = Append(queue, [client |-> c, seq |-> 0, req |-> None])
         \/ /\ UNCHANGED <<worker, client>>
            /\ \E r \in Requests :
                 /\ Enqueue(r)
                 /\ queue' = Append(queue, [client |-> handler[r].client,
                                            seq |-> handler[r].seq, req |-> r])
  <1> USE DEF vars, apiVars, mqVars, cometVars, deviceVars
  <1>1. ASSUME NEW r \in Requests, ApiStep(r) PROVE UNCHANGED <<queue, worker>>
    BY <1>1 DEF ApiStep, Refuse, Publish, Register, ReceiveResponse, CallTimeout,
                Unregister, CloseChannel
  <1>2. ASSUME NEW r \in Requests, HandlerStep(r), ~Enqueue(r)
        PROVE  UNCHANGED <<queue, worker>>
    BY <1>2
    DEF HandlerStep, HandleDelivery, GetDevice, SendMessage, ReceiveReply,
        SendTimeout, MsgTimeout, SendRpcResponse
  <1>3. ASSUME NEW c \in Clients, DeviceStep(c), ~EnqueuePush(c)
        PROVE  UNCHANGED <<queue, worker>>
    BY <1>3 DEF DeviceStep, Connect, KickOld, Answer, ReadReply, CloseClient
  <1>a. writing => queue # <<>>
    BY DEF IInv, TypeOK
  <1>4. QED
    BY <1>1, <1>2, <1>3, <1>a
    DEF Next, HandleResponse, SendOnClosed, Enqueue, EnqueuePush, WorkerStep,
        DropJob, StartWrite, WriteFails, WriteJob, AddReplyChannel, HandlerStep, DeviceStep

LEMMA StepJobsBacked ==
  ASSUME IInv, [Next]_vars
  PROVE  JobsBacked'
  <1>0. /\ JobsBacked /\ OnePlace /\ HandlersOrdered
        /\ queue \in Seq(JobType \union PushType)
        /\ worker # None => worker.req \in Requests
        /\ handler \in [Requests -> HandlerType]
    BY DEF IInv, TypeOK, JobType
  <1>1. \A i \in DOMAIN queue : queue[i].req # None => queue[i].req \in Requests
    BY <1>0 DEF JobType, PushType
  <1>2. ASSUME NEW j, j.req \in Requests, Unplaced(j.req),
               Open(j.req, j.client, j.seq)
        PROVE  Open(j.req, j.client, j.seq)'
    <2>1. ~ \E d \in Clients : ReceiveReply(j.req, d)
      BY <1>0, <1>2 DEF Unplaced, ReceiveReply
    <2>2. QED BY <1>2, <2>1, OpenKept
  <1>3. ASSUME NEW k \in DOMAIN queue, queue[k].req # None
        PROVE  /\ handler'[queue[k].req].client = queue[k].client
               /\ handler'[queue[k].req].seq = queue[k].seq
               /\ \/ handler'[queue[k].req].pc = "wait"
                  \/ handler'[queue[k].req].pc = "late"
                  \/ handler'[queue[k].req].status = "send_timeout"
    BY <1>0, <1>1, <1>2, <1>3 DEF OnePlace, JobsBacked, Open, TimedOut
  <1>4. ASSUME worker # None
        PROVE  /\ handler'[worker.req].client = worker.client
               /\ handler'[worker.req].seq = worker.seq
               /\ \/ handler'[worker.req].pc = "wait"
                  \/ handler'[worker.req].pc = "late"
                  \/ handler'[worker.req].status = "send_timeout"
    BY <1>0, <1>2, <1>4 DEF OnePlace, JobsBacked, Open, TimedOut
  <1> USE DEF JobsBacked, Open, TimedOut
  <1>5. CASE UNCHANGED <<queue, worker>>
    BY <1>3, <1>4, <1>5
  <1>6. CASE UNCHANGED worker /\ queue # <<>> /\ queue' = Tail(queue)
    BY <1>0, <1>3, <1>4, <1>6, TailElements
  <1>7. CASE /\ queue # <<>> /\ queue' = Tail(queue)
             /\ Head(queue).req # None /\ worker' = Head(queue)
    BY <1>0, <1>3, <1>7, TailElements
  <1>8. CASE worker' = None /\ UNCHANGED queue
    BY <1>3, <1>8
  <1>9. ASSUME NEW c \in Clients, UNCHANGED worker,
               queue' = Append(queue, [client |-> c, seq |-> 0, req |-> None])
        PROVE  JobsBacked'
    <2> DEFINE j == [client |-> c, seq |-> 0, req |-> None]
    <2>1. j \in JobType \union PushType /\ j.req = None
      BY DEF PushType
    <2> HIDE DEF j
    <2>2. \A i \in DOMAIN queue' : \/ queue'[i] = j
                                   \/ i \in DOMAIN queue /\ queue'[i] = queue[i]
      BY <1>0, <1>9, <2>1, AppendElements DEF j
    <2>3. QED BY <1>3, <1>4, <1>9, <2>1, <2>2
  <1>10. ASSUME NEW r \in Requests, UNCHANGED worker, Enqueue(r),
                queue' = Append(queue, [client |-> handler[r].client,
                                        seq |-> handler[r].seq, req |-> r])
         PROVE  JobsBacked'
    <2> DEFINE j == [client |-> handler[r].client, seq |-> handler[r].seq, req |-> r]
    <2>1. handler[r].client \in Clients /\ handler[r].seq \in Seqs
      BY <1>0, <1>10 DEF Enqueue, HandlersOrdered, HandlerType, Seqs
    <2>2. /\ j \in JobType \union PushType /\ j.req = r
          /\ j.client = handler[r].client /\ j.seq = handler[r].seq
      BY <2>1 DEF JobType
    <2>3. /\ handler'[r].client = handler[r].client
          /\ handler'[r].seq = handler[r].seq /\ handler'[r].pc = "wait"
      BY <1>0, <1>10 DEF Enqueue, HandlerType
    <2> HIDE DEF j
    <2>4. \A i \in DOMAIN queue' : \/ queue'[i] = j
                                   \/ i \in DOMAIN queue /\ queue'[i] = queue[i]
      BY <1>0, <1>10, <2>2, AppendElements DEF j
    <2>5. QED BY <1>3, <1>4, <1>10, <2>2, <2>3, <2>4
  <1>11. QED BY <1>5, <1>6, <1>7, <1>8, <1>9, <1>10, JobSteps

-----------------------------------------------------------------------------
(* Only AddReplyChannel puts the channel of a request into a map, and only *)
(* what is in a map is taken out.                                          *)
LEMMA UnplacedKept ==
  ASSUME IInv, [Next]_vars, NEW r \in Requests, Unplaced(r),
         ~(AddReplyChannel /\ worker.req = r)
  PROVE  Unplaced(r)'
  <1>0. /\ \A c \in Clients : client[c] \in ClientType
        /\ \A c \in Clients : outbox[c] \in Seq(AnswerType)
        /\ None # r
    BY Bounds DEF IInv, TypeOK
  <1>1. CASE UNCHANGED client BY <1>1 DEF Unplaced
  <1>2. ASSUME NEW d \in Clients, ClientMoves(d),
               NEW c \in Clients
        PROVE  /\ client'[c].pc = "deliver" => client'[c].to # r
               /\ \A n \in Seqs : client'[c].reply[n] # r
    <2>1. CASE c # d BY <1>2, <2>1 DEF ClientMoves, Unplaced
    <2>2. CASE c = d
      <3>1. \A n \in Seqs : client[c].reply[n] # r
        BY DEF Unplaced
      <3>2. client[c].pc = "deliver" => client[c].to # r
        BY DEF Unplaced
      <3>3. ReadReply(c) => Head(outbox[c]).seq \in Seqs
        <4>1. outbox[c] # <<>> => Head(outbox[c]) \in AnswerType
          BY <1>0, TailElements
        <4>2. QED BY <4>1 DEF ReadReply, AnswerType
      <3>4. client[c].reply \in [Seqs -> Requests \union {None}]
        BY <1>0 DEF ClientType
      <3>5. client'[c].pc = "deliver" => client'[c].to # r
        BY <1>2, <2>2, <3>1, <3>2, <3>3 DEF ClientMoves, Same
      <3>6. \A n \in Seqs : client'[c].reply[n] # r
        BY <1>0, <1>2, <2>2, <3>1, <3>4 DEF ClientMoves, Same
      <3>7. QED BY <3>5, <3>6
    <2>3. QED BY <2>1, <2>2
  <1>3. QED BY <1>1, <1>2, ClientSteps DEF Unplaced

(* A channel in a map is its handler's only one.                           *)
LEMMA ReplyStaysOpen ==
  ASSUME IInv, [Next]_vars, NEW c \in Clients, NEW n \in Waiting(c),
         NEW r, r = client[c].reply[n]
  PROVE  r \in Requests /\ Open(r, c, n) /\ Open(r, c, n)'
  <1>1. r \in Requests /\ r # None /\ n \in Seqs
    BY DEF IInv, TypeOK, ClientType, Waiting
  <1>2. Open(r, c, n)
    BY DEF IInv, ChannelsOpen
  <1>3. ASSUME NEW d \in Clients, ReceiveReply(r, d)
        PROVE  FALSE
    <2>1. client[d].pc = "deliver" /\ client[d].to = r
      BY <1>3 DEF ReceiveReply
    <2>2. d = c
      BY <1>2, <2>1 DEF IInv, ChannelsOpen, Open
    <2>3. QED BY <1>1, <2>1, <2>2 DEF IInv, OnePlace
  <1>4. QED BY <1>1, <1>2, <1>3, OpenKept

LEMMA StepChannelsOpen ==
  ASSUME IInv, [Next]_vars
  PROVE  ChannelsOpen'
  <1>0. /\ \A c \in Clients : client[c] \in ClientType
        /\ \A c \in Clients : outbox[c] \in Seq(AnswerType)
        /\ ChannelsOpen /\ JobsBacked
    BY DEF IInv, TypeOK
  <1>1. ASSUME NEW c \in Clients, NEW n \in Seqs, NEW r,
               r = client'[c].reply[n], r # None
        PROVE  Open(r, c, n)'
    <2>1. CASE r = client[c].reply[n]
      BY <1>1, <2>1, ReplyStaysOpen DEF Waiting
    <2>2. CASE r # client[c].reply[n]
      <3>1. ClientMoves(c)
        BY <1>1, <2>2, ClientSteps DEF ClientMoves
      <3>2. AddReplyChannel /\ worker.client = c /\ worker.seq = n /\ worker.req = r
        BY <1>0, <1>1, <2>2, <3>1 DEF ClientMoves, Same, ClientType
      <3>3. Open(r, c, n) /\ UNCHANGED handler
        BY <1>0, <3>2 DEF AddReplyChannel, JobsBacked, cometVars, deviceVars
      <3>4. QED BY <3>3 DEF Open, TimedOut
    <2>3. QED BY <2>1, <2>2
  <1>2. ASSUME NEW c \in Clients, client'[c].pc = "deliver",
               NEW r, r = client'[c].to, NEW n, n = handler'[r].seq
        PROVE  r # None /\ Open(r, c, n)'
    <2>1. CASE client[c].pc = "deliver" /\ client[c].to = r
      <3>1. r \in Requests /\ Open(r, c, handler[r].seq)
        BY <1>0, <2>1 DEF ChannelsOpen, ClientType
      <3>2. ASSUME NEW d \in Clients, ReceiveReply(r, d)
            PROVE  FALSE
        <4>1. client[d].pc = "deliver" /\ client[d].to = r
          BY <3>2 DEF ReceiveReply
        <4>2. d = c
          BY <1>0, <3>1, <4>1 DEF ChannelsOpen, Open
        <4>3. client'[c].pc = "read"
          BY <1>0, <3>2, <4>2 DEF ReceiveReply, IInv, TypeOK, ClientType
        <4>4. QED BY <1>2, <4>3
      <3>3. Open(r, c, handler[r].seq) /\ handler'[r].seq = handler[r].seq
            /\ handler'[r].client = c
        <4>1. handler[r].pc \notin {"get", "send"}
          BY <3>1 DEF Open, TimedOut, IInv, HandlersOrdered
        <4>2. QED BY <3>1, <4>1, HandlerMoves, MovesFields DEF Open
      <3>4. \A m : m = handler[r].seq => Open(r, c, m)'
        BY <3>1, <3>2, OpenKept
      <3>5. QED BY <1>2, <3>1, <3>3, <3>4, Bounds
    <2>2. CASE ~(client[c].pc = "deliver" /\ client[c].to = r)
      <3> DEFINE m == Head(outbox[c]).seq
      <3>1. ClientMoves(c)
        BY <1>2, <2>2, ClientSteps DEF ClientMoves
      <3>2. ReadReply(c) /\ r = client[c].reply[m] /\ r # None
        BY <1>2, <2>2, <3>1 DEF ClientMoves, Same
      <3>3. m \in Seqs
        <4>1. outbox[c] # <<>> => Head(outbox[c]) \in AnswerType
          BY <1>0, TailElements
        <4>2. QED BY <3>2, <4>1 DEF ReadReply, AnswerType
      <3> HIDE DEF m
      <3>4. \A k : k = m => Open(r, c, k)'
        BY <3>2, <3>3, ReplyStaysOpen DEF Waiting
      <3>5. QED BY <1>2, <3>2, <3>4 DEF Open
    <2>3. QED BY <2>1, <2>2
  <1>3. QED BY <1>1, <1>2 DEF ChannelsOpen, Waiting, Open, TimedOut

(* A handler that is about to enqueue its message has no channel anywhere. *)
LEMMA NotYetPlaced ==
  ASSUME IInv, NEW r \in Requests, Enqueue(r)
  PROVE  /\ Unplaced(r)
         /\ \A i \in DOMAIN queue : queue[i].req # r
         /\ worker # None => worker.req # r
  <1>1. \A c, n : ~Open(r, c, n)
    BY DEF Open, TimedOut, Enqueue, IInv, HandlersOrdered
  <1>2. Unplaced(r)
    <2>1. ASSUME NEW c \in Clients, NEW n \in Seqs, client[c].reply[n] = r
          PROVE  FALSE
      BY <1>1, <2>1, Bounds DEF IInv, ChannelsOpen, Waiting
    <2>2. ASSUME NEW c \in Clients, client[c].pc = "deliver", client[c].to = r
          PROVE  FALSE
      BY <1>1, <2>2 DEF IInv, ChannelsOpen
    <2>3. QED BY <2>1, <2>2 DEF Unplaced
  <1>3. QED BY <1>1, <1>2, Bounds DEF IInv, JobsBacked

LEMMA StepOnePlace ==
  ASSUME IInv, [Next]_vars
  PROVE  OnePlace'
  <1>0. /\ JobsBacked /\ OnePlace /\ ChannelsOpen
        /\ queue \in Seq(JobType \union PushType)
        /\ worker # None => worker.req \in Requests
        /\ \A c \in Clients : client[c] \in ClientType
        /\ None \notin Requests
    BY Bounds DEF IInv, TypeOK, JobType
  <1>1. \A i \in DOMAIN queue : queue[i].req # None => queue[i].req \in Requests
    BY <1>0 DEF JobType, PushType
  <1> DEFINE Free(r) == /\ \A c \in Clients : client'[c].pc = "deliver" =>
                                             client'[c].to # r
                        /\ \A c \in Clients : \A n \in Seqs : client'[c].reply[n] # r
             JobsFree == \A i \in DOMAIN queue' :
                           queue'[i].req # None => Free(queue'[i].req)
             JobsDiffer == \A i, j \in DOMAIN queue' :
                             queue'[i].req # None /\ queue'[i].req = queue'[j].req
                             => i = j
             WorkerFree == worker' # None =>
                             /\ Free(worker'.req)
                             /\ \A i \in DOMAIN queue' : queue'[i].req # worker'.req
  <1>2. ASSUME NEW k \in DOMAIN queue, queue[k].req # None
        PROVE  Free(queue[k].req)
    <2>1. \A r : r = queue[k].req => Unplaced(r)'
      BY <1>0, <1>1, <1>2, UnplacedKept DEF OnePlace, AddReplyChannel
    <2>2. QED BY <2>1 DEF Unplaced
  <1>3. ASSUME worker # None, ~AddReplyChannel
        PROVE  Free(worker.req)
    <2>1. \A r : r = worker.req => Unplaced(r)'
      BY <1>0, <1>3, UnplacedKept DEF OnePlace
    <2>2. QED BY <2>1 DEF Unplaced
  <1> HIDE DEF Free
  <1>4. JobsFree /\ JobsDiffer /\ WorkerFree
    <2>1. CASE UNCHANGED <<queue, worker>>
      <3>1. CASE ~AddReplyChannel
        BY <1>0, <1>2, <1>3, <2>1, <3>1 DEF OnePlace
      <3>2. CASE AddReplyChannel
        BY <1>0, <1>2, <2>1, <3>2 DEF OnePlace, AddReplyChannel
      <3>3. QED BY <3>1, <3>2
    <2>2. CASE UNCHANGED worker /\ queue # <<>> /\ queue' = Tail(queue)
      <3>1. JobsFree /\ JobsDiffer
        BY <1>0, <1>2, <2>2, TailElements DEF OnePlace
      <3>2. worker # None => ~AddReplyChannel
        BY <2>2 DEF AddReplyChannel
      <3>3. WorkerFree
        BY <1>0, <1>3, <2>2, <3>2, TailElements DEF OnePlace
      <3>4. QED BY <3>1, <3>3
    <2>3. CASE /\ queue # <<>> /\ queue' = Tail(queue) /\ UNCHANGED <<handler, client>>
               /\ Head(queue).req # None /\ worker' = Head(queue)
      <3>1. JobsFree /\ JobsDiffer
        BY <1>0, <1>2, <2>3, TailElements DEF OnePlace
      <3>2. Head(queue) = queue[1] /\ 1 \in DOMAIN queue
        BY <1>0, <2>3, TailElements
      <3>3. Free(worker'.req)
        BY <1>2, <2>3, <3>2
      <3>4. \A i \in DOMAIN queue' : queue'[i].req # worker'.req
        BY <1>0, <2>3, <3>2, TailElements DEF OnePlace
      <3>5. QED BY <3>1, <3>3, <3>4
    <2>4. CASE worker' = None /\ UNCHANGED queue
      BY <1>0, <1>2, <2>4 DEF OnePlace
    <2>5. ASSUME NEW c \in Clients, UNCHANGED worker,
                 queue' = Append(queue, [client |-> c, seq |-> 0, req |-> None])
          PROVE  JobsFree /\ JobsDiffer /\ WorkerFree
      <3> DEFINE j == [client |-> c, seq |-> 0, req |-> None]
      <3>1. j \in JobType \union PushType /\ j.req = None
        BY DEF PushType
      <3> HIDE DEF j
      <3>2. \A i \in DOMAIN queue' : \/ queue'[i] = j
                                     \/ i \in DOMAIN queue /\ queue'[i] = queue[i]
        BY <1>0, <2>5, <3>1, AppendElements DEF j
      <3>3. worker # None => ~AddReplyChannel /\ worker.req # None
        BY <1>0, <2>5 DEF AddReplyChannel
      <3>4. QED BY <1>0, <1>2, <1>3, <2>5, <3>1, <3>2, <3>3 DEF OnePlace
    <2>6. ASSUME NEW r \in Requests, UNCHANGED <<worker, client>>, Enqueue(r),
                 queue' = Append(queue, [client |-> handler[r].client,
                                         seq |-> handler[r].seq, req |-> r])
          PROVE  JobsFree /\ JobsDiffer /\ WorkerFree
      <3> DEFINE j == [client |-> handler[r].client, seq |-> handler[r].seq, req |-> r]
      <3>1. handler[r].client \in Clients /\ handler[r].seq \in Seqs
        BY <2>6 DEF IInv, TypeOK, Enqueue, HandlersOrdered, HandlerType, Seqs
      <3>2. j \in JobType \union PushType /\ j.req = r
        BY <3>1 DEF JobType
      <3> HIDE DEF j
      <3>3. \A i \in DOMAIN queue' : \/ i = Len(queue) + 1 /\ queue'[i] = j
                                     \/ i \in DOMAIN queue /\ queue'[i] = queue[i]
        BY <1>0, <2>6, <3>2, AppendElements DEF j
      <3>4. Free(r) /\ \A i \in DOMAIN queue : queue[i].req # r
        BY <2>6, NotYetPlaced DEF Unplaced, Free
      <3>5. worker # None => ~AddReplyChannel /\ worker.req # r
        BY <2>6, NotYetPlaced DEF AddReplyChannel
      <3>6. QED BY <1>0, <1>2, <1>3, <2>6, <3>2, <3>3, <3>4, <3>5 DEF OnePlace
    <2>7. QED BY <2>1, <2>2, <2>3, <2>4, <2>5, <2>6, JobSteps
  <1>5. ASSUME NEW c \in Clients, client'[c].pc = "deliver", NEW n \in Seqs
        PROVE  client'[c].reply[n] # client'[c].to
    <2>1. CASE UNCHANGED client BY <1>0, <1>5, <2>1 DEF OnePlace
    <2>2. ASSUME NEW d \in Clients, d # c, ClientMoves(d)
          PROVE  client'[c].reply[n] # client'[c].to
      BY <1>0, <1>5, <2>2 DEF OnePlace, ClientMoves
    <2>3. CASE ClientMoves(c) /\ client[c].pc = "deliver" /\ ~ReadReply(c)
      <3>1. client'[c].to = client[c].to /\ client[c].to \in Requests
        BY <1>0, <1>5, <2>3 DEF ClientMoves, Same, ChannelsOpen, ClientType
      <3>2. \/ client'[c].reply[n] = client[c].reply[n]
            \/ client'[c].reply[n] = None
            \/ AddReplyChannel /\ client'[c].reply[n] = worker.req
        BY <1>0, <1>5, <2>3 DEF ClientMoves, Same, ClientType
      <3>3. AddReplyChannel => worker.req # client[c].to
        BY <1>0, <2>3 DEF OnePlace, Unplaced, AddReplyChannel
      <3>4. QED BY <1>0, <2>3, <3>1, <3>2, <3>3 DEF OnePlace
    <2>4. CASE ClientMoves(c) /\ ~(client[c].pc = "deliver" /\ ~ReadReply(c))
      <3> DEFINE m == Head(outbox[c]).seq
      <3>1. /\ client'[c].to = client[c].reply[m] /\ client'[c].to # None
            /\ client'[c].reply = [client[c].reply EXCEPT ![m] = None]
            /\ ReadReply(c)
        BY <1>5, <2>4 DEF ClientMoves, Same, ReadReply
      <3>2. m \in Seqs
        <4>1. outbox[c] # <<>> => Head(outbox[c]) \in AnswerType
          BY TailElements DEF IInv, TypeOK
        <4>2. QED BY <3>1, <4>1 DEF ReadReply, AnswerType
      <3> HIDE DEF m
      <3>3. Open(client[c].reply[m], c, m)
        BY <1>0, <3>1, <3>2 DEF ChannelsOpen, Waiting
      <3>4. client[c].reply[n] = client[c].reply[m] => n = m
        BY <1>0, <3>1, <3>2, <3>3 DEF ChannelsOpen, Waiting, Open
      <3>5. QED BY <1>0, <3>1, <3>2, <3>4 DEF ClientType
    <2>5. QED BY <2>1, <2>2, <2>3, <2>4, ClientSteps
  <1>6. QED BY <1>4, <1>5 DEF OnePlace, Unplaced, Free

-----------------------------------------------------------------------------
(* What one step adds to the messages between the device and the server.   *)
LEMMA MessageSteps ==
  ASSUME IInv, [Next]_vars, NEW c \in Clients
  PROVE  /\ \A m \in inbox'[c] :
              \/ m \in inbox[c]
              \/ /\ m.seq = Head(queue).seq /\ m.answer = Head(queue).req
                 /\ Head(queue).client = c /\ Head(queue).req # None
                 /\ queue # <<>>
         /\ \A i \in DOMAIN outbox'[c] :
              \/ \E k \in DOMAIN outbox[c] : outbox'[c][i] = outbox[c][k]
              \/ outbox'[c][i] \in inbox[c]
  <1> USE DEF vars, apiVars, mqVars, cometVars, deviceVars
  <1>0. /\ inbox \in [Clients -> SUBSET AnswerType]
        /\ outbox \in [Clients -> Seq(AnswerType)]
        /\ outbox[c] \in Seq(AnswerType) /\ inbox[c] \subseteq AnswerType
    BY DEF IInv, TypeOK
  <1>1. ASSUME NEW r \in Requests, ApiStep(r) PROVE UNCHANGED <<inbox, outbox>>
    BY <1>1 DEF ApiStep, Refuse, Publish, Register, ReceiveResponse, CallTimeout,
                Unregister, CloseChannel
  <1>2. ASSUME NEW r \in Requests, HandlerStep(r)
        PROVE  UNCHANGED <<inbox, outbox>>
    BY <1>2
    DEF HandlerStep, HandleDelivery, GetDevice, SendMessage, Enqueue, ReceiveReply,
        SendTimeout, MsgTimeout, SendRpcResponse
  <1>3. ASSUME WorkerStep, ~WriteJob PROVE UNCHANGED <<inbox, outbox>>
    BY <1>3 DEF WorkerStep, DropJob, StartWrite, WriteFails, AddReplyChannel
  <1>4. CASE WriteJob
    <2>1. UNCHANGED outbox BY <1>4 DEF WriteJob
    <2>2. \A m \in inbox'[c] :
              \/ m \in inbox[c]
              \/ /\ m.seq = Head(queue).seq /\ m.answer = Head(queue).req
                 /\ Head(queue).client = c /\ Head(queue).req # None
                 /\ queue # <<>>
      BY <1>0, <1>4 DEF WriteJob, IInv, TypeOK
    <2>3. QED BY <2>1, <2>2
  <1>5. ASSUME NEW d \in Clients, DeviceStep(d), ~ReadReply(d), ~CloseClient(d),
               ~ \E m \in inbox[d] : Answer(d, m)
        PROVE  UNCHANGED <<inbox, outbox>>
    BY <1>5 DEF DeviceStep, Connect, KickOld, EnqueuePush
  <1>a. ASSUME NEW d \in Clients, CloseClient(d)
        PROVE  inbox'[c] \subseteq inbox[c] /\ outbox'[c] \in {outbox[c], <<>>}
    BY <1>0, <1>a DEF CloseClient
  <1>6. ASSUME NEW d \in Clients, NEW m \in inbox[d], Answer(d, m)
        PROVE  /\ inbox'[c] \subseteq inbox[c]
               /\ \A i \in DOMAIN outbox'[c] :
                    \/ \E k \in DOMAIN outbox[c] : outbox'[c][i] = outbox[c][k]
                    \/ outbox'[c][i] \in inbox[c]
    <2>1. inbox'[c] \subseteq inbox[c]
      BY <1>0, <1>6 DEF Answer
    <2>2. CASE c = d
      <3>1. m \in AnswerType /\ outbox'[c] = Append(outbox[c], m)
        BY <1>0, <1>6, <2>2 DEF Answer
      <3>2. QED BY <1>0, <1>6, <2>1, <2>2, <3>1, AppendElements
    <2>3. CASE c # d
      <3>1. outbox'[c] = outbox[c]
        BY <1>0, <1>6, <2>3 DEF Answer
      <3>2. QED BY <2>1, <3>1
    <2>4. QED BY <2>2, <2>3
  <1>7. ASSUME NEW d \in Clients, ReadReply(d)
        PROVE  /\ UNCHANGED inbox
               /\ \A i \in DOMAIN outbox'[c] :
                    \E k \in DOMAIN outbox[c] : outbox'[c][i] = outbox[c][k]
    <2>1. UNCHANGED inbox BY <1>7 DEF ReadReply
    <2>2. CASE c = d
      <3>1. outbox[c] # <<>> /\ outbox'[c] = Tail(outbox[c])
        BY <1>0, <1>7, <2>2 DEF ReadReply
      <3>2. QED BY <1>0, <2>1, <3>1, TailElements
    <2>3. CASE c # d
      <3>1. outbox'[c] = outbox[c]
        BY <1>0, <1>7, <2>3 DEF ReadReply
      <3>2. QED BY <2>1, <3>1
    <2>4. QED BY <2>2, <2>3
  <1>8. CASE UNCHANGED <<inbox, outbox>> BY <1>8
  <1>9. QED
    BY <1>1, <1>2, <1>3, <1>4, <1>5, <1>a, <1>6, <1>7, <1>8
    DEF Next, HandleResponse, SendOnClosed

LEMMA StepAnswersNumbered ==
  ASSUME IInv, [Next]_vars
  PROVE  AnswersNumbered'
  <1>0. /\ AnswersNumbered /\ JobsBacked /\ ChannelsOpen /\ NumbersUnique
        /\ queue \in Seq(JobType \union PushType)
        /\ \A c \in Clients : inbox[c] \subseteq AnswerType
        /\ \A c \in Clients : outbox[c] \in Seq(AnswerType)
        /\ \A c \in Clients : client[c] \in ClientType
    BY DEF IInv, TypeOK
  <1>1. \A m \in AnswerType : m.seq # 0 /\ m.seq \in Seqs /\ m.answer \in Requests
    BY Bounds DEF AnswerType, Seqs
  <1>2. ASSUME NEW c \in Clients, NEW m \in inbox[c]
        PROVE  handler'[m.answer].client = c /\ handler'[m.answer].seq = m.seq
    BY <1>0, <1>1, NumberKept DEF AnswersNumbered
  <1>3. ASSUME NEW c \in Clients, NEW i \in DOMAIN outbox[c]
        PROVE  /\ handler'[outbox[c][i].answer].client = c
               /\ handler'[outbox[c][i].answer].seq = outbox[c][i].seq
    <2>1. outbox[c][i] \in AnswerType
      BY <1>0, ElementOfSeq
    <2>2. QED BY <1>0, <1>1, <2>1, NumberKept DEF AnswersNumbered
  <1>4. ASSUME queue # <<>>, Head(queue).req # None
        PROVE  /\ handler'[Head(queue).req].client = Head(queue).client
               /\ handler'[Head(queue).req].seq = Head(queue).seq
    <2> DEFINE j == Head(queue)
    <2>1. j = queue[1] /\ 1 \in DOMAIN queue /\ j \in JobType
      <3>1. j \in JobType \union PushType /\ j = queue[1] /\ 1 \in DOMAIN queue
        BY <1>0, <1>4, TailElements
      <3>2. QED BY <1>4, <3>1 DEF PushType
    <2>2. handler[j.req].client = j.client /\ handler[j.req].seq = j.seq
      BY <1>0, <1>4, <2>1 DEF JobsBacked, Open
    <2>3. j.seq # 0 /\ j.req \in Requests
      BY <2>1, Bounds DEF JobType, Seqs
    <2> HIDE DEF j
    <2>4. handler'[j.req].client = j.client /\ handler'[j.req].seq = j.seq
      BY <2>2, <2>3, NumberKept
    <2>5. QED BY <2>4 DEF j
  <1>5. ASSUME NEW c \in Clients, client'[c].pc = "deliver"
        PROVE  client'[c].answer = client'[c].to
    <2>1. CASE client'[c] = client[c]
      BY <1>0, <1>5, <2>1 DEF AnswersNumbered
    <2>2. CASE ClientMoves(c) /\ client[c].pc = "deliver" /\ ~ReadReply(c)
      <3>1. client'[c].to = client[c].to /\ client'[c].answer = client[c].answer
        BY <1>0, <1>5, <2>2 DEF ClientMoves, Same
      <3>2. QED BY <1>0, <2>2, <3>1 DEF AnswersNumbered
    <2>3. CASE ClientMoves(c) /\ ~(client[c].pc = "deliver" /\ ~ReadReply(c))
      <3> DEFINE m == Head(outbox[c])
                 r == client[c].reply[m.seq]
      <3>1. client'[c].to = r /\ client'[c].answer = m.answer /\ ReadReply(c)
            /\ r # None
        BY <1>5, <2>3 DEF ClientMoves, Same, ReadReply
      <3>2. m = outbox[c][1] /\ 1 \in DOMAIN outbox[c] /\ m \in AnswerType
        <4>1. outbox[c] # <<>> BY <3>1 DEF ReadReply
        <4>2. QED BY <1>0, <4>1, TailElements
      <3>3. handler[m.answer].client = c /\ handler[m.answer].seq = m.seq
        BY <1>0, <3>2 DEF AnswersNumbered
      <3>4. handler[r].client = c /\ handler[r].seq = m.seq /\ r \in Requests
        BY <1>0, <1>1, <3>1, <3>2 DEF ChannelsOpen, Waiting, Open, ClientType
      <3> HIDE DEF m, r
      <3>5. m.answer \in Numbered(c) /\ r \in Numbered(c)
        BY <1>1, <3>2, <3>3, <3>4 DEF Numbered
      <3>6. QED BY <1>0, <3>1, <3>3, <3>4, <3>5 DEF NumbersUnique
    <2>4. client'[c] = client[c] \/ ClientMoves(c)
      <3>1. ASSUME NEW d \in Clients, d # c, ClientMoves(d)
            PROVE  client'[c] = client[c]
        BY <3>1 DEF ClientMoves
      <3>2. QED BY <3>1, ClientSteps
    <2>5. QED BY <2>1, <2>2, <2>3, <2>4
  <1>6. ASSUME NEW c \in Clients
        PROVE  /\ \A m \in inbox'[c] :
                    handler'[m.answer].client = c /\ handler'[m.answer].seq = m.seq
               /\ \A i \in DOMAIN outbox'[c] :
                    /\ handler'[outbox'[c][i].answer].client = c
                    /\ handler'[outbox'[c][i].answer].seq = outbox'[c][i].seq
    BY <1>2, <1>3, <1>4, MessageSteps
  <1>7. QED BY <1>5, <1>6 DEF AnswersNumbered

-----------------------------------------------------------------------------
LEMMA StepResponsesOwn ==
  ASSUME IInv, [Next]_vars
  PROVE  ResponsesOwn'
  <1> USE StatusNoRequest DEF vars, apiVars, mqVars, cometVars, deviceVars
  <1>0. /\ TypeOK /\ HandlersOrdered /\ NoCrossTalk /\ AnswersNumbered
        /\ responder # None /\ responder.status \in Requests =>
             responder.status = responder.req
        /\ \A r \in Requests : handler[r] \in HandlerType
    BY DEF IInv, ResponsesOwn, TypeOK
  <1>1. ASSUME NEW r \in Requests
        PROVE  handler'[r].status \in Requests => handler'[r].status = r
    <2>1. handler[r].status \in Requests => handler[r].status = r
      BY <1>0 DEF NoCrossTalk
    <2>2. \A c \in Clients : client[c].pc = "deliver" => client[c].answer = client[c].to
      BY <1>0 DEF AnswersNumbered
    <2>3. {"no_device", "send_failed", "send_timeout"} \intersect Requests = {}
      BY DEF Failures
    <2>4. ASSUME NEW s \in Requests, Moves(s) \/ \E c \in Clients : Replied(s, c)
          PROVE  handler'[r].status \in Requests => handler'[r].status = r
      <3>1. CASE s # r BY <2>1, <2>4, <3>1, MovesFields
      <3>2. CASE s = r
        BY <1>0, <2>1, <2>2, <2>3, <2>4, <3>2, MovesFields DEF HandlerType
      <3>3. QED BY <3>1, <3>2
    <2>5. QED BY <2>1, <2>4, HandlerMoves
  <1>2. \A m \in responses' : m.status \in Requests => m.status = m.req
    <2>1. \A m \in responses : m.status \in Requests => m.status = m.req
      BY <1>0 DEF NoCrossTalk, TypeOK
    <2>2. \A m \in responses' :
            \/ m \in responses
            \/ \E r \in Requests : m = [req |-> r, status |-> handler[r].status]
      <3>1. ASSUME NEW r \in Requests, ApiStep(r) PROVE UNCHANGED responses
        BY <3>1 DEF ApiStep, Refuse, Publish, Register, ReceiveResponse,
                    CallTimeout, Unregister, CloseChannel
      <3>2. ASSUME NEW r \in Requests, HandlerStep(r)
            PROVE  \/ UNCHANGED responses
                   \/ responses' = responses
                        \union {[req |-> r, status |-> handler[r].status]}
        BY <3>2
        DEF HandlerStep, HandleDelivery, GetDevice, SendMessage, Enqueue,
            ReceiveReply, SendTimeout, MsgTimeout, SendRpcResponse
      <3>3. ASSUME WorkerStep PROVE UNCHANGED responses
        BY <3>3 DEF WorkerStep, DropJob, StartWrite, WriteFails, WriteJob, AddReplyChannel
      <3>4. ASSUME NEW c \in Clients, DeviceStep(c) PROVE UNCHANGED responses
        BY <3>4 DEF DeviceStep, Connect, KickOld, EnqueuePush, Answer, ReadReply,
                    CloseClient
      <3>5. QED
        BY <3>1, <3>2, <3>3, <3>4 DEF Next, HandleResponse, SendOnClosed
    <2>3. \A r \in Requests : handler[r].status \in Requests => handler[r].status = r
      BY <1>0 DEF NoCrossTalk
    <2>4. QED BY <2>1, <2>2, <2>3
  <1>3. /\ \A r \in Requests : result'[r] \in Requests => result'[r] = r
        /\ responder' # None /\ responder'.status \in Requests =>
             responder'.status = responder'.req
    <2>1. ASSUME NEW s \in Requests, ApiStep(s)
          PROVE  /\ \A r \in Requests : result'[r] \in Requests => result'[r] = r
                 /\ responder' # None => responder' = responder
      <3>1. /\ result \in [Requests -> Results]
            /\ \A r \in Requests : result[r] \in Requests => result[r] = r
        BY <1>0 DEF TypeOK, NoCrossTalk
      <3>2. CASE ReceiveResponse(s)
        BY <1>0, <3>1, <3>2 DEF ReceiveResponse
      <3>3. CASE Refuse(s) \/ CallTimeout(s)
        <4>1. "offline" \notin Requests /\ "timeout" \notin Requests
          OBVIOUS
        <4>2. QED BY <3>1, <3>3, <4>1 DEF Refuse, CallTimeout
      <3>4. CASE \/ Publish(s) \/ Register(s) \/ Unregister(s) \/ CloseChannel(s)
        BY <3>1, <3>4 DEF Publish, Register, Unregister, CloseChannel
      <3>5. QED BY <2>1, <3>2, <3>3, <3>4 DEF ApiStep
    <2>2. ASSUME NEW m \in responses, HandleResponse(m)
          PROVE  /\ UNCHANGED result
                 /\ responder' # None /\ responder'.status \in Requests =>
                      responder'.status = responder'.req
      <3>1. m.req \in Requests /\ (m.status \in Requests => m.status = m.req)
        BY <1>0 DEF NoCrossTalk, TypeOK
      <3>2. QED BY <2>2, <3>1 DEF HandleResponse
    <2>3. ASSUME NEW s \in Requests, HandlerStep(s)
          PROVE  UNCHANGED <<result, responder>>
      BY <2>3
      DEF HandlerStep, HandleDelivery, GetDevice, SendMessage, Enqueue,
          ReceiveReply, SendTimeout, MsgTimeout, SendRpcResponse
    <2>4. ASSUME WorkerStep PROVE UNCHANGED <<result, responder>>
      BY <2>4 DEF WorkerStep, DropJob, StartWrite, WriteFails, WriteJob, AddReplyChannel
    <2>5. ASSUME NEW c \in Clients, DeviceStep(c)
          PROVE  UNCHANGED <<result, responder>>
      BY <2>5 DEF DeviceStep, Connect, KickOld, EnqueuePush, Answer, ReadReply,
                  CloseClient
    <2>6. CASE UNCHANGED <<result, responder>>
      BY <1>0, <2>6 DEF NoCrossTalk
    <2>7. UNCHANGED result => \A r \in Requests : result'[r] \in Requests => result'[r] = r
      BY <1>0 DEF NoCrossTalk
    <2>8. QED
      BY <1>0, <2>1, <2>2, <2>3, <2>4, <2>5, <2>6, <2>7 DEF Next, SendOnClosed
  <1>4. QED BY <1>1, <1>2, <1>3 DEF ResponsesOwn, NoCrossTalk

-----------------------------------------------------------------------------
(* The theorems.                                                           *)
LEMMA Inductive == Spec => []IInv
  <1>1. IInv /\ [Next]_vars => IInv'
    BY StepType, StepHandlersOrdered, StepNumbersUnique, StepJobsBacked,
       StepChannelsOpen, StepOnePlace, StepAnswersNumbered, StepResponsesOwn
    DEF IInv
  <1>2. QED BY InitIInv, <1>1, PTL DEF Spec

(* The variables keep the values their declarations promise; in particular *)
(* NextSeq never runs out of numbers, since a handler takes at most one.   *)
THEOREM RpcTypeCorrect == Spec => []TypeOK
  <1>1. IInv => TypeOK
    BY DEF IInv
  <1>2. QED BY Inductive, <1>1, PTL

(* Whatever requests, connections, timeouts and late replies there are,    *)
(* Control never returns the answer to another one's command.              *)
THEOREM NoCrossTalkHolds == Spec => []NoCrossTalk
  <1>1. IInv => NoCrossTalk
    BY DEF IInv, ResponsesOwn
  <1>2. QED BY Inductive, <1>1, PTL

(* Every reply channel in a map, or taken from it by handleCmdReply, is    *)
(* that of a handler that waits for it or ran into its timer.              *)
THEOREM ChannelsBackedHolds == Spec => []ChannelsBacked
  <1>1. IInv => ChannelsBacked
    BY DEF IInv, ChannelsOpen, ChannelsBacked, Open
  <1>2. QED BY Inductive, <1>1, PTL

-----------------------------------------------------------------------------
(* That the handlers, the worker and the API together do what              *)
(* RemoteCommand says.                                                     *)

(* A device gets a command once, and then the handler has passed it on and *)
(* no job has it any more.                                                 *)
GotOnce ==
  \A r \in Requests :
    /\ got[r] \in {0, 1}
    /\ got[r] = 1 => /\ handler[r].seq # 0 /\ handler[r].pc # "enqueue"
                     /\ \A i \in DOMAIN queue : queue[i].req # r

(* Only a command that the device got is answered.                         *)
AnswersGot ==
  /\ \A r \in Requests : handler[r].status = r => got[r] = 1
  /\ \A c \in Clients :
       /\ client[c].pc = "deliver" => got[client[c].answer] = 1
       /\ \A m \in inbox[c] : got[m.answer] = 1
       /\ \A i \in DOMAIN outbox[c] : got[outbox[c][i].answer] = 1

(* A handler that reports a failure before the timer has no number.        *)
RefusedUnsent ==
  \A r \in Requests :
    handler[r].status \in {"no_device", "send_failed"} => handler[r].seq = 0

(* A status is on its way to the caller as its handler set it.             *)
StatusesKept ==
  /\ \A m \in responses : m.status = handler[m.req].status
  /\ responder # None => responder.status = handler[responder.req].status
  /\ \A r \in Requests : result[r] \in Statuses => result[r] = handler[r].status

(* A call that was refused at once was never published, and one that       *)
(* stands before its end has no result.                                    *)
ResultsLast ==
  \A r \in Requests :
    /\ result[r] = "offline" =>
         /\ call[r] = "done" /\ r \notin rpcQueue /\ handler[r].pc = "none"
    /\ call[r] \in {"idle", "published", "waiting"} => result[r] = "none"

CommandInv ==
  /\ IInv
  /\ GotOnce /\ AnswersGot /\ RefusedUnsent /\ StatusesKept /\ ResultsLast

LEMMA InitCommandInv == Init => CommandInv
  <1> SUFFICES ASSUME Init PROVE CommandInv
    OBVIOUS
  <1> USE StatusNoRequest
  <1>1. GotOnce BY DEF Init, GotOnce
  <1>2. AnswersGot BY DEF Init, AnswersGot, NewClient, NoHandler
  <1>3. RefusedUnsent BY DEF Init, RefusedUnsent, NoHandler
  <1>4. StatusesKept
    <2>1. "none" \notin Statuses
      BY DEF Statuses, Failures
    <2>2. QED BY <2>1 DEF Init, StatusesKept
  <1>5. ResultsLast BY DEF Init, ResultsLast
  <1>6. QED
    BY <1>1, <1>2, <1>3, <1>4, <1>5, InitIInv DEF CommandInv

(* Only WriteJob passes a command to the device, and only three steps give *)
(* a call its result.                                                      *)
LEMMA GotSteps ==
  ASSUME IInv, [Next]_vars
  PROVE  \/ UNCHANGED got
         \/ /\ WriteJob /\ queue # <<>> /\ Head(queue).req # None
            /\ got' = [got EXCEPT ![Head(queue).req] = @ + 1]
            /\ queue' = Tail(queue) /\ UNCHANGED <<handler, result>>
  <1> USE DEF vars, apiVars, mqVars, cometVars, deviceVars
  <1>1. ASSUME NEW r \in Requests, ApiStep(r) PROVE UNCHANGED got
    BY <1>1 DEF ApiStep, Refuse, Publish, Register, ReceiveResponse, CallTimeout,
                Unregister, CloseChannel
  <1>2. ASSUME NEW r \in Requests, HandlerStep(r) PROVE UNCHANGED got
    BY <1>2
    DEF HandlerStep, HandleDelivery, GetDevice, SendMessage, Enqueue, ReceiveReply,
        SendTimeout, MsgTimeout, SendRpcResponse
  <1>3. ASSUME NEW c \in Clients, DeviceStep(c) PROVE UNCHANGED got
    BY <1>3 DEF DeviceStep, Connect, KickOld, EnqueuePush, Answer, ReadReply,
                CloseClient
  <1>4. ASSUME WorkerStep, got' # got
        PROVE  /\ WriteJob /\ queue # <<>> /\ Head(queue).req # None
               /\ got' = [got EXCEPT ![Head(queue).req] = @ + 1]
               /\ queue' = Tail(queue) /\ UNCHANGED <<handler, result>>
    BY <1>4 DEF WorkerStep, DropJob, StartWrite, WriteFails, WriteJob,
                AddReplyChannel, IInv, TypeOK
  <1>5. QED
    BY <1>1, <1>2, <1>3, <1>4 DEF Next, HandleResponse, SendOnClosed

LEMMA ResultSteps ==
  ASSUME [Next]_vars
  PROVE  \/ UNCHANGED result
         \/ \E r \in Requests : \/ Refuse(r)
                                \/ ReceiveResponse(r)
                                \/ CallTimeout(r)
  <1> USE DEF vars, apiVars, mqVars, cometVars, deviceVars
  <1>1. ASSUME NEW r \in Requests, ApiStep(r)
        PROVE  \/ UNCHANGED result
               \/ Refuse(r) \/ ReceiveResponse(r) \/ CallTimeout(r)
    BY <1>1 DEF ApiStep, Publish, Register, Unregister, CloseChannel
  <1>2. ASSUME NEW r \in Requests, HandlerStep(r) PROVE UNCHANGED result
    BY <1>2
    DEF HandlerStep, HandleDelivery, GetDevice, SendMessage, Enqueue, ReceiveReply,
        SendTimeout, MsgTimeout, SendRpcResponse
  <1>3. ASSUME WorkerStep PROVE UNCHANGED result
    BY <1>3 DEF WorkerStep, DropJob, StartWrite, WriteFails, WriteJob, AddReplyChannel
  <1>4. ASSUME NEW c \in Clients, DeviceStep(c) PROVE UNCHANGED result
    BY <1>4 DEF DeviceStep, Connect, KickOld, EnqueuePush, Answer, ReadReply,
                CloseClient
  <1>5. QED
    BY <1>1, <1>2, <1>3, <1>4 DEF Next, HandleResponse, SendOnClosed

(* The job at the head of the queue that wants a reply.                    *)
LEMMA HeadJob ==
  ASSUME IInv, queue # <<>>, Head(queue).req # None
  PROVE  /\ Head(queue).req \in Requests /\ Head(queue).client \in Clients
         /\ handler[Head(queue).req].seq # 0
         /\ handler[Head(queue).req].pc \in {"wait", "late", "answer", "done"}
         /\ 1 \in DOMAIN queue /\ queue[1].req = Head(queue).req
         /\ \A i \in DOMAIN Tail(queue) : Tail(queue)[i].req # Head(queue).req
  <1>0. queue \in Seq(JobType \union PushType) /\ JobsBacked /\ OnePlace
        /\ HandlersOrdered
    BY DEF IInv, TypeOK
  <1>1. Head(queue) = queue[1] /\ 1 \in DOMAIN queue
        /\ Head(queue) \in JobType \union PushType
    BY <1>0, TailElements
  <1>2. Head(queue) \in JobType
    BY <1>1 DEF PushType
  <1>3. /\ Head(queue).req \in Requests /\ Head(queue).client \in Clients
        /\ Head(queue).seq # 0
    BY <1>2, Bounds DEF JobType, Seqs
  <1>4. Open(Head(queue).req, Head(queue).client, Head(queue).seq)
    BY <1>0, <1>1 DEF JobsBacked
  <1>5. handler[Head(queue).req].pc \in {"wait", "late", "answer", "done"}
    BY <1>0, <1>3, <1>4 DEF Open, TimedOut, HandlersOrdered
  <1>6. ASSUME NEW i \in DOMAIN Tail(queue), Tail(queue)[i].req = Head(queue).req
        PROVE  FALSE
    <2>1. i \in Nat /\ i + 1 \in DOMAIN queue /\ Tail(queue)[i] = queue[i + 1]
      BY <1>0, TailElements
    <2>2. i # 0
      BY <1>0, HeadTailProperties
    <2>3. i + 1 = 1
      BY <1>0, <1>1, <1>6, <2>1 DEF OnePlace
    <2>4. QED BY <2>1, <2>2, <2>3
  <1>7. QED BY <1>1, <1>3, <1>4, <1>5, <1>6 DEF Open

(* Whose command the device has gets no second job.                        *)
LEMMA NoSecondJob ==
  ASSUME CommandInv, [Next]_vars, NEW r \in Requests, got[r] = 1
  PROVE  /\ handler'[r].seq # 0 /\ handler'[r].pc # "enqueue"
         /\ \A i \in DOMAIN queue' : queue'[i].req # r
  <1>0. /\ IInv /\ HandlersOrdered
        /\ handler[r].seq # 0 /\ handler[r].pc # "enqueue"
        /\ \A i \in DOMAIN queue : queue[i].req # r
        /\ queue \in Seq(JobType \union PushType)
        /\ \A s \in Requests : handler[s] \in HandlerType
    BY DEF CommandInv, GotOnce, IInv, TypeOK
  <1>1. handler'[r].seq # 0
    BY <1>0, NumberKept
  <1>2. handler'[r].pc # "enqueue"
    <2>1. handler[r].pc # "send"
      BY <1>0 DEF HandlersOrdered
    <2>2. ASSUME NEW s \in Requests, Moves(s) \/ \E c \in Clients : Replied(s, c)
          PROVE  handler'[r].pc # "enqueue"
      <3>1. CASE s # r BY <1>0, <2>2, <3>1, MovesFields
      <3>2. CASE s = r
        BY <1>0, <2>1, <2>2, <3>2, MovesFields DEF HandlerType
      <3>3. QED BY <3>1, <3>2
    <2>3. QED BY <1>0, <2>2, HandlerMoves
  <1>3. \A i \in DOMAIN queue' : queue'[i].req # r
    <2>1. CASE UNCHANGED queue BY <1>0, <2>1
    <2>2. CASE queue # <<>> /\ queue' = Tail(queue)
      BY <1>0, <2>2, TailElements
    <2>3. ASSUME NEW c \in Clients,
                 queue' = Append(queue, [client |-> c, seq |-> 0, req |-> None])
          PROVE  \A i \in DOMAIN queue' : queue'[i].req # r
      <3> DEFINE j == [client |-> c, seq |-> 0, req |-> None]
      <3>1. j \in JobType \union PushType /\ j.req # r
        BY Bounds DEF PushType
      <3> HIDE DEF j
      <3>2. \A i \in DOMAIN queue' : \/ queue'[i] = j
                                     \/ i \in DOMAIN queue /\ queue'[i] = queue[i]
        BY <1>0, <2>3, <3>1, AppendElements DEF j
      <3>3. QED BY <1>0, <3>1, <3>2
    <2>4. ASSUME NEW s \in Requests, Enqueue(s),
                 queue' = Append(queue, [client |-> handler[s].client,
                                         seq |-> handler[s].seq, req |-> s])
          PROVE  \A i \in DOMAIN queue' : queue'[i].req # r
      <3> DEFINE j == [client |-> handler[s].client, seq |-> handler[s].seq,
                       req |-> s]
      <3>1. handler[s].client \in Clients /\ handler[s].seq \in Seqs /\ s # r
        BY <1>0, <2>4 DEF Enqueue, HandlersOrdered, HandlerType, Seqs
      <3>2. j \in JobType \union PushType /\ j.req # r
        BY <3>1 DEF JobType
      <3> HIDE DEF j
      <3>3. \A i \in DOMAIN queue' : \/ queue'[i] = j
                                     \/ i \in DOMAIN queue /\ queue'[i] = queue[i]
        BY <1>0, <2>4, <3>2, AppendElements DEF j
      <3>4. QED BY <1>0, <3>2, <3>3
    <2>5. QED BY <1>0, <2>1, <2>2, <2>3, <2>4, JobSteps
  <1>4. QED BY <1>1, <1>2, <1>3

(* What the device has it keeps, and a command on its way to the device is *)
(* one that the device does not have.                                      *)
LEMMA GotNext ==
  ASSUME CommandInv, [Next]_vars
  PROVE  \/ UNCHANGED got
         \/ \E r \in Requests :
              /\ WriteJob /\ r = Head(queue).req /\ queue # <<>> /\ r # None
              /\ got[r] = 0 /\ got' = [got EXCEPT ![r] = 1]
              /\ queue' = Tail(queue) /\ UNCHANGED <<handler, result>>
  <1>1. SUFFICES ASSUME got' # got
                 PROVE  \E r \in Requests :
                          /\ WriteJob /\ r = Head(queue).req /\ queue # <<>>
                          /\ r # None
                          /\ got[r] = 0 /\ got' = [got EXCEPT ![r] = 1]
                          /\ queue' = Tail(queue)
                          /\ UNCHANGED <<handler, result>>
    OBVIOUS
  <1> DEFINE r == Head(queue).req
  <1>2. /\ WriteJob /\ queue # <<>> /\ r # None
        /\ got' = [got EXCEPT ![r] = got[r] + 1]
        /\ queue' = Tail(queue) /\ UNCHANGED <<handler, result>>
    BY <1>1, GotSteps DEF CommandInv
  <1>3. r \in Requests /\ 1 \in DOMAIN queue /\ queue[1].req = r
    BY <1>2, HeadJob DEF CommandInv
  <1> HIDE DEF r
  <1>4. got[r] = 0
    BY <1>3 DEF CommandInv, GotOnce
  <1>5. got' = [got EXCEPT ![r] = 1]
    BY <1>2, <1>4
  <1>6. QED BY <1>2, <1>3, <1>4, <1>5 DEF r

LEMMA GotKept ==
  ASSUME CommandInv, [Next]_vars, NEW r \in Requests, got[r] = 1
  PROVE  got'[r] = 1
  <1>1. got \in [Requests -> Nat]
    BY DEF CommandInv, IInv, TypeOK
  <1>2. QED BY <1>1, GotNext

LEMMA StepGotOnce ==
  ASSUME CommandInv, [Next]_vars
  PROVE  GotOnce'
  <1>0. got \in [Requests -> Nat] /\ GotOnce
    BY DEF CommandInv, IInv, TypeOK
  <1>1. CASE UNCHANGED got
    BY <1>0, <1>1, NoSecondJob DEF GotOnce
  <1>2. ASSUME NEW r \in Requests, r = Head(queue).req, queue # <<>>, r # None,
               got' = [got EXCEPT ![r] = 1], queue' = Tail(queue),
               UNCHANGED handler
        PROVE  GotOnce'
    <2>1. /\ handler[r].seq # 0 /\ handler[r].pc # "enqueue"
          /\ \A i \in DOMAIN Tail(queue) : Tail(queue)[i].req # r
      BY <1>2, HeadJob DEF CommandInv
    <2>2. ASSUME NEW s \in Requests
          PROVE  /\ got'[s] \in {0, 1}
                 /\ got'[s] = 1 =>
                      /\ handler'[s].seq # 0 /\ handler'[s].pc # "enqueue"
                      /\ \A i \in DOMAIN queue' : queue'[i].req # s
      <3>1. CASE s = r BY <1>0, <1>2, <2>1, <3>1
      <3>2. CASE s # r
        <4>1. got'[s] = got[s] BY <1>0, <1>2, <3>2
        <4>2. QED BY <1>0, <4>1, NoSecondJob DEF GotOnce
      <3>3. QED BY <3>1, <3>2
    <2>3. QED BY <2>2 DEF GotOnce
  <1>3. QED BY <1>1, <1>2, GotNext

(* A message for the device is written together with the count.            *)
LEMMA InboxGot ==
  ASSUME CommandInv, [Next]_vars, NEW c \in Clients, NEW m \in inbox'[c],
         m \notin inbox[c]
  PROVE  m.answer \in Requests /\ got'[m.answer] = 1
  <1> USE DEF vars, apiVars, mqVars, cometVars, deviceVars
  <1>0. /\ IInv /\ got \in [Requests -> Nat]
        /\ inbox \in [Clients -> SUBSET AnswerType]
    BY DEF CommandInv, IInv, TypeOK
  <1>1. /\ m.answer = Head(queue).req /\ Head(queue).req # None
        /\ queue # <<>>
    BY <1>0, MessageSteps
  <1>2. WriteJob
    <2>1. ASSUME NEW r \in Requests, ApiStep(r) PROVE UNCHANGED inbox
      BY <2>1 DEF ApiStep, Refuse, Publish, Register, ReceiveResponse,
                  CallTimeout, Unregister, CloseChannel
    <2>2. ASSUME NEW r \in Requests, HandlerStep(r) PROVE UNCHANGED inbox
      BY <2>2
      DEF HandlerStep, HandleDelivery, GetDevice, SendMessage, Enqueue,
          ReceiveReply, SendTimeout, MsgTimeout, SendRpcResponse
    <2>3. ASSUME NEW d \in Clients, DeviceStep(d) PROVE inbox'[c] \subseteq inbox[c]
      BY <1>0, <2>3 DEF DeviceStep, Connect, KickOld, EnqueuePush, Answer,
                        ReadReply, CloseClient
    <2>4. ASSUME WorkerStep, ~WriteJob PROVE UNCHANGED inbox
      BY <2>4 DEF WorkerStep, DropJob, StartWrite, WriteFails, AddReplyChannel
    <2>5. QED
      BY <2>1, <2>2, <2>3, <2>4 DEF Next, HandleResponse, SendOnClosed
  <1>3. m.answer \in Requests
    BY <1>0, <1>1, HeadJob
  <1>4. got'[m.answer] = got[m.answer] + 1
    BY <1>0, <1>1, <1>2, <1>3 DEF WriteJob
  <1>5. got[m.answer] \in {0, 1} /\ got'[m.answer] \in {0, 1}
    BY <1>3, StepGotOnce DEF CommandInv, GotOnce
  <1>6. QED BY <1>3, <1>4, <1>5

LEMMA StepAnswersGot ==
  ASSUME CommandInv, [Next]_vars
  PROVE  AnswersGot'
  <1>0. /\ IInv /\ AnswersGot /\ AnswersNumbered /\ ChannelsOpen
        /\ \A r \in Requests : handler[r] \in HandlerType
        /\ \A c \in Clients : client[c] \in ClientType
        /\ \A c \in Clients : outbox[c] \in Seq(AnswerType)
        /\ \A c \in Clients : inbox[c] \subseteq AnswerType
    BY DEF CommandInv, IInv, TypeOK
  <1>1. \A m \in AnswerType : m.answer \in Requests
    BY DEF AnswerType
  <1>2. \A c \in Clients : client[c].pc = "deliver" =>
          /\ client[c].answer = client[c].to /\ client[c].answer \in Requests
          /\ got[client[c].answer] = 1
    BY <1>0 DEF AnswersGot, AnswersNumbered, ChannelsOpen, ClientType
  <1>3. ASSUME NEW r \in Requests, handler'[r].status = r
        PROVE  got'[r] = 1
    <2>1. CASE handler[r].status = r
      BY <1>0, <2>1, GotKept DEF AnswersGot
    <2>2. ASSUME NEW s \in Requests, Moves(s) \/ \E c \in Clients : Replied(s, c),
                 handler[r].status # r
          PROVE  got[r] = 1
      <3>1. s = r BY <1>0, <1>3, <2>2, MovesFields
      <3>2. \A x \in {"no_device", "send_failed", "send_timeout"} : x # r
        BY StatusNoRequest DEF Failures
      <3>3. handler[r].pc = "wait" /\ handler'[r].status = r
        BY <1>0, <1>3, <2>2, <3>1, <3>2, MovesFields DEF HandlerType
      <3>4. \E c \in Clients : /\ client[c].pc = "deliver" /\ client[c].to = r
                               /\ handler'[r].status = client[c].answer
        BY <1>0, <2>2, <3>1, <3>3, MovesFields
      <3>5. QED BY <1>2, <3>4
    <2>3. QED BY <1>0, <1>3, <2>1, <2>2, HandlerMoves, GotKept
  <1>4. ASSUME NEW c \in Clients, client'[c].pc = "deliver"
        PROVE  got'[client'[c].answer] = 1
    <2>1. CASE client[c].pc = "deliver" /\ client'[c].answer = client[c].answer
      BY <1>2, <2>1, GotKept
    <2>2. CASE ~(client[c].pc = "deliver" /\ client'[c].answer = client[c].answer)
      <3>1. ClientMoves(c)
        BY <1>0, <1>4, <2>2, ClientSteps DEF ClientMoves
      <3>2. ReadReply(c) /\ client'[c].answer = Head(outbox[c]).answer
        BY <1>4, <2>2, <3>1 DEF ClientMoves, Same
      <3>3. /\ Head(outbox[c]) = outbox[c][1] /\ 1 \in DOMAIN outbox[c]
            /\ Head(outbox[c]) \in AnswerType
        <4>1. outbox[c] # <<>> BY <3>2 DEF ReadReply
        <4>2. QED BY <1>0, <4>1, TailElements
      <3>4. /\ client'[c].answer \in Requests /\ got[client'[c].answer] = 1
        BY <1>0, <1>1, <3>2, <3>3 DEF AnswersGot
      <3>5. QED BY <3>4, GotKept
    <2>3. QED BY <2>1, <2>2
  <1>5. ASSUME NEW c \in Clients, NEW m \in inbox[c]
        PROVE  got'[m.answer] = 1
    BY <1>0, <1>1, GotKept DEF AnswersGot
  <1>6. ASSUME NEW c \in Clients, NEW i \in DOMAIN outbox'[c]
        PROVE  got'[outbox'[c][i].answer] = 1
    <2>1. ASSUME NEW k \in DOMAIN outbox[c]
          PROVE  got'[outbox[c][k].answer] = 1
      <3>1. outbox[c][k] \in AnswerType
        BY <1>0, ElementOfSeq
      <3>2. outbox[c][k].answer \in Requests /\ got[outbox[c][k].answer] = 1
        BY <1>0, <1>1, <3>1 DEF AnswersGot
      <3>3. QED BY <3>2, GotKept
    <2>2. QED BY <1>0, <1>5, <2>1, MessageSteps
  <1>7. QED
    BY <1>3, <1>4, <1>5, <1>6, InboxGot DEF AnswersGot

(* A status, once set, stays, and so does the number it belongs to.        *)
LEMMA StatusKept ==
  ASSUME IInv, [Next]_vars, NEW r \in Requests, handler[r].status # "none"
  PROVE  /\ handler'[r].status = handler[r].status
         /\ handler'[r].seq = handler[r].seq
  <1>1. handler[r].pc \in {"answer", "done"}
    BY DEF IInv, HandlersOrdered
  <1>2. QED BY <1>1, HandlerMoves, MovesFields

LEMMA StepRefusedUnsent ==
  ASSUME CommandInv, [Next]_vars
  PROVE  RefusedUnsent'
  <1>0. /\ IInv /\ HandlersOrdered /\ RefusedUnsent /\ AnswersNumbered
        /\ ChannelsOpen
        /\ \A r \in Requests : handler[r] \in HandlerType
        /\ \A c \in Clients : client[c] \in ClientType
    BY DEF CommandInv, IInv, TypeOK
  <1>1. ASSUME NEW r \in Requests, handler[r].status = "none",
               handler'[r].status \in {"no_device", "send_failed"}
        PROVE  handler'[r].seq = 0
    <2>1. ASSUME NEW s \in Requests, Moves(s) \/ \E c \in Clients : Replied(s, c)
          PROVE  handler'[r].seq = 0
      <3>1. s = r
        BY <1>0, <1>1, <2>1, MovesFields
      <3>2. \A c \in Clients : client[c].pc = "deliver" =>
              client[c].answer \notin {"no_device", "send_failed"}
        BY <1>0, StatusNoRequest
        DEF AnswersNumbered, ChannelsOpen, ClientType, Failures
      <3>3. handler[r].pc \in {"get", "send"}
        BY <1>0, <1>1, <2>1, <3>1, <3>2, MovesFields DEF HandlerType
      <3>4. handler'[r].seq = handler[r].seq
        BY <1>0, <1>1, <2>1, <3>1, <3>3, MovesFields
      <3>5. QED BY <1>0, <3>3, <3>4 DEF HandlersOrdered
    <2>2. QED BY <1>0, <1>1, <2>1, HandlerMoves
  <1>2. ASSUME NEW r \in Requests, handler[r].status # "none",
               handler'[r].status \in {"no_device", "send_failed"}
        PROVE  handler'[r].seq = 0
    BY <1>0, <1>2, StatusKept DEF RefusedUnsent
  <1>3. QED BY <1>1, <1>2 DEF RefusedUnsent

(* What one step does to the responses and to the one being handed out.    *)
LEMMA ResponseSteps ==
  ASSUME [Next]_vars
  PROVE  /\ \A m \in responses' :
              \/ m \in responses
              \/ \E r \in Requests :
                   /\ m = [req |-> r, status |-> handler[r].status]
                   /\ handler[r].pc = "answer"
         /\ responder' # None => responder' = responder \/ responder' \in responses
  <1> USE DEF vars, apiVars, mqVars, cometVars, deviceVars
  <1>1. ASSUME NEW r \in Requests, ApiStep(r)
        PROVE  UNCHANGED responses /\ (responder' = responder \/ responder' = None)
    BY <1>1 DEF ApiStep, Refuse, Publish, Register, ReceiveResponse, CallTimeout,
                Unregister, CloseChannel
  <1>2. ASSUME NEW r \in Requests, HandlerStep(r)
        PROVE  /\ UNCHANGED responder
               /\ \/ UNCHANGED responses
                  \/ /\ handler[r].pc = "answer"
                     /\ responses' = responses
                          \union {[req |-> r, status |-> handler[r].status]}
    BY <1>2
    DEF HandlerStep, HandleDelivery, GetDevice, SendMessage, Enqueue, ReceiveReply,
        SendTimeout, MsgTimeout, SendRpcResponse
  <1>3. ASSUME WorkerStep PROVE UNCHANGED <<responses, responder>>
    BY <1>3 DEF WorkerStep, DropJob, StartWrite, WriteFails, WriteJob, AddReplyChannel
  <1>4. ASSUME NEW c \in Clients, DeviceStep(c)
        PROVE  UNCHANGED <<responses, responder>>
    BY <1>4 DEF DeviceStep, Connect, KickOld, EnqueuePush, Answer, ReadReply,
                CloseClient
  <1>5. ASSUME NEW m \in responses, HandleResponse(m)
        PROVE  /\ responses' \subseteq responses
               /\ responder' = None \/ responder' = m
    BY <1>5 DEF HandleResponse
  <1>6. QED
    BY <1>1, <1>2, <1>3, <1>4, <1>5 DEF Next, SendOnClosed

LEMMA StepStatusesKept ==
  ASSUME CommandInv, [Next]_vars
  PROVE  StatusesKept'
  <1>0. /\ IInv /\ HandlersOrdered /\ StatusesKept
        /\ responses \subseteq [req : Requests, status : Statuses]
        /\ responder # None =>
             responder \in [req : Requests, status : Statuses]
        /\ result \in [Requests -> Results]
        /\ "none" \notin Statuses
    BY StatusNoRequest DEF CommandInv, IInv, TypeOK, Statuses, Failures
  <1>1. ASSUME NEW r \in Requests, handler[r].status \in Statuses
        PROVE  handler'[r].status = handler[r].status
    BY <1>0, <1>1, StatusKept
  <1>2. ASSUME NEW m \in responses
        PROVE  m.status = handler'[m.req].status
    BY <1>0, <1>1 DEF StatusesKept
  <1>3. ASSUME NEW m \in responses'
        PROVE  m.status = handler'[m.req].status
    <2>1. ASSUME NEW r \in Requests, handler[r].pc = "answer",
                 m = [req |-> r, status |-> handler[r].status]
          PROVE  m.status = handler'[m.req].status
      BY <1>0, <2>1, StatusKept DEF HandlersOrdered
    <2>2. QED BY <1>2, <2>1, ResponseSteps
  <1>4. ASSUME responder' # None
        PROVE  responder'.status = handler'[responder'.req].status
    <2>1. CASE responder' = responder
      BY <1>0, <1>1, <1>4, <2>1 DEF StatusesKept
    <2>2. CASE responder' \in responses
      BY <1>2, <2>2
    <2>3. QED BY <1>4, <2>1, <2>2, ResponseSteps
  <1>5. ASSUME NEW r \in Requests, result'[r] \in Statuses
        PROVE  result'[r] = handler'[r].status
    <2>1. CASE result'[r] = result[r]
      BY <1>0, <1>1, <1>5, <2>1 DEF StatusesKept
    <2>2. ASSUME NEW s \in Requests, ReceiveResponse(s)
          PROVE  result'[r] = handler'[r].status
      <3>1. CASE s # r
        BY <1>0, <2>1, <2>2, <3>1 DEF ReceiveResponse
      <3>2. CASE s = r
        <4>1. responder # None /\ responder.req = r
              /\ result'[r] = responder.status /\ UNCHANGED handler
          BY <1>0, <2>2, <3>2 DEF ReceiveResponse, cometVars
        <4>2. QED BY <1>0, <4>1 DEF StatusesKept
      <3>3. QED BY <3>1, <3>2
    <2>3. ASSUME NEW s \in Requests, Refuse(s) \/ CallTimeout(s)
          PROVE  result'[r] = handler'[r].status
      <3>1. "offline" \notin Statuses /\ "timeout" \notin Statuses
        BY StatusNoRequest DEF Statuses, Failures
      <3>2. s # r
        BY <1>0, <1>5, <2>3, <3>1 DEF Refuse, CallTimeout
      <3>3. QED BY <1>0, <2>1, <2>3, <3>2 DEF Refuse, CallTimeout
    <2>4. QED BY <2>1, <2>2, <2>3, ResultSteps
  <1>6. QED BY <1>3, <1>4, <1>5 DEF StatusesKept

LEMMA StepResultsLast ==
  ASSUME CommandInv, [Next]_vars
  PROVE  ResultsLast'
  <1> USE DEF vars, apiVars, mqVars, cometVars, deviceVars
  <1>0. /\ IInv /\ ResultsLast /\ HandlersOrdered
        /\ result \in [Requests -> Results] /\ rpcQueue \subseteq Requests
        /\ call \in [Requests -> {"idle", "published", "waiting", "closing",
                                  "close", "done"}]
        /\ handler \in [Requests -> HandlerType]
        /\ responder # None => responder.status # "offline"
    BY StatusNoRequest DEF CommandInv, IInv, TypeOK, Statuses, Failures
  <1> DEFINE Last(r) == /\ result[r] = "offline" =>
                             /\ call[r] = "done" /\ r \notin rpcQueue
                             /\ handler[r].pc = "none"
                        /\ call[r] \in {"idle", "published", "waiting"} =>
                             result[r] = "none"
  <1>1. \A r \in Requests : Last(r)
    BY <1>0 DEF ResultsLast
  <1>2. ASSUME NEW r \in Requests
        PROVE  Last(r)'
    <2>1. CASE UNCHANGED <<call, result, rpcQueue, handler>>
      BY <1>1, <2>1
    <2>2. ASSUME NEW s \in Requests, ApiStep(s)
          PROVE  Last(r)'
      <3>1. handler' = handler
        BY <2>2 DEF ApiStep, Refuse, Publish, Register, ReceiveResponse,
                    CallTimeout, Unregister, CloseChannel
      <3>2. CASE r # s
        <4>1. call'[r] = call[r] /\ result'[r] = result[r]
              /\ (r \in rpcQueue' <=> r \in rpcQueue)
          BY <1>0, <2>2, <3>2
          DEF ApiStep, Refuse, Publish, Register, ReceiveResponse, CallTimeout,
              Unregister, CloseChannel
        <4>2. QED BY <1>1, <3>1, <4>1
      <3>3. CASE r = s
        <4>1. CASE Refuse(r)
          <5>1. /\ call[r] = "idle" /\ call'[r] = "done"
                /\ rpcQueue' = rpcQueue
            BY <1>0, <4>1 DEF Refuse
          <5>2. r \notin rpcQueue /\ handler[r].pc = "none"
            BY <1>0, <5>1 DEF HandlersOrdered
          <5>3. QED BY <3>1, <5>1, <5>2
        <4>2. CASE Publish(r) \/ Register(r) \/ Unregister(r) \/ CloseChannel(r)
          <5>1. result' = result
            BY <4>2 DEF Publish, Register, Unregister, CloseChannel
          <5>2. /\ call[r] # "done"
                /\ call'[r] \in {"idle", "published", "waiting"} =>
                     call[r] \in {"idle", "published", "waiting"}
            BY <1>0, <4>2 DEF Publish, Register, Unregister, CloseChannel
          <5>3. QED BY <1>1, <5>1, <5>2
        <4>3. CASE ReceiveResponse(r) \/ CallTimeout(r)
          <5>1. call'[r] = "closing" /\ result'[r] # "offline"
            BY <1>0, <4>3 DEF ReceiveResponse, CallTimeout
          <5>2. QED BY <5>1
        <4>4. QED BY <2>2, <3>3, <4>1, <4>2, <4>3 DEF ApiStep
      <3>4. QED BY <3>2, <3>3
    <2>3. ASSUME NEW s \in Requests, HandlerStep(s)
          PROVE  Last(r)'
      <3>1. call' = call /\ result' = result /\ rpcQueue' \subseteq rpcQueue
        BY <2>3
        DEF HandlerStep, HandleDelivery, GetDevice, SendMessage, Enqueue,
            ReceiveReply, SendTimeout, MsgTimeout, SendRpcResponse
      <3>2. result[r] = "offline" => handler'[r].pc = "none"
        <4>1. ASSUME result[r] = "offline" PROVE s # r
          BY <1>1, <2>3, <4>1
          DEF HandlerStep, HandleDelivery, GetDevice, SendMessage, Enqueue,
              ReceiveReply, SendTimeout, MsgTimeout, SendRpcResponse
        <4>2. QED BY <1>0, <1>1, <2>3, <4>1, HandlerStepMoves, MovesFields
      <3>3. QED BY <1>1, <3>1, <3>2
    <2>4. ASSUME WorkerStep PROVE UNCHANGED <<call, result, rpcQueue, handler>>
      BY <2>4 DEF WorkerStep, DropJob, StartWrite, WriteFails, WriteJob, AddReplyChannel
    <2>5. ASSUME NEW c \in Clients, DeviceStep(c)
          PROVE  UNCHANGED <<call, result, rpcQueue, handler>>
      BY <2>5 DEF DeviceStep, Connect, KickOld, EnqueuePush, Answer, ReadReply,
                  CloseClient
    <2>6. QED
      BY <2>1, <2>2, <2>3, <2>4, <2>5 DEF Next, HandleResponse, SendOnClosed
  <1>3. QED BY <1>2 DEF ResultsLast

LEMMA CommandInvHolds == Spec => []CommandInv
  <1>1. CommandInv /\ [Next]_vars => CommandInv'
    <2> SUFFICES ASSUME CommandInv, [Next]_vars PROVE CommandInv'
      OBVIOUS
    <2>1. IInv'
      BY StepType, StepHandlersOrdered, StepNumbersUnique, StepJobsBacked,
         StepChannelsOpen, StepOnePlace, StepAnswersNumbered, StepResponsesOwn
      DEF CommandInv, IInv
    <2>2. QED
      BY <2>1, StepGotOnce, StepAnswersGot, StepRefusedUnsent, StepStatusesKept,
         StepResultsLast
      DEF CommandInv
  <1>2. QED BY InitCommandInv, <1>1, PTL DEF Spec

(* A call takes a result that its command allows.                          *)
LEMMA ReturnStep ==
  ASSUME CommandInv, [Next]_vars, NEW r \in Requests,
         Refuse(r) \/ ReceiveResponse(r) \/ CallTimeout(r)
  PROVE  Command!Return(r)
  <1> USE DEF vars, apiVars, mqVars, cometVars, deviceVars
  <1>0. /\ IInv /\ HandlersOrdered /\ GotOnce /\ AnswersGot /\ RefusedUnsent
        /\ StatusesKept /\ ResultsLast /\ ResponsesOwn
        /\ responder # None =>
             responder \in [req : Requests, status : Statuses]
    BY DEF CommandInv, IInv, TypeOK
  <1>1. UNCHANGED got
    BY DEF Refuse, ReceiveResponse, CallTimeout
  <1>2. call[r] \in {"idle", "waiting"}
    BY DEF Refuse, ReceiveResponse, CallTimeout
  <1>3. result[r] = "none"
    BY <1>0, <1>2 DEF ResultsLast
  <1>4. ASSUME NEW x \in Command!Outcomes(r),
               result' = [result EXCEPT ![r] = x]
        PROVE  Command!Return(r)
    BY <1>1, <1>3, <1>4 DEF Command!Return
  <1>5. CASE Refuse(r)
    <2>1. handler[r].seq = 0
      BY <1>0, <1>5 DEF Refuse, HandlersOrdered
    <2>2. got[r] = 0
      BY <1>0, <2>1 DEF GotOnce
    <2>3. "offline" \in Command!Outcomes(r)
      BY <2>2 DEF Command!Outcomes
    <2>4. QED BY <1>4, <1>5, <2>3 DEF Refuse
  <1>6. CASE CallTimeout(r)
    <2>1. "timeout" \in Command!Outcomes(r)
      BY DEF Command!Outcomes
    <2>2. QED BY <1>4, <1>6, <2>1 DEF CallTimeout
  <1>7. CASE ReceiveResponse(r)
    <2> DEFINE x == responder.status
    <2>1. /\ responder.req = r /\ x = handler[r].status /\ x \in Statuses
          /\ x \in Requests => x = r
          /\ result' = [result EXCEPT ![r] = x]
      BY <1>0, <1>7 DEF ReceiveResponse, StatusesKept, ResponsesOwn
    <2> HIDE DEF x
    <2>2. x \in Command!Outcomes(r)
      <3>1. CASE x \in Requests
        <4>1. x = r /\ got[r] = 1
          BY <1>0, <2>1, <3>1 DEF AnswersGot
        <4>2. QED BY <4>1 DEF Command!Outcomes
      <3>2. CASE x \in {"no_device", "send_failed"}
        <4>1. got[r] = 0
          BY <1>0, <2>1, <3>2 DEF RefusedUnsent, GotOnce
        <4>2. QED BY <3>2, <4>1 DEF Command!Outcomes
      <3>3. CASE x = "send_timeout"
        BY <3>3 DEF Command!Outcomes
      <3>4. QED BY <2>1, <3>1, <3>2, <3>3 DEF Statuses, Failures
    <2>3. QED BY <1>4, <2>1, <2>2
  <1>8. QED BY <1>5, <1>6, <1>7

(* The device gets a command that it has not got, of a call that nobody    *)
(* was told is refused.                                                    *)
LEMMA GetStep ==
  ASSUME CommandInv, NEW r \in Requests, r = Head(queue).req, queue # <<>>,
         r # None, got[r] = 0, got' = [got EXCEPT ![r] = 1],
         UNCHANGED result
  PROVE  Command!Get(r)
  <1>1. /\ handler[r].seq # 0
        /\ handler[r].pc \in {"wait", "late", "answer", "done"}
    BY HeadJob DEF CommandInv
  <1>2. result[r] # "offline"
    BY <1>1 DEF CommandInv, ResultsLast
  <1>3. result[r] \notin {"no_device", "send_failed"}
    <2>1. {"no_device", "send_failed"} \subseteq Statuses
      BY DEF Statuses, Failures
    <2>2. QED BY <1>1, <2>1 DEF CommandInv, RefusedUnsent, StatusesKept
  <1>4. QED BY <1>2, <1>3 DEF Command!Get

(* The API, the handlers of the comet server, its worker and the device    *)
(* implement commands that are carried out at most once, whose callers are *)
(* told that they were refused only if they were, and get only answers of  *)
(* a device that carried them out: WriteJob is the moment the device gets  *)
(* the command, Refuse, ReceiveResponse and CallTimeout are the returns,   *)
(* and no other step shows.                                                *)
THEOREM CommandImplemented == Spec => CommandSpec
  <1>1. Init => Command!Init
    BY DEF Init, Command!Init
  <1>2. CommandInv /\ [Next]_vars => [Command!Next]_<<got, result>>
    <2> SUFFICES ASSUME CommandInv, [Next]_vars
                 PROVE  Command!Next \/ UNCHANGED <<got, result>>
      OBVIOUS
    <2>1. CASE \E r \in Requests :
                 Refuse(r) \/ ReceiveResponse(r) \/ CallTimeout(r)
      BY <2>1, ReturnStep DEF Command!Next
    <2>2. CASE got' # got
      BY <2>2, GotNext, GetStep DEF Command!Next
    <2>3. QED BY <2>1, <2>2, ResultSteps
  <1>3. QED
    BY <1>1, <1>2, CommandInvHolds, PTL DEF Spec, CommandSpec, Command!Spec

=============================================================================
