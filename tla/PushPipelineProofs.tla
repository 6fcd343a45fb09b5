------------------------- MODULE PushPipelineProofs -------------------------
(***************************************************************************)
(* Proofs about PushPipeline, for any number of messages and workers and   *)
(* any capacities.                                                         *)
(***************************************************************************)
EXTENDS PushPipeline, SequenceTheorems, FiniteSetTheorems, TLAPS

-----------------------------------------------------------------------------
(* The inductive invariant.                                                *)

(* Nothing failed, and no message passed another one.                      *)
Calm == faults = 0 /\ ~overtaken

Alive == session.pc \notin {"none", "closing"}

(* What belongs to a living connection is at its worker.                   *)
SessionOK ==
  /\ session.pc = "none" => session = NoSession
  /\ session.pc # "none" => session.worker \in Workers
  /\ session.pc # "offline" => session.msgs = <<>>
  /\ session.pc = "offline" => session.msgs # <<>>
  /\ consumer.pc = "send" => consumer.to \in Workers
  /\ consumer.live => consumer.pc = "send" /\ Alive /\ consumer.to = session.worker
  /\ \A w \in Workers : \A i \in DOMAIN queue[w] :
       queue[w][i].live => Alive /\ w = session.worker

(* The main loop has stored the message it works on.                       *)
MainStored == main.pc # "idle" => main.id \in dbMsg

(* A mark is the id of a message the device has got.                       *)
MarksReceived ==
  /\ dbLast \in received \union {0}
  /\ session.last \in received \union {0}
  /\ \A w \in Workers : \A i \in DOMAIN queue[w] :
       queue[w][i].kind = "update" => queue[w][i].id \in received

(* The ids that have left the main loop.                                   *)
Queued ==
  {m \in Ids : \E w \in Workers : \E i \in DOMAIN queue[w] :
                 queue[w][i].kind = "push" /\ queue[w][i].id = m}

InConsumer == IF consumer.pc = "idle" THEN {} ELSE {consumer.id}

Passed ==
  dbOffline \union received \union ToSet(mq) \union ToSet(session.msgs)
    \union Queued \union InConsumer

InMain == IF main.pc = "idle" THEN {} ELSE {main.id}

(* Ids are given in their order, ...                                       *)
IdsGiven ==
  numbered \union ToSet(msgBox) \union InMain \union Passed \subseteq 1..nextId

(* ... and without overtaking they keep it up to the main loop, and from   *)
(* there on the way through RabbitMQ.                                      *)
IdsOrdered ==
  ~overtaken =>
    /\ \A n \in numbered : \A m \in ToSet(msgBox) \union InMain \union Passed : m < n
    /\ \A n \in ToSet(msgBox) : \A m \in InMain \union Passed : m < n
    /\ Ascending(msgBox)
    /\ main.pc = "keep" => \A m \in Passed : m < main.id
    /\ main.pc = "publish" =>
         /\ \A m \in Passed : m <= main.id
         /\ \A m \in ToSet(mq) : m < main.id
         /\ consumer.pc # "idle" => consumer.id < main.id
    /\ Ascending(mq)
    /\ consumer.pc # "idle" => \A m \in ToSet(mq) : consumer.id < m

(* The live pushes in the queue of the connection.                         *)
IsPush(j) == j.kind = "push" /\ j.live

Coming(k) ==
  \E i \in DOMAIN queue[session.worker] :
    IsPush(queue[session.worker][i]) /\ queue[session.worker][i].id = k

(* On its way from the main loop to the worker.                            *)
OnItsWay(k) ==
  \/ main.pc = "publish" /\ main.id = k
  \/ k \in ToSet(mq)
  \/ /\ consumer.id = k
     /\ consumer.pc \in {"got", "found", "send"}
     /\ consumer.pc = "send" => consumer.live

Missing == dbOffline \ received

(* Without faults the registration is in the app map as long as it should. *)
SessionCalm ==
  Calm =>
    /\ session.pc \in {"read", "offline", "loop"} => session.reg
    /\ \A w \in Workers : \A i \in DOMAIN queue[w] :
         queue[w][i].live => session.pc \in {"offline", "loop"}

(* What the device has not got is on its way to it, once its offline       *)
(* messages have been read, ...                                            *)
Covered ==
  Calm /\ session.pc \in {"offline", "loop"} /\ ~session.broken =>
    \A k \in Missing : k \in ToSet(session.msgs) \/ Coming(k) \/ OnItsWay(k)

(* ... and nothing is sent to it before something it has not got yet that  *)
(* has a lower id.                                                         *)
MsgsInOrder ==
  /\ Ascending(session.msgs)
  /\ \A m \in ToSet(session.msgs) : \A k \in Missing :
       k < m => k \in ToSet(session.msgs) \/ Coming(k)

QueuesInOrder ==
  \A w \in Workers : \A i \in DOMAIN queue[w] : \A k \in Missing :
    IsPush(queue[w][i]) /\ k < queue[w][i].id =>
      \E j \in DOMAIN queue[w] :
        j < i /\ IsPush(queue[w][j]) /\ queue[w][j].id = k

SentInOrder == Calm /\ ~session.broken => MsgsInOrder /\ QueuesInOrder

(* So it gets them in order.                                               *)
ReceivedInOrder ==
  Calm => \A m \in received : \A k \in Missing : m < k

IInv ==
  /\ TypeOK /\ PublishedStored /\ MainStored /\ SessionOK /\ MarksReceived
  /\ IdsGiven /\ IdsOrdered
  /\ SessionCalm /\ Covered /\ SentInOrder /\ ReceivedInOrder

-----------------------------------------------------------------------------
(* Values.                                                                 *)
LEMMA Bounds ==
  /\ None \notin Workers /\ MaxMsg \in Nat /\ MaxFaults \in Nat
  /\ BoxCap \in Nat \ {0} /\ QueueCap \in Nat \ {0}
  /\ Ids = 1..MaxMsg /\ Ids \subseteq 0..MaxMsg /\ Ids \subseteq Nat \ {0}
  BY NoneAssumption, BoundAssumption DEF Ids

ConsumerType ==
  [pc : {"idle", "got", "found", "send"}, id : 0..MaxMsg,
   to : Workers \union {None}, live : BOOLEAN]

SessionType ==
  [pc : {"none", "set", "read", "offline", "loop", "closing"},
   worker : Workers \union {None}, reg : BOOLEAN,
   last : 0..MaxMsg, msgs : Seq(Ids), broken : BOOLEAN]

LEMMA ConsumerValues ==
  ASSUME NEW c \in ConsumerType
  PROVE  /\ ConsumerIdle \in ConsumerType
         /\ ConsumerIdle.pc = "idle" /\ ConsumerIdle.live = FALSE
         /\ LET d == [c EXCEPT !.pc = "found"] IN
            /\ d \in ConsumerType
            /\ d.pc = "found" /\ d.id = c.id /\ d.live = c.live
         /\ LET d == [c EXCEPT !.live = FALSE] IN
            /\ d \in ConsumerType
            /\ d.pc = c.pc /\ d.id = c.id /\ d.to = c.to /\ d.live = FALSE
  <1>1. 0 \in 0..MaxMsg
    BY Bounds
  <1>2. QED BY <1>1 DEF ConsumerType, ConsumerIdle

Getting(m) == [ConsumerIdle EXCEPT !.pc = "got", !.id = m]

LEMMA ConsumerGets ==
  ASSUME NEW m \in 0..MaxMsg
  PROVE  LET d == Getting(m) IN
         d \in ConsumerType /\ d.pc = "got" /\ d.id = m /\ d.live = FALSE
  BY DEF ConsumerType, ConsumerIdle, Getting

Sending(c, w, b) == [c EXCEPT !.pc = "send", !.to = w, !.live = b]

LEMMA ConsumerSends ==
  ASSUME NEW c \in ConsumerType, NEW w \in Workers \union {None}, NEW b \in BOOLEAN
  PROVE  LET d == Sending(c, w, b) IN
         /\ d \in ConsumerType
         /\ d.pc = "send" /\ d.id = c.id /\ d.to = w /\ d.live = b
  BY DEF ConsumerType, Sending

Phases == {"none", "set", "read", "offline", "loop", "closing"}

LEMMA NewSessions ==
  /\ NoSession \in SessionType
  /\ NoSession.pc = "none" /\ NoSession.msgs = <<>> /\ NoSession.last = 0
  /\ ~NoSession.reg /\ ~NoSession.broken
  /\ \A w \in Workers :
       LET t == [NoSession EXCEPT !.pc = "set", !.worker = w] IN
       /\ t \in SessionType
       /\ t.pc = "set" /\ t.worker = w /\ t.msgs = <<>> /\ t.last = 0
       /\ ~t.reg /\ ~t.broken
  <1>1. 0 \in 0..MaxMsg /\ <<>> \in Seq(Ids)
    BY Bounds
  <1>2. /\ NoSession \in SessionType
        /\ NoSession.pc = "none" /\ NoSession.msgs = <<>> /\ NoSession.last = 0
        /\ ~NoSession.reg /\ ~NoSession.broken
    BY <1>1 DEF SessionType, NoSession
  <1>3. ASSUME NEW w \in Workers
        PROVE  LET t == [NoSession EXCEPT !.pc = "set", !.worker = w] IN
               /\ t \in SessionType
               /\ t.pc = "set" /\ t.worker = w /\ t.msgs = <<>> /\ t.last = 0
               /\ ~t.reg /\ ~t.broken
    BY <1>1 DEF SessionType, NoSession
  <1>4. QED BY <1>2, <1>3

LEMMA SessionReads ==
  ASSUME NEW s \in SessionType, NEW n \in 0..MaxMsg
  PROVE  LET t == [s EXCEPT !.pc = "read", !.reg = TRUE, !.last = n] IN
         /\ t \in SessionType
         /\ t.pc = "read" /\ t.reg = TRUE /\ t.last = n
         /\ t.worker = s.worker /\ t.msgs = s.msgs /\ t.broken = s.broken
  BY Bounds DEF SessionType

LEMMA SessionMoves ==
  ASSUME NEW s \in SessionType, NEW x \in Phases
  PROVE  LET t == [s EXCEPT !.pc = x] IN
         /\ t \in SessionType /\ t.pc = x
         /\ t.worker = s.worker /\ t.msgs = s.msgs /\ t.broken = s.broken
         /\ t.reg = s.reg /\ t.last = s.last
  BY DEF SessionType, Phases

Queueing(s, l, x) == [s EXCEPT !.msgs = l, !.pc = x]

LEMMA SessionQueues ==
  ASSUME NEW s \in SessionType, NEW x \in Phases, NEW l \in Seq(Ids)
  PROVE  LET t == Queueing(s, l, x) IN
         /\ t \in SessionType /\ t.pc = x /\ t.msgs = l
         /\ t.worker = s.worker /\ t.broken = s.broken
         /\ t.reg = s.reg /\ t.last = s.last
  BY DEF SessionType, Phases, Queueing

LEMMA SessionMarks ==
  ASSUME NEW s \in SessionType, NEW n \in 0..MaxMsg
  PROVE  LET t == [s EXCEPT !.last = n] IN
         /\ t \in SessionType /\ t.last = n /\ t.pc = s.pc
         /\ t.worker = s.worker /\ t.msgs = s.msgs /\ t.broken = s.broken
         /\ t.reg = s.reg
  BY Bounds DEF SessionType

LEMMA SessionBreaks ==
  ASSUME NEW s \in SessionType
  PROVE  LET t == [s EXCEPT !.broken = TRUE] IN
         /\ t \in SessionType /\ t.broken = TRUE /\ t.pc = s.pc
         /\ t.worker = s.worker /\ t.msgs = s.msgs
         /\ t.reg = s.reg /\ t.last = s.last
  BY DEF SessionType

LEMMA JobValues ==
  /\ \A m \in Ids : \A b \in BOOLEAN :
       /\ PushJob(m, b) \in JobType /\ PushJob(m, b).kind = "push"
       /\ PushJob(m, b).id = m /\ PushJob(m, b).live = b
  /\ \A m \in Ids :
       LET j == [kind |-> "update", id |-> m, live |-> TRUE] IN
       j \in JobType /\ j.kind = "update" /\ j.id = m /\ j.live = TRUE
  /\ \A j \in JobType :
       LET d == [j EXCEPT !.live = FALSE] IN
       /\ d \in JobType /\ d.kind = j.kind /\ d.id = j.id /\ d.live = FALSE
       /\ j.kind \in {"push", "update"} /\ j.id \in Ids
       /\ j.live \in BOOLEAN
  BY DEF JobType, PushJob

-----------------------------------------------------------------------------
(* Sequences.                                                              *)
LEMMA SeqFacts ==
  ASSUME NEW S, NEW s \in Seq(S)
  PROVE  /\ Len(s) \in Nat /\ DOMAIN s = 1..Len(s)
         /\ \A i \in 1..Len(s) : s[i] \in S
         /\ ToSet(s) \subseteq S
         /\ s = <<>> => Len(s) = 0 /\ ToSet(s) = {}
  BY LenProperties, ElementOfSeq DEF ToSet

LEMMA TailFacts ==
  ASSUME NEW S, NEW s \in Seq(S), s # <<>>
  PROVE  /\ Len(s) \in Nat \ {0} /\ Tail(s) \in Seq(S)
         /\ Len(Tail(s)) = Len(s) - 1 /\ DOMAIN Tail(s) = 1..(Len(s) - 1)
         /\ \A i \in 1..(Len(s) - 1) : Tail(s)[i] = s[i + 1]
         /\ Head(s) = s[1] /\ Head(s) \in S
         /\ ToSet(s) = ToSet(Tail(s)) \union {Head(s)}
         /\ Len(s) = 1 <=> Tail(s) = <<>>
  <1>1. /\ Len(s) \in Nat \ {0} /\ Tail(s) \in Seq(S)
        /\ Len(Tail(s)) = Len(s) - 1 /\ DOMAIN Tail(s) = 1..(Len(s) - 1)
        /\ \A i \in 1..(Len(s) - 1) : Tail(s)[i] = s[i + 1]
        /\ Head(s) = s[1] /\ Head(s) \in S /\ DOMAIN s = 1..Len(s)
    BY HeadTailProperties, EmptySeq, LenProperties, ElementOfSeq
  <1>2. ToSet(s) \subseteq ToSet(Tail(s)) \union {Head(s)}
    <2> SUFFICES ASSUME NEW i \in 1..Len(s), i # 1
                 PROVE  s[i] \in ToSet(Tail(s))
      BY <1>1 DEF ToSet
    <2>1. i - 1 \in 1..(Len(s) - 1) /\ (i - 1) + 1 = i
      BY <1>1
    <2>2. Tail(s)[i - 1] = s[i]
      BY <1>1, <2>1
    <2>3. QED BY <1>1, <2>1, <2>2 DEF ToSet
  <1>3. ToSet(Tail(s)) \union {Head(s)} \subseteq ToSet(s)
    <2>1. \A i \in 1..(Len(s) - 1) : i + 1 \in 1..Len(s)
      BY <1>1
    <2>2. ToSet(Tail(s)) \subseteq ToSet(s)
      BY <1>1, <2>1 DEF ToSet
    <2>3. 1 \in DOMAIN s
      BY <1>1
    <2>4. QED BY <1>1, <2>2, <2>3 DEF ToSet
  <1>4. Len(s) = 1 <=> Tail(s) = <<>>
    <2>1. Tail(s) = <<>> \/ Len(Tail(s)) # 0
      BY <1>1, EmptySeq
    <2>2. Tail(s) = <<>> => Len(Tail(s)) = 0
      BY EmptySeq
    <2>3. QED BY <1>1, <2>1, <2>2
  <1>5. QED BY <1>1, <1>2, <1>3, <1>4

LEMMA AppendFacts ==
  ASSUME NEW S, NEW s \in Seq(S), NEW x \in S
  PROVE  /\ Len(s) \in Nat /\ Append(s, x) \in Seq(S)
         /\ Len(Append(s, x)) = Len(s) + 1
         /\ DOMAIN Append(s, x) = 1..(Len(s) + 1) /\ DOMAIN s = 1..Len(s)
         /\ \A i \in 1..Len(s) : Append(s, x)[i] = s[i]
         /\ Append(s, x)[Len(s) + 1] = x
         /\ ToSet(Append(s, x)) = ToSet(s) \union {x}
  <1>1. /\ Len(s) \in Nat /\ Append(s, x) \in Seq(S)
        /\ Len(Append(s, x)) = Len(s) + 1
        /\ DOMAIN Append(s, x) = 1..(Len(s) + 1) /\ DOMAIN s = 1..Len(s)
        /\ \A i \in 1..Len(s) : Append(s, x)[i] = s[i]
        /\ Append(s, x)[Len(s) + 1] = x
    BY AppendProperties, LenProperties
  <1>2. 1..(Len(s) + 1) = 1..Len(s) \union {Len(s) + 1}
    BY <1>1
  <1>3. ToSet(Append(s, x)) = ToSet(s) \union {x}
    BY <1>1, <1>2 DEF ToSet
  <1>4. QED BY <1>1, <1>3

LEMMA AscendingTail ==
  ASSUME NEW s \in Seq(Ids), s # <<>>, Ascending(s)
  PROVE  Ascending(Tail(s)) /\ \A m \in ToSet(Tail(s)) : Head(s) < m
  <1>1. /\ Len(s) \in Nat \ {0} /\ DOMAIN s = 1..Len(s)
        /\ DOMAIN Tail(s) = 1..(Len(s) - 1) /\ Head(s) = s[1]
        /\ \A i \in 1..(Len(s) - 1) : Tail(s)[i] = s[i + 1]
    BY TailFacts, SeqFacts
  <1>2. \A i \in 1..(Len(s) - 1) : i + 1 \in 1..Len(s) /\ 1 < i + 1
    BY <1>1
  <1>3. \A i, j \in 1..(Len(s) - 1) : i < j => i + 1 < j + 1
    BY <1>1
  <1>4. Ascending(Tail(s))
    BY <1>1, <1>2, <1>3 DEF Ascending
  <1>5. 1 \in 1..Len(s)
    BY <1>1
  <1>6. \A i \in 1..(Len(s) - 1) : s[1] < s[i + 1]
    BY <1>1, <1>2, <1>5 DEF Ascending
  <1>7. QED BY <1>1, <1>4, <1>6 DEF ToSet

LEMMA AscendingAppend ==
  ASSUME NEW s \in Seq(Ids), NEW x \in Ids, Ascending(s),
         \A m \in ToSet(s) : m < x
  PROVE  Ascending(Append(s, x))
  <1>1. /\ Len(s) \in Nat /\ DOMAIN s = 1..Len(s)
        /\ DOMAIN Append(s, x) = 1..(Len(s) + 1)
        /\ \A i \in 1..Len(s) : Append(s, x)[i] = s[i]
        /\ Append(s, x)[Len(s) + 1] = x
    BY AppendFacts
  <1> SUFFICES ASSUME NEW i \in 1..(Len(s) + 1), NEW j \in 1..(Len(s) + 1), i < j
               PROVE  Append(s, x)[i] < Append(s, x)[j]
    BY <1>1 DEF Ascending
  <1>2. i \in 1..Len(s)
    BY <1>1
  <1>3. CASE j = Len(s) + 1
    BY <1>1, <1>2, <1>3 DEF ToSet
  <1>4. CASE j \in 1..Len(s)
    BY <1>1, <1>2, <1>4 DEF Ascending
  <1>5. QED BY <1>1, <1>3, <1>4

-----------------------------------------------------------------------------
(* Queues.                                                                 *)
QType ==
  /\ queue \in [Workers -> Seq(JobType)]
  /\ \A w \in Workers : Len(queue[w]) <= QueueCap

LEMMA QueueFacts ==
  ASSUME QType, NEW w \in Workers
  PROVE  /\ queue[w] \in Seq(JobType) /\ Len(queue[w]) \in Nat
         /\ Len(queue[w]) <= QueueCap
         /\ DOMAIN queue[w] = 1..Len(queue[w])
         /\ \A i \in DOMAIN queue[w] :
              /\ queue[w][i] \in JobType /\ queue[w][i].id \in Ids
              /\ queue[w][i].kind \in {"push", "update"}
              /\ queue[w][i].live \in BOOLEAN
  <1>1. /\ queue[w] \in Seq(JobType) /\ Len(queue[w]) \in Nat
        /\ Len(queue[w]) <= QueueCap
        /\ DOMAIN queue[w] = 1..Len(queue[w])
        /\ \A i \in 1..Len(queue[w]) : queue[w][i] \in JobType
    BY SeqFacts DEF QType
  <1>2. QED BY <1>1, JobValues

(* The four ways to change a queue.                                        *)
Adds(w, j) == queue' = [queue EXCEPT ![w] = Append(@, j)]

Takes(w) == queue[w] # <<>> /\ queue' = [queue EXCEPT ![w] = Tail(@)]

Ends ==
  queue' = [w \in Workers |->
              [i \in DOMAIN queue[w] |-> [queue[w][i] EXCEPT !.live = FALSE]]]

Empties == queue' = [w \in Workers |-> <<>>]

LEMMA AddsFacts ==
  ASSUME QType, NEW w \in Workers, NEW j \in JobType, Adds(w, j)
  PROVE  /\ HasRoom(w) => QType'
         /\ DOMAIN queue'[w] = 1..(Len(queue[w]) + 1)
         /\ \A i \in 1..Len(queue[w]) : queue'[w][i] = queue[w][i]
         /\ queue'[w][Len(queue[w]) + 1] = j
         /\ \A v \in Workers \ {w} : queue'[v] = queue[v]
  <1> DEFINE q == queue[w]
  <1>1. /\ Len(q) \in Nat /\ Append(q, j) \in Seq(JobType)
        /\ Len(Append(q, j)) = Len(q) + 1
        /\ DOMAIN Append(q, j) = 1..(Len(q) + 1)
        /\ \A i \in 1..Len(q) : Append(q, j)[i] = q[i]
        /\ Append(q, j)[Len(q) + 1] = j
    BY QueueFacts, AppendFacts
  <1>2. /\ queue'[w] = Append(q, j) /\ \A v \in Workers \ {w} : queue'[v] = queue[v]
        /\ queue \in [Workers -> Seq(JobType)]
        /\ \A v \in Workers : Len(queue[v]) <= QueueCap
    BY DEF Adds, QType
  <1>3. /\ Append(q, j) \in Seq(JobType)
        /\ queue' = [queue EXCEPT ![w] = Append(q, j)]
    BY <1>1 DEF Adds
  <1>4. queue' \in [Workers -> Seq(JobType)]
    BY <1>2, <1>3
  <1>5. HasRoom(w) => \A v \in Workers : Len(queue'[v]) <= QueueCap
    <2>1. HasRoom(w) => Len(queue'[w]) <= QueueCap
      BY <1>1, <1>2, Bounds DEF HasRoom
    <2>2. QED BY <1>2, <2>1
  <1>6. QED BY <1>1, <1>2, <1>4, <1>5 DEF QType

LEMMA TakesFacts ==
  ASSUME QType, NEW w \in Workers, Takes(w)
  PROVE  /\ QType'
         /\ Len(queue[w]) \in Nat \ {0}
         /\ DOMAIN queue'[w] = 1..(Len(queue[w]) - 1)
         /\ \A i \in 1..(Len(queue[w]) - 1) : queue'[w][i] = queue[w][i + 1]
         /\ Head(queue[w]) = queue[w][1] /\ 1 \in DOMAIN queue[w]
         /\ \A v \in Workers \ {w} : queue'[v] = queue[v]
  <1> DEFINE q == queue[w]
  <1>1. /\ Len(q) \in Nat \ {0} /\ Tail(q) \in Seq(JobType)
        /\ Len(Tail(q)) = Len(q) - 1
        /\ DOMAIN Tail(q) = 1..(Len(q) - 1)
        /\ \A i \in 1..(Len(q) - 1) : Tail(q)[i] = q[i + 1]
        /\ Head(q) = q[1] /\ DOMAIN q = 1..Len(q) /\ Len(q) <= QueueCap
    BY QueueFacts, TailFacts DEF Takes
  <1>2. /\ queue'[w] = Tail(q) /\ \A v \in Workers \ {w} : queue'[v] = queue[v]
        /\ queue \in [Workers -> Seq(JobType)]
        /\ \A v \in Workers : Len(queue[v]) <= QueueCap
    BY DEF Takes, QType
  <1>3. queue' = [queue EXCEPT ![w] = Tail(q)]
    BY DEF Takes
  <1>4. queue' \in [Workers -> Seq(JobType)]
    BY <1>1, <1>2, <1>3
  <1>5. Len(queue'[w]) <= QueueCap
    BY <1>1, <1>2, Bounds
  <1>6. 1 \in DOMAIN q
    BY <1>1
  <1>7. QED BY <1>1, <1>2, <1>4, <1>5, <1>6 DEF QType

LEMMA EndsFacts ==
  ASSUME QType, Ends
  PROVE  /\ QType'
         /\ \A w \in Workers :
              /\ DOMAIN queue'[w] = DOMAIN queue[w]
              /\ \A i \in DOMAIN queue[w] :
                   /\ queue'[w][i].kind = queue[w][i].kind
                   /\ queue'[w][i].id = queue[w][i].id
                   /\ queue'[w][i].live = FALSE
  <1> DEFINE ended(j) == [j EXCEPT !.live = FALSE]
  <1>1. ASSUME NEW w \in Workers
        PROVE  /\ queue'[w] \in Seq(JobType) /\ Len(queue'[w]) <= QueueCap
               /\ DOMAIN queue'[w] = DOMAIN queue[w]
               /\ \A i \in DOMAIN queue[w] :
                    /\ queue'[w][i].kind = queue[w][i].kind
                    /\ queue'[w][i].id = queue[w][i].id
                    /\ queue'[w][i].live = FALSE
    <2>1. /\ Len(queue[w]) \in Nat /\ DOMAIN queue[w] = 1..Len(queue[w])
          /\ Len(queue[w]) <= QueueCap
          /\ \A i \in DOMAIN queue[w] : queue[w][i] \in JobType
      BY QueueFacts
    <2>2. queue'[w] = [i \in 1..Len(queue[w]) |-> ended(queue[w][i])]
      BY <2>1 DEF Ends
    <2>3. \A j \in JobType : /\ ended(j) \in JobType /\ ended(j).kind = j.kind
                             /\ ended(j).id = j.id /\ ended(j).live = FALSE
      BY JobValues
    <2> HIDE DEF ended
    <2>4. queue'[w] \in [1..Len(queue[w]) -> JobType]
      BY <2>1, <2>2, <2>3
    <2>5. queue'[w] \in Seq(JobType) /\ Len(queue'[w]) = Len(queue[w])
      BY <2>1, <2>4, LenProperties
    <2>6. QED BY <2>1, <2>2, <2>3, <2>5
  <1>2. queue' = [w \in Workers |-> queue'[w]]
    BY DEF Ends
  <1>3. QED BY <1>1, <1>2 DEF QType

LEMMA EmptiesFacts ==
  ASSUME Empties
  PROVE  QType' /\ \A w \in Workers : queue'[w] = <<>> /\ DOMAIN queue'[w] = {}
  <1>1. \A w \in Workers : queue'[w] = <<>> /\ DOMAIN queue'[w] = {}
    BY DEF Empties
  <1>2. /\ \A w \in Workers : queue'[w] \in Seq(JobType) /\ Len(queue'[w]) <= QueueCap
    <2>1. <<>> \in Seq(JobType) /\ Len(<<>>) = 0 /\ 0 <= QueueCap
      BY Bounds
    <2>2. QED BY <1>1, <2>1
  <1>3. queue' = [w \in Workers |-> queue'[w]]
    BY DEF Empties
  <1>4. QED BY <1>1, <1>2, <1>3 DEF QType

-----------------------------------------------------------------------------
(* Each step keeps the types.                                              *)
ApiType ==
  /\ nextId \in 0..MaxMsg
  /\ numbered \subseteq Ids
  /\ msgBox \in Seq(Ids) /\ Len(msgBox) <= BoxCap
  /\ main \in [pc : {"idle", "keep", "publish"}, id : 0..MaxMsg]

RedisType ==
  dbMsg \subseteq Ids /\ dbOffline \subseteq Ids /\ dbLast \in 0..MaxMsg

CometType ==
  /\ mq \in Seq(Ids) /\ consumer \in ConsumerType /\ session \in SessionType
  /\ QType

RestType ==
  received \subseteq Ids /\ overtaken \in BOOLEAN /\ faults \in 0..MaxFaults

LEMMA TypeParts == TypeOK <=> ApiType /\ RedisType /\ CometType /\ RestType
  BY DEF TypeOK, ApiType, RedisType, CometType, RestType, QType, ConsumerType,
         SessionType

LEMMA NextTypeParts ==
  ASSUME ApiType', RedisType', CometType', RestType'
  PROVE  TypeOK'
  BY DEF TypeOK, ApiType, RedisType, CometType, RestType, QType, ConsumerType,
         SessionType

LEMMA FaultType ==
  ASSUME RestType, Fault
  PROVE  faults' \in 0..MaxFaults /\ faults' # 0
  BY Bounds DEF RestType, Fault

LEMMA MainValues ==
  ASSUME ApiType, NEW m \in 0..MaxMsg, NEW x \in {"idle", "keep", "publish"}
  PROVE  /\ [pc |-> x, id |-> m] \in [pc : {"idle", "keep", "publish"}, id : 0..MaxMsg]
         /\ MainIdle \in [pc : {"idle", "keep", "publish"}, id : 0..MaxMsg]
         /\ MainIdle.pc = "idle" /\ main.id \in 0..MaxMsg
         /\ LET n == [main EXCEPT !.pc = x] IN
            /\ n \in [pc : {"idle", "keep", "publish"}, id : 0..MaxMsg]
            /\ n.pc = x /\ n.id = main.id
  BY Bounds DEF ApiType, MainIdle

(* Sorted ids of offline messages.                                         *)
LEMMA OfflineSorted ==
  ASSUME RedisType, NEW last, NEW s \in OfflineMsgs(last)
  PROVE  /\ s \in Seq(Ids) /\ Ascending(s)
         /\ ToSet(s) = {m \in dbOffline : m > last}
  <1> DEFINE missed == {m \in dbOffline : m > last}
  <1>1. IsFiniteSet(missed)
    <2>1. IsFiniteSet(Ids)
      BY Bounds, FS_Interval
    <2>2. missed \subseteq Ids
      BY DEF RedisType
    <2>3. QED BY <2>1, <2>2, FS_Subset
  <1>2. Cardinality(missed) \in Nat
    BY <1>1, FS_CardinalityType
  <1>3. /\ s \in [1..Cardinality(missed) -> missed]
        /\ Ascending(s) /\ ToSet(s) = missed
    BY DEF OfflineMsgs
  <1>4. missed \subseteq Ids
    BY DEF RedisType
  <1> HIDE DEF missed
  <1>5. s \in [1..Cardinality(missed) -> Ids]
    BY <1>3, <1>4
  <1>6. s \in Seq(Ids)
    BY <1>2, <1>5
  <1>7. QED BY <1>3, <1>6 DEF missed

LEMMA ApiStepType ==
  ASSUME IInv, ApiStep
  PROVE  TypeOK'
  <1>1. ApiType /\ RedisType /\ CometType /\ RestType
    BY TypeParts DEF IInv
  <1>2. /\ nextId \in 0..MaxMsg /\ numbered \subseteq Ids /\ msgBox \in Seq(Ids)
        /\ Len(msgBox) <= BoxCap /\ mq \in Seq(Ids)
    BY <1>1 DEF ApiType, CometType
  <1>3. CASE GetMsgID
    <2>1. nextId + 1 \in Ids /\ nextId + 1 \in 0..MaxMsg
      BY <1>2, <1>3, Bounds DEF GetMsgID
    <2>2. ApiType'
      BY <1>1, <1>3, <2>1 DEF GetMsgID, ApiType
    <2>3. QED BY <1>1, <1>3, <2>2, NextTypeParts
              DEF GetMsgID, RedisType, CometType, RestType, QType, redis, cometVars
  <1>4. ASSUME NEW m \in Ids, PutInBox(m)
        PROVE  TypeOK'
    <2>1. msgBox' \in Seq(Ids) /\ Len(msgBox') <= BoxCap
      BY <1>2, <1>4, AppendFacts, Bounds DEF PutInBox
    <2>2. ApiType'
      BY <1>1, <1>4, <2>1 DEF PutInBox, ApiType
    <2>3. overtaken' \in BOOLEAN
      BY <1>1, <1>4 DEF PutInBox, RestType
    <2>4. QED BY <1>1, <1>4, <2>2, <2>3, NextTypeParts
              DEF PutInBox, RedisType, CometType, RestType, QType, redis, cometVars
  <1>5. CASE Store \/ StoreFails
    <2>1. /\ Tail(msgBox) \in Seq(Ids) /\ Len(Tail(msgBox)) <= BoxCap
          /\ Head(msgBox) \in Ids
      BY <1>2, <1>5, TailFacts, Bounds DEF Store, StoreFails
    <2>2. main' \in [pc : {"idle", "keep", "publish"}, id : 0..MaxMsg]
      BY <1>1, <1>5, <2>1, Bounds DEF Store, StoreFails, ApiType
    <2>3. ApiType'
      BY <1>1, <1>5, <2>1, <2>2 DEF Store, StoreFails, ApiType
    <2>4. RedisType' /\ faults' \in 0..MaxFaults
      BY <1>1, <1>5, <2>1, FaultType DEF Store, StoreFails, RedisType, RestType
    <2>5. QED BY <1>1, <1>5, <2>3, <2>4, NextTypeParts
              DEF Store, StoreFails, CometType, RestType, QType, cometVars
  <1>6. CASE Keep \/ KeepFails
    <2>1. main.id \in Ids
      BY <1>1, <1>6 DEF Keep, KeepFails, IInv, MainStored, RedisType
    <2>2. main' \in [pc : {"idle", "keep", "publish"}, id : 0..MaxMsg]
      BY <1>1, <1>2, <1>6, MainValues DEF Keep, KeepFails
    <2>3. ApiType'
      BY <1>1, <1>6, <2>2 DEF Keep, KeepFails, ApiType
    <2>4. RedisType' /\ faults' \in 0..MaxFaults
      BY <1>1, <1>6, <2>1, FaultType DEF Keep, KeepFails, RedisType, RestType
    <2>5. QED BY <1>1, <1>6, <2>3, <2>4, NextTypeParts
              DEF Keep, KeepFails, CometType, RestType, QType, cometVars
  <1>7. CASE Publish \/ PublishFails
    <2>1. main.id \in Ids
      BY <1>1, <1>7 DEF Publish, PublishFails, IInv, MainStored, RedisType
    <2>2. MainIdle \in [pc : {"idle", "keep", "publish"}, id : 0..MaxMsg]
      BY <1>1, <1>2, MainValues
    <2>3. ApiType'
      BY <1>1, <1>7, <2>2 DEF Publish, PublishFails, ApiType
    <2>4. CometType'
      BY <1>1, <1>2, <1>7, <2>1, AppendFacts
         DEF Publish, PublishFails, CometType, QType, cometVars
    <2>5. faults' \in 0..MaxFaults
      BY <1>1, <1>7, FaultType DEF Publish, PublishFails, RestType
    <2>6. QED BY <1>1, <1>7, <2>3, <2>4, <2>5, NextTypeParts
              DEF Publish, PublishFails, RedisType, RestType, redis
  <1>8. CASE ApiExit
    <2>1. /\ MainIdle \in [pc : {"idle", "keep", "publish"}, id : 0..MaxMsg]
          /\ <<>> \in Seq(Ids) /\ Len(<<>>) <= BoxCap
      BY <1>1, <1>2, MainValues, Bounds
    <2>2. ApiType'
      BY <1>1, <1>8, <2>1 DEF ApiExit, ApiType
    <2>3. faults' \in 0..MaxFaults
      BY <1>1, <1>8, FaultType DEF ApiExit
    <2>4. QED BY <1>1, <1>8, <2>2, <2>3, NextTypeParts
              DEF ApiExit, RedisType, CometType, RestType, QType, redis, cometVars
  <1>9. QED BY <1>3, <1>4, <1>5, <1>6, <1>7, <1>8 DEF ApiStep

LEMMA CometStepType ==
  ASSUME IInv, CometStep
  PROVE  TypeOK'
  <1>1. ApiType /\ RedisType /\ CometType /\ RestType /\ PublishedStored
    BY TypeParts DEF IInv
  <1>2. /\ mq \in Seq(Ids) /\ consumer \in ConsumerType /\ session \in SessionType
        /\ QType /\ dbLast \in 0..MaxMsg /\ faults \in 0..MaxFaults
        /\ Ids \subseteq 0..MaxMsg
    BY <1>1, Bounds DEF CometType, RedisType, RestType
  <1>3. ASSUME UNCHANGED apiVars, RedisType', CometType', RestType'
        PROVE  TypeOK'
    BY <1>1, <1>3, NextTypeParts DEF apiVars, ApiType
  <1>4. ASSUME UNCHANGED redis
        PROVE  RedisType'
    BY <1>1, <1>4 DEF redis, RedisType
  <1>5. UNCHANGED queue => QType'
    BY <1>2 DEF QType
  <1>6. /\ session.worker \in Workers \union {None} /\ session.reg \in BOOLEAN
        /\ session.last \in 0..MaxMsg /\ session.msgs \in Seq(Ids)
        /\ session.pc \in Phases
    BY <1>2 DEF SessionType, Phases
  <1>7. CASE Consume
    <2>1. Tail(mq) \in Seq(Ids) /\ Head(mq) \in 0..MaxMsg
      BY <1>2, <1>7, TailFacts DEF Consume
    <2>2. CometType'
      BY <1>1, <1>2, <1>5, <1>7, <2>1, ConsumerGets DEF Consume, CometType, Getting
    <2>3. QED BY <1>1, <1>3, <1>4, <1>7, <2>2 DEF Consume, RestType
  <1>8. CASE LookUp
    <2>1. consumer' \in ConsumerType
      <3>1. consumer' = ConsumerIdle \/ consumer' = [consumer EXCEPT !.pc = "found"]
        BY <1>8 DEF LookUp
      <3>2. ConsumerIdle \in ConsumerType
        BY <1>2, ConsumerValues
      <3>3. [consumer EXCEPT !.pc = "found"] \in ConsumerType
        BY <1>2, ConsumerValues
      <3>4. QED BY <3>1, <3>2, <3>3
    <2>2. faults' \in 0..MaxFaults
      BY <1>1, <1>2, <1>8, FaultType DEF LookUp
    <2>3. QED BY <1>1, <1>3, <1>4, <1>5, <1>8, <2>1, <2>2
              DEF LookUp, RestType, CometType
  <1>9. CASE GetClient
    <2>1. consumer' \in ConsumerType
      <3> DEFINE b == session.pc # "closing"
      <3>1. b \in BOOLEAN
        OBVIOUS
      <3>2. consumer' \in {ConsumerIdle, Sending(consumer, session.worker, b)}
        BY <1>9 DEF GetClient, Sending
      <3> HIDE DEF b
      <3>3. Sending(consumer, session.worker, b) \in ConsumerType
        BY <1>2, <1>6, <3>1, ConsumerSends
      <3>4. ConsumerIdle \in ConsumerType
        BY <1>2, ConsumerValues
      <3>5. QED BY <3>2, <3>3, <3>4
    <2>2. QED BY <1>1, <1>3, <1>4, <1>5, <1>9, <2>1
              DEF GetClient, RestType, CometType
  <1>10. CASE SendPush
    <2>1. /\ consumer.id \in Ids /\ consumer.live \in BOOLEAN
          /\ consumer.to \in Workers
      BY <1>1, <1>2, <1>10
         DEF SendPush, PublishedStored, RedisType, ConsumerType, IInv, SessionOK
    <2>2. QType'
      BY <1>2, <1>10, <2>1, AddsFacts, JobValues DEF SendPush, Adds
    <2>3. consumer' \in ConsumerType /\ overtaken' \in BOOLEAN
      BY <1>1, <1>2, <1>10, <2>1, ConsumerValues DEF SendPush, RestType
    <2>4. QED BY <1>1, <1>3, <1>4, <1>10, <2>2, <2>3
              DEF SendPush, RestType, CometType
  <1>11. ASSUME NEW w \in Workers, CreateClient(w)
         PROVE  TypeOK'
    <2>1. session' \in SessionType
      BY <1>11, NewSessions DEF CreateClient
    <2>2. QED BY <1>1, <1>3, <1>4, <1>5, <1>11, <2>1
              DEF CreateClient, RestType, CometType
  <1>12. CASE LoadApp
    <2>1. session' \in SessionType
      <3>1. \/ session' = [session EXCEPT !.pc = "read", !.reg = TRUE, !.last = dbLast]
            \/ session' = [session EXCEPT !.pc = "loop"]
        BY <1>12 DEF LoadApp
      <3>2. "loop" \in Phases
        BY DEF Phases
      <3>3. [session EXCEPT !.pc = "read", !.reg = TRUE, !.last = dbLast] \in SessionType
        BY <1>2, SessionReads
      <3>4. [session EXCEPT !.pc = "loop"] \in SessionType
        BY <1>2, <3>2, SessionMoves
      <3>5. QED BY <3>1, <3>3, <3>4
    <2>2. faults' \in 0..MaxFaults
      BY <1>1, <1>2, <1>12, FaultType DEF LoadApp
    <2>3. QED BY <1>1, <1>3, <1>4, <1>5, <1>12, <2>1, <2>2
              DEF LoadApp, RestType, CometType
  <1>13. CASE ReadOffline
    <2>1. session' \in SessionType
      <3>1. CASE session' = [session EXCEPT !.pc = "loop"]
        BY <1>2, <3>1, SessionMoves DEF Phases
      <3>2. ASSUME NEW l \in OfflineMsgs(session.last),
                   session' = [session EXCEPT !.msgs = l,
                                 !.pc = IF l = <<>> THEN "loop" ELSE "offline"]
            PROVE  session' \in SessionType
        <4>1. l \in Seq(Ids)
          BY <1>1, OfflineSorted
        <4>2. (IF l = <<>> THEN "loop" ELSE "offline") \in Phases
          BY DEF Phases
        <4>3. QED BY <1>2, <3>2, <4>1, <4>2, SessionQueues DEF Queueing
      <3>3. QED BY <1>13, <3>1, <3>2 DEF ReadOffline
    <2>2. faults' \in 0..MaxFaults
      BY <1>1, <1>2, <1>13, FaultType DEF ReadOffline
    <2>3. QED BY <1>1, <1>3, <1>4, <1>5, <1>13, <2>1, <2>2
              DEF ReadOffline, RestType, CometType
  <1>14. CASE SendOffline
    <2>1. session.msgs # <<>> /\ session.worker \in Workers
      BY <1>14 DEF SendOffline, IInv, SessionOK
    <2>2. Head(session.msgs) \in Ids /\ Tail(session.msgs) \in Seq(Ids)
      BY <1>6, <2>1, TailFacts
    <2>3. QType'
      BY <1>2, <1>14, <2>1, <2>2, AddsFacts, JobValues DEF SendOffline, Adds
    <2>4. session' \in SessionType
      <3>1. (IF Len(session.msgs) = 1 THEN "loop" ELSE "offline") \in Phases
        BY DEF Phases
      <3>2. QED BY <1>2, <1>14, <2>2, <3>1, SessionQueues DEF SendOffline, Queueing
    <2>5. QED BY <1>1, <1>3, <1>4, <1>14, <2>3, <2>4
              DEF SendOffline, RestType, CometType
  <1>15. ASSUME NEW m \in Ids, PushReply(m)
         PROVE  TypeOK'
    <2>1. session.worker \in Workers
      BY <1>15 DEF PushReply, IInv, SessionOK
    <2>2. QType'
      <3> DEFINE j == [kind |-> "update", id |-> m, live |-> TRUE]
      <3>1. j \in JobType
        BY JobValues
      <3>2. Adds(session.worker, j) /\ HasRoom(session.worker)
        BY <1>15 DEF PushReply, Adds
      <3> HIDE DEF j
      <3>3. QED BY <1>2, <2>1, <3>1, <3>2, AddsFacts
    <2>3. session' \in SessionType
      BY <1>2, <1>15, SessionMarks, Bounds DEF PushReply
    <2>4. QED BY <1>1, <1>3, <1>4, <1>15, <2>2, <2>3
              DEF PushReply, RestType, CometType
  <1>16. CASE DelApp
    <2>1. session' \in SessionType /\ consumer' \in ConsumerType
      BY <1>2, <1>16, SessionMoves, ConsumerValues DEF DelApp, Phases
    <2>2. QType'
      BY <1>2, <1>16, EndsFacts DEF DelApp, Ends
    <2>3. QED BY <1>1, <1>3, <1>4, <1>16, <2>1, <2>2 DEF DelApp, RestType, CometType
  <1>17. CASE CloseClient
    BY <1>1, <1>3, <1>4, <1>5, <1>17, NewSessions DEF CloseClient, RestType, CometType
  <1>18. ASSUME NEW w \in Workers, WritePush(w)
         PROVE  TypeOK'
    <2>1. QType' /\ Head(queue[w]).id \in Ids
      BY <1>2, <1>18, TakesFacts, QueueFacts DEF WritePush, Takes
    <2>2. session' \in SessionType
      BY <1>2, <1>18, SessionBreaks DEF WritePush
    <2>3. RestType'
      BY <1>1, <1>18, <2>1 DEF WritePush, RestType
    <2>4. QED BY <1>1, <1>3, <1>4, <1>18, <2>1, <2>2, <2>3 DEF WritePush, CometType
  <1>19. ASSUME NEW w \in Workers, UpdateLast(w)
         PROVE  TypeOK'
    <2>1. QType' /\ Head(queue[w]).id \in Ids
      BY <1>2, <1>19, TakesFacts, QueueFacts DEF UpdateLast, Takes
    <2>2. RedisType' /\ faults' \in 0..MaxFaults
      BY <1>1, <1>2, <1>19, <2>1, FaultType DEF UpdateLast, RedisType
    <2>3. QED BY <1>1, <1>3, <1>19, <2>1, <2>2 DEF UpdateLast, RestType, CometType
  <1>20. CASE CometExit
    <2>1. CometType'
      BY <1>1, <1>2, <1>20, EmptiesFacts, NewSessions, ConsumerValues
         DEF CometExit, Empties, CometType
    <2>2. QED BY <1>1, <1>3, <1>4, <1>20, <2>1 DEF CometExit, RestType
  <1>21. QED BY <1>7, <1>8, <1>9, <1>10, <1>11, <1>12, <1>13, <1>14, <1>15, <1>16,
                <1>17, <1>18, <1>19, <1>20 DEF CometStep

-----------------------------------------------------------------------------
(* What the steps do, field by field.                                      *)
SameSession ==
  /\ session'.worker = session.worker /\ session'.msgs = session.msgs
  /\ session'.reg = session.reg /\ session'.last = session.last
  /\ session'.broken = session.broken

NewSession ==
  /\ session'.pc = "none" /\ session'.msgs = <<>> /\ session'.last = 0
  /\ session' = NoSession

NewConsumer == consumer'.pc = "idle" /\ consumer'.live = FALSE

LEMMA Types ==
  ASSUME TypeOK
  PROVE  /\ consumer \in ConsumerType /\ session \in SessionType /\ QType
         /\ mq \in Seq(Ids) /\ msgBox \in Seq(Ids)
         /\ session.msgs \in Seq(Ids) /\ session.last \in 0..MaxMsg
         /\ session.worker \in Workers \union {None}
         /\ session.pc \in Phases
         /\ consumer.id \in 0..MaxMsg /\ consumer.live \in BOOLEAN
         /\ consumer.pc \in {"idle", "got", "found", "send"}
         /\ dbLast \in 0..MaxMsg /\ dbOffline \subseteq Ids /\ received \subseteq Ids
         /\ dbMsg \subseteq Ids /\ numbered \subseteq Ids
         /\ nextId \in 0..MaxMsg /\ faults \in 0..MaxFaults /\ overtaken \in BOOLEAN
         /\ main.pc \in {"idle", "keep", "publish"} /\ main.id \in 0..MaxMsg
  <1>1. /\ consumer \in ConsumerType /\ session \in SessionType /\ QType
        /\ mq \in Seq(Ids) /\ msgBox \in Seq(Ids)
    BY TypeParts DEF CometType, ApiType
  <1>2. /\ dbLast \in 0..MaxMsg /\ dbOffline \subseteq Ids /\ received \subseteq Ids
        /\ dbMsg \subseteq Ids /\ numbered \subseteq Ids
        /\ nextId \in 0..MaxMsg /\ faults \in 0..MaxFaults /\ overtaken \in BOOLEAN
        /\ main.pc \in {"idle", "keep", "publish"} /\ main.id \in 0..MaxMsg
    BY TypeParts DEF RedisType, RestType, ApiType
  <1>3. QED BY <1>1, <1>2 DEF ConsumerType, SessionType, Phases

LEMMA ConsumeDoes ==
  ASSUME TypeOK, Consume
  PROVE  /\ consumer'.pc = "got" /\ consumer'.id = Head(mq) /\ consumer'.live = FALSE
         /\ mq' = Tail(mq) /\ mq # <<>> /\ Head(mq) \in Ids
  <1>1. mq # <<>> /\ mq \in Seq(Ids) /\ mq' = Tail(mq)
    BY Types DEF Consume
  <1>2. Head(mq) \in Ids /\ Head(mq) \in 0..MaxMsg
    BY <1>1, TailFacts, Bounds
  <1>3. consumer' = Getting(Head(mq))
    BY DEF Consume, Getting
  <1>4. QED BY <1>1, <1>2, <1>3, ConsumerGets

LEMMA LookUpDoes ==
  ASSUME TypeOK, LookUp, SessionOK
  PROVE  /\ consumer.pc = "got" /\ consumer'.live = FALSE
         /\ \/ /\ consumer'.pc = "found" /\ consumer'.id = consumer.id
            \/ /\ consumer'.pc = "idle"
               /\ faults' # 0 \/ ~(consumer.id \in dbMsg /\ InAppMap)
         /\ faults' = faults \/ faults' # 0
  <1>1. consumer.live = FALSE /\ consumer.pc = "got"
    BY Types DEF LookUp, SessionOK
  <1>2. LET d == [consumer EXCEPT !.pc = "found"] IN
        d.pc = "found" /\ d.id = consumer.id /\ d.live = consumer.live
    BY Types, ConsumerValues
  <1>3. ConsumerIdle.pc = "idle" /\ ConsumerIdle.live = FALSE
    BY Types, ConsumerValues
  <1>4. Fault => faults' # 0
    BY FaultType, TypeParts
  <1>5. QED BY <1>1, <1>2, <1>3, <1>4 DEF LookUp

LEMMA GetClientDoes ==
  ASSUME TypeOK, GetClient, SessionOK
  PROVE  /\ consumer.pc = "found"
         /\ \/ session.pc = "none" /\ consumer'.pc = "idle" /\ consumer'.live = FALSE
            \/ /\ session.pc # "none"
               /\ consumer'.pc = "send" /\ consumer'.id = consumer.id
               /\ consumer'.to = session.worker
               /\ consumer'.live = (session.pc # "closing")
  <1> DEFINE b == session.pc # "closing"
  <1>1. consumer \in ConsumerType /\ session.worker \in Workers \union {None}
    BY Types
  <1>2. b \in BOOLEAN
    OBVIOUS
  <1>3. /\ consumer.pc = "found"
        /\ \/ session.pc = "none" /\ consumer' = ConsumerIdle
           \/ session.pc # "none" /\ consumer' = Sending(consumer, session.worker, b)
    BY DEF GetClient, Sending
  <1>4. ConsumerIdle.pc = "idle" /\ ConsumerIdle.live = FALSE
    BY <1>1, ConsumerValues
  <1> HIDE DEF b
  <1>5. LET d == Sending(consumer, session.worker, b) IN
        d.pc = "send" /\ d.id = consumer.id /\ d.to = session.worker /\ d.live = b
    BY <1>1, <1>2, ConsumerSends
  <1>6. QED BY <1>3, <1>4, <1>5 DEF b

LEMMA SendPushDoes ==
  ASSUME TypeOK, SendPush, SessionOK, PublishedStored
  PROVE  /\ consumer.pc = "send" /\ consumer.to \in Workers
         /\ consumer'.pc = "idle" /\ consumer'.live = FALSE
         /\ PushJob(consumer.id, consumer.live) \in JobType
         /\ Adds(consumer.to, PushJob(consumer.id, consumer.live))
         /\ consumer.id \in Ids
         /\ ~overtaken' /\ consumer.live => session.pc = "loop"
  <1>1. consumer.pc = "send" /\ consumer.to \in Workers /\ consumer.id \in Ids
    BY Types DEF SendPush, SessionOK, PublishedStored
  <1>2. consumer' = ConsumerIdle
    BY DEF SendPush
  <1>3. consumer'.pc = "idle" /\ consumer'.live = FALSE
    BY <1>2, Types, ConsumerValues
  <1>4. PushJob(consumer.id, consumer.live) \in JobType
    <2>1. consumer.live \in BOOLEAN
      BY Types
    <2>2. QED BY <1>1, <2>1, JobValues
  <1>5. ~overtaken' /\ consumer.live => session.pc = "loop"
    BY DEF SendPush
  <1>6. Adds(consumer.to, PushJob(consumer.id, consumer.live))
    BY DEF SendPush, Adds
  <1>7. QED BY <1>1, <1>3, <1>4, <1>5, <1>6

LEMMA LoadAppDoes ==
  ASSUME TypeOK, LoadApp
  PROVE  /\ session.pc = "set"
         /\ session'.worker = session.worker /\ session'.msgs = session.msgs
         /\ session'.broken = session.broken
         /\ \/ session'.pc = "read" /\ session'.reg /\ session'.last = dbLast
            \/ /\ session'.pc = "loop" /\ session'.reg = session.reg
               /\ session'.last = session.last /\ faults' # 0
  <1>1. LET t == [session EXCEPT !.pc = "read", !.reg = TRUE, !.last = dbLast] IN
        /\ t.pc = "read" /\ t.reg = TRUE /\ t.last = dbLast
        /\ t.worker = session.worker /\ t.msgs = session.msgs
        /\ t.broken = session.broken
    <2>1. session \in SessionType /\ dbLast \in 0..MaxMsg
      BY Types
    <2>2. QED BY <2>1, SessionReads
  <1>2. LET t == [session EXCEPT !.pc = "loop"] IN
        /\ t.pc = "loop" /\ t.worker = session.worker /\ t.msgs = session.msgs
        /\ t.broken = session.broken /\ t.reg = session.reg /\ t.last = session.last
    <2>1. session \in SessionType /\ "loop" \in Phases
      BY Types DEF Phases
    <2>2. QED BY <2>1, SessionMoves
  <1>3. Fault => faults' # 0
    BY FaultType, TypeParts
  <1>4. QED BY <1>1, <1>2, <1>3 DEF LoadApp

LEMMA ReadOfflineDoes ==
  ASSUME TypeOK, ReadOffline, SessionOK
  PROVE  /\ session.pc = "read" /\ session'.pc \in {"offline", "loop"}
         /\ session'.worker = session.worker /\ session'.last = session.last
         /\ session'.reg = session.reg /\ session'.broken = session.broken
         /\ session'.msgs \in Seq(Ids)
         /\ session'.pc = "offline" <=> session'.msgs # <<>>
         /\ \/ /\ Ascending(session'.msgs)
               /\ ToSet(session'.msgs) = {m \in dbOffline : m > session.last}
            \/ faults' # 0 /\ session'.msgs = <<>>
  <1>1. session.pc = "read" /\ session.msgs = <<>> /\ <<>> \in Seq(Ids)
    <2>1. session.pc = "read"
      BY DEF ReadOffline
    <2>2. QED BY <2>1 DEF SessionOK
  <1>2. ASSUME NEW l \in OfflineMsgs(session.last),
               session' = [session EXCEPT !.msgs = l,
                             !.pc = IF l = <<>> THEN "loop" ELSE "offline"]
        PROVE  /\ session'.pc = (IF l = <<>> THEN "loop" ELSE "offline")
               /\ session'.worker = session.worker /\ session'.last = session.last
               /\ session'.reg = session.reg /\ session'.broken = session.broken
               /\ session'.msgs = l /\ l \in Seq(Ids) /\ Ascending(l)
               /\ ToSet(l) = {m \in dbOffline : m > session.last}
    <2>1. /\ l \in Seq(Ids) /\ Ascending(l)
          /\ ToSet(l) = {m \in dbOffline : m > session.last}
      BY TypeParts, OfflineSorted
    <2> DEFINE x == IF l = <<>> THEN "loop" ELSE "offline"
    <2>2. x \in Phases
      BY DEF Phases
    <2>3. session' = Queueing(session, l, x)
      BY <1>2 DEF Queueing
    <2>4. session \in SessionType
      BY Types
    <2> HIDE DEF x
    <2>5. LET t == Queueing(session, l, x) IN
          /\ t.pc = x /\ t.msgs = l
          /\ t.worker = session.worker /\ t.broken = session.broken
          /\ t.reg = session.reg /\ t.last = session.last
      BY <2>1, <2>2, <2>4, SessionQueues
    <2>6. QED BY <2>1, <2>3, <2>5 DEF x
  <1>3. LET t == [session EXCEPT !.pc = "loop"] IN
        /\ t.pc = "loop" /\ t.worker = session.worker /\ t.msgs = session.msgs
        /\ t.broken = session.broken /\ t.reg = session.reg /\ t.last = session.last
    <2>1. session \in SessionType /\ "loop" \in Phases
      BY Types DEF Phases
    <2>2. QED BY <2>1, SessionMoves
  <1>4. Fault => faults' # 0
    BY FaultType, TypeParts
  <1>5. \/ \E l \in OfflineMsgs(session.last) :
             session' = [session EXCEPT !.msgs = l,
                           !.pc = IF l = <<>> THEN "loop" ELSE "offline"]
        \/ Fault /\ session' = [session EXCEPT !.pc = "loop"]
    BY DEF ReadOffline
  <1>6. CASE Fault /\ session' = [session EXCEPT !.pc = "loop"]
    BY <1>1, <1>3, <1>4, <1>6
  <1>7. CASE \E l \in OfflineMsgs(session.last) :
               session' = [session EXCEPT !.msgs = l,
                             !.pc = IF l = <<>> THEN "loop" ELSE "offline"]
    BY <1>1, <1>2, <1>7
  <1>8. QED BY <1>5, <1>6, <1>7

LEMMA SendOfflineDoes ==
  ASSUME TypeOK, SendOffline, SessionOK
  PROVE  /\ session.pc = "offline" /\ session.msgs # <<>> /\ session.worker \in Workers
         /\ session'.pc \in {"offline", "loop"}
         /\ session'.worker = session.worker /\ session'.last = session.last
         /\ session'.reg = session.reg /\ session'.broken = session.broken
         /\ session'.msgs = Tail(session.msgs)
         /\ session'.pc = "offline" <=> session'.msgs # <<>>
         /\ Head(session.msgs) \in Ids
         /\ PushJob(Head(session.msgs), TRUE) \in JobType
         /\ Adds(session.worker, PushJob(Head(session.msgs), TRUE))
  <1>1. session.pc = "offline" /\ session.msgs # <<>> /\ session.worker \in Workers
    <2>1. session.pc = "offline"
      BY DEF SendOffline
    <2>2. QED BY <2>1 DEF SessionOK
  <1>2. session \in SessionType /\ session.msgs \in Seq(Ids)
    BY Types
  <1>3. /\ Head(session.msgs) \in Ids /\ Tail(session.msgs) \in Seq(Ids)
        /\ Len(session.msgs) = 1 <=> Tail(session.msgs) = <<>>
    BY <1>1, <1>2, TailFacts
  <1>4. PushJob(Head(session.msgs), TRUE) \in JobType
    BY <1>3, JobValues
  <1> DEFINE x == IF Len(session.msgs) = 1 THEN "loop" ELSE "offline"
  <1>5. x \in Phases /\ x \in {"offline", "loop"}
    BY DEF Phases
  <1>6. x = "offline" <=> Tail(session.msgs) # <<>>
    BY <1>3
  <1>7. /\ session' = Queueing(session, Tail(session.msgs), x)
        /\ Adds(session.worker, PushJob(Head(session.msgs), TRUE))
    BY DEF SendOffline, Queueing, Adds
  <1> HIDE DEF x
  <1>8. LET t == Queueing(session, Tail(session.msgs), x) IN
        /\ t.pc = x /\ t.msgs = Tail(session.msgs)
        /\ t.worker = session.worker /\ t.broken = session.broken
        /\ t.reg = session.reg /\ t.last = session.last
    BY <1>2, <1>3, <1>5, SessionQueues
  <1>9. QED BY <1>1, <1>3, <1>4, <1>5, <1>6, <1>7, <1>8

UpdateJob(m) == [kind |-> "update", id |-> m, live |-> TRUE]

LEMMA PushReplyDoes ==
  ASSUME TypeOK, NEW m \in Ids, PushReply(m), SessionOK
  PROVE  /\ session.pc = "loop" /\ session'.pc = "loop" /\ session.worker \in Workers
         /\ session'.worker = session.worker /\ session'.msgs = session.msgs
         /\ session'.reg = session.reg /\ session'.broken = session.broken
         /\ session'.last = m /\ m \in received
         /\ UpdateJob(m) \in JobType
         /\ UpdateJob(m).kind = "update" /\ UpdateJob(m).id = m /\ UpdateJob(m).live = TRUE
         /\ Adds(session.worker, UpdateJob(m))
  <1>1. session.pc = "loop" /\ session.worker \in Workers
    <2>1. session.pc = "loop"
      BY DEF PushReply
    <2>2. QED BY <2>1 DEF SessionOK
  <1>2. session \in SessionType /\ m \in 0..MaxMsg
    BY Types, Bounds
  <1>3. LET t == [session EXCEPT !.last = m] IN
        /\ t.last = m /\ t.pc = session.pc
        /\ t.worker = session.worker /\ t.msgs = session.msgs
        /\ t.broken = session.broken /\ t.reg = session.reg
    BY <1>2, SessionMarks
  <1>4. /\ UpdateJob(m) \in JobType
        /\ UpdateJob(m).kind = "update" /\ UpdateJob(m).id = m /\ UpdateJob(m).live = TRUE
    BY JobValues DEF UpdateJob
  <1>5. Adds(session.worker, UpdateJob(m)) /\ m \in received
    BY DEF PushReply, Adds, UpdateJob
  <1>6. QED BY <1>1, <1>3, <1>4, <1>5 DEF PushReply

LEMMA DelAppDoes ==
  ASSUME TypeOK, DelApp
  PROVE  /\ session.pc = "loop" /\ session'.pc = "closing" /\ SameSession
         /\ consumer'.pc = consumer.pc /\ consumer'.id = consumer.id
         /\ consumer'.to = consumer.to /\ consumer'.live = FALSE
         /\ Ends
  <1>1. session \in SessionType /\ consumer \in ConsumerType /\ "closing" \in Phases
    BY Types DEF Phases
  <1>2. LET t == [session EXCEPT !.pc = "closing"] IN
        /\ t.pc = "closing"
        /\ t.worker = session.worker /\ t.msgs = session.msgs
        /\ t.broken = session.broken /\ t.reg = session.reg /\ t.last = session.last
    BY <1>1, SessionMoves
  <1>3. LET d == [consumer EXCEPT !.live = FALSE] IN
        /\ d.pc = consumer.pc /\ d.id = consumer.id /\ d.to = consumer.to
        /\ d.live = FALSE
    BY <1>1, ConsumerValues
  <1>4. Ends
    BY DEF DelApp, Ends
  <1>5. QED BY <1>2, <1>3, <1>4 DEF DelApp, SameSession

LEMMA CreateClientDoes ==
  ASSUME NEW w \in Workers, CreateClient(w)
  PROVE  /\ session.pc = "none" /\ session'.pc = "set" /\ session'.worker = w
         /\ session'.msgs = <<>> /\ session'.last = 0
         /\ ~session'.reg /\ ~session'.broken
  <1>1. LET t == [NoSession EXCEPT !.pc = "set", !.worker = w] IN
        /\ t.pc = "set" /\ t.worker = w /\ t.msgs = <<>> /\ t.last = 0
        /\ ~t.reg /\ ~t.broken
    BY NewSessions
  <1>2. QED BY <1>1 DEF CreateClient

LEMMA CloseClientDoes ==
  ASSUME CloseClient
  PROVE  session.pc = "closing" /\ NewSession
  BY NewSessions DEF CloseClient, NewSession

LEMMA CometExitDoes ==
  ASSUME TypeOK, CometExit
  PROVE  NewSession /\ NewConsumer /\ Empties
  <1>1. consumer \in ConsumerType
    BY Types
  <1>2. NewConsumer
    BY <1>1, ConsumerValues DEF CometExit, NewConsumer
  <1>3. NewSession
    BY NewSessions DEF CometExit, NewSession
  <1>4. QED BY <1>2, <1>3 DEF CometExit, Empties

LEMMA WritePushDoes ==
  ASSUME TypeOK, NEW w \in Workers, WritePush(w)
  PROVE  /\ Takes(w) /\ 1 \in DOMAIN queue[w]
         /\ queue[w][1].kind = "push" /\ queue[w][1].id \in Ids
         /\ queue[w][1].live \in BOOLEAN
         /\ session'.pc = session.pc
         /\ session'.worker = session.worker /\ session'.msgs = session.msgs
         /\ session'.reg = session.reg /\ session'.last = session.last
         /\ \/ /\ queue[w][1].live /\ ~session.broken /\ session' = session
               /\ received' = received \union {queue[w][1].id}
            \/ /\ queue[w][1].live /\ session'.broken /\ received' = received
            \/ ~queue[w][1].live /\ session' = session /\ received' = received
  <1>1. Takes(w) /\ Head(queue[w]).kind = "push"
    BY DEF WritePush, Takes
  <1>2. QType /\ session \in SessionType
    BY Types
  <1>3. Head(queue[w]) = queue[w][1] /\ 1 \in DOMAIN queue[w]
    BY <1>1, <1>2, TakesFacts
  <1>4. queue[w][1].id \in Ids /\ queue[w][1].live \in BOOLEAN
    BY <1>2, <1>3, QueueFacts
  <1>5. LET t == [session EXCEPT !.broken = TRUE] IN
        /\ t.broken = TRUE /\ t.pc = session.pc
        /\ t.worker = session.worker /\ t.msgs = session.msgs
        /\ t.reg = session.reg /\ t.last = session.last
    BY <1>2, SessionBreaks
  <1>6. \/ /\ queue[w][1].live /\ ~session.broken /\ session' = session
           /\ received' = received \union {queue[w][1].id}
        \/ /\ queue[w][1].live /\ session' = [session EXCEPT !.broken = TRUE]
           /\ received' = received
        \/ ~queue[w][1].live /\ session' = session /\ received' = received
    BY <1>3 DEF WritePush
  <1>7. QED BY <1>1, <1>3, <1>4, <1>5, <1>6

LEMMA UpdateLastDoes ==
  ASSUME TypeOK, NEW w \in Workers, UpdateLast(w)
  PROVE  /\ Takes(w) /\ 1 \in DOMAIN queue[w]
         /\ queue[w][1].kind = "update" /\ queue[w][1].id \in Ids
         /\ dbLast' \in {dbLast, queue[w][1].id}
  <1>1. Takes(w) /\ Head(queue[w]).kind = "update"
    BY DEF UpdateLast, Takes
  <1>2. QType
    BY Types
  <1>3. Head(queue[w]) = queue[w][1] /\ 1 \in DOMAIN queue[w]
    BY <1>1, <1>2, TakesFacts
  <1>4. queue[w][1].id \in Ids
    BY <1>2, <1>3, QueueFacts
  <1>5. dbLast' \in {dbLast, queue[w][1].id}
    BY <1>3 DEF UpdateLast
  <1>6. QED BY <1>1, <1>3, <1>4, <1>5

(* What a step leaves in the queues: jobs that were there, and at most one *)
(* at the end of the queue of w.                                           *)
OldJobs ==
  \A v \in Workers : \A i \in DOMAIN queue'[v] :
    \E k \in DOMAIN queue[v] : queue'[v][i] = queue[v][k]

LEMMA TakesJobs ==
  ASSUME QType, NEW w \in Workers, Takes(w)
  PROVE  OldJobs
  <1> SUFFICES ASSUME NEW v \in Workers, NEW i \in DOMAIN queue'[v]
               PROVE  \E k \in DOMAIN queue[v] : queue'[v][i] = queue[v][k]
    BY DEF OldJobs
  <1>1. CASE v # w
    BY <1>1, TakesFacts
  <1>2. CASE v = w
    <2>1. /\ Len(queue[w]) \in Nat \ {0} /\ DOMAIN queue[w] = 1..Len(queue[w])
          /\ DOMAIN queue'[w] = 1..(Len(queue[w]) - 1)
          /\ \A n \in 1..(Len(queue[w]) - 1) : queue'[w][n] = queue[w][n + 1]
      BY TakesFacts, QueueFacts
    <2>2. i + 1 \in DOMAIN queue[w]
      BY <1>2, <2>1
    <2>3. QED BY <1>2, <2>1, <2>2
  <1>3. QED BY <1>1, <1>2

LEMMA AddsJobs ==
  ASSUME QType, NEW w \in Workers, NEW j \in JobType, Adds(w, j)
  PROVE  /\ \A v \in Workers : \A i \in DOMAIN queue'[v] :
              \/ v = w /\ i = Len(queue[w]) + 1 /\ queue'[v][i] = j
              \/ i \in DOMAIN queue[v] /\ queue'[v][i] = queue[v][i]
         /\ \A v \in Workers : \A i \in DOMAIN queue[v] :
              i \in DOMAIN queue'[v] /\ queue'[v][i] = queue[v][i]
         /\ Len(queue[w]) + 1 \in DOMAIN queue'[w]
         /\ queue'[w][Len(queue[w]) + 1] = j
         /\ \A i \in DOMAIN queue[w] : i < Len(queue[w]) + 1
  <1>1. /\ Len(queue[w]) \in Nat /\ DOMAIN queue[w] = 1..Len(queue[w])
        /\ DOMAIN queue'[w] = 1..(Len(queue[w]) + 1)
        /\ \A i \in 1..Len(queue[w]) : queue'[w][i] = queue[w][i]
        /\ queue'[w][Len(queue[w]) + 1] = j
        /\ \A v \in Workers \ {w} : queue'[v] = queue[v]
    BY AddsFacts, QueueFacts
  <1>2. /\ 1..(Len(queue[w]) + 1) = 1..Len(queue[w]) \union {Len(queue[w]) + 1}
        /\ \A i \in 1..Len(queue[w]) : i < Len(queue[w]) + 1
    BY <1>1
  <1>3. QED BY <1>1, <1>2

-----------------------------------------------------------------------------
(* The parts that concern one component each.                              *)
(* The consumer takes the first id from RabbitMQ, or goes on with the one  *)
(* it has, or forgets it.                                                  *)
ConsumerGoesOn ==
  /\ mq' = mq
  /\ consumer'.pc # "idle" => consumer.pc # "idle" /\ consumer'.id = consumer.id

LEMMA ConsumerMoves ==
  ASSUME TypeOK, SessionOK, PublishedStored, CometStep, ~Consume
  PROVE  ConsumerGoesOn
  <1>1. CASE LookUp
    <2>1. mq' = mq
      BY <1>1 DEF LookUp
    <2>2. QED BY <1>1, <2>1, LookUpDoes DEF ConsumerGoesOn
  <1>2. CASE GetClient
    <2>1. mq' = mq
      BY <1>2 DEF GetClient
    <2>2. QED BY <1>2, <2>1, GetClientDoes DEF ConsumerGoesOn
  <1>3. CASE SendPush
    <2>1. mq' = mq
      BY <1>3 DEF SendPush
    <2>2. QED BY <1>3, <2>1, SendPushDoes DEF ConsumerGoesOn
  <1>4. CASE DelApp
    <2>1. mq' = mq
      BY <1>4 DEF DelApp
    <2>2. QED BY <1>4, <2>1, DelAppDoes DEF ConsumerGoesOn
  <1>5. CASE CometExit
    <2>1. mq' = mq
      BY <1>5 DEF CometExit
    <2>2. QED BY <1>5, <2>1, CometExitDoes DEF ConsumerGoesOn, NewConsumer
  <1>6. CASE \/ \E w \in Workers : CreateClient(w) \/ WritePush(w) \/ UpdateLast(w)
             \/ LoadApp \/ ReadOffline \/ SendOffline \/ CloseClient
             \/ \E m \in Ids : PushReply(m)
    <2>1. mq' = mq /\ consumer' = consumer
      BY <1>6 DEF CreateClient, LoadApp, ReadOffline, SendOffline, PushReply,
                  CloseClient, WritePush, UpdateLast
    <2>2. QED BY <2>1 DEF ConsumerGoesOn
  <1>7. QED BY <1>1, <1>2, <1>3, <1>4, <1>5, <1>6 DEF CometStep

LEMMA StoredStep ==
  ASSUME IInv, Next
  PROVE  PublishedStored' /\ MainStored'
  <1>1. PublishedStored /\ MainStored /\ TypeOK /\ SessionOK
    BY DEF IInv
  <1>2. msgBox \in Seq(Ids) /\ mq \in Seq(Ids) /\ main.id \in 0..MaxMsg
    BY <1>1, Types
  <1>3. ASSUME UNCHANGED <<mq, consumer>>, dbMsg \subseteq dbMsg'
        PROVE  PublishedStored'
    BY <1>1, <1>3 DEF PublishedStored
  <1>4. ASSUME UNCHANGED main, dbMsg \subseteq dbMsg'
        PROVE  MainStored'
    BY <1>1, <1>4 DEF MainStored
  <1>5. MainIdle.pc = "idle"
    BY DEF MainIdle
  <1>6. CASE GetMsgID \/ (\E m \in Ids : PutInBox(m)) \/ StoreFails \/ ApiExit
    <2>1. UNCHANGED <<mq, consumer>> /\ dbMsg \subseteq dbMsg'
      BY <1>6 DEF GetMsgID, PutInBox, StoreFails, ApiExit, redis, cometVars
    <2>2. UNCHANGED main \/ main' = MainIdle
      BY <1>6 DEF GetMsgID, PutInBox, StoreFails, ApiExit
    <2>3. QED BY <1>3, <1>4, <1>5, <2>1, <2>2 DEF MainStored
  <1>7. CASE Store
    <2>1. UNCHANGED <<mq, consumer>> /\ dbMsg \subseteq dbMsg'
      BY <1>7 DEF Store, cometVars
    <2>2. main'.id \in dbMsg'
      BY <1>7 DEF Store
    <2>3. QED BY <1>3, <2>1, <2>2 DEF MainStored
  <1>8. CASE Keep
    <2>1. UNCHANGED <<mq, consumer>> /\ dbMsg \subseteq dbMsg'
      BY <1>8 DEF Keep, cometVars
    <2>2. main'.id = main.id /\ main.pc # "idle"
      BY <1>1, <1>8, MainValues, TypeParts, <1>2 DEF Keep
    <2>3. QED BY <1>1, <1>3, <2>1, <2>2 DEF MainStored
  <1>9. CASE KeepFails \/ PublishFails
    <2>1. UNCHANGED <<mq, consumer, dbMsg>> /\ main' = MainIdle
      BY <1>9 DEF KeepFails, PublishFails, redis, cometVars
    <2>2. QED BY <1>3, <1>5, <2>1 DEF MainStored
  <1>10. CASE Publish
    <2>1. main.id \in dbMsg /\ mq' = Append(mq, main.id) /\ main' = MainIdle
          /\ UNCHANGED <<consumer, dbMsg>>
      BY <1>1, <1>10 DEF Publish, MainStored, redis
    <2>2. main.id \in Ids
      BY <1>1, <2>1, Types
    <2>3. ToSet(mq') = ToSet(mq) \union {main.id}
      BY <1>2, <2>1, <2>2, AppendFacts
    <2>4. QED BY <1>1, <1>5, <2>1, <2>3 DEF PublishedStored, MainStored
  <1>11. CASE CometStep
    <2>1. UNCHANGED <<main, dbMsg>>
      BY <1>11 DEF CometStep, Consume, LookUp, GetClient, SendPush, CreateClient,
                   LoadApp, ReadOffline, SendOffline, PushReply, DelApp, CloseClient,
                   WritePush, UpdateLast, CometExit, apiVars, redis
    <2>2. MainStored'
      BY <1>4, <2>1
    <2>3. CASE Consume
      <3>1. /\ consumer'.id = Head(mq) /\ mq' = Tail(mq)
            /\ mq # <<>> /\ Head(mq) \in Ids
        BY <1>1, <2>3, ConsumeDoes
      <3>2. ToSet(mq) = ToSet(mq') \union {consumer'.id}
        BY <1>2, <3>1, TailFacts
      <3>3. QED BY <1>1, <2>1, <2>2, <3>2 DEF PublishedStored
    <2>4. CASE ~Consume
      BY <1>1, <1>11, <2>1, <2>2, <2>4, ConsumerMoves
         DEF ConsumerGoesOn, PublishedStored
    <2>5. QED BY <2>3, <2>4
  <1>12. QED BY <1>6, <1>7, <1>8, <1>9, <1>10, <1>11 DEF Next, ApiStep

LEMMA ApiKeeps ==
  ASSUME ApiStep
  PROVE  /\ UNCHANGED <<consumer, session, queue, received, dbLast>>
         /\ dbOffline \subseteq dbOffline'
  BY DEF ApiStep, GetMsgID, PutInBox, Store, StoreFails, Keep, KeepFails, Publish,
         PublishFails, ApiExit, redis, cometVars

LEMMA CometKeeps ==
  ASSUME CometStep
  PROVE  UNCHANGED <<nextId, numbered, msgBox, main, dbMsg, dbOffline>>
  BY DEF CometStep, Consume, LookUp, GetClient, SendPush, CreateClient,
         LoadApp, ReadOffline, SendOffline, PushReply, DelApp, CloseClient,
         WritePush, UpdateLast, CometExit, apiVars, redis

LEMMA MarksStep ==
  ASSUME IInv, Next
  PROVE  MarksReceived'
  <1>1. MarksReceived /\ TypeOK /\ SessionOK /\ PublishedStored
    BY DEF IInv
  <1>2. QType
    BY <1>1, Types
  <1> DEFINE OldMarks == \A v \in Workers : \A i \in DOMAIN queue'[v] :
                           queue'[v][i].kind = "update" => queue'[v][i].id \in received
  <1>3. OldJobs => OldMarks
    BY <1>1 DEF MarksReceived, OldJobs
  <1>4. UNCHANGED queue => OldMarks
    BY <1>1 DEF MarksReceived
  <1>5. ASSUME NEW w \in Workers, NEW j \in JobType, Adds(w, j),
               j.kind = "update" => j.id \in received
        PROVE  OldMarks
    BY <1>1, <1>2, <1>5, AddsJobs DEF MarksReceived
  <1>6. ASSUME OldMarks, received \subseteq received',
               dbLast' \in received \union {0}, session'.last \in received \union {0}
        PROVE  MarksReceived'
    BY <1>6 DEF MarksReceived
  <1>7. dbLast \in received \union {0} /\ session.last \in received \union {0}
    BY <1>1 DEF MarksReceived
  <1> HIDE DEF OldMarks
  <1>8. CASE ApiStep
    BY <1>4, <1>6, <1>7, <1>8, ApiKeeps
  <1>9. CASE Consume \/ LookUp \/ GetClient
    BY <1>4, <1>6, <1>7, <1>9 DEF Consume, LookUp, GetClient, redis
  <1>10. CASE SendPush
    <2> DEFINE j == PushJob(consumer.id, consumer.live)
    <2>1. /\ consumer.to \in Workers /\ j \in JobType /\ Adds(consumer.to, j)
      BY <1>1, <1>10, SendPushDoes
    <2>2. j.kind # "update"
      BY DEF PushJob
    <2> HIDE DEF j
    <2>3. QED BY <1>5, <1>6, <1>7, <1>10, <2>1, <2>2 DEF SendPush, redis
  <1>11. ASSUME NEW w \in Workers, CreateClient(w)
         PROVE  MarksReceived'
    BY <1>4, <1>6, <1>7, <1>11, CreateClientDoes DEF CreateClient, redis
  <1>12. CASE LoadApp
    BY <1>1, <1>4, <1>6, <1>7, <1>12, LoadAppDoes DEF LoadApp, redis
  <1>13. CASE ReadOffline
    BY <1>1, <1>4, <1>6, <1>7, <1>13, ReadOfflineDoes DEF ReadOffline, redis
  <1>14. CASE SendOffline
    <2> DEFINE j == PushJob(Head(session.msgs), TRUE)
    <2>1. /\ session.worker \in Workers /\ j \in JobType /\ Adds(session.worker, j)
          /\ session'.last = session.last
      BY <1>1, <1>14, SendOfflineDoes
    <2>2. j.kind # "update"
      BY DEF PushJob
    <2> HIDE DEF j
    <2>3. QED BY <1>5, <1>6, <1>7, <1>14, <2>1, <2>2 DEF SendOffline, redis
  <1>15. ASSUME NEW m \in Ids, PushReply(m)
         PROVE  MarksReceived'
    BY <1>1, <1>5, <1>6, <1>7, <1>15, PushReplyDoes DEF PushReply, redis
  <1>16. CASE DelApp
    <2>1. session'.last = session.last /\ Ends
      BY <1>1, <1>16, DelAppDoes DEF SameSession
    <2>2. OldMarks
      BY <1>1, <1>2, <2>1, EndsFacts DEF OldMarks, MarksReceived
    <2>3. QED BY <1>6, <1>7, <1>16, <2>1, <2>2 DEF DelApp, redis
  <1>17. CASE CloseClient
    BY <1>4, <1>6, <1>7, <1>17, CloseClientDoes DEF CloseClient, redis, NewSession
  <1>18. ASSUME NEW w \in Workers, WritePush(w)
         PROVE  MarksReceived'
    <2>1. Takes(w) /\ received \subseteq received' /\ session'.last = session.last
      BY <1>1, <1>18, WritePushDoes
    <2>2. OldJobs
      BY <1>2, <2>1, TakesJobs
    <2>3. QED BY <1>3, <1>6, <1>7, <1>18, <2>1, <2>2 DEF WritePush, redis
  <1>19. ASSUME NEW w \in Workers, UpdateLast(w)
         PROVE  MarksReceived'
    <2>1. /\ Takes(w) /\ 1 \in DOMAIN queue[w] /\ queue[w][1].kind = "update"
          /\ dbLast' \in {dbLast, queue[w][1].id}
      BY <1>1, <1>19, UpdateLastDoes
    <2>2. OldJobs
      BY <1>2, <2>1, TakesJobs
    <2>3. dbLast' \in received \union {0}
      BY <1>1, <2>1 DEF MarksReceived
    <2>4. QED BY <1>3, <1>6, <1>7, <1>19, <2>2, <2>3 DEF UpdateLast
  <1>20. CASE CometExit
    <2>1. NewSession /\ Empties
      BY <1>1, <1>20, CometExitDoes
    <2>2. OldMarks
      BY <2>1, EmptiesFacts DEF OldMarks
    <2>3. QED BY <1>6, <1>7, <1>20, <2>1, <2>2 DEF CometExit, redis, NewSession
  <1>21. QED BY <1>8, <1>9, <1>10, <1>11, <1>12, <1>13, <1>14, <1>15, <1>16,
                <1>17, <1>18, <1>19, <1>20 DEF Next, CometStep

LEMMA SessionStep ==
  ASSUME IInv, Next
  PROVE  SessionOK'
  <1>1. SessionOK /\ TypeOK /\ PublishedStored
    BY DEF IInv
  <1>2. QType /\ consumer.live \in BOOLEAN
    BY <1>1, Types
  <1> DEFINE OfSession ==
        /\ session.pc = "none" => session = NoSession
        /\ session.pc # "none" => session.worker \in Workers
        /\ session.pc # "offline" => session.msgs = <<>>
        /\ session.pc = "offline" => session.msgs # <<>>
      OfConsumer ==
        /\ consumer.pc = "send" => consumer.to \in Workers
        /\ consumer.live =>
             consumer.pc = "send" /\ Alive /\ consumer.to = session.worker
      OfQueues ==
        \A w \in Workers : \A i \in DOMAIN queue[w] :
          queue[w][i].live => Alive /\ w = session.worker
  <1>3. OfSession /\ OfConsumer /\ OfQueues
    BY <1>1 DEF SessionOK
  <1>4. ASSUME OfSession', OfConsumer', OfQueues'
        PROVE  SessionOK'
    BY <1>4 DEF SessionOK
  <1> DEFINE Stays == session'.worker = session.worker /\ (Alive => Alive')
  <1>5. Stays /\ UNCHANGED consumer => OfConsumer'
    BY <1>3
  <1>6. Stays /\ consumer'.pc # "send" /\ consumer'.live = FALSE => OfConsumer'
    OBVIOUS
  <1>7. Stays /\ UNCHANGED queue => OfQueues'
    BY <1>3
  <1>8. Stays /\ OldJobs => OfQueues'
    BY <1>3 DEF OldJobs
  <1>9. ASSUME NEW w \in Workers, NEW j \in JobType, Adds(w, j), Stays,
               j.live => Alive /\ w = session.worker
        PROVE  OfQueues'
    BY <1>2, <1>3, <1>9, AddsJobs
  <1>10. UNCHANGED session => Stays /\ OfSession'
    BY <1>3 DEF Alive
  <1>11. session'.pc \in {"set", "read", "offline", "loop"} => Alive'
    BY DEF Alive
  <1>12. CASE ApiStep
    <2>1. UNCHANGED <<consumer, session, queue>>
      BY <1>12, ApiKeeps
    <2>2. QED BY <1>4, <1>5, <1>7, <1>10, <2>1
  <1>13. CASE Consume
    <2>1. UNCHANGED <<session, queue>>
      BY <1>13 DEF Consume
    <2>2. consumer'.pc # "send" /\ consumer'.live = FALSE
      BY <1>1, <1>13, ConsumeDoes
    <2>3. QED BY <1>4, <1>6, <1>7, <1>10, <2>1, <2>2
  <1>14. CASE LookUp
    <2>1. UNCHANGED <<session, queue>>
      BY <1>14 DEF LookUp
    <2>2. consumer'.pc # "send" /\ consumer'.live = FALSE
      BY <1>1, <1>14, LookUpDoes
    <2>3. QED BY <1>4, <1>6, <1>7, <1>10, <2>1, <2>2
  <1>15. CASE GetClient
    <2>1. UNCHANGED <<session, queue>>
      BY <1>15 DEF GetClient
    <2>2. \/ consumer'.pc # "send" /\ consumer'.live = FALSE
          \/ /\ session.pc # "none" /\ consumer'.pc = "send"
             /\ consumer'.to = session.worker
             /\ consumer'.live = (session.pc # "closing")
      BY <1>1, <1>15, GetClientDoes
    <2>3. OfConsumer'
      BY <1>3, <1>6, <1>10, <2>1, <2>2 DEF Alive
    <2>4. QED BY <1>4, <1>7, <1>10, <2>1, <2>3
  <1>16. CASE SendPush
    <2>1. UNCHANGED session
      BY <1>16 DEF SendPush
    <2> DEFINE j == PushJob(consumer.id, consumer.live)
    <2>2. /\ consumer'.pc # "send" /\ consumer'.live = FALSE
          /\ consumer.to \in Workers /\ j \in JobType /\ Adds(consumer.to, j)
      BY <1>1, <1>16, SendPushDoes
    <2>3. j.live = consumer.live
      BY DEF PushJob
    <2> HIDE DEF j
    <2>4. j.live => Alive /\ consumer.to = session.worker
      BY <1>3, <2>3
    <2>5. QED BY <1>4, <1>6, <1>9, <1>10, <2>1, <2>2, <2>4
  <1>17. ASSUME NEW w \in Workers, CreateClient(w)
         PROVE  SessionOK'
    <2>1. UNCHANGED <<consumer, queue>>
      BY <1>17 DEF CreateClient
    <2>2. /\ session.pc = "none" /\ session'.pc = "set" /\ session'.worker = w
          /\ session'.msgs = <<>>
      BY <1>17, CreateClientDoes
    <2>3. OfConsumer' /\ OfQueues'
      BY <1>3, <2>1, <2>2 DEF Alive
    <2>4. OfSession'
      BY <2>2
    <2>5. QED BY <1>4, <2>3, <2>4
  <1>18. CASE LoadApp
    <2>1. UNCHANGED <<consumer, queue>>
      BY <1>18 DEF LoadApp
    <2>2. /\ session.pc = "set" /\ session'.pc \in {"read", "loop"}
          /\ session'.worker = session.worker /\ session'.msgs = session.msgs
      BY <1>1, <1>18, LoadAppDoes
    <2>3. OfSession' /\ Stays
      BY <1>3, <1>11, <2>2
    <2>4. QED BY <1>4, <1>5, <1>7, <2>1, <2>3
  <1>19. CASE ReadOffline
    <2>1. UNCHANGED <<consumer, queue>>
      BY <1>19 DEF ReadOffline
    <2>2. /\ session.pc = "read" /\ session'.pc \in {"offline", "loop"}
          /\ session'.worker = session.worker
          /\ session'.pc = "offline" <=> session'.msgs # <<>>
      BY <1>1, <1>19, ReadOfflineDoes
    <2>3. OfSession' /\ Stays
      BY <1>3, <1>11, <2>2
    <2>4. QED BY <1>4, <1>5, <1>7, <2>1, <2>3
  <1>20. CASE SendOffline
    <2>1. UNCHANGED consumer
      BY <1>20 DEF SendOffline
    <2> DEFINE j == PushJob(Head(session.msgs), TRUE)
    <2>2. /\ session.pc = "offline" /\ session'.pc \in {"offline", "loop"}
          /\ session'.worker = session.worker /\ session.worker \in Workers
          /\ session'.pc = "offline" <=> session'.msgs # <<>>
          /\ j \in JobType /\ Adds(session.worker, j)
      BY <1>1, <1>20, SendOfflineDoes
    <2> HIDE DEF j
    <2>3. OfSession' /\ Stays /\ Alive
      BY <1>3, <1>11, <2>2 DEF Alive
    <2>4. QED BY <1>4, <1>5, <1>9, <2>1, <2>2, <2>3
  <1>21. ASSUME NEW m \in Ids, PushReply(m)
         PROVE  SessionOK'
    <2>1. UNCHANGED consumer
      BY <1>21 DEF PushReply
    <2>2. /\ session.pc = "loop" /\ session'.pc = "loop" /\ session.worker \in Workers
          /\ session'.worker = session.worker /\ session'.msgs = session.msgs
          /\ UpdateJob(m) \in JobType /\ Adds(session.worker, UpdateJob(m))
      BY <1>1, <1>21, PushReplyDoes
    <2>3. OfSession' /\ Stays /\ Alive
      BY <1>3, <1>11, <2>2 DEF Alive
    <2>4. QED BY <1>4, <1>5, <1>9, <2>1, <2>2, <2>3
  <1>22. CASE DelApp
    <2>1. /\ session.pc = "loop" /\ session'.pc = "closing" /\ SameSession
          /\ consumer'.pc = consumer.pc /\ consumer'.to = consumer.to
          /\ consumer'.live = FALSE /\ Ends
      BY <1>1, <1>22, DelAppDoes
    <2>2. OfQueues'
      BY <1>2, <2>1, EndsFacts
    <2>3. OfConsumer' /\ OfSession'
      BY <1>3, <2>1 DEF SameSession
    <2>4. QED BY <1>4, <2>2, <2>3
  <1>23. CASE CloseClient
    <2>1. UNCHANGED <<consumer, queue>>
      BY <1>23 DEF CloseClient
    <2>2. session.pc = "closing" /\ NewSession
      BY <1>23, CloseClientDoes
    <2>3. OfConsumer' /\ OfQueues' /\ OfSession'
      BY <1>3, <2>1, <2>2 DEF Alive, NewSession
    <2>4. QED BY <1>4, <2>3
  <1>24. ASSUME NEW w \in Workers, WritePush(w)
         PROVE  SessionOK'
    <2>1. UNCHANGED consumer
      BY <1>24 DEF WritePush
    <2>2. /\ Takes(w) /\ session'.pc = session.pc /\ session'.worker = session.worker
          /\ session'.msgs = session.msgs
          /\ (session' = session \/ queue[w][1].live) /\ 1 \in DOMAIN queue[w]
      BY <1>1, <1>24, WritePushDoes
    <2>3. OldJobs
      BY <1>2, <2>2, TakesJobs
    <2>4. OfSession' /\ Stays
      BY <1>3, <2>2 DEF Alive
    <2>5. QED BY <1>4, <1>5, <1>8, <2>1, <2>3, <2>4
  <1>25. ASSUME NEW w \in Workers, UpdateLast(w)
         PROVE  SessionOK'
    <2>1. UNCHANGED <<consumer, session>>
      BY <1>25 DEF UpdateLast
    <2>2. OldJobs
      BY <1>1, <1>2, <1>25, UpdateLastDoes, TakesJobs
    <2>3. QED BY <1>4, <1>5, <1>8, <1>10, <2>1, <2>2
  <1>26. CASE CometExit
    <2>1. NewSession /\ NewConsumer /\ Empties
      BY <1>1, <1>26, CometExitDoes
    <2>2. OfQueues'
      BY <2>1, EmptiesFacts
    <2>3. OfConsumer' /\ OfSession'
      BY <2>1 DEF NewSession, NewConsumer
    <2>4. QED BY <1>4, <2>2, <2>3
  <1>27. QED BY <1>12, <1>13, <1>14, <1>15, <1>16, <1>17, <1>18, <1>19, <1>20,
                <1>21, <1>22, <1>23, <1>24, <1>25, <1>26 DEF Next, CometStep

-----------------------------------------------------------------------------
(* Faults and overtaking are remembered.                                   *)
LEMMA CalmBefore ==
  ASSUME TypeOK, Next
  PROVE  /\ ~overtaken' => ~overtaken
         /\ faults' = 0 => faults = 0
         /\ Calm' => Calm
  <1>1. faults \in Nat
    BY Types, Bounds
  <1>2. Fault => faults' = faults + 1
    BY DEF Fault
  <1>3. ~overtaken' => ~overtaken
    <2>1. CASE \E m \in Ids : PutInBox(m)
      BY <2>1 DEF PutInBox
    <2>2. CASE SendPush
      BY <2>2 DEF SendPush
    <2>3. CASE ApiStep /\ ~\E m \in Ids : PutInBox(m)
      BY <2>3 DEF ApiStep, GetMsgID, Store, StoreFails, Keep, KeepFails, Publish,
                  PublishFails, ApiExit
    <2>4. CASE CometStep /\ ~SendPush
      BY <2>4 DEF CometStep, Consume, LookUp, GetClient, CreateClient,
                  LoadApp, ReadOffline, SendOffline, PushReply, DelApp, CloseClient,
                  WritePush, UpdateLast, CometExit
    <2>5. QED BY <2>1, <2>2, <2>3, <2>4 DEF Next
  <1>4. faults' = faults \/ faults' = faults + 1
    <2>1. CASE ApiStep
      BY <1>2, <2>1 DEF ApiStep, GetMsgID, PutInBox, Store, StoreFails, Keep,
                        KeepFails, Publish, PublishFails, ApiExit
    <2>2. CASE CometStep
      BY <1>2, <2>2 DEF CometStep, Consume, LookUp, GetClient, SendPush,
                        CreateClient, LoadApp, ReadOffline, SendOffline, PushReply,
                        DelApp, CloseClient, WritePush, UpdateLast, CometExit
    <2>3. QED BY <2>1, <2>2 DEF Next
  <1>5. QED BY <1>1, <1>3, <1>4 DEF Calm

LEMMA SessionCalmStep ==
  ASSUME IInv, Next
  PROVE  SessionCalm'
  <1>1. SessionOK /\ TypeOK /\ PublishedStored /\ SessionCalm
    BY DEF IInv
  <1> SUFFICES ASSUME Calm'
               PROVE  /\ session'.pc \in {"read", "offline", "loop"} => session'.reg
                      /\ \A w \in Workers : \A i \in DOMAIN queue'[w] :
                           queue'[w][i].live => session'.pc \in {"offline", "loop"}
    BY DEF SessionCalm
  <1>2. Calm /\ faults' = 0 /\ ~overtaken'
    BY <1>1, CalmBefore DEF Calm
  <1>3. QType
    BY <1>1, Types
  <1> DEFINE Reg == session.pc \in {"read", "offline", "loop"} => session.reg
             Jobs == \A w \in Workers : \A i \in DOMAIN queue[w] :
                       queue[w][i].live => session.pc \in {"offline", "loop"}
  <1>4. Reg /\ Jobs
    BY <1>1, <1>2 DEF SessionCalm
  <1> DEFINE Stays == session.pc \in {"offline", "loop"} =>
                        session'.pc \in {"offline", "loop"}
  <1>5. Stays /\ UNCHANGED queue => Jobs'
    BY <1>4
  <1>6. Stays /\ OldJobs => Jobs'
    BY <1>4 DEF OldJobs
  <1>7. ASSUME NEW w \in Workers, NEW j \in JobType, Adds(w, j), Stays,
               j.live => session'.pc \in {"offline", "loop"}
        PROVE  Jobs'
    BY <1>3, <1>4, <1>7, AddsJobs
  <1>8. UNCHANGED session => Reg' /\ Stays
    BY <1>4
  <1>9. session'.pc = session.pc /\ session'.reg = session.reg => Reg' /\ Stays
    BY <1>4
  <1> SUFFICES Reg' /\ Jobs'
    OBVIOUS
  <1>10. CASE ApiStep \/ Consume \/ LookUp \/ GetClient
    <2>1. UNCHANGED <<session, queue>>
      BY <1>10, ApiKeeps DEF Consume, LookUp, GetClient
    <2>2. QED BY <1>5, <1>8, <2>1
  <1>11. CASE SendPush
    <2>1. UNCHANGED session
      BY <1>11 DEF SendPush
    <2> DEFINE j == PushJob(consumer.id, consumer.live)
    <2>2. /\ consumer.to \in Workers /\ j \in JobType /\ Adds(consumer.to, j)
          /\ consumer.live => session.pc = "loop"
      BY <1>1, <1>2, <1>11, SendPushDoes
    <2>3. j.live = consumer.live
      BY DEF PushJob
    <2> HIDE DEF j
    <2>4. QED BY <1>7, <1>8, <2>1, <2>2, <2>3
  <1>12. ASSUME NEW w \in Workers, CreateClient(w)
         PROVE  Reg' /\ Jobs'
    <2>1. UNCHANGED queue
      BY <1>12 DEF CreateClient
    <2>2. session.pc = "none" /\ session'.pc = "set"
      BY <1>12, CreateClientDoes
    <2>3. QED BY <1>5, <2>1, <2>2
  <1>13. CASE LoadApp
    <2>1. UNCHANGED queue
      BY <1>13 DEF LoadApp
    <2>2. session.pc = "set" /\ session'.pc = "read" /\ session'.reg
      BY <1>1, <1>2, <1>13, LoadAppDoes
    <2>3. QED BY <1>5, <2>1, <2>2
  <1>14. CASE ReadOffline
    <2>1. UNCHANGED queue
      BY <1>14 DEF ReadOffline
    <2>2. /\ session.pc = "read" /\ session'.pc \in {"offline", "loop"}
          /\ session'.reg = session.reg
      BY <1>1, <1>14, ReadOfflineDoes
    <2>3. QED BY <1>4, <1>5, <2>1, <2>2
  <1>15. CASE SendOffline
    <2> DEFINE j == PushJob(Head(session.msgs), TRUE)
    <2>1. /\ session.pc = "offline" /\ session'.pc \in {"offline", "loop"}
          /\ session'.reg = session.reg /\ session.worker \in Workers
          /\ j \in JobType /\ Adds(session.worker, j)
      BY <1>1, <1>15, SendOfflineDoes
    <2> HIDE DEF j
    <2>2. QED BY <1>4, <1>7, <2>1
  <1>16. ASSUME NEW m \in Ids, PushReply(m)
         PROVE  Reg' /\ Jobs'
    <2>1. /\ session.pc = "loop" /\ session'.pc = "loop" /\ session.worker \in Workers
          /\ session'.reg = session.reg
          /\ UpdateJob(m) \in JobType /\ Adds(session.worker, UpdateJob(m))
      BY <1>1, <1>16, PushReplyDoes
    <2>2. QED BY <1>4, <1>7, <2>1
  <1>17. CASE DelApp
    <2>1. session'.pc = "closing" /\ Ends
      BY <1>1, <1>17, DelAppDoes
    <2>2. Jobs'
      BY <1>3, <2>1, EndsFacts
    <2>3. QED BY <2>1, <2>2
  <1>18. CASE CloseClient
    <2>1. UNCHANGED queue
      BY <1>18 DEF CloseClient
    <2>2. session.pc = "closing" /\ session'.pc = "none"
      BY <1>18, CloseClientDoes DEF NewSession
    <2>3. QED BY <1>5, <2>1, <2>2
  <1>19. ASSUME NEW w \in Workers, WritePush(w)
         PROVE  Reg' /\ Jobs'
    <2>1. Takes(w) /\ session'.pc = session.pc /\ session'.reg = session.reg
      BY <1>1, <1>19, WritePushDoes
    <2>2. OldJobs
      BY <1>3, <2>1, TakesJobs
    <2>3. QED BY <1>6, <1>9, <2>1, <2>2
  <1>20. ASSUME NEW w \in Workers, UpdateLast(w)
         PROVE  Reg' /\ Jobs'
    <2>1. UNCHANGED session
      BY <1>20 DEF UpdateLast
    <2>2. OldJobs
      BY <1>1, <1>3, <1>20, UpdateLastDoes, TakesJobs
    <2>3. QED BY <1>6, <1>8, <2>1, <2>2
  <1>21. CASE CometExit
    <2>1. NewSession /\ Empties
      BY <1>1, <1>21, CometExitDoes
    <2>2. Jobs'
      BY <2>1, EmptiesFacts
    <2>3. QED BY <2>1, <2>2 DEF NewSession
  <1>22. QED BY <1>10, <1>11, <1>12, <1>13, <1>14, <1>15, <1>16, <1>17, <1>18,
                <1>19, <1>20, <1>21 DEF Next, CometStep

-----------------------------------------------------------------------------
(* The ids on their way.                                                   *)
LEMMA QueuedOld ==
  ASSUME OldJobs
  PROVE  Queued' \subseteq Queued
  BY DEF OldJobs, Queued

LEMMA QueuedAdds ==
  ASSUME QType, NEW w \in Workers, NEW j \in JobType, Adds(w, j)
  PROVE  /\ Queued' \subseteq Queued \union {j.id}
         /\ j.kind = "update" => Queued' \subseteq Queued
  BY AddsJobs DEF Queued

(* The comet server moves ids, and invents none.                           *)
LEMMA PassedComet ==
  ASSUME IInv, CometStep
  PROVE  Passed' \subseteq Passed
  <1>1. TypeOK /\ SessionOK /\ PublishedStored
    BY DEF IInv
  <1>2. QType /\ mq \in Seq(Ids) /\ session.msgs \in Seq(Ids)
    BY <1>1, Types
  <1>3. dbOffline' = dbOffline
    BY CometKeeps
  <1>4. ToSet(<<>>) = {}
    BY DEF ToSet
  <1>5. ASSUME received' \subseteq Passed, ToSet(mq') \subseteq Passed,
               ToSet(session'.msgs) \subseteq Passed, Queued' \subseteq Passed,
               InConsumer' \subseteq Passed
        PROVE  Passed' \subseteq Passed
    BY <1>3, <1>5 DEF Passed
  <1>6. /\ received \subseteq Passed /\ ToSet(mq) \subseteq Passed
        /\ ToSet(session.msgs) \subseteq Passed /\ Queued \subseteq Passed
        /\ InConsumer \subseteq Passed /\ dbOffline \subseteq Passed
    BY DEF Passed
  <1>7. UNCHANGED queue => Queued' \subseteq Passed
    BY <1>6 DEF Queued
  <1>8. UNCHANGED consumer => InConsumer' \subseteq Passed
    BY <1>6 DEF InConsumer
  <1>9. ConsumerGoesOn => InConsumer' \subseteq Passed /\ ToSet(mq') \subseteq Passed
    BY <1>6 DEF InConsumer, ConsumerGoesOn
  <1>10. ~Consume => InConsumer' \subseteq Passed /\ ToSet(mq') \subseteq Passed
    BY <1>1, <1>9, ConsumerMoves
  <1>11. CASE Consume
    <2>1. /\ consumer'.id = Head(mq) /\ mq' = Tail(mq) /\ mq # <<>>
          /\ UNCHANGED <<session, queue, received>>
      BY <1>1, <1>11, ConsumeDoes DEF Consume
    <2>2. ToSet(mq) = ToSet(mq') \union {consumer'.id}
      BY <1>2, <2>1, TailFacts
    <2>3. InConsumer' \subseteq Passed /\ ToSet(mq') \subseteq Passed
      BY <1>6, <2>2 DEF InConsumer
    <2>4. QED BY <1>5, <1>6, <1>7, <2>1, <2>3
  <1>12. CASE ~Consume /\ UNCHANGED <<session, queue, received>>
    BY <1>5, <1>6, <1>7, <1>10, <1>12
  <1>13. CASE SendPush /\ ~Consume
    <2> DEFINE j == PushJob(consumer.id, consumer.live)
    <2>1. /\ consumer.to \in Workers /\ j \in JobType /\ Adds(consumer.to, j)
          /\ consumer.pc = "send" /\ UNCHANGED <<session, received>>
      BY <1>1, <1>13, SendPushDoes DEF SendPush
    <2>2. j.id = consumer.id
      BY DEF PushJob
    <2> HIDE DEF j
    <2>3. Queued' \subseteq Queued \union {consumer.id}
      BY <1>2, <2>1, <2>2, QueuedAdds
    <2>4. consumer.id \in InConsumer
      BY <2>1 DEF InConsumer
    <2>5. QED BY <1>5, <1>6, <1>10, <1>13, <2>1, <2>3, <2>4
  <1>14. ASSUME NEW w \in Workers, CreateClient(w), ~Consume
         PROVE  Passed' \subseteq Passed
    <2>1. UNCHANGED <<queue, received>> /\ session'.msgs = <<>>
      BY <1>14, CreateClientDoes DEF CreateClient
    <2>2. QED BY <1>4, <1>5, <1>6, <1>7, <1>10, <1>14, <2>1
  <1>15. CASE LoadApp /\ ~Consume
    <2>1. UNCHANGED <<queue, received>> /\ session'.msgs = session.msgs
      BY <1>1, <1>15, LoadAppDoes DEF LoadApp
    <2>2. QED BY <1>5, <1>6, <1>7, <1>10, <1>15, <2>1
  <1>16. CASE ReadOffline /\ ~Consume
    <2>1. UNCHANGED <<queue, received>>
      BY <1>16 DEF ReadOffline
    <2>2. ToSet(session'.msgs) \subseteq dbOffline
      BY <1>1, <1>4, <1>16, ReadOfflineDoes
    <2>3. QED BY <1>5, <1>6, <1>7, <1>10, <1>16, <2>1, <2>2
  <1>17. CASE SendOffline /\ ~Consume
    <2> DEFINE j == PushJob(Head(session.msgs), TRUE)
    <2>1. /\ session.msgs # <<>> /\ session.worker \in Workers
          /\ session'.msgs = Tail(session.msgs)
          /\ j \in JobType /\ Adds(session.worker, j)
      BY <1>1, <1>17, SendOfflineDoes
    <2>2. j.id = Head(session.msgs)
      BY DEF PushJob
    <2> HIDE DEF j
    <2>3. ToSet(session.msgs) = ToSet(session'.msgs) \union {Head(session.msgs)}
      BY <1>2, <2>1, TailFacts
    <2>4. Queued' \subseteq Queued \union {Head(session.msgs)}
      BY <1>2, <2>1, <2>2, QueuedAdds
    <2>5. received' = received
      BY <1>17 DEF SendOffline
    <2>6. QED BY <1>5, <1>6, <1>10, <1>17, <2>3, <2>4, <2>5
  <1>18. ASSUME NEW m \in Ids, PushReply(m), ~Consume
         PROVE  Passed' \subseteq Passed
    <2>1. /\ session.worker \in Workers /\ session'.msgs = session.msgs
          /\ UpdateJob(m) \in JobType /\ UpdateJob(m).kind = "update"
          /\ Adds(session.worker, UpdateJob(m))
      BY <1>1, <1>18, PushReplyDoes
    <2>2. Queued' \subseteq Queued
      BY <1>2, <2>1, QueuedAdds
    <2>3. received' = received
      BY <1>18 DEF PushReply
    <2>4. QED BY <1>5, <1>6, <1>10, <1>18, <2>1, <2>2, <2>3
  <1>19. CASE DelApp /\ ~Consume
    <2>1. session'.msgs = session.msgs /\ Ends
      BY <1>1, <1>19, DelAppDoes DEF SameSession
    <2>2. Queued' \subseteq Queued
      BY <1>2, <2>1, EndsFacts DEF Queued
    <2>3. received' = received
      BY <1>19 DEF DelApp
    <2>4. QED BY <1>5, <1>6, <1>10, <1>19, <2>1, <2>2, <2>3
  <1>20. CASE CloseClient /\ ~Consume
    <2>1. UNCHANGED <<queue, received>> /\ session'.msgs = <<>>
      BY <1>20, CloseClientDoes DEF CloseClient, NewSession
    <2>2. QED BY <1>4, <1>5, <1>6, <1>7, <1>10, <1>20, <2>1
  <1>21. ASSUME NEW w \in Workers, WritePush(w), ~Consume
         PROVE  Passed' \subseteq Passed
    <2>1. /\ Takes(w) /\ 1 \in DOMAIN queue[w] /\ queue[w][1].kind = "push"
          /\ queue[w][1].id \in Ids /\ session'.msgs = session.msgs
          /\ received' \subseteq received \union {queue[w][1].id}
      BY <1>1, <1>21, WritePushDoes
    <2>2. queue[w][1].id \in Queued
      BY <2>1 DEF Queued
    <2>3. Queued' \subseteq Queued
      BY <1>2, <2>1, TakesJobs, QueuedOld
    <2>4. QED BY <1>5, <1>6, <1>10, <1>21, <2>1, <2>2, <2>3
  <1>22. ASSUME NEW w \in Workers, UpdateLast(w), ~Consume
         PROVE  Passed' \subseteq Passed
    <2>1. Takes(w) /\ UNCHANGED <<session, received>>
      BY <1>1, <1>22, UpdateLastDoes DEF UpdateLast
    <2>2. Queued' \subseteq Queued
      BY <1>2, <2>1, TakesJobs, QueuedOld
    <2>3. QED BY <1>5, <1>6, <1>10, <1>22, <2>1, <2>2
  <1>23. CASE CometExit /\ ~Consume
    <2>1. session'.msgs = <<>> /\ Empties /\ received' = received
      BY <1>1, <1>23, CometExitDoes DEF NewSession, CometExit
    <2>2. Queued' = {}
      BY <2>1, EmptiesFacts DEF Queued
    <2>3. QED BY <1>4, <1>5, <1>6, <1>10, <1>23, <2>1, <2>2
  <1>24. CASE (LookUp \/ GetClient) /\ ~Consume
    <2>1. UNCHANGED <<session, queue, received>>
      BY <1>24 DEF LookUp, GetClient
    <2>2. QED BY <1>12, <1>24, <2>1
  <1>25. QED BY <1>11, <1>13, <1>14, <1>15, <1>16, <1>17, <1>18, <1>19, <1>20,
                <1>21, <1>22, <1>23, <1>24 DEF CometStep

LEMMA PassedApi ==
  ASSUME IInv, ApiStep
  PROVE  /\ Keep \/ KeepFails \/ Publish => Passed' \subseteq Passed \union {main.id}
         /\ ~(Keep \/ KeepFails \/ Publish) => Passed' \subseteq Passed
  <1>1. UNCHANGED <<consumer, session, queue, received>>
    BY ApiKeeps
  <1>2. Queued' = Queued /\ InConsumer' = InConsumer
    BY <1>1 DEF Queued, InConsumer
  <1>3. mq \in Seq(Ids) /\ TypeOK /\ MainStored
    BY Types DEF IInv
  <1>4. CASE Keep \/ KeepFails
    <2>1. dbOffline' \subseteq dbOffline \union {main.id} /\ mq' = mq
      BY <1>4 DEF Keep, KeepFails, cometVars
    <2>2. Passed' \subseteq Passed \union {main.id}
      BY <1>1, <1>2, <2>1 DEF Passed
    <2>3. QED BY <1>4, <2>2
  <1>5. CASE Publish
    <2>1. mq' = Append(mq, main.id) /\ dbOffline' = dbOffline /\ main.pc # "idle"
      BY <1>5 DEF Publish, redis
    <2>2. main.id \in Ids
      BY <1>3, <2>1, Types DEF MainStored
    <2>3. ToSet(mq') = ToSet(mq) \union {main.id}
      BY <1>3, <2>1, <2>2, AppendFacts
    <2>4. Passed' \subseteq Passed \union {main.id}
      BY <1>1, <1>2, <2>1, <2>3 DEF Passed
    <2>5. QED BY <1>5, <2>4
  <1>6. CASE ~(Keep \/ KeepFails \/ Publish)
    <2>1. mq' = mq /\ dbOffline' = dbOffline
      BY <1>6 DEF ApiStep, GetMsgID, PutInBox, Store, StoreFails, PublishFails,
                  ApiExit, redis, cometVars
    <2>2. Passed' = Passed
      BY <1>1, <1>2, <2>1 DEF Passed
    <2>3. QED BY <1>6, <2>2
  <1>7. QED BY <1>4, <1>5, <1>6

LEMMA IdsGivenStep ==
  ASSUME IInv, Next
  PROVE  IdsGiven'
  <1>1. IdsGiven /\ TypeOK
    BY DEF IInv
  <1>2. msgBox \in Seq(Ids) /\ nextId \in Nat
    BY <1>1, Types, Bounds
  <1>3. MainIdle.pc = "idle"
    BY DEF MainIdle
  <1> DEFINE Used == numbered \union ToSet(msgBox) \union InMain \union Passed
  <1>4. Used \subseteq 1..nextId
    BY <1>1 DEF IdsGiven
  <1>5. ASSUME Used' \subseteq Used, nextId' = nextId
        PROVE  IdsGiven'
    BY <1>4, <1>5 DEF IdsGiven
  <1>6. main.pc # "idle" => main.id \in InMain
    BY DEF InMain
  <1>7. CASE CometStep
    <2>1. UNCHANGED <<nextId, numbered, msgBox, main>>
      BY <1>7, CometKeeps
    <2>2. InMain' = InMain
      BY <2>1 DEF InMain
    <2>3. QED BY <1>5, <1>7, <2>1, <2>2, PassedComet
  <1>8. CASE GetMsgID
    <2>1. /\ nextId' = nextId + 1 /\ numbered' = numbered \union {nextId + 1}
          /\ UNCHANGED <<msgBox, main>>
      BY <1>8 DEF GetMsgID
    <2>2. ~(Keep \/ KeepFails \/ Publish)
      BY <1>2, <2>1 DEF Keep, KeepFails, Publish
    <2>3. Passed' \subseteq Passed /\ InMain' = InMain
      BY <1>8, <2>1, <2>2, PassedApi DEF ApiStep, InMain
    <2>4. Used' \subseteq Used \union {nextId + 1}
      BY <2>1, <2>3
    <2>5. 1..nextId \union {nextId + 1} = 1..nextId'
      BY <1>2, <2>1
    <2>6. QED BY <1>4, <2>4, <2>5 DEF IdsGiven
  <1>9. ASSUME NEW m \in Ids, PutInBox(m)
        PROVE  IdsGiven'
    <2>1. /\ m \in numbered /\ numbered' \subseteq numbered
          /\ msgBox' = Append(msgBox, m) /\ UNCHANGED <<nextId, main>>
      BY <1>9 DEF PutInBox
    <2>2. ToSet(msgBox') = ToSet(msgBox) \union {m}
      BY <1>2, <2>1, AppendFacts
    <2>3. ~(Keep \/ KeepFails \/ Publish)
      <3>1. UNCHANGED main /\ main.pc # MainIdle.pc => ~Publish /\ ~Keep /\ ~KeepFails
        BY <1>2, <2>1, AppendFacts DEF Keep, KeepFails, Publish
      <3>2. main.pc = MainIdle.pc => ~Publish /\ ~Keep /\ ~KeepFails
        BY DEF Keep, KeepFails, Publish, MainIdle
      <3>3. QED BY <2>1, <3>1, <3>2
    <2>4. Passed' \subseteq Passed /\ InMain' = InMain
      BY <1>9, <2>1, <2>3, PassedApi DEF ApiStep, InMain
    <2>5. QED BY <1>5, <2>1, <2>2, <2>4
  <1>10. CASE Store \/ StoreFails
    <2>1. /\ msgBox # <<>> /\ msgBox' = Tail(msgBox) /\ main.pc = "idle"
          /\ main' = main \/ main'.id = Head(msgBox)
          /\ UNCHANGED <<nextId, numbered>>
      BY <1>10 DEF Store, StoreFails
    <2>2. ToSet(msgBox) = ToSet(msgBox') \union {Head(msgBox)}
      BY <1>2, <2>1, TailFacts
    <2>3. ~(Keep \/ KeepFails \/ Publish)
      BY <2>1 DEF Keep, KeepFails, Publish
    <2>4. Passed' \subseteq Passed
      BY <1>10, <2>3, PassedApi DEF ApiStep
    <2>5. InMain' \subseteq {Head(msgBox)}
      BY <2>1 DEF InMain
    <2>6. QED BY <1>5, <2>1, <2>2, <2>4, <2>5
  <1>11. CASE Keep \/ KeepFails \/ Publish
    <2>1. /\ UNCHANGED <<nextId, numbered, msgBox>> /\ main.pc # "idle"
          /\ main' = MainIdle \/ main' = [main EXCEPT !.pc = "publish"]
      BY <1>11 DEF Keep, KeepFails, Publish
    <2>2. Passed' \subseteq Passed \union {main.id}
      BY <1>11, PassedApi DEF ApiStep
    <2>3. main'.pc = "idle" \/ main'.id = main.id
      BY <1>1, <1>3, <2>1, MainValues, TypeParts, Types
    <2>4. InMain' \subseteq {main.id}
      BY <2>3 DEF InMain
    <2>5. QED BY <1>5, <1>6, <2>1, <2>2, <2>4
  <1>12. CASE PublishFails
    <2>1. /\ UNCHANGED <<nextId, numbered, msgBox, mq, dbOffline>> /\ main.pc = "publish"
          /\ main' = MainIdle
      BY <1>12 DEF PublishFails, redis, cometVars
    <2>2. Passed' \subseteq Passed \union {main.id}
      BY <1>12, PassedApi DEF ApiStep
    <2>3. InMain' = {}
      BY <1>3, <2>1 DEF InMain
    <2>4. QED BY <1>5, <1>6, <2>1, <2>2, <2>3
  <1>13. CASE ApiExit
    <2>1. /\ numbered' = {} /\ msgBox' = <<>> /\ main' = MainIdle /\ nextId' = nextId
          /\ UNCHANGED <<dbOffline, mq>>
      BY <1>13 DEF ApiExit, redis, cometVars
    <2>2. Passed' \subseteq Passed
      <3>1. UNCHANGED <<consumer, session, queue, received>>
        BY <1>13, ApiKeeps DEF ApiStep
      <3>2. QED BY <2>1, <3>1 DEF Passed, Queued, InConsumer
    <2>3. InMain' = {} /\ ToSet(msgBox') = {}
      BY <1>3, <2>1 DEF InMain, ToSet
    <2>4. QED BY <1>5, <2>1, <2>2, <2>3
  <1>14. QED BY <1>7, <1>8, <1>9, <1>10, <1>11, <1>12, <1>13 DEF Next, ApiStep

LEMMA PassedSame ==
  ASSUME \/ GetMsgID \/ (\E m \in Ids : PutInBox(m)) \/ Store \/ StoreFails
         \/ PublishFails \/ ApiExit
  PROVE  Passed' = Passed /\ mq' = mq /\ InConsumer' = InConsumer /\ consumer' = consumer
  <1>1. ApiStep
    BY DEF ApiStep
  <1>2. mq' = mq /\ dbOffline' = dbOffline
    BY DEF GetMsgID, PutInBox, Store, StoreFails, PublishFails, ApiExit, redis, cometVars
  <1>3. UNCHANGED <<consumer, session, queue, received>>
    BY <1>1, ApiKeeps
  <1>4. QED BY <1>2, <1>3 DEF Passed, Queued, InConsumer

LEMMA IdsOrderedStep ==
  ASSUME IInv, Next
  PROVE  IdsOrdered'
  <1>1. IdsGiven /\ IdsOrdered /\ TypeOK /\ MainStored /\ SessionOK /\ PublishedStored
    BY DEF IInv
  <1>2. msgBox \in Seq(Ids) /\ mq \in Seq(Ids) /\ nextId \in Nat
    BY <1>1, Types, Bounds
  <1>3. MainIdle.pc = "idle"
    BY DEF MainIdle
  <1> DEFINE
        Fresh == \A n \in numbered : \A m \in ToSet(msgBox) \union InMain \union Passed : m < n
        Boxed == \A n \in ToSet(msgBox) : \A m \in InMain \union Passed : m < n
        Mained ==
          /\ main.pc = "keep" => \A m \in Passed : m < main.id
          /\ main.pc = "publish" =>
               /\ \A m \in Passed : m <= main.id
               /\ \A m \in ToSet(mq) : m < main.id
               /\ \A m \in InConsumer : m < main.id
        Mqed == Ascending(mq) /\ \A n \in InConsumer : \A m \in ToSet(mq) : n < m
  <1>4. IdsOrdered <=> (~overtaken => Fresh /\ Boxed /\ Ascending(msgBox) /\ Mained /\ Mqed)
    BY DEF IdsOrdered, InConsumer
  <1>5. IdsOrdered' <=> (~overtaken' => Fresh' /\ Boxed' /\ Ascending(msgBox)'
                                          /\ Mained' /\ Mqed')
    BY DEF IdsOrdered, InConsumer
  <1> SUFFICES ASSUME ~overtaken'
               PROVE  Fresh' /\ Boxed' /\ Ascending(msgBox)' /\ Mained' /\ Mqed'
    BY <1>5
  <1>6. ~overtaken
    BY <1>1, CalmBefore
  <1>7. Fresh /\ Boxed /\ Ascending(msgBox) /\ Mained /\ Mqed
    BY <1>1, <1>4, <1>6
  <1>8. /\ numbered \subseteq 1..nextId /\ ToSet(msgBox) \subseteq 1..nextId
        /\ InMain \subseteq 1..nextId /\ Passed \subseteq 1..nextId
    BY <1>1 DEF IdsGiven
  <1>9. ToSet(mq) \subseteq Passed /\ InConsumer \subseteq Passed
    BY DEF Passed
  <1>10. main.pc # "idle" => InMain = {main.id} /\ main.id \in 1..nextId
    BY <1>8 DEF InMain
  <1>11. Ascending(mq)' = Ascending(mq') /\ Ascending(msgBox)' = Ascending(msgBox')
    BY DEF Ascending
  <1>12. CASE CometStep
    <2>1. UNCHANGED <<numbered, msgBox, main>> /\ InMain' = InMain
      BY <1>12, CometKeeps DEF InMain
    <2>2. Passed' \subseteq Passed
      BY <1>12, PassedComet
    <2>3. ToSet(mq') \union InConsumer' \subseteq ToSet(mq) \union InConsumer /\ Mqed'
      <3>1. CASE Consume
        <4>1. /\ consumer'.id = Head(mq) /\ mq' = Tail(mq) /\ mq # <<>>
          BY <1>1, <3>1, ConsumeDoes
        <4>2. ToSet(mq) = ToSet(mq') \union {Head(mq)}
          BY <1>2, <4>1, TailFacts
        <4>3. InConsumer' \subseteq {Head(mq)}
          BY <4>1 DEF InConsumer
        <4>4. Ascending(mq') /\ \A m \in ToSet(mq') : Head(mq) < m
          BY <1>2, <1>7, <4>1, AscendingTail
        <4>5. QED BY <1>11, <4>2, <4>3, <4>4
      <3>2. CASE ~Consume
        <4>1. mq' = mq /\ InConsumer' \subseteq InConsumer
          BY <1>1, <1>12, <3>2, ConsumerMoves DEF ConsumerGoesOn, InConsumer
        <4>2. QED BY <1>7, <1>11, <4>1
      <3>3. QED BY <3>1, <3>2
    <2>4. Fresh' /\ Boxed' /\ Ascending(msgBox)'
      BY <1>7, <1>11, <2>1, <2>2
    <2>5. Mained'
      BY <1>7, <2>1, <2>2, <2>3
    <2>6. QED BY <2>3, <2>4, <2>5
  <1>13. CASE GetMsgID
    <2>1. /\ numbered' = numbered \union {nextId + 1}
          /\ UNCHANGED <<msgBox, main>>
      BY <1>13 DEF GetMsgID
    <2>2. /\ Passed' = Passed /\ mq' = mq /\ InConsumer' = InConsumer
          /\ InMain' = InMain
      BY <1>13, <2>1, PassedSame DEF InMain
    <2>3. \A m \in ToSet(msgBox) \union InMain \union Passed : m < nextId + 1
      <3>1. \A m \in 1..nextId : m < nextId + 1
        BY <1>2
      <3>2. QED BY <1>8, <3>1
    <2>4. Fresh'
      BY <1>7, <2>1, <2>2, <2>3
    <2>5. QED BY <1>7, <1>11, <2>1, <2>2, <2>4
  <1>14. ASSUME NEW k \in Ids, PutInBox(k)
         PROVE  Fresh' /\ Boxed' /\ Ascending(msgBox)' /\ Mained' /\ Mqed'
    <2>1. /\ k \in numbered /\ numbered' = numbered \ {k}
          /\ msgBox' = Append(msgBox, k) /\ UNCHANGED main
          /\ \A n \in numbered : ~(n < k)
      BY <1>14 DEF PutInBox
    <2>2. /\ Passed' = Passed /\ mq' = mq /\ InConsumer' = InConsumer
          /\ InMain' = InMain
      BY <1>14, <2>1, PassedSame DEF InMain
    <2>3. ToSet(msgBox') = ToSet(msgBox) \union {k}
      BY <1>2, <2>1, AppendFacts
    <2>4. \A n \in numbered' : k < n
      BY <1>8, <2>1
    <2>5. \A m \in ToSet(msgBox) \union InMain \union Passed : m < k
      BY <1>7, <2>1
    <2>6. Ascending(msgBox')
      BY <1>2, <1>7, <2>1, <2>5, AscendingAppend
    <2>7. Fresh'
      BY <1>7, <2>1, <2>2, <2>3, <2>4
    <2>8. Boxed'
      BY <1>7, <2>1, <2>2, <2>3, <2>5
    <2>9. QED BY <1>7, <1>11, <2>1, <2>2, <2>6, <2>7, <2>8
  <1>15. CASE Store \/ StoreFails
    <2>1. /\ msgBox # <<>> /\ msgBox' = Tail(msgBox)
          /\ UNCHANGED numbered
          /\ main.pc = "idle"
          /\ \/ main' = main
             \/ main'.id = Head(msgBox) /\ main'.pc \in {"keep", "publish"}
      BY <1>15 DEF Store, StoreFails
    <2>2. /\ Passed' = Passed /\ mq' = mq /\ InConsumer' = InConsumer
      BY <1>15, PassedSame
    <2>3. ToSet(msgBox) = ToSet(msgBox') \union {Head(msgBox)}
      BY <1>2, <2>1, TailFacts
    <2>4. InMain' \subseteq {Head(msgBox)}
      BY <2>1 DEF InMain
    <2>5. Ascending(msgBox') /\ \A m \in ToSet(msgBox') : Head(msgBox) < m
      BY <1>2, <1>7, <2>1, AscendingTail
    <2>6. \A m \in Passed : m < Head(msgBox)
      BY <1>7, <2>3
    <2>7. Fresh'
      BY <1>7, <2>1, <2>2, <2>3, <2>4
    <2>8. Boxed'
      BY <1>7, <2>2, <2>3, <2>4, <2>5
    <2>9. Mained'
      <3>1. \A m \in Passed : m <= Head(msgBox)
        <4>1. Head(msgBox) \in Nat /\ Passed \subseteq Nat
          BY <1>8, <2>3
        <4>2. QED BY <2>6, <4>1
      <3>2. CASE main' = main
        BY <2>1, <3>2
      <3>3. CASE main'.id = Head(msgBox)
        BY <1>9, <2>2, <2>6, <3>1, <3>3
      <3>4. QED BY <2>1, <3>2, <3>3
    <2>10. QED BY <1>7, <1>11, <2>2, <2>5, <2>7, <2>8, <2>9
  <1>16. CASE Keep \/ KeepFails
    <2>1. /\ main.pc = "keep" /\ UNCHANGED <<numbered, msgBox, mq, consumer>>
          /\ main' = MainIdle \/ main' = [main EXCEPT !.pc = "publish"]
      BY <1>16 DEF Keep, KeepFails, cometVars
    <2>2. Passed' \subseteq Passed \union {main.id} /\ InConsumer' = InConsumer
      BY <1>16, <2>1, PassedApi DEF ApiStep, InConsumer
    <2>3. main'.pc = "idle" \/ (main'.pc = "publish" /\ main'.id = main.id)
      <3>1. ApiType /\ main.id \in 0..MaxMsg
        BY <1>1, TypeParts, Types
      <3>2. LET n == [main EXCEPT !.pc = "publish"] IN
            n.pc = "publish" /\ n.id = main.id
        BY <3>1, MainValues
      <3>3. CASE main' = MainIdle
        BY <1>3, <3>3
      <3>4. CASE main' = [main EXCEPT !.pc = "publish"]
        BY <3>2, <3>4
      <3>5. QED BY <2>1, <3>3, <3>4
    <2>4. InMain' \subseteq InMain /\ InMain = {main.id}
      BY <1>10, <2>1, <2>3 DEF InMain
    <2>5. Fresh' /\ Boxed'
      BY <1>7, <2>1, <2>2, <2>4
    <2>6. \A m \in Passed : m < main.id
      BY <1>7, <2>1
    <2>7. \A m \in Passed \union {main.id} : m <= main.id
      <3>1. main.id \in Nat /\ Passed \subseteq Nat
        BY <1>8, <1>10, <2>1
      <3>2. QED BY <2>6, <3>1
    <2>8. Mained'
      BY <1>9, <2>1, <2>2, <2>3, <2>6, <2>7
    <2>9. QED BY <1>7, <1>11, <2>1, <2>2, <2>5, <2>8
  <1>17. CASE Publish
    <2>1. /\ main.pc = "publish" /\ UNCHANGED <<numbered, msgBox, consumer>>
          /\ main' = MainIdle /\ mq' = Append(mq, main.id)
      BY <1>17 DEF Publish
    <2>2. Passed' \subseteq Passed \union {main.id} /\ InConsumer' = InConsumer
      BY <1>17, <2>1, PassedApi DEF ApiStep, InConsumer
    <2>3. InMain' = {} /\ InMain = {main.id}
      BY <1>3, <1>10, <2>1 DEF InMain
    <2>4. main.id \in Ids
      BY <1>1, <2>1, Types DEF MainStored
    <2>5. ToSet(mq') = ToSet(mq) \union {main.id}
      BY <1>2, <2>1, <2>4, AppendFacts
    <2>6. Ascending(mq')
      BY <1>2, <1>7, <2>1, <2>4, AscendingAppend
    <2>7. Mqed'
      BY <1>7, <1>11, <2>1, <2>2, <2>5, <2>6
    <2>8. Fresh' /\ Boxed'
      BY <1>7, <2>1, <2>2, <2>3
    <2>9. QED BY <1>3, <1>7, <1>11, <2>1, <2>7, <2>8
  <1>18. CASE PublishFails
    <2>1. UNCHANGED <<numbered, msgBox>> /\ main' = MainIdle
      BY <1>18 DEF PublishFails
    <2>2. Passed' = Passed /\ mq' = mq /\ InConsumer' = InConsumer
      BY <1>18, PassedSame
    <2>3. InMain' = {}
      BY <1>3, <2>1 DEF InMain
    <2>4. QED BY <1>3, <1>7, <1>11, <2>1, <2>2, <2>3
  <1>19. CASE ApiExit
    <2>1. numbered' = {} /\ msgBox' = <<>> /\ main' = MainIdle
      BY <1>19 DEF ApiExit
    <2>2. Passed' = Passed /\ mq' = mq /\ InConsumer' = InConsumer
      BY <1>19, PassedSame
    <2>3. InMain' = {} /\ ToSet(msgBox') = {} /\ Ascending(msgBox')
      BY <1>3, <2>1 DEF InMain, ToSet, Ascending
    <2>4. QED BY <1>3, <1>7, <1>11, <2>1, <2>2, <2>3
  <1>20. QED BY <1>12, <1>13, <1>14, <1>15, <1>16, <1>17, <1>18, <1>19
             DEF Next, ApiStep

-----------------------------------------------------------------------------
(* Live pushes, and what the device has not got.                           *)
LEMMA MissingStep ==
  ASSUME IInv, Next, Calm'
  PROVE  /\ ~Keep => Missing' \subseteq Missing
         /\ Keep => Missing' \subseteq Missing \union {main.id}
         /\ \A k \in Missing' : k \in Ids /\ k \notin received'
  <1>1. TypeOK
    BY DEF IInv
  <1>2. faults' = 0
    BY DEF Calm
  <1>3. ~(Fault)
    BY <1>1, <1>2, FaultType, TypeParts
  <1>4. dbOffline' \subseteq Ids
    <2>1. CASE ApiStep
      BY <2>1, ApiStepType DEF TypeOK
    <2>2. CASE CometStep
      BY <1>1, <2>2, CometKeeps, Types
    <2>3. QED BY <2>1, <2>2 DEF Next
  <1>5. CASE CometStep /\ ~Keep
    <2>1. received \subseteq received'
      <3>1. CASE \E w \in Workers : WritePush(w)
        BY <1>1, <3>1, WritePushDoes
      <3>2. CASE ~\E w \in Workers : WritePush(w)
        BY <1>5, <3>2 DEF CometStep, Consume, LookUp, GetClient, SendPush,
             CreateClient, LoadApp, ReadOffline, SendOffline, PushReply, DelApp,
             CloseClient, UpdateLast, CometExit
      <3>3. QED BY <3>1, <3>2
    <2>2. QED BY <1>4, <1>5, <2>1, CometKeeps DEF Missing
  <1>6. CASE ApiStep /\ ~Keep
    <2>1. dbOffline' = dbOffline
      BY <1>3, <1>6 DEF ApiStep, GetMsgID, PutInBox, Store, StoreFails, KeepFails,
           Publish, PublishFails, ApiExit, redis
    <2>2. QED BY <1>4, <1>6, <2>1, ApiKeeps DEF Missing
  <1>7. CASE Keep
    <2>1. dbOffline' = dbOffline \union {main.id} /\ received' = received
      BY <1>7 DEF Keep
    <2>2. QED BY <1>4, <1>7, <2>1 DEF Missing
  <1>8. QED BY <1>5, <1>6, <1>7 DEF Next

LEMMA TakesKeeps ==
  ASSUME QType, NEW w \in Workers, Takes(w), NEW j \in DOMAIN queue[w], j # 1
  PROVE  /\ j - 1 \in DOMAIN queue'[w] /\ queue'[w][j - 1] = queue[w][j]
         /\ \A i \in DOMAIN queue'[w] :
              /\ i + 1 \in DOMAIN queue[w] /\ queue'[w][i] = queue[w][i + 1]
              /\ j < i + 1 => j - 1 < i
  <1>1. /\ Len(queue[w]) \in Nat \ {0} /\ DOMAIN queue[w] = 1..Len(queue[w])
        /\ DOMAIN queue'[w] = 1..(Len(queue[w]) - 1)
        /\ \A n \in 1..(Len(queue[w]) - 1) : queue'[w][n] = queue[w][n + 1]
    BY TakesFacts, QueueFacts
  <1>2. j - 1 \in 1..(Len(queue[w]) - 1) /\ (j - 1) + 1 = j
    BY <1>1
  <1>3. queue'[w][j - 1] = queue[w][j]
    BY <1>1, <1>2
  <1>4. \A i \in 1..(Len(queue[w]) - 1) :
          i + 1 \in 1..Len(queue[w]) /\ (j < i + 1 => j - 1 < i)
    BY <1>1
  <1>5. QED BY <1>1, <1>2, <1>3, <1>4

LEMMA ComingAdds ==
  ASSUME QType, NEW w \in Workers, NEW j \in JobType, Adds(w, j),
         session.worker \in Workers, session'.worker = session.worker
  PROVE  /\ \A k : Coming(k) => Coming(k)'
         /\ \A k : w = session.worker /\ IsPush(j) /\ j.id = k => Coming(k)'
  BY AddsJobs DEF Coming

LEMMA ComingTakes ==
  ASSUME QType, NEW w \in Workers, Takes(w), NEW k, Coming(k),
         session.worker \in Workers, session'.worker = session.worker,
         ~(w = session.worker /\ IsPush(queue[w][1]) /\ queue[w][1].id = k)
  PROVE  Coming(k)'
  <1>1. PICK i \in DOMAIN queue[session.worker] :
               IsPush(queue[session.worker][i]) /\ queue[session.worker][i].id = k
    BY DEF Coming
  <1>2. CASE w = session.worker
    <2>1. i - 1 \in DOMAIN queue'[w] /\ queue'[w][i - 1] = queue[w][i]
      BY <1>1, <1>2, TakesKeeps
    <2>2. QED BY <1>1, <1>2, <2>1 DEF Coming
  <1>3. CASE w # session.worker
    <2>1. queue'[session.worker] = queue[session.worker]
      BY <1>3, TakesFacts
    <2>2. QED BY <1>1, <2>1 DEF Coming
  <1>4. QED BY <1>2, <1>3

LEMMA AddsInOrder ==
  ASSUME QType, NEW w \in Workers, NEW j \in JobType, Adds(w, j),
         QueuesInOrder, Missing' \subseteq Missing,
         IsPush(j) => \A k \in Missing : k < j.id =>
           \E i \in DOMAIN queue[w] : IsPush(queue[w][i]) /\ queue[w][i].id = k
  PROVE  QueuesInOrder'
  <1> SUFFICES ASSUME NEW v \in Workers, NEW i \in DOMAIN queue'[v], NEW k \in Missing',
                      IsPush(queue'[v][i]), k < queue'[v][i].id
               PROVE  \E n \in DOMAIN queue'[v] :
                        n < i /\ IsPush(queue'[v][n]) /\ queue'[v][n].id = k
    BY DEF QueuesInOrder, IsPush
  <1>1. k \in Missing
    OBVIOUS
  <1>2. CASE i \in DOMAIN queue[v] /\ queue'[v][i] = queue[v][i]
    <2>1. PICK n \in DOMAIN queue[v] :
                 n < i /\ IsPush(queue[v][n]) /\ queue[v][n].id = k
      BY <1>1, <1>2 DEF QueuesInOrder
    <2>2. n \in DOMAIN queue'[v] /\ queue'[v][n] = queue[v][n]
      BY AddsJobs
    <2>3. QED BY <2>1, <2>2
  <1>3. CASE v = w /\ i = Len(queue[w]) + 1 /\ queue'[v][i] = j
    <2>1. PICK n \in DOMAIN queue[w] : IsPush(queue[w][n]) /\ queue[w][n].id = k
      BY <1>1, <1>3
    <2>2. n \in DOMAIN queue'[w] /\ queue'[w][n] = queue[w][n] /\ n < i
      BY <1>3, AddsJobs
    <2>3. QED BY <1>3, <2>1, <2>2
  <1>4. QED BY <1>2, <1>3, AddsJobs

LEMMA TakesInOrder ==
  ASSUME QType, NEW w \in Workers, Takes(w),
         QueuesInOrder, Missing' \subseteq Missing,
         IsPush(queue[w][1]) => queue[w][1].id \notin Missing'
  PROVE  QueuesInOrder'
  <1> SUFFICES ASSUME NEW v \in Workers, NEW i \in DOMAIN queue'[v], NEW k \in Missing',
                      IsPush(queue'[v][i]), k < queue'[v][i].id
               PROVE  \E n \in DOMAIN queue'[v] :
                        n < i /\ IsPush(queue'[v][n]) /\ queue'[v][n].id = k
    BY DEF QueuesInOrder, IsPush
  <1>1. k \in Missing
    OBVIOUS
  <1>2. CASE v # w
    <2>1. queue'[v] = queue[v]
      BY <1>2, TakesFacts
    <2>2. QED BY <1>1, <2>1 DEF QueuesInOrder
  <1>3. CASE v = w
    <2>1. i + 1 \in DOMAIN queue[w] /\ queue'[w][i] = queue[w][i + 1]
      <3>1. /\ Len(queue[w]) \in Nat \ {0} /\ DOMAIN queue[w] = 1..Len(queue[w])
            /\ DOMAIN queue'[w] = 1..(Len(queue[w]) - 1)
            /\ \A n \in 1..(Len(queue[w]) - 1) : queue'[w][n] = queue[w][n + 1]
        BY TakesFacts, QueueFacts
      <3>2. QED BY <1>3, <3>1
    <2>2. PICK n \in DOMAIN queue[w] :
                 n < i + 1 /\ IsPush(queue[w][n]) /\ queue[w][n].id = k
      BY <1>1, <1>3, <2>1 DEF QueuesInOrder
    <2>3. n # 1
      BY <2>2
    <2>4. n - 1 \in DOMAIN queue'[w] /\ queue'[w][n - 1] = queue[w][n] /\ n - 1 < i
      BY <1>3, <2>2, <2>3, TakesKeeps
    <2>5. QED BY <1>3, <2>2, <2>4
  <1>4. QED BY <1>2, <1>3

LEMMA ReceivedStep ==
  ASSUME IInv, Next
  PROVE  ReceivedInOrder'
  <1>1. TypeOK /\ SessionOK /\ IdsOrdered /\ SentInOrder /\ ReceivedInOrder
    BY DEF IInv
  <1> SUFFICES ASSUME Calm', NEW m \in received', NEW k \in Missing'
               PROVE  m < k
    BY DEF ReceivedInOrder, Calm
  <1>2. Calm /\ ~overtaken
    BY <1>1, CalmBefore DEF Calm
  <1>3. \A n \in received : \A l \in Missing : n < l
    BY <1>1, <1>2 DEF ReceivedInOrder
  <1>4. k \in Ids /\ k \notin received'
    BY MissingStep
  <1>5. CASE Keep
    <2>1. received' = received /\ main.pc = "keep"
      BY <1>5 DEF Keep
    <2>2. \A n \in received : n < main.id
      BY <1>1, <1>2, <2>1 DEF IdsOrdered, Passed
    <2>3. k \in Missing \union {main.id}
      BY <1>5, MissingStep
    <2>4. QED BY <1>3, <2>1, <2>2, <2>3
  <1>6. CASE ~Keep
    <2>1. k \in Missing
      BY <1>6, MissingStep
    <2>2. CASE m \in received
      BY <1>3, <2>1, <2>2
    <2>3. CASE m \notin received
      <3>1. CASE \E w \in Workers : WritePush(w)
        <4>1. PICK w \in Workers : WritePush(w)
          BY <3>1
        <4>2. /\ 1 \in DOMAIN queue[w] /\ queue[w][1].kind = "push"
              /\ queue[w][1].live /\ ~session.broken /\ m = queue[w][1].id
              /\ queue[w][1].id \in Ids
              /\ received' = received \union {queue[w][1].id}
          BY <1>1, <2>3, <4>1, WritePushDoes
        <4>3. QType
          BY <1>1, Types
        <4>4. \A j \in DOMAIN queue[w] : ~(j < 1)
          BY <4>3, QueueFacts
        <4>5. ~(k < m)
          <5>1. QueuesInOrder /\ IsPush(queue[w][1])
            BY <1>1, <1>2, <4>2 DEF SentInOrder, IsPush
          <5>2. QED BY <2>1, <4>2, <4>4, <5>1 DEF QueuesInOrder
        <4>6. k # m
          BY <1>4, <4>2
        <4>7. m \in Nat /\ k \in Nat
          BY <1>4, <4>2, Bounds
        <4>8. QED BY <4>5, <4>6, <4>7
      <3>2. CASE ~\E w \in Workers : WritePush(w)
        <4>1. received' = received
          <5>1. CASE ApiStep
            BY <5>1, ApiKeeps
          <5>2. CASE CometStep
            BY <3>2, <5>2 DEF CometStep, Consume, LookUp, GetClient, SendPush,
                CreateClient, LoadApp, ReadOffline, SendOffline, PushReply, DelApp,
                CloseClient, UpdateLast, CometExit
          <5>3. QED BY <5>1, <5>2 DEF Next
        <4>2. QED BY <2>3, <4>1
      <3>3. QED BY <3>1, <3>2
    <2>4. QED BY <2>2, <2>3
  <1>7. QED BY <1>5, <1>6

(* What is missing above the mark is all that is missing.                  *)
LEMMA AboveMark ==
  ASSUME IInv, Calm, NEW k \in Missing
  PROVE  session.last < k
  <1>1. k \in Ids /\ session.last \in received \union {0}
    BY Types DEF IInv, Missing, MarksReceived
  <1>2. CASE session.last \in received
    BY <1>2 DEF IInv, ReceivedInOrder
  <1>3. CASE session.last = 0
    BY <1>1, <1>3, Bounds
  <1>4. QED BY <1>1, <1>2, <1>3

LEMMA CoveredStep ==
  ASSUME IInv, Next
  PROVE  Covered'
  <1>1. /\ TypeOK /\ SessionOK /\ PublishedStored /\ SessionCalm /\ Covered
    BY DEF IInv
  <1> SUFFICES ASSUME Calm', session'.pc \in {"offline", "loop"}, ~session'.broken,
                      NEW k \in Missing'
               PROVE  k \in ToSet(session'.msgs) \/ Coming(k)' \/ OnItsWay(k)'
    BY DEF Covered, Calm, Missing
  <1>2. Calm /\ ~overtaken' /\ faults' = 0
    BY <1>1, CalmBefore DEF Calm
  <1>3. ~Fault
    BY <1>1, <1>2, FaultType, TypeParts
  <1>4. QType /\ mq \in Seq(Ids) /\ session.msgs \in Seq(Ids)
    BY <1>1, Types
  <1>5. ASSUME session.pc \in {"offline", "loop"}, ~session.broken, k \in Missing
        PROVE  k \in ToSet(session.msgs) \/ Coming(k) \/ OnItsWay(k)
    BY <1>1, <1>2, <1>5 DEF Covered
  <1>6. session'.pc = session.pc => session.worker \in Workers
    BY <1>1 DEF SessionOK
  <1>7. UNCHANGED <<main, mq, consumer>> /\ OnItsWay(k) => OnItsWay(k)'
    BY DEF OnItsWay
  <1>8. UNCHANGED <<session, queue>> /\ Coming(k) => Coming(k)'
    BY DEF Coming
  <1>9. CASE ApiStep
    <2>1. UNCHANGED <<consumer, session, queue>>
      BY <1>9, ApiKeeps
    <2>2. CASE Keep /\ k \notin Missing
      <3>1. k = main.id /\ main.pc = "keep" /\ main' = [main EXCEPT !.pc = "publish"]
        BY <2>2, MissingStep DEF Keep
      <3>2. ApiType /\ main.id \in 0..MaxMsg
        BY <1>1, TypeParts, Types
      <3>3. LET n == [main EXCEPT !.pc = "publish"] IN
            n.pc = "publish" /\ n.id = main.id
        BY <3>2, MainValues
      <3>4. QED BY <3>1, <3>3 DEF OnItsWay
    <2>3. CASE k \in Missing
      <3>1. k \in ToSet(session.msgs) \/ Coming(k) \/ OnItsWay(k)
        BY <1>5, <2>1, <2>3
      <3>2. CASE Publish
        <4>1. main.pc = "publish" /\ mq' = Append(mq, main.id)
          BY <3>2 DEF Publish
        <4>2. main.id \in Ids
          BY <1>1, <4>1, Types DEF IInv, MainStored
        <4>3. ToSet(mq') = ToSet(mq) \union {main.id}
          BY <1>4, <4>1, <4>2, AppendFacts
        <4>4. OnItsWay(k) => OnItsWay(k)'
          BY <2>1, <4>3 DEF OnItsWay
        <4>5. QED BY <1>8, <2>1, <3>1, <4>4
      <3>3. CASE ~Publish
        <4>1. mq' = mq /\ (main.pc = "publish" => main' = main)
          BY <1>3, <1>9, <3>3 DEF ApiStep, GetMsgID, PutInBox, Store, StoreFails,
               Keep, KeepFails, PublishFails, ApiExit, cometVars
        <4>2. OnItsWay(k) => OnItsWay(k)'
          BY <2>1, <4>1 DEF OnItsWay
        <4>3. QED BY <1>8, <2>1, <3>1, <4>2
      <3>4. QED BY <3>2, <3>3
    <2>4. k \in Missing \/ Keep
      BY MissingStep
    <2>5. QED BY <2>2, <2>3, <2>4
  <1>10. SUFFICES ASSUME CometStep
                  PROVE  k \in ToSet(session'.msgs) \/ Coming(k)' \/ OnItsWay(k)'
    BY <1>9 DEF Next
  <1>11. main' = main
    BY <1>10, CometKeeps
  <1>12. k \in Missing
    <2>1. k \in dbOffline /\ k \notin received'
      BY <1>10, CometKeeps DEF Missing
    <2>2. received \subseteq received'
      <3>1. CASE \E w \in Workers : WritePush(w)
        BY <1>1, <3>1, WritePushDoes
      <3>2. CASE ~\E w \in Workers : WritePush(w)
        BY <1>10, <3>2 DEF CometStep, Consume, LookUp, GetClient, SendPush,
             CreateClient, LoadApp, ReadOffline, SendOffline, PushReply, DelApp,
             CloseClient, UpdateLast, CometExit
      <3>3. QED BY <3>1, <3>2
    <2>3. QED BY <2>1, <2>2 DEF Missing
  <1>13. k \in Ids
    BY <1>1, <1>12, Types DEF Missing
  <1>14. ASSUME UNCHANGED <<session, queue>>, OnItsWay(k) => OnItsWay(k)'
         PROVE  k \in ToSet(session'.msgs) \/ Coming(k)' \/ OnItsWay(k)'
    BY <1>5, <1>8, <1>12, <1>14
  <1>15. CASE Consume
    <2>1. /\ consumer'.pc = "got" /\ consumer'.id = Head(mq) /\ mq' = Tail(mq)
          /\ mq # <<>>
      BY <1>1, <1>15, ConsumeDoes
    <2>2. ToSet(mq) = ToSet(mq') \union {Head(mq)}
      BY <1>4, <2>1, TailFacts
    <2>3. consumer.pc = "idle" /\ UNCHANGED <<session, queue>>
      BY <1>15 DEF Consume
    <2>4. OnItsWay(k) => OnItsWay(k)'
      BY <1>11, <2>1, <2>2, <2>3 DEF OnItsWay
    <2>5. QED BY <1>14, <2>3, <2>4
  <1>16. CASE LookUp
    <2>1. UNCHANGED <<session, queue, mq>>
      BY <1>16 DEF LookUp
    <2>2. InAppMap
      BY <1>1, <1>2, <2>1 DEF InAppMap, SessionCalm
    <2>3. /\ consumer.pc = "got" /\ consumer.id \in dbMsg
      BY <1>1, <1>16, LookUpDoes DEF PublishedStored
    <2>4. consumer'.pc = "found" /\ consumer'.id = consumer.id
      BY <1>1, <1>2, <1>16, <2>2, <2>3, LookUpDoes
    <2>5. OnItsWay(k) => OnItsWay(k)'
      BY <1>11, <2>1, <2>4 DEF OnItsWay
    <2>6. QED BY <1>14, <2>1, <2>5
  <1>17. CASE GetClient
    <2>1. UNCHANGED <<session, queue, mq>>
      BY <1>17 DEF GetClient
    <2>2. consumer'.pc = "send" /\ consumer'.id = consumer.id /\ consumer'.live
      BY <1>1, <1>17, <2>1, GetClientDoes
    <2>3. OnItsWay(k) => OnItsWay(k)'
      BY <1>11, <2>1, <2>2 DEF OnItsWay
    <2>4. QED BY <1>14, <2>1, <2>3
  <1>18. CASE SendPush
    <2> DEFINE j == PushJob(consumer.id, consumer.live)
    <2>1. UNCHANGED <<session, mq>>
      BY <1>18 DEF SendPush
    <2>2. /\ consumer.pc = "send" /\ consumer.to \in Workers /\ j \in JobType
          /\ Adds(consumer.to, j) /\ consumer.id \in Ids
      BY <1>1, <1>18, SendPushDoes
    <2>3. j.kind = "push" /\ j.id = consumer.id /\ j.live = consumer.live
      BY DEF PushJob
    <2> HIDE DEF j
    <2>4. session.worker \in Workers
      BY <1>6, <2>1
    <2>5. Coming(k) => Coming(k)'
      BY <1>4, <2>1, <2>2, <2>4, ComingAdds
    <2>6. CASE consumer.id = k /\ consumer.live
      <3>1. consumer.to = session.worker
        BY <1>1, <2>6 DEF SessionOK
      <3>2. IsPush(j) /\ j.id = k
        BY <2>3, <2>6 DEF IsPush
      <3>3. QED BY <1>4, <2>1, <2>2, <2>4, <3>1, <3>2, ComingAdds
    <2>7. CASE ~(consumer.id = k /\ consumer.live)
      <3>1. OnItsWay(k) => OnItsWay(k)'
        BY <1>11, <2>1, <2>2, <2>7 DEF OnItsWay
      <3>2. QED BY <1>5, <1>12, <2>1, <2>5, <3>1
    <2>8. QED BY <2>6, <2>7
  <1>19. ASSUME NEW w \in Workers, CreateClient(w)
         PROVE  k \in ToSet(session'.msgs) \/ Coming(k)' \/ OnItsWay(k)'
    BY <1>19, CreateClientDoes
  <1>20. CASE LoadApp
    BY <1>1, <1>2, <1>20, LoadAppDoes
  <1>21. CASE ReadOffline
    <2>1. ToSet(session'.msgs) = {m \in dbOffline : m > session.last}
      BY <1>1, <1>2, <1>21, ReadOfflineDoes
    <2>2. session.last < k /\ k \in dbOffline
      BY <1>2, <1>12, AboveMark DEF Missing
    <2>3. k > session.last
      BY <1>1, <1>13, <2>2, Types, Bounds
    <2>4. QED BY <2>1, <2>2, <2>3
  <1>22. CASE SendOffline
    <2> DEFINE j == PushJob(Head(session.msgs), TRUE)
    <2>1. /\ session.pc = "offline" /\ session.msgs # <<>> /\ session.worker \in Workers
          /\ session'.worker = session.worker /\ session'.broken = session.broken
          /\ session'.msgs = Tail(session.msgs)
          /\ j \in JobType /\ Adds(session.worker, j)
      BY <1>1, <1>22, SendOfflineDoes
    <2>2. IsPush(j) /\ j.id = Head(session.msgs)
      BY DEF PushJob, IsPush
    <2> HIDE DEF j
    <2>3. ToSet(session.msgs) = ToSet(session'.msgs) \union {Head(session.msgs)}
      BY <1>4, <2>1, TailFacts
    <2>4. Coming(k) => Coming(k)'
      BY <1>4, <2>1, ComingAdds
    <2>5. k = Head(session.msgs) => Coming(k)'
      BY <1>4, <2>1, <2>2, ComingAdds
    <2>6. OnItsWay(k) => OnItsWay(k)'
      BY <1>7, <1>22 DEF SendOffline, apiVars
    <2>7. k \in ToSet(session.msgs) \/ Coming(k) \/ OnItsWay(k)
      BY <1>5, <1>12, <2>1
    <2>8. QED BY <2>3, <2>4, <2>5, <2>6, <2>7
  <1>23. ASSUME NEW m \in Ids, PushReply(m)
         PROVE  k \in ToSet(session'.msgs) \/ Coming(k)' \/ OnItsWay(k)'
    <2>1. /\ session.pc = "loop" /\ session.worker \in Workers
          /\ session'.worker = session.worker /\ session'.broken = session.broken
          /\ session'.msgs = session.msgs
          /\ UpdateJob(m) \in JobType /\ Adds(session.worker, UpdateJob(m))
      BY <1>1, <1>23, PushReplyDoes
    <2>2. Coming(k) => Coming(k)'
      BY <1>4, <2>1, ComingAdds
    <2>3. OnItsWay(k) => OnItsWay(k)'
      BY <1>7, <1>23 DEF PushReply, apiVars
    <2>4. QED BY <1>5, <1>12, <2>1, <2>2, <2>3
  <1>24. CASE DelApp
    BY <1>1, <1>24, DelAppDoes
  <1>25. CASE CloseClient
    BY <1>25, CloseClientDoes DEF NewSession
  <1>26. ASSUME NEW w \in Workers, WritePush(w)
         PROVE  k \in ToSet(session'.msgs) \/ Coming(k)' \/ OnItsWay(k)'
    <2>1. /\ Takes(w) /\ session'.pc = session.pc
          /\ session'.worker = session.worker /\ session'.msgs = session.msgs
          /\ \/ /\ queue[w][1].live /\ ~session.broken
                /\ received' = received \union {queue[w][1].id}
             \/ queue[w][1].live /\ session'.broken
             \/ ~queue[w][1].live /\ session' = session
      BY <1>1, <1>26, WritePushDoes
    <2>2. ~session.broken /\ session.worker \in Workers
      BY <1>6, <2>1
    <2>3. k \notin received'
      BY DEF Missing
    <2>4. ~(IsPush(queue[w][1]) /\ queue[w][1].id = k)
      BY <2>1, <2>3 DEF IsPush
    <2>5. Coming(k) => Coming(k)'
      BY <1>4, <2>1, <2>2, <2>4, ComingTakes
    <2>6. OnItsWay(k) => OnItsWay(k)'
      BY <1>7, <1>26 DEF WritePush, apiVars
    <2>7. QED BY <1>5, <1>12, <2>1, <2>2, <2>5, <2>6
  <1>27. ASSUME NEW w \in Workers, UpdateLast(w)
         PROVE  k \in ToSet(session'.msgs) \/ Coming(k)' \/ OnItsWay(k)'
    <2>1. Takes(w) /\ queue[w][1].kind = "update" /\ session' = session
      BY <1>1, <1>27, UpdateLastDoes DEF UpdateLast
    <2>2. ~IsPush(queue[w][1]) /\ session.worker \in Workers
      BY <1>6, <2>1 DEF IsPush
    <2>3. Coming(k) => Coming(k)'
      BY <1>4, <2>1, <2>2, ComingTakes
    <2>4. OnItsWay(k) => OnItsWay(k)'
      BY <1>7, <1>27 DEF UpdateLast, apiVars
    <2>5. QED BY <1>5, <1>12, <2>1, <2>3, <2>4
  <1>28. CASE CometExit
    BY <1>1, <1>28, CometExitDoes DEF NewSession
  <1>29. QED BY <1>10, <1>15, <1>16, <1>17, <1>18, <1>19, <1>20, <1>21, <1>22,
                <1>23, <1>24, <1>25, <1>26, <1>27, <1>28 DEF CometStep

LEMMA NoLiveInOrder ==
  ASSUME \A w \in Workers : \A i \in DOMAIN queue'[w] : ~queue'[w][i].live
  PROVE  QueuesInOrder'
  BY DEF QueuesInOrder, IsPush

LEMMA SentApi ==
  ASSUME IInv, ApiStep, Calm', ~session'.broken
  PROVE  MsgsInOrder' /\ QueuesInOrder'
  <1>1. TypeOK /\ IdsOrdered /\ SentInOrder
    BY DEF IInv
  <1>2. Next
    BY DEF Next
  <1>3. Calm /\ ~overtaken
    BY <1>1, <1>2, CalmBefore DEF Calm
  <1>4. UNCHANGED <<consumer, session, queue>>
    BY ApiKeeps
  <1>5. MsgsInOrder /\ QueuesInOrder
    BY <1>1, <1>3, <1>4 DEF SentInOrder
  <1>6. QType /\ session.msgs \in Seq(Ids)
    BY <1>1, Types
  <1>7. CASE ~Keep
    <2>1. Missing' \subseteq Missing
      BY <1>2, <1>7, MissingStep
    <2>2. MsgsInOrder'
      BY <1>4, <1>5, <2>1 DEF MsgsInOrder, Coming, Ascending
    <2>3. QueuesInOrder'
      BY <1>4, <1>5, <2>1 DEF QueuesInOrder
    <2>4. QED BY <2>2, <2>3
  <1>8. CASE Keep
    <2>1. Missing' \subseteq Missing \union {main.id}
      BY <1>2, <1>8, MissingStep
    <2>2. \A m \in Passed : m < main.id
      BY <1>1, <1>3, <1>8 DEF IdsOrdered, Keep
    <2>3. \A m \in ToSet(session.msgs) \union Queued : ~(main.id < m)
      <3>1. Passed \subseteq Nat
        BY Bounds, <1>1 DEF IInv, IdsGiven
      <3>2. main.id \in Nat
        BY <1>1, Types, Bounds
      <3>3. QED BY <2>2, <3>1, <3>2 DEF Passed
    <2>4. MsgsInOrder'
      BY <1>4, <1>5, <2>1, <2>3 DEF MsgsInOrder, Coming, Ascending
    <2>5. QueuesInOrder'
      <3>1. \A w \in Workers : \A i \in DOMAIN queue[w] :
              IsPush(queue[w][i]) => queue[w][i].id \in Queued
        BY <1>6, QueueFacts DEF Queued, IsPush
      <3>2. \A w \in Workers : \A i \in DOMAIN queue[w] :
              IsPush(queue[w][i]) => ~(main.id < queue[w][i].id)
        BY <2>3, <3>1
      <3>3. QED BY <1>4, <1>5, <2>1, <3>2 DEF QueuesInOrder
    <2>6. QED BY <2>4, <2>5
  <1>9. QED BY <1>7, <1>8

LEMMA SentComet ==
  ASSUME IInv, CometStep, Calm', ~session'.broken
  PROVE  MsgsInOrder' /\ QueuesInOrder'
  <1>1. TypeOK /\ SessionOK /\ PublishedStored /\ SessionCalm /\ IdsOrdered
        /\ Covered /\ SentInOrder
    BY DEF IInv
  <1>2. Next /\ ~Keep
    <2>1. Keep => main' # main
      <3>1. Keep => main.pc = "keep" /\ main' = [main EXCEPT !.pc = "publish"]
        BY DEF Keep
      <3>2. ApiType /\ main.id \in 0..MaxMsg
        BY <1>1, TypeParts, Types
      <3>3. LET n == [main EXCEPT !.pc = "publish"] IN n.pc = "publish"
        BY <3>2, MainValues
      <3>4. QED BY <3>1, <3>3
    <2>2. QED BY <2>1, CometKeeps DEF Next
  <1>3. Calm /\ ~overtaken /\ ~overtaken' /\ faults' = 0
    BY <1>1, <1>2, CalmBefore DEF Calm
  <1>4. Missing' \subseteq Missing
    BY <1>2, MissingStep
  <1>5. QType /\ session.msgs \in Seq(Ids) /\ mq \in Seq(Ids)
    BY <1>1, Types
  <1>6. ~session.broken => MsgsInOrder /\ QueuesInOrder
    BY <1>1, <1>3 DEF SentInOrder
  <1>7. \A k \in Missing : k \in Ids
    BY <1>1, Types DEF Missing
  <1>8. ASSUME ~session.broken, UNCHANGED queue
        PROVE  QueuesInOrder'
    BY <1>4, <1>6, <1>8 DEF QueuesInOrder
  <1>9. ASSUME session'.msgs = <<>>
        PROVE  MsgsInOrder'
    BY <1>9 DEF MsgsInOrder, Ascending, ToSet
  <1>10. ASSUME ~session.broken, session'.msgs = session.msgs,
                \A k \in Missing' : Coming(k) => Coming(k)'
         PROVE  MsgsInOrder'
    BY <1>4, <1>6, <1>10 DEF MsgsInOrder, Ascending
  <1>11. ASSUME session'.worker = session.worker, UNCHANGED queue, NEW k, Coming(k)
         PROVE  Coming(k)'
    BY <1>11 DEF Coming
  <1>12. CASE Consume \/ LookUp \/ GetClient
    <2>1. UNCHANGED <<session, queue>>
      BY <1>12 DEF Consume, LookUp, GetClient
    <2>2. QED BY <1>8, <1>10, <1>11, <2>1
  <1>13. CASE SendPush
    <2> DEFINE j == PushJob(consumer.id, consumer.live)
    <2>1. UNCHANGED session
      BY <1>13 DEF SendPush
    <2>2. /\ consumer.pc = "send" /\ consumer.to \in Workers /\ j \in JobType
          /\ Adds(consumer.to, j) /\ consumer.id \in Ids
          /\ consumer.live => session.pc = "loop"
      BY <1>1, <1>3, <1>13, SendPushDoes
    <2>3. j.id = consumer.id /\ (IsPush(j) => consumer.live)
      BY DEF PushJob, IsPush
    <2> HIDE DEF j
    <2>4. consumer.live => consumer.to = session.worker /\ session.worker \in Workers
      BY <1>1, <2>2 DEF SessionOK
    <2>5. ASSUME IsPush(j), NEW k \in Missing, k < j.id
          PROVE  Coming(k) /\ consumer.to = session.worker
      <3>1. session.pc = "loop" /\ consumer.to = session.worker
        BY <2>2, <2>3, <2>4, <2>5
      <3>2. ToSet(session.msgs) = {}
        BY <1>1, <3>1 DEF SessionOK, ToSet
      <3>3. Coming(k) \/ OnItsWay(k)
        BY <1>1, <1>3, <2>1, <3>1, <3>2 DEF Covered
      <3>4. k < consumer.id /\ k \in Nat /\ consumer.id \in Nat
        BY <1>7, <2>2, <2>3, <2>5, Bounds
      <3>5. ASSUME OnItsWay(k)
            PROVE  FALSE
        <4>1. CASE main.pc = "publish" /\ main.id = k
          <5>1. consumer.id < k
            BY <1>1, <1>3, <2>2, <4>1 DEF IdsOrdered
          <5>2. QED BY <3>4, <5>1
        <4>2. CASE k \in ToSet(mq)
          <5>1. consumer.id < k
            BY <1>1, <1>3, <2>2, <4>2 DEF IdsOrdered
          <5>2. QED BY <3>4, <5>1
        <4>3. CASE consumer.id = k
          BY <3>4, <4>3
        <4>4. QED BY <3>5, <4>1, <4>2, <4>3 DEF OnItsWay
      <3>6. QED BY <3>1, <3>3, <3>5
    <2>6. QueuesInOrder'
      <3>1. IsPush(j) => \A k \in Missing : k < j.id =>
              \E i \in DOMAIN queue[consumer.to] :
                IsPush(queue[consumer.to][i]) /\ queue[consumer.to][i].id = k
        BY <2>5 DEF Coming
      <3>2. QueuesInOrder
        BY <1>6, <2>1
      <3>3. QED BY <1>4, <1>5, <2>2, <3>1, <3>2, AddsInOrder
    <2>7. MsgsInOrder'
      <3>1. CASE session.pc = "none"
        BY <1>1, <1>9, <2>1, <3>1 DEF SessionOK
      <3>2. CASE session.pc # "none"
        <4>1. session.worker \in Workers
          BY <1>1, <3>2 DEF SessionOK
        <4>2. QED BY <1>5, <1>10, <2>1, <2>2, <4>1, ComingAdds
      <3>3. QED BY <3>1, <3>2
    <2>8. QED BY <2>6, <2>7
  <1>14. ASSUME NEW w \in Workers, CreateClient(w)
         PROVE  MsgsInOrder' /\ QueuesInOrder'
    <2>1. session.pc = "none" /\ session'.msgs = <<>> /\ UNCHANGED queue
      BY <1>14, CreateClientDoes DEF CreateClient
    <2>2. \A v \in Workers : \A i \in DOMAIN queue'[v] : ~queue'[v][i].live
      BY <1>1, <2>1 DEF SessionOK, Alive
    <2>3. QED BY <1>9, <2>1, <2>2, NoLiveInOrder
  <1>15. CASE LoadApp
    <2>1. /\ session'.worker = session.worker /\ session'.msgs = session.msgs
          /\ session'.broken = session.broken /\ UNCHANGED queue
      BY <1>1, <1>15, LoadAppDoes DEF LoadApp
    <2>2. QED BY <1>8, <1>10, <1>11, <2>1
  <1>16. CASE ReadOffline
    <2>1. /\ session'.broken = session.broken /\ UNCHANGED queue
          /\ Ascending(session'.msgs)
          /\ ToSet(session'.msgs) = {m \in dbOffline : m > session.last}
      BY <1>1, <1>3, <1>16, ReadOfflineDoes DEF ReadOffline
    <2>2. ASSUME NEW k \in Missing
          PROVE  k \in ToSet(session'.msgs)
      <3>1. session.last < k /\ k \in dbOffline
        BY <1>3, <2>2, AboveMark DEF Missing
      <3>2. k > session.last
        BY <1>1, <1>7, <3>1, Types, Bounds
      <3>3. QED BY <2>1, <3>1, <3>2
    <2>3. MsgsInOrder'
      BY <1>4, <2>1, <2>2 DEF MsgsInOrder, Ascending
    <2>4. QED BY <1>8, <2>1, <2>3
  <1>17. CASE SendOffline
    <2> DEFINE h == Head(session.msgs)
               j == PushJob(h, TRUE)
    <2>1. /\ session.pc = "offline" /\ session.msgs # <<>> /\ session.worker \in Workers
          /\ session'.worker = session.worker /\ session'.broken = session.broken
          /\ session'.msgs = Tail(session.msgs)
          /\ j \in JobType /\ Adds(session.worker, j)
      BY <1>1, <1>17, SendOfflineDoes
    <2>2. IsPush(j) /\ j.id = h
      BY DEF PushJob, IsPush
    <2> HIDE DEF j
    <2>3. ToSet(session.msgs) = ToSet(session'.msgs) \union {h} /\ h \in Ids
      BY <1>5, <2>1, TailFacts
    <2> HIDE DEF h
    <2>4. MsgsInOrder /\ QueuesInOrder
      BY <1>6, <2>1
    <2>5. Ascending(session'.msgs) /\ \A m \in ToSet(session'.msgs) : h < m
      BY <1>5, <2>1, <2>4, AscendingTail DEF MsgsInOrder, h
    <2>6. ASSUME NEW k \in Missing
          PROVE  /\ Coming(k) => Coming(k)'
                 /\ k = h => Coming(k)'
      BY <1>5, <2>1, <2>2, ComingAdds
    <2>7. MsgsInOrder'
      <3>1. ASSUME NEW m \in ToSet(session'.msgs), NEW k \in Missing', k < m
            PROVE  k \in ToSet(session'.msgs) \/ Coming(k)'
        <4>1. k \in ToSet(session.msgs) \/ Coming(k)
          BY <1>4, <2>3, <2>4, <3>1 DEF MsgsInOrder
        <4>2. k \in Missing
          BY <1>4
        <4>3. QED BY <2>3, <2>6, <4>1, <4>2
      <3>2. QED BY <2>5, <3>1 DEF MsgsInOrder, Ascending
    <2>8. ASSUME NEW k \in Missing, k < j.id
          PROVE  Coming(k)
      <3>1. k \in ToSet(session.msgs) \/ Coming(k)
        BY <2>2, <2>3, <2>4, <2>8 DEF MsgsInOrder
      <3>2. k \in Nat /\ h \in Nat /\ k < h
        BY <1>7, <2>2, <2>3, <2>8, Bounds
      <3>3. k \notin ToSet(session'.msgs)
        BY <2>5, <3>2
      <3>4. k # h
        BY <3>2
      <3>5. QED BY <2>3, <3>1, <3>3, <3>4
    <2>9. QueuesInOrder'
      <3>1. IsPush(j) => \A k \in Missing : k < j.id =>
              \E i \in DOMAIN queue[session.worker] :
                IsPush(queue[session.worker][i]) /\ queue[session.worker][i].id = k
        BY <2>8 DEF Coming
      <3>2. QED BY <1>4, <1>5, <2>1, <2>4, <3>1, AddsInOrder
    <2>10. QED BY <2>7, <2>9
  <1>18. ASSUME NEW m \in Ids, PushReply(m)
         PROVE  MsgsInOrder' /\ QueuesInOrder'
    <2>1. /\ session.worker \in Workers
          /\ session'.worker = session.worker /\ session'.broken = session.broken
          /\ session'.msgs = session.msgs
          /\ UpdateJob(m) \in JobType /\ Adds(session.worker, UpdateJob(m))
          /\ UpdateJob(m).kind = "update"
      BY <1>1, <1>18, PushReplyDoes
    <2>2. ~IsPush(UpdateJob(m))
      BY <2>1 DEF IsPush
    <2>3. \A k : Coming(k) => Coming(k)'
      BY <1>5, <2>1, ComingAdds
    <2>4. QueuesInOrder'
      BY <1>4, <1>5, <1>6, <2>1, <2>2, AddsInOrder
    <2>5. QED BY <1>10, <2>1, <2>3, <2>4
  <1>19. CASE DelApp
    <2>1. session.pc = "loop" /\ session'.msgs = session.msgs /\ Ends
      BY <1>1, <1>19, DelAppDoes DEF SameSession
    <2>2. session.msgs = <<>>
      BY <1>1, <2>1 DEF SessionOK
    <2>3. \A v \in Workers : \A i \in DOMAIN queue'[v] : ~queue'[v][i].live
      BY <1>5, <2>1, EndsFacts
    <2>4. QED BY <1>9, <2>1, <2>2, <2>3, NoLiveInOrder
  <1>20. CASE CloseClient
    <2>1. session.pc = "closing" /\ session'.msgs = <<>> /\ UNCHANGED queue
      BY <1>20, CloseClientDoes DEF CloseClient, NewSession
    <2>2. \A v \in Workers : \A i \in DOMAIN queue'[v] : ~queue'[v][i].live
      BY <1>1, <2>1 DEF SessionOK, Alive
    <2>3. QED BY <1>9, <2>1, <2>2, NoLiveInOrder
  <1>21. ASSUME NEW w \in Workers, WritePush(w)
         PROVE  MsgsInOrder' /\ QueuesInOrder'
    <2>1. /\ Takes(w) /\ session'.pc = session.pc
          /\ session'.worker = session.worker /\ session'.msgs = session.msgs
          /\ \/ /\ queue[w][1].live /\ ~session.broken
                /\ received' = received \union {queue[w][1].id}
             \/ queue[w][1].live /\ session'.broken
             \/ ~queue[w][1].live /\ session' = session
      BY <1>1, <1>21, WritePushDoes
    <2>2. ~session.broken
      BY <2>1
    <2>3. IsPush(queue[w][1]) => queue[w][1].id \notin Missing'
      BY <2>1 DEF IsPush, Missing
    <2>4. QueuesInOrder'
      BY <1>4, <1>5, <1>6, <2>1, <2>2, <2>3, TakesInOrder
    <2>5. MsgsInOrder'
      <3>1. CASE session.pc = "none"
        BY <1>1, <1>9, <2>1, <3>1 DEF SessionOK
      <3>2. CASE session.pc # "none"
        <4>1. session.worker \in Workers
          BY <1>1, <3>2 DEF SessionOK
        <4>2. ASSUME NEW k \in Missing', Coming(k)
              PROVE  Coming(k)'
          BY <1>5, <2>1, <2>3, <4>1, <4>2, ComingTakes
        <4>3. QED BY <1>10, <2>1, <2>2, <4>2
      <3>3. QED BY <3>1, <3>2
    <2>6. QED BY <2>4, <2>5
  <1>22. ASSUME NEW w \in Workers, UpdateLast(w)
         PROVE  MsgsInOrder' /\ QueuesInOrder'
    <2>1. Takes(w) /\ queue[w][1].kind = "update" /\ session' = session
      BY <1>1, <1>22, UpdateLastDoes DEF UpdateLast
    <2>2. ~IsPush(queue[w][1])
      BY <2>1 DEF IsPush
    <2>3. QueuesInOrder'
      BY <1>4, <1>5, <1>6, <2>1, <2>2, TakesInOrder
    <2>4. MsgsInOrder'
      <3>1. CASE session.pc = "none"
        BY <1>1, <1>9, <2>1, <3>1 DEF SessionOK
      <3>2. CASE session.pc # "none"
        <4>1. session.worker \in Workers
          BY <1>1, <3>2 DEF SessionOK
        <4>2. ASSUME NEW k \in Missing', Coming(k)
              PROVE  Coming(k)'
          BY <1>5, <2>1, <2>2, <4>1, <4>2, ComingTakes
        <4>3. QED BY <1>10, <2>1, <4>2
      <3>3. QED BY <3>1, <3>2
    <2>5. QED BY <2>3, <2>4
  <1>23. CASE CometExit
    <2>1. session'.msgs = <<>> /\ Empties
      BY <1>1, <1>23, CometExitDoes DEF NewSession
    <2>2. \A v \in Workers : \A i \in DOMAIN queue'[v] : ~queue'[v][i].live
      BY <2>1, EmptiesFacts
    <2>3. QED BY <1>9, <2>1, <2>2, NoLiveInOrder
  <1>24. QED BY <1>12, <1>13, <1>14, <1>15, <1>16, <1>17, <1>18, <1>19, <1>20,
                <1>21, <1>22, <1>23 DEF CometStep

-----------------------------------------------------------------------------
(* The invariant.                                                          *)
LEMMA InitInv == Init => IInv
  <1> SUFFICES ASSUME Init
               PROVE  IInv
    OBVIOUS
  <1>1. /\ session = NoSession /\ session.pc = "none" /\ session.msgs = <<>>
        /\ session.last = 0 /\ session \in SessionType
    BY NewSessions DEF Init
  <1>2. /\ consumer.pc = "idle" /\ consumer.live = FALSE
    BY DEF Init, ConsumerIdle
  <1>3. main.pc = "idle" /\ main.id = 0 /\ 0 \in 0..MaxMsg /\ 0 \in 0..MaxFaults
    BY Bounds DEF Init, MainIdle
  <1>4. queue = [w \in Workers |-> <<>>] /\ \A w \in Workers : DOMAIN queue[w] = {}
    BY DEF Init
  <1>5. ToSet(<<>>) = {} /\ <<>> \in Seq(Ids) /\ <<>> \in Seq(JobType) /\ Len(<<>>) = 0
    BY DEF ToSet
  <1>6. TypeOK
    <2>1. ApiType
      BY <1>3, <1>5, Bounds DEF Init, ApiType, MainIdle
    <2>2. RedisType /\ RestType
      BY <1>3 DEF Init, RedisType, RestType
    <2>3. QType
      BY <1>4, <1>5, Bounds DEF QType
    <2>4. consumer \in ConsumerType
      BY <1>3 DEF Init, ConsumerIdle, ConsumerType
    <2>5. CometType
      BY <1>1, <1>5, <2>3, <2>4 DEF Init, CometType
    <2>6. QED BY <2>1, <2>2, <2>5, TypeParts
  <1>7. PublishedStored /\ MainStored /\ MarksReceived
    BY <1>1, <1>2, <1>3, <1>4, <1>5 DEF Init, PublishedStored, MainStored, MarksReceived
  <1>8. SessionOK
    BY <1>1, <1>2, <1>4 DEF SessionOK
  <1>9. /\ Queued = {} /\ InConsumer = {} /\ InMain = {} /\ Passed = {}
        /\ numbered = {} /\ ToSet(msgBox) = {} /\ ToSet(mq) = {}
    BY <1>1, <1>2, <1>3, <1>4, <1>5 DEF Init, Queued, InConsumer, InMain, Passed
  <1>10. IdsGiven /\ IdsOrdered
    BY <1>2, <1>3, <1>9 DEF Init, IdsGiven, IdsOrdered, Ascending
  <1>11. SessionCalm /\ Covered
    BY <1>1, <1>4 DEF SessionCalm, Covered
  <1>12. SentInOrder
    BY <1>1, <1>4, <1>5 DEF SentInOrder, MsgsInOrder, QueuesInOrder, Ascending
  <1>13. ReceivedInOrder
    BY DEF Init, ReceivedInOrder
  <1>14. QED BY <1>6, <1>7, <1>8, <1>10, <1>11, <1>12, <1>13 DEF IInv

LEMMA StutterInv ==
  ASSUME IInv, UNCHANGED vars
  PROVE  IInv'
  <1> USE DEF vars, apiVars, redis, cometVars
  <1>1. ApiType' /\ RedisType' /\ CometType' /\ RestType'
    BY TypeParts DEF IInv, ApiType, RedisType, CometType, RestType, QType
  <1>2. TypeOK'
    BY <1>1, NextTypeParts
  <1>3. PublishedStored' /\ MainStored' /\ MarksReceived' /\ SessionOK'
    BY DEF IInv, PublishedStored, MainStored, MarksReceived, SessionOK, Alive
  <1>4. Passed' = Passed /\ InMain' = InMain /\ InConsumer' = InConsumer
    BY DEF Passed, Queued, InMain, InConsumer
  <1>5. IdsGiven' /\ IdsOrdered'
    BY <1>4 DEF IInv, IdsGiven, IdsOrdered, Ascending
  <1>6. Calm' = Calm /\ Missing' = Missing
    BY DEF Calm, Missing
  <1>7. SessionCalm' /\ Covered' /\ ReceivedInOrder'
    BY <1>6 DEF IInv, SessionCalm, Covered, ReceivedInOrder, Coming, OnItsWay
  <1>8. SentInOrder'
    BY <1>6 DEF IInv, SentInOrder, MsgsInOrder, QueuesInOrder, Coming, Ascending
  <1>9. QED BY <1>2, <1>3, <1>5, <1>7, <1>8 DEF IInv

LEMMA NextInv == IInv /\ [Next]_vars => IInv'
  <1>1. CASE IInv /\ Next
    <2>1. TypeOK'
      BY <1>1, ApiStepType, CometStepType DEF Next
    <2>2. SentInOrder'
      BY <1>1, SentApi, SentComet DEF Next, SentInOrder
    <2>3. QED BY <1>1, <2>1, <2>2, StoredStep, SessionStep, MarksStep, IdsGivenStep,
                 IdsOrderedStep, SessionCalmStep, CoveredStep, ReceivedStep DEF IInv
  <1>2. QED BY <1>1, StutterInv

LEMMA PushInvariant == Spec => []IInv
  BY InitInv, NextInv, PTL DEF Spec

-----------------------------------------------------------------------------
(* The theorems.                                                           *)

(* The variables of the API, the comet server and Redis have the values    *)
(* they are declared with, and no channel exceeds its capacity.            *)
THEOREM PushTypeCorrect == Spec => []TypeOK
  <1>1. IInv => TypeOK
    BY DEF IInv
  <1>2. QED BY <1>1, PushInvariant, PTL

(* The main loop of the API publishes an id only after the message was     *)
(* stored, whatever fails: the comet server finds what it looks up.        *)
THEOREM PublishedStoredHolds == Spec => []PublishedStored
  <1>1. IInv => PublishedStored
    BY DEF IInv
  <1>2. QED BY <1>1, PushInvariant, PTL

(* LastMsgId, wherever it is, is below everything the device has not got,  *)
(* so the next reading of offline messages finds it.                       *)
THEOREM NothingSkippedHolds == Spec => []NothingSkipped
  <1>1. IInv => NothingSkipped
    <2> SUFFICES ASSUME IInv, Calm, NEW m \in Missing
                 PROVE  /\ dbLast < m /\ session.last < m
                        /\ \A w \in Workers : \A i \in DOMAIN queue[w] :
                             queue[w][i].kind = "update" => queue[w][i].id < m
      BY DEF NothingSkipped, Calm, Missing
    <2>1. \A n \in received \union {0} : n < m
      <3>1. m \in Nat \ {0}
        BY Types, Bounds DEF IInv, Missing
      <3>2. \A n \in received : n < m
        BY DEF IInv, ReceivedInOrder
      <3>3. QED BY <3>1, <3>2
    <2>2. MarksReceived
      BY DEF IInv
    <2>3. QED BY <2>1, <2>2 DEF MarksReceived
  <1>2. QED BY <1>1, PushInvariant, PTL

(* The pushes and the offline messages the workers write reach the device  *)
(* in the order of their ids.                                              *)
THEOREM InOrderHolds == Spec => InOrder
  <1> DEFINE Ordered ==
        faults' = 0 /\ ~overtaken' =>
          \A m \in received' \ received : \A k \in dbOffline \ received' : m < k
  <1>1. IInv /\ [Next]_vars => [Ordered]_vars
    <2> SUFFICES ASSUME IInv, Next, Calm', NEW m \in received',
                        NEW k \in dbOffline \ received'
                 PROVE  m < k
      BY DEF Calm
    <2>1. dbOffline \subseteq dbOffline'
      BY ApiKeeps, CometKeeps DEF Next
    <2>2. k \in Missing'
      BY <2>1 DEF Missing
    <2>3. ReceivedInOrder'
      BY ReceivedStep
    <2>4. QED BY <2>2, <2>3 DEF ReceivedInOrder, Calm
  <1>2. QED BY <1>1, PushInvariant, PTL DEF Spec, InOrder

=============================================================================
