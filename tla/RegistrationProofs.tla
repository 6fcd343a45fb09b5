------------------------- MODULE RegistrationProofs -------------------------
(***************************************************************************)
(* Proofs about Registration, for any sets of registration ids, topics,    *)
(* send ids and workers and any bounds.                                    *)
(***************************************************************************)
EXTENDS Registration, SequenceTheorems, FiniteSetTheorems, TLAPS

-----------------------------------------------------------------------------
(* The inductive invariant.                                                *)

(* A handler works for a connection, and on the registration that its      *)
(* phase promises.                                                         *)
HandlerOK ==
  /\ handler.pc = "idle" <=> handler = Idle
  /\ handler # Idle \/ regApp # None => worker # None
  /\ handler.pc \in {"regDevice", "regUser"} =>
       regApp = None /\ handler.reg \in RegIds
  /\ handler.pc = "regIds" => regApp # None
  /\ handler.pc \in {"unregister", "unregDevice", "unregUser"} =>
       regApp # None /\ handler.reg = regApp

(* The storage has the registration r in all its places.                   *)
InUsers(r) == r \in WithUser => r \in dbUser
Stored(r) == dbApp[r] # None /\ dbDevice = r /\ InUsers(r)

Quiet == faults = 0 /\ ~stale
Settled == handler.pc \in {"idle", "regIds", "unregister"}

(* Without faults and late writes, registering and unregistering go        *)
(* through the storage in their order, and what is stored for the id the   *)
(* device believes in, or for the one in db_device, is complete.           *)
StorageOrdered ==
  Quiet =>
    /\ Settled =>
         /\ regApp # None => Stored(regApp)
         /\ known # None /\ dbApp[known] # None => Stored(known)
         /\ dbDevice # None /\ dbApp[dbDevice] # None => InUsers(dbDevice)
         /\ worker # None /\ regApp = None /\ known # None => dbApp[known] = None
    /\ handler.pc \in {"regDevice", "regUser"} =>
         /\ dbApp[handler.reg] = Fresh
         /\ known # None /\ known # handler.reg => dbApp[known] = None
         /\ handler.pc = "regUser" => dbDevice = handler.reg
    /\ handler.pc \in {"unregDevice", "unregUser"} =>
         /\ dbApp[regApp] = None
         /\ known # None => dbApp[known] = None
         /\ handler.pc = "unregUser" => dbDevice = None

(* A live job is one of the connection and its registration, and the last  *)
(* of them has the LastMsgId in memory.                                    *)
LiveJobs ==
  \A w \in Workers : \A i \in DOMAIN queue[w] : queue[w][i].live =>
    /\ w = worker /\ queue[w][i].reg = regApp /\ regApp # None
    /\ Settled
    /\ (\A k \in DOMAIN queue[w] : k > i => ~queue[w][k].live) =>
         queue[w][i].info.last = regappMap[regApp].last

LastStored ==
  Quiet /\ Settled /\ ~Pending /\ regApp # None =>
    dbApp[regApp].last = regappMap[regApp].last

(* Before the first acknowledgement there are no jobs, and every list is   *)
(* stored as it is in memory.                                              *)
NoneAcked == \A r \in RegIds : acked[r] = 0

ListsKept ==
  /\ NoneAcked => ~stale /\ \A w \in Workers : queue[w] = <<>>
  /\ faults = 0 /\ NoneAcked =>
       /\ \A r \in RegIds : dbApp[r] # None =>
            IsInjective(dbApp[r].topics) /\ IsInjective(dbApp[r].sendids)
       /\ Settled /\ regApp # None => dbApp[regApp] = regappMap[regApp]

IInv ==
  /\ TypeOK /\ HandlerOK /\ MemoryBacked /\ AckedOnly
  /\ StorageOrdered /\ LiveJobs /\ LastStored /\ ListsKept

-----------------------------------------------------------------------------
(* Values.                                                                 *)
LEMMA Bounds ==
  /\ None \notin RegIds /\ None \notin Workers /\ WithUser \subseteq RegIds
  /\ MaxTopics \in Nat /\ MaxMsg \in Nat /\ MaxFaults \in Nat
  /\ QueueCap \in Nat /\ MaxSendIds \in Nat /\ MaxSendIds >= 1
  /\ None \notin InfoType
  BY NoneAssumption, UserAssumption, BoundAssumption, InfoAssumption

(* The fields of an AppInfo, and what may be changed in it.                *)
LEMMA InfoFields ==
  ASSUME NEW i \in InfoType
  PROVE  /\ i # None
         /\ i.last \in 0..MaxMsg
         /\ i.topics \in Seq(Topics) /\ Len(i.topics) <= MaxTopics
         /\ i.sendids \in Seq(SendIds) /\ Len(i.sendids) <= MaxSendIds
  BY Bounds DEF InfoType

LEMMA InfoUpdates ==
  ASSUME NEW i \in InfoType
  PROVE  /\ \A n \in 0..MaxMsg : LET k == [i EXCEPT !.last = n] IN
              /\ k \in InfoType /\ k.last = n
              /\ k.topics = i.topics /\ k.sendids = i.sendids
         /\ \A l \in Seq(Topics) : Len(l) <= MaxTopics =>
              LET k == [i EXCEPT !.topics = l] IN
              /\ k \in InfoType /\ k.topics = l
              /\ k.last = i.last /\ k.sendids = i.sendids
         /\ \A l \in Seq(SendIds) : Len(l) <= MaxSendIds =>
              LET k == [i EXCEPT !.sendids = l] IN
              /\ k \in InfoType /\ k.sendids = l
              /\ k.last = i.last /\ k.topics = i.topics
  BY DEF InfoType

(* The two lists of an AppInfo.                                            *)
Lists == {"topics", "sendids"}

Items(f) == IF f = "topics" THEN Topics ELSE SendIds

MaxItems(f) == IF f = "topics" THEN MaxTopics ELSE MaxSendIds

LEMMA InfoLists ==
  ASSUME NEW i \in InfoType, NEW f \in Lists
  PROVE  /\ i[f] \in Seq(Items(f)) /\ Len(i[f]) \in Nat
         /\ Len(i[f]) <= MaxItems(f)
         /\ \A l \in Seq(Items(f)) : Len(l) <= MaxItems(f) =>
              LET k == [i EXCEPT ![f] = l] IN
              /\ k \in InfoType /\ k[f] = l /\ k.last = i.last
              /\ \A g \in Lists \ {f} : k[g] = i[g]
  <1>1. CASE f = "topics"
    <2>1. /\ i[f] \in Seq(Topics) /\ Len(i[f]) \in Nat /\ Len(i[f]) <= MaxTopics
      BY <1>1, InfoFields, LenProperties
    <2>2. ASSUME NEW l \in Seq(Topics), Len(l) <= MaxTopics
          PROVE  LET k == [i EXCEPT !["topics"] = l] IN
                 /\ k \in InfoType /\ k["topics"] = l /\ k.last = i.last
                 /\ k.sendids = i.sendids
      BY <2>2, InfoUpdates
    <2>3. Lists \ {f} = {"sendids"} /\ Items(f) = Topics /\ MaxItems(f) = MaxTopics
      BY <1>1 DEF Lists, Items, MaxItems
    <2>4. QED BY <1>1, <2>1, <2>2, <2>3
  <1>2. CASE f = "sendids"
    <2>1. /\ i[f] \in Seq(SendIds) /\ Len(i[f]) \in Nat /\ Len(i[f]) <= MaxSendIds
      BY <1>2, InfoFields, LenProperties
    <2>2. ASSUME NEW l \in Seq(SendIds), Len(l) <= MaxSendIds
          PROVE  LET k == [i EXCEPT !["sendids"] = l] IN
                 /\ k \in InfoType /\ k["sendids"] = l /\ k.last = i.last
                 /\ k.topics = i.topics
      BY <2>2, InfoUpdates
    <2>3. Lists \ {f} = {"topics"} /\ Items(f) = SendIds /\ MaxItems(f) = MaxSendIds
      BY <1>2 DEF Lists, Items, MaxItems
    <2>4. QED BY <1>2, <2>1, <2>2, <2>3
  <1>3. QED BY <1>1, <1>2 DEF Lists

LEMMA FreshInfo ==
  /\ Fresh \in InfoType /\ Fresh.last = 0
  /\ Fresh.topics = <<>> /\ Fresh.sendids = <<>>
  BY Bounds DEF Fresh, InfoType

LEMMA JobFields ==
  ASSUME NEW j \in JobType
  PROVE  /\ j.reg \in RegIds /\ j.info \in InfoType /\ j.live \in BOOLEAN
         /\ j.shared \in SUBSET {"topics", "sendids"}
  BY DEF JobType

(* k may take the place of job j in a queue.                               *)
Like(j, k) ==
  /\ k \in JobType /\ k.reg = j.reg /\ k.info.last = j.info.last
  /\ k.live => j.live

LEMMA JobUpdates ==
  ASSUME NEW j \in JobType
  PROVE  /\ Like(j, j)
         /\ LET k == [j EXCEPT !.live = FALSE, !.shared = {}]
            IN Like(j, k) /\ k.live = FALSE
         /\ \A f : LET k == [j EXCEPT !.shared = @ \ {f}]
                   IN Like(j, k) /\ k.live = j.live
         /\ \A i \in InfoType : i.last = j.info.last =>
              LET k == [j EXCEPT !.info = i] IN Like(j, k) /\ k.live = j.live
  BY DEF JobType, Like

-----------------------------------------------------------------------------
(* Lists.                                                                  *)

(* append(l, x) of an item that is not in l.                               *)
LEMMA AppendItem ==
  ASSUME NEW S, NEW l \in Seq(S), NEW x \in S
  PROVE  /\ Append(l, x) \in Seq(S) /\ Len(Append(l, x)) = Len(l) + 1
         /\ IsInjective(l) /\ x \notin ToSet(l) => IsInjective(Append(l, x))
  <1>1. /\ Append(l, x) \in Seq(S) /\ Len(Append(l, x)) = Len(l) + 1
        /\ \A i \in 1..Len(l) : Append(l, x)[i] = l[i]
        /\ Append(l, x)[Len(l) + 1] = x
        /\ DOMAIN Append(l, x) = 1..(Len(l) + 1) /\ DOMAIN l = 1..Len(l)
        /\ Len(l) \in Nat
    BY AppendProperties, LenProperties
  <1>2. ASSUME IsInjective(l), x \notin ToSet(l)
        PROVE  IsInjective(Append(l, x))
    <2> SUFFICES ASSUME NEW a \in 1..(Len(l) + 1), NEW b \in 1..(Len(l) + 1),
                        Append(l, x)[a] = Append(l, x)[b]
                 PROVE  a = b
      BY <1>1 DEF IsInjective
    <2>1. \A i \in 1..Len(l) : l[i] # x
      BY <1>1, <1>2 DEF ToSet
    <2>2. CASE a = Len(l) + 1 \/ b = Len(l) + 1
      BY <1>1, <2>1, <2>2
    <2>3. CASE a \in 1..Len(l) /\ b \in 1..Len(l)
      BY <1>1, <1>2, <2>3 DEF IsInjective
    <2>4. QED BY <1>1, <2>2, <2>3
  <1>3. QED BY <1>1, <1>2

(* A list without its item i.                                              *)
LEMMA RemoveItemAt ==
  ASSUME NEW S, NEW l \in Seq(S), NEW i \in 1..Len(l)
  PROVE  /\ RemoveAt(l, i) \in Seq(S) /\ Len(RemoveAt(l, i)) = Len(l) - 1
         /\ IsInjective(l) => IsInjective(RemoveAt(l, i))
  <1> DEFINE r == RemoveAt(l, i)
             a == SubSeq(l, 1, i - 1)
             b == SubSeq(l, i + 1, Len(l))
  <1>1. Len(l) \in Nat /\ DOMAIN l = 1..Len(l) /\ i \in Nat
    BY LenProperties
  <1>2. /\ a \in Seq(S) /\ Len(a) = i - 1
        /\ \A k \in 1..(i - 1) : a[k] = l[k]
    BY <1>1
  <1>3. /\ b \in Seq(S) /\ Len(b) = Len(l) - i
        /\ \A k \in 1..(Len(l) - i) : b[k] = l[k + i]
    <2>1. /\ i + 1 \in Int /\ Len(l) \in Int
          /\ \A k \in (i + 1)..Len(l) : l[k] \in S
      BY <1>1, ElementOfSeq
    <2>2. /\ b \in Seq(S)
          /\ Len(b) = IF i + 1 <= Len(l) THEN Len(l) - (i + 1) + 1 ELSE 0
          /\ \A k \in 1..(Len(l) - (i + 1) + 1) : b[k] = l[(i + 1) + k - 1]
      BY <2>1, SubSeqProperties
    <2> HIDE DEF b
    <2>3. Len(b) = Len(l) - i
      <3>1. Len(b) = IF i + 1 <= Len(l) THEN Len(l) - (i + 1) + 1 ELSE 0
        BY <2>2
      <3>2. i \in 1..Len(l) /\ Len(l) \in Nat
        BY <1>1
      <3>3. QED BY <3>1, <3>2
    <2>4. ASSUME NEW k \in 1..(Len(l) - i)
          PROVE  b[k] = l[k + i]
      <3>1. k \in 1..(Len(l) - (i + 1) + 1) /\ (i + 1) + k - 1 = k + i
        BY <1>1
      <3>2. QED BY <2>2, <3>1
    <2>5. QED BY <2>2, <2>3, <2>4
  <1>4. r = a \o b
    BY DEF RemoveAt
  <1> HIDE DEF r, a, b
  <1>5. /\ r \in Seq(S) /\ Len(r) = Len(l) - 1 /\ DOMAIN r = 1..(Len(l) - 1)
        /\ \A k \in 1..(Len(l) - 1) : r[k] = IF k < i THEN l[k] ELSE l[k + 1]
    <2>1. /\ r \in Seq(S) /\ Len(r) = Len(a) + Len(b)
          /\ \A k \in 1..(Len(a) + Len(b)) :
               r[k] = IF k <= Len(a) THEN a[k] ELSE b[k - Len(a)]
      BY <1>2, <1>3, <1>4, ConcatProperties
    <2>2. Len(r) = Len(l) - 1 /\ DOMAIN r = 1..(Len(l) - 1)
      BY <1>1, <1>2, <1>3, <2>1, LenProperties
    <2>3. ASSUME NEW k \in 1..(Len(l) - 1)
          PROVE  r[k] = IF k < i THEN l[k] ELSE l[k + 1]
      <3> HIDE DEF r, a, b
      <3>0. k \in 1..(Len(a) + Len(b))
        BY <1>1, <1>2, <1>3
      <3>1. CASE k < i
        <4>1. k \in 1..(i - 1) /\ k <= Len(a)
          BY <1>1, <1>2, <3>1
        <4>2. QED BY <1>2, <2>1, <3>0, <3>1, <4>1
      <3>2. CASE k >= i
        <4>1. k - (i - 1) \in 1..(Len(l) - i) /\ (k - (i - 1)) + i = k + 1
          BY <1>1, <3>2
        <4>2. b[k - (i - 1)] = l[k + 1]
          BY <1>3, <4>1
        <4>3. ~(k <= Len(a)) /\ k - Len(a) = k - (i - 1)
          BY <1>1, <1>2, <3>2
        <4>5. r[k] = b[k - (i - 1)]
          BY <2>1, <3>0, <4>3
        <4>4. QED BY <1>1, <3>2, <4>2, <4>5
      <3>3. QED BY <1>1, <3>1, <3>2
    <2>4. QED BY <2>1, <2>2, <2>3
  <1>6. ASSUME IsInjective(l)
        PROVE  IsInjective(r)
    <2> SUFFICES ASSUME NEW m \in 1..(Len(l) - 1), NEW n \in 1..(Len(l) - 1),
                        r[m] = r[n]
                 PROVE  m = n
      BY <1>5 DEF IsInjective
    <2> DEFINE p(k) == IF k < i THEN k ELSE k + 1
    <2>1. p(m) \in 1..Len(l) /\ p(n) \in 1..Len(l)
      BY <1>1
    <2>2. l[p(m)] = l[p(n)]
      BY <1>1, <1>5
    <2>3. p(m) = p(n)
      BY <1>1, <1>6, <2>1, <2>2 DEF IsInjective
    <2>4. QED BY <1>1, <2>3
  <1>7. QED BY <1>5, <1>6 DEF r

(* What the removal leaves in an array that others still have a slice of.  *)
LEMMA ShiftedItems ==
  ASSUME NEW S, NEW l \in Seq(S), NEW s \in Seq(S), NEW i \in 1..Len(l)
  PROVE  LET t == [k \in DOMAIN s |-> IF i <= k /\ k < Len(l) THEN l[k + 1]
                                      ELSE s[k]]
         IN t \in Seq(S) /\ Len(t) = Len(s)
  <1> DEFINE t == [k \in DOMAIN s |-> IF i <= k /\ k < Len(l) THEN l[k + 1]
                                      ELSE s[k]]
  <1>1. /\ Len(l) \in Nat /\ Len(s) \in Nat /\ DOMAIN s = 1..Len(s)
        /\ \A k \in 1..Len(s) : s[k] \in S
        /\ \A k \in 1..Len(l) : l[k] \in S
    BY LenProperties, ElementOfSeq
  <1>2. t \in [1..Len(s) -> S]
    BY <1>1
  <1> HIDE DEF t
  <1>3. t \in Seq(S) /\ Len(t) = Len(s)
    BY <1>1, <1>2, LenProperties
  <1>4. QED BY <1>3 DEF t

-----------------------------------------------------------------------------
(* Queues.                                                                 *)
LEMMA QueueType ==
  ASSUME TypeOK, NEW w \in Workers
  PROVE  /\ queue[w] \in Seq(JobType) /\ Len(queue[w]) \in Nat
         /\ Len(queue[w]) <= QueueCap
         /\ DOMAIN queue[w] = 1..Len(queue[w])
         /\ \A i \in DOMAIN queue[w] : queue[w][i] \in JobType
  BY LenProperties, ElementOfSeq DEF TypeOK

(* A step changes jobs, and neither their number nor their order.          *)
JobsLike ==
  /\ queue' \in [Workers -> Seq(JobType)]
  /\ \A w \in Workers :
       /\ Len(queue'[w]) = Len(queue[w]) /\ DOMAIN queue'[w] = DOMAIN queue[w]
       /\ \A i \in DOMAIN queue[w] : Like(queue[w][i], queue'[w][i])

SameLive ==
  \A w \in Workers : \A i \in DOMAIN queue[w] :
    queue'[w][i].live = queue[w][i].live

LEMMA JobsMapped ==
  ASSUME TypeOK,
         queue' = [w \in Workers |-> [i \in DOMAIN queue[w] |-> queue'[w][i]]],
         \A w \in Workers : \A i \in DOMAIN queue[w] :
           Like(queue[w][i], queue'[w][i])
  PROVE  JobsLike
  <1>1. ASSUME NEW w \in Workers
        PROVE  /\ queue'[w] \in Seq(JobType)
               /\ Len(queue'[w]) = Len(queue[w])
               /\ DOMAIN queue'[w] = DOMAIN queue[w]
    <2>1. /\ Len(queue[w]) \in Nat /\ DOMAIN queue[w] = 1..Len(queue[w])
      BY QueueType
    <2>2. queue'[w] = [i \in 1..Len(queue[w]) |-> queue'[w][i]]
      BY <2>1
    <2>3. \A i \in 1..Len(queue[w]) : queue'[w][i] \in JobType
      BY <2>1 DEF Like
    <2>4. queue'[w] \in [1..Len(queue[w]) -> JobType]
      BY <2>2, <2>3
    <2>5. queue'[w] \in Seq(JobType) /\ DOMAIN queue'[w] = 1..Len(queue[w])
      BY <2>1, <2>4
    <2>6. QED BY <2>1, <2>5, LenProperties
  <1>2. QED BY <1>1 DEF JobsLike

LEMMA JobsUnchanged ==
  ASSUME TypeOK, queue' = queue
  PROVE  JobsLike /\ SameLive
  <1>1. \A w \in Workers : \A i \in DOMAIN queue[w] :
          Like(queue[w][i], queue[w][i])
    BY QueueType, JobUpdates
  <1>2. QED BY <1>1 DEF JobsLike, SameLive, TypeOK

LEMMA JobsOutlived ==
  ASSUME TypeOK, queue' = OnJobs(Outlived)
  PROVE  /\ JobsLike
         /\ \A w \in Workers : \A i \in DOMAIN queue'[w] : ~queue'[w][i].live
  <1>1. \A w \in Workers : \A i \in DOMAIN queue[w] :
          queue'[w][i] = Outlived(queue[w][i])
    BY DEF OnJobs
  <1>2. \A w \in Workers : \A i \in DOMAIN queue[w] :
          Like(queue[w][i], queue'[w][i]) /\ queue'[w][i].live = FALSE
    <2>1. \A j \in JobType : Like(j, Outlived(j)) /\ Outlived(j).live = FALSE
      BY JobUpdates DEF Outlived
    <2>2. \A w \in Workers : \A i \in DOMAIN queue[w] : queue[w][i] \in JobType
      BY QueueType
    <2>3. QED BY <1>1, <2>1, <2>2
  <1>3. queue' = [w \in Workers |-> [i \in DOMAIN queue[w] |-> queue'[w][i]]]
    BY DEF OnJobs
  <1>4. JobsLike
    BY <1>2, <1>3, JobsMapped
  <1>5. QED BY <1>2, <1>4 DEF JobsLike

-----------------------------------------------------------------------------
(* What all changes of topics and send ids have in common: the new AppInfo *)
(* is written to the storage and put into memory.                          *)
NoItemTwice(info) == \A f \in Lists : IsInjective(info[f])

ListStep ==
  /\ JobsLike /\ SameLive
  /\ \E new, left \in InfoType :
       /\ Put(new) \/ PutFails(new, left)
       /\ new.last = regappMap[regApp].last
       /\ left.last = regappMap[regApp].last
       /\ NoItemTwice(regappMap[regApp]) => NoItemTwice(new)

(* The step is one of a session with its registration in memory.           *)
InSession == regApp \in RegIds /\ regappMap[regApp] \in InfoType

LEMMA AddItemStep ==
  ASSUME TypeOK, InSession, NEW f \in Lists, NEW x \in Items(f),
         AddItem(f, x)
  PROVE  ListStep
  <1> DEFINE info == regappMap[regApp]
             n == Len(info[f])
             l == Append(info[f], x)
             new == [info EXCEPT ![f] = l]
             longer(j) == f \in j.shared /\ Len(j.info[f]) > n
             over(j) == IF longer(j) THEN [j EXCEPT !.info[f][n + 1] = x] ELSE j
             unshared(j) == [j EXCEPT !.shared = @ \ {f}]
  <1>1. /\ x \notin ToSet(info[f]) /\ Len(info[f]) < MaxItems(f)
        /\ \/ /\ queue' = OnJobs(over)
              /\ Put(new) \/ PutFails(new, info)
           \/ Put(new) /\ queue' = OnJobs(unshared)
           \/ PutFails(new, info) /\ UNCHANGED queue
    BY DEF AddItem, MayAdd, MaxItems, Lists
  <1>2. info \in InfoType
    BY DEF InSession
  <1>3. /\ new \in InfoType /\ new.last = info.last
        /\ NoItemTwice(info) => NoItemTwice(new)
    <2>1. /\ info[f] \in Seq(Items(f)) /\ Len(info[f]) \in Nat
          /\ MaxItems(f) \in Nat
      BY <1>2, InfoLists, Bounds DEF MaxItems
    <2>2. /\ l \in Seq(Items(f)) /\ Len(l) <= MaxItems(f)
          /\ IsInjective(info[f]) => IsInjective(l)
      BY <1>1, <2>1, AppendItem
    <2> HIDE DEF l
    <2>3. /\ new \in InfoType /\ new[f] = l /\ new.last = info.last
          /\ \A g \in Lists \ {f} : new[g] = info[g]
      BY <1>2, <2>2, InfoLists
    <2>4. QED BY <2>2, <2>3 DEF NoItemTwice
  <1>4. ASSUME NEW j \in JobType
        PROVE  Like(j, over(j)) /\ over(j).live = j.live
    <2>1. CASE longer(j)
      <3>1. /\ j.info \in InfoType
            /\ j.info[f] \in Seq(Items(f)) /\ Len(j.info[f]) \in Nat
            /\ Len(j.info[f]) <= MaxItems(f)
        BY JobFields, InfoLists
      <3> DEFINE t == [j.info[f] EXCEPT ![n + 1] = x]
                 k == [j.info EXCEPT ![f] = t]
      <3>2. n + 1 \in 1..Len(j.info[f])
        BY <1>2, <2>1, <3>1, InfoLists
      <3>3. t \in Seq(Items(f)) /\ Len(t) = Len(j.info[f])
        BY <3>1, <3>2, ExceptSeq
      <3>4. over(j) = [j EXCEPT !.info = k]
        BY <2>1, <3>1, JobFields DEF JobType, InfoType
      <3> HIDE DEF t
      <3>5. k \in InfoType /\ k.last = j.info.last
        BY <3>1, <3>3, InfoLists
      <3> HIDE DEF k, over
      <3>6. QED BY <3>4, <3>5, JobUpdates
    <2>2. CASE ~longer(j)
      BY <2>2, JobUpdates
    <2>3. QED BY <2>1, <2>2
  <1>5. ASSUME NEW j \in JobType
        PROVE  Like(j, unshared(j)) /\ unshared(j).live = j.live
    BY JobUpdates
  <1>6. JobsLike /\ SameLive
    <2>1. CASE queue' = OnJobs(over)
      <3>1. \A w \in Workers : \A i \in DOMAIN queue[w] :
              queue'[w][i] = over(queue[w][i])
        BY <2>1 DEF OnJobs
      <3>2. queue' = [w \in Workers |-> [i \in DOMAIN queue[w] |-> queue'[w][i]]]
        BY <2>1 DEF OnJobs
      <3> HIDE DEF over
      <3>3. QED BY <1>4, <3>1, <3>2, QueueType, JobsMapped DEF SameLive
    <2>2. CASE queue' = OnJobs(unshared)
      <3>1. \A w \in Workers : \A i \in DOMAIN queue[w] :
              queue'[w][i] = unshared(queue[w][i])
        BY <2>2 DEF OnJobs
      <3>2. queue' = [w \in Workers |-> [i \in DOMAIN queue[w] |-> queue'[w][i]]]
        BY <2>2 DEF OnJobs
      <3> HIDE DEF unshared
      <3>3. QED BY <1>5, <3>1, <3>2, QueueType, JobsMapped DEF SameLive
    <2>3. CASE UNCHANGED queue
      BY <2>3, JobsUnchanged
    <2>4. QED BY <1>1, <2>1, <2>2, <2>3
  <1> HIDE DEF new
  <1>7. Put(new) \/ PutFails(new, info)
    BY <1>1
  <1>8. QED BY <1>2, <1>3, <1>6, <1>7 DEF ListStep

LEMMA RemoveItemStep ==
  ASSUME TypeOK, InSession, NEW f \in Lists,
         NEW i \in DOMAIN regappMap[regApp][f],
         RemoveItem(f, i)
  PROVE  ListStep
  <1> DEFINE info == regappMap[regApp]
             l == info[f]
             rest == RemoveAt(l, i)
             new == [info EXCEPT ![f] = rest]
             shifted(s) == [k \in DOMAIN s |->
                              IF i <= k /\ k < Len(l) THEN l[k + 1] ELSE s[k]]
             inJob(j) == IF f \in j.shared THEN [j EXCEPT !.info[f] = shifted(@)]
                         ELSE j
             moved == shifted(l)
             left == [info EXCEPT ![f] = moved]
  <1>1. queue' = OnJobs(inJob) /\ (Put(new) \/ PutFails(new, left))
    BY DEF RemoveItem
  <1>2. /\ info \in InfoType /\ l \in Seq(Items(f)) /\ Len(l) \in Nat
        /\ Len(l) <= MaxItems(f) /\ MaxItems(f) \in Nat /\ i \in 1..Len(l)
    BY InfoLists, LenProperties, Bounds DEF InSession, MaxItems
  <1>3. ASSUME NEW s \in Seq(Items(f))
        PROVE  shifted(s) \in Seq(Items(f)) /\ Len(shifted(s)) = Len(s)
    <2> HIDE DEF l
    <2>1. QED BY <1>2, ShiftedItems
  <1>4. /\ new \in InfoType /\ new.last = info.last
        /\ NoItemTwice(info) => NoItemTwice(new)
    <2>1. /\ rest \in Seq(Items(f)) /\ Len(rest) <= MaxItems(f)
          /\ IsInjective(l) => IsInjective(rest)
      BY <1>2, RemoveItemAt
    <2> HIDE DEF rest
    <2>2. /\ new \in InfoType /\ new[f] = rest /\ new.last = info.last
          /\ \A g \in Lists \ {f} : new[g] = info[g]
      BY <1>2, <2>1, InfoLists
    <2>3. QED BY <2>1, <2>2 DEF NoItemTwice
  <1>5. left \in InfoType /\ left.last = info.last
    <2>1. moved \in Seq(Items(f)) /\ Len(moved) <= MaxItems(f)
      BY <1>2, <1>3
    <2> HIDE DEF moved
    <2>2. QED BY <1>2, <2>1, InfoLists
  <1>6. ASSUME NEW j \in JobType
        PROVE  Like(j, inJob(j)) /\ inJob(j).live = j.live
    <2>1. CASE f \in j.shared
      <3> DEFINE t == shifted(j.info[f])
                 k == [j.info EXCEPT ![f] = t]
      <3>1. /\ j.info \in InfoType
            /\ j.info[f] \in Seq(Items(f)) /\ Len(j.info[f]) <= MaxItems(f)
        BY JobFields, InfoLists
      <3>2. t \in Seq(Items(f)) /\ Len(t) <= MaxItems(f)
        BY <1>3, <3>1
      <3>3. inJob(j) = [j EXCEPT !.info = k]
        BY <2>1, <3>1 DEF JobType, InfoType
      <3> HIDE DEF t
      <3>4. k \in InfoType /\ k.last = j.info.last
        BY <3>1, <3>2, InfoLists
      <3> HIDE DEF k, inJob
      <3>5. QED BY <3>3, <3>4, JobUpdates
    <2>2. CASE f \notin j.shared
      BY <2>2, JobUpdates
    <2>3. QED BY <2>1, <2>2
  <1>7. JobsLike /\ SameLive
    <2>1. \A w \in Workers : \A m \in DOMAIN queue[w] :
            queue'[w][m] = inJob(queue[w][m])
      BY <1>1 DEF OnJobs
    <2>2. queue' = [w \in Workers |-> [m \in DOMAIN queue[w] |-> queue'[w][m]]]
      BY <1>1 DEF OnJobs
    <2> HIDE DEF inJob
    <2>3. QED BY <1>6, <2>1, <2>2, QueueType, JobsMapped DEF SameLive
  <1> HIDE DEF new, left
  <1>8. Put(new) \/ PutFails(new, left)
    BY <1>1
  <1>9. QED BY <1>2, <1>4, <1>5, <1>7, <1>8 DEF ListStep

LEMMA DelAllStep ==
  ASSUME TypeOK, InSession, DelAllSendIds
  PROVE  ListStep
  <1> DEFINE info == regappMap[regApp]
             new == [info EXCEPT !.sendids = <<>>]
  <1>1. (Put(new) \/ PutFails(new, info)) /\ queue' = queue
    BY DEF DelAllSendIds
  <1>2. info \in InfoType
    BY DEF InSession
  <1>3. /\ new \in InfoType /\ new.last = info.last
        /\ new.topics = info.topics /\ new.sendids = <<>>
    <2>1. <<>> \in Seq(SendIds) /\ Len(<<>>) <= MaxSendIds
      BY Bounds
    <2>2. QED BY <1>2, <2>1, InfoUpdates
  <1> HIDE DEF new
  <1>4. NoItemTwice(info) => NoItemTwice(new)
    BY <1>3 DEF NoItemTwice, Lists, IsInjective
  <1>5. QED BY <1>1, <1>2, <1>3, <1>4, JobsUnchanged DEF ListStep

-----------------------------------------------------------------------------
(* A request of a session that only changes lists, or that learns that the *)
(* registration has to end.                                                *)
ListRequest ==
  /\ InSession /\ worker # None /\ Settled
  /\ \/ ListStep
     \/ UNCHANGED <<dbApp, regappMap, queue, faults>>
  /\ \/ handler' = Idle
     \/ handler' = handler
     \/ handler' = [pc |-> "unregister", reg |-> regApp, ids |-> {}]
  /\ known' \in {known, regApp}
  /\ UNCHANGED <<dbDevice, dbUser, regApp, worker, acked, stale>>

LEMMA ListRequests ==
  ASSUME IInv,
         \/ RegisterAgain \/ DelAllSendIds
         \/ \E x \in SendIds : AddSendId(x) \/ DelSendId(x)
         \/ \E t \in Topics : Subscribe(t) \/ Unsubscribe(t)
  PROVE  ListRequest
  <1>1. TypeOK /\ HandlerOK /\ MemoryBacked
    BY DEF IInv
  <1>2. ASSUME regApp # None
        PROVE  InSession /\ worker # None
    BY <1>1, <1>2 DEF TypeOK, MemoryBacked, HandlerOK, InSession
  <1>3. "topics" \in Lists /\ "sendids" \in Lists
        /\ Items("topics") = Topics /\ Items("sendids") = SendIds
    BY DEF Lists, Items
  <1>4. Ready => handler.pc = "idle"
    BY DEF Ready, Idle
  <1>5. CASE RegisterAgain
    BY <1>2, <1>4, <1>5 DEF RegisterAgain, Told, ListRequest, Settled, device,
       redis, memory
  <1>6. Requested => regApp # None /\ Settled
    BY <1>4 DEF Requested, Settled
  <1>7. CASE DelAllSendIds
    <2>1. Requested /\ InSession /\ ListStep
      BY <1>1, <1>2, <1>6, <1>7, DelAllStep DEF DelAllSendIds
    <2>2. QED BY <1>2, <1>6, <1>7, <2>1 DEF DelAllSendIds, ListRequest, device
  <1>8. ASSUME NEW x \in SendIds, AddSendId(x)
        PROVE  ListRequest
    <2>1. regApp # None /\ Settled
      BY <1>1, <1>4, <1>8 DEF AddSendId, Settled, HandlerOK
    <2>2. ListStep
      BY <1>1, <1>2, <1>3, <1>8, <2>1, AddItemStep DEF AddSendId
    <2>3. QED BY <1>2, <1>8, <2>1, <2>2 DEF AddSendId, ListRequest, Told
  <1>9. ASSUME NEW x \in SendIds, DelSendId(x)
        PROVE  ListRequest
    <2>1. Requested
      BY <1>9 DEF DelSendId
    <2>2. \/ ListStep /\ (handler' = Idle \/ handler' =
                          [pc |-> "unregister", reg |-> regApp, ids |-> {}])
          \/ /\ UNCHANGED <<dbApp, regappMap, queue, faults>>
             /\ handler' = [pc |-> "unregister", reg |-> regApp, ids |-> {}]
      <3>1. CASE \E i \in DOMAIN regappMap[regApp].sendids : RemoveItem("sendids", i)
        BY <1>1, <1>2, <1>3, <1>6, <1>9, <2>1, <3>1, RemoveItemStep DEF DelSendId
      <3>2. QED BY <1>9, <3>1 DEF DelSendId
    <2>3. QED BY <1>2, <1>6, <1>9, <2>1, <2>2 DEF DelSendId, ListRequest, device
  <1>10. ASSUME NEW t \in Topics, Subscribe(t) \/ Unsubscribe(t)
         PROVE  ListRequest
    <2>1. Requested
      BY <1>10 DEF Subscribe, Unsubscribe
    <2>2. ListStep
      <3>1. CASE Subscribe(t)
        BY <1>1, <1>2, <1>3, <1>6, <2>1, <3>1, AddItemStep DEF Subscribe
      <3>2. CASE Unsubscribe(t)
        BY <1>1, <1>2, <1>3, <1>6, <2>1, <3>2, RemoveItemStep DEF Unsubscribe
      <3>3. QED BY <1>10, <3>1, <3>2
    <2>3. QED BY <1>2, <1>6, <1>10, <2>1, <2>2
              DEF Subscribe, Unsubscribe, ListRequest, device
  <1>11. QED BY <1>5, <1>7, <1>8, <1>9, <1>10

-----------------------------------------------------------------------------
(* The cases of a step.                                                    *)
Registering(r) ==
  \E ids \in SUBSET SendIds : RegisterApp(r, ids)

LEMMA Steps ==
  ASSUME IInv, [Next]_vars
  PROVE  \/ \E r \in RegIds : Registering(r)
         \/ \E r \in RegIds : \E n \in 1..MaxMsg : PushReply(r, n)
         \/ RegisterDevice \/ RegisterUser
         \/ Unregister \/ UnregisterDevice \/ UnregisterUser
         \/ ListRequest
         \/ \E w \in Workers : ConnectListed(w)
         \/ \E w \in Workers : ConnectUnlisted(w)
         \/ \E w \in Workers : ConnectSync(w)
         \/ \E w \in Workers : UpdateJob(w)
         \/ Disconnect \/ Exit
         \/ UNCHANGED vars
  <1>1. ASSUME NEW r \in RegIds,
               RegisterApp(r, {}) \/ \E x \in SendIds : RegisterApp(r, {x})
        PROVE  Registering(r)
    BY <1>1 DEF Registering
  <1>2. QED BY <1>1, ListRequests DEF Next, Request

(* The queue of a worker without its first job, and with one more.         *)
LEMMA TailJobs ==
  ASSUME TypeOK, NEW w \in Workers, queue[w] # <<>>,
         queue' = [queue EXCEPT ![w] = Tail(@)]
  PROVE  /\ queue' \in [Workers -> Seq(JobType)]
         /\ Len(queue[w]) \in Nat \ {0} /\ Len(queue'[w]) = Len(queue[w]) - 1
         /\ DOMAIN queue'[w] = 1..(Len(queue[w]) - 1)
         /\ \A i \in 1..(Len(queue[w]) - 1) : queue'[w][i] = queue[w][i + 1]
         /\ Head(queue[w]) = queue[w][1] /\ queue[w][1] \in JobType
         /\ \A v \in Workers \ {w} : queue'[v] = queue[v]
  <1>1. queue \in [Workers -> Seq(JobType)] /\ queue[w] \in Seq(JobType)
    BY DEF TypeOK
  <1> DEFINE q == queue[w]
  <1>2. /\ Len(q) \in Nat \ {0} /\ Head(q) = q[1] /\ q[1] \in JobType
        /\ Tail(q) \in Seq(JobType) /\ Len(Tail(q)) = Len(q) - 1
        /\ DOMAIN Tail(q) = 1..(Len(q) - 1)
        /\ \A i \in 1..(Len(q) - 1) : Tail(q)[i] = q[i + 1]
    BY <1>1, HeadTailProperties, EmptySeq, LenProperties, ElementOfSeq
  <1>3. queue'[w] = Tail(q) /\ \A v \in Workers \ {w} : queue'[v] = queue[v]
    BY <1>1
  <1>4. QED BY <1>1, <1>2, <1>3

LEMMA AppendJob ==
  ASSUME TypeOK, NEW w \in Workers, NEW j \in JobType,
         queue' = [queue EXCEPT ![w] = Append(@, j)]
  PROVE  /\ queue' \in [Workers -> Seq(JobType)]
         /\ Len(queue[w]) \in Nat /\ Len(queue'[w]) = Len(queue[w]) + 1
         /\ DOMAIN queue'[w] = 1..(Len(queue[w]) + 1)
         /\ \A i \in 1..Len(queue[w]) : queue'[w][i] = queue[w][i]
         /\ queue'[w][Len(queue[w]) + 1] = j
         /\ \A v \in Workers \ {w} : queue'[v] = queue[v]
  <1>1. queue \in [Workers -> Seq(JobType)] /\ queue[w] \in Seq(JobType)
    BY DEF TypeOK
  <1> DEFINE q == queue[w]
  <1>2. /\ Len(q) \in Nat
        /\ Append(q, j) \in Seq(JobType) /\ Len(Append(q, j)) = Len(q) + 1
        /\ DOMAIN Append(q, j) = 1..(Len(q) + 1)
        /\ \A i \in 1..Len(q) : Append(q, j)[i] = q[i]
        /\ Append(q, j)[Len(q) + 1] = j
    BY <1>1, AppendProperties, LenProperties
  <1>3. queue'[w] = Append(q, j) /\ \A v \in Workers \ {w} : queue'[v] = queue[v]
    BY <1>1
  <1>4. QED BY <1>1, <1>2, <1>3

(* An accepted acknowledgement.                                            *)
Accepts(r, n) ==
  \E new \in InfoType : \E j \in JobType :
    /\ r = regApp /\ InSession
    /\ new = [regappMap[r] EXCEPT !.last = n]
    /\ new.last = n
    /\ j.reg = r /\ j.info = new /\ j.live = TRUE
    /\ Len(queue[worker]) < QueueCap
    /\ regappMap' = [regappMap EXCEPT ![r] = new]
    /\ queue' = [queue EXCEPT ![worker] = Append(@, j)]

LEMMA AcceptedReply ==
  ASSUME IInv, NEW r \in RegIds, NEW n \in 1..MaxMsg, PushReply(r, n)
  PROVE  /\ worker \in Workers /\ handler = Idle
         /\ \/ UNCHANGED <<regappMap, queue>>
            \/ Accepts(r, n)
         /\ acked' \in [RegIds -> 0..MaxMsg]
         /\ acked'[r] >= n /\ acked'[r] >= acked[r]
         /\ \A s \in RegIds \ {r} : acked'[s] = acked[s]
         /\ UNCHANGED <<redis, regApp, worker, handler, known, faults, stale>>
  <1>1. TypeOK /\ MemoryBacked
    BY DEF IInv
  <1>2. worker \in Workers /\ handler = Idle
    BY <1>1 DEF PushReply, Ready, TypeOK
  <1>3. /\ acked' \in [RegIds -> 0..MaxMsg]
        /\ acked'[r] >= n /\ acked'[r] >= acked[r]
        /\ \A s \in RegIds \ {r} : acked'[s] = acked[s]
    <2>1. acked \in [RegIds -> 0..MaxMsg] /\ MaxMsg \in Nat
      BY <1>1, Bounds DEF TypeOK
    <2>2. acked' = [acked EXCEPT ![r] = IF n > acked[r] THEN n ELSE acked[r]]
      BY DEF PushReply
    <2>3. QED BY <2>1, <2>2
  <1>4. ASSUME ~UNCHANGED <<regappMap, queue>>
        PROVE  Accepts(r, n)
    <2> DEFINE new == [regappMap[r] EXCEPT !.last = n]
               j == [reg |-> r, info |-> new, live |-> TRUE,
                     shared |-> {"topics", "sendids"}]
    <2>1. /\ r = regApp /\ Len(queue[worker]) < QueueCap
          /\ regappMap' = [regappMap EXCEPT ![r] = new]
          /\ queue' = [queue EXCEPT ![worker] = Append(@, j)]
      BY <1>4 DEF PushReply
    <2>2. InSession /\ regappMap[r] \in InfoType
      BY <1>1, <1>2, <2>1, Bounds DEF TypeOK, MemoryBacked, InSession
    <2>3. new \in InfoType /\ new.last = n
      BY <2>2, InfoUpdates, Bounds
    <2> HIDE DEF new
    <2>4. j \in JobType /\ j.reg = r /\ j.info = new /\ j.live = TRUE
      BY <2>3 DEF JobType
    <2> HIDE DEF j
    <2>5. QED BY <2>1, <2>2, <2>3, <2>4 DEF new, Accepts
  <1>5. QED BY <1>2, <1>3, <1>4 DEF PushReply

-----------------------------------------------------------------------------
(* Each step keeps the types.                                              *)
Stores(f) == f \in [RegIds -> InfoType \union {None}]

LEMMA StoreUpdates ==
  ASSUME NEW f, Stores(f), NEW r \in RegIds,
         NEW v \in InfoType \union {None}
  PROVE  /\ Stores([f EXCEPT ![r] = v]) /\ [f EXCEPT ![r] = v][r] = v
         /\ \A s \in RegIds \ {r} : [f EXCEPT ![r] = v][s] = f[s]
  BY DEF Stores

LEMMA FaultType ==
  ASSUME TypeOK, Fault \/ UNCHANGED faults
  PROVE  faults' \in 0..MaxFaults /\ (faults' = 0 => UNCHANGED faults)
  BY Bounds DEF TypeOK, Fault

HandlerTypeOK(h) ==
  h \in [pc : Phases, reg : RegIds \union {None}, ids : SUBSET SendIds]

LEMMA HandlerValues ==
  ASSUME NEW r \in RegIds \union {None}, NEW ids \in SUBSET SendIds,
         NEW pc \in Phases
  PROVE  /\ HandlerTypeOK([pc |-> pc, reg |-> r, ids |-> ids])
         /\ HandlerTypeOK(Idle)
         /\ Idle.pc = "idle" /\ Idle.reg = None
         /\ \A h : HandlerTypeOK(h) =>
              LET k == [h EXCEPT !.pc = pc] IN
              HandlerTypeOK(k) /\ k.pc = pc /\ k.reg = h.reg
  BY DEF HandlerTypeOK, Idle, Phases

(* The parts of TypeOK.                                                    *)
DbType ==
  /\ Stores(dbApp) /\ dbDevice \in RegIds \union {None} /\ dbUser \subseteq WithUser
MemType ==
  /\ Stores(regappMap) /\ regApp \in RegIds \union {None}
  /\ worker \in Workers \union {None}
QType ==
  /\ queue \in [Workers -> Seq(JobType)]
  /\ \A w \in Workers : Len(queue[w]) <= QueueCap
DeviceType ==
  known \in RegIds \union {None} /\ acked \in [RegIds -> 0..MaxMsg]

LEMMA TypeParts ==
  TypeOK <=> /\ DbType /\ MemType /\ QType /\ DeviceType
             /\ HandlerTypeOK(handler)
             /\ faults \in 0..MaxFaults /\ stale \in BOOLEAN
  BY DEF TypeOK, DbType, MemType, QType, DeviceType, HandlerTypeOK, Stores

LEMMA NextTypeParts ==
  ASSUME DbType', MemType', QType', DeviceType', HandlerTypeOK(handler'),
         faults' \in 0..MaxFaults, stale' \in BOOLEAN
  PROVE  TypeOK'
  BY DEF TypeOK, DbType, MemType, QType, DeviceType, HandlerTypeOK, Stores

LEMMA JobsLikeType == TypeOK /\ JobsLike => QType'
  BY DEF TypeOK, JobsLike, QType

LEMMA StepType ==
  ASSUME IInv, [Next]_vars
  PROVE  TypeOK'
  <1>0. TypeOK /\ HandlerOK /\ MemoryBacked
    BY DEF IInv
  <1>1. /\ DbType /\ MemType /\ QType /\ DeviceType
        /\ HandlerTypeOK(handler) /\ stale \in BOOLEAN
        /\ Stores(dbApp) /\ Stores(regappMap)
        /\ regApp \in RegIds \union {None} /\ faults \in 0..MaxFaults
    BY <1>0, TypeParts DEF DbType, MemType
  <1>2. /\ "regDevice" \in Phases /\ "regUser" \in Phases
        /\ "regIds" \in Phases /\ "unregister" \in Phases
        /\ "unregDevice" \in Phases /\ "unregUser" \in Phases
        /\ {} \in SUBSET SendIds
        /\ Fresh \in InfoType \union {None} /\ None \in InfoType \union {None}
    BY FreshInfo DEF Phases
  <1>3. ASSUME NEW r \in RegIds, NEW ids \in SUBSET SendIds, RegisterApp(r, ids)
        PROVE  TypeOK'
    <2>1. HandlerTypeOK(handler')
      BY <1>1, <1>2, <1>3, HandlerValues DEF RegisterApp
    <2>2. Stores(dbApp')
      BY <1>1, <1>2, <1>3, StoreUpdates DEF RegisterApp
    <2>3. faults' \in 0..MaxFaults
      BY <1>0, <1>3, FaultType DEF RegisterApp
    <2>4. QED BY <1>1, <1>3, <2>1, <2>2, <2>3, NextTypeParts
              DEF RegisterApp, DbType, MemType, QType, DeviceType, memory, device
  <1>4. ASSUME NEW r \in RegIds, NEW n \in 1..MaxMsg, PushReply(r, n)
        PROVE  TypeOK'
    <2>1. Stores(regappMap') /\ QType'
      <3>1. CASE UNCHANGED <<regappMap, queue>>
        BY <1>1, <3>1 DEF QType
      <3>2. CASE ~UNCHANGED <<regappMap, queue>>
        <4>1. PICK new \in InfoType, j \in JobType :
                /\ Len(queue[worker]) < QueueCap
                /\ regappMap' = [regappMap EXCEPT ![r] = new]
                /\ queue' = [queue EXCEPT ![worker] = Append(@, j)]
          <5>1. Accepts(r, n)
            BY <1>4, <3>2, AcceptedReply
          <5>2. QED BY <5>1 DEF Accepts
        <4>2. worker \in Workers
          BY <1>4, AcceptedReply
        <4>3. QType'
          BY <1>0, <1>1, <4>1, <4>2, AppendJob, Bounds DEF QType
        <4>4. QED BY <1>1, <4>1, <4>3, StoreUpdates
      <3>3. QED BY <3>1, <3>2
    <2>2. /\ acked' \in [RegIds -> 0..MaxMsg]
          /\ UNCHANGED <<redis, regApp, worker, handler, known, faults, stale>>
      BY <1>4, AcceptedReply
    <2>3. QED BY <1>0, <1>1, <2>1, <2>2, NextTypeParts DEF DbType, MemType,
                 DeviceType, redis
  <1>5. CASE RegisterDevice
    <2>1. HandlerTypeOK(handler') /\ faults' \in 0..MaxFaults
      BY <1>0, <1>1, <1>2, <1>5, HandlerValues, FaultType DEF RegisterDevice
    <2>2. handler.reg \in RegIds
      BY <1>0, <1>5 DEF RegisterDevice, HandlerOK
    <2>3. QED BY <1>1, <1>5, <2>1, <2>2, NextTypeParts
              DEF RegisterDevice, DbType, MemType, QType, DeviceType, memory, device
  <1>6. CASE RegisterUser
    <2>0. faults' \in 0..MaxFaults
      BY <1>0, <1>6, FaultType DEF RegisterUser
    <2>1. HandlerTypeOK(handler')
      <3>1. CASE handler' = Idle
        BY <1>1, <1>2, <3>1, HandlerValues
      <3>2. CASE handler' = [handler EXCEPT !.pc = "regIds"]
        BY <1>1, <1>2, <3>2, HandlerValues
      <3>3. QED BY <1>6, <3>1, <3>2 DEF RegisterUser
    <2>2. handler.reg \in RegIds
      BY <1>0, <1>6 DEF RegisterUser, HandlerOK
    <2>3. Stores(regappMap')
      BY <1>1, <1>2, <1>6, <2>2, StoreUpdates DEF RegisterUser
    <2>4. DbType'
      BY <1>1, <1>6 DEF RegisterUser, DbType
    <2>5. QED BY <1>1, <1>6, <2>0, <2>1, <2>2, <2>3, <2>4, NextTypeParts
              DEF RegisterUser, Told, MemType, QType, DeviceType
  <1>7. CASE Unregister
    <2>1. HandlerTypeOK(handler') /\ faults' \in 0..MaxFaults
      BY <1>0, <1>1, <1>2, <1>7, HandlerValues, FaultType DEF Unregister
    <2>2. regApp \in RegIds
      BY <1>0, <1>1, <1>7, Bounds DEF Unregister, Requested, HandlerOK
    <2>3. Stores(dbApp')
      BY <1>1, <1>2, <1>7, <2>2, StoreUpdates DEF Unregister
    <2>4. QType'
      BY <1>0, <1>7, JobsOutlived, JobsLikeType DEF Unregister
    <2>5. QED BY <1>1, <1>7, <2>1, <2>3, <2>4, NextTypeParts
              DEF Unregister, DbType, MemType, DeviceType, memory, device
  <1>8. CASE UnregisterDevice
    <2>1. HandlerTypeOK(handler') /\ faults' \in 0..MaxFaults
      BY <1>0, <1>1, <1>2, <1>8, HandlerValues, FaultType DEF UnregisterDevice
    <2>2. QED BY <1>1, <1>8, <2>1, NextTypeParts
              DEF UnregisterDevice, DbType, MemType, QType, DeviceType, memory,
                  device
  <1>9. CASE UnregisterUser
    <2>1. HandlerTypeOK(handler') /\ faults' \in 0..MaxFaults
      BY <1>0, <1>1, <1>2, <1>9, HandlerValues, FaultType DEF UnregisterUser
    <2>2. handler.reg \in RegIds
      BY <1>0, <1>1, <1>9, Bounds DEF UnregisterUser, HandlerOK
    <2>3. Stores(regappMap')
      BY <1>1, <1>2, <1>9, <2>2, StoreUpdates DEF UnregisterUser
    <2>4. DbType'
      BY <1>1, <1>9 DEF UnregisterUser, DbType
    <2>5. QED BY <1>1, <1>9, <2>1, <2>3, <2>4, NextTypeParts
              DEF UnregisterUser, Told, MemType, QType, DeviceType
  <1>10. CASE ListRequest
    <2>1. Stores(dbApp') /\ Stores(regappMap') /\ QType' /\ faults' \in 0..MaxFaults
      <3>1. CASE ListStep
        <4>1. PICK new \in InfoType, left \in InfoType :
                Put(new) \/ PutFails(new, left)
          BY <3>1 DEF ListStep
        <4>2. regApp \in RegIds
          BY <1>10 DEF ListRequest, InSession
        <4>3. QType'
          BY <1>0, <3>1, JobsLikeType DEF ListStep
        <4>4. Stores(dbApp') /\ Stores(regappMap')
          BY <1>1, <4>1, <4>2, StoreUpdates DEF Put, PutFails
        <4>5. QED BY <1>0, <4>1, <4>3, <4>4, FaultType DEF Put, PutFails
      <3>2. CASE UNCHANGED <<dbApp, regappMap, queue, faults>>
        BY <1>0, <1>1, <3>2 DEF QType, TypeOK
      <3>3. QED BY <1>10, <3>1, <3>2 DEF ListRequest
    <2>2. HandlerTypeOK(handler')
      <3>1. HandlerTypeOK(Idle) /\ HandlerTypeOK(handler)
            /\ HandlerTypeOK([pc |-> "unregister", reg |-> regApp, ids |-> {}])
        BY <1>1, <1>2, HandlerValues
      <3>2. QED BY <1>10, <3>1 DEF ListRequest
    <2>3. QED BY <1>1, <1>10, <2>1, <2>2, NextTypeParts
              DEF ListRequest, DbType, MemType, DeviceType
  <1>11. ASSUME NEW w \in Workers, ConnectListed(w)
         PROVE  TypeOK'
    <2>1. Stores(regappMap') /\ regApp' \in RegIds \union {None}
      <3>1. known \in RegIds
        BY <1>1, <1>11, Bounds DEF ConnectListed, DeviceType
      <3>2. dbApp[known] \in InfoType \union {None}
        BY <1>1, <3>1 DEF Stores
      <3>3. QED BY <1>1, <1>11, <3>1, <3>2, StoreUpdates DEF ConnectListed, memory
    <2>2. faults' \in 0..MaxFaults
      BY <1>0, <1>11, FaultType DEF ConnectListed
    <2>3. QED BY <1>1, <1>11, <2>1, <2>2, NextTypeParts
              DEF ConnectListed, DbType, MemType, QType, DeviceType, redis, device
  <1>12. ASSUME NEW w \in Workers, ConnectUnlisted(w)
         PROVE  TypeOK'
    BY <1>0, <1>1, <1>12, NextTypeParts
       DEF ConnectUnlisted, DbType, MemType, QType, DeviceType, redis, memory
  <1>13. ASSUME NEW w \in Workers, ConnectSync(w)
         PROVE  TypeOK'
    <2>1. /\ Stores(regappMap') /\ regApp' \in RegIds \union {None}
          /\ known' \in RegIds \union {None}
      <3>1. CASE dbDevice # None /\ dbApp[dbDevice] # None
        <4>1. dbDevice \in RegIds
          BY <1>1, <3>1 DEF DbType
        <4>2. /\ dbApp[dbDevice] \in InfoType \union {None}
              /\ regappMap[dbDevice] \in InfoType \union {None}
          BY <1>1, <4>1 DEF Stores
        <4>3. QED BY <1>1, <1>13, <3>1, <4>1, <4>2, StoreUpdates
                  DEF ConnectSync, Told, memory, DeviceType
      <3>2. CASE ~(dbDevice # None /\ dbApp[dbDevice] # None)
        BY <1>1, <1>13, <3>2 DEF ConnectSync, Told, memory, DeviceType
      <3>3. QED BY <3>1, <3>2
    <2>2. faults' \in 0..MaxFaults
      BY <1>0, <1>13, FaultType DEF ConnectSync
    <2>3. QED BY <1>1, <1>13, <2>1, <2>2, NextTypeParts
              DEF ConnectSync, DbType, MemType, QType, DeviceType, redis
  <1>14. ASSUME NEW w \in Workers, UpdateJob(w)
         PROVE  TypeOK'
    <2> DEFINE job == Head(queue[w])
    <2>1. /\ job \in JobType /\ job.reg \in RegIds
          /\ job.info \in InfoType \union {None}
      BY <1>0, <1>14, TailJobs, JobFields DEF UpdateJob
    <2>2. QType'
      BY <1>0, <1>1, <1>14, TailJobs, Bounds DEF UpdateJob, QType
    <2>3. Stores(dbApp')
      <3>1. dbApp' = dbApp \/ dbApp' = [dbApp EXCEPT ![job.reg] = job.info]
        BY <1>14 DEF UpdateJob
      <3> HIDE DEF job
      <3>2. QED BY <1>1, <2>1, <3>1, StoreUpdates
    <2>4. faults' \in 0..MaxFaults /\ stale' \in BOOLEAN
      BY <1>0, <1>1, <1>14, <2>1, FaultType, JobFields DEF UpdateJob
    <2>5. QED BY <1>1, <1>14, <2>2, <2>3, <2>4, NextTypeParts
              DEF UpdateJob, DbType, MemType, DeviceType, memory, device
  <1>15. CASE Disconnect
    <2>1. QType'
      BY <1>0, <1>15, JobsOutlived, JobsLikeType DEF Disconnect
    <2>2. Stores(regappMap')
      BY <1>1, <1>15 DEF Disconnect, Stores
    <2>3. QED BY <1>0, <1>1, <1>15, <2>1, <2>2, NextTypeParts
              DEF Disconnect, DbType, MemType, DeviceType, redis, device
  <1>16. CASE Exit
    <2>1. QType'
      BY <1>16, EmptySeq, Bounds DEF Exit, QType
    <2>2. Stores(regappMap')
      BY <1>16 DEF Exit, Stores
    <2>3. HandlerTypeOK(handler') /\ faults' \in 0..MaxFaults
      BY <1>0, <1>2, <1>16, HandlerValues, FaultType DEF Exit
    <2>4. QED BY <1>1, <1>16, <2>1, <2>2, <2>3, NextTypeParts
              DEF Exit, DbType, MemType, DeviceType, redis, device
  <1>17. CASE UNCHANGED vars
    BY <1>0, <1>17 DEF TypeOK, vars, redis, memory, device
  <1>18. QED BY <1>3, <1>4, <1>5, <1>6, <1>7, <1>8, <1>9, <1>10, <1>11, <1>12,
                <1>13, <1>14, <1>15, <1>16, <1>17, Steps DEF Registering

-----------------------------------------------------------------------------
(* Each step keeps HandlerOK and MemoryBacked.                             *)
LEMMA HandlerMoves ==
  ASSUME TypeOK, NEW pc \in Phases \ {"idle"}
  PROVE  /\ LET h == [handler EXCEPT !.pc = pc]
            IN h.pc = pc /\ h.reg = handler.reg /\ h # Idle
         /\ \A r, ids : LET h == [pc |-> pc, reg |-> r, ids |-> ids]
                        IN h.pc = pc /\ h.reg = r /\ h # Idle
         /\ Idle.pc = "idle"
  BY DEF TypeOK, Idle

LEMMA PhaseMoves ==
  ASSUME TypeOK
  PROVE  /\ handler' = [handler EXCEPT !.pc = "regUser"] =>
              handler'.pc = "regUser"
         /\ handler' = [handler EXCEPT !.pc = "unregUser"] =>
              handler'.pc = "unregUser"
         /\ handler' = [pc |-> "unregDevice", reg |-> regApp, ids |-> {}] =>
              handler'.pc = "unregDevice"
  BY DEF TypeOK

LEMMA StepHandlerOK ==
  ASSUME IInv, [Next]_vars
  PROVE  HandlerOK'
  <1>1. /\ TypeOK /\ HandlerOK /\ Idle.pc = "idle"
        /\ \A r \in RegIds : r # None
        /\ \A w \in Workers : w # None
    BY Bounds DEF IInv, Idle
  <1>2. /\ "regDevice" \in Phases \ {"idle"} /\ "regUser" \in Phases \ {"idle"}
        /\ "regIds" \in Phases \ {"idle"} /\ "unregister" \in Phases \ {"idle"}
        /\ "unregDevice" \in Phases \ {"idle"}
        /\ "unregUser" \in Phases \ {"idle"}
    BY DEF Phases
  <1>3. ASSUME NEW r \in RegIds, NEW ids \in SUBSET SendIds, RegisterApp(r, ids)
        PROVE  HandlerOK'
    BY <1>1, <1>2, <1>3, HandlerMoves DEF RegisterApp, Ready, HandlerOK, memory
  <1>4. ASSUME NEW r \in RegIds, NEW n \in 1..MaxMsg, PushReply(r, n)
        PROVE  HandlerOK'
    BY <1>1, <1>4 DEF PushReply, HandlerOK
  <1>5. CASE RegisterDevice
    BY <1>1, <1>2, <1>5, HandlerMoves DEF RegisterDevice, HandlerOK, memory
  <1>6. CASE RegisterUser
    <2>1. /\ regApp' = handler.reg /\ handler.reg \in RegIds /\ worker' # None
      BY <1>1, <1>6 DEF RegisterUser, HandlerOK
    <2>2. CASE handler' = Idle
      BY <1>1, <2>1, <2>2 DEF HandlerOK
    <2>3. CASE handler' = [handler EXCEPT !.pc = "regIds"]
      BY <1>1, <1>2, <2>1, <2>3, HandlerMoves DEF HandlerOK
    <2>4. QED BY <1>6, <2>2, <2>3 DEF RegisterUser
  <1>7. CASE Unregister
    <2>1. regApp # None /\ worker # None
      BY <1>1, <1>7 DEF Unregister, Requested, HandlerOK
    <2>2. QED BY <1>1, <1>2, <1>7, <2>1, HandlerMoves
              DEF Unregister, HandlerOK, memory
  <1>8. CASE UnregisterDevice
    BY <1>1, <1>2, <1>8, HandlerMoves DEF UnregisterDevice, HandlerOK, memory
  <1>9. CASE UnregisterUser
    BY <1>1, <1>9 DEF UnregisterUser, HandlerOK
  <1>10. CASE ListRequest
    <2>1. regApp' = regApp /\ worker' = worker /\ regApp # None /\ worker # None
      BY <1>1, <1>10 DEF ListRequest, InSession
    <2>2. CASE handler' = Idle \/ handler' = handler
      BY <1>1, <2>1, <2>2 DEF HandlerOK
    <2>3. CASE handler' = [pc |-> "unregister", reg |-> regApp, ids |-> {}]
      BY <1>1, <1>2, <2>1, <2>3, HandlerMoves DEF HandlerOK
    <2>4. QED BY <1>10, <2>2, <2>3 DEF ListRequest
  <1>11. ASSUME NEW w \in Workers,
                ConnectListed(w) \/ ConnectUnlisted(w) \/ ConnectSync(w)
         PROVE  HandlerOK'
    <2>1. handler = Idle /\ handler' = Idle /\ worker' # None
      BY <1>1, <1>11 DEF ConnectListed, ConnectUnlisted, ConnectSync, HandlerOK
    <2>2. QED BY <1>1, <2>1 DEF HandlerOK
  <1>12. ASSUME NEW w \in Workers, UpdateJob(w)
         PROVE  HandlerOK'
    BY <1>1, <1>12 DEF UpdateJob, HandlerOK, memory
  <1>13. CASE Disconnect \/ Exit
    <2>1. handler' = Idle /\ regApp' = None /\ worker' = None
      BY <1>13 DEF Disconnect, Exit, Ready
    <2>2. QED BY <1>1, <2>1 DEF HandlerOK
  <1>14. CASE UNCHANGED vars
    BY <1>1, <1>14 DEF HandlerOK, vars, memory
  <1>15. QED BY <1>3, <1>4, <1>5, <1>6, <1>7, <1>8, <1>9, <1>10, <1>11, <1>12,
                <1>13, <1>14, Steps DEF Registering

LEMMA StepMemoryBacked ==
  ASSUME IInv, [Next]_vars
  PROVE  MemoryBacked'
  <1>1. /\ TypeOK /\ HandlerOK /\ MemoryBacked
        /\ \A r \in RegIds : r # None
        /\ \A w \in Workers : w # None
    BY Bounds DEF IInv
  <1>2. /\ regappMap \in [RegIds -> InfoType \union {None}]
        /\ \A i \in InfoType : i # None
    BY <1>1, Bounds DEF TypeOK
  <1>3. ASSUME NEW r \in RegIds, NEW n \in 1..MaxMsg, PushReply(r, n)
        PROVE  MemoryBacked'
    <2>1. regApp' = regApp /\ worker' = worker
      BY <1>3 DEF PushReply
    <2>2. \A s \in RegIds : regappMap'[s] # None <=> regappMap[s] # None
      <3>1. CASE Accepts(r, n)
        BY <1>2, <3>1 DEF Accepts, InSession
      <3>2. CASE UNCHANGED <<regappMap, queue>>
        BY <3>2
      <3>3. QED BY <1>3, <3>1, <3>2, AcceptedReply
    <2>3. QED BY <1>1, <2>1, <2>2 DEF MemoryBacked
  <1>4. CASE RegisterUser
    <2>1. /\ handler.reg \in RegIds /\ regApp = None /\ worker # None
          /\ regApp' = handler.reg /\ worker' = worker
          /\ regappMap' = [regappMap EXCEPT ![handler.reg] = Fresh]
      BY <1>1, <1>4 DEF RegisterUser, HandlerOK
    <2>2. \A s \in RegIds : regappMap[s] = None
      BY <1>1, <2>1 DEF MemoryBacked
    <2>3. QED BY <1>2, <2>1, <2>2, FreshInfo DEF MemoryBacked
  <1>5. CASE UnregisterUser
    <2>1. /\ regApp # None /\ handler.reg = regApp /\ regApp' = None
          /\ regappMap' = [regappMap EXCEPT ![regApp] = None]
      BY <1>1, <1>5 DEF UnregisterUser, HandlerOK
    <2>2. QED BY <1>1, <1>2, <2>1 DEF MemoryBacked
  <1>6. CASE ListRequest
    <2>1. regApp' = regApp /\ worker' = worker
      BY <1>6 DEF ListRequest
    <2>2. \A s \in RegIds : regappMap'[s] # None <=> regappMap[s] # None
      <3>1. CASE ListStep
        <4>1. PICK v \in InfoType : regappMap' = [regappMap EXCEPT ![regApp] = v]
          BY <3>1 DEF ListStep, Put, PutFails
        <4>2. QED BY <1>2, <1>6, <4>1 DEF ListRequest, InSession
      <3>2. CASE UNCHANGED <<dbApp, regappMap, queue, faults>>
        BY <3>2
      <3>3. QED BY <1>6, <3>1, <3>2 DEF ListRequest
    <2>3. QED BY <1>1, <2>1, <2>2 DEF MemoryBacked
  <1>7. ASSUME NEW w \in Workers, ConnectListed(w) \/ ConnectSync(w)
        PROVE  MemoryBacked'
    <2>1. /\ worker = None /\ worker' # None /\ regApp = None
          /\ \A s \in RegIds : regappMap[s] = None
      BY <1>1, <1>7 DEF ConnectListed, ConnectSync, HandlerOK, MemoryBacked
    <2>2. CASE UNCHANGED memory
      BY <1>1, <2>1, <2>2 DEF MemoryBacked, memory
    <2>3. CASE ~UNCHANGED memory
      <3>1. PICK r \in RegIds :
              /\ regApp' = r /\ dbApp[r] # None
              /\ regappMap' = [regappMap EXCEPT ![r] = dbApp[r]]
        <4>1. known \in RegIds \union {None} /\ dbDevice \in RegIds \union {None}
          BY <1>1 DEF TypeOK
        <4>2. QED BY <1>7, <2>1, <2>3, <4>1 DEF ConnectListed, ConnectSync
      <3>2. QED BY <1>1, <1>2, <2>1, <3>1 DEF MemoryBacked
    <2>4. QED BY <2>2, <2>3
  <1>8. CASE Disconnect \/ Exit
    <2>1. worker' = None /\ \A s \in RegIds : regappMap'[s] = None
      BY <1>1, <1>2, <1>8 DEF Disconnect, Exit, MemoryBacked
    <2>2. QED BY <2>1 DEF MemoryBacked
  <1>9. ASSUME UNCHANGED <<regappMap, regApp>>, worker' = worker
        PROVE  MemoryBacked'
    BY <1>1, <1>9 DEF MemoryBacked
  <1>10. ASSUME NEW w \in Workers, ConnectUnlisted(w)
         PROVE  MemoryBacked'
    <2>1. /\ worker = None /\ worker' # None /\ regApp = None
          /\ UNCHANGED <<regappMap, regApp>>
      BY <1>1, <1>10 DEF ConnectUnlisted, HandlerOK, memory
    <2>2. QED BY <1>1, <2>1 DEF MemoryBacked
  <1>11. CASE \E r \in RegIds : Registering(r)
    BY <1>9, <1>11 DEF Registering, RegisterApp, memory
  <1>12. CASE RegisterDevice \/ Unregister \/ UnregisterDevice
    BY <1>9, <1>12 DEF RegisterDevice, Unregister, UnregisterDevice, memory
  <1>13. CASE \E w \in Workers : UpdateJob(w)
    BY <1>9, <1>13 DEF UpdateJob, memory
  <1>14. CASE UNCHANGED vars
    BY <1>9, <1>14 DEF vars, memory
  <1>15. QED BY <1>3, <1>4, <1>5, <1>6, <1>7, <1>8, <1>10, <1>11, <1>12, <1>13,
                <1>14, Steps

-----------------------------------------------------------------------------
(* Each step keeps AckedOnly.                                              *)
AckedIn(f) == \A r \in RegIds : f[r] # None => f[r].last <= acked[r]

JobsAcked ==
  \A w \in Workers : \A i \in DOMAIN queue[w] :
    queue[w][i].info.last <= acked[queue[w][i].reg]

LEMMA AckedParts ==
  TypeOK => (AckedOnly <=> AckedIn(regappMap) /\ AckedIn(dbApp) /\ JobsAcked)
  <1> SUFFICES ASSUME TypeOK
               PROVE  AckedOnly <=> AckedIn(regappMap) /\ AckedIn(dbApp) /\ JobsAcked
    OBVIOUS
  <1>1. \A w \in Workers : \A i \in DOMAIN queue[w] : queue[w][i].reg \in RegIds
    BY QueueType, JobFields
  <1>2. QED BY <1>1 DEF AckedOnly, AckedIn, JobsAcked

LEMMA NextAcked ==
  ASSUME TypeOK', JobsAcked',
         \A r \in RegIds : regappMap'[r] # None => regappMap'[r].last <= acked'[r],
         \A r \in RegIds : dbApp'[r] # None => dbApp'[r].last <= acked'[r]
  PROVE  AckedOnly'
  BY DEF AckedOnly, JobsAcked

LEMMA LikeAcked ==
  ASSUME TypeOK, JobsAcked, JobsLike, acked' = acked
  PROVE  JobsAcked'
  <1>1. ASSUME NEW w \in Workers, NEW i \in DOMAIN queue'[w]
        PROVE  queue'[w][i].info.last <= acked[queue'[w][i].reg]
    <2>1. i \in DOMAIN queue[w] /\ Like(queue[w][i], queue'[w][i])
      BY <1>1 DEF JobsLike
    <2>2. QED BY <2>1 DEF Like, JobsAcked
  <1>2. QED BY <1>1 DEF JobsAcked

(* A snapshot of another place is as safe as the place.                    *)
LEMMA StoreAcked ==
  ASSUME NEW f, Stores(f), AckedIn(f), NEW r \in RegIds,
         NEW v \in InfoType \union {None}, v # None => v.last <= acked[r],
         NEW g, g \in {f, [f EXCEPT ![r] = v]}
  PROVE  AckedIn(g)
  BY DEF Stores, AckedIn

LEMMA StepAckedOnly ==
  ASSUME IInv, [Next]_vars
  PROVE  AckedOnly'
  <1>1. /\ TypeOK /\ HandlerOK /\ MemoryBacked /\ TypeOK'
        /\ AckedIn(regappMap) /\ AckedIn(dbApp) /\ JobsAcked
        /\ \A r \in RegIds : r # None
        /\ \A w \in Workers : w # None
    BY Bounds, StepType, AckedParts DEF IInv
  <1>2. /\ Stores(regappMap) /\ Stores(dbApp)
        /\ \A i \in InfoType : i # None
        /\ \A r \in RegIds : acked[r] \in Nat
        /\ dbDevice \in RegIds \union {None} /\ known \in RegIds \union {None}
    <2>1. acked \in [RegIds -> 0..MaxMsg] /\ MaxMsg \in Nat
      BY <1>1, Bounds DEF TypeOK
    <2>2. \A r \in RegIds : acked[r] \in Nat
      BY <2>1
    <2>3. QED BY <1>1, <2>2, Bounds DEF TypeOK, Stores
  <1>3. ASSUME acked' = acked, JobsLike, AckedIn(regappMap'), AckedIn(dbApp')
        PROVE  AckedOnly'
    <2>1. JobsAcked'
      BY <1>1, <1>3, LikeAcked
    <2>2. QED BY <1>1, <1>3, <2>1, NextAcked DEF AckedIn
  <1>4. queue' = queue => JobsLike
    BY <1>1, JobsUnchanged
  <1>5. ASSUME NEW r \in RegIds, NEW ids \in SUBSET SendIds, RegisterApp(r, ids)
        PROVE  AckedOnly'
    <2>1. dbApp' \in {dbApp, [dbApp EXCEPT ![r] = Fresh]}
      BY <1>5 DEF RegisterApp
    <2>2. Fresh \in InfoType \union {None} /\ Fresh.last <= acked[r]
      BY <1>2, FreshInfo
    <2>3. AckedIn(dbApp')
      BY <1>1, <1>2, <2>1, <2>2, StoreAcked
    <2>4. QED BY <1>1, <1>3, <1>4, <1>5, <2>3 DEF RegisterApp, memory, device
  <1>6. ASSUME NEW r \in RegIds, NEW n \in 1..MaxMsg, PushReply(r, n)
        PROVE  AckedOnly'
    <2>1. /\ dbApp' = dbApp /\ acked'[r] >= n /\ worker \in Workers
          /\ \A x \in RegIds : acked'[x] \in Nat /\ acked'[x] >= acked[x]
      BY <1>2, <1>6, AcceptedReply, Bounds DEF redis
    <2>2. ASSUME NEW x \in RegIds, dbApp'[x] # None
          PROVE  dbApp'[x].last <= acked'[x]
      BY <1>1, <1>2, <2>1, <2>2, InfoFields, Bounds DEF AckedIn, Stores
    <2>3. CASE UNCHANGED <<regappMap, queue>>
      <3>1. ASSUME NEW x \in RegIds, regappMap'[x] # None
            PROVE  regappMap'[x].last <= acked'[x]
        BY <1>1, <1>2, <2>1, <2>3, <3>1, InfoFields, Bounds DEF AckedIn, Stores
      <3>2. JobsAcked'
        <4>1. ASSUME NEW w \in Workers, NEW i \in DOMAIN queue[w]
              PROVE  queue[w][i].info.last <= acked'[queue[w][i].reg]
          <5>1. /\ queue[w][i].reg \in RegIds
                /\ queue[w][i].info.last \in Nat
            BY <1>1, QueueType, JobFields, InfoFields, Bounds
          <5>2. QED BY <1>1, <1>2, <2>1, <5>1 DEF JobsAcked
        <4>2. QED BY <2>3, <4>1 DEF JobsAcked
      <3>3. QED BY <1>1, <2>2, <3>1, <3>2, NextAcked
    <2>4. CASE Accepts(r, n)
      <3>1. PICK new \in InfoType, j \in JobType :
              /\ new.last = n /\ j.reg = r /\ j.info = new
              /\ regappMap' = [regappMap EXCEPT ![r] = new]
              /\ queue' = [queue EXCEPT ![worker] = Append(@, j)]
        BY <2>4 DEF Accepts
      <3>2. ASSUME NEW x \in RegIds, regappMap'[x] # None
            PROVE  regappMap'[x].last <= acked'[x]
        <4>1. CASE x = r
          BY <1>2, <2>1, <3>1, <4>1 DEF Stores
        <4>2. CASE x # r
          BY <1>1, <1>2, <2>1, <3>1, <3>2, <4>2, InfoFields, Bounds
             DEF AckedIn, Stores
        <4>3. QED BY <4>1, <4>2
      <3>3. JobsAcked'
        <4>1. ASSUME NEW w \in Workers, NEW i \in DOMAIN queue[w]
              PROVE  queue[w][i].info.last <= acked'[queue[w][i].reg]
          <5>1. /\ queue[w][i].reg \in RegIds
                /\ queue[w][i].info.last \in Nat
            BY <1>1, QueueType, JobFields, InfoFields, Bounds
          <5>2. QED BY <1>1, <1>2, <2>1, <5>1 DEF JobsAcked
        <4>2. ASSUME NEW w \in Workers, NEW i \in DOMAIN queue'[w]
              PROVE  queue'[w][i].info.last <= acked'[queue'[w][i].reg]
          <5>1. \/ i \in DOMAIN queue[w] /\ queue'[w][i] = queue[w][i]
                \/ queue'[w][i] = j
            <6>1. CASE w = worker
              <7>1. i \in 1..(Len(queue[w]) + 1) /\ Len(queue[w]) \in Nat
                    /\ DOMAIN queue[w] = 1..Len(queue[w])
                BY <1>1, <2>1, <3>1, <4>2, <6>1, AppendJob, QueueType
              <7>2. QED BY <1>1, <2>1, <3>1, <6>1, <7>1, AppendJob
            <6>2. CASE w # worker
              BY <1>1, <2>1, <3>1, <4>2, <6>2, AppendJob
            <6>3. QED BY <6>1, <6>2
          <5>2. QED BY <2>1, <3>1, <4>1, <5>1
        <4>3. QED BY <4>2 DEF JobsAcked
      <3>4. QED BY <1>1, <2>2, <3>2, <3>3, NextAcked
    <2>5. QED BY <1>6, <2>3, <2>4, AcceptedReply
  <1>7. CASE RegisterDevice \/ UnregisterDevice
    BY <1>1, <1>3, <1>4, <1>7 DEF RegisterDevice, UnregisterDevice, memory, device
  <1>8. CASE RegisterUser
    <2>1. handler.reg \in RegIds
      BY <1>1, <1>8 DEF RegisterUser, HandlerOK
    <2>2. Fresh \in InfoType \union {None} /\ Fresh.last <= acked[handler.reg]
      BY <1>2, <2>1, FreshInfo
    <2>3. AckedIn(regappMap')
      BY <1>1, <1>2, <1>8, <2>1, <2>2, StoreAcked DEF RegisterUser
    <2>4. QED BY <1>1, <1>3, <1>4, <1>8, <2>3 DEF RegisterUser
  <1>9. CASE Unregister
    <2>1. AckedIn(dbApp')
      BY <1>1, <1>2, <1>9 DEF Unregister, AckedIn, Stores
    <2>2. QED BY <1>1, <1>3, <1>9, <2>1, JobsOutlived DEF Unregister, memory, device
  <1>10. CASE UnregisterUser
    <2>1. AckedIn(regappMap')
      BY <1>1, <1>2, <1>10 DEF UnregisterUser, AckedIn, Stores
    <2>2. QED BY <1>1, <1>3, <1>4, <1>10, <2>1 DEF UnregisterUser
  <1>11. CASE ListRequest
    <2>1. CASE ListStep
      <3>1. PICK new \in InfoType, left \in InfoType :
              /\ Put(new) \/ PutFails(new, left)
              /\ new.last = regappMap[regApp].last
              /\ left.last = regappMap[regApp].last
        BY <2>1 DEF ListStep
      <3>2. /\ regApp \in RegIds /\ regappMap[regApp].last <= acked[regApp]
        BY <1>1, <1>2, <1>11 DEF ListRequest, InSession, AckedIn
      <3>3. AckedIn(dbApp') /\ AckedIn(regappMap')
        BY <1>1, <1>2, <3>1, <3>2, StoreAcked DEF Put, PutFails
      <3>4. QED BY <1>3, <1>11, <2>1, <3>3 DEF ListRequest, ListStep
    <2>2. CASE UNCHANGED <<dbApp, regappMap, queue, faults>>
      BY <1>1, <1>3, <1>4, <1>11, <2>2 DEF ListRequest
    <2>3. QED BY <1>11, <2>1, <2>2 DEF ListRequest
  <1>12. ASSUME NEW w \in Workers, ConnectListed(w) \/ ConnectSync(w)
         PROVE  AckedOnly'
    <2>1. AckedIn(regappMap')
      <3>1. CASE UNCHANGED memory
        BY <1>1, <3>1 DEF memory
      <3>2. CASE ~UNCHANGED memory
        <4>1. worker = None /\ \A x \in RegIds : regappMap[x] = None
          BY <1>1, <1>12 DEF ConnectListed, ConnectSync, MemoryBacked
        <4>2. PICK r \in RegIds :
                dbApp[r] # None /\ regappMap' = [regappMap EXCEPT ![r] = dbApp[r]]
          BY <1>2, <1>12, <3>2, <4>1 DEF ConnectListed, ConnectSync
        <4>3. dbApp[r] \in InfoType \union {None} /\ dbApp[r].last <= acked[r]
          BY <1>1, <1>2, <4>2 DEF AckedIn, Stores
        <4>4. QED BY <1>1, <1>2, <4>2, <4>3, StoreAcked
      <3>3. QED BY <3>1, <3>2
    <2>2. QED BY <1>1, <1>3, <1>4, <1>12, <2>1
              DEF ConnectListed, ConnectSync, redis, device
  <1>13. CASE \E w \in Workers : ConnectUnlisted(w)
    BY <1>1, <1>3, <1>4, <1>13 DEF ConnectUnlisted, redis, memory
  <1>14. ASSUME NEW w \in Workers, UpdateJob(w)
         PROVE  AckedOnly'
    <2> DEFINE job == Head(queue[w])
    <2>1. /\ queue[w] # <<>> /\ queue' = [queue EXCEPT ![w] = Tail(@)]
          /\ dbApp' \in {dbApp, [dbApp EXCEPT ![job.reg] = job.info]}
          /\ acked' = acked /\ regappMap' = regappMap
      BY <1>14 DEF UpdateJob, memory, device
    <2>2. /\ Len(queue[w]) \in Nat \ {0} /\ job = queue[w][1] /\ job \in JobType
          /\ DOMAIN queue'[w] = 1..(Len(queue[w]) - 1)
          /\ \A i \in 1..(Len(queue[w]) - 1) : queue'[w][i] = queue[w][i + 1]
          /\ \A v \in Workers \ {w} : queue'[v] = queue[v]
      BY <1>1, <2>1, TailJobs
    <2>3. DOMAIN queue[w] = 1..Len(queue[w])
      BY <1>1, QueueType
    <2> HIDE DEF job
    <2>4. AckedIn(dbApp')
      <3>1. job.reg \in RegIds /\ job.info \in InfoType \union {None}
        BY <2>2, JobFields
      <3>2. job.info.last <= acked[job.reg]
        BY <1>1, <2>2, <2>3 DEF JobsAcked
      <3>3. QED BY <1>1, <1>2, <2>1, <3>1, <3>2, StoreAcked
    <2>5. ASSUME NEW v \in Workers, NEW i \in DOMAIN queue'[v]
          PROVE  queue'[v][i].info.last <= acked[queue'[v][i].reg]
      <3>1. CASE v = w
        <4>1. i + 1 \in DOMAIN queue[w] /\ queue'[w][i] = queue[w][i + 1]
          BY <2>2, <2>3, <2>5, <3>1
        <4>2. QED BY <1>1, <3>1, <4>1 DEF JobsAcked
      <3>2. CASE v # w
        BY <1>1, <2>2, <2>5, <3>2 DEF JobsAcked
      <3>3. QED BY <3>1, <3>2
    <2>6. JobsAcked'
      BY <2>1, <2>5 DEF JobsAcked
    <2>7. QED BY <1>1, <2>1, <2>4, <2>6, NextAcked DEF AckedIn
  <1>15. CASE Disconnect
    <2>1. AckedIn(regappMap')
      BY <1>1, <1>15 DEF Disconnect, AckedIn
    <2>2. QED BY <1>1, <1>3, <1>15, <2>1, JobsOutlived DEF Disconnect, redis, device
  <1>16. CASE Exit
    <2>1. JobsAcked'
      BY <1>16 DEF Exit, JobsAcked
    <2>2. QED BY <1>1, <1>16, <2>1, NextAcked DEF Exit, AckedIn, redis, device
  <1>17. CASE UNCHANGED vars
    BY <1>1, <1>3, <1>4, <1>17 DEF vars, redis, memory, device
  <1>18. QED BY <1>5, <1>6, <1>7, <1>8, <1>9, <1>10, <1>11, <1>12, <1>13, <1>14,
                <1>15, <1>16, <1>17, Steps DEF Registering

-----------------------------------------------------------------------------
(* Each step keeps LiveJobs.                                               *)

(* j is the last live job of its queue, if it is live.                     *)
Latest(w, i) == \A k \in DOMAIN queue[w] : k > i => ~queue[w][k].live

LEMMA LiveJobsOf ==
  ASSUME LiveJobs, NEW w \in Workers, NEW i \in DOMAIN queue[w],
         queue[w][i].live
  PROVE  /\ w = worker /\ queue[w][i].reg = regApp /\ regApp # None /\ Settled
         /\ Latest(w, i) => queue[w][i].info.last = regappMap[regApp].last
  BY DEF LiveJobs, Latest

LEMMA NoneLive ==
  ASSUME \A w \in Workers : \A i \in DOMAIN queue'[w] : ~queue'[w][i].live
  PROVE  LiveJobs'
  BY DEF LiveJobs

LEMMA StepLiveJobs ==
  ASSUME IInv, [Next]_vars
  PROVE  LiveJobs'
  <1>1. /\ TypeOK /\ HandlerOK /\ LiveJobs
        /\ \A r \in RegIds : r # None
        /\ \A w \in Workers : w # None
    BY Bounds DEF IInv
  <1>2. ASSUME queue' = queue, regApp = None \/ worker = None \/ ~Settled
        PROVE  LiveJobs'
    BY <1>1, <1>2, LiveJobsOf, NoneLive
  <1>3. CASE \E r \in RegIds : Registering(r)
    BY <1>2, <1>3 DEF Registering, RegisterApp
  <1>4. CASE RegisterDevice \/ RegisterUser
    <2>1. ~Settled
      BY <1>4 DEF RegisterDevice, RegisterUser, Settled
    <2>2. QED BY <1>2, <1>4, <2>1 DEF RegisterDevice, RegisterUser
  <1>5. CASE UnregisterDevice \/ UnregisterUser
    <2>1. ~Settled
      BY <1>5 DEF UnregisterDevice, UnregisterUser, Settled
    <2>2. QED BY <1>2, <1>5, <2>1 DEF UnregisterDevice, UnregisterUser
  <1>6. CASE Unregister \/ Disconnect
    BY <1>1, <1>6, JobsOutlived, NoneLive DEF Unregister, Disconnect
  <1>7. CASE Exit
    BY <1>7 DEF Exit, LiveJobs
  <1>8. ASSUME NEW w \in Workers,
               ConnectListed(w) \/ ConnectUnlisted(w) \/ ConnectSync(w)
        PROVE  LiveJobs'
    BY <1>2, <1>8 DEF ConnectListed, ConnectUnlisted, ConnectSync
  <1>9. CASE ListRequest
    <2>1. /\ UNCHANGED <<worker, regApp>> /\ regApp \in RegIds
          /\ regappMap[regApp] \in InfoType
      BY <1>9 DEF ListRequest, InSession
    <2>2. Settled'
      <3>1. handler'.pc \in {"idle", handler.pc, "unregister"} /\ Settled
        BY <1>9 DEF ListRequest, Idle
      <3>2. QED BY <3>1 DEF Settled
    <2>3. /\ JobsLike /\ SameLive
          /\ regappMap'[regApp].last = regappMap[regApp].last
      <3>1. CASE ListStep
        <4>1. PICK new \in InfoType, left \in InfoType :
                /\ Put(new) \/ PutFails(new, left)
                /\ new.last = regappMap[regApp].last
                /\ left.last = regappMap[regApp].last
          BY <3>1 DEF ListStep
        <4>2. QED BY <1>1, <2>1, <3>1, <4>1 DEF ListStep, Put, PutFails, TypeOK
      <3>2. CASE UNCHANGED <<dbApp, regappMap, queue, faults>>
        BY <1>1, <3>2, JobsUnchanged
      <3>3. QED BY <1>9, <3>1, <3>2 DEF ListRequest
    <2>4. ASSUME NEW w \in Workers, NEW i \in DOMAIN queue'[w], queue'[w][i].live
          PROVE  /\ w = worker' /\ queue'[w][i].reg = regApp' /\ regApp' # None
                 /\ Settled'
                 /\ (\A k \in DOMAIN queue'[w] : k > i => ~queue'[w][k].live) =>
                      queue'[w][i].info.last = regappMap'[regApp'].last
      <3>1. /\ DOMAIN queue'[w] = DOMAIN queue[w]
            /\ \A k \in DOMAIN queue[w] :
                 /\ Like(queue[w][k], queue'[w][k])
                 /\ queue'[w][k].live = queue[w][k].live
        BY <2>3 DEF JobsLike, SameLive
      <3>2. /\ queue[w][i].live /\ queue'[w][i].reg = queue[w][i].reg
            /\ queue'[w][i].info.last = queue[w][i].info.last
        BY <2>4, <3>1 DEF Like
      <3>3. /\ w = worker /\ queue[w][i].reg = regApp
            /\ Latest(w, i) => queue[w][i].info.last = regappMap[regApp].last
        BY <1>1, <2>4, <3>1, <3>2, LiveJobsOf
      <3>4. (\A k \in DOMAIN queue'[w] : k > i => ~queue'[w][k].live)
              => Latest(w, i)
        BY <3>1 DEF Latest
      <3>5. QED BY <1>1, <2>1, <2>2, <2>3, <3>2, <3>3, <3>4
    <2>5. QED BY <2>4 DEF LiveJobs
  <1>10. ASSUME NEW r \in RegIds, NEW n \in 1..MaxMsg, PushReply(r, n)
         PROVE  LiveJobs'
    <2>1. /\ worker \in Workers /\ handler' = Idle
          /\ UNCHANGED <<regApp, worker, handler>>
      BY <1>10, AcceptedReply
    <2>2. CASE UNCHANGED <<regappMap, queue>>
      BY <1>1, <2>1, <2>2 DEF LiveJobs, Settled
    <2>3. CASE Accepts(r, n)
      <3>1. PICK new \in InfoType, j \in JobType :
              /\ r = regApp /\ new.last = n
              /\ j.reg = r /\ j.info = new /\ j.live = TRUE
              /\ regappMap' = [regappMap EXCEPT ![r] = new]
              /\ queue' = [queue EXCEPT ![worker] = Append(@, j)]
        BY <2>3 DEF Accepts
      <3>2. /\ Len(queue[worker]) \in Nat
            /\ DOMAIN queue'[worker] = 1..(Len(queue[worker]) + 1)
            /\ DOMAIN queue[worker] = 1..Len(queue[worker])
            /\ \A i \in 1..Len(queue[worker]) : queue'[worker][i] = queue[worker][i]
            /\ queue'[worker][Len(queue[worker]) + 1] = j
            /\ \A v \in Workers \ {worker} : queue'[v] = queue[v]
        BY <1>1, <2>1, <3>1, AppendJob, QueueType
      <3>3. regappMap'[regApp].last = n
        BY <1>1, <3>1 DEF TypeOK
      <3>4. Settled'
        BY <2>1 DEF Settled, Idle
      <3>5. ASSUME NEW w \in Workers, NEW i \in DOMAIN queue'[w], queue'[w][i].live
            PROVE  /\ w = worker' /\ queue'[w][i].reg = regApp' /\ regApp' # None
                   /\ Settled'
                   /\ (\A k \in DOMAIN queue'[w] : k > i => ~queue'[w][k].live) =>
                        queue'[w][i].info.last = regappMap'[regApp'].last
        <4>1. CASE w # worker
          BY <1>1, <3>2, <3>5, <4>1, LiveJobsOf
        <4>2. CASE w = worker /\ i = Len(queue[worker]) + 1
          BY <1>1, <2>1, <3>1, <3>2, <3>3, <3>4, <4>2
        <4>3. CASE w = worker /\ i \in 1..Len(queue[worker])
          <5>1. queue[w][i].live /\ queue[w][i] = queue'[w][i]
            BY <3>2, <3>5, <4>3
          <5>2. queue[w][i].reg = regApp
            BY <1>1, <3>2, <4>3, <5>1, LiveJobsOf
          <5>3. /\ Len(queue[worker]) + 1 \in DOMAIN queue'[w]
                /\ Len(queue[worker]) + 1 > i
            BY <3>2, <4>3
          <5>4. queue'[w][Len(queue[worker]) + 1].live
            BY <3>1, <3>2, <4>3
          <5>5. QED BY <1>1, <2>1, <3>1, <3>4, <4>3, <5>1, <5>2, <5>3, <5>4
        <4>4. QED BY <3>2, <3>5, <4>1, <4>2, <4>3
      <3>6. QED BY <3>5 DEF LiveJobs
    <2>4. QED BY <1>10, <2>2, <2>3, AcceptedReply
  <1>11. ASSUME NEW w \in Workers, UpdateJob(w)
         PROVE  LiveJobs'
    <2>1. /\ queue[w] # <<>> /\ queue' = [queue EXCEPT ![w] = Tail(@)]
          /\ UNCHANGED <<worker, regApp, regappMap, handler>>
      BY <1>11 DEF UpdateJob, memory
    <2>2. /\ Len(queue[w]) \in Nat \ {0}
          /\ DOMAIN queue'[w] = 1..(Len(queue[w]) - 1)
          /\ DOMAIN queue[w] = 1..Len(queue[w])
          /\ \A i \in 1..(Len(queue[w]) - 1) : queue'[w][i] = queue[w][i + 1]
          /\ \A v \in Workers \ {w} : queue'[v] = queue[v]
      BY <1>1, <2>1, TailJobs, QueueType
    <2>3. Settled' = Settled
      BY <2>1 DEF Settled
    <2>4. ASSUME NEW v \in Workers, NEW i \in DOMAIN queue'[v], queue'[v][i].live
          PROVE  /\ v = worker' /\ queue'[v][i].reg = regApp' /\ regApp' # None
                 /\ Settled'
                 /\ (\A k \in DOMAIN queue'[v] : k > i => ~queue'[v][k].live) =>
                      queue'[v][i].info.last = regappMap'[regApp'].last
      <3>1. CASE v # w
        <4>1. queue'[v] = queue[v]
          BY <2>2, <3>1
        <4>2. i \in DOMAIN queue[v] /\ queue[v][i].live
          BY <2>4, <4>1
        <4>3. /\ v = worker /\ queue[v][i].reg = regApp /\ regApp # None
              /\ Settled
              /\ Latest(v, i) => queue[v][i].info.last = regappMap[regApp].last
          BY <1>1, <4>2, LiveJobsOf
        <4>4. QED BY <2>1, <2>3, <4>1, <4>3 DEF Latest
      <3>2. CASE v = w
        <4>1. /\ i + 1 \in DOMAIN queue[w] /\ queue'[w][i] = queue[w][i + 1]
              /\ i \in Nat
          BY <2>2, <2>4, <3>2
        <4>2. /\ w = worker /\ queue[w][i + 1].reg = regApp /\ regApp # None
              /\ Settled
              /\ Latest(w, i + 1) =>
                   queue[w][i + 1].info.last = regappMap[regApp].last
          BY <1>1, <2>4, <3>2, <4>1, LiveJobsOf
        <4>3. ASSUME \A k \in DOMAIN queue'[v] : k > i => ~queue'[v][k].live
              PROVE  Latest(w, i + 1)
          <5>1. ASSUME NEW k \in DOMAIN queue[w], k > i + 1
                PROVE  ~queue[w][k].live
            <6>1. /\ k - 1 \in DOMAIN queue'[v] /\ k - 1 > i
                  /\ queue'[v][k - 1] = queue[w][(k - 1) + 1]
                  /\ (k - 1) + 1 = k
              BY <2>2, <3>2, <4>1, <5>1
            <6>2. QED BY <4>3, <6>1
          <5>2. QED BY <5>1 DEF Latest
        <4>4. QED BY <2>1, <2>3, <3>2, <4>1, <4>2, <4>3
      <3>3. QED BY <3>1, <3>2
    <2>5. QED BY <2>4 DEF LiveJobs
  <1>12. CASE UNCHANGED vars
    BY <1>1, <1>12 DEF vars, memory, LiveJobs, Settled
  <1>13. QED BY <1>3, <1>4, <1>5, <1>6, <1>7, <1>8, <1>9, <1>10, <1>11, <1>12,
                Steps

-----------------------------------------------------------------------------
(* Each step keeps StorageOrdered.                                         *)

(* The three parts of StorageOrdered.                                      *)
OrderedSettled ==
  /\ regApp # None => Stored(regApp)
  /\ known # None /\ dbApp[known] # None => Stored(known)
  /\ dbDevice # None /\ dbApp[dbDevice] # None => InUsers(dbDevice)
  /\ worker # None /\ regApp = None /\ known # None => dbApp[known] = None

OrderedRegister ==
  /\ dbApp[handler.reg] = Fresh
  /\ known # None /\ known # handler.reg => dbApp[known] = None
  /\ handler.pc = "regUser" => dbDevice = handler.reg

OrderedUnregister ==
  /\ dbApp[regApp] = None
  /\ known # None => dbApp[known] = None
  /\ handler.pc = "unregUser" => dbDevice = None

LEMMA OrderedParts ==
  StorageOrdered <=>
    (Quiet =>
       /\ Settled => OrderedSettled
       /\ handler.pc \in {"regDevice", "regUser"} => OrderedRegister
       /\ handler.pc \in {"unregDevice", "unregUser"} => OrderedUnregister)
  BY DEF StorageOrdered, OrderedSettled, OrderedRegister, OrderedUnregister

(* A step to each of the parts.                                            *)
LEMMA NextSettled ==
  ASSUME Settled', OrderedSettled'
  PROVE  StorageOrdered'
  BY DEF StorageOrdered, OrderedSettled, Settled

LEMMA NextRegister ==
  ASSUME handler'.pc \in {"regDevice", "regUser"}, OrderedRegister'
  PROVE  StorageOrdered'
  BY DEF StorageOrdered, OrderedRegister, Settled

LEMMA NextUnregister ==
  ASSUME handler'.pc \in {"unregDevice", "unregUser"}, OrderedUnregister'
  PROVE  StorageOrdered'
  BY DEF StorageOrdered, OrderedUnregister, Settled

LEMMA QuietStep ==
  ASSUME TypeOK, Quiet', Fault \/ UNCHANGED faults, stale => stale'
  PROVE  Quiet /\ ~Fault /\ UNCHANGED faults
  BY DEF TypeOK, Fault, Quiet

LEMMA NextFaults ==
  ASSUME IInv, [Next]_vars
  PROVE  (Fault \/ UNCHANGED faults) /\ (stale => stale')
  <1>1. CASE ListRequest
    BY <1>1 DEF ListRequest, ListStep, Put, PutFails
  <1>2. CASE UNCHANGED vars
    BY <1>2 DEF vars
  <1>3. ASSUME NEW r \in RegIds,
               \/ \E ids \in SUBSET SendIds : RegisterApp(r, ids)
               \/ \E n \in 1..MaxMsg : PushReply(r, n)
        PROVE  (Fault \/ UNCHANGED faults) /\ (stale => stale')
    <2>1. ASSUME NEW ids \in SUBSET SendIds, RegisterApp(r, ids)
          PROVE  (Fault \/ UNCHANGED faults) /\ (stale => stale')
      BY <2>1 DEF RegisterApp
    <2>2. ASSUME NEW n \in 1..MaxMsg, PushReply(r, n)
          PROVE  (Fault \/ UNCHANGED faults) /\ (stale => stale')
      BY <2>2 DEF PushReply
    <2>3. QED BY <1>3, <2>1, <2>2
  <1>4. CASE RegisterDevice \/ RegisterUser
    BY <1>4 DEF RegisterDevice, RegisterUser
  <1>5. CASE Unregister \/ UnregisterDevice \/ UnregisterUser
    BY <1>5 DEF Unregister, UnregisterDevice, UnregisterUser
  <1>6. ASSUME NEW w \in Workers,
               ConnectListed(w) \/ ConnectUnlisted(w) \/ ConnectSync(w)
        PROVE  (Fault \/ UNCHANGED faults) /\ (stale => stale')
    BY <1>6 DEF ConnectListed, ConnectUnlisted, ConnectSync
  <1>7. CASE \E w \in Workers : UpdateJob(w)
    BY <1>7 DEF UpdateJob
  <1>8. CASE Disconnect \/ Exit
    BY <1>8 DEF Disconnect, Exit
  <1>9. QED BY <1>1, <1>2, <1>3, <1>4, <1>5, <1>6, <1>7, <1>8, Steps
            DEF Registering

LEMMA StepStorageOrdered ==
  ASSUME IInv, [Next]_vars
  PROVE  StorageOrdered'
  <1> SUFFICES ASSUME Quiet'
               PROVE  StorageOrdered'
    BY DEF StorageOrdered
  <1>1. /\ TypeOK /\ HandlerOK /\ StorageOrdered
        /\ \A r \in RegIds : r # None
        /\ \A w \in Workers : w # None
        /\ \A i \in InfoType : i # None
        /\ dbApp \in [RegIds -> InfoType \union {None}]
        /\ known \in RegIds \union {None} /\ regApp \in RegIds \union {None}
        /\ dbDevice \in RegIds \union {None}
    BY Bounds DEF IInv, TypeOK
  <1>2. Quiet /\ ~Fault
    BY <1>1, QuietStep, NextFaults
  <1>3. /\ Settled => OrderedSettled
        /\ handler.pc \in {"regDevice", "regUser"} => OrderedRegister
        /\ handler.pc \in {"unregDevice", "unregUser"} => OrderedUnregister
    BY <1>1, <1>2, OrderedParts
  <1>4. /\ Idle.pc = "idle" /\ (Ready => Settled) /\ (handler = Idle => Settled)
        /\ (handler' = Idle => Settled')
    BY DEF Idle, Ready, Settled
  <1>5. ASSUME NEW r \in RegIds, NEW ids \in SUBSET SendIds, RegisterApp(r, ids)
        PROVE  StorageOrdered'
    <2>1. /\ dbApp' = [dbApp EXCEPT ![r] = Fresh] /\ known' = known
          /\ handler' = [pc |-> "regDevice", reg |-> r, ids |-> ids]
          /\ regApp = None /\ worker # None /\ Settled
      BY <1>2, <1>4, <1>5 DEF RegisterApp, Ready, device
    <2>2. handler'.pc = "regDevice" /\ handler'.reg = r
      BY <2>1
    <2>3. OrderedRegister'
      BY <1>1, <1>3, <2>1, <2>2 DEF OrderedSettled, OrderedRegister
    <2>4. QED BY <2>2, <2>3, NextRegister
  <1>6. ASSUME NEW r \in RegIds, NEW n \in 1..MaxMsg, PushReply(r, n)
        PROVE  StorageOrdered'
    <2>1. UNCHANGED <<dbApp, dbDevice, dbUser, regApp, worker, handler, known>>
          /\ Settled
      BY <1>4, <1>6 DEF PushReply, redis, Ready
    <2>2. OrderedSettled' /\ Settled'
      BY <1>3, <2>1 DEF OrderedSettled, Stored, InUsers, Settled
    <2>3. QED BY <2>2, NextSettled
  <1>7. CASE RegisterDevice
    <2>1. /\ handler.pc = "regDevice" /\ dbDevice' = handler.reg
          /\ handler' = [handler EXCEPT !.pc = "regUser"]
          /\ dbApp' = dbApp /\ known' = known
      BY <1>2, <1>7 DEF RegisterDevice, device
    <2>2. handler'.pc = "regUser" /\ handler'.reg = handler.reg
      BY <1>1, <2>1, HandlerMoves DEF Phases
    <2>3. OrderedRegister'
      BY <1>3, <2>1, <2>2 DEF OrderedRegister
    <2>4. QED BY <2>2, <2>3, NextRegister
  <1>8. CASE RegisterUser
    <2> DEFINE r == handler.reg
    <2>1. /\ handler.pc = "regUser" /\ r \in RegIds
          /\ dbUser' = dbUser \union ({r} \intersect WithUser)
          /\ regApp' = r /\ known' \in {known, r}
          /\ dbApp' = dbApp /\ dbDevice' = dbDevice
      BY <1>1, <1>2, <1>8 DEF RegisterUser, HandlerOK, Told
    <2>2. Settled'
      BY <1>1, <1>4, <1>8, HandlerMoves DEF RegisterUser, Settled, Phases
    <2>3. dbApp[r] # None /\ dbDevice = r
      BY <1>1, <1>3, <2>1, FreshInfo DEF OrderedRegister
    <2>4. known' # None /\ dbApp[known'] # None => known' = r
      BY <1>3, <2>1 DEF OrderedRegister
    <2>5. (r \in WithUser => r \in dbUser') /\ r # None
      BY <1>1, <2>1
    <2> HIDE DEF r
    <2>6. OrderedSettled'
      BY <2>1, <2>3, <2>4, <2>5 DEF OrderedSettled, Stored, InUsers
    <2>7. QED BY <2>2, <2>6, NextSettled
  <1>9. CASE Unregister
    <2>1. /\ regApp \in RegIds /\ dbApp' = [dbApp EXCEPT ![regApp] = None]
          /\ UNCHANGED <<known, regApp>> /\ Settled
          /\ handler' = [pc |-> "unregDevice", reg |-> regApp, ids |-> {}]
      BY <1>1, <1>2, <1>4, <1>9
         DEF Unregister, Requested, HandlerOK, Settled, memory, device
    <2>2. known # None /\ dbApp[known] # None => known = regApp
      BY <1>1, <1>3, <2>1 DEF OrderedSettled, Stored
    <2>3. dbApp'[regApp] = None /\ (known # None => dbApp'[known] = None)
      BY <1>1, <2>1, <2>2
    <2>4. handler'.pc = "unregDevice"
      BY <2>1
    <2>5. OrderedUnregister'
      BY <2>1, <2>3, <2>4 DEF OrderedUnregister
    <2>6. QED BY <2>4, <2>5, NextUnregister
  <1>10. CASE UnregisterDevice
    <2>1. /\ handler.pc = "unregDevice" /\ dbDevice' = None
          /\ handler' = [handler EXCEPT !.pc = "unregUser"]
          /\ UNCHANGED <<dbApp, known, regApp>>
      BY <1>2, <1>10 DEF UnregisterDevice, memory, device
    <2>2. handler'.pc = "unregUser"
      BY <1>1, <2>1, HandlerMoves DEF Phases
    <2>3. OrderedUnregister'
      BY <1>3, <2>1, <2>2 DEF OrderedUnregister
    <2>4. QED BY <2>2, <2>3, NextUnregister
  <1>11. CASE UnregisterUser
    <2>1. /\ handler.pc = "unregUser" /\ handler' = Idle
          /\ regApp' = None /\ known' \in {known, None}
          /\ dbApp' = dbApp /\ dbDevice' = dbDevice
      BY <1>11 DEF UnregisterUser, Told
    <2>2. OrderedSettled'
      BY <1>3, <2>1 DEF OrderedUnregister, OrderedSettled
    <2>3. QED BY <1>4, <2>1, <2>2, NextSettled
  <1>12. CASE ListRequest
    <2>1. /\ UNCHANGED <<dbDevice, dbUser, regApp, worker>>
          /\ known' \in {known, regApp} /\ regApp \in RegIds /\ Settled
      BY <1>12 DEF ListRequest, InSession
    <2>2. Settled'
      <3>1. handler'.pc \in {"idle", handler.pc, "unregister"}
        BY <1>12 DEF ListRequest, Idle
      <3>2. QED BY <2>1, <3>1 DEF Settled
    <2>3. \A r \in RegIds : dbApp'[r] # None <=> dbApp[r] # None
      <3>1. dbApp[regApp] # None
        BY <1>1, <1>3, <2>1 DEF OrderedSettled, Stored
      <3>2. CASE ListStep
        <4>1. PICK v \in InfoType : dbApp' \in {dbApp, [dbApp EXCEPT ![regApp] = v]}
          BY <3>2 DEF ListStep, Put, PutFails
        <4>2. QED BY <1>1, <3>1, <4>1
      <3>3. QED BY <1>12, <3>2 DEF ListRequest
    <2>4. OrderedSettled'
      BY <1>1, <1>3, <2>1, <2>3 DEF OrderedSettled, Stored, InUsers
    <2>5. QED BY <2>2, <2>4, NextSettled
  <1>13. ASSUME NEW w \in Workers,
                ConnectListed(w) \/ ConnectUnlisted(w) \/ ConnectSync(w)
         PROVE  StorageOrdered'
    <2>1. /\ worker = None /\ handler = Idle /\ handler' = Idle /\ regApp = None
          /\ UNCHANGED <<dbApp, dbDevice, dbUser>>
      BY <1>1, <1>13 DEF ConnectListed, ConnectUnlisted, ConnectSync, HandlerOK,
         redis
    <2>2. OrderedSettled /\ Settled'
      BY <1>3, <1>4, <2>1
    <2>3. CASE ConnectListed(w)
      <3>1. /\ known' = known /\ known # None
            /\ \/ regApp' = known /\ dbApp[known] # None
               \/ regApp' = None /\ dbApp[known] = None
        BY <1>2, <2>1, <2>3 DEF ConnectListed, memory, device
      <3>2. OrderedSettled'
        BY <2>1, <2>2, <3>1 DEF OrderedSettled, Stored, InUsers
      <3>3. QED BY <2>2, <3>2, NextSettled
    <2>4. CASE ConnectUnlisted(w)
      <3>1. known' = None /\ regApp' = None
        BY <2>1, <2>4 DEF ConnectUnlisted, memory
      <3>2. OrderedSettled'
        BY <2>1, <2>2, <3>1 DEF OrderedSettled, Stored, InUsers
      <3>3. QED BY <2>2, <3>2, NextSettled
    <2>5. CASE ConnectSync(w)
      <3>1. CASE dbDevice # None /\ dbApp[dbDevice] # None
        <4>1. regApp' = dbDevice /\ known' \in {known, dbDevice}
          BY <1>2, <2>5, <3>1 DEF ConnectSync, Told
        <4>2. OrderedSettled'
          BY <2>1, <2>2, <3>1, <4>1 DEF OrderedSettled, Stored, InUsers
        <4>3. QED BY <2>2, <4>2, NextSettled
      <3>2. CASE dbDevice = None \/ dbApp[dbDevice] = None
        <4>1. regApp' = None /\ known' \in {known, None}
          BY <1>2, <2>1, <2>5, <3>2 DEF ConnectSync, Told, memory
        <4>2. known # None => dbApp[known] = None
          BY <2>2, <3>2 DEF OrderedSettled, Stored
        <4>3. OrderedSettled'
          BY <2>1, <2>2, <4>1, <4>2 DEF OrderedSettled, Stored, InUsers
        <4>4. QED BY <2>2, <4>3, NextSettled
      <3>3. QED BY <3>1, <3>2
    <2>6. QED BY <1>13, <2>3, <2>4, <2>5
  <1>14. ASSUME NEW w \in Workers, UpdateJob(w)
         PROVE  StorageOrdered'
    <2> DEFINE job == Head(queue[w])
    <2>1. /\ queue[w] # <<>> /\ job.live
          /\ dbApp' = [dbApp EXCEPT ![job.reg] = job.info]
          /\ UNCHANGED <<dbDevice, dbUser, regApp, worker, handler, known>>
      BY <1>2, <1>14 DEF UpdateJob, memory, device, Quiet
    <2>2. job = queue[w][1] /\ 1 \in DOMAIN queue[w] /\ job \in JobType
      BY <1>1, <1>14, TailJobs, QueueType DEF UpdateJob
    <2> HIDE DEF job
    <2>3. job.reg = regApp /\ regApp \in RegIds /\ Settled /\ job.info \in InfoType
      BY <1>1, <2>1, <2>2, LiveJobsOf, JobFields DEF IInv
    <2>4. dbApp[regApp] # None
      BY <1>1, <1>3, <2>3 DEF OrderedSettled, Stored
    <2>5. \A r \in RegIds : dbApp'[r] # None <=> dbApp[r] # None
      BY <1>1, <2>1, <2>3, <2>4
    <2>6. OrderedSettled' /\ Settled'
      BY <1>1, <1>3, <2>1, <2>3, <2>5
         DEF OrderedSettled, Stored, InUsers, Settled
    <2>7. QED BY <2>6, NextSettled
  <1>15. CASE Disconnect \/ Exit
    <2>1. /\ handler = Idle /\ handler' = Idle /\ regApp' = None /\ worker' = None
          /\ UNCHANGED <<dbApp, dbDevice, dbUser, known>>
      BY <1>2, <1>15 DEF Disconnect, Exit, Ready, redis, device
    <2>2. OrderedSettled'
      BY <1>3, <1>4, <2>1 DEF OrderedSettled, Stored, InUsers
    <2>3. QED BY <1>4, <2>1, <2>2, NextSettled
  <1>16. CASE UNCHANGED vars
    BY <1>1, <1>16 DEF vars, redis, memory, device, StorageOrdered, Quiet, Settled,
       Stored, InUsers
  <1>17. QED BY <1>5, <1>6, <1>7, <1>8, <1>9, <1>10, <1>11, <1>12, <1>13, <1>14,
                <1>15, <1>16, Steps DEF Registering

-----------------------------------------------------------------------------
(* Each step keeps LastStored.                                             *)
SameLast(r) == dbApp[r].last = regappMap[r].last

LEMMA StepLastStored ==
  ASSUME IInv, [Next]_vars
  PROVE  LastStored'
  <1> SUFFICES ASSUME Quiet', Settled', ~Pending', regApp' # None
               PROVE  SameLast(regApp)'
    BY DEF LastStored, SameLast
  <1>1. /\ TypeOK /\ HandlerOK /\ LiveJobs /\ MemoryBacked /\ StorageOrdered
        /\ \A r \in RegIds : r # None
        /\ dbApp \in [RegIds -> InfoType \union {None}]
        /\ regappMap \in [RegIds -> InfoType \union {None}]
        /\ known \in RegIds \union {None} /\ regApp \in RegIds \union {None}
        /\ dbDevice \in RegIds \union {None}
    BY Bounds DEF IInv, TypeOK
  <1>2. Quiet /\ ~Fault
    BY <1>1, QuietStep, NextFaults
  <1>3. Settled /\ ~Pending /\ regApp # None => SameLast(regApp)
    BY <1>2 DEF IInv, LastStored, SameLast
  <1>4. UNCHANGED queue => ~Pending
    BY DEF Pending
  <1>5. Idle.pc = "idle" /\ (Ready => Settled)
    BY DEF Idle, Ready, Settled
  <1>6. CASE \E r \in RegIds : Registering(r)
    BY <1>1, <1>6 DEF Registering, RegisterApp, memory
  <1>7. CASE RegisterDevice \/ UnregisterDevice \/ Unregister
    <2>1. handler'.pc \in {"regUser", "unregUser", "unregDevice"}
      <3>1. \/ handler' = [handler EXCEPT !.pc = "regUser"]
            \/ handler' = [handler EXCEPT !.pc = "unregUser"]
            \/ handler' = [pc |-> "unregDevice", reg |-> regApp, ids |-> {}]
        BY <1>7 DEF RegisterDevice, UnregisterDevice, Unregister
      <3>2. QED BY <1>1, <3>1, PhaseMoves
    <2>2. QED BY <2>1 DEF Settled
  <1>8. CASE RegisterUser
    <2> DEFINE r == handler.reg
    <2>1. /\ r \in RegIds /\ regApp' = r /\ dbApp' = dbApp
          /\ regappMap' = [regappMap EXCEPT ![r] = Fresh]
          /\ handler.pc = "regUser"
      BY <1>1, <1>8 DEF RegisterUser, HandlerOK
    <2>2. dbApp[r] = Fresh
      BY <1>1, <1>2, <2>1 DEF StorageOrdered
    <2> HIDE DEF r
    <2>3. QED BY <1>1, <2>1, <2>2 DEF SameLast
  <1>9. CASE UnregisterUser \/ Disconnect \/ Exit
    BY <1>9 DEF UnregisterUser, Disconnect, Exit
  <1>10. CASE ListRequest
    <2>1. /\ regApp' = regApp /\ regApp \in RegIds /\ Settled
      BY <1>10 DEF ListRequest, InSession
    <2>2. CASE ListStep
      <3>1. PICK new \in InfoType : Put(new)
        BY <1>2, <2>2 DEF ListStep, PutFails
      <3>2. dbApp'[regApp] = new /\ regappMap'[regApp] = new
        BY <1>1, <2>1, <3>1 DEF Put
      <3>3. QED BY <2>1, <3>2 DEF SameLast
    <2>3. CASE UNCHANGED <<dbApp, regappMap, queue, faults>>
      BY <1>1, <1>3, <1>4, <2>1, <2>3, Bounds DEF SameLast
    <2>4. QED BY <1>10, <2>2, <2>3 DEF ListRequest
  <1>11. ASSUME NEW w \in Workers,
                ConnectListed(w) \/ ConnectUnlisted(w) \/ ConnectSync(w)
         PROVE  SameLast(regApp)'
    <2>1. /\ regApp = None /\ dbApp' = dbApp
          /\ \A r \in RegIds : regappMap[r] = None
      BY <1>1, <1>11 DEF ConnectListed, ConnectUnlisted, ConnectSync, HandlerOK,
         MemoryBacked, redis
    <2>2. PICK r \in RegIds :
            regApp' = r /\ regappMap' = [regappMap EXCEPT ![r] = dbApp[r]]
      BY <1>1, <1>11, <2>1 DEF ConnectListed, ConnectUnlisted, ConnectSync, memory
    <2>3. QED BY <1>1, <2>1, <2>2 DEF SameLast
  <1>12. ASSUME NEW r \in RegIds, NEW n \in 1..MaxMsg, PushReply(r, n)
         PROVE  SameLast(regApp)'
    <2>1. /\ regApp' = regApp /\ dbApp' = dbApp /\ handler = Idle
          /\ worker \in Workers
      BY <1>12, AcceptedReply DEF redis
    <2>2. CASE UNCHANGED <<regappMap, queue>>
      BY <1>3, <1>4, <1>5, <2>1, <2>2 DEF SameLast, Settled
    <2>3. CASE Accepts(r, n)
      <3>1. PICK new \in InfoType, j \in JobType :
              j.live = TRUE /\ queue' = [queue EXCEPT ![worker] = Append(@, j)]
        BY <2>3 DEF Accepts
      <3>2. /\ Len(queue[worker]) + 1 \in DOMAIN queue'[worker]
            /\ queue'[worker][Len(queue[worker]) + 1] = j
        <4>1. /\ Len(queue[worker]) \in Nat
              /\ DOMAIN queue'[worker] = 1..(Len(queue[worker]) + 1)
              /\ queue'[worker][Len(queue[worker]) + 1] = j
          BY <1>1, <2>1, <3>1, AppendJob
        <4>2. QED BY <4>1
      <3>3. Pending'
        BY <2>1, <3>1, <3>2 DEF Pending
      <3>4. QED BY <3>3
    <2>4. QED BY <1>12, <2>2, <2>3, AcceptedReply
  <1>13. ASSUME NEW w \in Workers, UpdateJob(w)
         PROVE  SameLast(regApp)'
    <2> DEFINE job == Head(queue[w])
    <2>1. /\ queue[w] # <<>> /\ job.live
          /\ dbApp' = [dbApp EXCEPT ![job.reg] = job.info]
          /\ UNCHANGED <<regApp, regappMap>>
          /\ queue' = [queue EXCEPT ![w] = Tail(@)]
      BY <1>2, <1>13 DEF UpdateJob, memory, Quiet
    <2>2. /\ job = queue[w][1] /\ 1 \in DOMAIN queue[w]
          /\ Len(queue[w]) \in Nat \ {0} /\ DOMAIN queue[w] = 1..Len(queue[w])
          /\ DOMAIN queue'[w] = 1..(Len(queue[w]) - 1)
          /\ \A i \in 1..(Len(queue[w]) - 1) : queue'[w][i] = queue[w][i + 1]
      <3>1. /\ job = queue[w][1] /\ Len(queue[w]) \in Nat \ {0}
            /\ DOMAIN queue'[w] = 1..(Len(queue[w]) - 1)
            /\ \A i \in 1..(Len(queue[w]) - 1) : queue'[w][i] = queue[w][i + 1]
        BY <1>1, <2>1, TailJobs
      <3>2. DOMAIN queue[w] = 1..Len(queue[w])
        BY <1>1, QueueType
      <3>3. 1 \in DOMAIN queue[w]
        BY <3>1, <3>2
      <3>4. QED BY <3>1, <3>2, <3>3
    <2> HIDE DEF job
    <2>3. Latest(w, 1)
      <3>1. ASSUME NEW k \in DOMAIN queue[w], k > 1
            PROVE  ~queue[w][k].live
        <4>1. /\ k - 1 \in DOMAIN queue'[w] /\ (k - 1) + 1 = k
              /\ queue'[w][k - 1] = queue[w][(k - 1) + 1]
          BY <2>2, <3>1
        <4>2. ~queue'[w][k - 1].live
          BY <4>1 DEF Pending
        <4>3. QED BY <4>1, <4>2
      <3>2. QED BY <3>1 DEF Latest
    <2>4. job.reg = regApp /\ job.info.last = regappMap[regApp].last
      BY <1>1, <2>1, <2>2, <2>3, LiveJobsOf
    <2>5. QED BY <1>1, <2>1, <2>4 DEF SameLast
  <1>14. CASE UNCHANGED vars
    BY <1>1, <1>3, <1>4, <1>14 DEF vars, redis, memory, SameLast, Settled
  <1>15. QED BY <1>6, <1>7, <1>8, <1>9, <1>10, <1>11, <1>12, <1>13, <1>14, Steps

-----------------------------------------------------------------------------
(* Each step keeps ListsKept.                                              *)
NoItemsTwice == \A r \in RegIds : dbApp[r] # None => NoItemTwice(dbApp[r])

LEMMA ListsParts ==
  ListsKept <=>
    /\ NoneAcked => ~stale /\ \A w \in Workers : queue[w] = <<>>
    /\ faults = 0 /\ NoneAcked =>
         /\ NoItemsTwice
         /\ Settled /\ regApp # None => dbApp[regApp] = regappMap[regApp]
  BY DEF ListsKept, NoItemsTwice, NoItemTwice, Lists

LEMMA NextLists ==
  ASSUME NoneAcked' => ~stale' /\ \A w \in Workers : queue'[w] = <<>>,
         faults' = 0 /\ NoneAcked' =>
           /\ NoItemsTwice'
           /\ Settled' /\ regApp' # None => dbApp'[regApp'] = regappMap'[regApp']
  PROVE  ListsKept'
  BY DEF ListsKept, NoItemsTwice, NoItemTwice, Lists

(* An acknowledgement cannot be taken back.                                *)
LEMMA StepAcked ==
  ASSUME IInv, [Next]_vars, NoneAcked'
  PROVE  /\ NoneAcked
         /\ \A r \in RegIds : \A n \in 1..MaxMsg : ~PushReply(r, n)
  <1>1. /\ acked \in [RegIds -> 0..MaxMsg] /\ MaxMsg \in Nat
        /\ \A r \in RegIds : acked'[r] = 0
    BY Bounds DEF IInv, TypeOK, NoneAcked
  <1>2. ASSUME NEW r \in RegIds, NEW n \in 1..MaxMsg, PushReply(r, n)
        PROVE  FALSE
    <2>1. acked'[r] >= n
      BY <1>2, AcceptedReply
    <2>2. QED BY <1>1, <2>1
  <1>3. acked' = acked
    <2>1. CASE ListRequest \/ UNCHANGED vars
      BY <2>1 DEF ListRequest, vars, device
    <2>2. CASE \E r \in RegIds : Registering(r)
      BY <2>2 DEF Registering, RegisterApp, device
    <2>3. CASE RegisterDevice \/ RegisterUser
      BY <2>3 DEF RegisterDevice, RegisterUser, device
    <2>4. CASE Unregister \/ UnregisterDevice \/ UnregisterUser
      BY <2>4 DEF Unregister, UnregisterDevice, UnregisterUser, device
    <2>5. ASSUME NEW w \in Workers, \/ ConnectListed(w) \/ ConnectUnlisted(w)
                                    \/ ConnectSync(w) \/ UpdateJob(w)
          PROVE  acked' = acked
      BY <2>5 DEF ConnectListed, ConnectUnlisted, ConnectSync, UpdateJob, device
    <2>6. CASE Disconnect \/ Exit
      BY <2>6 DEF Disconnect, Exit, device
    <2>7. QED BY <1>2, <2>1, <2>2, <2>3, <2>4, <2>5, <2>6, Steps
  <1>4. QED BY <1>1, <1>2, <1>3 DEF NoneAcked

LEMMA StepListsKept ==
  ASSUME IInv, [Next]_vars
  PROVE  ListsKept'
  <1> SUFFICES ASSUME NoneAcked'
               PROVE  ListsKept'
    BY DEF ListsKept, NoneAcked
  <1>1. /\ TypeOK /\ HandlerOK /\ MemoryBacked /\ StorageOrdered
        /\ \A r \in RegIds : r # None
        /\ \A i \in InfoType : i # None
        /\ dbApp \in [RegIds -> InfoType \union {None}]
        /\ regappMap \in [RegIds -> InfoType \union {None}]
        /\ known \in RegIds \union {None} /\ regApp \in RegIds \union {None}
        /\ dbDevice \in RegIds \union {None}
        /\ NoneAcked
    BY Bounds, StepAcked DEF IInv, TypeOK
  <1>2. /\ ~stale /\ \A w \in Workers : queue[w] = <<>>
        /\ faults = 0 =>
             /\ NoItemsTwice
             /\ Settled /\ regApp # None => dbApp[regApp] = regappMap[regApp]
    BY <1>1, ListsParts DEF IInv
  <1>3. faults' = 0 => faults = 0 /\ ~Fault
    BY <1>1, NextFaults DEF TypeOK, Fault
  <1>4. JobsLike => \A w \in Workers : queue'[w] = <<>>
    <2>1. ASSUME JobsLike, NEW w \in Workers
          PROVE  queue'[w] = <<>>
      <3>1. queue'[w] \in Seq(JobType) /\ Len(queue'[w]) = Len(queue[w])
        BY <2>1 DEF JobsLike
      <3>2. Len(queue[w]) = 0
        BY <1>2
      <3>3. QED BY <3>1, <3>2, EmptySeq
    <2>2. QED BY <2>1
  <1>5. UNCHANGED queue => \A w \in Workers : queue'[w] = <<>>
    BY <1>2
  <1>6. Idle.pc = "idle" /\ (Ready => Settled)
    BY DEF Idle, Ready, Settled
  <1>7. ASSUME NEW r \in RegIds, NEW ids \in SUBSET SendIds, RegisterApp(r, ids)
        PROVE  ListsKept'
    <2>1. /\ dbApp' \in {dbApp, [dbApp EXCEPT ![r] = Fresh]}
          /\ regApp' = None /\ queue' = queue /\ stale' = stale
      BY <1>1, <1>7 DEF RegisterApp, memory
    <2>2. NoItemTwice(Fresh)
      BY FreshInfo DEF NoItemTwice, Lists, IsInjective
    <2>3. faults' = 0 => NoItemsTwice'
      BY <1>1, <1>2, <1>3, <2>1, <2>2 DEF NoItemsTwice
    <2>4. QED BY <1>2, <1>5, <2>1, <2>3, NextLists
  <1>8. CASE RegisterDevice \/ UnregisterDevice
    <2>1. handler'.pc \in {"regUser", "unregUser"}
      <3>1. \/ handler' = [handler EXCEPT !.pc = "regUser"]
            \/ handler' = [handler EXCEPT !.pc = "unregUser"]
        BY <1>8 DEF RegisterDevice, UnregisterDevice
      <3>2. QED BY <1>1, <3>1, PhaseMoves
    <2>2. ~Settled'
      BY <2>1 DEF Settled
    <2>3. dbApp' = dbApp /\ queue' = queue /\ stale' = stale
      BY <1>8 DEF RegisterDevice, UnregisterDevice
    <2>4. QED BY <1>2, <1>3, <1>5, <2>2, <2>3, NextLists DEF NoItemsTwice
  <1>9. CASE RegisterUser
    <2> DEFINE r == handler.reg
    <2>1. /\ r \in RegIds /\ regApp' = r /\ dbApp' = dbApp
          /\ regappMap' = [regappMap EXCEPT ![r] = Fresh]
          /\ queue' = queue /\ stale' = stale /\ handler.pc = "regUser"
      BY <1>1, <1>9 DEF RegisterUser, HandlerOK
    <2>2. faults' = 0 => dbApp[r] = Fresh
      BY <1>1, <1>2, <1>3, <2>1 DEF StorageOrdered, Quiet
    <2> HIDE DEF r
    <2>3. faults' = 0 => NoItemsTwice' /\ dbApp'[regApp'] = regappMap'[regApp']
      BY <1>1, <1>2, <1>3, <2>1, <2>2 DEF NoItemsTwice
    <2>4. QED BY <1>2, <1>5, <2>1, <2>3, NextLists
  <1>10. CASE Unregister
    <2>1. /\ dbApp' \in {dbApp, [dbApp EXCEPT ![regApp] = None]}
          /\ stale' = stale /\ queue' = OnJobs(Outlived)
          /\ handler' = [pc |-> "unregDevice", reg |-> regApp, ids |-> {}]
      BY <1>10 DEF Unregister
    <2>2. ~Settled'
      BY <2>1 DEF Settled
    <2>3. faults' = 0 => NoItemsTwice'
      BY <1>1, <1>2, <1>3, <2>1 DEF NoItemsTwice
    <2>4. \A w \in Workers : queue'[w] = <<>>
      BY <1>1, <1>4, <2>1, JobsOutlived
    <2>5. QED BY <1>2, <2>1, <2>2, <2>3, <2>4, NextLists
  <1>11. CASE UnregisterUser
    BY <1>2, <1>3, <1>5, <1>11, NextLists DEF UnregisterUser, NoItemsTwice
  <1>12. CASE ListRequest
    <2>1. /\ regApp' = regApp /\ regApp \in RegIds /\ Settled /\ stale' = stale
          /\ regappMap[regApp] \in InfoType
      BY <1>12 DEF ListRequest, InSession
    <2>2. CASE ListStep
      <3>1. \A w \in Workers : queue'[w] = <<>>
        BY <1>4, <2>2 DEF ListStep
      <3>2. ASSUME faults' = 0
            PROVE  NoItemsTwice' /\ dbApp'[regApp'] = regappMap'[regApp']
        <4>1. PICK new \in InfoType :
                Put(new) /\ (NoItemTwice(regappMap[regApp]) => NoItemTwice(new))
          BY <1>3, <2>2, <3>2 DEF ListStep, PutFails
        <4>2. NoItemTwice(regappMap[regApp])
          BY <1>1, <1>2, <1>3, <2>1, <3>2 DEF NoItemsTwice
        <4>3. /\ dbApp' = [dbApp EXCEPT ![regApp] = new]
              /\ regappMap' = [regappMap EXCEPT ![regApp] = new]
          BY <4>1 DEF Put
        <4>4. QED BY <1>1, <1>2, <1>3, <2>1, <3>2, <4>1, <4>2, <4>3
                  DEF NoItemsTwice
      <3>3. QED BY <1>2, <2>1, <3>1, <3>2, NextLists
    <2>3. CASE UNCHANGED <<dbApp, regappMap, queue, faults>>
      BY <1>1, <1>2, <1>5, <2>1, <2>3, NextLists DEF NoItemsTwice
    <2>4. QED BY <1>12, <2>2, <2>3 DEF ListRequest
  <1>13. ASSUME NEW w \in Workers,
                ConnectListed(w) \/ ConnectUnlisted(w) \/ ConnectSync(w)
         PROVE  ListsKept'
    <2>1. /\ regApp = None /\ dbApp' = dbApp /\ queue' = queue /\ stale' = stale
          /\ \A r \in RegIds : regappMap[r] = None
      BY <1>1, <1>13 DEF ConnectListed, ConnectUnlisted, ConnectSync, HandlerOK,
         MemoryBacked, redis
    <2>2. regApp' # None => dbApp'[regApp'] = regappMap'[regApp']
      <3>1. ASSUME regApp' # None
            PROVE  \E r \in RegIds :
                     regApp' = r /\ regappMap' = [regappMap EXCEPT ![r] = dbApp[r]]
        BY <1>1, <1>13, <2>1, <3>1
           DEF ConnectListed, ConnectUnlisted, ConnectSync, memory
      <3>2. QED BY <1>1, <2>1, <3>1
    <2>3. QED BY <1>2, <1>3, <1>5, <2>1, <2>2, NextLists DEF NoItemsTwice
  <1>14. CASE \E w \in Workers : UpdateJob(w)
    BY <1>2, <1>14 DEF UpdateJob
  <1>15. CASE Disconnect
    <2>1. \A w \in Workers : queue'[w] = <<>>
      BY <1>1, <1>4, <1>15, JobsOutlived DEF Disconnect
    <2>2. QED BY <1>2, <1>3, <1>15, <2>1, NextLists
              DEF Disconnect, redis, NoItemsTwice
  <1>16. CASE Exit
    BY <1>2, <1>3, <1>16, NextLists DEF Exit, redis, NoItemsTwice
  <1>17. CASE UNCHANGED vars
    <2>1. UNCHANGED <<dbApp, regApp, regappMap, handler, queue, stale, faults>>
      BY <1>17 DEF vars, redis, memory
    <2>2. QED BY <1>2, <1>5, <2>1, NextLists DEF NoItemsTwice, Settled
  <1>18. QED BY <1>7, <1>8, <1>9, <1>10, <1>11, <1>12, <1>13, <1>14, <1>15, <1>16,
                <1>17, Steps, StepAcked DEF Registering

-----------------------------------------------------------------------------
(* The invariant holds in every state.                                     *)
LEMMA InitIInv == Init => IInv
  <1> SUFFICES ASSUME Init
               PROVE  IInv
    OBVIOUS
  <1>1. TypeOK
    <2>1. 0 \in 0..MaxMsg /\ 0 \in 0..MaxFaults
      BY Bounds
    <2>2. handler \in [pc : Phases, reg : RegIds \union {None}, ids : SUBSET SendIds]
      BY DEF Init, Idle, Phases
    <2>3. \A w \in Workers : queue[w] = <<>> /\ Len(queue[w]) <= QueueCap
      BY Bounds DEF Init
    <2>4. queue \in [Workers -> Seq(JobType)]
      BY DEF Init
    <2>5. QED BY <2>1, <2>2, <2>3, <2>4 DEF Init, TypeOK
  <1>2. HandlerOK /\ MemoryBacked
    BY DEF Init, HandlerOK, MemoryBacked, Idle
  <1>3. \A w \in Workers : DOMAIN queue[w] = {}
    BY DEF Init
  <1>4. AckedOnly /\ LiveJobs
    BY <1>3 DEF Init, AckedOnly, LiveJobs
  <1>5. StorageOrdered /\ LastStored
    BY DEF Init, StorageOrdered, LastStored, Idle, Settled
  <1>6. ListsKept
    BY DEF Init, ListsKept
  <1>7. QED BY <1>1, <1>2, <1>4, <1>5, <1>6 DEF IInv

LEMMA Inductive == Spec => []IInv
  <1>1. IInv /\ [Next]_vars => IInv'
    BY StepType, StepHandlerOK, StepMemoryBacked, StepAckedOnly, StepLiveJobs,
       StepStorageOrdered, StepLastStored, StepListsKept DEF IInv
  <1>2. QED BY <1>1, InitIInv, PTL DEF Spec

-----------------------------------------------------------------------------
(* The theorems.                                                           *)

(* Every variable keeps its type; in particular no registration gets more  *)
(* than MaxTopics topics, in memory or in Redis, although handleSubscribe  *)
(* checks the list in memory and UpdateJob writes an older one, and no     *)
(* worker's jobChannel holds more than it has room for.                    *)
THEOREM RegTypeCorrect == Spec => []TypeOK
  BY Inductive, PTL DEF IInv

(* AppManager.regappMap has the registration of the living connection and  *)
(* no other, whatever fails and whenever the process ends.                 *)
THEOREM MemoryBackedHolds == Spec => []MemoryBacked
  BY Inductive, PTL DEF IInv

(* No snapshot of an AppInfo, in memory, in a jobChannel or in Redis, has  *)
(* a LastMsgId ahead of what the device has acknowledged.                  *)
THEOREM AckedOnlyHolds == Spec => []AckedOnly
  BY Inductive, PTL DEF IInv

(* Without faults and late writes, what a session works with is in         *)
(* db_app, db_device and db_user when no handler is at work on it.         *)
THEOREM RegisteredStoredHolds == Spec => []RegisteredStored
  <1>1. IInv => RegisteredStored
    BY DEF IInv, StorageOrdered, RegisteredStored, Quiet, Settled, Stored, InUsers
  <1>2. QED BY <1>1, Inductive, PTL

(* When no job of the connection waits any more, the LastMsgId in Redis is *)
(* the one in memory.                                                      *)
THEOREM AckStoredHolds == Spec => []AckStored
  <1>1. IInv => AckStored
    BY DEF IInv, LastStored, AckStored, Quiet, Settled
  <1>2. QED BY <1>1, Inductive, PTL

(* Before the first acknowledgement the lists in Redis are those in        *)
(* memory, and none has an item twice.                                     *)
THEOREM ListsStoredHolds == Spec => []ListsStored
  <1>1. IInv => ListsStored
    <2> SUFFICES ASSUME IInv, faults = 0, NoneAcked, Settled, regApp # None
                 PROVE  \A f \in {"topics", "sendids"} :
                          /\ dbApp[regApp][f] = regappMap[regApp][f]
                          /\ IsInjective(regappMap[regApp][f])
      BY DEF ListsStored, NoneAcked, Settled
    <2>1. /\ NoItemsTwice /\ ~stale
          /\ dbApp[regApp] = regappMap[regApp] /\ regApp \in RegIds
      BY ListsParts DEF IInv, TypeOK
    <2>2. dbApp[regApp] # None
      BY DEF IInv, StorageOrdered, Quiet, Stored, ListsKept
    <2>3. QED BY <2>1, <2>2 DEF NoItemsTwice, NoItemTwice, Lists
  <1>2. QED BY <1>1, Inductive, PTL

-----------------------------------------------------------------------------
(* What is stored is not ahead of what the session works with: the part of *)
(* the invariant that LastMsgIdKept needs.  It says nothing of LastStored, *)
(* which ends with the first Redis failure.                                *)
NotAhead(m) ==
  /\ dbApp[regApp] # None => dbApp[regApp].last <= m
  /\ \A w \in Workers : \A i \in DOMAIN queue[w] :
       queue[w][i].live => queue[w][i].info.last <= m

Behind ==
  ~stale =>
    /\ regApp # None => NotAhead(regappMap[regApp].last)
    /\ handler.pc \in {"regDevice", "regUser"} => dbApp[handler.reg] = Fresh

(* A step outside of a session leaves nothing to compare.                  *)
LEMMA NoneBehind ==
  ASSUME regApp' = None, handler'.pc \notin {"regDevice", "regUser"}
  PROVE  Behind'
  BY DEF Behind

(* A write of UpdateJob that is not late.                                  *)
LEMMA LiveUpdate ==
  ASSUME IInv, Behind, ~stale', NEW w \in Workers, UpdateJob(w)
  PROVE  /\ ~stale
         /\ regApp \in RegIds /\ InSession /\ NotAhead(regappMap[regApp].last)
         /\ Settled /\ worker # None
         /\ UNCHANGED <<regApp, regappMap, handler>>
         /\ \E job \in JobType :
              /\ job = queue[w][1] /\ 1 \in DOMAIN queue[w]
              /\ job.live /\ job.reg = regApp
              /\ job.info.last <= regappMap[regApp].last
              /\ dbApp' = dbApp \/ dbApp' = [dbApp EXCEPT ![regApp] = job.info]
         /\ DOMAIN queue'[w] = 1..(Len(queue[w]) - 1)
         /\ \A i \in DOMAIN queue'[w] :
              i + 1 \in DOMAIN queue[w] /\ queue'[w][i] = queue[w][i + 1]
         /\ \A v \in Workers \ {w} : queue'[v] = queue[v]
  <1>1. TypeOK /\ HandlerOK /\ LiveJobs /\ MemoryBacked
    BY DEF IInv
  <1> DEFINE job == Head(queue[w])
  <1>2. /\ queue[w] # <<>> /\ queue' = [queue EXCEPT ![w] = Tail(@)]
        /\ stale' = (stale \/ ~job.live)
        /\ \/ dbApp' = [dbApp EXCEPT ![job.reg] = job.info]
           \/ dbApp' = dbApp
        /\ UNCHANGED <<regApp, regappMap, handler>>
    BY DEF UpdateJob, memory
  <1>3. /\ job = queue[w][1] /\ job \in JobType
        /\ Len(queue[w]) \in Nat \ {0} /\ DOMAIN queue[w] = 1..Len(queue[w])
        /\ DOMAIN queue'[w] = 1..(Len(queue[w]) - 1)
        /\ \A i \in 1..(Len(queue[w]) - 1) : queue'[w][i] = queue[w][i + 1]
        /\ \A v \in Workers \ {w} : queue'[v] = queue[v]
    BY <1>1, <1>2, TailJobs, QueueType
  <1> HIDE DEF job
  <1>4. 1 \in DOMAIN queue[w] /\ ~stale /\ job.live
    <2>1. ~stale /\ job.live
      BY <1>2, Zenon
    <2>2. 1 \in DOMAIN queue[w]
      BY <1>3
    <2>3. QED BY <2>1, <2>2
  <1>5. /\ w = worker /\ job.reg = regApp /\ regApp # None /\ Settled
    BY <1>1, <1>3, <1>4, LiveJobsOf
  <1>6. regApp \in RegIds /\ InSession /\ worker # None
    BY <1>1, <1>5, Bounds DEF TypeOK, MemoryBacked, InSession
  <1>7. NotAhead(regappMap[regApp].last)
    BY <1>4, <1>5 DEF Behind
  <1>8. job.info.last <= regappMap[regApp].last
    BY <1>3, <1>4, <1>7 DEF NotAhead
  <1>9. ASSUME NEW i \in DOMAIN queue'[w]
        PROVE  i + 1 \in DOMAIN queue[w] /\ queue'[w][i] = queue[w][i + 1]
    <2> DEFINE l == Len(queue[w])
    <2>1. l \in Nat \ {0} /\ i \in 1..(l - 1) /\ DOMAIN queue[w] = 1..l
      BY <1>3
    <2> HIDE DEF l
    <2>2. i + 1 \in 1..l
      BY <2>1
    <2>3. QED BY <1>3, <2>1, <2>2 DEF l
  <1>10. QED BY <1>2, <1>3, <1>4, <1>5, <1>6, <1>7, <1>8, <1>9

LEMMA StepBehind ==
  ASSUME IInv, Behind, [Next]_vars
  PROVE  Behind'
  <1> SUFFICES ASSUME ~stale'
               PROVE  Behind'
    BY DEF Behind
  <1>1. /\ TypeOK /\ HandlerOK /\ LiveJobs /\ MemoryBacked
        /\ \A r \in RegIds : r # None
        /\ \A w \in Workers : w # None
        /\ \A i \in InfoType : i # None /\ i.last \in 0..MaxMsg
        /\ dbApp \in [RegIds -> InfoType \union {None}]
        /\ regappMap \in [RegIds -> InfoType \union {None}]
        /\ regApp \in RegIds \union {None} /\ MaxMsg \in Nat
    BY Bounds, InfoFields DEF IInv, TypeOK
  <1>2. /\ ~stale
        /\ regApp # None => NotAhead(regappMap[regApp].last)
        /\ handler.pc \in {"regDevice", "regUser"} => dbApp[handler.reg] = Fresh
    BY NextFaults DEF Behind
  <1>3. regApp = None =>
          \A w \in Workers : \A i \in DOMAIN queue[w] : ~queue[w][i].live
    BY <1>1, LiveJobsOf
  <1>4. Idle.pc = "idle"
    BY DEF Idle
  <1>5. ASSUME NEW r \in RegIds, NEW ids \in SUBSET SendIds, RegisterApp(r, ids)
        PROVE  Behind'
    <2>1. /\ regApp' = None /\ handler = Idle
          /\ \/ /\ dbApp' = [dbApp EXCEPT ![r] = Fresh]
                /\ handler' = [pc |-> "regDevice", reg |-> r, ids |-> ids]
             \/ handler' = handler
      BY <1>5 DEF RegisterApp, Ready, memory
    <2>2. dbApp' = [dbApp EXCEPT ![r] = Fresh] => dbApp'[r] = Fresh
      BY <1>1
    <2>3. QED BY <1>4, <2>1, <2>2 DEF Behind
  <1>6. CASE RegisterDevice
    <2>1. /\ regApp' = None /\ dbApp' = dbApp /\ handler'.reg = handler.reg
          /\ handler.pc = "regDevice"
      BY <1>1, <1>6, PhaseMoves DEF RegisterDevice, HandlerOK, memory
    <2>2. QED BY <1>2, <2>1 DEF Behind
  <1>7. CASE RegisterUser
    <2> DEFINE r == handler.reg
    <2>1. /\ r \in RegIds /\ regApp = None /\ regApp' = r /\ dbApp' = dbApp
          /\ regappMap' = [regappMap EXCEPT ![r] = Fresh] /\ queue' = queue
          /\ handler.pc = "regUser"
          /\ handler' = Idle \/ handler' = [handler EXCEPT !.pc = "regIds"]
      BY <1>1, <1>7 DEF RegisterUser, HandlerOK
    <2>2. dbApp[r] = Fresh
      BY <1>2, <2>1
    <2>3. handler'.pc \in {"idle", "regIds"}
      BY <1>1, <1>4, <2>1, PhaseMoves
    <2> HIDE DEF r
    <2>4. regappMap'[regApp'] = Fresh /\ dbApp'[regApp'] = Fresh
      BY <1>1, <2>1, <2>2
    <2>5. Fresh.last <= Fresh.last
      BY FreshInfo
    <2>6. NotAhead(regappMap[regApp].last)'
      BY <1>3, <2>1, <2>4, <2>5 DEF NotAhead
    <2>7. QED BY <2>3, <2>6 DEF Behind
  <1>8. CASE Unregister
    <2>1. /\ dbApp' \in {dbApp, [dbApp EXCEPT ![regApp] = None]}
          /\ queue' = OnJobs(Outlived) /\ UNCHANGED <<regApp, regappMap>>
          /\ handler' = [pc |-> "unregDevice", reg |-> regApp, ids |-> {}]
      BY <1>8 DEF Unregister, memory
    <2>2. \A w \in Workers : \A i \in DOMAIN queue'[w] : ~queue'[w][i].live
      BY <1>1, <2>1, JobsOutlived
    <2>3. dbApp'[regApp] = dbApp[regApp] \/ dbApp'[regApp] = None \/ regApp = None
      BY <1>1, <2>1
    <2>4. regApp' # None => NotAhead(regappMap[regApp].last)'
      BY <1>2, <2>1, <2>2, <2>3 DEF NotAhead
    <2>5. handler'.pc = "unregDevice"
      BY <2>1
    <2>6. QED BY <2>4, <2>5 DEF Behind
  <1>9. CASE UnregisterDevice
    <2>1. UNCHANGED <<dbApp, regApp, regappMap, queue>>
      BY <1>9 DEF UnregisterDevice, memory
    <2>2. handler'.pc = "unregUser"
      BY <1>1, <1>9, PhaseMoves DEF UnregisterDevice
    <2>3. QED BY <1>2, <2>1, <2>2 DEF Behind, NotAhead
  <1>10. CASE UnregisterUser \/ Disconnect \/ Exit
    <2>1. regApp' = None /\ (handler' = Idle \/ (handler' = handler /\ handler = Idle))
      BY <1>10 DEF UnregisterUser, Disconnect, Exit, Ready
    <2>2. QED BY <1>4, <2>1, NoneBehind
  <1>11. CASE ListRequest
    <2>1. /\ UNCHANGED regApp /\ regApp \in RegIds /\ regApp # None
          /\ regappMap[regApp] \in InfoType
      BY <1>1, <1>11 DEF ListRequest, InSession
    <2>2. handler'.pc \notin {"regDevice", "regUser"}
      <3>1. handler'.pc \in {"idle", handler.pc, "unregister"} /\ Settled
        BY <1>11 DEF ListRequest, Idle
      <3>2. QED BY <3>1 DEF Settled
    <2> DEFINE m == regappMap[regApp].last
    <2>3. /\ JobsLike /\ SameLive /\ regappMap'[regApp].last = m
          /\ dbApp'[regApp] = dbApp[regApp] \/ dbApp'[regApp].last = m
      <3>1. CASE ListStep
        <4>1. PICK new \in InfoType, left \in InfoType :
                /\ Put(new) \/ PutFails(new, left)
                /\ new.last = m /\ left.last = m
          BY <3>1 DEF ListStep
        <4> HIDE DEF m
        <4>2. regappMap'[regApp] \in {new, left} /\ dbApp'[regApp] \in {dbApp[regApp], new}
          BY <1>1, <2>1, <4>1 DEF Put, PutFails
        <4>3. QED BY <3>1, <4>1, <4>2 DEF ListStep
      <3>2. CASE UNCHANGED <<dbApp, regappMap, queue, faults>>
        BY <1>1, <3>2, JobsUnchanged
      <3>3. QED BY <1>11, <3>1, <3>2 DEF ListRequest
    <2>4. m \in 0..MaxMsg /\ NotAhead(m)
      BY <1>1, <1>2, <2>1
    <2> HIDE DEF m
    <2>5. ASSUME NEW w \in Workers, NEW i \in DOMAIN queue'[w], queue'[w][i].live
          PROVE  queue'[w][i].info.last <= m
      <3>1. /\ i \in DOMAIN queue[w] /\ queue[w][i].live
            /\ queue'[w][i].info.last = queue[w][i].info.last
        BY <2>3, <2>5 DEF JobsLike, SameLive, Like
      <3>2. QED BY <2>4, <3>1 DEF NotAhead
    <2>6. dbApp'[regApp] # None => dbApp'[regApp].last <= m
      BY <1>1, <2>3, <2>4 DEF NotAhead
    <2>7. NotAhead(regappMap[regApp].last)'
      BY <2>1, <2>3, <2>5, <2>6 DEF NotAhead
    <2>8. QED BY <2>2, <2>7 DEF Behind
  <1>12. ASSUME NEW w \in Workers,
                ConnectListed(w) \/ ConnectUnlisted(w) \/ ConnectSync(w)
         PROVE  Behind'
    <2>1. /\ regApp = None /\ dbApp' = dbApp /\ handler' = handler
          /\ queue' = queue /\ \A r \in RegIds : regappMap[r] = None
          /\ handler = Idle
      BY <1>1, <1>12 DEF ConnectListed, ConnectUnlisted, ConnectSync, HandlerOK,
         MemoryBacked, redis
    <2>2. ASSUME regApp' # None
          PROVE  NotAhead(regappMap[regApp].last)'
      <3>1. PICK r \in RegIds :
              /\ regApp' = r /\ regappMap' = [regappMap EXCEPT ![r] = dbApp[r]]
              /\ dbApp[r] # None
        <4>1. ~ConnectUnlisted(w)
          BY <2>1, <2>2 DEF ConnectUnlisted, memory
        <4>2. CASE ConnectListed(w)
          BY <1>1, <2>1, <2>2, <4>2 DEF ConnectListed, memory, TypeOK
        <4>3. CASE ConnectSync(w)
          BY <1>1, <2>1, <2>2, <4>3 DEF ConnectSync, memory, TypeOK
        <4>4. QED BY <1>12, <4>1, <4>2, <4>3
      <3>2. dbApp[r] \in InfoType /\ regappMap'[r] = dbApp[r]
        BY <1>1, <3>1
      <3>3. dbApp[r].last <= dbApp[r].last
        BY <1>1, <3>2
      <3>4. QED BY <1>3, <2>1, <3>1, <3>2, <3>3 DEF NotAhead
    <2>3. QED BY <1>4, <2>1, <2>2 DEF Behind
  <1>13. ASSUME NEW r \in RegIds, NEW n \in 1..MaxMsg, PushReply(r, n)
         PROVE  Behind'
    <2>1. /\ regApp' = regApp /\ dbApp' = dbApp /\ handler' = Idle
          /\ worker \in Workers
      BY <1>13, AcceptedReply DEF redis
    <2>2. CASE UNCHANGED <<regappMap, queue>>
      BY <1>2, <1>4, <2>1, <2>2 DEF Behind, NotAhead
    <2>3. CASE ~UNCHANGED <<regappMap, queue>>
      <3>1. Accepts(r, n) /\ n > regappMap[r].last
        BY <1>13, <2>3, AcceptedReply DEF PushReply
      <3>2. PICK new \in InfoType, j \in JobType :
              /\ r = regApp /\ InSession /\ new.last = n
              /\ j.info = new
              /\ regappMap' = [regappMap EXCEPT ![r] = new]
              /\ queue' = [queue EXCEPT ![worker] = Append(@, j)]
        BY <3>1 DEF Accepts
      <3>3. /\ Len(queue[worker]) \in Nat
            /\ DOMAIN queue'[worker] = 1..(Len(queue[worker]) + 1)
            /\ DOMAIN queue[worker] = 1..Len(queue[worker])
            /\ \A i \in 1..Len(queue[worker]) : queue'[worker][i] = queue[worker][i]
            /\ queue'[worker][Len(queue[worker]) + 1] = j
            /\ \A v \in Workers \ {worker} : queue'[v] = queue[v]
        BY <1>1, <2>1, <3>2, AppendJob, QueueType
      <3> DEFINE m == regappMap[regApp].last
      <3>4. /\ regappMap'[regApp'].last = n /\ m \in 0..MaxMsg /\ m <= n
            /\ NotAhead(m)
        BY <1>1, <1>2, <2>1, <3>1, <3>2 DEF InSession
      <3> HIDE DEF m
      <3>5. dbApp'[regApp'] # None => dbApp'[regApp'].last <= n
        BY <1>1, <2>1, <3>2, <3>4 DEF NotAhead
      <3>6. ASSUME NEW w \in Workers, NEW i \in DOMAIN queue'[w], queue'[w][i].live
            PROVE  queue'[w][i].info.last <= n
        <4>1. CASE i \in DOMAIN queue[w] /\ queue'[w][i] = queue[w][i]
          <5>1. queue[w][i].info.last \in 0..MaxMsg
            BY <1>1, <4>1, QueueType, JobFields
          <5>2. queue[w][i].info.last <= m
            BY <3>4, <3>6, <4>1 DEF NotAhead
          <5>3. QED BY <1>1, <3>4, <4>1, <5>1, <5>2
        <4>2. CASE w = worker /\ i = Len(queue[worker]) + 1
          BY <3>2, <3>3, <4>2
        <4>3. QED BY <3>3, <3>6, <4>1, <4>2
      <3>7. NotAhead(regappMap[regApp].last)'
        BY <3>4, <3>5, <3>6 DEF NotAhead
      <3>8. QED BY <1>4, <2>1, <3>7 DEF Behind
    <2>4. QED BY <2>2, <2>3
  <1>14. ASSUME NEW w \in Workers, UpdateJob(w)
         PROVE  Behind'
    <2>1. PICK job \in JobType :
            /\ job.info.last <= regappMap[regApp].last
            /\ dbApp' = dbApp \/ dbApp' = [dbApp EXCEPT ![regApp] = job.info]
      BY <1>14, LiveUpdate
    <2>2. /\ regApp \in RegIds /\ Settled
          /\ UNCHANGED <<regApp, regappMap, handler>>
          /\ \A i \in DOMAIN queue'[w] :
               i + 1 \in DOMAIN queue[w] /\ queue'[w][i] = queue[w][i + 1]
          /\ \A v \in Workers \ {w} : queue'[v] = queue[v]
      BY <1>14, LiveUpdate
    <2>3. NotAhead(regappMap[regApp].last)
      BY <1>1, <1>2, <2>2
    <2>4. dbApp'[regApp] = dbApp[regApp] \/ dbApp'[regApp] = job.info
      BY <1>1, <2>1, <2>2
    <2>5. ASSUME NEW v \in Workers, NEW i \in DOMAIN queue'[v], queue'[v][i].live
          PROVE  queue'[v][i].info.last <= regappMap[regApp].last
      <3>1. \E k \in DOMAIN queue[v] : queue'[v][i] = queue[v][k]
        BY <2>2, <2>5
      <3>2. QED BY <2>3, <2>5, <3>1 DEF NotAhead
    <2>6. NotAhead(regappMap[regApp].last)'
      BY <2>1, <2>2, <2>3, <2>4, <2>5 DEF NotAhead
    <2>7. handler'.pc \notin {"regDevice", "regUser"}
      BY <2>2 DEF Settled
    <2>8. QED BY <2>6, <2>7 DEF Behind
  <1>15. CASE UNCHANGED vars
    BY <1>2, <1>15 DEF vars, redis, memory, Behind, NotAhead
  <1>16. QED BY <1>5, <1>6, <1>7, <1>8, <1>9, <1>10, <1>11, <1>12, <1>13, <1>14,
                <1>15, Steps DEF Registering

(* A set of positions in a queue has a last one.                           *)
LEMMA Greatest ==
  ASSUME NEW L \in Nat, NEW T, T \subseteq 1..L, T # {}
  PROVE  \E n \in T : \A k \in T : k <= n
  <1> DEFINE S == 1..L
             U == {u \in SUBSET S : \E k \in T : u = k..L}
  <1>1. PICK t \in T : TRUE
    OBVIOUS
  <1>2. IsFiniteSet(S)
    BY FS_Interval
  <1>3. IsWellFoundedOn(StrictSubsetOrdering(S), SUBSET S)
    BY <1>2, FS_StrictSubsetOrderingWellFounded, FS_FiniteSubsetsOfFinite
  <1>4. t..L \in U
    BY <1>1
  <1>5. U # {} /\ U \subseteq SUBSET S
    BY <1>4
  <1> HIDE DEF S, U
  <1>6. PICK u \in U : \A v \in U : <<v, u>> \notin StrictSubsetOrdering(S)
    BY <1>3, <1>5, WFMin
  <1>7. PICK n \in T : u = n..L
    BY <1>6 DEF U
  <1>8. ASSUME NEW k \in T, k > n
        PROVE  FALSE
    <2>1. k..L \in U
      BY <1>1, <1>8 DEF U, S
    <2>2. k..L \subseteq u /\ n \in u /\ n \notin k..L
      BY <1>7, <1>8
    <2>3. <<k..L, u>> \in StrictSubsetOrdering(S)
      BY <1>5, <2>1, <2>2 DEF StrictSubsetOrdering
    <2>4. QED BY <1>6, <2>1, <2>3
  <1>9. QED BY <1>7, <1>8

(* Of the live jobs in the queue of a worker, one is the latest.           *)
LEMMA LatestJob ==
  ASSUME TypeOK, NEW w \in Workers, NEW k \in DOMAIN queue[w], queue[w][k].live
  PROVE  \E n \in DOMAIN queue[w] : n >= k /\ queue[w][n].live /\ Latest(w, n)
  <1> DEFINE T == {i \in DOMAIN queue[w] : queue[w][i].live}
             L == Len(queue[w])
  <1>1. L \in Nat /\ DOMAIN queue[w] = 1..L
    BY QueueType
  <1>2. T \subseteq 1..L /\ k \in T
    BY <1>1
  <1> HIDE DEF T, L
  <1>3. PICK n \in T : \A i \in T : i <= n
    BY <1>1, <1>2, Greatest
  <1>4. n \in DOMAIN queue[w] /\ queue[w][n].live /\ n >= k
    BY <1>1, <1>2, <1>3 DEF T
  <1>5. ASSUME NEW i \in DOMAIN queue[w], i > n
        PROVE  ~queue[w][i].live
    <2>1. i \notin T
      BY <1>1, <1>2, <1>3, <1>5
    <2>2. QED BY <2>1 DEF T
  <1>6. QED BY <1>4, <1>5 DEF Latest

(* A step that lowers a stored LastMsgId registers the app anew, or leaves *)
(* a job of the connection in the queue that brings it back.               *)
Lowered(r) == dbApp[r] # None /\ dbApp'[r] # None /\ dbApp'[r].last < dbApp[r].last

LEMMA StepKept ==
  ASSUME IInv, Behind, [Next]_vars, ~stale', NEW r \in RegIds, Lowered(r)
  PROVE  \/ \E w \in Workers : \E i \in DOMAIN queue'[w] :
              Restorer(queue'[w][i], r, dbApp[r].last)
         \/ Registering(r)
  <1>1. /\ TypeOK /\ HandlerOK /\ LiveJobs
        /\ \A s \in RegIds : s # None
        /\ \A i \in InfoType : i # None /\ i.last \in 0..MaxMsg
        /\ dbApp \in [RegIds -> InfoType \union {None}]
        /\ regApp \in RegIds \union {None} /\ MaxMsg \in Nat
    BY Bounds, InfoFields DEF IInv, TypeOK
  <1>2. dbApp[r] \in InfoType /\ dbApp[r].last \in 0..MaxMsg /\ ~stale
    BY <1>1, NextFaults DEF Lowered
  <1>3. dbApp' # dbApp /\ dbApp'[r] # dbApp[r]
    BY <1>2 DEF Lowered
  <1>4. ASSUME NEW s \in RegIds, NEW ids \in SUBSET SendIds, RegisterApp(s, ids)
        PROVE  Registering(r)
    <2>1. dbApp' \in {dbApp, [dbApp EXCEPT ![s] = Fresh]}
      BY <1>4 DEF RegisterApp
    <2>2. s = r
      BY <1>1, <1>3, <2>1
    <2>3. QED BY <1>4, <2>2 DEF Registering
  <1>5. CASE RegisterDevice \/ RegisterUser \/ UnregisterDevice \/ UnregisterUser
    BY <1>3, <1>5
       DEF RegisterDevice, RegisterUser, UnregisterDevice, UnregisterUser
  <1>6. ~Unregister
    <2>1. ASSUME Unregister
          PROVE  FALSE
      <3>1. dbApp' = dbApp \/ dbApp' = [dbApp EXCEPT ![regApp] = None]
        BY <2>1 DEF Unregister
      <3>2. dbApp'[r] = dbApp[r] \/ dbApp'[r] = None
        BY <1>1, <3>1
      <3>3. QED BY <1>3, <3>2 DEF Lowered
    <2>2. QED BY <2>1
  <1>7. ~ListRequest
    <2>1. ASSUME ListRequest
          PROVE  FALSE
      <3>1. /\ regApp \in RegIds /\ regApp # None /\ InSession /\ ListStep
        BY <1>1, <1>3, <2>1 DEF ListRequest, InSession
      <3> DEFINE m == regappMap[regApp].last
      <3>2. PICK new \in InfoType :
              /\ dbApp' = dbApp \/ dbApp' = [dbApp EXCEPT ![regApp] = new]
              /\ new.last = m
        BY <3>1 DEF ListStep, Put, PutFails
      <3>3. NotAhead(m) /\ m \in 0..MaxMsg
        BY <1>1, <1>2, <3>1 DEF Behind, InSession
      <3> HIDE DEF m
      <3>4. r = regApp /\ dbApp'[r] = new
        BY <1>1, <1>3, <3>2
      <3>5. dbApp[r].last <= m
        BY <3>3, <3>4 DEF NotAhead, Lowered
      <3>6. dbApp'[r].last = m /\ dbApp'[r].last < dbApp[r].last
        BY <3>2, <3>4 DEF Lowered
      <3>7. QED BY <1>2, <1>1, <3>3, <3>5, <3>6
    <2>2. QED BY <2>1
  <1>8. ASSUME NEW w \in Workers,
               ConnectListed(w) \/ ConnectUnlisted(w) \/ ConnectSync(w)
        PROVE  FALSE
    BY <1>3, <1>8 DEF ConnectListed, ConnectUnlisted, ConnectSync, redis
  <1>9. ASSUME NEW s \in RegIds, NEW n \in 1..MaxMsg, PushReply(s, n)
        PROVE  FALSE
    BY <1>3, <1>9, AcceptedReply DEF redis
  <1>10. ASSUME NEW w \in Workers, UpdateJob(w)
         PROVE  \E i \in DOMAIN queue'[w] :
                  Restorer(queue'[w][i], r, dbApp[r].last)
    <2>1. PICK job \in JobType :
            /\ job = queue[w][1] /\ 1 \in DOMAIN queue[w] /\ job.live
            /\ dbApp' = dbApp \/ dbApp' = [dbApp EXCEPT ![regApp] = job.info]
      BY <1>10, LiveUpdate
    <2>2. /\ regApp \in RegIds /\ NotAhead(regappMap[regApp].last) /\ InSession
          /\ DOMAIN queue'[w] = 1..(Len(queue[w]) - 1)
          /\ \A i \in DOMAIN queue'[w] :
               i + 1 \in DOMAIN queue[w] /\ queue'[w][i] = queue[w][i + 1]
      BY <1>10, LiveUpdate
    <2>3. r = regApp /\ dbApp'[r] = job.info
      BY <1>1, <1>3, <2>1, <2>2
    <2> DEFINE m == regappMap[regApp].last
    <2>4. m \in 0..MaxMsg /\ dbApp[r].last <= m
      BY <1>1, <2>2, <2>3 DEF NotAhead, InSession, Lowered
    <2>5. ~Latest(w, 1)
      <3>1. ASSUME Latest(w, 1)
            PROVE  job.info.last = m
        BY <1>1, <2>1, <3>1, LiveJobsOf
      <3> HIDE DEF m
      <3>2. job.info.last < dbApp[r].last
        BY <2>3 DEF Lowered
      <3>3. QED BY <1>1, <1>2, <2>4, <3>1, <3>2
    <2>6. PICK i \in DOMAIN queue[w] : i > 1 /\ queue[w][i].live
      BY <2>5 DEF Latest
    <2>7. PICK k \in DOMAIN queue[w] : k >= i /\ queue[w][k].live /\ Latest(w, k)
      BY <1>1, <2>6, LatestJob
    <2>8. queue[w][k].info.last = m /\ queue[w][k].reg = r
      BY <1>1, <2>3, <2>7, LiveJobsOf
    <2> HIDE DEF m
    <2>9. k - 1 \in DOMAIN queue'[w] /\ (k - 1) + 1 = k
      BY <1>1, <2>2, <2>6, <2>7, QueueType
    <2>10. queue'[w][k - 1] = queue[w][k]
      BY <2>2, <2>9
    <2>11. queue[w][k].info.last >= dbApp[r].last
      BY <1>1, <1>2, <2>4, <2>8
    <2>12. QED BY <2>7, <2>8, <2>9, <2>10, <2>11 DEF Restorer
  <1>11. CASE Disconnect \/ Exit \/ UNCHANGED vars
    BY <1>3, <1>11 DEF Disconnect, Exit, redis, vars
  <1>12. QED BY <1>4, <1>5, <1>6, <1>7, <1>8, <1>9, <1>10, <1>11, Steps
             DEF Registering

(* UpdateJob, UpdateAppInfo and UnregisterApp never store a LastMsgId      *)
(* lower than the stored one, except that UpdateJob may write a snapshot   *)
(* overtaken by a subscription, and then a later job with a LastMsgId at   *)
(* least as high as the one taken back waits in a queue; only RegisterApp, *)
(* which does not read db_app, starts again.                               *)
THEOREM LastMsgIdKeptHolds == Spec => LastMsgIdKept
  <1> DEFINE Kept ==
        ~stale' =>
          \A r \in RegIds :
            dbApp[r] # None /\ dbApp'[r] # None /\ dbApp'[r].last < dbApp[r].last =>
              \/ \E w \in Workers : \E i \in DOMAIN queue'[w] :
                   Restorer(queue'[w][i], r, dbApp[r].last)
              \/ \E ids \in SUBSET SendIds : RegisterApp(r, ids)
  <1>1. Init => Behind
    BY DEF Init, Behind, Idle
  <1>2. IInv /\ Behind /\ [Next]_vars => Behind'
    BY StepBehind
  <1>3. IInv /\ Behind /\ [Next]_vars => Kept
    BY StepKept DEF Lowered, Registering
  <1>4. Spec => []Behind
    BY <1>1, <1>2, Inductive, PTL DEF Spec
  <1>5. IInv /\ Behind /\ [Next]_vars => [Kept]_vars
    BY <1>3
  <1> HIDE DEF Kept
  <1>6. Spec => [][Kept]_vars
    BY <1>4, <1>5, Inductive, PTL DEF Spec
  <1>7. QED BY <1>6 DEF LastMsgIdKept, Kept

=============================================================================
