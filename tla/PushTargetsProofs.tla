------------------------- MODULE PushTargetsProofs -------------------------
(***************************************************************************)
(* Proofs about PushTargets, for any devices, profiles and messages, any   *)
(* size of a page, any time and any difference between the clocks.         *)
(***************************************************************************)
EXTENDS PushTargets, FiniteSetTheorems, FunctionTheorems, TLAPS

-----------------------------------------------------------------------------
(* The inductive invariant.                                                *)
Phases == {"idle", "scan", "page", "push", "done"}
Conns == {"none", "opened", "added", "listed", "up", "timed", "stored", "named", "mapped",
          "removed", "unnamed", "unmapped", "closing", "dropped"}

JobFor(d) == job \in {Job(d, TRUE), Job(d, FALSE)}

DeviceTypes ==
  /\ profile \in Profiles
  /\ conn \in [Devices -> Conns]
  /\ regTime \in [Devices -> Nat]
  /\ dbApp \subseteq Devices /\ dbUser \subseteq Devices
  /\ regappMap \subseteq Devices /\ regApps \subseteq Devices

TypeOK ==
  /\ DeviceTypes
  /\ clock \in Nat /\ ctime \in Int
  /\ msg \in Messages \union {None}
  /\ stored \in BOOLEAN
  /\ DOMAIN consumer = {"pc", "names", "apps"}
  /\ consumer.pc \in Phases
  /\ consumer.apps \subseteq Devices
  /\ job = None \/ \E d \in Devices : JobFor(d)
  /\ pushed \in [Devices -> 0..2]
  /\ read \subseteq Devices /\ steady \subseteq Devices /\ known \subseteq Devices

(* Nothing happens to a message before it is stored.                       *)
Order ==
  /\ stored => msg # None
  /\ consumer.pc # "idle" => stored
  /\ consumer.pc = "idle" =>
       /\ steady = {} /\ known = {} /\ consumer.apps = {}
       /\ \A d \in Devices : pushed[d] = 0
  /\ consumer.pc \in {"idle", "scan", "done"} => job = None
  /\ read # {} => stored

UserStored(d) == profile[d].user # None => d \in dbUser

(* How far the registration of a device is when its goroutine is at some   *)
(* place in a handler: who is attached is in both maps, and is found under *)
(* its user.                                                               *)
Placed(d) ==
  /\ d \in regApps => conn[d] \in {"listed", "up", "removed", "unnamed", "unmapped",
                                   "closing", "dropped"}
  /\ conn[d] \in {"added", "mapped"} \/ Attached(d) => d \in regappMap /\ UserStored(d)
  /\ (d \in dbApp /\ conn[d] # "stored") \/ conn[d] = "named" => UserStored(d)
  /\ conn[d] = "removed" => d \notin dbApp
  /\ d \in known => ~Registering(d)

(* By which name the consumer finds the device.                            *)
NameOf(d) == IF msg.type = "user" THEN profile[d].user ELSE d

(* What the consumer has to do concerns devices the message is for, each   *)
(* of them once.                                                           *)
Targets ==
  /\ consumer.names \subseteq IF msg.type = "topic" THEN {} ELSE msg.to
  /\ consumer.pc = "push" => msg.type # "group"
  /\ consumer.pc = "push" /\ consumer.names # {} => msg.type \in {"regid", "devid", "user"}
  /\ consumer.pc \in {"scan", "page"} => msg.type = "group"
  /\ consumer.pc \in {"idle", "scan", "done"} =>
       consumer.names = {} /\ consumer.apps = {}
  /\ consumer.pc = "done" => (msg.type = "group" => FitsPage)
  /\ \A d \in consumer.apps : Addressed(d) /\ NameOf(d) \notin consumer.names
  /\ \A d \in Devices : JobFor(d) =>
       /\ Addressed(d) /\ SendIdGiven(d)
       /\ NameOf(d) \notin consumer.names /\ d \notin consumer.apps

(* What came of it is for them.                                            *)
Given ==
  \A d \in Devices :
    /\ pushed[d] > 0 => Addressed(d) /\ SendIdGiven(d)
    /\ d \in read => Addressed(d) /\ OfflineSendId(profile[d])

(* The consumer will come to the device, or still has a registration of    *)
(* it, or a job for its connection.                                        *)
Waits(d) ==
  \/ d \in consumer.apps
  \/ NameOf(d) \in consumer.names
  \/ consumer.pc = "scan" /\ d \in msg.to
  \/ job = Job(d, TRUE)

(* The consumer comes to an end.                                           *)
Ends == msg.type = "group" => FitsPage

(* A device that stays is pushed to once.                                  *)
PushedOnce ==
  \A d \in steady :
    /\ Attached(d)
    /\ Ends /\ Addressed(d) /\ SendIdGiven(d) =>
         pushed[d] = IF Waits(d) THEN 0 ELSE 1

(* A device that comes reads the message, if it was registered in time.    *)
Reached ==
  consumer.pc # "idle" /\ Ends =>
    \A d \in Devices : Claims(d) => pushed[d] > 0 \/ d \in read \/ Waits(d)

IInv ==
  /\ TypeOK
  /\ Order
  /\ \A d \in Devices : Placed(d)
  /\ consumer.pc # "idle" => Targets
  /\ msg # None => Given
  /\ consumer.pc # "idle" => PushedOnce
  /\ Reached

-----------------------------------------------------------------------------
(* The operators.                                                          *)
Fields == {"pc", "names", "apps"}

LEMMA ConsumerFields ==
  ASSUME NEW p, NEW n, NEW a
  PROVE  /\ DOMAIN Consumer(p, n, a) = Fields
         /\ Consumer(p, n, a).pc = p
         /\ Consumer(p, n, a).names = n
         /\ Consumer(p, n, a).apps = a
  BY DEF Consumer, Fields

LEMMA ConsumerChanged ==
  ASSUME NEW c, DOMAIN c = Fields, NEW m, NEW b
  PROVE  /\ DOMAIN [c EXCEPT !.apps = b] = Fields
         /\ [c EXCEPT !.apps = b].pc = c.pc
         /\ [c EXCEPT !.apps = b].names = c.names
         /\ [c EXCEPT !.apps = b].apps = b
         /\ DOMAIN [c EXCEPT !.names = m, !.apps = b] = Fields
         /\ [c EXCEPT !.names = m, !.apps = b].pc = c.pc
         /\ [c EXCEPT !.names = m, !.apps = b].names = m
         /\ [c EXCEPT !.names = m, !.apps = b].apps = b
  BY DEF Fields

(* A page holds members of the group only.                                 *)
LEMMA PartOfSize ==
  ASSUME NEW S, IsFiniteSet(S), NEW k \in Nat, k <= Cardinality(S)
  PROVE  \E part \in SUBSET S : Cardinality(part) = k
<1> DEFINE n == Cardinality(S)
<1>1. n \in Nat /\ ExistsBijection(1..n, S)
  BY FS_CardinalityType
<1>2. PICK f : f \in Bijection(1..n, S)
  BY <1>1 DEF ExistsBijection
<1> DEFINE part == {f[i] : i \in 1..k}
           g == [i \in 1..k |-> f[i]]
<1>3. /\ f \in [1..n -> S]
      /\ \A i, j \in 1..n : f[i] = f[j] => i = j
  BY <1>2 DEF Bijection, Injection, Surjection, IsInjective
<1>4. 1..k \subseteq 1..n
  BY <1>1
<1>5. part \in SUBSET S
  BY <1>3, <1>4
<1>6. g \in Bijection(1..k, part)
  <2>1. g \in [1..k -> part]
    OBVIOUS
  <2>2. \A i, j \in 1..k : g[i] = g[j] => i = j
    BY <1>3, <1>4
  <2>3. \A t \in part : \E i \in 1..k : g[i] = t
    OBVIOUS
  <2> QED
    BY <2>1, <2>2, <2>3 DEF Bijection, Injection, Surjection, IsInjective
<1>7. IsFiniteSet(1..k) /\ Cardinality(1..k) = k
  BY FS_Interval
<1>8. ExistsBijection(1..k, part)
  BY <1>6 DEF ExistsBijection
<1>9. Cardinality(part) = k
  <2> HIDE DEF part
  <2> QED
    BY <1>8, <1>7, FS_CountingElements
<1> QED
  BY <1>5, <1>9

LEMMA PageSubset ==
  ASSUME msg \in Messages, msg.type = "group"
  PROVE  Page \subseteq msg.to
<1>1. IsFiniteSet(msg.to)
  BY MessageAssumption
<1>2. Cardinality(msg.to) \in Nat
  BY <1>1, FS_CardinalityType
<1>3. CASE FitsPage
  BY <1>3 DEF Page
<1>4. CASE ~FitsPage
  <2>1. PageSize \in Nat /\ PageSize <= Cardinality(msg.to)
    BY <1>2, <1>4, BoundAssumption DEF FitsPage
  <2>2. \E page \in SUBSET msg.to : Cardinality(page) = PageSize
    BY <1>1, <2>1, PartOfSize
  <2> QED
    BY <1>4, <2>2 DEF Page
<1> QED
  BY <1>3, <1>4

(* matchTopics agrees with what the sets of the topics say.                *)
LEMMA TopicsMatch ==
  ASSUME msg \in Messages, msg.type = "topic", NEW d
  PROVE  MatchTopics(profile[d].topics, msg.to, msg.op) <=> Addressed(d)
<1> DEFINE T == profile[d].topics
           wanted == {msg.to[i] : i \in DOMAIN msg.to}
           others == {msg.to[i] : i \in DOMAIN msg.to \ {1}}
<1>1. 1 \in DOMAIN msg.to /\ msg.op \in {"or", "and", "except"}
  BY MessageAssumption
<1>2. Addressed(d) <=>
        \/ msg.op = "and" /\ wanted \subseteq T
        \/ msg.op = "or" /\ wanted \intersect T # {}
        \/ msg.op = "except" /\ msg.to[1] \in T /\ others \intersect T = {}
  BY DEF Addressed
<1>3. CASE msg.op = "and"
  <2>1. MatchTopics(T, msg.to, msg.op) <=> \A i \in DOMAIN msg.to : msg.to[i] \in T
    BY <1>3 DEF MatchTopics
  <2>2. (wanted \subseteq T) <=> \A i \in DOMAIN msg.to : msg.to[i] \in T
    OBVIOUS
  <2> QED
    BY <1>2, <1>3, <2>1, <2>2
<1>4. CASE msg.op = "or"
  <2>1. MatchTopics(T, msg.to, msg.op) <=> \E i \in DOMAIN msg.to : msg.to[i] \in T
    BY <1>4 DEF MatchTopics
  <2>2. (wanted \intersect T # {}) <=> \E i \in DOMAIN msg.to : msg.to[i] \in T
    OBVIOUS
  <2> QED
    BY <1>2, <1>4, <2>1, <2>2
<1>5. CASE msg.op = "except"
  <2>1. MatchTopics(T, msg.to, msg.op) <=>
          \A i \in DOMAIN msg.to : (msg.to[i] \in T) <=> (i = 1)
    BY <1>5 DEF MatchTopics
  <2>2. (others \intersect T = {}) <=> \A i \in DOMAIN msg.to \ {1} : msg.to[i] \notin T
    OBVIOUS
  <2>3. (\A i \in DOMAIN msg.to : (msg.to[i] \in T) <=> (i = 1))
          <=> msg.to[1] \in T /\ \A i \in DOMAIN msg.to \ {1} : msg.to[i] \notin T
    BY <1>1
  <2> QED
    BY <1>2, <1>5, <2>1, <2>2, <2>3
<1> QED
  BY <1>1, <1>3, <1>4, <1>5

(* The two ways to a device take the same messages, but for the send ids.  *)
LEMMA OfflineAgrees ==
  ASSUME msg \in Messages, NEW d
  PROVE  OfflineTarget(d) <=> Addressed(d)
<1>1. CASE msg.type = "topic"
  BY <1>1, TopicsMatch DEF OfflineTarget
<1>2. CASE msg.type = "user"
  <2>1. None \notin msg.to
    BY <1>2, MessageAssumption
  <2> QED
    BY <1>2, <2>1 DEF OfflineTarget, Addressed
<1>3. CASE msg.type \notin {"topic", "user"}
  BY <1>3, MessageAssumption DEF OfflineTarget, Addressed
<1> QED
  BY <1>1, <1>2, <1>3

(* Whom a message without topics is for is said by the name of the device. *)
LEMMA NamesAddressed ==
  ASSUME msg \in Messages, NEW d, msg.type \in {"regid", "devid", "group", "user"}
  PROVE  NameOf(d) \in msg.to <=> Addressed(d)
  BY DEF NameOf, Addressed

(* Jobs for different devices differ, and none is None.                    *)
LEMMA JobsDiffer ==
  ASSUME NEW d \in Devices, NEW l \in BOOLEAN
  PROVE  /\ Job(d, l) # None
         /\ Job(d, l).dev = d /\ Job(d, l).live = l
         /\ \A e, k : Job(e, k) = Job(d, l) => e = d /\ k = l
<1>1. Job(d, l) \in [dev : Devices, live : BOOLEAN]
  BY DEF Job
<1>2. Job(d, l).dev = d /\ Job(d, l).live = l
  BY DEF Job
<1>3. \A e, k : Job(e, k).dev = e /\ Job(e, k).live = k
  BY DEF Job
<1> QED
  BY <1>1, <1>2, <1>3, NoneAssumption

(* All this does not change as long as the message and the profiles do.    *)
Still == msg' = msg /\ profile' = profile /\ ctime' = ctime

LEMMA StillSame ==
  ASSUME Still
  PROVE  /\ FitsPage' = FitsPage /\ Ends' = Ends
         /\ \A d : /\ Addressed(d)' = Addressed(d)
                   /\ SendIdGiven(d)' = SendIdGiven(d)
                   /\ NameOf(d)' = NameOf(d)
                   /\ OfflineSendId(profile[d])' = OfflineSendId(profile[d])
  BY DEF Still, FitsPage, Ends, Addressed, SendIdGiven, NameOf, OfflineSendId

-----------------------------------------------------------------------------
(* Initial states.                                                         *)
LEMMA InitOK == Init => IInv
<1> SUFFICES ASSUME Init PROVE IInv
  OBVIOUS
<1>1. DOMAIN consumer = {"pc", "names", "apps"} /\ consumer.pc = "idle" /\ consumer.apps = {}
  BY ConsumerFields DEF Init, Fields
<1>2. TypeOK
  <2>1. clock \in Nat /\ ctime \in Int
    BY DEF Init
  <2>2. DeviceTypes
    BY DEF Init, DeviceTypes, Conns
  <2>3. msg \in Messages \union {None} /\ stored \in BOOLEAN /\ job = None
    BY DEF Init
  <2>4. /\ pushed \in [Devices -> 0..2]
        /\ read \subseteq Devices /\ steady \subseteq Devices /\ known \subseteq Devices
    BY DEF Init
  <2>5. consumer.pc \in Phases /\ consumer.apps \subseteq Devices
    BY <1>1 DEF Phases
  <2> QED
    BY <1>1, <2>1, <2>2, <2>3, <2>4, <2>5 DEF TypeOK
<1>3. Order
  BY <1>1 DEF Init, Order
<1>4. consumer.pc = "idle" /\ msg = None
  BY <1>1 DEF Init
<1>5. \A d \in Devices : Placed(d)
  BY DEF Init, Placed, Attached
<1> QED
  BY <1>2, <1>3, <1>4, <1>5 DEF IInv, Reached

-----------------------------------------------------------------------------
(* Devices.                                                                *)

(* Where a device is does not depend on what changes of others.            *)
Alike(e) ==
  /\ conn'[e] = conn[e] /\ regTime'[e] = regTime[e]
  /\ e \in dbApp' <=> e \in dbApp
  /\ e \in dbUser' <=> e \in dbUser
  /\ e \in regappMap' <=> e \in regappMap
  /\ e \in regApps' <=> e \in regApps

LEMMA OthersStay ==
  ASSUME NEW e, Alike(e), Still, clock' = clock, e \in known' => e \in known
  PROVE  /\ Placed(e) => Placed(e)'
         /\ Attached(e) => Attached(e)'
         /\ Claims(e)' => Claims(e)
<1>1. Placed(e) => Placed(e)'
  BY DEF Alike, Still, Placed, Attached, UserStored, Registering
<1>2. Attached(e) => Attached(e)'
  BY DEF Alike, Attached
<1>3. Claims(e)' => Claims(e)
  BY StillSame DEF Alike, Still, Claims
<1> QED
  BY <1>1, <1>2, <1>3

(* Of the devices that stay, one that steps changes nothing; one that has  *)
(* a claim on the message after the step had it before, or has just read   *)
(* it; a job comes too late only for a device that neither stays nor has a *)
(* claim.                                                                  *)
LEMMA DeviceKeeps ==
  ASSUME IInv, Still, stored' = stored, consumer' = consumer, pushed' = pushed,
         TypeOK', \A d \in Devices : Placed(d)',
         steady' \subseteq steady, consumer.pc = "idle" => known' \subseteq known,
         \A d \in steady' : Attached(d)',
         \/ job' = job
         \/ \E d \in Devices : /\ job = Job(d, TRUE) /\ job' = Job(d, FALSE)
                              /\ d \notin steady' /\ ~Claims(d)',
         read \subseteq read', read' # {} => stored,
         \A d \in read' \ read : Addressed(d) /\ OfflineSendId(profile[d]),
         \A d \in Devices : consumer.pc # "idle" /\ Claims(d)' => Claims(d) \/ d \in read'
  PROVE  IInv'
<1>1. msg' = msg
  BY DEF Still
<1>2. job' # None => job # None
  BY JobsDiffer
<1>3. \A d \in Devices : JobFor(d)' => JobFor(d)
  <2>1. CASE job' = job
    BY <2>1 DEF JobFor
  <2>2. CASE job' # job
    <3>1. PICK e \in Devices : job = Job(e, TRUE) /\ job' = Job(e, FALSE)
      BY <2>2
    <3>2. \A d, l : Job(d, l) = Job(e, FALSE) => d = e
      BY JobsDiffer
    <3> QED
      BY <3>1, <3>2 DEF JobFor
  <2> QED
    BY <2>1, <2>2
<1>4. ASSUME NEW d \in Devices, d \in steady' \/ Claims(d)'
      PROVE  job' = Job(d, TRUE) <=> job = Job(d, TRUE)
  <2>1. CASE job' = job
    BY <2>1
  <2>2. CASE job' # job
    <3>1. PICK e \in Devices : /\ job = Job(e, TRUE) /\ job' = Job(e, FALSE)
                              /\ e \notin steady' /\ ~Claims(e)'
      BY <2>2
    <3>2. d # e
      BY <1>4, <3>1
    <3>3. Job(d, TRUE) # Job(e, TRUE)
      BY <3>2, JobsDiffer
    <3>4. Job(d, TRUE) # Job(e, FALSE)
      BY <3>2, JobsDiffer
    <3> QED
      BY <3>1, <3>3, <3>4
  <2> QED
    BY <2>1, <2>2
<1>5. \A d \in Devices : d \in steady' \/ Claims(d)' => (Waits(d)' <=> Waits(d))
  BY <1>1, <1>4, StillSame DEF Waits
<1>6. Order'
  BY <1>1, <1>2 DEF IInv, Order
<1>7. consumer.pc # "idle" => Targets'
  BY <1>1, <1>3, StillSame DEF IInv, Targets
<1>8. msg # None => Given'
  BY StillSame, <1>1 DEF IInv, Given
<1>9. consumer.pc # "idle" => PushedOnce'
  <2> SUFFICES ASSUME consumer.pc # "idle", NEW d \in steady'
               PROVE  Ends' /\ Addressed(d)' /\ SendIdGiven(d)' =>
                        pushed'[d] = IF Waits(d)' THEN 0 ELSE 1
    BY DEF PushedOnce
  <2>1. d \in Devices /\ d \in steady /\ PushedOnce
    BY DEF IInv, TypeOK
  <2>2. Ends /\ Addressed(d) /\ SendIdGiven(d) => pushed[d] = IF Waits(d) THEN 0 ELSE 1
    BY <2>1 DEF PushedOnce
  <2> QED
    BY <1>5, <2>1, <2>2, StillSame
<1>10. Reached'
  <2> SUFFICES ASSUME consumer.pc # "idle", Ends', NEW d \in Devices, Claims(d)'
               PROVE  pushed'[d] > 0 \/ d \in read' \/ Waits(d)'
    BY DEF Reached
  <2>1. Claims(d) \/ d \in read'
    OBVIOUS
  <2>2. Claims(d) => pushed[d] > 0 \/ d \in read \/ Waits(d)
    BY StillSame DEF IInv, Reached
  <2> QED
    BY <1>5, <2>1, <2>2
<1> QED
  BY <1>1, <1>6, <1>7, <1>8, <1>9, <1>10 DEF IInv

(* The same, when all that changes is about one device.                    *)
LEMMA OneDeviceKeeps ==
  ASSUME IInv, NEW d \in Devices,
         UNCHANGED <<clock, profile, msg, ctime, stored, consumer, pushed>>,
         DeviceTypes', \A e \in Devices \ {d} : Alike(e),
         steady' \subseteq steady, known' \subseteq known \union {d},
         consumer.pc = "idle" => known' \subseteq known,
         Placed(d)', d \in steady' => Attached(d)',
         \/ job' = job
         \/ /\ job = Job(d, TRUE) /\ job' = Job(d, FALSE)
            /\ d \notin steady' /\ ~Claims(d)',
         read \subseteq read', read' \subseteq Devices, read' # {} => stored,
         \A e \in read' \ read : Addressed(e) /\ OfflineSendId(profile[e]),
         consumer.pc # "idle" /\ Claims(d)' => Claims(d) \/ d \in read'
  PROVE  IInv'
<1>1. Still
  BY DEF Still
<1>2. TypeOK
  BY DEF IInv
<1>3. job' = None \/ \E e \in Devices : JobFor(e)'
  BY <1>2 DEF TypeOK, JobFor
<1>4. TypeOK'
  BY <1>2, <1>3 DEF TypeOK
<1>5. \A e \in Devices \ {d} : Placed(e)' /\ (Attached(e) => Attached(e)') /\ (Claims(e)' => Claims(e))
  BY <1>1, OthersStay DEF IInv
<1>6. \A e \in steady' : Attached(e)'
  <2>1. \A e \in steady : e \in Devices /\ Attached(e)
    BY <1>2 DEF IInv, TypeOK, Order, PushedOnce
  <2> QED
    BY <1>5, <2>1
<1> QED
  BY <1>1, <1>4, <1>5, <1>6, DeviceKeeps

(* A set in which only one device may have come or gone.                   *)
Around(S, d) == {S, S \union {d}, S \ {d}}

LEMMA DeviceFacts ==
  ASSUME IInv, NEW d \in Devices, NEW from, NEW to \in Conns, Goes(d, from, to),
         profile' = profile, clock' = clock,
         regTime' \in {regTime, [regTime EXCEPT ![d] = clock], [regTime EXCEPT ![d] = 0]},
         dbApp' \in Around(dbApp, d), dbUser' \in Around(dbUser, d),
         regappMap' \in Around(regappMap, d), regApps' \in Around(regApps, d)
  PROVE  /\ DeviceTypes'
         /\ \A e \in Devices \ {d} : Alike(e)
         /\ conn[d] = from /\ conn'[d] = to
         /\ Placed(d) /\ (d \in steady => Attached(d))
<1>1. DeviceTypes /\ clock \in Nat
  BY DEF IInv, TypeOK
<1>2. conn[d] = from /\ conn' = [conn EXCEPT ![d] = to]
  BY DEF Goes
<1>3. conn' \in [Devices -> Conns] /\ conn'[d] = to /\ \A e \in Devices \ {d} : conn'[e] = conn[e]
  BY <1>1, <1>2 DEF DeviceTypes
<1>4. regTime' \in [Devices -> Nat] /\ \A e \in Devices \ {d} : regTime'[e] = regTime[e]
  BY <1>1 DEF DeviceTypes
<1>5. DeviceTypes'
  BY <1>1, <1>3, <1>4 DEF DeviceTypes, Around
<1>6. \A e \in Devices \ {d} : Alike(e)
  BY <1>3, <1>4 DEF Alike, Around
<1>7. Placed(d) /\ (d \in steady => Attached(d))
  BY DEF IInv, Order, PushedOnce
<1> QED
  BY <1>2, <1>3, <1>5, <1>6, <1>7

(* A step of a device after which it has no claim on the message.          *)
LEMMA DeviceMoves ==
  ASSUME IInv, NEW d \in Devices, NEW from, NEW to \in Conns, Goes(d, from, to),
         UNCHANGED <<clock, profile, msg, ctime, stored, consumer, pushed, read>>,
         regTime' \in {regTime, [regTime EXCEPT ![d] = clock], [regTime EXCEPT ![d] = 0]},
         dbApp' \in Around(dbApp, d), dbUser' \in Around(dbUser, d),
         regappMap' \in Around(regappMap, d), regApps' \in Around(regApps, d),
         steady' \subseteq steady, known' \subseteq known, Placed(d)',
         d \in steady' => Attached(d)', ~Claims(d)',
         job' = job \/ (job = Job(d, TRUE) /\ job' = Job(d, FALSE) /\ d \notin steady')
  PROVE  IInv'
<1>1. DeviceTypes' /\ \A e \in Devices \ {d} : Alike(e)
  BY DeviceFacts
<1>2. read' \subseteq Devices /\ (read' # {} => stored)
  BY DEF IInv, TypeOK, Order
<1> QED
  BY <1>1, <1>2, OneDeviceKeeps

LEMMA CreateClientOK ==
  ASSUME IInv, NEW d \in Devices, CreateClient(d)
  PROVE  IInv'
<1>1. /\ Goes(d, "none", "opened")
      /\ UNCHANGED <<clock, profile, msg, ctime, stored, consumer, pushed, read>>
      /\ UNCHANGED <<regTime, dbApp, dbUser, regappMap, regApps, steady, known, job>>
  BY DEF CreateClient, msgVars, gotVars, historyVars
<1>2. conn[d] = "none" /\ conn'[d] = "opened" /\ Placed(d) /\ (d \in steady => Attached(d))
  BY <1>1, DeviceFacts DEF Around, Conns
<1>3. Placed(d)'
  BY <1>1, <1>2 DEF Placed, Attached, UserStored, Registering
<1>4. d \in steady' => Attached(d)'
  BY <1>1, <1>2 DEF Attached
<1>5. ~Claims(d)'
  BY <1>1, <1>2 DEF Claims, Placed, Registering
<1> QED
  BY <1>1, <1>3, <1>4, <1>5, DeviceMoves DEF Around, Conns

LEMMA NoAppOK ==
  ASSUME IInv, NEW d \in Devices, NoApp(d)
  PROVE  IInv'
<1>1. /\ Goes(d, "opened", "listed")
      /\ UNCHANGED <<clock, profile, msg, ctime, stored, consumer, pushed, read>>
      /\ UNCHANGED <<regTime, dbApp, dbUser, regappMap, regApps, steady, known, job>>
  BY DEF NoApp, msgVars, gotVars, historyVars
<1>2. conn[d] = "opened" /\ conn'[d] = "listed" /\ Placed(d) /\ (d \in steady => Attached(d))
  BY <1>1, DeviceFacts DEF Around, Conns
<1>3. Placed(d)'
  BY <1>1, <1>2 DEF Placed, Attached, UserStored, Registering
<1>4. d \in steady' => Attached(d)'
  BY <1>1, <1>2 DEF Attached
<1>5. ~Claims(d)'
  BY <1>1, <1>2 DEF Claims, Placed, Registering
<1> QED
  BY <1>1, <1>3, <1>4, <1>5, DeviceMoves DEF Around, Conns

LEMMA AddAppOK ==
  ASSUME IInv, NEW d \in Devices, AddApp(d)
  PROVE  IInv'
<1>1. /\ Goes(d, "opened", "added") \/ Goes(d, "named", "mapped")
      /\ regappMap' = regappMap \union {d}
      /\ conn[d] = "opened" => d \in dbApp
      /\ UNCHANGED <<clock, profile, msg, ctime, stored, consumer, pushed, read>>
      /\ UNCHANGED <<regTime, dbApp, dbUser, regApps, steady, known, job>>
  BY DEF AddApp, Goes, msgVars, gotVars, historyVars
<1>2. CASE Goes(d, "opened", "added")
  <2>1. conn[d] = "opened" /\ conn'[d] = "added" /\ Placed(d) /\ (d \in steady => Attached(d))
    BY <1>1, <1>2, DeviceFacts DEF Around, Conns
  <2>2. Placed(d)'
    BY <1>1, <2>1 DEF Placed, Attached, UserStored, Registering
  <2>3. d \in steady' => Attached(d)'
    BY <1>1, <2>1 DEF Attached
  <2>4. ~Claims(d)'
    BY <1>1, <2>1 DEF Claims, Placed, Registering
  <2> QED
    BY <1>1, <1>2, <2>2, <2>3, <2>4, DeviceMoves DEF Around, Conns
<1>3. CASE Goes(d, "named", "mapped")
  <2>1. conn[d] = "named" /\ conn'[d] = "mapped" /\ Placed(d) /\ (d \in steady => Attached(d))
    BY <1>1, <1>3, DeviceFacts DEF Around, Conns
  <2>2. Placed(d)'
    BY <1>1, <2>1 DEF Placed, Attached, UserStored, Registering
  <2>3. d \in steady' => Attached(d)'
    BY <1>1, <2>1 DEF Attached
  <2>4. ~Claims(d)'
    BY <1>1, <2>1 DEF Claims, Placed, Registering
  <2> QED
    BY <1>1, <1>3, <2>2, <2>3, <2>4, DeviceMoves DEF Around, Conns
<1> QED
  BY <1>1, <1>2, <1>3

(* A registration that is made now has no claim, and one in storage none   *)
(* before its offline messages have been read.                             *)
LEMMA ListAppOK ==
  ASSUME IInv, NEW d \in Devices, ListApp(d)
  PROVE  IInv'
<1>1. /\ Goes(d, "added", "listed") \/ Goes(d, "mapped", "up")
      /\ regApps' = regApps \union {d}
      /\ UNCHANGED <<clock, profile, msg, ctime, stored, consumer, pushed, read>>
      /\ UNCHANGED <<regTime, dbApp, dbUser, regappMap, steady, known, job>>
  BY DEF ListApp, msgVars, gotVars, historyVars
<1>2. CASE Goes(d, "added", "listed")
  <2>1. conn[d] = "added" /\ conn'[d] = "listed" /\ Placed(d) /\ (d \in steady => Attached(d))
    BY <1>1, <1>2, DeviceFacts DEF Around, Conns
  <2>2. Placed(d)'
    BY <1>1, <2>1 DEF Placed, Attached, UserStored, Registering
  <2>3. d \in steady' => Attached(d)'
    BY <1>1, <2>1 DEF Attached
  <2>4. ~Claims(d)'
    BY <1>1, <2>1 DEF Claims, Placed, Registering
  <2> QED
    BY <1>1, <1>2, <2>2, <2>3, <2>4, DeviceMoves DEF Around, Conns
<1>3. CASE Goes(d, "mapped", "up")
  <2>1. conn[d] = "mapped" /\ conn'[d] = "up" /\ Placed(d) /\ (d \in steady => Attached(d))
    BY <1>1, <1>3, DeviceFacts DEF Around, Conns
  <2>2. Placed(d)'
    BY <1>1, <2>1 DEF Placed, Attached, UserStored, Registering
  <2>3. d \in steady' => Attached(d)'
    BY <1>1, <2>1 DEF Attached
  <2>4. ~Claims(d)'
    BY <1>1, <2>1 DEF Claims, Placed, Registering
  <2> QED
    BY <1>1, <1>3, <2>2, <2>3, <2>4, DeviceMoves DEF Around, Conns
<1> QED
  BY <1>1, <1>2, <1>3

LEMMA RegisterAppOK ==
  ASSUME IInv, NEW d \in Devices, RegisterApp(d)
  PROVE  IInv'
<1>1. /\ Goes(d, "up", "timed")
      /\ regTime' = [regTime EXCEPT ![d] = clock]
      /\ known' = known \ {d}
      /\ d \notin regApps
      /\ UNCHANGED <<clock, profile, msg, ctime, stored, consumer, pushed, read>>
      /\ UNCHANGED <<dbApp, dbUser, regappMap, regApps, steady, job>>
  BY DEF RegisterApp, msgVars, gotVars, historyVars
<1>2. conn[d] = "up" /\ conn'[d] = "timed" /\ Placed(d) /\ (d \in steady => Attached(d))
  BY <1>1, DeviceFacts DEF Around, Conns
<1>3. Placed(d)'
  BY <1>1, <1>2 DEF Placed, Attached, UserStored, Registering
<1>4. d \in steady' => Attached(d)'
  BY <1>1, <1>2 DEF Attached
<1>5. ~Claims(d)'
  BY <1>1, <1>2 DEF Claims, Placed, Registering
<1> QED
  BY <1>1, <1>3, <1>4, <1>5, DeviceMoves DEF Around, Conns

LEMMA StoreAppOK ==
  ASSUME IInv, NEW d \in Devices, StoreApp(d)
  PROVE  IInv'
<1>1. /\ Goes(d, "timed", "stored")
      /\ dbApp' = dbApp \union {d}
      /\ UNCHANGED <<clock, profile, msg, ctime, stored, consumer, pushed, read>>
      /\ UNCHANGED <<regTime, dbUser, regappMap, regApps, steady, known, job>>
  BY DEF StoreApp, msgVars, gotVars, historyVars
<1>2. conn[d] = "timed" /\ conn'[d] = "stored" /\ Placed(d) /\ (d \in steady => Attached(d))
  BY <1>1, DeviceFacts DEF Around, Conns
<1>3. Placed(d)'
  BY <1>1, <1>2 DEF Placed, Attached, UserStored, Registering
<1>4. d \in steady' => Attached(d)'
  BY <1>1, <1>2 DEF Attached
<1>5. ~Claims(d)'
  BY <1>1, <1>2 DEF Claims, Placed, Registering
<1> QED
  BY <1>1, <1>3, <1>4, <1>5, DeviceMoves DEF Around, Conns

LEMMA StoreUserOK ==
  ASSUME IInv, NEW d \in Devices, StoreUser(d)
  PROVE  IInv'
<1>1. /\ Goes(d, "stored", "named")
      /\ dbUser' = IF profile[d].user = None THEN dbUser ELSE dbUser \union {d}
      /\ UNCHANGED <<clock, profile, msg, ctime, stored, consumer, pushed, read>>
      /\ UNCHANGED <<regTime, dbApp, regappMap, regApps, steady, known, job>>
  BY DEF StoreUser, msgVars, gotVars, historyVars
<1>2. conn[d] = "stored" /\ conn'[d] = "named" /\ Placed(d) /\ (d \in steady => Attached(d))
  BY <1>1, DeviceFacts DEF Around, Conns
<1>3. Placed(d)'
  BY <1>1, <1>2 DEF Placed, Attached, UserStored, Registering
<1>4. d \in steady' => Attached(d)'
  BY <1>1, <1>2 DEF Attached
<1>5. ~Claims(d)'
  BY <1>1, <1>2 DEF Claims, Placed, Registering
<1> QED
  BY <1>1, <1>3, <1>4, <1>5, DeviceMoves DEF Around, Conns

LEMMA UnregisterAppOK ==
  ASSUME IInv, NEW d \in Devices, UnregisterApp(d)
  PROVE  IInv'
<1>1. /\ Goes(d, "up", "removed")
      /\ regTime' = [regTime EXCEPT ![d] = 0]
      /\ dbApp' = dbApp \ {d}
      /\ steady' = steady \ {d}
      /\ UNCHANGED <<clock, profile, msg, ctime, stored, consumer, pushed, read>>
      /\ UNCHANGED <<dbUser, regappMap, regApps, known, job>>
  BY DEF UnregisterApp, msgVars, gotVars, historyVars
<1>2. conn[d] = "up" /\ conn'[d] = "removed" /\ Placed(d) /\ (d \in steady => Attached(d))
  BY <1>1, DeviceFacts DEF Around, Conns
<1>3. Placed(d)'
  BY <1>1, <1>2 DEF Placed, Attached, UserStored, Registering
<1>4. d \in steady' => Attached(d)'
  BY <1>1, <1>2 DEF Attached
<1>5. ~Claims(d)'
  BY <1>1, <1>2 DEF Claims, Placed, Registering
<1> QED
  BY <1>1, <1>3, <1>4, <1>5, DeviceMoves DEF Around, Conns

LEMMA RemoveUserOK ==
  ASSUME IInv, NEW d \in Devices, RemoveUser(d)
  PROVE  IInv'
<1>1. /\ Goes(d, "removed", "unnamed")
      /\ dbUser' = dbUser \ {d}
      /\ UNCHANGED <<clock, profile, msg, ctime, stored, consumer, pushed, read>>
      /\ UNCHANGED <<regTime, dbApp, regappMap, regApps, steady, known, job>>
  BY DEF RemoveUser, msgVars, gotVars, historyVars
<1>2. conn[d] = "removed" /\ conn'[d] = "unnamed" /\ Placed(d) /\ (d \in steady => Attached(d))
  BY <1>1, DeviceFacts DEF Around, Conns
<1>3. Placed(d)'
  BY <1>1, <1>2 DEF Placed, Attached, UserStored, Registering
<1>4. d \in steady' => Attached(d)'
  BY <1>1, <1>2 DEF Attached
<1>5. ~Claims(d)'
  BY <1>1, <1>2 DEF Claims, Placed, Registering
<1> QED
  BY <1>1, <1>3, <1>4, <1>5, DeviceMoves DEF Around, Conns

LEMMA DelAppOK ==
  ASSUME IInv, NEW d \in Devices, DelApp(d)
  PROVE  IInv'
<1>1. /\ Goes(d, "unnamed", "unmapped") \/ Goes(d, "closing", "dropped")
      /\ regappMap' = regappMap \ {d}
      /\ UNCHANGED <<clock, profile, msg, ctime, stored, consumer, pushed, read>>
      /\ UNCHANGED <<regTime, dbApp, dbUser, regApps, steady, known, job>>
  BY DEF DelApp, msgVars, gotVars, historyVars
<1>2. CASE Goes(d, "unnamed", "unmapped")
  <2>1. conn[d] = "unnamed" /\ conn'[d] = "unmapped" /\ Placed(d) /\ (d \in steady => Attached(d))
    BY <1>1, <1>2, DeviceFacts DEF Around, Conns
  <2>2. Placed(d)'
    BY <1>1, <2>1 DEF Placed, Attached, UserStored, Registering
  <2>3. d \in steady' => Attached(d)'
    BY <1>1, <2>1 DEF Attached
  <2>4. ~Claims(d)'
    BY <1>1, <2>1 DEF Claims, Placed, Registering
  <2> QED
    BY <1>1, <1>2, <2>2, <2>3, <2>4, DeviceMoves DEF Around, Conns
<1>3. CASE Goes(d, "closing", "dropped")
  <2>1. conn[d] = "closing" /\ conn'[d] = "dropped" /\ Placed(d) /\ (d \in steady => Attached(d))
    BY <1>1, <1>3, DeviceFacts DEF Around, Conns
  <2>2. Placed(d)'
    BY <1>1, <2>1 DEF Placed, Attached, UserStored, Registering
  <2>3. d \in steady' => Attached(d)'
    BY <1>1, <2>1 DEF Attached
  <2>4. ~Claims(d)'
    BY <1>1, <2>1 DEF Claims, Placed, Registering
  <2> QED
    BY <1>1, <1>3, <2>2, <2>3, <2>4, DeviceMoves DEF Around, Conns
<1> QED
  BY <1>1, <1>2, <1>3

LEMMA DelistAppOK ==
  ASSUME IInv, NEW d \in Devices, DelistApp(d)
  PROVE  IInv'
<1>1. /\ Goes(d, "unmapped", "up") \/ Goes(d, "dropped", "none")
      /\ regApps' = regApps \ {d}
      /\ UNCHANGED <<clock, profile, msg, ctime, stored, consumer, pushed, read>>
      /\ UNCHANGED <<regTime, dbApp, dbUser, regappMap, steady, known, job>>
  BY DEF DelistApp, msgVars, gotVars, historyVars
<1>2. CASE Goes(d, "unmapped", "up")
  <2>1. conn[d] = "unmapped" /\ conn'[d] = "up" /\ Placed(d) /\ (d \in steady => Attached(d))
    BY <1>1, <1>2, DeviceFacts DEF Around, Conns
  <2>2. Placed(d)'
    BY <1>1, <2>1 DEF Placed, Attached, UserStored, Registering
  <2>3. d \in steady' => Attached(d)'
    BY <1>1, <2>1 DEF Attached
  <2>4. ~Claims(d)'
    BY <1>1, <2>1 DEF Claims, Placed, Registering
  <2> QED
    BY <1>1, <1>2, <2>2, <2>3, <2>4, DeviceMoves DEF Around, Conns
<1>3. CASE Goes(d, "dropped", "none")
  <2>1. conn[d] = "dropped" /\ conn'[d] = "none" /\ Placed(d) /\ (d \in steady => Attached(d))
    BY <1>1, <1>3, DeviceFacts DEF Around, Conns
  <2>2. Placed(d)'
    BY <1>1, <2>1 DEF Placed, Attached, UserStored, Registering
  <2>3. d \in steady' => Attached(d)'
    BY <1>1, <2>1 DEF Attached
  <2>4. ~Claims(d)'
    BY <1>1, <2>1 DEF Claims, Placed, Registering
  <2> QED
    BY <1>1, <1>3, <2>2, <2>3, <2>4, DeviceMoves DEF Around, Conns
<1> QED
  BY <1>1, <1>2, <1>3

LEMMA CloseConnOK ==
  ASSUME IInv, NEW d \in Devices, CloseConn(d)
  PROVE  IInv'
<1>1. /\ Goes(d, "up", "closing")
      /\ job' = IF job = Job(d, TRUE) THEN Job(d, FALSE) ELSE job
      /\ steady' = steady \ {d}
      /\ UNCHANGED <<clock, profile, msg, ctime, stored, consumer, pushed, read>>
      /\ UNCHANGED <<regTime, dbApp, dbUser, regappMap, regApps, known>>
  BY DEF CloseConn, msgVars, gotVars, historyVars
<1>2. conn[d] = "up" /\ conn'[d] = "closing" /\ Placed(d) /\ (d \in steady => Attached(d))
  BY <1>1, DeviceFacts DEF Around, Conns
<1>3. Placed(d)'
  BY <1>1, <1>2 DEF Placed, Attached, UserStored, Registering
<1>4. d \in steady' => Attached(d)'
  BY <1>1, <1>2 DEF Attached
<1>5. ~Claims(d)'
  BY <1>1, <1>2 DEF Claims, Placed, Registering
<1> QED
  BY <1>1, <1>3, <1>4, <1>5, DeviceMoves DEF Around, Conns

(* A device that has read its offline messages had the right to this one   *)
(* if it has it now.                                                       *)
LEMMA ReadOfflineOK ==
  ASSUME IInv, NEW d \in Devices, ReadOffline(d)
  PROVE  IInv'
<1> DEFINE reads == /\ d \in regApps /\ Unread(d)
                    /\ OfflineTarget(d) /\ OfflineSendId(profile[d])
<1>1. /\ Goes(d, "listed", "up")
      /\ read' = IF reads THEN read \union {d} ELSE read
      /\ UNCHANGED <<clock, profile, msg, ctime, stored, consumer, pushed>>
      /\ known' \subseteq known \union {d}
      /\ consumer.pc = "idle" => known' \subseteq known
      /\ UNCHANGED <<regTime, dbApp, dbUser, regappMap, regApps, steady, job>>
  BY DEF ReadOffline, msgVars
<1>2. /\ DeviceTypes' /\ \A e \in Devices \ {d} : Alike(e)
      /\ conn[d] = "listed" /\ conn'[d] = "up"
      /\ Placed(d) /\ (d \in steady => Attached(d))
  BY <1>1, DeviceFacts DEF Around, Conns
<1>3. Placed(d)'
  BY <1>1, <1>2 DEF Placed, Attached, UserStored, Registering
<1>4. d \in steady' => Attached(d)'
  BY <1>1, <1>2 DEF Attached
<1>5. TypeOK /\ (consumer.pc # "idle" => stored) /\ (read # {} => stored)
  BY DEF IInv, Order
<1>6. stored => msg \in Messages
  BY <1>5 DEF TypeOK, IInv, Order
<1>7. reads => stored
  BY DEF Unread
<1>8. \A e \in read' \ read : Addressed(e) /\ OfflineSendId(profile[e])
  BY <1>1, <1>6, <1>7, OfflineAgrees
<1>9. read \subseteq read' /\ read' \subseteq Devices /\ (read' # {} => stored)
  BY <1>1, <1>5, <1>7 DEF TypeOK
<1>10. ASSUME stored, Claims(d)'
       PROVE  d \in read'
  <2>1. Still
    BY <1>1 DEF Still
  <2>2. /\ Addressed(d) /\ SendIdGiven(d)
        /\ d \in regApps /\ regTime[d] < ctime /\ msg.ttl > 0 /\ clock < ctime + msg.ttl
    BY <1>1, <1>10, <2>1, StillSame DEF Claims
  <2>3. msg.ttl \in Int /\ regTime[d] \in Nat /\ clock \in Nat /\ ctime \in Int
    BY <1>5, <1>6, <1>10, MessageAssumption DEF TypeOK, DeviceTypes
  <2>4. Unread(d)
    BY <1>10, <2>2, <2>3 DEF Unread
  <2>5. OfflineSendId(profile[d])
    BY <2>2 DEF SendIdGiven, OfflineSendId
  <2>6. OfflineTarget(d)
    BY <1>6, <1>10, <2>2, OfflineAgrees
  <2> QED
    BY <1>1, <2>2, <2>4, <2>5, <2>6
<1> HIDE DEF reads
<1> QED
  BY <1>1, <1>2, <1>3, <1>4, <1>5, <1>8, <1>9, <1>10, OneDeviceKeeps

-----------------------------------------------------------------------------
(* The push API and the clock.                                             *)

(* Where the devices are does not change.                                  *)
DevicesRest == UNCHANGED deviceVars /\ known' = known

LEMMA RestPlaced ==
  ASSUME IInv, DevicesRest
  PROVE  DeviceTypes' /\ \A d \in Devices : Placed(d)' /\ (Attached(d) => Attached(d)')
  BY DEF IInv, TypeOK, DevicesRest, deviceVars, DeviceTypes, Placed, Attached, UserStored,
         Registering

LEMMA AddMessageOK ==
  ASSUME IInv, NEW m \in Messages, AddMessage(m)
  PROVE  IInv'
<1>1. /\ msg = None /\ msg' = m /\ DevicesRest
      /\ UNCHANGED <<clock, stored, consumer, job, pushed, read, steady>>
  BY DEF AddMessage, DevicesRest, gotVars, historyVars
<1>2. PICK skew \in Skews : ctime' = clock + skew
  BY DEF AddMessage
<1>3. TypeOK /\ ~stored /\ consumer.pc = "idle" /\ read = {}
  BY <1>1 DEF IInv, Order
<1>4. \A d \in Devices : pushed[d] = 0
  BY <1>1, <1>3 DEF IInv, Order
<1>5. DeviceTypes' /\ \A d \in Devices : Placed(d)'
  BY <1>1, RestPlaced
<1>6. ctime' \in Int
  BY <1>2, <1>3, SkewAssumption DEF TypeOK
<1>7. job' = None \/ \E d \in Devices : JobFor(d)'
  BY <1>1, <1>3 DEF TypeOK, JobFor
<1>8. TypeOK'
  BY <1>1, <1>3, <1>5, <1>6, <1>7 DEF TypeOK, DevicesRest
<1>9. Order'
  BY <1>1, <1>3 DEF IInv, Order, DevicesRest
<1>10. Given'
  BY <1>1, <1>3, <1>4 DEF Given
<1> QED
  BY <1>1, <1>3, <1>5, <1>8, <1>9, <1>10 DEF IInv, Reached

LEMMA StoreOK ==
  ASSUME IInv, Store
  PROVE  IInv'
<1>1. /\ msg # None /\ ~stored /\ stored' = TRUE /\ DevicesRest
      /\ UNCHANGED <<clock, msg, ctime, consumer, job, pushed, read, steady>>
  BY DEF Store, DevicesRest, gotVars, historyVars
<1>2. DeviceTypes' /\ \A d \in Devices : Placed(d)'
  BY <1>1, RestPlaced
<1>3. TypeOK /\ consumer.pc = "idle"
  BY <1>1 DEF IInv, Order
<1>4. job' = None \/ \E d \in Devices : JobFor(d)'
  BY <1>1, <1>3 DEF TypeOK, JobFor
<1>5. TypeOK'
  BY <1>1, <1>2, <1>3, <1>4 DEF TypeOK, DevicesRest
<1>6. Order'
  BY <1>1, <1>3 DEF IInv, Order, DevicesRest
<1>7. Given'
  BY <1>1, StillSame DEF IInv, Given, Still, DevicesRest, deviceVars
<1> QED
  BY <1>1, <1>2, <1>3, <1>5, <1>6, <1>7 DEF IInv, Reached

LEMMA TickOK ==
  ASSUME IInv, Tick
  PROVE  IInv'
<1>1. /\ clock' = clock + 1 /\ DevicesRest
      /\ UNCHANGED <<msg, ctime, stored, consumer, job, pushed, read, steady>>
  BY DEF Tick, DevicesRest, msgVars, gotVars, historyVars
<1>2. TypeOK
  BY DEF IInv
<1>3. DeviceTypes' /\ \A d \in Devices : Placed(d)' /\ (Attached(d) => Attached(d)')
  BY <1>1, RestPlaced
<1>4. job' = None \/ \E d \in Devices : JobFor(d)'
  BY <1>1, <1>2 DEF TypeOK, JobFor
<1>5. TypeOK'
  BY <1>1, <1>2, <1>3, <1>4 DEF TypeOK, DevicesRest
<1>6. \A d \in steady' : Attached(d)'
  BY <1>1, <1>2, <1>3 DEF IInv, Order, PushedOnce, TypeOK
<1>7. Still
  BY <1>1 DEF Still, DevicesRest, deviceVars
<1>8. consumer.pc # "idle" => msg \in Messages
  BY <1>2 DEF IInv, TypeOK, Order
<1>9. \A d \in Devices : consumer.pc # "idle" /\ Claims(d)' => Claims(d)
  <2> SUFFICES ASSUME NEW d \in Devices, consumer.pc # "idle", Claims(d)'
               PROVE  Claims(d)
    OBVIOUS
  <2>1. msg.ttl \in Int /\ clock \in Nat /\ ctime \in Int
    BY <1>2, <1>8, MessageAssumption DEF TypeOK
  <2>2. clock + 1 < ctime + msg.ttl
    BY <1>1 DEF Claims
  <2>3. clock < ctime + msg.ttl
    BY <2>1, <2>2
  <2> QED
    BY <1>1, <1>7, <2>3, StillSame DEF Claims, DevicesRest, deviceVars
<1>10. read' # {} => stored
  BY <1>1 DEF IInv, Order
<1>11. known' = known
  BY <1>1 DEF DevicesRest
<1> QED
  BY <1>1, <1>3, <1>5, <1>6, <1>7, <1>9, <1>10, <1>11, DeviceKeeps

-----------------------------------------------------------------------------
(* PushMessages.                                                           *)

(* What every step of the consumer leaves alone, and where it may be.      *)
ConsumerMoves ==
  /\ Still /\ stored /\ stored' /\ msg \in Messages
  /\ UNCHANGED <<clock, profile, conn, regTime, dbApp, dbUser, regappMap, regApps>>
  /\ UNCHANGED <<msg, ctime, read>>

LEMMA ConsumerKeeps ==
  ASSUME IInv, ConsumerMoves,
         DOMAIN consumer' = Fields, consumer'.pc \in Phases \ {"idle"},
         consumer'.apps \subseteq Devices,
         \/ job' = None
         \/ (\E d \in Devices : JobFor(d)') /\ consumer'.pc \in {"push", "page"},
         pushed' \in [Devices -> 0..2], steady' \subseteq Devices,
         known' \subseteq Devices, \A d \in known' : d \in known \/ ~Registering(d),
         Targets', Given', PushedOnce', Reached'
  PROVE  IInv'
<1>1. TypeOK /\ \A d \in Devices : Placed(d)
  BY DEF IInv
<1>2. DeviceTypes'
  BY <1>1 DEF TypeOK, DeviceTypes, ConsumerMoves
<1>3. TypeOK'
  BY <1>1, <1>2 DEF TypeOK, ConsumerMoves, Fields
<1>4. \A d \in Devices : Placed(d)'
  BY <1>1 DEF Placed, Attached, UserStored, Registering, ConsumerMoves
<1>5. Order'
  <2>1. msg' # None
    BY NoneAssumption DEF ConsumerMoves
  <2> QED
    BY <2>1 DEF Order, ConsumerMoves
<1> QED
  BY <1>3, <1>4, <1>5 DEF IInv

(* What holds of the type, wherever the consumer is.                       *)
LEMMA ConsumerFacts ==
  ASSUME IInv, consumer.pc # "idle"
  PROVE  /\ TypeOK /\ Targets /\ Given /\ PushedOnce /\ Reached
         /\ stored /\ msg \in Messages
         /\ DOMAIN consumer = Fields
<1>1. TypeOK /\ stored /\ msg # None
  BY DEF IInv, Order
<1> QED
  BY <1>1 DEF IInv, TypeOK, Fields

(* An attached device is found by all look-ups.                            *)
LEMMA AttachedFound ==
  ASSUME IInv, NEW d \in Devices, Attached(d)
  PROVE  d \in regappMap /\ d \in regApps /\ UserStored(d) /\ InDevicesMap(d)
  BY DEF IInv, Placed, Attached, InDevicesMap

(* A device that is attached when PushMessages begins will be found if the *)
(* message is for it.                                                      *)
LEMMA PushMessagesOK ==
  ASSUME IInv, PushMessages
  PROVE  IInv'
<1>1. /\ stored /\ consumer.pc = "idle"
      /\ steady' = {d \in Devices : Attached(d)}
      /\ known' = {d \in dbApp : ~Registering(d)}
      /\ UNCHANGED <<clock, profile, conn, regTime, dbApp, dbUser, regappMap, regApps>>
      /\ UNCHANGED <<msg, ctime, stored, job, pushed, read>>
  BY DEF PushMessages, deviceVars, msgVars, gotVars
<1>2. TypeOK /\ Order /\ Given
  BY <1>1 DEF IInv, Order
<1>3. msg \in Messages /\ job = None /\ \A d \in Devices : pushed[d] = 0
  BY <1>1, <1>2 DEF TypeOK, Order
<1>4. ConsumerMoves
  BY <1>1, <1>3 DEF ConsumerMoves, Still
<1>5. msg.type \in {"all", "regid", "user", "devid", "topic", "alias", "group"}
  BY <1>3, MessageAssumption
<1> DEFINE Begins(p, n, a) ==
      DOMAIN consumer' = Fields /\ consumer'.pc = p /\ consumer'.names = n /\ consumer'.apps = a
<1>6. /\ msg.type = "all" => Begins("push", {}, regappMap)
      /\ msg.type = "topic" => Begins("push", {}, AppsByTopic)
      /\ msg.type = "group" => Begins("scan", {}, {})
      /\ msg.type = "alias" => Begins("push", {}, {})
      /\ msg.type \in {"regid", "user", "devid"} => Begins("push", msg.to, {})
  BY ConsumerFields DEF PushMessages
<1>7. regappMap \subseteq Devices /\ dbApp \subseteq Devices
  BY <1>2 DEF TypeOK, DeviceTypes
<1>8. /\ DOMAIN consumer' = Fields /\ consumer'.pc \in {"scan", "push"}
      /\ consumer'.apps \subseteq Devices
  BY <1>5, <1>6, <1>7 DEF AppsByTopic
<1>9. \A d \in Devices : Attached(d) /\ Addressed(d) => Waits(d)'
  <2> SUFFICES ASSUME NEW d \in Devices, Attached(d), Addressed(d)
               PROVE  d \in consumer'.apps \/ NameOf(d) \in consumer'.names
                        \/ (consumer'.pc = "scan" /\ d \in msg.to)
    BY <1>1, <1>4, StillSame DEF Waits, ConsumerMoves
  <2>1. d \in regappMap
    BY AttachedFound
  <2>2. CASE msg.type = "all"
    BY <1>6, <2>1, <2>2
  <2>3. CASE msg.type = "topic"
    BY <1>3, <1>6, <2>1, <2>3, TopicsMatch DEF AppsByTopic
  <2>4. CASE msg.type = "group"
    BY <1>6, <2>4 DEF Addressed
  <2>5. CASE msg.type = "alias"
    BY <2>5 DEF Addressed
  <2>6. CASE msg.type \in {"regid", "user", "devid"}
    BY <1>3, <1>6, <2>6, NamesAddressed
  <2> QED
    BY <1>5, <2>2, <2>3, <2>4, <2>5, <2>6
<1>10. \A d \in Devices : ~JobFor(d)'
  BY <1>1, <1>3, JobsDiffer DEF JobFor
<1>11. Targets'
  <2>1. \A d \in consumer'.apps : Addressed(d) /\ NameOf(d) \notin consumer'.names
    <3>1. CASE msg.type = "all"
      BY <1>6, <3>1 DEF Addressed
    <3>2. CASE msg.type = "topic"
      BY <1>3, <1>6, <3>2, TopicsMatch DEF AppsByTopic
    <3> QED
      BY <1>5, <1>6, <3>1, <3>2
  <2>2. \A d \in consumer'.apps : Addressed(d)' /\ NameOf(d)' \notin consumer'.names
    BY <1>4, <2>1, StillSame DEF ConsumerMoves
  <2>3. /\ consumer'.names \subseteq IF msg'.type = "topic" THEN {} ELSE msg'.to
        /\ consumer'.pc = "push" => msg'.type # "group"
        /\ consumer'.pc = "push" /\ consumer'.names # {} =>
             msg'.type \in {"regid", "devid", "user"}
        /\ consumer'.pc \in {"scan", "page"} => msg'.type = "group"
        /\ consumer'.pc \in {"idle", "scan", "done"} =>
             consumer'.names = {} /\ consumer'.apps = {}
    BY <1>1, <1>5, <1>6
  <2> QED
    BY <1>8, <1>10, <2>2, <2>3 DEF Targets
<1>12. Given'
  BY <1>1, <1>2, <1>4, StillSame DEF Given, ConsumerMoves
<1>13. PushedOnce'
  <2> SUFFICES ASSUME NEW d \in steady'
               PROVE  Attached(d)' /\ (Addressed(d)' => Waits(d)' /\ pushed'[d] = 0)
    BY DEF PushedOnce
  <2>1. d \in Devices /\ Attached(d)
    BY <1>1
  <2>2. Attached(d)'
    BY <1>1, <2>1 DEF Attached
  <2>3. Addressed(d)' = Addressed(d)
    BY <1>4, StillSame DEF ConsumerMoves
  <2> QED
    BY <1>1, <1>3, <1>9, <2>1, <2>2, <2>3
<1>14. Reached'
  <2> SUFFICES ASSUME NEW d \in Devices, Claims(d)'
               PROVE  Waits(d)'
    BY DEF Reached
  <2>1. Addressed(d)
    BY <1>4, StillSame DEF ConsumerMoves, Claims
  <2>2. Attached(d)
    BY <1>1 DEF Claims, Attached
  <2> QED
    BY <1>9, <2>1, <2>2
<1>15. /\ consumer'.pc \in Phases \ {"idle"} /\ job' = None
       /\ pushed' \in [Devices -> 0..2] /\ steady' \subseteq Devices
       /\ known' \subseteq Devices /\ \A d \in known' : ~Registering(d)
  BY <1>1, <1>2, <1>3, <1>7, <1>8 DEF TypeOK, Phases
<1> QED
  BY <1>4, <1>8, <1>11, <1>12, <1>13, <1>14, <1>15, ConsumerKeeps

(* A step of the consumer that pushes nothing: of the devices that are     *)
(* attached it has to come to the same ones, if it comes to an end at all. *)
LEMMA ConsumerGoesOn ==
  ASSUME IInv, ConsumerMoves, consumer.pc # "idle",
         UNCHANGED <<pushed, steady, known>>,
         DOMAIN consumer' = Fields, consumer'.pc \in Phases \ {"idle"},
         consumer'.apps \subseteq Devices, Targets',
         \/ job' = None
         \/ (\E d \in Devices : JobFor(d)') /\ consumer'.pc \in {"push", "page"},
         \A d \in Devices :
           Ends /\ SendIdGiven(d) /\ Attached(d) => (Waits(d)' <=> Waits(d))
  PROVE  IInv'
<1>1. TypeOK /\ Given /\ PushedOnce /\ Reached
  BY ConsumerFacts
<1>2. Still
  BY DEF ConsumerMoves
<1>3. Given'
  BY <1>1, <1>2, StillSame DEF Given, ConsumerMoves
<1>4. PushedOnce'
  <2> SUFFICES ASSUME NEW d \in steady
               PROVE  /\ Attached(d)'
                      /\ Ends' /\ Addressed(d)' /\ SendIdGiven(d)' =>
                           pushed'[d] = IF Waits(d)' THEN 0 ELSE 1
    BY DEF PushedOnce
  <2>1. d \in Devices
    BY <1>1 DEF TypeOK
  <2>2. Attached(d) /\ (Ends /\ Addressed(d) /\ SendIdGiven(d) =>
                          pushed[d] = IF Waits(d) THEN 0 ELSE 1)
    BY <1>1 DEF PushedOnce
  <2>3. Attached(d)'
    BY <2>2 DEF Attached, ConsumerMoves
  <2> QED
    BY <1>2, <2>1, <2>2, <2>3, StillSame
<1>5. Reached'
  <2> SUFFICES ASSUME Ends', NEW d \in Devices, Claims(d)'
               PROVE  pushed'[d] > 0 \/ d \in read' \/ Waits(d)'
    BY DEF Reached
  <2>1. Ends
    BY <1>2, StillSame
  <2>2. Claims(d)
    BY <1>2, StillSame DEF Claims, ConsumerMoves
  <2>3. Attached(d) /\ SendIdGiven(d)
    BY <2>2 DEF Claims, Attached
  <2>4. pushed[d] > 0 \/ d \in read \/ Waits(d)
    BY <1>1, <2>1, <2>2 DEF Reached
  <2> QED
    BY <2>1, <2>3, <2>4 DEF ConsumerMoves
<1>6. /\ pushed' \in [Devices -> 0..2] /\ steady' \subseteq Devices
      /\ known' \subseteq Devices /\ known' = known
  BY <1>1 DEF TypeOK
<1> QED
  BY <1>3, <1>4, <1>5, <1>6, ConsumerKeeps

(* The name that is looked up finds every attached device that has it.     *)
LEMMA LookUpOK ==
  ASSUME IInv, NEW n \in consumer.names, LookUp(n)
  PROVE  IInv'
<1>1. /\ consumer.pc \in {"push", "page"} /\ consumer.apps = {} /\ job = None /\ job' = None
      /\ consumer' = [consumer EXCEPT !.names = consumer.names \ {n}, !.apps = Found(n)]
      /\ UNCHANGED <<clock, profile, conn, regTime, dbApp, dbUser, regappMap, regApps>>
      /\ UNCHANGED <<msg, ctime, stored, pushed, read, steady, known>>
  BY DEF LookUp, deviceVars, msgVars, gotVars, historyVars
<1>2. /\ TypeOK /\ Targets /\ stored /\ msg \in Messages /\ DOMAIN consumer = Fields
  BY <1>1, ConsumerFacts
<1>3. /\ DOMAIN consumer' = Fields /\ consumer'.pc = consumer.pc
      /\ consumer'.names = consumer.names \ {n}
      /\ consumer'.apps = Found(n)
  BY <1>1, <1>2, ConsumerChanged
<1>4. ConsumerMoves
  BY <1>1, <1>2 DEF ConsumerMoves, Still
<1>5. n \in msg.to /\ msg.type \in {"regid", "devid", "user", "group"}
  BY <1>1, <1>2 DEF Targets
<1>6. \A d \in Found(n) : d \in Devices /\ NameOf(d) = n
  <2>1. regappMap \subseteq Devices /\ regApps \subseteq Devices
    BY <1>2 DEF TypeOK, DeviceTypes
  <2> QED
    BY <1>5, <2>1 DEF Found, UserApps, NameOf
<1>7. \A d \in Devices : Attached(d) /\ NameOf(d) = n => d \in Found(n)
  <2> SUFFICES ASSUME NEW d \in Devices, Attached(d), NameOf(d) = n
               PROVE  d \in Found(n)
    OBVIOUS
  <2>1. d \in regappMap /\ d \in regApps /\ UserStored(d) /\ InDevicesMap(d)
    BY AttachedFound
  <2>2. CASE msg.type = "user"
    <3>1. profile[d].user = n /\ n # None
      BY <1>2, <1>5, <2>2, MessageAssumption DEF NameOf
    <3>2. d \in dbUser
      BY <2>1, <3>1 DEF UserStored
    <3> QED
      BY <2>1, <2>2, <3>1, <3>2 DEF Found, UserApps
  <2>3. CASE msg.type # "user"
    BY <2>1, <2>3 DEF Found, NameOf
  <2> QED
    BY <2>2, <2>3
<1>8. \A d \in Devices : ~JobFor(d)' /\ job # Job(d, TRUE)
  BY <1>1, JobsDiffer DEF JobFor
<1>9. Targets'
  <2>1. \A d \in Found(n) : Addressed(d) /\ NameOf(d) \notin consumer'.names
    BY <1>2, <1>3, <1>5, <1>6, NamesAddressed
  <2>2. \A d \in consumer'.apps : Addressed(d)' /\ NameOf(d)' \notin consumer'.names
    BY <1>3, <1>4, <2>1, StillSame DEF ConsumerMoves
  <2>3. consumer'.names \subseteq IF msg'.type = "topic" THEN {} ELSE msg'.to
    BY <1>1, <1>2, <1>3 DEF Targets
  <2>4. /\ consumer'.pc = "push" => msg'.type # "group"
        /\ consumer'.pc = "push" /\ consumer'.names # {} =>
             msg'.type \in {"regid", "devid", "user"}
        /\ consumer'.pc \in {"scan", "page"} => msg'.type = "group"
    BY <1>1, <1>2, <1>3, <1>5 DEF Targets
  <2> QED
    BY <1>1, <1>3, <1>8, <2>2, <2>3, <2>4 DEF Targets
<1>10. ASSUME NEW d \in Devices, Attached(d)
       PROVE  Waits(d)' <=> Waits(d)
  <2>1. Waits(d)' <=> d \in Found(n) \/ NameOf(d) \in consumer.names \ {n}
    BY <1>1, <1>3, <1>4, <1>8, StillSame DEF Waits, ConsumerMoves
  <2>2. Waits(d) <=> NameOf(d) \in consumer.names
    BY <1>1, <1>8 DEF Waits
  <2> QED
    BY <1>6, <1>7, <1>10, <2>1, <2>2
<1>11. consumer'.pc \in Phases \ {"idle"} /\ consumer'.apps \subseteq Devices
  BY <1>1, <1>3, <1>6 DEF Phases
<1>12. consumer.pc # "idle" /\ UNCHANGED <<pushed, steady, known>>
  BY <1>1
<1> QED
  BY <1>1, <1>3, <1>4, <1>9, <1>10, <1>11, <1>12, ConsumerGoesOn

(* A registration that was found becomes a job; it lives if the device is  *)
(* attached.                                                               *)
LEMMA PushMessageOK ==
  ASSUME IInv, NEW d \in Devices, PushMessage(d)
  PROVE  IInv'
<1> DEFINE live == conn[d] \notin {"closing", "dropped"}
<1>1. /\ d \in consumer.apps /\ job = None
      /\ consumer' = [consumer EXCEPT !.apps = consumer.apps \ {d}]
      /\ job' = IF SendIdGiven(d) /\ InDevicesMap(d) THEN Job(d, live) ELSE None
      /\ UNCHANGED <<clock, profile, conn, regTime, dbApp, dbUser, regappMap, regApps>>
      /\ UNCHANGED <<msg, ctime, stored, pushed, read, steady, known>>
  BY DEF PushMessage, SendIdGiven, deviceVars, msgVars, gotVars, historyVars
<1>2. consumer.pc # "idle"
  BY <1>1 DEF IInv, Order
<1>3. /\ TypeOK /\ Targets /\ stored /\ msg \in Messages /\ DOMAIN consumer = Fields
  BY <1>2, ConsumerFacts
<1>4. /\ DOMAIN consumer' = Fields /\ consumer'.pc = consumer.pc
      /\ consumer'.names = consumer.names
      /\ consumer'.apps = consumer.apps \ {d}
  BY <1>1, <1>3, ConsumerChanged
<1>5. ConsumerMoves
  BY <1>1, <1>3 DEF ConsumerMoves, Still
<1>6. consumer.pc \in {"push", "page"}
  BY <1>1, <1>2, <1>3 DEF Targets, TypeOK, Phases
<1>7. Addressed(d) /\ NameOf(d) \notin consumer.names
  BY <1>1, <1>3 DEF Targets
<1>8. live \in BOOLEAN
  OBVIOUS
<1> HIDE DEF live
<1>9. ASSUME NEW e \in Devices, JobFor(e)'
      PROVE  e = d /\ SendIdGiven(d)
  <2>1. job' # None
    BY <1>9, JobsDiffer DEF JobFor
  <2>2. SendIdGiven(d) /\ job' = Job(d, live)
    BY <1>1, <2>1
  <2>3. \A c, l : Job(c, l) = Job(d, live) => c = d
    BY <1>8, JobsDiffer
  <2> QED
    BY <1>9, <2>2, <2>3 DEF JobFor
<1>10. Job(d, live) = Job(d, TRUE) \/ Job(d, live) = Job(d, FALSE)
  BY <1>8
<1>11. job' = None \/ \E e \in Devices : JobFor(e)'
  BY <1>1, <1>10 DEF JobFor
<1>12. Targets'
  <2>1. \A e \in consumer'.apps : Addressed(e)' /\ NameOf(e)' \notin consumer'.names
    BY <1>3, <1>4, <1>5, StillSame DEF ConsumerMoves, Targets
  <2>2. \A e \in Devices : JobFor(e)' =>
          /\ Addressed(e)' /\ SendIdGiven(e)'
          /\ NameOf(e)' \notin consumer'.names /\ e \notin consumer'.apps
    BY <1>4, <1>5, <1>7, <1>9, StillSame DEF ConsumerMoves
  <2>3. FitsPage' = FitsPage
    BY <1>5, StillSame DEF ConsumerMoves
  <2> QED
    BY <1>1, <1>3, <1>4, <1>6, <2>1, <2>2, <2>3 DEF Targets
<1>13. ASSUME NEW e \in Devices, SendIdGiven(e), Attached(e)
       PROVE  Waits(e)' <=> Waits(e)
  <2>1. job # Job(e, TRUE)
    BY <1>1, JobsDiffer
  <2>2. CASE e = d
    <3>1. live = TRUE /\ InDevicesMap(d)
      BY <1>13, <2>2 DEF live, Attached, InDevicesMap
    <3>2. job' = Job(d, TRUE)
      BY <1>1, <1>13, <2>2, <3>1
    <3> QED
      BY <1>1, <2>2, <3>2 DEF Waits
  <2>3. CASE e # d
    <3>1. job' # Job(e, TRUE)
      BY <1>9, <2>3 DEF JobFor
    <3> QED
      BY <1>4, <1>5, <2>1, <2>3, <3>1, StillSame DEF Waits, ConsumerMoves
  <2> QED
    BY <2>2, <2>3
<1>14. /\ consumer'.pc \in Phases \ {"idle"} /\ consumer'.pc \in {"push", "page"}
       /\ consumer'.apps \subseteq Devices /\ UNCHANGED <<pushed, steady, known>>
  BY <1>1, <1>3, <1>4, <1>6 DEF TypeOK, Phases
<1> QED
  BY <1>2, <1>4, <1>5, <1>11, <1>12, <1>13, <1>14, ConsumerGoesOn

(* The worker gets the job; the device was not given the message before if *)
(* it stays.                                                               *)
LEMMA SendMessage2OK ==
  ASSUME IInv, SendMessage2
  PROVE  IInv'
<1>1. /\ job # None /\ job' = None
      /\ UNCHANGED <<clock, profile, conn, regTime, dbApp, dbUser, regappMap, regApps>>
      /\ UNCHANGED <<msg, ctime, stored, consumer, read, steady, known>>
  BY DEF SendMessage2, deviceVars, msgVars, historyVars
<1>2. consumer.pc # "idle" /\ consumer.pc # "scan"
  BY <1>1 DEF IInv, Order
<1>3. /\ TypeOK /\ Targets /\ Given /\ PushedOnce /\ Reached
      /\ stored /\ msg \in Messages /\ DOMAIN consumer = Fields
  BY <1>2, ConsumerFacts
<1>4. PICK d \in Devices : JobFor(d)
  BY <1>1, <1>3 DEF TypeOK
<1> DEFINE gets == job = Job(d, TRUE) /\ pushed[d] < 2
<1>5. pushed' = IF gets THEN [pushed EXCEPT ![d] = pushed[d] + 1] ELSE pushed
  <2>1. job.dev = d /\ (job = Job(d, TRUE) => job.live = TRUE)
                    /\ (job = Job(d, FALSE) => job.live = FALSE)
    BY <1>4, JobsDiffer DEF JobFor
  <2>2. Job(d, TRUE) # Job(d, FALSE)
    BY JobsDiffer
  <2> QED
    BY <1>4, <2>1, <2>2 DEF SendMessage2, JobFor
<1>6. ConsumerMoves
  BY <1>1, <1>3 DEF ConsumerMoves, Still
<1>7. /\ Addressed(d) /\ SendIdGiven(d)
      /\ NameOf(d) \notin consumer.names /\ d \notin consumer.apps
  BY <1>3, <1>4 DEF Targets
<1>8. \A e \in Devices : pushed'[e] = IF e = d /\ gets THEN pushed[e] + 1 ELSE pushed[e]
  BY <1>3, <1>5 DEF TypeOK
<1>9. \A e \in Devices : pushed[e] \in 0..2
  BY <1>3 DEF TypeOK
<1>10. pushed' \in [Devices -> 0..2]
  <2>1. pushed \in [Devices -> 0..2] /\ pushed[d] \in 0..2
    BY <1>3 DEF TypeOK
  <2>2. CASE gets
    <3>1. pushed[d] + 1 \in 0..2
      BY <2>1, <2>2
    <3> QED
      BY <1>5, <2>1, <2>2, <3>1
  <2>3. CASE ~gets
    BY <1>5, <2>1, <2>3
  <2> QED
    BY <2>2, <2>3
<1>11. \A e \in Devices : job' # Job(e, TRUE) /\ ~JobFor(e)'
  BY <1>1, JobsDiffer DEF JobFor
<1>12. ~Waits(d)' /\ (Waits(d) <=> job = Job(d, TRUE))
  BY <1>1, <1>2, <1>6, <1>7, <1>11, StillSame DEF Waits, ConsumerMoves
<1>13. ASSUME NEW e \in Devices, e # d
       PROVE  Waits(e)' <=> Waits(e)
  <2>1. \A c, l : Job(c, l) = Job(e, TRUE) => c = e
    BY JobsDiffer
  <2>2. job # Job(e, TRUE)
    BY <1>4, <1>13, <2>1 DEF JobFor
  <2> QED
    BY <1>1, <1>6, <1>11, <2>2, StillSame DEF Waits, ConsumerMoves
<1>14. Targets'
  <2>1. \A e \in consumer'.apps : Addressed(e)' /\ NameOf(e)' \notin consumer'.names
    BY <1>1, <1>3, <1>6, StillSame DEF ConsumerMoves, Targets
  <2>2. FitsPage' = FitsPage
    BY <1>6, StillSame DEF ConsumerMoves
  <2> QED
    BY <1>1, <1>3, <1>11, <2>1, <2>2 DEF Targets
<1>15. Given'
  <2> SUFFICES ASSUME NEW e \in Devices
               PROVE  /\ pushed'[e] > 0 => Addressed(e) /\ SendIdGiven(e)
                      /\ e \in read => Addressed(e) /\ OfflineSendId(profile[e])
    BY <1>1, <1>6, StillSame DEF Given, ConsumerMoves
  <2>1. /\ pushed[e] > 0 => Addressed(e) /\ SendIdGiven(e)
        /\ e \in read => Addressed(e) /\ OfflineSendId(profile[e])
    BY <1>3 DEF Given
  <2>2. CASE e = d /\ gets
    BY <1>7, <2>1, <2>2
  <2>3. CASE ~(e = d /\ gets)
    BY <1>8, <2>1, <2>3
  <2> QED
    BY <2>2, <2>3
<1>16. PushedOnce'
  <2> SUFFICES ASSUME NEW e \in steady
               PROVE  /\ Attached(e)'
                      /\ Ends /\ Addressed(e) /\ SendIdGiven(e) =>
                           pushed'[e] = IF Waits(e)' THEN 0 ELSE 1
    BY <1>1, <1>6, StillSame DEF PushedOnce, ConsumerMoves
  <2>1. e \in Devices
    BY <1>3 DEF TypeOK
  <2>2. Attached(e) /\ (Ends /\ Addressed(e) /\ SendIdGiven(e) =>
                          pushed[e] = IF Waits(e) THEN 0 ELSE 1)
    BY <1>3 DEF PushedOnce
  <2>3. Attached(e)'
    BY <1>1, <2>2 DEF Attached
  <2>4. CASE e = d
    <3> SUFFICES ASSUME Ends, Addressed(e), SendIdGiven(e)
                 PROVE  pushed'[e] = 1
      BY <1>12, <2>3, <2>4
    <3>1. CASE job = Job(d, TRUE)
      <4>1. pushed[d] = 0
        BY <1>12, <2>2, <2>4, <3>1
      <4> QED
        BY <1>8, <2>1, <2>4, <3>1, <4>1
    <3>2. CASE job # Job(d, TRUE)
      BY <1>8, <1>12, <2>1, <2>2, <2>4, <3>2
    <3> QED
      BY <3>1, <3>2
  <2>5. CASE e # d
    <3>1. pushed'[e] = pushed[e] /\ (Waits(e)' <=> Waits(e))
      BY <1>8, <1>13, <2>1, <2>5
    <3> QED
      BY <2>2, <2>3, <3>1
  <2> QED
    BY <2>4, <2>5
<1>17. Reached'
  <2> SUFFICES ASSUME Ends, NEW e \in Devices, Claims(e)
               PROVE  pushed'[e] > 0 \/ e \in read \/ Waits(e)'
    BY <1>1, <1>6, StillSame DEF Reached, Claims, ConsumerMoves
  <2>1. pushed[e] > 0 \/ e \in read \/ Waits(e)
    BY <1>2, <1>3 DEF Reached
  <2>2. CASE e = d
    <3>1. pushed[d] \in 0..2
      BY <1>9
    <3>2. CASE job = Job(d, TRUE)
      <4>1. pushed'[d] > 0
        BY <1>8, <3>1, <3>2
      <4> QED
        BY <2>2, <4>1
    <3>3. CASE job # Job(d, TRUE)
      BY <1>8, <1>12, <2>1, <2>2, <3>3
    <3> QED
      BY <3>2, <3>3
  <2>3. CASE e # d
    BY <1>8, <1>13, <2>1, <2>3
  <2> QED
    BY <2>2, <2>3
<1>18. /\ DOMAIN consumer' = Fields /\ consumer'.pc \in Phases \ {"idle"}
       /\ consumer'.apps \subseteq Devices
       /\ steady' \subseteq Devices /\ known' \subseteq Devices /\ known' = known
  BY <1>1, <1>2, <1>3 DEF TypeOK
<1> HIDE DEF gets
<1> QED
  BY <1>1, <1>6, <1>10, <1>14, <1>15, <1>16, <1>17, <1>18, ConsumerKeeps

LEMMA ScanGroupOK ==
  ASSUME IInv, ScanGroup
  PROVE  IInv'
<1>1. /\ consumer.pc = "scan"
      /\ UNCHANGED <<clock, profile, conn, regTime, dbApp, dbUser, regappMap, regApps>>
      /\ UNCHANGED <<msg, ctime, stored, job, pushed, read, steady, known>>
  BY DEF ScanGroup, deviceVars, msgVars, gotVars, historyVars
<1>2. /\ TypeOK /\ Targets /\ stored /\ msg \in Messages /\ job = None
  BY <1>1, ConsumerFacts DEF IInv, Order
<1>3. /\ DOMAIN consumer' = Fields /\ consumer'.pc = "page"
      /\ consumer'.names = Page /\ consumer'.apps = {}
  BY ConsumerFields DEF ScanGroup
<1>4. ConsumerMoves
  BY <1>1, <1>2 DEF ConsumerMoves, Still
<1>5. msg.type = "group" /\ consumer.names = {} /\ consumer.apps = {}
  BY <1>1, <1>2 DEF Targets
<1>6. \A d \in Devices : ~JobFor(d)' /\ job # Job(d, TRUE)
  BY <1>1, <1>2, JobsDiffer DEF JobFor
<1>7. Targets'
  <2>1. Page \subseteq msg.to
    BY <1>2, <1>5, PageSubset
  <2> QED
    BY <1>1, <1>3, <1>5, <1>6, <2>1 DEF Targets
<1>8. ASSUME NEW d \in Devices, Ends
      PROVE  Waits(d)' <=> Waits(d)
  <2>1. Page = msg.to /\ NameOf(d) = d
    BY <1>5, <1>8 DEF Ends, Page, NameOf
  <2>2. Waits(d)' <=> d \in msg.to
    BY <1>1, <1>3, <1>4, <1>6, <2>1, StillSame DEF Waits, ConsumerMoves
  <2>3. Waits(d) <=> d \in msg.to
    BY <1>1, <1>5, <1>6 DEF Waits
  <2> QED
    BY <2>2, <2>3
<1>9. /\ consumer.pc # "idle" /\ consumer'.pc \in Phases \ {"idle"} /\ job' = None
      /\ consumer'.apps \subseteq Devices /\ UNCHANGED <<pushed, steady, known>>
  BY <1>1, <1>2, <1>3 DEF Phases
<1> QED
  BY <1>3, <1>4, <1>7, <1>8, <1>9, ConsumerGoesOn

(* The scan ends if the group has one page, and else it makes no promise.  *)
LEMMA NextPageOK ==
  ASSUME IInv, NextPage
  PROVE  IInv'
<1>1. /\ consumer.pc = "page" /\ consumer.names = {} /\ consumer.apps = {}
      /\ job = None /\ job' = None
      /\ UNCHANGED <<clock, profile, conn, regTime, dbApp, dbUser, regappMap, regApps>>
      /\ UNCHANGED <<msg, ctime, stored, pushed, read, steady, known>>
  BY DEF NextPage, deviceVars, msgVars, gotVars, historyVars
<1>2. /\ TypeOK /\ Targets /\ stored /\ msg \in Messages
  BY <1>1, ConsumerFacts
<1>3. /\ DOMAIN consumer' = Fields
      /\ consumer'.pc = IF FitsPage THEN "done" ELSE "scan"
      /\ consumer'.names = {} /\ consumer'.apps = {}
  BY ConsumerFields DEF NextPage
<1>4. ConsumerMoves
  BY <1>1, <1>2 DEF ConsumerMoves, Still
<1>5. msg.type = "group"
  BY <1>1, <1>2 DEF Targets
<1>6. \A d \in Devices : ~JobFor(d)' /\ job # Job(d, TRUE) /\ job' # Job(d, TRUE)
  BY <1>1, JobsDiffer DEF JobFor
<1>7. Targets'
  <2>1. FitsPage' = FitsPage
    BY <1>4, StillSame DEF ConsumerMoves
  <2> QED
    BY <1>1, <1>3, <1>5, <1>6, <2>1 DEF Targets
<1>8. ASSUME NEW d \in Devices, Ends
      PROVE  Waits(d)' <=> Waits(d)
  <2>1. FitsPage
    BY <1>5, <1>8 DEF Ends
  <2>2. ~Waits(d)'
    BY <1>3, <1>6, <2>1 DEF Waits
  <2>3. ~Waits(d)
    BY <1>1, <1>6 DEF Waits
  <2> QED
    BY <2>2, <2>3
<1>9. /\ consumer.pc # "idle" /\ consumer'.pc \in Phases \ {"idle"}
      /\ consumer'.apps \subseteq Devices /\ UNCHANGED <<pushed, steady, known>>
  BY <1>1, <1>3 DEF Phases
<1> QED
  BY <1>1, <1>3, <1>4, <1>7, <1>8, <1>9, ConsumerGoesOn

LEMMA PushedAllOK ==
  ASSUME IInv, PushedAll
  PROVE  IInv'
<1>1. /\ consumer.pc = "push" /\ consumer.names = {} /\ consumer.apps = {}
      /\ job = None /\ job' = None
      /\ UNCHANGED <<clock, profile, conn, regTime, dbApp, dbUser, regappMap, regApps>>
      /\ UNCHANGED <<msg, ctime, stored, pushed, read, steady, known>>
  BY ConsumerFields DEF PushedAll, deviceVars, msgVars, gotVars, historyVars
<1>2. /\ TypeOK /\ Targets /\ stored /\ msg \in Messages
  BY <1>1, ConsumerFacts
<1>3. /\ DOMAIN consumer' = Fields /\ consumer'.pc = "done"
      /\ consumer'.names = {} /\ consumer'.apps = {}
  BY ConsumerFields DEF PushedAll
<1>4. ConsumerMoves
  BY <1>1, <1>2 DEF ConsumerMoves, Still
<1>5. \A d \in Devices : ~JobFor(d)' /\ job # Job(d, TRUE) /\ job' # Job(d, TRUE)
  BY <1>1, JobsDiffer DEF JobFor
<1>6. Targets'
  BY <1>1, <1>2, <1>3, <1>5 DEF Targets
<1>7. \A d \in Devices : ~Waits(d)' /\ ~Waits(d)
  BY <1>1, <1>3, <1>5 DEF Waits
<1>8. /\ consumer.pc # "idle" /\ consumer'.pc \in Phases \ {"idle"}
      /\ consumer'.apps \subseteq Devices /\ UNCHANGED <<pushed, steady, known>>
  BY <1>1, <1>3 DEF Phases
<1> QED
  BY <1>1, <1>3, <1>4, <1>6, <1>7, <1>8, ConsumerGoesOn

-----------------------------------------------------------------------------
(* Theorems.                                                               *)
LEMMA StepOK == IInv /\ [Next]_vars => IInv'
<1> SUFFICES ASSUME IInv, [Next]_vars PROVE IInv'
  OBVIOUS
<1>1. CASE UNCHANGED vars
  <2> USE <1>1 DEF vars, msgVars, gotVars, historyVars
  <2>1. Still
    BY DEF Still, deviceVars
  <2>2. DevicesRest
    BY DEF DevicesRest
  <2>3. DeviceTypes' /\ \A d \in Devices : Placed(d)' /\ (Attached(d) => Attached(d)')
    BY <2>2, RestPlaced
  <2>4. TypeOK
    BY DEF IInv
  <2>5. job' = None \/ \E d \in Devices : JobFor(d)'
    BY <2>4 DEF TypeOK, JobFor
  <2>6. TypeOK'
    BY <2>3, <2>4, <2>5 DEF TypeOK
  <2>7. \A d \in steady' : Attached(d)'
    BY <2>3, <2>4 DEF IInv, Order, PushedOnce, TypeOK
  <2>8. \A d \in Devices : Claims(d)' => Claims(d)
    BY <2>1, StillSame DEF Claims, deviceVars
  <2>9. read' # {} => stored
    BY DEF IInv, Order
  <2> QED
    BY <2>1, <2>3, <2>6, <2>7, <2>8, <2>9, DeviceKeeps
<1>2. CASE \E d \in Devices : DeviceStep(d)
  BY <1>2, CreateClientOK, NoAppOK, AddAppOK, ListAppOK, ReadOfflineOK, RegisterAppOK,
     StoreAppOK, StoreUserOK, UnregisterAppOK, RemoveUserOK, DelAppOK, DelistAppOK,
     CloseConnOK DEF DeviceStep
<1>3. CASE \E m \in Messages : AddMessage(m)
  BY <1>3, AddMessageOK
<1>4. CASE Store
  BY <1>4, StoreOK
<1>5. CASE ConsumerStep
  BY <1>5, PushMessagesOK, LookUpOK, PushMessageOK, ScanGroupOK, NextPageOK, PushedAllOK
     DEF ConsumerStep
<1>6. CASE SendMessage2
  BY <1>6, SendMessage2OK
<1>7. CASE Tick
  BY <1>7, TickOK
<1> QED
  BY <1>1, <1>2, <1>3, <1>4, <1>5, <1>6, <1>7 DEF Next

(* The inductive invariant is one, with every store and every entry in a   *)
(* map made and removed in a step of its own, and a step of the consumer,  *)
(* of another device or of the clock between any two of them: it says      *)
(* where each registration can be found meanwhile, and for whom the        *)
(* consumer has what still to do.                                          *)
THEOREM TargetsInvariant == Spec => []IInv
  BY InitOK, StepOK, PTL DEF Spec

(* When PushMessages has handled a message, every device that was attached *)
(* all the time got it exactly once if it is addressed and its             *)
(* registration has the send id, and else not at all: GetAppsByUser,       *)
(* GetAppsByTopic, matchTopics and the pages of a group neither miss nor   *)
(* repeat one, whatever the other devices do in between.                   *)
THEOREM PushedRightHolds == Spec => []PushedRight
<1>1. IInv => PushedRight
  <2> SUFFICES ASSUME IInv, consumer.pc = "done", NEW d \in steady
               PROVE  pushed[d] = IF Addressed(d) /\ SendIdGiven(d) THEN 1 ELSE 0
    BY DEF PushedRight
  <2>1. TypeOK /\ Targets /\ Given /\ PushedOnce /\ job = None
    BY ConsumerFacts DEF IInv, Order
  <2>2. d \in Devices /\ pushed[d] \in 0..2
    BY <2>1 DEF TypeOK
  <2>3. job # Job(d, TRUE)
    BY <2>1, <2>2, JobsDiffer
  <2>4. Ends /\ ~Waits(d)
    BY <2>1, <2>3 DEF Targets, Ends, Waits
  <2>5. Addressed(d) /\ SendIdGiven(d) => pushed[d] = 1
    BY <2>1, <2>4 DEF PushedOnce
  <2>6. pushed[d] > 0 => Addressed(d) /\ SendIdGiven(d)
    BY <2>1, <2>2 DEF Given
  <2> QED
    BY <2>2, <2>5, <2>6
<1> QED
  BY <1>1, TargetsInvariant, PTL

(* Live pushes and handleOfflineMsgs together reach exactly the devices    *)
(* the message is for: nobody else ever gets it, and once PushMessages is  *)
(* done no device is left out that is connected and registered, in a       *)
(* second before that of the message on the clocks of the two hosts,       *)
(* however they differ, and had completed its registration before it began *)
(* or has connected since; whenever it left and came back.                 *)
THEOREM ReachesAddressedHolds == Spec => []ReachesAddressed
<1>1. IInv => OnlyAddressed
  <2> SUFFICES ASSUME IInv, NEW d \in Devices, pushed[d] > 0 \/ d \in read
               PROVE  Addressed(d) /\ (SendIdGiven(d) \/ profile[d].ids = {})
    BY DEF OnlyAddressed
  <2>1. TypeOK /\ Order
    BY DEF IInv
  <2>2. stored
    BY <2>1 DEF Order
  <2>3. Given
    BY <2>1, <2>2 DEF IInv, Order
  <2>4. /\ pushed[d] > 0 => Addressed(d) /\ SendIdGiven(d)
        /\ d \in read => Addressed(d) /\ OfflineSendId(profile[d])
    BY <2>3 DEF Given
  <2>5. OfflineSendId(profile[d]) => SendIdGiven(d) \/ profile[d].ids = {}
    BY DEF OfflineSendId, SendIdGiven
  <2> QED
    BY <2>4, <2>5
<1>2. IInv => NoGap
  <2> SUFFICES ASSUME IInv, consumer.pc = "done", NEW d \in Devices, Claims(d)
               PROVE  pushed[d] > 0 \/ d \in read
    BY DEF NoGap
  <2>1. Targets /\ Reached /\ job = None
    BY ConsumerFacts DEF IInv, Order
  <2>2. job # Job(d, TRUE)
    BY <2>1, JobsDiffer
  <2>3. Ends /\ ~Waits(d)
    BY <2>1, <2>2 DEF Targets, Ends, Waits
  <2> QED
    BY <2>1, <2>3 DEF Reached
<1> QED
  BY <1>1, <1>2, TargetsInvariant, PTL DEF ReachesAddressed

=============================================================================
