--------------------------- MODULE ServicesProofs ---------------------------
(***************************************************************************)
(* Proofs about the small services around the push API: the list of comet  *)
(* servers (ZkWatcher), the sync service (SyncApi) and the notify service  *)
(* (NotifyApi), for any nodes, keys and notices and any capacities.        *)
(***************************************************************************)
EXTENDS ZkWatcher, SyncApi, NotifyApi, SequenceTheorems, FiniteSetTheorems, TLAPS

-----------------------------------------------------------------------------
(* Sequences.                                                              *)
LEMMA ToSetAppend ==
  ASSUME NEW S, NEW s \in Seq(S), NEW e \in S
  PROVE  /\ Append(s, e) \in Seq(S) /\ Len(Append(s, e)) = Len(s) + 1
         /\ ToSet(Append(s, e)) = ToSet(s) \union {e}
<1>1. /\ Append(s, e) \in Seq(S) /\ Len(Append(s, e)) = Len(s) + 1
      /\ \A i \in 1..Len(s) : Append(s, e)[i] = s[i]
      /\ Append(s, e)[Len(s) + 1] = e
  BY AppendProperties
<1>2. Len(s) \in Nat /\ DOMAIN s = 1..Len(s) /\ DOMAIN Append(s, e) = 1..(Len(s) + 1)
  BY <1>1, LenProperties
<1>3. ToSet(Append(s, e)) \subseteq ToSet(s) \union {e}
  BY <1>1, <1>2 DEF ToSet
<1>4. ToSet(s) \union {e} \subseteq ToSet(Append(s, e))
  BY <1>1, <1>2 DEF ToSet
<1> QED
  BY <1>1, <1>3, <1>4

LEMMA ToSetTail ==
  ASSUME NEW S, NEW s \in Seq(S), s # <<>>
  PROVE  /\ Head(s) \in S /\ Tail(s) \in Seq(S) /\ Len(Tail(s)) = Len(s) - 1
         /\ ToSet(s) = ToSet(Tail(s)) \union {Head(s)}
<1>1. /\ Head(s) \in S /\ Tail(s) \in Seq(S) /\ Head(s) = s[1]
      /\ Len(Tail(s)) = Len(s) - 1
      /\ \A i \in 1..Len(Tail(s)) : Tail(s)[i] = s[i + 1]
  BY HeadTailProperties
<1>2. Len(s) \in Nat \ {0} /\ DOMAIN s = 1..Len(s) /\ DOMAIN Tail(s) = 1..(Len(s) - 1)
  BY <1>1, LenProperties, EmptySeq
<1>3. ToSet(s) \subseteq ToSet(Tail(s)) \union {Head(s)}
  <2> SUFFICES ASSUME NEW i \in 1..Len(s), i # 1
               PROVE  s[i] \in ToSet(Tail(s))
    BY <1>1, <1>2 DEF ToSet
  <2>1. i - 1 \in DOMAIN Tail(s) /\ Tail(s)[i - 1] = s[i]
    BY <1>1, <1>2
  <2> QED
    BY <2>1 DEF ToSet
<1>4. ToSet(Tail(s)) \union {Head(s)} \subseteq ToSet(s)
  BY <1>1, <1>2 DEF ToSet
<1> QED
  BY <1>1, <1>3, <1>4

-----------------------------------------------------------------------------
(* The sync service.  The invariant is inductive with the types.           *)
SyncInv == SyncTypeOK /\ RequestsKept

LEMMA SyncInitOK == SyncInit => SyncInv
  BY SyncAssumption DEF SyncInit, SyncInv, SyncTypeOK, RequestsKept

LEMMA SyncStepOK == SyncInv /\ [SyncNext]_syncVars => SyncInv'
<1> SUFFICES ASSUME SyncInv, [SyncNext]_syncVars PROVE SyncInv'
  OBVIOUS
<1> USE SyncAssumption DEF SyncInv
<1>1. CASE UNCHANGED syncVars
  BY <1>1 DEF syncVars, SyncTypeOK, RequestsKept, Running
<1>2. ASSUME NEW k \in Keys, Post(k) PROVE SyncInv'
  <2>1. box \in Seq(Keys) /\ Len(box) \in Nat
    BY LenProperties DEF SyncTypeOK
  <2>2. /\ box' \in Seq(Keys) /\ Len(box') = Len(box) + 1
        /\ ToSet(box') = ToSet(box) \union {k}
    BY <1>2, <2>1, ToSetAppend DEF Post
  <2>3. SyncTypeOK'
    BY <1>2, <2>1, <2>2 DEF Post, SyncTypeOK
  <2>4. RequestsKept'
    BY <1>2, <2>2 DEF Post, RequestsKept, Running
  <2> QED
    BY <2>3, <2>4
<1>3. CASE ReceiveMsg
  <2>1. box \in Seq(Keys) /\ box # <<>> /\ Len(box) \in Nat
    BY <1>3, LenProperties DEF ReceiveMsg, SyncTypeOK
  <2>2. /\ Head(box) \in Keys /\ box' \in Seq(Keys) /\ Len(box') = Len(box) - 1
        /\ ToSet(box) = ToSet(box') \union {Head(box)}
    BY <1>3, <2>1, ToSetTail DEF ReceiveMsg
  <2>3. SyncTypeOK'
    BY <1>3, <2>1, <2>2 DEF ReceiveMsg, SyncTypeOK
  <2>4. RequestsKept'
    BY <1>3, <2>2 DEF ReceiveMsg, RequestsKept, Running
  <2> QED
    BY <2>3, <2>4
<1>4. CASE SyncTick
  BY <1>4 DEF SyncTick, SyncTypeOK, RequestsKept, Running
<1>5. CASE TimerFires
  BY <1>5 DEF TimerFires, SyncTypeOK, RequestsKept, Running
<1>6. ASSUME NEW k \in Keys, Push(k) PROVE SyncInv'
  BY <1>6 DEF Push, SyncTypeOK, RequestsKept, Running
<1>7. ASSUME NEW k \in Keys, PushFails(k) PROVE SyncInv'
  BY <1>7 DEF PushFails, SyncTypeOK, RequestsKept, Running
<1>8. CASE PushedAll
  BY <1>8 DEF PushedAll, SyncTypeOK, RequestsKept, Running
<1>9. CASE StopSync
  BY <1>9 DEF StopSync, SyncTypeOK, RequestsKept, Running
<1> QED
  BY <1>1, <1>2, <1>3, <1>4, <1>5, <1>6, <1>7, <1>8, <1>9 DEF SyncNext

(* An answered request to the sync service is in the channel, among the    *)
(* collected messages or in the batch that is being pushed until its push, *)
(* as long as the process lives, for any capacity and any interval.        *)
THEOREM RequestsKeptHolds == SyncSpec => []RequestsKept
<1>1. SyncInv => RequestsKept
  BY DEF SyncInv
<1> QED
  BY <1>1, SyncInitOK, SyncStepOK, PTL DEF SyncSpec

-----------------------------------------------------------------------------
(* The notify service.                                                     *)
MainType == [pc : {"idle", "start", "wait", "answered"}, seen : 0..MaxNotices, id : Ids \union {0}]
WorkerType == [pc : {"none", "check", "uids", "push", "send", "done"}, ok : BOOLEAN]

NoticeTypes ==
  /\ ids \in Seq(Ids \union {0}) /\ Len(ids) <= MaxNotices
  /\ main \in MainType /\ main.seen <= Len(ids)
  /\ worker \in [Notices -> WorkerType]
  /\ accepted \subseteq Notices

(* A channel is kept for every id seen so far: that of one of its notices. *)
ChannelsKept ==
  /\ DOMAIN results = {ids[n] : n \in 1..main.seen} \ {0}
  /\ \A id \in DOMAIN results : results[id] \in 1..main.seen /\ ids[results[id]] = id
  /\ main.pc = "idle" => main.seen = 0
  /\ main.pc \in {"wait", "answered"} => main.seen = Len(ids)

(* Each of those ids is in one place on its way into the answer.           *)
FateKnown ==
  /\ IF main.pc \in {"wait", "answered"}
       THEN todo \union ({main.id} \ {0}) \union sent \union unsent \union timedOut = DOMAIN results
       ELSE main.id = 0 /\ todo = {} /\ sent = {} /\ unsent = {} /\ timedOut = {}
  /\ sent \intersect unsent = {} /\ (sent \union unsent) \intersect timedOut = {}
  /\ todo \intersect (sent \union unsent \union timedOut) = {}
  /\ main.id \notin todo \union sent \union unsent \union timedOut
  /\ main.pc = "answered" => todo = {} /\ main.id = 0

(* A goroutine belongs to a notice with an id; what it reports as pushed   *)
(* has been accepted.                                                      *)
WorkersRight ==
  \A n \in Notices :
    /\ worker[n].pc # "none" => n <= main.seen /\ ids[n] # 0
    /\ worker[n].pc = "send" /\ worker[n].ok => n \in accepted

(* The goroutine of an id with a result has delivered it.                  *)
Delivered ==
  /\ \A id \in sent : results[id] \in accepted
  /\ \A id \in sent \union unsent : worker[results[id]].pc = "done"

NotifyInv == NoticeTypes /\ ChannelsKept /\ FateKnown /\ WorkersRight /\ Delivered

LEMMA MainValues ==
  ASSUME NEW m \in MainType
  PROVE  /\ m.pc \in {"idle", "start", "wait", "answered"} /\ m.seen \in 0..MaxNotices
         /\ m.id \in Ids \union {0}
  BY DEF MainType

LEMMA MainAt ==
  ASSUME NEW m \in MainType, NEW p \in {"idle", "start", "wait", "answered"}
  PROVE  /\ [m EXCEPT !.pc = p] \in MainType /\ [m EXCEPT !.pc = p].pc = p
         /\ [m EXCEPT !.pc = p].seen = m.seen /\ [m EXCEPT !.pc = p].id = m.id
  BY DEF MainType

LEMMA MainSeen ==
  ASSUME NEW m \in MainType, NEW n \in 0..MaxNotices
  PROVE  /\ [m EXCEPT !.seen = n] \in MainType /\ [m EXCEPT !.seen = n].pc = m.pc
         /\ [m EXCEPT !.seen = n].seen = n /\ [m EXCEPT !.seen = n].id = m.id
  BY DEF MainType

LEMMA MainFor ==
  ASSUME NEW m \in MainType, NEW i \in Ids \union {0}
  PROVE  /\ [m EXCEPT !.id = i] \in MainType /\ [m EXCEPT !.id = i].pc = m.pc
         /\ [m EXCEPT !.id = i].seen = m.seen /\ [m EXCEPT !.id = i].id = i
  BY DEF MainType

LEMMA WorkerValues ==
  /\ \A p \in {"none", "check", "uids", "push", "send", "done"}, k \in BOOLEAN :
       Worker(p, k) \in WorkerType /\ Worker(p, k).pc = p /\ Worker(p, k).ok = k
  /\ \A w \in WorkerType :
       /\ w.pc \in {"none", "check", "uids", "push", "send", "done"} /\ w.ok \in BOOLEAN
       /\ [w EXCEPT !.pc = "done"] \in WorkerType /\ [w EXCEPT !.pc = "done"].pc = "done"
  BY DEF Worker, WorkerType

LEMMA NoticeFacts ==
  ASSUME NotifyInv
  PROVE  /\ main.pc \in {"idle", "start", "wait", "answered"}
         /\ main.seen \in Nat /\ Len(ids) \in Nat /\ main.seen <= Len(ids)
         /\ Len(ids) <= MaxNotices /\ MaxNotices \in Nat
         /\ DOMAIN ids = 1..Len(ids) /\ 0 \notin Ids
         /\ 1..Len(ids) \subseteq Notices /\ 1..main.seen \subseteq 1..Len(ids)
         /\ \A n \in 1..Len(ids) : ids[n] \in Ids \union {0}
         /\ DOMAIN results \subseteq Ids
         /\ \A id \in DOMAIN results : results[id] \in Notices
<1>1. main \in MainType /\ ids \in Seq(Ids \union {0})
  BY DEF NotifyInv, NoticeTypes
<1>2. /\ main.pc \in {"idle", "start", "wait", "answered"} /\ main.seen \in 0..MaxNotices
  BY <1>1, MainValues
<1>3. Len(ids) \in Nat /\ DOMAIN ids = 1..Len(ids) /\ MaxNotices \in Nat /\ 0 \notin Ids
  BY <1>1, LenProperties, NotifyAssumption
<1>4. main.seen <= Len(ids) /\ Len(ids) <= MaxNotices
  BY DEF NotifyInv, NoticeTypes
<1>5. 1..Len(ids) \subseteq Notices /\ 1..main.seen \subseteq 1..Len(ids)
  BY <1>2, <1>3, <1>4 DEF Notices
<1>6. \A n \in 1..Len(ids) : ids[n] \in Ids \union {0}
  BY <1>1, <1>3, ElementOfSeq
<1>7. DOMAIN results \subseteq Ids
  BY <1>5, <1>6 DEF NotifyInv, ChannelsKept
<1>8. \A id \in DOMAIN results : results[id] \in Notices
  BY <1>5 DEF NotifyInv, ChannelsKept
<1> QED
  BY <1>2, <1>3, <1>4, <1>5, <1>6, <1>7, <1>8

LEMMA NotifyInitOK == NotifyInit => NotifyInv
<1> SUFFICES ASSUME NotifyInit PROVE NotifyInv
  OBVIOUS
<1>1. /\ ids = <<>> /\ main = [pc |-> "idle", seen |-> 0, id |-> 0]
      /\ worker = [n \in Notices |-> Worker("none", FALSE)]
      /\ results = <<>> /\ todo = {} /\ sent = {} /\ unsent = {} /\ timedOut = {}
      /\ accepted = {}
  BY DEF NotifyInit
<1>2. MaxNotices \in Nat /\ 0 \notin Ids
  BY NotifyAssumption
<1>3. NoticeTypes
  <2>1. main \in MainType
    BY <1>1, <1>2 DEF MainType
  <2>2. ids \in Seq(Ids \union {0}) /\ Len(ids) = 0
    BY <1>1
  <2>3. worker \in [Notices -> WorkerType]
    BY <1>1, WorkerValues
  <2>4. main.seen = 0 /\ accepted \subseteq Notices
    BY <1>1
  <2> QED
    BY <1>2, <2>1, <2>2, <2>3, <2>4 DEF NoticeTypes
<1>4. DOMAIN results = {}
  BY <1>1
<1>5. ChannelsKept
  <2>1. 1..main.seen = {}
    BY <1>1
  <2> QED
    BY <1>1, <1>4, <2>1 DEF ChannelsKept
<1>6. FateKnown
  BY <1>1 DEF FateKnown
<1>7. WorkersRight
  <2>1. \A n \in Notices : worker[n].pc = "none"
    BY <1>1, WorkerValues
  <2> QED
    BY <2>1 DEF WorkersRight
<1>8. Delivered
  BY <1>1 DEF Delivered
<1> QED
  BY <1>3, <1>5, <1>6, <1>7, <1>8 DEF NotifyInv

(* A goroutine that has begun and not ended goes on.                       *)
LEMMA WorkerGoesOK ==
  ASSUME NotifyInv, NEW n \in Notices, NEW from \in {"check", "uids", "push"},
         NEW w \in WorkerType, WorkerGoes(n, from, w), w.pc # "none",
         accepted' \in {accepted, accepted \union {n}},
         w.pc = "send" /\ w.ok => n \in accepted'
  PROVE  NotifyInv'
<1>1. /\ worker[n].pc = from /\ worker' = [worker EXCEPT ![n] = w]
      /\ UNCHANGED <<ids, main, results, todo, sent, unsent, timedOut>>
  BY DEF WorkerGoes
<1>2. NoticeTypes /\ ChannelsKept /\ FateKnown /\ WorkersRight /\ Delivered
  BY DEF NotifyInv
<1>3. \A m \in Notices : worker'[m] = IF m = n THEN w ELSE worker[m]
  BY <1>1, <1>2 DEF NoticeTypes
<1>4. NoticeTypes'
  BY <1>1, <1>2 DEF NoticeTypes
<1>5. ChannelsKept' /\ FateKnown'
  BY <1>1, <1>2 DEF ChannelsKept, FateKnown
<1>6. WorkersRight'
  BY <1>1, <1>2, <1>3 DEF WorkersRight
<1>7. Delivered'
  <2>1. sent \union unsent \subseteq DOMAIN results
    BY <1>2 DEF FateKnown
  <2>2. \A id \in DOMAIN results : results[id] \in Notices
    BY NoticeFacts
  <2> QED
    BY <1>1, <1>2, <1>3, <2>1, <2>2 DEF Delivered
<1> QED
  BY <1>4, <1>5, <1>6, <1>7 DEF NotifyInv

LEMMA WorkerWorkOK ==
  ASSUME NotifyInv, NEW n \in Notices, WorkerWork(n)
  PROVE  NotifyInv'
<1>1. CASE CheckNotice(n)
  BY <1>1, WorkerValues, WorkerGoesOK DEF CheckNotice
<1>2. CASE GetUids(n)
  BY <1>2, WorkerValues, WorkerGoesOK DEF GetUids
<1>3. CASE GetUidsPanics(n)
  BY <1>3, WorkerValues, WorkerGoesOK DEF GetUidsPanics
<1>4. CASE PushNotice(n)
  BY <1>4, WorkerValues, WorkerGoesOK DEF PushNotice
<1>5. CASE PushRefused(n)
  BY <1>5, WorkerValues, WorkerGoesOK DEF PushRefused
<1> QED
  BY <1>1, <1>2, <1>3, <1>4, <1>5 DEF WorkerWork

LEMMA RequestOK ==
  ASSUME NotifyInv, NEW s \in BoundedSeq(Ids \union {0}, MaxNotices + 1), Request(s)
  PROVE  NotifyInv'
<1>1. /\ main.pc = "idle" /\ Len(s) <= MaxNotices /\ ids' = s
      /\ main' = [main EXCEPT !.pc = "start"]
      /\ UNCHANGED <<worker, results, todo, sent, unsent, timedOut, accepted>>
  BY DEF Request
<1>2. NoticeTypes /\ ChannelsKept /\ FateKnown /\ WorkersRight /\ Delivered
  BY DEF NotifyInv
<1>3. main' \in MainType /\ main'.pc = "start" /\ main'.seen = main.seen /\ main'.id = main.id
  <2>1. main \in MainType
    BY <1>2 DEF NoticeTypes
  <2> QED
    BY <1>1, <2>1, MainAt
<1>4. main.seen = 0 /\ DOMAIN results = {} /\ sent = {} /\ unsent = {}
  <2>1. main.seen = 0
    BY <1>1, <1>2 DEF ChannelsKept
  <2>2. 1..main.seen = {}
    BY <2>1
  <2> QED
    BY <1>1, <1>2, <2>1, <2>2 DEF ChannelsKept, FateKnown
<1>5. s \in Seq(Ids \union {0}) /\ Len(s) \in Nat
  <2>1. PICK m \in 0..(MaxNotices + 1) : s \in [1..m -> Ids \union {0}]
    BY DEF BoundedSeq, SeqOf
  <2>2. m \in Nat
    BY <2>1, NotifyAssumption
  <2> QED
    BY <2>1, <2>2, IsASeq, LenProperties
<1>6. NoticeTypes'
  BY <1>1, <1>2, <1>3, <1>4, <1>5 DEF NoticeTypes
<1>7. ChannelsKept'
  <2>1. 1..main'.seen = {}
    BY <1>3, <1>4
  <2> QED
    BY <1>1, <1>3, <1>4, <2>1 DEF ChannelsKept
<1>8. FateKnown'
  BY <1>1, <1>2, <1>3 DEF FateKnown
<1>9. WorkersRight'
  <2>1. \A n \in Notices : worker[n].pc = "none"
    <3>1. \A n \in Notices : ~(n <= 0)
      BY NoticeFacts DEF Notices
    <3> QED
      BY <1>2, <1>4, <3>1 DEF WorkersRight
  <2> QED
    BY <1>1, <2>1 DEF WorkersRight
<1>10. Delivered'
  BY <1>1, <1>4 DEF Delivered
<1> QED
  BY <1>6, <1>7, <1>8, <1>9, <1>10 DEF NotifyInv

(* The channel of the new notice takes the place of an older one with its  *)
(* id.                                                                     *)
LEMMA StartNoticeOK ==
  ASSUME NotifyInv, StartNotice
  PROVE  NotifyInv'
<1> DEFINE n == main.seen + 1
           id == ids[n]
<1>1. /\ main.pc = "start" /\ n \in DOMAIN ids
      /\ main' = [main EXCEPT !.seen = n]
      /\ id = 0 => UNCHANGED <<worker, results>>
      /\ id # 0 => /\ worker' = [worker EXCEPT ![n] = Worker("check", FALSE)]
                   /\ results' = [i \in DOMAIN results \union {id} |->
                                    IF i = id THEN n ELSE results[i]]
      /\ UNCHANGED <<ids, todo, sent, unsent, timedOut, accepted>>
  BY DEF StartNotice
<1>2. NoticeTypes /\ ChannelsKept /\ FateKnown /\ WorkersRight /\ Delivered
  BY DEF NotifyInv
<1>3. /\ main.seen \in Nat /\ Len(ids) \in Nat /\ Len(ids) <= MaxNotices /\ MaxNotices \in Nat
      /\ DOMAIN ids = 1..Len(ids) /\ n \in Notices
  BY <1>1, NoticeFacts
<1>4. n \in 0..MaxNotices /\ n <= Len(ids) /\ 1..n = 1..main.seen \union {n}
  BY <1>1, <1>3
<1>5. main' \in MainType /\ main'.pc = "start" /\ main'.seen = n /\ main'.id = main.id
  <2>1. main \in MainType
    BY <1>2 DEF NoticeTypes
  <2> HIDE DEF n, id
  <2> QED
    BY <1>1, <1>4, <2>1, MainSeen
<1>6. sent = {} /\ unsent = {} /\ todo = {} /\ timedOut = {} /\ main.id = 0
  BY <1>1, <1>2 DEF FateKnown
<1>7. \A m \in Notices : worker'[m] = IF m = n /\ id # 0 THEN Worker("check", FALSE) ELSE worker[m]
  BY <1>1, <1>2, <1>3 DEF NoticeTypes
<1>8. worker' \in [Notices -> WorkerType]
  <2>1. Worker("check", FALSE) \in WorkerType /\ worker \in [Notices -> WorkerType]
    BY <1>2, WorkerValues DEF NoticeTypes
  <2> HIDE DEF n, id
  <2> QED
    BY <1>1, <2>1
<1>9. NoticeTypes'
  BY <1>1, <1>2, <1>4, <1>5, <1>8 DEF NoticeTypes
<1>10. ChannelsKept'
  <2>1. CASE id = 0
    <3>1. results' = results /\ ids' = ids
      BY <1>1, <2>1
    <3>2. {ids[m] : m \in 1..n} \ {0} = {ids[m] : m \in 1..main.seen} \ {0}
      BY <1>4, <2>1
    <3>3. main'.pc = "start" /\ main'.seen = n /\ 1..main.seen \subseteq 1..n
      BY <1>4, <1>5
    <3>4. DOMAIN results = {ids[m] : m \in 1..n} \ {0}
      BY <1>2, <3>2 DEF ChannelsKept
    <3>5. \A i \in DOMAIN results : results[i] \in 1..n /\ ids[results[i]] = i
      BY <1>2, <3>3 DEF ChannelsKept
    <3> HIDE DEF n, id
    <3> QED
      BY <3>1, <3>3, <3>4, <3>5 DEF ChannelsKept
  <2>2. CASE id # 0
    <3>1. {ids[m] : m \in 1..n} \ {0} = ({ids[m] : m \in 1..main.seen} \ {0}) \union {id}
      BY <1>4, <2>2
    <3>2. /\ DOMAIN results' = DOMAIN results \union {id} /\ results'[id] = n /\ ids[n] = id
          /\ \A i \in DOMAIN results : i # id => results'[i] = results[i]
      BY <1>1, <2>2
    <3>3. main'.pc = "start" /\ main'.seen = n /\ 1..main.seen \subseteq 1..n /\ n \in 1..n
      BY <1>3, <1>4, <1>5
    <3>4. DOMAIN results' = {ids[m] : m \in 1..n} \ {0}
      BY <1>2, <3>1, <3>2 DEF ChannelsKept
    <3>5. \A i \in DOMAIN results' : results'[i] \in 1..n /\ ids[results'[i]] = i
      <4> SUFFICES ASSUME NEW i \in DOMAIN results', i # id
                   PROVE  results'[i] \in 1..n /\ ids[results'[i]] = i
        BY <3>2, <3>3
      <4>1. i \in DOMAIN results /\ results'[i] = results[i]
        BY <3>2
      <4>2. results[i] \in 1..main.seen /\ ids[results[i]] = i
        BY <1>2, <4>1 DEF ChannelsKept
      <4> QED
        BY <3>3, <4>1, <4>2
    <3>6. ids' = ids
      BY <1>1
    <3> HIDE DEF n, id
    <3> QED
      BY <3>3, <3>4, <3>5, <3>6 DEF ChannelsKept
  <2> QED
    BY <2>1, <2>2
<1>11. FateKnown'
  BY <1>1, <1>5, <1>6 DEF FateKnown
<1>12. WorkersRight'
  <2> SUFFICES ASSUME NEW m \in Notices
               PROVE  /\ worker'[m].pc # "none" => m <= n /\ ids[m] # 0
                      /\ worker'[m].pc = "send" /\ worker'[m].ok => m \in accepted
    BY <1>1, <1>5 DEF WorkersRight
  <2>1. CASE m = n /\ id # 0
    <3>1. Worker("check", FALSE).pc = "check"
      BY WorkerValues
    <3>2. worker'[m] = Worker("check", FALSE)
      BY <1>7, <2>1
    <3>3. m <= n /\ ids[m] # 0
      BY <1>3, <2>1
    <3> QED
      BY <3>1, <3>2, <3>3
  <2>2. CASE ~(m = n /\ id # 0)
    <3>1. worker'[m] = worker[m]
      BY <1>7, <2>2
    <3>2. m \in Nat /\ (m <= main.seen => m <= n)
      BY <1>3 DEF Notices
    <3> HIDE DEF n, id
    <3> QED
      BY <1>2, <3>1, <3>2 DEF WorkersRight
  <2> QED
    BY <2>1, <2>2
<1>13. Delivered'
  BY <1>1, <1>6 DEF Delivered
<1> QED
  BY <1>9, <1>10, <1>11, <1>12, <1>13 DEF NotifyInv

(* The main goroutine goes on with the results.                            *)
LEMMA MainGoesOK ==
  ASSUME NotifyInv, main' \in MainType, main'.seen = main.seen,
         main.pc \in {"start", "wait"}, main'.pc \in {"wait", "answered"},
         main'.pc = "wait" /\ main.pc = "start" => main.seen = Len(ids),
         FateKnown', Delivered', worker' \in [Notices -> WorkerType],
         \A n \in Notices : worker'[n] = worker[n] \/ (worker[n].pc = "send" /\ worker'[n].pc = "done"),
         UNCHANGED <<ids, results, accepted>>,
         main.pc = "start" => main'.pc = "wait"
  PROVE  NotifyInv'
<1>1. NoticeTypes /\ ChannelsKept /\ WorkersRight
  BY DEF NotifyInv
<1>2. NoticeTypes'
  BY <1>1 DEF NoticeTypes
<1>3. ChannelsKept'
  BY <1>1 DEF ChannelsKept
<1>4. WorkersRight'
  BY <1>1 DEF WorkersRight
<1> QED
  BY <1>2, <1>3, <1>4 DEF NotifyInv

LEMMA AllStartedOK ==
  ASSUME NotifyInv, AllStarted
  PROVE  NotifyInv'
<1>1. /\ main.pc = "start" /\ main.seen = Len(ids) /\ main' = [main EXCEPT !.pc = "wait"]
      /\ todo' = DOMAIN results
      /\ UNCHANGED <<ids, worker, results, sent, unsent, timedOut, accepted>>
  BY DEF AllStarted
<1>2. NoticeTypes /\ FateKnown /\ Delivered
  BY DEF NotifyInv
<1>3. main' \in MainType /\ main'.pc = "wait" /\ main'.seen = main.seen /\ main'.id = main.id
  <2>1. main \in MainType
    BY <1>2 DEF NoticeTypes
  <2> QED
    BY <1>1, <2>1, MainAt
<1>4. 0 \notin DOMAIN results
  BY NoticeFacts
<1>5. FateKnown'
  BY <1>1, <1>2, <1>3, <1>4 DEF FateKnown
<1>6. Delivered'
  BY <1>1, <1>2 DEF Delivered
<1> QED
  BY <1>1, <1>2, <1>3, <1>5, <1>6, MainGoesOK DEF NoticeTypes

LEMMA WaitForOK ==
  ASSUME NotifyInv, NEW id \in Ids, WaitFor(id)
  PROVE  NotifyInv'
<1>1. /\ main.pc = "wait" /\ main.id = 0 /\ id \in todo
      /\ main' = [main EXCEPT !.id = id] /\ todo' = todo \ {id}
      /\ UNCHANGED <<ids, worker, results, sent, unsent, timedOut, accepted>>
  BY DEF WaitFor
<1>2. NoticeTypes /\ FateKnown /\ Delivered
  BY DEF NotifyInv
<1>3. main' \in MainType /\ main'.pc = "wait" /\ main'.seen = main.seen /\ main'.id = id
  <2>1. main \in MainType
    BY <1>2 DEF NoticeTypes
  <2> QED
    BY <1>1, <2>1, MainFor
<1>4. id # 0
  BY NotifyAssumption
<1>5. FateKnown'
  BY <1>1, <1>2, <1>3, <1>4 DEF FateKnown
<1>6. Delivered'
  BY <1>1, <1>2 DEF Delivered
<1> QED
  BY <1>1, <1>2, <1>3, <1>5, <1>6, MainGoesOK DEF NoticeTypes

(* Two ids do not share a notice, so nothing changes for the other ones.   *)
LEMMA ReceiveOK ==
  ASSUME NotifyInv, Receive
  PROVE  NotifyInv'
<1>1. /\ main.pc = "wait" /\ main.id # 0 /\ worker[Awaited].pc = "send"
      /\ worker' = [worker EXCEPT ![Awaited].pc = "done"]
      /\ IF worker[Awaited].ok
           THEN sent' = sent \union {main.id} /\ unsent' = unsent
           ELSE unsent' = unsent \union {main.id} /\ sent' = sent
      /\ main' = [main EXCEPT !.id = 0]
      /\ UNCHANGED <<ids, results, todo, timedOut, accepted>>
  BY DEF Receive
<1>2. NoticeTypes /\ ChannelsKept /\ FateKnown /\ WorkersRight /\ Delivered
  BY DEF NotifyInv
<1>3. main' \in MainType /\ main'.pc = "wait" /\ main'.seen = main.seen /\ main'.id = 0
  <2>1. main \in MainType
    BY <1>2 DEF NoticeTypes
  <2> QED
    BY <1>1, <2>1, MainFor
<1>4. main.id \in DOMAIN results /\ main.id \notin sent \union unsent \union timedOut
  BY <1>1, <1>2 DEF FateKnown
<1>5. Awaited \in Notices /\ Awaited = results[main.id]
  BY <1>4, NoticeFacts DEF Awaited
<1>6. worker[Awaited] \in WorkerType
  BY <1>2, <1>5 DEF NoticeTypes
<1>7. /\ worker' \in [Notices -> WorkerType] /\ worker'[Awaited].pc = "done"
      /\ \A n \in Notices : n # Awaited => worker'[n] = worker[n]
  BY <1>1, <1>2, <1>5, <1>6, WorkerValues DEF NoticeTypes
<1>8. FateKnown'
  <2>1. sent' \union unsent' = sent \union unsent \union {main.id}
    BY <1>1
  <2>2. sent' \intersect unsent' = {}
    BY <1>1, <1>2, <1>4 DEF FateKnown
  <2>3. 0 \notin DOMAIN results
    BY NoticeFacts
  <2> QED
    BY <1>1, <1>2, <1>3, <1>4, <2>1, <2>2, <2>3 DEF FateKnown
<1>9. Delivered'
  <2>1. \A id \in sent' : results[id] \in accepted
    <3>1. worker[Awaited].ok => results[main.id] \in accepted
      BY <1>1, <1>2, <1>5 DEF WorkersRight
    <3> QED
      BY <1>1, <1>2, <3>1 DEF Delivered
  <2>2. \A id \in sent' \union unsent' : worker'[results[id]].pc = "done"
    <3> SUFFICES ASSUME NEW id \in sent \union unsent
                 PROVE  worker'[results[id]].pc = "done"
      BY <1>1, <1>5, <1>7
    <3>1. worker[results[id]].pc = "done" /\ id \in DOMAIN results
      BY <1>2 DEF Delivered, FateKnown
    <3>2. results[id] \in Notices
      BY <3>1, NoticeFacts
    <3> QED
      BY <1>7, <3>1, <3>2
  <2> QED
    BY <1>1, <2>1, <2>2 DEF Delivered
<1>10. \A n \in Notices :
         worker'[n] = worker[n] \/ (worker[n].pc = "send" /\ worker'[n].pc = "done")
  BY <1>1, <1>7
<1> QED
  BY <1>1, <1>3, <1>7, <1>8, <1>9, <1>10, MainGoesOK

LEMMA WaitTimeoutOK ==
  ASSUME NotifyInv, WaitTimeout
  PROVE  NotifyInv'
<1>1. /\ main.pc = "wait" /\ main.id # 0
      /\ timedOut' = timedOut \union {main.id} /\ main' = [main EXCEPT !.id = 0]
      /\ UNCHANGED <<ids, worker, results, todo, sent, unsent, accepted>>
  BY DEF WaitTimeout
<1>2. NoticeTypes /\ FateKnown /\ Delivered
  BY DEF NotifyInv
<1>3. main' \in MainType /\ main'.pc = "wait" /\ main'.seen = main.seen /\ main'.id = 0
  <2>1. main \in MainType
    BY <1>2 DEF NoticeTypes
  <2> QED
    BY <1>1, <2>1, MainFor
<1>4. 0 \notin DOMAIN results
  BY NoticeFacts
<1>5. FateKnown'
  <2>1. main.id \in DOMAIN results
    BY <1>1, <1>2 DEF FateKnown
  <2>2. main.id \notin todo \union sent \union unsent \union timedOut
    BY <1>2 DEF FateKnown
  <2>3. todo \union sent \union unsent \union timedOut' = DOMAIN results
    BY <1>1, <1>2 DEF FateKnown
  <2>4. /\ (sent \union unsent) \intersect timedOut' = {}
        /\ todo \intersect (sent \union unsent \union timedOut') = {}
    BY <1>1, <1>2, <2>2 DEF FateKnown
  <2>5. 0 \notin todo \union sent \union unsent \union timedOut'
    BY <1>4, <2>3
  <2>6. sent \intersect unsent = {}
    BY <1>2 DEF FateKnown
  <2> QED
    BY <1>1, <1>3, <2>3, <2>4, <2>5, <2>6 DEF FateKnown
<1>6. Delivered'
  BY <1>1, <1>2 DEF Delivered
<1> QED
  BY <1>1, <1>2, <1>3, <1>5, <1>6, MainGoesOK DEF NoticeTypes

LEMMA AnswerNotifyOK ==
  ASSUME NotifyInv, AnswerNotify
  PROVE  NotifyInv'
<1>1. /\ main.pc = "wait" /\ main.id = 0 /\ todo = {}
      /\ main' = [main EXCEPT !.pc = "answered"]
      /\ UNCHANGED <<ids, worker, results, todo, sent, unsent, timedOut, accepted>>
  BY DEF AnswerNotify
<1>2. NoticeTypes /\ FateKnown /\ Delivered
  BY DEF NotifyInv
<1>3. main' \in MainType /\ main'.pc = "answered" /\ main'.seen = main.seen /\ main'.id = 0
  <2>1. main \in MainType
    BY <1>2 DEF NoticeTypes
  <2> QED
    BY <1>1, <2>1, MainAt
<1>4. FateKnown'
  BY <1>1, <1>2, <1>3 DEF FateKnown
<1>5. Delivered'
  BY <1>1, <1>2 DEF Delivered
<1> QED
  BY <1>1, <1>2, <1>3, <1>4, <1>5, MainGoesOK DEF NoticeTypes

LEMMA NotifyStepOK == NotifyInv /\ [NotifyNext]_notifyVars => NotifyInv'
<1> SUFFICES ASSUME NotifyInv, [NotifyNext]_notifyVars PROVE NotifyInv'
  OBVIOUS
<1>1. CASE UNCHANGED notifyVars
  BY <1>1 DEF notifyVars, NotifyInv, NoticeTypes, ChannelsKept, FateKnown, WorkersRight, Delivered
<1>2. CASE NotifyWork
  BY <1>2, StartNoticeOK, AllStartedOK, ReceiveOK, WaitTimeoutOK, AnswerNotifyOK, WaitForOK
     DEF NotifyWork
<1>3. CASE \E n \in Notices : WorkerWork(n)
  BY <1>3, WorkerWorkOK
<1>4. CASE \E s \in BoundedSeq(Ids \union {0}, MaxNotices + 1) : Request(s)
  BY <1>4, RequestOK
<1> QED
  BY <1>1, <1>2, <1>3, <1>4 DEF NotifyNext

(* The inductive invariant of postNotify and its goroutines is one.        *)
THEOREM NotifyInvariant == NotifySpec => []NotifyInv
  BY NotifyInitOK, NotifyStepOK, PTL DEF NotifySpec

(* The answer of postNotify tells every id once, and as sent only what the *)
(* push API has accepted, for any number of notices with any ids, whatever *)
(* results come late.                                                      *)
THEOREM AnswerRightHolds == NotifySpec => []AnswerRight
<1>1. NotifyInv => AnswerRight
  <2> SUFFICES ASSUME NotifyInv PROVE AnswerRight
    OBVIOUS
  <2>1. FateKnown /\ Delivered /\ ChannelsKept
    BY DEF NotifyInv
  <2>2. main.pc = "answered" => sent \union unsent \union timedOut = ToSet(ids) \ {0}
    <3> SUFFICES ASSUME main.pc = "answered"
                 PROVE  sent \union unsent \union timedOut = ToSet(ids) \ {0}
      OBVIOUS
    <3>1. sent \union unsent \union timedOut = DOMAIN results
      BY <2>1 DEF FateKnown
    <3>2. 1..main.seen = DOMAIN ids
      BY <2>1, NoticeFacts DEF ChannelsKept
    <3>3. DOMAIN results = ToSet(ids) \ {0}
      BY <2>1, <3>2 DEF ChannelsKept, ToSet
    <3> QED
      BY <3>1, <3>3
  <2> QED
    BY <2>1, <2>2 DEF AnswerRight, FateKnown, Delivered
<1> QED
  BY <1>1, NotifyInvariant, PTL

(* After the answer a goroutine is stuck on its channel only if its notice *)
(* timed out or shared its id with a later one.                            *)
THEOREM LeaksExplainedHolds == NotifySpec => []LeaksExplained
<1>1. NotifyInv => LeaksExplained
  <2> SUFFICES ASSUME NotifyInv, NEW n \in DOMAIN ids, main.pc = "answered",
                      worker[n].pc = "send"
               PROVE  ids[n] \in timedOut \/ results[ids[n]] # n
    BY DEF LeaksExplained
  <2>1. FateKnown /\ Delivered /\ ChannelsKept /\ WorkersRight
    BY DEF NotifyInv
  <2>2. n \in Notices /\ n \in 1..main.seen
    BY <2>1, NoticeFacts DEF ChannelsKept
  <2>3. ids[n] # 0
    BY <2>1, <2>2 DEF WorkersRight
  <2>4. ids[n] \in sent \union unsent \union timedOut
    BY <2>1, <2>2, <2>3 DEF ChannelsKept, FateKnown
  <2> QED
    BY <2>1, <2>4 DEF Delivered
<1> QED
  BY <1>1, NotifyInvariant, PTL

-----------------------------------------------------------------------------
(* The list of comet servers.                                              *)
EventType == [kind : {"add", "del"}, node : Nodes]
WatcherType ==
  [pc : {"init", "watch", "wait", "stuck", "read", "compare", "delete"},
   todo : SUBSET Nodes, seen : SUBSET Nodes, gone : SUBSET Nodes]
HandlerType ==
  [pc : {"idle", "get", "put"}, node : Nodes \union {None}, addr : Nodes \union {None}]

ZkTypes ==
  /\ children \subseteq created /\ created \subseteq Nodes
  /\ watcher \in WatcherType
  /\ ch \in Seq(EventType)
  /\ handler \in HandlerType
  /\ faults \in Nat

(* The nodes the watcher has found and the handler has to add or has       *)
(* added.                                                                  *)
InHandler == IF handler.pc = "idle" THEN {} ELSE {handler.node}
Found == DOMAIN infoMap \union InHandler \union {n \in Nodes : Event("add", n) \in ToSet(ch)}

(* Nothing is found before it is created.                                  *)
FoundCreated ==
  /\ Found \subseteq created
  /\ \A e \in ToSet(ch) : e.node \in created
  /\ watcher.todo \union watcher.gone \subseteq created

(* Without failures the two goroutines are right about living nodes: they  *)
(* neither delete them nor miss their addresses, and a comparison covers   *)
(* all that were found.                                                    *)
LivingRight ==
  faults = 0 =>
    /\ watcher.gone \intersect children = {}
    /\ \A e \in ToSet(ch) : e.kind = "del" => e.node \notin children
    /\ \A n \in DOMAIN infoMap \intersect children : infoMap[n] = n
    /\ handler.pc = "put" => handler.addr = handler.node \/ handler.node \notin children
    /\ watcher.pc = "compare" => Found \intersect children \subseteq watcher.seen \union watcher.todo

ZkInv == ZkTypes /\ FoundCreated /\ LivingRight

LEMMA EventValues ==
  /\ \A k \in {"add", "del"}, n \in Nodes :
       Event(k, n) \in EventType /\ Event(k, n).kind = k /\ Event(k, n).node = n
  /\ \A e \in EventType :
       /\ e.kind \in {"add", "del"} /\ e.node \in Nodes
       /\ e.kind = "add" => e = Event("add", e.node)
  BY DEF Event, EventType

LEMMA WatcherComparing ==
  ASSUME NEW t, t \subseteq Nodes
  PROVE  /\ Watcher("compare", t, {}, {}) \in WatcherType
         /\ Watcher("compare", t, {}, {}).pc = "compare"
         /\ Watcher("compare", t, {}, {}).todo = t
         /\ Watcher("compare", t, {}, {}).gone = {}
  BY DEF Watcher, WatcherType

LEMMA WatcherDeleting ==
  ASSUME NEW g, g \subseteq Nodes
  PROVE  /\ Watcher("delete", {}, {}, g) \in WatcherType
         /\ Watcher("delete", {}, {}, g).pc = "delete"
         /\ Watcher("delete", {}, {}, g).todo = {}
         /\ Watcher("delete", {}, {}, g).gone = g
  BY DEF Watcher, WatcherType

LEMMA WatcherEmpty ==
  \A p \in {"init", "watch", "wait", "stuck", "read", "compare"} :
    /\ Watcher(p, {}, {}, {}) \in WatcherType
    /\ Watcher(p, {}, {}, {}).pc = p /\ Watcher(p, {}, {}, {}).todo = {}
    /\ Watcher(p, {}, {}, {}).seen = {} /\ Watcher(p, {}, {}, {}).gone = {}
  BY DEF Watcher, WatcherType

Compared(w, n) == [w EXCEPT !.todo = @ \ {n}, !.seen = @ \union {n}]

LEMMA ComparedValues ==
  ASSUME NEW w \in WatcherType, NEW n \in Nodes
  PROVE  /\ Compared(w, n) \in WatcherType /\ Compared(w, n).pc = w.pc
         /\ Compared(w, n).todo = w.todo \ {n} /\ Compared(w, n).seen = w.seen \union {n}
         /\ Compared(w, n).gone = w.gone
  BY DEF Compared, WatcherType

Deleting(w, n) == [w EXCEPT !.gone = @ \ {n}]

LEMMA DeletingValues ==
  ASSUME NEW w \in WatcherType, NEW n \in Nodes
  PROVE  /\ Deleting(w, n) \in WatcherType /\ Deleting(w, n).pc = w.pc
         /\ Deleting(w, n).todo = w.todo /\ Deleting(w, n).seen = w.seen
         /\ Deleting(w, n).gone = w.gone \ {n}
  BY DEF Deleting, WatcherType

Adding(n) == [HandlerIdle EXCEPT !.pc = "get", !.node = n]
ToPut(h, a) == [h EXCEPT !.pc = "put", !.addr = a]

LEMMA HandlerValues ==
  /\ HandlerIdle \in HandlerType /\ HandlerIdle.pc = "idle"
  /\ \A n \in Nodes : Adding(n) \in HandlerType /\ Adding(n).pc = "get" /\ Adding(n).node = n
  BY DEF HandlerIdle, Adding, HandlerType

LEMMA ToPutValues ==
  ASSUME NEW h \in HandlerType, NEW a \in Nodes \union {None}
  PROVE  /\ ToPut(h, a) \in HandlerType /\ ToPut(h, a).pc = "put"
         /\ ToPut(h, a).node = h.node /\ ToPut(h, a).addr = a
  BY DEF ToPut, HandlerType

LEMMA HandlerFields ==
  ASSUME NEW h \in HandlerType
  PROVE  /\ h.pc \in {"idle", "get", "put"}
         /\ h.node \in Nodes \union {None} /\ h.addr \in Nodes \union {None}
         /\ [h EXCEPT !.pc = "put"] \in HandlerType
         /\ [h EXCEPT !.pc = "put"].pc = "put" /\ [h EXCEPT !.pc = "put"].node = h.node
  BY DEF HandlerType

LEMMA ZkInitOK == ZkInit => ZkInv
<1> SUFFICES ASSUME ZkInit PROVE ZkInv
  OBVIOUS
<1>1. /\ children \subseteq Nodes /\ created = children
      /\ watcher = Watcher("init", {}, {}, {}) /\ ch = <<>> /\ handler = HandlerIdle
      /\ infoMap = <<>> /\ faults = 0
  BY DEF ZkInit
<1>2. /\ watcher \in WatcherType /\ watcher.pc = "init" /\ watcher.todo = {} /\ watcher.gone = {}
  BY <1>1, WatcherEmpty
<1>3. handler \in HandlerType /\ handler.pc = "idle"
  BY <1>1, HandlerValues
<1>4. ch \in Seq(EventType) /\ ToSet(ch) = {} /\ DOMAIN infoMap = {}
  BY <1>1 DEF ToSet
<1>5. ZkTypes
  BY <1>1, <1>2, <1>3, <1>4 DEF ZkTypes
<1>6. Found = {}
  BY <1>3, <1>4 DEF Found, InHandler
<1> QED
  BY <1>2, <1>3, <1>4, <1>5, <1>6 DEF ZkInv, FoundCreated, LivingRight

(* ZooKeeper: the name of a new node has never been seen.                  *)
LEMMA ZkRegisterOK ==
  ASSUME ZkInv, NEW n \in Nodes, Register(n)
  PROVE  ZkInv'
<1>1. /\ n \notin created /\ created' = created \union {n} /\ children' = children \union {n}
      /\ UNCHANGED <<watcher, ch, handler, infoMap, faults>>
  BY DEF Register, Change
<1>2. ZkTypes'
  BY <1>1 DEF ZkInv, ZkTypes
<1>3. Found' = Found
  BY <1>1 DEF Found, InHandler
<1>4. FoundCreated'
  BY <1>1, <1>3 DEF ZkInv, FoundCreated
<1>5. n \notin Found /\ n \notin watcher.gone /\ \A e \in ToSet(ch) : e.node # n
  BY <1>1 DEF ZkInv, FoundCreated
<1>6. n \notin DOMAIN infoMap /\ (handler.pc = "put" => handler.node # n)
  BY <1>5 DEF Found, InHandler
<1>7. LivingRight'
  BY <1>1, <1>3, <1>5, <1>6 DEF ZkInv, LivingRight
<1> QED
  BY <1>2, <1>4, <1>7 DEF ZkInv

LEMMA ExpireOK ==
  ASSUME ZkInv, NEW n \in Nodes, Expire(n)
  PROVE  ZkInv'
<1>1. /\ children' = children \ {n}
      /\ UNCHANGED <<created, watcher, ch, handler, infoMap, faults>>
  BY DEF Expire, Change
<1>2. ZkTypes'
  BY <1>1 DEF ZkInv, ZkTypes
<1>3. Found' = Found
  BY <1>1 DEF Found, InHandler
<1>4. FoundCreated'
  BY <1>1, <1>3 DEF ZkInv, FoundCreated
<1>5. LivingRight'
  BY <1>1, <1>3 DEF ZkInv, LivingRight
<1> QED
  BY <1>2, <1>4, <1>5 DEF ZkInv

(* The watcher.  Where it only goes on, nothing changes.                   *)
LEMMA WatcherGoesOK ==
  ASSUME ZkInv, NEW p \in {"watch", "wait", "stuck", "read"},
         watcher' = Watcher(p, {}, {}, {}),
         UNCHANGED <<children, created, ch, handler, infoMap>>,
         faults' \in {faults, faults + 1}
  PROVE  ZkInv'
<1>1. /\ watcher' \in WatcherType /\ watcher'.pc = p /\ watcher'.todo = {} /\ watcher'.gone = {}
  BY WatcherEmpty
<1>2. ZkTypes'
  BY <1>1 DEF ZkInv, ZkTypes
<1>3. Found' = Found
  BY DEF Found, InHandler
<1>4. FoundCreated'
  BY <1>1, <1>3 DEF ZkInv, FoundCreated
<1>5. faults' = 0 => faults = 0
  BY DEF ZkInv, ZkTypes
<1>6. LivingRight'
  BY <1>1, <1>5 DEF ZkInv, LivingRight
<1> QED
  BY <1>2, <1>4, <1>6 DEF ZkInv

LEMMA ReadInitialOK ==
  ASSUME ZkInv, ReadInitial
  PROVE  ZkInv'
<1>1. /\ watcher' = Watcher("watch", {}, {}, {})
      /\ UNCHANGED <<children, created, handler, infoMap>>
  BY DEF ReadInitial, zookeeper
<1>2. CASE Fault /\ UNCHANGED ch
  BY <1>1, <1>2, WatcherGoesOK DEF Fault
<1>3. ASSUME NEW s \in SetToSeqs(children),
             ch' = [i \in DOMAIN s |-> Event("add", s[i])], faults' = faults
      PROVE  ZkInv'
  <2>1. children \subseteq created /\ created \subseteq Nodes
    BY DEF ZkInv, ZkTypes
  <2>2. Cardinality(children) \in Nat
    <3>1. IsFiniteSet(children)
      BY <2>1, NodesAssumption, FS_Subset
    <3> QED
      BY <3>1, FS_CardinalityType
  <2>3. s \in [1..Cardinality(children) -> children]
    BY DEF SetToSeqs
  <2>4. \A i \in DOMAIN s : s[i] \in children /\ s[i] \in Nodes
    BY <2>1, <2>3
  <2>5. ch' \in [1..Cardinality(children) -> EventType]
    BY <1>3, <2>3, <2>4, EventValues
  <2>6. ch' \in Seq(EventType)
    BY <2>2, <2>5, IsASeq
  <2>7. \A e \in ToSet(ch') : e.kind = "add" /\ e.node \in children
    BY <1>3, <2>4, EventValues DEF ToSet
  <2>8. Found' \subseteq Found \union children
    <3>1. InHandler' = InHandler
      BY <1>1 DEF InHandler
    <3>2. \A n \in Nodes : Event("add", n) \in ToSet(ch') => n \in children
      BY <2>7, EventValues
    <3> QED
      BY <1>1, <3>1, <3>2 DEF Found
  <2>9. /\ watcher' \in WatcherType /\ watcher'.pc = "watch" /\ watcher'.todo = {} /\ watcher'.gone = {}
    BY <1>1, WatcherEmpty
  <2>10. ZkTypes'
    BY <1>1, <1>3, <2>6, <2>9 DEF ZkInv, ZkTypes
  <2>11. FoundCreated'
    BY <1>1, <2>1, <2>7, <2>8, <2>9 DEF ZkInv, FoundCreated
  <2>12. LivingRight'
    BY <1>1, <1>3, <2>7, <2>9 DEF ZkInv, LivingRight
  <2> QED
    BY <2>10, <2>11, <2>12 DEF ZkInv
<1> QED
  BY <1>2, <1>3 DEF ReadInitial

(* All that was found before was a child then, or is none any more.        *)
LEMMA ReadChildrenOK ==
  ASSUME ZkInv, ReadChildren
  PROVE  ZkInv'
<1>1. UNCHANGED <<children, created, ch, handler, infoMap>>
  BY DEF ReadChildren, zookeeper
<1>2. children \subseteq created /\ created \subseteq Nodes /\ faults \in Nat
  BY DEF ZkInv, ZkTypes
<1>3. \/ watcher' = Watcher("compare", children, {}, {}) /\ faults' = faults
      \/ watcher' = Watcher("compare", {}, {}, {}) /\ faults' = faults + 1
  BY DEF ReadChildren, Fault
<1>4. /\ watcher' \in WatcherType /\ watcher'.gone = {} /\ watcher'.todo \subseteq children
      /\ faults' = 0 => watcher'.todo = children
      /\ faults' \in Nat /\ (faults' = 0 => faults = 0)
  <2>1. CASE watcher' = Watcher("compare", children, {}, {}) /\ faults' = faults
    <3>1. children \subseteq Nodes /\ {} \subseteq Nodes
      BY <1>2
    <3>2. /\ Watcher("compare", children, {}, {}) \in WatcherType
          /\ Watcher("compare", children, {}, {}).todo = children
          /\ Watcher("compare", children, {}, {}).gone = {}
      BY <3>1, WatcherComparing
    <3> QED
      BY <1>2, <2>1, <3>2
  <2>2. CASE watcher' = Watcher("compare", {}, {}, {}) /\ faults' = faults + 1
    <3>1. faults' # 0 /\ faults' \in Nat
      BY <1>2, <2>2
    <3>2. watcher' \in WatcherType /\ watcher'.gone = {} /\ watcher'.todo = {}
      BY <2>2, WatcherEmpty
    <3> QED
      BY <3>1, <3>2
  <2> QED
    BY <1>3, <2>1, <2>2
<1>5. ZkTypes'
  BY <1>1, <1>4 DEF ZkInv, ZkTypes
<1>6. Found' = Found
  BY <1>1 DEF Found, InHandler
<1>7. FoundCreated'
  BY <1>1, <1>2, <1>4, <1>6 DEF ZkInv, FoundCreated
<1>8. LivingRight'
  BY <1>1, <1>4 DEF ZkInv, LivingRight
<1> QED
  BY <1>5, <1>7, <1>8 DEF ZkInv

LEMMA CompareOK ==
  ASSUME ZkInv, NEW n \in Nodes, Compare(n)
  PROVE  ZkInv'
<1>1. /\ watcher.pc = "compare" /\ n \in watcher.todo
      /\ ch' = IF n \in DOMAIN infoMap THEN ch ELSE Append(ch, Event("add", n))
      /\ watcher' = Compared(watcher, n)
      /\ UNCHANGED <<children, created, handler, infoMap, faults>>
  BY DEF Compare, Compared, zookeeper
<1>2. ZkTypes /\ FoundCreated /\ LivingRight
  BY DEF ZkInv
<1>3. watcher \in WatcherType /\ ch \in Seq(EventType)
  BY <1>2 DEF ZkTypes
<1>4. /\ watcher' \in WatcherType /\ watcher'.pc = watcher.pc
      /\ watcher'.todo = watcher.todo \ {n} /\ watcher'.seen = watcher.seen \union {n}
      /\ watcher'.gone = watcher.gone
  BY <1>1, <1>3, ComparedValues
<1>5. Event("add", n) \in EventType /\ Event("add", n).kind = "add" /\ Event("add", n).node = n
  BY EventValues
<1>6. ch' \in Seq(EventType) /\ ToSet(ch') \subseteq ToSet(ch) \union {Event("add", n)}
  BY <1>1, <1>3, <1>5, ToSetAppend
<1>7. Found' \subseteq Found \union {n}
  <2>1. InHandler' = InHandler
    BY <1>1 DEF InHandler
  <2>2. \A m \in Nodes : Event("add", m) = Event("add", n) => m = n
    BY EventValues
  <2> QED
    BY <1>1, <1>6, <2>1, <2>2 DEF Found
<1>8. n \in created
  BY <1>1, <1>2 DEF FoundCreated
<1>9. ZkTypes'
  BY <1>1, <1>2, <1>4, <1>6 DEF ZkTypes
<1>10. FoundCreated'
  BY <1>1, <1>2, <1>4, <1>5, <1>6, <1>7, <1>8 DEF FoundCreated
<1>11. LivingRight'
  BY <1>1, <1>2, <1>4, <1>5, <1>6, <1>7 DEF LivingRight
<1> QED
  BY <1>9, <1>10, <1>11 DEF ZkInv

LEMMA FindDeletedOK ==
  ASSUME ZkInv, FindDeleted
  PROVE  ZkInv'
<1>1. /\ watcher.pc = "compare" /\ watcher.todo = {}
      /\ watcher' = Watcher("delete", {}, {}, DOMAIN infoMap \ watcher.seen)
      /\ UNCHANGED <<children, created, ch, handler, infoMap, faults>>
  BY DEF FindDeleted, zookeeper
<1>2. ZkTypes /\ FoundCreated /\ LivingRight
  BY DEF ZkInv
<1>3. DOMAIN infoMap \subseteq Found /\ Found \subseteq created /\ created \subseteq Nodes
  BY <1>2 DEF Found, FoundCreated, ZkTypes
<1>4. /\ watcher' \in WatcherType /\ watcher'.pc = "delete" /\ watcher'.todo = {}
      /\ watcher'.gone = DOMAIN infoMap \ watcher.seen
  <2>1. {} \subseteq Nodes /\ DOMAIN infoMap \ watcher.seen \subseteq Nodes
    BY <1>3
  <2> QED
    BY <1>1, <2>1, WatcherDeleting
<1>5. ZkTypes'
  BY <1>1, <1>2, <1>4 DEF ZkTypes
<1>6. Found' = Found
  BY <1>1 DEF Found, InHandler
<1>7. FoundCreated'
  BY <1>1, <1>2, <1>3, <1>4, <1>6 DEF FoundCreated
<1>8. LivingRight'
  BY <1>1, <1>2, <1>3, <1>4 DEF LivingRight
<1> QED
  BY <1>5, <1>7, <1>8 DEF ZkInv

LEMMA SendDeleteOK ==
  ASSUME ZkInv, NEW n \in Nodes, SendDelete(n)
  PROVE  ZkInv'
<1>1. /\ watcher.pc = "delete" /\ n \in watcher.gone
      /\ ch' = Append(ch, Event("del", n))
      /\ watcher' = Deleting(watcher, n)
      /\ UNCHANGED <<children, created, handler, infoMap, faults>>
  BY DEF SendDelete, Deleting, zookeeper
<1>2. ZkTypes /\ FoundCreated /\ LivingRight
  BY DEF ZkInv
<1>3. watcher \in WatcherType /\ ch \in Seq(EventType)
  BY <1>2 DEF ZkTypes
<1>4. /\ watcher' \in WatcherType /\ watcher'.pc = watcher.pc
      /\ watcher'.todo = watcher.todo /\ watcher'.gone = watcher.gone \ {n}
  BY <1>1, <1>3, DeletingValues
<1>5. Event("del", n) \in EventType /\ Event("del", n).kind = "del" /\ Event("del", n).node = n
  BY EventValues
<1>6. ch' \in Seq(EventType) /\ ToSet(ch') = ToSet(ch) \union {Event("del", n)}
  BY <1>1, <1>3, <1>5, ToSetAppend
<1>7. Found' = Found
  <2>1. InHandler' = InHandler
    BY <1>1 DEF InHandler
  <2>2. \A m \in Nodes : Event("add", m) # Event("del", n)
    BY EventValues
  <2> QED
    BY <1>1, <1>6, <2>1, <2>2 DEF Found
<1>8. n \in created
  BY <1>1, <1>2 DEF FoundCreated
<1>9. ZkTypes'
  BY <1>1, <1>2, <1>4, <1>6 DEF ZkTypes
<1>10. FoundCreated'
  BY <1>1, <1>2, <1>4, <1>5, <1>6, <1>7, <1>8 DEF FoundCreated
<1>11. LivingRight'
  BY <1>1, <1>2, <1>4, <1>5, <1>6 DEF LivingRight
<1> QED
  BY <1>9, <1>10, <1>11 DEF ZkInv

LEMMA WatcherStepOK ==
  ASSUME ZkInv, WatcherStep
  PROVE  ZkInv'
<1>1. CASE ReadInitial
  BY <1>1, ReadInitialOK
<1>2. CASE SetWatch
  BY <1>2, WatcherGoesOK DEF SetWatch
<1>3. CASE SetWatchFails
  BY <1>3, WatcherGoesOK DEF SetWatchFails, Fault, zookeeper
<1>4. CASE WatchFires
  BY <1>4, WatcherGoesOK DEF WatchFires
<1>5. CASE ReadChildren
  BY <1>5, ReadChildrenOK
<1>6. CASE \E n \in Nodes : Compare(n) \/ SendDelete(n)
  BY <1>6, CompareOK, SendDeleteOK
<1>7. CASE FindDeleted
  BY <1>7, FindDeletedOK
<1>8. CASE DeletedAll
  BY <1>8, WatcherGoesOK DEF DeletedAll, zookeeper
<1> QED
  BY <1>1, <1>2, <1>3, <1>4, <1>5, <1>6, <1>7, <1>8 DEF WatcherStep

(* The handler.  It works on what was found before.                        *)
LEMMA HandlerKeeps ==
  ASSUME ZkInv, UNCHANGED <<children, created, watcher>>,
         ch' \in Seq(EventType), ToSet(ch') \subseteq ToSet(ch), handler' \in HandlerType,
         Found' \subseteq Found,
         faults' \in Nat, faults' = 0 => faults = 0,
         faults' = 0 => \A n \in DOMAIN infoMap' \intersect children : infoMap'[n] = n,
         faults' = 0 /\ handler'.pc = "put" =>
           handler'.addr = handler'.node \/ handler'.node \notin children
  PROVE  ZkInv'
<1>1. ZkTypes'
  BY DEF ZkInv, ZkTypes
<1>2. FoundCreated'
  BY DEF ZkInv, FoundCreated
<1>3. LivingRight'
  BY DEF ZkInv, LivingRight
<1> QED
  BY <1>1, <1>2, <1>3 DEF ZkInv

LEMMA NextEvent ==
  ASSUME ZkInv, ch # <<>>, ch' = Tail(ch)
  PROVE  /\ Head(ch) \in EventType /\ Head(ch) \in ToSet(ch)
         /\ ch' \in Seq(EventType) /\ ToSet(ch') \subseteq ToSet(ch)
  BY ToSetTail DEF ZkInv, ZkTypes

LEMMA HandleDeleteOK ==
  ASSUME ZkInv, HandleDelete
  PROVE  ZkInv'
<1>1. /\ ch # <<>> /\ ch' = Tail(ch)
      /\ infoMap' = [n \in DOMAIN infoMap \ {Head(ch).node} |-> infoMap[n]]
      /\ UNCHANGED <<children, created, watcher, handler, faults>>
  BY DEF HandleDelete, zookeeper
<1>2. ZkTypes /\ LivingRight
  BY DEF ZkInv
<1>3. ch' \in Seq(EventType) /\ ToSet(ch') \subseteq ToSet(ch)
  BY <1>1, NextEvent
<1>4. DOMAIN infoMap' \subseteq DOMAIN infoMap /\ \A n \in DOMAIN infoMap' : infoMap'[n] = infoMap[n]
  BY <1>1
<1>5. Found' \subseteq Found
  BY <1>1, <1>3, <1>4 DEF Found, InHandler
<1>6. faults = 0 => \A n \in DOMAIN infoMap' \intersect children : infoMap'[n] = n
  BY <1>2, <1>4 DEF LivingRight
<1>7. /\ handler \in HandlerType /\ faults \in Nat
      /\ faults = 0 /\ handler.pc = "put" =>
           handler.addr = handler.node \/ handler.node \notin children
  BY <1>2 DEF ZkTypes, LivingRight
<1> QED
  BY <1>1, <1>3, <1>5, <1>6, <1>7, HandlerKeeps

LEMMA ReceiveAddOK ==
  ASSUME ZkInv, ReceiveAdd
  PROVE  ZkInv'
<1>1. /\ handler.pc = "idle" /\ ch # <<>> /\ Head(ch).kind = "add" /\ ch' = Tail(ch)
      /\ handler' = Adding(Head(ch).node)
      /\ UNCHANGED <<children, created, watcher, infoMap, faults>>
  BY DEF ReceiveAdd, Adding, zookeeper
<1>2. ZkTypes /\ LivingRight
  BY DEF ZkInv
<1>3. /\ Head(ch) \in EventType /\ Head(ch) \in ToSet(ch)
      /\ ch' \in Seq(EventType) /\ ToSet(ch') \subseteq ToSet(ch)
  BY <1>1, NextEvent
<1>4. Head(ch).node \in Nodes /\ Head(ch) = Event("add", Head(ch).node)
  BY <1>1, <1>3, EventValues
<1>5. /\ handler' \in HandlerType /\ handler'.pc = "get" /\ handler'.node = Head(ch).node
  BY <1>1, <1>4, HandlerValues
<1>6. Found' \subseteq Found
  <2>1. InHandler' = {Head(ch).node}
    BY <1>5 DEF InHandler
  <2>2. Head(ch).node \in Found
    BY <1>3, <1>4 DEF Found
  <2> QED
    BY <1>1, <1>3, <2>1, <2>2 DEF Found
<1>7. /\ faults \in Nat
      /\ faults = 0 => \A n \in DOMAIN infoMap \intersect children : infoMap[n] = n
  BY <1>2 DEF ZkTypes, LivingRight
<1> QED
  BY <1>1, <1>3, <1>5, <1>6, <1>7, HandlerKeeps

LEMMA GetAddrOK ==
  ASSUME ZkInv, GetAddr
  PROVE  ZkInv'
<1> DEFINE addr == IF handler.node \in children THEN handler.node ELSE None
<1>1. /\ handler.pc = "get"
      /\ \/ handler' = ToPut(handler, addr) /\ faults' = faults
         \/ handler' = [handler EXCEPT !.pc = "put"] /\ faults' = faults + 1
      /\ UNCHANGED <<children, created, watcher, ch, infoMap>>
  BY DEF GetAddr, Fault, ToPut, zookeeper
<1>2. ZkTypes /\ LivingRight
  BY DEF ZkInv
<1>3. handler \in HandlerType /\ faults \in Nat /\ ch \in Seq(EventType)
  BY <1>2 DEF ZkTypes
<1>4. addr \in Nodes \union {None} /\ (addr = handler.node \/ handler.node \notin children)
  BY <1>3, HandlerFields
<1> HIDE DEF addr
<1>5. /\ handler' \in HandlerType /\ handler'.pc = "put" /\ handler'.node = handler.node
      /\ faults' \in Nat /\ (faults' = 0 => faults = 0 /\ handler'.addr = addr)
  <2>1. CASE handler' = ToPut(handler, addr) /\ faults' = faults
    BY <1>3, <1>4, <2>1, ToPutValues
  <2>2. CASE handler' = [handler EXCEPT !.pc = "put"] /\ faults' = faults + 1
    <3>1. faults' # 0 /\ faults' \in Nat
      BY <1>3, <2>2
    <3> QED
      BY <1>3, <2>2, <3>1, HandlerFields
  <2> QED
    BY <1>1, <2>1, <2>2
<1>6. Found' \subseteq Found
  <2>1. InHandler' = InHandler
    BY <1>1, <1>5 DEF InHandler
  <2> QED
    BY <1>1, <2>1 DEF Found
<1>7. faults = 0 => \A n \in DOMAIN infoMap \intersect children : infoMap[n] = n
  BY <1>2 DEF LivingRight
<1> QED
  BY <1>1, <1>3, <1>4, <1>5, <1>6, <1>7, HandlerKeeps

LEMMA PutNodeOK ==
  ASSUME ZkInv, PutNode
  PROVE  ZkInv'
<1>1. /\ handler.pc = "put" /\ handler' = HandlerIdle
      /\ infoMap' = [n \in DOMAIN infoMap \union {handler.node} |->
                       IF n = handler.node THEN handler.addr ELSE infoMap[n]]
      /\ UNCHANGED <<children, created, watcher, ch, faults>>
  BY DEF PutNode, zookeeper
<1>2. ZkTypes /\ LivingRight
  BY DEF ZkInv
<1>3. handler' \in HandlerType /\ handler'.pc = "idle"
  BY <1>1, HandlerValues
<1>4. Found' \subseteq Found
  <2>1. InHandler' = {} /\ InHandler = {handler.node}
    BY <1>1, <1>3 DEF InHandler
  <2>2. DOMAIN infoMap' = DOMAIN infoMap \union {handler.node}
    BY <1>1
  <2> QED
    BY <1>1, <2>1, <2>2 DEF Found
<1>5. faults = 0 => \A n \in DOMAIN infoMap' \intersect children : infoMap'[n] = n
  BY <1>1, <1>2 DEF LivingRight
<1>6. faults \in Nat /\ ch \in Seq(EventType)
  BY <1>2 DEF ZkTypes
<1> QED
  BY <1>1, <1>3, <1>4, <1>5, <1>6, HandlerKeeps

LEMMA ZkStepOK == ZkInv /\ [ZkNext]_zkVars => ZkInv'
<1> SUFFICES ASSUME ZkInv, [ZkNext]_zkVars PROVE ZkInv'
  OBVIOUS
<1>1. CASE UNCHANGED zkVars
  BY <1>1 DEF zkVars, zookeeper, ZkInv, ZkTypes, FoundCreated, LivingRight, Found, InHandler
<1>2. CASE ZooKeeperStep
  BY <1>2, ZkRegisterOK, ExpireOK DEF ZooKeeperStep
<1>3. CASE WatcherStep
  BY <1>3, WatcherStepOK
<1>4. CASE HandlerStep
  BY <1>4, HandleDeleteOK, ReceiveAddOK, GetAddrOK, PutNodeOK DEF HandlerStep
<1>5. CASE OtherEvent
  BY <1>5, WatcherGoesOK DEF OtherEvent
<1> QED
  BY <1>1, <1>2, <1>3, <1>4, <1>5 DEF ZkNext

(* As long as no call of ZooKeeper fails, watchCometRoot and               *)
(* handleCometNodeEvent never take a living server out of the list, and    *)
(* the list has its address: for any number of servers and any capacity of *)
(* the channel between them, however their steps interleave.               *)
THEOREM LivingStayHolds == ZkSpec => []LivingStay
<1>1. ZkInv => LivingStay
  <2> SUFFICES ASSUME ZkInv, faults = 0
               PROVE  /\ watcher.gone \intersect children = {}
                      /\ \A i \in DOMAIN ch : ch[i].kind = "del" => ch[i].node \notin children
                      /\ \A n \in DOMAIN infoMap \intersect children : infoMap[n] = n
    BY DEF LivingStay
  <2>1. \A i \in DOMAIN ch : ch[i] \in ToSet(ch)
    BY DEF ToSet
  <2> QED
    BY <2>1 DEF ZkInv, LivingRight
<1> QED
  BY <1>1, ZkInitOK, ZkStepOK, PTL DEF ZkSpec

=============================================================================
