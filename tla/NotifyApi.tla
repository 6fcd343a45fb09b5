----------------------------- MODULE NotifyApi ------------------------------
(***************************************************************************)
(* A request to the notify service (notify.go): for each of its notices a  *)
(* goroutine asks the subscription service for users and the push API to   *)
(* push to them, and postNotify collects the results, each through a       *)
(* channel without buffer and with a timeout of its own, and answers which *)
(* notices were sent.                                                      *)
(***************************************************************************)
EXTENDS Naturals, Sequences, SequencesExt, FiniteSets

CONSTANTS
  MaxNotices,  \* conf.Config.Notify.MaxNotices
  Ids          \* ids of notices, 0 excepted

ASSUME NotifyAssumption == MaxNotices \in Nat /\ 0 \notin Ids

VARIABLES
  ids,       \* the ids of the request's notices, in order; 0 is no id
  main,      \* postNotify: where it is, notices seen, id it waits for
  worker,    \* the goroutine of each notice: where it is, and its result
  results,   \* id -> the notice whose channel is kept
  todo,      \* ids in results not waited for yet
  sent,      \* the answer: ids sent, ...
  unsent,    \* ... ids with an error, ...
  timedOut,  \* ... and ids without result in time
  accepted,  \* notices the push API has accepted
  panicked   \* the process has ended

notifyVars ==
  <<ids, main, worker, results, todo, sent, unsent, timedOut, accepted, panicked>>

-----------------------------------------------------------------------------
Notices == 1..MaxNotices

Worker(pc, ok) == [pc |-> pc, ok |-> ok]

NotifyInit ==
  /\ ids = <<>>
  /\ main = [pc |-> "idle", seen |-> 0, id |-> 0]
  /\ worker = [n \in Notices |-> Worker("none", FALSE)]
  /\ results = <<>>
  /\ todo = {} /\ sent = {} /\ unsent = {} /\ timedOut = {} /\ accepted = {}
  /\ panicked = FALSE

(* The goroutine of a notice goes on; with its result it waits to send.    *)
WorkerGoes(n, from, w) ==
  /\ ~panicked
  /\ worker[n].pc = from
  /\ worker' = [worker EXCEPT ![n] = w]
  /\ UNCHANGED <<ids, main, results, todo, sent, unsent, timedOut>>

(* postNotify waits for the result of the notice kept for main.id.         *)
Awaited == results[main.id]

-----------------------------------------------------------------------------
(* Wrong variants of definitions, each a mistake one could make in the     *)
(* code; none is part of the specification.                                *)

(* The first error ends the request. *)
ReceiveErrorEnds ==
  /\ ~panicked /\ main.pc = "wait" /\ main.id # 0
  /\ worker[Awaited].pc = "send"
  /\ worker' = [worker EXCEPT ![Awaited].pc = "done"]
  /\ IF worker[Awaited].ok
       THEN sent' = sent \union {main.id} /\ UNCHANGED <<unsent, todo>>
       ELSE unsent' = unsent \union {main.id} /\ todo' = {} /\ UNCHANGED sent
  /\ main' = [main EXCEPT !.id = 0]
  /\ UNCHANGED <<ids, results, timedOut, accepted, panicked>>

(* A refused push counts as sent. *)
PushRefusedSent(n) ==
  /\ WorkerGoes(n, "push", Worker("send", TRUE))
  /\ UNCHANGED <<accepted, panicked>>

(* The wait has no timeout. *)
WaitTimeoutNever == FALSE /\ UNCHANGED notifyVars

-----------------------------------------------------------------------------
(* A request with no more notices than the limit comes in.                 *)
Request(s) ==
  /\ main.pc = "idle" /\ Len(s) <= MaxNotices
  /\ ids' = s
  /\ main' = [main EXCEPT !.pc = "start"]
  /\ UNCHANGED <<worker, results, todo, sent, unsent, timedOut, accepted, panicked>>

(* postNotify: the next notice gets a goroutine and a channel, unless it   *)
(* has no id.                                                              *)
StartNotice ==
  LET n == main.seen + 1
      id == ids[n]
  IN /\ ~panicked /\ main.pc = "start" /\ n \in DOMAIN ids
     /\ main' = [main EXCEPT !.seen = n]
     /\ IF id = 0 THEN UNCHANGED <<worker, results>>
        ELSE /\ worker' = [worker EXCEPT ![n] = Worker("check", FALSE)]
             /\ results' = [i \in DOMAIN results \union {id} |->
                              IF i = id THEN n ELSE results[i]]
     /\ UNCHANGED <<ids, todo, sent, unsent, timedOut, accepted, panicked>>

AllStarted ==
  /\ ~panicked /\ main.pc = "start" /\ main.seen = Len(ids)
  /\ main' = [main EXCEPT !.pc = "wait"]
  /\ todo' = DOMAIN results
  /\ UNCHANGED <<ids, worker, results, sent, unsent, timedOut, accepted, panicked>>

(* The range over results is in no particular order.                       *)
WaitFor(id) ==
  /\ ~panicked /\ main.pc = "wait" /\ main.id = 0 /\ id \in todo
  /\ main' = [main EXCEPT !.id = id]
  /\ todo' = todo \ {id}
  /\ UNCHANGED <<ids, worker, results, sent, unsent, timedOut, accepted, panicked>>

Receive ==
  /\ ~panicked /\ main.pc = "wait" /\ main.id # 0
  /\ worker[Awaited].pc = "send"
  /\ worker' = [worker EXCEPT ![Awaited].pc = "done"]
  /\ IF worker[Awaited].ok
       THEN sent' = sent \union {main.id} /\ UNCHANGED unsent
       ELSE unsent' = unsent \union {main.id} /\ UNCHANGED sent
  /\ main' = [main EXCEPT !.id = 0]
  /\ UNCHANGED <<ids, results, todo, timedOut, accepted, panicked>>

(* The goroutine goes on, and will find nobody who receives its result.    *)
WaitTimeout ==
  /\ ~panicked /\ main.pc = "wait" /\ main.id # 0
  /\ timedOut' = timedOut \union {main.id}
  /\ main' = [main EXCEPT !.id = 0]
  /\ UNCHANGED <<ids, worker, results, todo, sent, unsent, accepted, panicked>>

AnswerNotify ==
  /\ ~panicked /\ main.pc = "wait" /\ main.id = 0 /\ todo = {}
  /\ main' = [main EXCEPT !.pc = "answered"]
  /\ UNCHANGED <<ids, worker, results, todo, sent, unsent, timedOut, accepted, panicked>>

-----------------------------------------------------------------------------
(* The goroutine of a notice.  checkNotice: something may be missing.      *)
CheckNotice(n) ==
  /\ \/ WorkerGoes(n, "check", Worker("uids", FALSE))
     \/ WorkerGoes(n, "check", Worker("send", FALSE))
  /\ UNCHANGED <<accepted, panicked>>

(* The subscription service answers with users, or with an error.          *)
GetUids(n) ==
  /\ \/ WorkerGoes(n, "uids", Worker("push", FALSE))
     \/ WorkerGoes(n, "uids", Worker("send", FALSE))
  /\ UNCHANGED <<accepted, panicked>>

(* It answers without data: the type assertion in getUids panics.          *)
GetUidsPanics(n) ==
  /\ WorkerGoes(n, "uids", Worker("done", FALSE))
  /\ panicked' = TRUE
  /\ UNCHANGED accepted

(* The push API accepts the message; its answer may be lost.               *)
PushNotice(n) ==
  /\ \/ WorkerGoes(n, "push", Worker("send", TRUE))
     \/ WorkerGoes(n, "push", Worker("send", FALSE))
  /\ accepted' = accepted \union {n}
  /\ UNCHANGED panicked

PushRefused(n) ==
  /\ WorkerGoes(n, "push", Worker("send", FALSE))
  /\ UNCHANGED <<accepted, panicked>>

NotifyWork ==
  \/ StartNotice \/ AllStarted \/ Receive \/ WaitTimeout \/ AnswerNotify
  \/ \E id \in Ids : WaitFor(id)

WorkerWork(n) ==
  \/ CheckNotice(n) \/ GetUids(n) \/ GetUidsPanics(n) \/ PushNotice(n) \/ PushRefused(n)

NotifyNext ==
  \/ NotifyWork
  \/ \E n \in Notices : WorkerWork(n)
  \/ \E s \in BoundedSeq(Ids \union {0}, MaxNotices + 1) : Request(s)

NotifySpec == NotifyInit /\ [][NotifyNext]_notifyVars

-----------------------------------------------------------------------------
(* Properties.                                                             *)

(* The variables have the values their declarations promise; channels are  *)
(* kept by the ids of their notices.                                       *)
NotifyTypeOK ==
  /\ Len(ids) <= MaxNotices
  /\ main.pc \in {"idle", "start", "wait", "answered"} /\ main.seen \in 0..MaxNotices
  /\ main.id \in {0} \union DOMAIN results
  /\ \A n \in Notices :
       /\ worker[n].pc \in {"none", "check", "uids", "push", "send", "done"}
       /\ worker[n].ok \in BOOLEAN
  /\ DOMAIN results \subseteq Ids
  /\ \A id \in DOMAIN results : ids[results[id]] = id
  /\ todo \union sent \union unsent \union timedOut \subseteq DOMAIN results
  /\ accepted \subseteq Notices /\ panicked \in BOOLEAN

(* The answer tells of every id once, and of nothing as sent that the push *)
(* API did not accept.  Of an id used twice it tells the fate of the last  *)
(* notice.  (A notice told as unsent may have been pushed all the same,    *)
(* after its timeout or if the answer of the push API was lost.)           *)
AnswerRight ==
  /\ \A id \in sent : results[id] \in accepted
  /\ sent \intersect unsent = {} /\ (sent \union unsent) \intersect timedOut = {}
  /\ main.pc = "answered" =>
       sent \union unsent \union timedOut = ToSet(ids) \ {0}

(* A goroutine is left behind for good, waiting to send its result, only   *)
(* if its notice timed out, or another one with the same id has replaced   *)
(* its channel.                                                            *)
LeaksExplained ==
  \A n \in DOMAIN ids :
    main.pc = "answered" /\ worker[n].pc = "send" =>
      ids[n] \in timedOut \/ results[ids[n]] # n

(* A request is answered, however slow or silent the other services are, *)
(* unless the process ends.                                                *)
NotifyAnswers == main.pc = "start" ~> (main.pc = "answered" \/ panicked)

=============================================================================
