----------------------------- MODULE Connection -----------------------------
(***************************************************************************)
(* handleConnection of the comet server: how many connections are served   *)
(* at a time, how the bytes of a connection become messages, and when a    *)
(* silent connection is dropped.  What the messages do is the subject of   *)
(* other modules.                                                          *)
(*                                                                         *)
(* A message is a header, of which the first byte is the type and the last *)
(* ones, here one, the length of the body, and the body; a heartbeat is    *)
(* the single byte 0.  Handlers take no time here.                         *)
(***************************************************************************)
EXTENDS Integers, FiniteSets, SequencesExt

CONSTANTS
  Conns,        \* the connections there ever are
  Plans,        \* what the devices may send: functions from connections
                \* to sequences of messages
  Types,        \* the message types with a handler (funcMap)
  HeadSize,     \* HEADER_SIZE (10)
  MaxBody,      \* maxBodyLen
  MaxClients,   \* maxClients
  Width,        \* number of bits of clientCount (32)
  ReadTimeout,  \* READ_HEADER_TIMEOUT, in ticks
  HbTimeout     \* hbTimeout, in ticks

ASSUME SizeAssumption == HeadSize \in Nat /\ HeadSize > 1 /\ MaxBody \in Nat
ASSUME CountAssumption == Width \in Nat /\ MaxClients \in 0..(2^Width - 1)
ASSUME TimeAssumption == ReadTimeout \in Nat \ {0} /\ HbTimeout \in Nat \ {0}
ASSUME TypeAssumption == 0 \notin Types
ASSUME ConnsAssumption == IsFiniteSet(Conns)
ASSUME PlansAssumption ==
  \A p \in Plans, c \in Conns : p[c] \in Seq([type : Nat, len : Nat])

VARIABLES
  conn,         \* the connections and the goroutines that serve them
  plan,         \* what the device of a connection sends after its INIT
  handled,      \* the messages given to handlers, per connection
  clientCount,
  overlaps      \* updates of clientCount written while another one is half done

vars == <<conn, plan, handled, clientCount, overlaps>>

-----------------------------------------------------------------------------
Message(type, len) == [type |-> type, len |-> len]

(* The bytes of messages.  A body repeats the type of its message.         *)
BytesOf(m) ==
  IF m.type = 0 THEN <<0>>
  ELSE [i \in 1..(HeadSize + m.len) |->
          IF i = 1 \/ i > HeadSize THEN m.type ELSE IF i = HeadSize THEN m.len ELSE 0]

Bytes(ms) == FlattenSeq([i \in DOMAIN ms |-> BytesOf(ms[i])])

(* Where a goroutine is: new, in waitInit (init), incrementing the count   *)
(* (add, added), at the top of the loop, reading, leaving (leave),         *)
(* decrementing the count (sub, subbed), closed.  Then: the count it has   *)
(* read; the bytes of the device not read yet; readStep, nRead, header and *)
(* dataBuf; the ages of now and lastActive, and of the last sign of life.  *)
NewConn ==
  [pc |-> "new", tmp |-> 0, net |-> <<>>, step |-> 0, nRead |-> 0, type |-> 0,
   len |-> 0, data |-> <<>>, now |-> 0, lastActive |-> 0, heard |-> 0]

Init ==
  /\ conn = [c \in Conns |-> NewConn]
  /\ plan \in Plans
  /\ handled = [c \in Conns |-> <<>>]
  /\ clientCount = 0
  /\ overlaps = 0

At(c, pc) == conn[c].pc = pc
Go(c, pc) == conn' = [conn EXCEPT ![c].pc = pc]

(* The update of clientCount by c takes effect over those others have half *)
(* done.                                                                   *)
WriteCount(c, n) ==
  /\ clientCount' = n % 2^Width
  /\ overlaps' = overlaps +
       Cardinality({o \in Conns \ {c} : conn[o].pc \in {"added", "subbed"}})

(* Back to the top of the loop, for the next message.                      *)
NextMessage(k) ==
  [k EXCEPT !.pc = "top", !.step = 0, !.nRead = 0, !.len = 0, !.type = 0, !.data = <<>>]

(* A read of up to k bytes returns k bytes, or less after the deadline.    *)
MayRead(c, n, k) ==
  /\ n <= Len(conn[c].net) /\ n <= k
  /\ n = k \/ conn[c].now = ReadTimeout

-----------------------------------------------------------------------------
(* Wrong variants of definitions, each a mistake one could make in the     *)
(* code; none is part of the specification.                                *)

(* waitInit has failed, and the count is decremented as at the end. *)
WaitInitFailsCounted(c) ==
  /\ At(c, "init") /\ Go(c, "sub")
  /\ UNCHANGED <<plan, handled, clientCount, overlaps>>

(* A header that comes in pieces is read from its second byte again. *)
ReadHeaderAgain(c, n) ==
  LET k == conn[c]
      rest == HeadSize - k.nRead
  IN /\ At(c, "read") /\ k.step = 1 /\ MayRead(c, n, rest)
     /\ conn' = [conn EXCEPT ![c] =
          IF n = rest
            THEN [k EXCEPT !.pc = "header", !.net = SubSeq(@, n + 1, Len(@)),
                           !.nRead = HeadSize, !.len = k.net[n]]
            ELSE [k EXCEPT !.pc = "top", !.net = SubSeq(@, n + 1, Len(@))]]
     /\ UNCHANGED <<plan, handled, clientCount, overlaps>>

(* Only heartbeats count as signs of life. *)
HandleMessageNotActive(c) ==
  LET k == conn[c]
  IN /\ At(c, "handle") /\ k.type \in Types
     /\ conn' = [conn EXCEPT ![c] = [NextMessage(k) EXCEPT !.heard = 0]]
     /\ handled' = [handled EXCEPT ![c] = Append(@, <<k.type, k.data>>)]
     /\ UNCHANGED <<plan, clientCount, overlaps>>

-----------------------------------------------------------------------------
(* Admission.                                                              *)

(* handleConnection checks the count before waitInit and increments it     *)
(* after.                                                                  *)
Admit(c) ==
  /\ At(c, "new") /\ clientCount < MaxClients
  /\ conn' = [conn EXCEPT ![c].pc = "init", ![c].net = Bytes(plan[c])]
  /\ UNCHANGED <<plan, handled, clientCount, overlaps>>

Refuse(c) ==
  /\ At(c, "new") /\ clientCount >= MaxClients
  /\ Go(c, "closed")
  /\ UNCHANGED <<plan, handled, clientCount, overlaps>>

(* A client is created; its lastActive is now.                             *)
WaitInit(c) ==
  /\ At(c, "init")
  /\ conn' = [conn EXCEPT ![c].pc = "add", ![c].lastActive = 0, ![c].heard = 0]
  /\ UNCHANGED <<plan, handled, clientCount, overlaps>>

WaitInitFails(c) ==
  /\ At(c, "init") /\ Go(c, "closed")
  /\ UNCHANGED <<plan, handled, clientCount, overlaps>>

(* clientCount++ and clientCount-- are a read and a write.                 *)
ReadCount(c) ==
  /\ At(c, "add") \/ At(c, "sub")
  /\ conn' = [conn EXCEPT ![c].tmp = clientCount,
                          ![c].pc = IF @ = "add" THEN "added" ELSE "subbed"]
  /\ UNCHANGED <<plan, handled, clientCount, overlaps>>

Increment(c) ==
  /\ At(c, "added")
  /\ WriteCount(c, conn[c].tmp + 1)
  /\ conn' = [conn EXCEPT ![c].pc = "top", ![c].tmp = 0]
  /\ UNCHANGED <<plan, handled>>

Decrement(c) ==
  /\ At(c, "subbed")
  /\ WriteCount(c, conn[c].tmp - 1)
  /\ conn' = [conn EXCEPT ![c] = [NewConn EXCEPT !.pc = "closed"]]
  /\ UNCHANGED <<plan, handled>>

-----------------------------------------------------------------------------
(* The loop.                                                               *)

(* now is read, and is the start of the deadline of the reads to come.     *)
Iterate(c) ==
  /\ At(c, "top") /\ conn[c].lastActive <= HbTimeout
  /\ conn' = [conn EXCEPT ![c].pc = "read", ![c].now = 0]
  /\ UNCHANGED <<plan, handled, clientCount, overlaps>>

HeartbeatTimeout(c) ==
  /\ At(c, "top") /\ conn[c].lastActive > HbTimeout
  /\ Go(c, "leave")
  /\ UNCHANGED <<plan, handled, clientCount, overlaps>>

(* The client is closed by a new INIT, the connection ends, a handler      *)
(* fails, or the body takes too long.                                      *)
Leave(c) ==
  /\ conn[c].pc \in {"top", "read"} /\ Go(c, "leave")
  /\ UNCHANGED <<plan, handled, clientCount, overlaps>>

CloseClient(c) ==
  /\ At(c, "leave") /\ Go(c, "sub")
  /\ UNCHANGED <<plan, handled, clientCount, overlaps>>

(* The first byte does not come in time.                                   *)
ReadNothing(c) ==
  /\ At(c, "read") /\ conn[c].step = 0 /\ MayRead(c, 0, 1)
  /\ Go(c, "top")
  /\ UNCHANGED <<plan, handled, clientCount, overlaps>>

Heartbeat(c) ==
  /\ At(c, "read") /\ conn[c].step = 0 /\ MayRead(c, 1, 1)
  /\ Head(conn[c].net) = 0
  /\ conn' = [conn EXCEPT ![c].pc = "top", ![c].net = Tail(@),
                          ![c].lastActive = 0, ![c].heard = 0]
  /\ UNCHANGED <<plan, handled, clientCount, overlaps>>

FirstByte(c) ==
  /\ At(c, "read") /\ conn[c].step = 0 /\ MayRead(c, 1, 1)
  /\ Head(conn[c].net) # 0
  /\ conn' = [conn EXCEPT ![c].net = Tail(@), ![c].type = Head(conn[c].net),
                          ![c].step = 1, ![c].nRead = @ + 1]
  /\ UNCHANGED <<plan, handled, clientCount, overlaps>>

(* n bytes of the rest of the header; with the last one it is complete.    *)
ReadHeader(c, n) ==
  LET k == conn[c]
      rest == HeadSize - k.nRead
  IN /\ At(c, "read") /\ k.step = 1 /\ MayRead(c, n, rest)
     /\ conn' = [conn EXCEPT ![c] =
          IF n = rest
            THEN [k EXCEPT !.pc = "header", !.net = SubSeq(@, n + 1, Len(@)),
                           !.nRead = HeadSize, !.len = k.net[n]]
            ELSE [k EXCEPT !.pc = "top", !.net = SubSeq(@, n + 1, Len(@)),
                           !.nRead = @ + n]]
     /\ UNCHANGED <<plan, handled, clientCount, overlaps>>

TooBig(c) ==
  /\ At(c, "header") /\ conn[c].len > MaxBody /\ Go(c, "leave")
  /\ UNCHANGED <<plan, handled, clientCount, overlaps>>

(* A message without body gets no handler.                                 *)
EmptyMessage(c) ==
  /\ At(c, "header") /\ conn[c].len = 0
  /\ conn' = [conn EXCEPT ![c] = NextMessage(@)]
  /\ UNCHANGED <<plan, handled, clientCount, overlaps>>

StartBody(c) ==
  /\ At(c, "header") /\ conn[c].len \in 1..MaxBody
  /\ conn' = [conn EXCEPT ![c].pc = "read", ![c].step = 2, ![c].nRead = 0]
  /\ UNCHANGED <<plan, handled, clientCount, overlaps>>

ReadBody(c, n) ==
  LET k == conn[c]
      rest == k.len - k.nRead
  IN /\ At(c, "read") /\ k.step = 2 /\ MayRead(c, n, rest)
     /\ conn' = [conn EXCEPT ![c] =
          [k EXCEPT !.pc = IF n = rest THEN "handle" ELSE "top",
                    !.net = SubSeq(@, n + 1, Len(@)), !.nRead = @ + n,
                    !.data = @ \o SubSeq(k.net, 1, n)]]
     /\ UNCHANGED <<plan, handled, clientCount, overlaps>>

(* lastActive becomes the now of this iteration.                           *)
HandleMessage(c) ==
  LET k == conn[c]
  IN /\ At(c, "handle") /\ k.type \in Types
     /\ conn' = [conn EXCEPT ![c] = [NextMessage(k) EXCEPT !.lastActive = k.now, !.heard = 0]]
     /\ handled' = [handled EXCEPT ![c] = Append(@, <<k.type, k.data>>)]
     /\ UNCHANGED <<plan, clientCount, overlaps>>

UnknownMessage(c) ==
  /\ At(c, "handle") /\ conn[c].type \notin Types
  /\ conn' = [conn EXCEPT ![c] = NextMessage(@)]
  /\ UNCHANGED <<plan, handled, clientCount, overlaps>>

-----------------------------------------------------------------------------
(* Time passes.  A read does not wait beyond its deadline, and a goroutine *)
(* that can go on does not wait.  Ages are counted up to one more than     *)
(* HbTimeout.                                                              *)
Older(age) == IF age > HbTimeout THEN age ELSE age + 1

Tick ==
  /\ \A c \in Conns : /\ conn[c].pc \notin {"top", "header", "handle"}
                      /\ At(c, "read") => conn[c].now < ReadTimeout
  /\ \E c \in Conns : conn[c].pc = "read"
  /\ conn' = [c \in Conns |->
       IF conn[c].pc \in {"add", "added", "read"}
         THEN [conn[c] EXCEPT !.now = IF @ < ReadTimeout THEN @ + 1 ELSE @,
                              !.lastActive = Older(@), !.heard = Older(@)]
         ELSE conn[c]]
  /\ UNCHANGED <<plan, handled, clientCount, overlaps>>

Next ==
  \/ \E c \in Conns :
       \/ Admit(c) \/ Refuse(c) \/ WaitInit(c) \/ WaitInitFails(c)
       \/ ReadCount(c) \/ Increment(c) \/ Decrement(c)
       \/ Iterate(c) \/ HeartbeatTimeout(c) \/ Leave(c) \/ CloseClient(c)
       \/ ReadNothing(c) \/ Heartbeat(c) \/ FirstByte(c)
       \/ (\E n \in 0..HeadSize : ReadHeader(c, n))
       \/ TooBig(c) \/ EmptyMessage(c) \/ StartBody(c)
       \/ (\E n \in 0..MaxBody : ReadBody(c, n))
       \/ HandleMessage(c) \/ UnknownMessage(c)
  \/ Tick

Spec == Init /\ [][Next]_vars

-----------------------------------------------------------------------------
(* Properties.                                                             *)

(* The variables have the values their declarations promise; the unsigned  *)
(* count stays in its range.                                               *)
TypeOK ==
  /\ clientCount \in 0..(2^Width - 1) /\ overlaps \in Nat
  /\ \A c \in Conns :
       /\ conn[c].pc \in {"new", "init", "add", "added", "top", "read", "header",
                          "handle", "leave", "sub", "subbed", "closed"}
       /\ conn[c].tmp \in 0..(2^Width - 1)
       /\ conn[c].step \in 0..2
       /\ conn[c].nRead <= IF conn[c].step = 2 THEN conn[c].len ELSE HeadSize
       /\ Len(conn[c].data) <= MaxBody
       /\ conn[c].now \in 0..ReadTimeout
       /\ {conn[c].lastActive, conn[c].heard} \subseteq 0..(HbTimeout + 1)

(* What handlers are to get of messages: those that have a body and a      *)
(* known type.                                                             *)
Body(m) == [j \in 1..m.len |-> m.type]

HandledOf(m) == IF m.type \in Types /\ m.len > 0 THEN << <<m.type, Body(m)>> >> ELSE <<>>

Handled(ms) == FlattenSeq([i \in DOMAIN ms |-> HandledOf(ms[i])])

(* The bytes of a device, in whatever pieces they come and however long    *)
(* the gaps between them are, are taken apart into the messages it sent:   *)
(* in the loop, handlers have got exactly those that have been read in     *)
(* full, each once, in order and with its body; afterwards no others.      *)
Framed ==
  \A c \in Conns :
    IF conn[c].pc \in {"top", "read"}
    THEN \E i \in 0..Len(plan[c]) :
           LET Length(j) == Len(Bytes(SubSeq(plan[c], 1, j)))
               consumed == Length(Len(plan[c])) - Len(conn[c].net)
           IN /\ Length(i) <= consumed
              /\ i < Len(plan[c]) => consumed < Length(i + 1)
              /\ handled[c] = Handled(SubSeq(plan[c], 1, i))
    ELSE IsPrefix(handled[c], Handled(plan[c]))

Counted ==
  {c \in Conns : conn[c].pc \in {"top", "read", "header", "handle", "leave", "sub", "subbed"}}

(* clientCount is the number of connections between increment and          *)
(* decrement, give or take one for every pair of overlapping updates; only *)
(* those can make it wrong, and it wraps around below zero, where every    *)
(* device is refused.                                                      *)
DriftBounded ==
  \E d \in (-overlaps)..overlaps : clientCount = (Cardinality(Counted) + d) % 2^Width

(* lastActive is behind the last heartbeat or handled message of the       *)
(* device by no more than one read deadline, since now is read before the  *)
(* reads.  So a device that is dropped for its silence has been silent for *)
(* longer than HbTimeout - ReadTimeout at least.                           *)
ActiveFresh ==
  \A c \in Conns :
    conn[c].pc \in {"top", "read"} => conn[c].lastActive <= conn[c].heard + ReadTimeout

=============================================================================
