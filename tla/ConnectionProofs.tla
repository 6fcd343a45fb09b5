-------------------------- MODULE ConnectionProofs --------------------------
(***************************************************************************)
(* Proofs about Connection: the count of the connections, the age of their *)
(* last sign of life, and how the bytes of a device become messages,       *)
(* whatever the devices send.                                              *)
(***************************************************************************)
EXTENDS Connection, SequenceTheorems, FiniteSetTheorems, TLAPS

-----------------------------------------------------------------------------
(* The inductive invariant.                                                *)
Fields ==
  {"pc", "tmp", "net", "step", "nRead", "type", "len", "data", "now", "lastActive", "heard"}

Shape ==
  /\ DOMAIN conn = Conns /\ \A c \in Conns : DOMAIN conn[c] = Fields
  /\ clientCount \in Int /\ overlaps \in Nat

(* While a connection is served, lastActive is behind its last sign of     *)
(* life by no more than the now that it may be set to.                     *)
Serving == {"add", "added", "top", "read", "header", "handle"}

Timely(k) ==
  /\ k.now \in 0..ReadTimeout /\ k.lastActive \in Nat /\ k.heard \in Nat
  /\ k.pc \in Serving => k.lastActive <= k.heard + ReadTimeout

AllTimely == \A c \in Conns : Timely(conn[c])

(* A value of the count that is right but for the overlapping updates so   *)
(* far; clientCount is one, and what a half-done update has read is one,   *)
(* however many have been done since.                                      *)
Near(n) == \E d \in (-overlaps)..overlaps : n = (Cardinality(Counted) + d) % 2^Width

CountedPcs == {"top", "read", "header", "handle", "leave", "sub", "subbed"}
HalfPcs == {"added", "subbed"}

Counts ==
  /\ Near(clientCount)
  /\ \A c \in Conns : conn[c].pc \in HalfPcs => Near(conn[c].tmp)

IInv == Shape /\ AllTimely /\ Counts

-----------------------------------------------------------------------------
(* Arithmetic modulo the range of the count.                               *)
LEMMA RangeIs == 2^Width \in Nat \ {0}
<1>1. 2^Width \in Int
  BY CountAssumption
<1>2. MaxClients \in 0..(2^Width - 1)
  BY CountAssumption
<1> QED
  BY <1>1, <1>2

LEMMA Divided ==
  ASSUME NEW M \in Nat \ {0}, NEW a \in Int
  PROVE  a = M * (a \div M) + (a % M) /\ a % M \in 0..(M - 1) /\ a \div M \in Int
  OBVIOUS

LEMMA RemainderUnique ==
  ASSUME NEW M \in Nat \ {0}, NEW q \in Int, NEW p \in Int,
         NEW r \in 0..(M - 1), NEW s \in 0..(M - 1), M * q + r = M * p + s
  PROVE  r = s
  OBVIOUS

LEMMA ModPlus ==
  ASSUME NEW M \in Nat \ {0}, NEW a \in Int, NEW b \in Int
  PROVE  ((a % M) + b) % M = (a + b) % M
<1> DEFINE r == a % M
           p == a \div M
           s == (r + b) % M
           u == (r + b) \div M
           t == (a + b) % M
           v == (a + b) \div M
<1>1. a = M * p + r /\ r \in 0..(M - 1) /\ p \in Int
  BY Divided
<1>2. r + b = M * u + s /\ s \in 0..(M - 1) /\ u \in Int
  <2>1. r + b \in Int
    BY <1>1
  <2> HIDE DEF r
  <2> QED
    BY <2>1, Divided
<1>3. a + b = M * v + t /\ t \in 0..(M - 1) /\ v \in Int
  <2>1. a + b \in Int
    OBVIOUS
  <2> QED
    BY <2>1, Divided
<1> HIDE DEF r, p, s, u, t, v
<1>4. M * (p + u) + s = M * v + t
  <2>1. M * (p + u) = M * p + M * u
    BY <1>1, <1>2
  <2>2. M * p \in Int /\ M * u \in Int /\ M * v \in Int
    BY <1>1, <1>2, <1>3
  <2> QED
    BY <1>1, <1>2, <1>3, <2>1, <2>2
<1>5. p + u \in Int
  BY <1>1, <1>2
<1>6. s = t
  BY <1>2, <1>3, <1>4, <1>5, RemainderUnique
<1> QED
  BY <1>6 DEF s, t, r

(* The connections counted, and a value that is near their number.         *)
LEMMA CountedIs ==
  /\ Counted = {c \in Conns : conn[c].pc \in CountedPcs}
  /\ IsFiniteSet(Counted) /\ Cardinality(Counted) \in Nat
<1>1. Counted = {c \in Conns : conn[c].pc \in CountedPcs}
  BY DEF Counted, CountedPcs
<1>2. Counted \subseteq Conns
  BY <1>1
<1> QED
  BY <1>1, <1>2, FS_Subset, FS_CardinalityType, ConnsAssumption

LEMMA NearOf ==
  ASSUME NEW d \in Int, -overlaps <= d, d <= overlaps, overlaps \in Nat, NEW n,
         n = (Cardinality(Counted) + d) % 2^Width
  PROVE  Near(n)
  BY DEF Near

-----------------------------------------------------------------------------
(* Steps of one connection.                                                *)
ConnBecomes(c, k) ==
  /\ DOMAIN conn' = Conns /\ conn'[c] = k
  /\ \A o \in Conns \ {c} : conn'[o] = conn[o]

LEMMA ConnSet ==
  ASSUME Shape, NEW c \in Conns, NEW k, conn' = [conn EXCEPT ![c] = k]
  PROVE  ConnBecomes(c, k)
  BY DEF Shape, ConnBecomes

LEMMA TimelyStep ==
  ASSUME Shape, AllTimely, NEW c \in Conns, NEW k, ConnBecomes(c, k),
         DOMAIN k = Fields, Timely(k), clientCount' \in Int, overlaps' \in Nat
  PROVE  Shape' /\ AllTimely'
<1>1. Shape'
  BY DEF Shape, ConnBecomes
<1>2. AllTimely'
  <2>1. \A o \in Conns : Timely(conn'[o])
    BY DEF AllTimely, ConnBecomes
  <2> QED
    BY <2>1 DEF AllTimely, Timely
<1> QED
  BY <1>1, <1>2

(* A step that neither counts nor reads the count.                         *)
LEMMA QuietStep ==
  ASSUME IInv, NEW c \in Conns, NEW k, conn' = [conn EXCEPT ![c] = k],
         DOMAIN k = Fields, Timely(k), k.pc \notin HalfPcs,
         k.pc \in CountedPcs <=> conn[c].pc \in CountedPcs,
         UNCHANGED <<clientCount, overlaps>>
  PROVE  IInv'
<1>1. ConnBecomes(c, k) /\ clientCount \in Int /\ overlaps \in Nat
  BY ConnSet DEF IInv, Shape
<1>2. Shape' /\ AllTimely'
  BY <1>1, TimelyStep DEF IInv
<1>3. Counted' = Counted
  <2>1. Counted' = {o \in Conns : conn'[o].pc \in CountedPcs}
    BY DEF Counted, CountedPcs
  <2>2. \A o \in Conns : conn'[o].pc \in CountedPcs <=> conn[o].pc \in CountedPcs
    BY <1>1 DEF ConnBecomes
  <2> QED
    BY <2>1, <2>2, CountedIs
<1>4. \A n : Near(n) => Near(n)'
  BY <1>3 DEF Near
<1>5. Counts'
  <2>1. \A o \in Conns : conn'[o].pc \in HalfPcs => conn'[o] = conn[o] /\ conn[o].pc \in HalfPcs
    BY <1>1 DEF ConnBecomes
  <2> QED
    BY <1>4, <2>1 DEF IInv, Counts
<1> QED
  BY <1>2, <1>5 DEF IInv

LEMMA StandsFor ==
  ASSUME IInv, NEW c \in Conns
  PROVE  /\ DOMAIN conn[c] = Fields /\ Timely(conn[c])
         /\ conn[c].now \in 0..ReadTimeout /\ conn[c].lastActive \in Nat /\ conn[c].heard \in Nat
         /\ ReadTimeout \in Nat /\ HbTimeout \in Nat
  BY TimeAssumption DEF IInv, Shape, AllTimely, Timely

(* A connection that only moves on.                                        *)
LEMMA GoKeeps ==
  ASSUME IInv, NEW c \in Conns, NEW p, Go(c, p), p \notin HalfPcs,
         p \in CountedPcs <=> conn[c].pc \in CountedPcs,
         p \in Serving => conn[c].pc \in Serving,
         UNCHANGED <<clientCount, overlaps>>
  PROVE  IInv'
<1> DEFINE k == [conn[c] EXCEPT !.pc = p]
<1>1. DOMAIN conn[c] = Fields /\ Timely(conn[c])
  BY StandsFor
<1>2. DOMAIN k = Fields /\ k.pc = p /\ Timely(k)
  BY <1>1 DEF Fields, Timely
<1>3. conn' = [conn EXCEPT ![c] = k]
  BY DEF Go
<1> HIDE DEF k
<1> QED
  BY <1>2, <1>3, QuietStep

LEMMA AdmissionKeeps ==
  ASSUME IInv, NEW c \in Conns, Admit(c) \/ Refuse(c) \/ WaitInit(c) \/ WaitInitFails(c)
  PROVE  IInv'
<1>1. DOMAIN conn[c] = Fields /\ Timely(conn[c]) /\ ReadTimeout \in Nat
  BY StandsFor
<1>2. CASE Admit(c)
  <2> DEFINE b == Bytes(plan[c])
             k == [conn[c] EXCEPT !.pc = "init", !.net = b]
  <2>1. conn' = [conn EXCEPT ![c] = k] /\ conn[c].pc = "new" /\ UNCHANGED <<clientCount, overlaps>>
    BY <1>2 DEF Admit, At
  <2> HIDE DEF b
  <2>2. DOMAIN k = Fields /\ k.pc = "init" /\ Timely(k)
    BY <1>1 DEF Fields, Timely, Serving
  <2> HIDE DEF k
  <2> QED
    BY <2>1, <2>2, QuietStep DEF HalfPcs, CountedPcs
<1>3. CASE Refuse(c)
  BY <1>3, GoKeeps DEF Refuse, At, HalfPcs, CountedPcs, Serving
<1>4. CASE WaitInit(c)
  <2> DEFINE k == [conn[c] EXCEPT !.pc = "add", !.lastActive = 0, !.heard = 0]
  <2>1. conn' = [conn EXCEPT ![c] = k] /\ conn[c].pc = "init" /\ UNCHANGED <<clientCount, overlaps>>
    BY <1>4 DEF WaitInit, At
  <2>2. DOMAIN k = Fields /\ k.pc = "add" /\ Timely(k)
    BY <1>1 DEF Fields, Timely, Serving
  <2> HIDE DEF k
  <2> QED
    BY <2>1, <2>2, QuietStep DEF HalfPcs, CountedPcs
<1>5. CASE WaitInitFails(c)
  BY <1>5, GoKeeps DEF WaitInitFails, At, HalfPcs, CountedPcs, Serving
<1> QED
  BY <1>2, <1>3, <1>4, <1>5

LEMMA LoopKeeps ==
  ASSUME IInv, NEW c \in Conns,
         Iterate(c) \/ HeartbeatTimeout(c) \/ Leave(c) \/ CloseClient(c)
  PROVE  IInv'
<1>1. DOMAIN conn[c] = Fields /\ Timely(conn[c]) /\ ReadTimeout \in Nat
  BY StandsFor
<1>2. CASE Iterate(c)
  <2> DEFINE k == [conn[c] EXCEPT !.pc = "read", !.now = 0]
  <2>1. conn' = [conn EXCEPT ![c] = k] /\ conn[c].pc = "top" /\ UNCHANGED <<clientCount, overlaps>>
    BY <1>2 DEF Iterate, At
  <2>2. DOMAIN k = Fields /\ k.pc = "read" /\ Timely(k)
    BY <1>1, <2>1 DEF Fields, Timely, Serving
  <2> HIDE DEF k
  <2> QED
    BY <2>1, <2>2, QuietStep DEF HalfPcs, CountedPcs
<1>3. CASE HeartbeatTimeout(c)
  BY <1>3, GoKeeps DEF HeartbeatTimeout, At, HalfPcs, CountedPcs, Serving
<1>4. CASE Leave(c)
  BY <1>4, GoKeeps DEF Leave, At, HalfPcs, CountedPcs, Serving
<1>5. CASE CloseClient(c)
  BY <1>5, GoKeeps DEF CloseClient, At, HalfPcs, CountedPcs, Serving
<1> QED
  BY <1>2, <1>3, <1>4, <1>5

LEMMA NextMessageFields ==
  ASSUME NEW k, DOMAIN k = Fields, Timely(k), k.pc \in Serving
  PROVE  /\ DOMAIN NextMessage(k) = Fields /\ NextMessage(k).pc = "top" /\ Timely(NextMessage(k))
         /\ NextMessage(k).now = k.now
  BY DEF NextMessage, Fields, Timely, Serving

LEMMA FirstByteKeeps ==
  ASSUME IInv, NEW c \in Conns, ReadNothing(c) \/ Heartbeat(c) \/ FirstByte(c)
  PROVE  IInv'
<1>1. DOMAIN conn[c] = Fields /\ Timely(conn[c]) /\ ReadTimeout \in Nat
  BY StandsFor
<1>2. CASE ReadNothing(c)
  BY <1>2, GoKeeps DEF ReadNothing, At, HalfPcs, CountedPcs, Serving
<1>3. CASE Heartbeat(c)
  <2> DEFINE b == Tail(conn[c].net)
             k == [conn[c] EXCEPT !.pc = "top", !.net = b, !.lastActive = 0, !.heard = 0]
  <2>1. conn' = [conn EXCEPT ![c] = k] /\ conn[c].pc = "read" /\ UNCHANGED <<clientCount, overlaps>>
    BY <1>3 DEF Heartbeat, At
  <2> HIDE DEF b
  <2>2. DOMAIN k = Fields /\ k.pc = "top" /\ Timely(k)
    BY <1>1 DEF Fields, Timely, Serving
  <2> HIDE DEF k
  <2> QED
    BY <2>1, <2>2, QuietStep DEF HalfPcs, CountedPcs
<1>4. CASE FirstByte(c)
  <2> DEFINE b == Tail(conn[c].net)
             t == Head(conn[c].net)
             n == conn[c].nRead + 1
             k == [conn[c] EXCEPT !.net = b, !.type = t, !.step = 1, !.nRead = n]
  <2>1. conn' = [conn EXCEPT ![c] = k] /\ conn[c].pc = "read" /\ UNCHANGED <<clientCount, overlaps>>
    BY <1>4 DEF FirstByte, At
  <2> HIDE DEF b, t, n
  <2>2. DOMAIN k = Fields /\ k.pc = "read" /\ Timely(k)
    BY <1>1, <2>1 DEF Fields, Timely, Serving
  <2> HIDE DEF k
  <2> QED
    BY <2>1, <2>2, QuietStep DEF HalfPcs, CountedPcs
<1> QED
  BY <1>2, <1>3, <1>4

LEMMA ReadHeaderKeeps ==
  ASSUME IInv, NEW c \in Conns, NEW n, ReadHeader(c, n)
  PROVE  IInv'
<1>1. DOMAIN conn[c] = Fields /\ Timely(conn[c]) /\ ReadTimeout \in Nat
  BY StandsFor
<1> DEFINE b == SubSeq(conn[c].net, n + 1, Len(conn[c].net))
           l == conn[c].net[n]
           m == conn[c].nRead + n
           whole == [conn[c] EXCEPT !.pc = "header", !.net = b, !.nRead = HeadSize, !.len = l]
           part == [conn[c] EXCEPT !.pc = "top", !.net = b, !.nRead = m]
<1>2. /\ conn[c].pc = "read" /\ UNCHANGED <<clientCount, overlaps>>
      /\ conn' = [conn EXCEPT ![c] = whole] \/ conn' = [conn EXCEPT ![c] = part]
  BY DEF ReadHeader, At
<1> HIDE DEF b, l, m
<1>3. DOMAIN whole = Fields /\ whole.pc = "header" /\ Timely(whole)
  BY <1>1, <1>2 DEF Fields, Timely, Serving
<1>4. DOMAIN part = Fields /\ part.pc = "top" /\ Timely(part)
  BY <1>1, <1>2 DEF Fields, Timely, Serving
<1> HIDE DEF whole, part
<1>5. CASE conn' = [conn EXCEPT ![c] = whole]
  BY <1>2, <1>3, <1>5, QuietStep DEF HalfPcs, CountedPcs
<1>6. CASE conn' = [conn EXCEPT ![c] = part]
  BY <1>2, <1>4, <1>6, QuietStep DEF HalfPcs, CountedPcs
<1> QED
  BY <1>2, <1>5, <1>6

LEMMA HeaderKeeps ==
  ASSUME IInv, NEW c \in Conns, TooBig(c) \/ EmptyMessage(c) \/ StartBody(c)
  PROVE  IInv'
<1>1. DOMAIN conn[c] = Fields /\ Timely(conn[c]) /\ ReadTimeout \in Nat
  BY StandsFor
<1>2. CASE TooBig(c)
  BY <1>2, GoKeeps DEF TooBig, At, HalfPcs, CountedPcs, Serving
<1>3. CASE EmptyMessage(c)
  <2> DEFINE k == NextMessage(conn[c])
  <2>1. conn' = [conn EXCEPT ![c] = k] /\ conn[c].pc = "header" /\ UNCHANGED <<clientCount, overlaps>>
    BY <1>3 DEF EmptyMessage, At
  <2>2. DOMAIN k = Fields /\ k.pc = "top" /\ Timely(k)
    BY <1>1, <2>1, NextMessageFields DEF Serving
  <2> HIDE DEF k
  <2> QED
    BY <2>1, <2>2, QuietStep DEF HalfPcs, CountedPcs
<1>4. CASE StartBody(c)
  <2> DEFINE k == [conn[c] EXCEPT !.pc = "read", !.step = 2, !.nRead = 0]
  <2>1. conn' = [conn EXCEPT ![c] = k] /\ conn[c].pc = "header" /\ UNCHANGED <<clientCount, overlaps>>
    BY <1>4 DEF StartBody, At
  <2>2. DOMAIN k = Fields /\ k.pc = "read" /\ Timely(k)
    BY <1>1, <2>1 DEF Fields, Timely, Serving
  <2> HIDE DEF k
  <2> QED
    BY <2>1, <2>2, QuietStep DEF HalfPcs, CountedPcs
<1> QED
  BY <1>2, <1>3, <1>4

LEMMA ReadBodyKeeps ==
  ASSUME IInv, NEW c \in Conns, NEW n, ReadBody(c, n)
  PROVE  IInv'
<1>1. DOMAIN conn[c] = Fields /\ Timely(conn[c]) /\ ReadTimeout \in Nat
  BY StandsFor
<1> DEFINE b == SubSeq(conn[c].net, n + 1, Len(conn[c].net))
           m == conn[c].nRead + n
           d == conn[c].data \o SubSeq(conn[c].net, 1, n)
           p == IF n = conn[c].len - conn[c].nRead THEN "handle" ELSE "top"
           k == [conn[c] EXCEPT !.pc = p, !.net = b, !.nRead = m, !.data = d]
<1>2. /\ conn[c].pc = "read" /\ UNCHANGED <<clientCount, overlaps>>
      /\ conn' = [conn EXCEPT ![c] = k]
  BY DEF ReadBody, At
<1>3. p \in {"handle", "top"}
  OBVIOUS
<1> HIDE DEF b, m, d, p
<1>4. DOMAIN k = Fields /\ k.pc = p /\ Timely(k)
  BY <1>1, <1>2 DEF Fields, Timely, Serving
<1> HIDE DEF k
<1> QED
  BY <1>2, <1>3, <1>4, QuietStep DEF HalfPcs, CountedPcs

LEMMA HandleKeeps ==
  ASSUME IInv, NEW c \in Conns, HandleMessage(c) \/ UnknownMessage(c)
  PROVE  IInv'
<1>1. DOMAIN conn[c] = Fields /\ Timely(conn[c]) /\ ReadTimeout \in Nat
  BY StandsFor
<1>2. conn[c].pc = "handle" /\ UNCHANGED <<clientCount, overlaps>>
  BY DEF HandleMessage, UnknownMessage, At
<1> DEFINE k == NextMessage(conn[c])
           a == conn[c].now
           x == [k EXCEPT !.lastActive = a, !.heard = 0]
<1>3. \/ conn' = [conn EXCEPT ![c] = k]
      \/ conn' = [conn EXCEPT ![c] = x]
  BY DEF HandleMessage, UnknownMessage
<1>4. DOMAIN k = Fields /\ k.pc = "top" /\ Timely(k)
  BY <1>1, <1>2, NextMessageFields DEF Serving
<1>5. a \in 0..ReadTimeout
  BY <1>1 DEF Timely
<1> HIDE DEF k, a
<1>6. DOMAIN x = Fields /\ x.pc = "top" /\ Timely(x)
  BY <1>1, <1>4, <1>5 DEF Fields, Timely
<1> HIDE DEF x
<1>7. CASE conn' = [conn EXCEPT ![c] = k]
  BY <1>2, <1>4, <1>7, QuietStep DEF HalfPcs, CountedPcs
<1>8. CASE conn' = [conn EXCEPT ![c] = x]
  BY <1>2, <1>6, <1>8, QuietStep DEF HalfPcs, CountedPcs
<1> QED
  BY <1>3, <1>7, <1>8

-----------------------------------------------------------------------------
(* Reading and writing the count.                                          *)
LEMMA ReadCountKeeps ==
  ASSUME IInv, NEW c \in Conns, ReadCount(c)
  PROVE  IInv'
<1> DEFINE p == IF conn[c].pc = "add" THEN "added" ELSE "subbed"
           k == [conn[c] EXCEPT !.tmp = clientCount, !.pc = p]
<1>1. DOMAIN conn[c] = Fields /\ Timely(conn[c]) /\ ReadTimeout \in Nat
  BY StandsFor
<1>2. /\ conn[c].pc \in {"add", "sub"} /\ UNCHANGED <<clientCount, overlaps>>
      /\ conn' = [conn EXCEPT ![c] = k]
  BY DEF ReadCount, At
<1>3. p \in {"added", "subbed"} /\ (p = "added" <=> conn[c].pc = "add")
  BY <1>2
<1> HIDE DEF p
<1>4. DOMAIN k = Fields /\ k.pc = p /\ k.tmp = clientCount /\ Timely(k)
  BY <1>1, <1>2, <1>3 DEF Fields, Timely, Serving
<1> HIDE DEF k
<1>5. ConnBecomes(c, k) /\ clientCount \in Int /\ overlaps \in Nat
  BY <1>2, ConnSet DEF IInv, Shape
<1>6. Shape' /\ AllTimely'
  BY <1>2, <1>4, <1>5, TimelyStep DEF IInv
<1>7. Counted' = Counted
  <2>1. Counted' = {o \in Conns : conn'[o].pc \in CountedPcs}
    BY DEF Counted, CountedPcs
  <2>2. \A o \in Conns : conn'[o].pc \in CountedPcs <=> conn[o].pc \in CountedPcs
    BY <1>2, <1>3, <1>4, <1>5 DEF ConnBecomes, CountedPcs
  <2> QED
    BY <2>1, <2>2, CountedIs
<1>8. \A n : Near(n) => Near(n)'
  BY <1>2, <1>7 DEF Near
<1>9. Counts'
  <2>1. Near(clientCount)'
    BY <1>2, <1>8 DEF IInv, Counts, Near
  <2>2. ASSUME NEW o \in Conns, conn'[o].pc \in HalfPcs
        PROVE  Near(conn[o].tmp)'
    <3>1. CASE o = c
      <4>1. conn'[o].tmp = clientCount
        BY <1>4, <1>5, <3>1 DEF ConnBecomes
      <4>2. Near(clientCount)
        BY DEF IInv, Counts
      <4>3. \E d \in (-overlaps)..overlaps : clientCount = (Cardinality(Counted) + d) % 2^Width
        BY <4>2 DEF Near
      <4> QED
        BY <1>2, <1>7, <4>1, <4>3 DEF Near
    <3>2. CASE o # c
      <4>1. conn'[o] = conn[o] /\ Near(conn[o].tmp)
        BY <1>5, <2>2, <3>2 DEF ConnBecomes, IInv, Counts
      <4>2. \E d \in (-overlaps)..overlaps : conn[o].tmp = (Cardinality(Counted) + d) % 2^Width
        BY <4>1 DEF Near
      <4> QED
        BY <1>2, <1>7, <4>1, <4>2 DEF Near
    <3> QED
      BY <3>1, <3>2
  <2> QED
    BY <2>1, <2>2 DEF Counts
<1> QED
  BY <1>6, <1>9 DEF IInv

(* A distance within one bound is within a wider one.                      *)
LEMMA Widened ==
  ASSUME NEW m \in Nat, NEW n \in Nat, m <= n, NEW d \in (-m)..m
  PROVE  d \in (-n)..n
OBVIOUS

(* A half-done update takes effect, and those others have half done become *)
(* overlapped by it: what they have read is off by one more at most.       *)
LEMMA WriteKeeps ==
  ASSUME IInv, NEW c \in Conns, NEW k, NEW b \in {-1, 1}, conn' = [conn EXCEPT ![c] = k],
         DOMAIN k = Fields, Timely(k), k.pc \notin HalfPcs, conn[c].pc \in HalfPcs,
         WriteCount(c, conn[c].tmp + b),
         Cardinality(Counted)' = Cardinality(Counted) + b
  PROVE  IInv'
<1> DEFINE others == {o \in Conns \ {c} : conn[o].pc \in {"added", "subbed"}}
           N == Cardinality(Counted)
           M == 2^Width
<1>1. ConnBecomes(c, k) /\ overlaps \in Nat
  BY ConnSet DEF IInv, Shape
<1>2. /\ clientCount' = (conn[c].tmp + b) % M
      /\ overlaps' = overlaps + Cardinality(others)
  BY DEF WriteCount
<1>3. M \in Nat \ {0} /\ N \in Nat /\ N' = N + b
  BY RangeIs, CountedIs
<1>4. IsFiniteSet(others) /\ Cardinality(others) \in Nat
  <2>1. others \subseteq Conns
    OBVIOUS
  <2> QED
    BY <2>1, FS_Subset, FS_CardinalityType, ConnsAssumption
<1>5. \A o \in others : Cardinality(others) >= 1
  <2>1. \A o \in others : others # {}
    OBVIOUS
  <2>2. Cardinality(others) = 0 <=> others = {}
    BY <1>4, FS_EmptySet
  <2> QED
    BY <1>4, <2>1, <2>2
<1>6. \A o \in Conns : conn[o].pc \in HalfPcs => Near(conn[o].tmp)
  BY DEF IInv, Counts
<1>7. PICK d \in (-overlaps)..overlaps : conn[c].tmp = (N + d) % M
  BY <1>6 DEF Near
<1>8. \A o \in Conns : conn'[o].pc \in HalfPcs => o \in others /\ conn'[o] = conn[o]
  BY <1>1 DEF ConnBecomes, HalfPcs
<1> HIDE DEF others, M
<1>9. overlaps' \in Nat /\ overlaps <= overlaps'
  BY <1>1, <1>2, <1>4
<1>10. clientCount' = (N' + d) % M /\ clientCount' \in Int
  <2>1. N + d \in Int /\ b \in Int
    BY <1>1, <1>3
  <2>2. (((N + d) % M) + b) % M = ((N + d) + b) % M
    BY <1>3, <2>1, ModPlus
  <2>3. (N + d) + b = N' + d
    BY <1>1, <1>3
  <2>4. ((N + d) + b) % M \in Int
    BY <1>3, <2>1
  <2> QED
    BY <1>2, <1>7, <2>2, <2>3, <2>4
<1>11. Shape' /\ AllTimely'
  BY <1>1, <1>9, <1>10, TimelyStep DEF IInv
<1>12. Near(clientCount)'
  <2>1. d \in (-overlaps')..overlaps'
    BY <1>1, <1>9, Widened
  <2> QED
    BY <1>10, <2>1 DEF Near, M
<1>13. ASSUME NEW o \in Conns, conn'[o].pc \in HalfPcs
       PROVE  Near(conn[o].tmp)'
  <2>1. o \in others /\ conn'[o] = conn[o] /\ conn[o].pc \in HalfPcs
    BY <1>8, <1>13
  <2>2. PICK e \in (-overlaps)..overlaps : conn[o].tmp = (N + e) % M
    BY <1>6, <2>1 DEF Near, M
  <2>3. e - b \in (-overlaps')..overlaps'
    BY <1>1, <1>2, <1>4, <1>5, <2>1
  <2>4. N' + (e - b) = N + e
    BY <1>1, <1>3
  <2>5. conn'[o].tmp = (N' + (e - b)) % M
    BY <2>1, <2>2, <2>4
  <2> QED
    BY <2>3, <2>5 DEF Near, M
<1> QED
  BY <1>11, <1>12, <1>13 DEF IInv, Counts

LEMMA IncrementKeeps ==
  ASSUME IInv, NEW c \in Conns, Increment(c)
  PROVE  IInv'
<1> DEFINE k == [conn[c] EXCEPT !.pc = "top", !.tmp = 0]
<1>1. DOMAIN conn[c] = Fields /\ Timely(conn[c]) /\ ReadTimeout \in Nat
  BY StandsFor
<1>2. conn[c].pc = "added" /\ WriteCount(c, conn[c].tmp + 1) /\ conn' = [conn EXCEPT ![c] = k]
  BY DEF Increment, At
<1>3. DOMAIN k = Fields /\ k.pc = "top" /\ Timely(k)
  BY <1>1, <1>2 DEF Fields, Timely, Serving
<1> HIDE DEF k
<1>4. ConnBecomes(c, k)
  BY <1>2, ConnSet DEF IInv
<1>5. Cardinality(Counted)' = Cardinality(Counted) + 1
  <2>1. Counted' = {o \in Conns : conn'[o].pc \in CountedPcs}
    BY DEF Counted, CountedPcs
  <2>2. Counted' = Counted \union {c} /\ c \notin Counted
    BY <1>2, <1>3, <1>4, <2>1, CountedIs DEF ConnBecomes, CountedPcs
  <2>3. IsFiniteSet(Counted)
    BY CountedIs
  <2> QED
    BY <2>2, <2>3, FS_AddElement
<1> QED
  BY <1>2, <1>3, <1>5, WriteKeeps DEF HalfPcs

LEMMA DecrementKeeps ==
  ASSUME IInv, NEW c \in Conns, Decrement(c)
  PROVE  IInv'
<1> DEFINE k == [NewConn EXCEPT !.pc = "closed"]
<1>1. ReadTimeout \in Nat
  BY StandsFor
<1>2. conn[c].pc = "subbed" /\ WriteCount(c, conn[c].tmp - 1) /\ conn' = [conn EXCEPT ![c] = k]
  BY DEF Decrement, At
<1>3. DOMAIN k = Fields /\ k.pc = "closed" /\ Timely(k)
  BY <1>1 DEF NewConn, Fields, Timely, Serving
<1> HIDE DEF k
<1>4. ConnBecomes(c, k)
  BY <1>2, ConnSet DEF IInv
<1>5. Cardinality(Counted)' = Cardinality(Counted) - 1
  <2>1. Counted' = {o \in Conns : conn'[o].pc \in CountedPcs}
    BY DEF Counted, CountedPcs
  <2>2. Counted' = Counted \ {c} /\ c \in Counted
    BY <1>2, <1>3, <1>4, <2>1, CountedIs DEF ConnBecomes, CountedPcs
  <2>3. IsFiniteSet(Counted)
    BY CountedIs
  <2> QED
    BY <2>2, <2>3, FS_RemoveElement
<1>6. conn[c].tmp - 1 = conn[c].tmp + (-1) /\ Cardinality(Counted) - 1 = Cardinality(Counted) + (-1)
  <2>1. Near(conn[c].tmp)
    BY <1>2 DEF IInv, Counts, HalfPcs
  <2>2. conn[c].tmp \in Int /\ Cardinality(Counted) \in Int
    <3>1. PICK d \in (-overlaps)..overlaps : conn[c].tmp = (Cardinality(Counted) + d) % 2^Width
      BY <2>1 DEF Near
    <3>2. Cardinality(Counted) + d \in Int /\ Cardinality(Counted) \in Int
      BY CountedIs DEF IInv, Shape
    <3>3. (Cardinality(Counted) + d) % 2^Width \in Int
      BY <3>2, RangeIs
    <3> QED
      BY <3>1, <3>2, <3>3
  <2> QED
    BY <2>2
<1> QED
  BY <1>2, <1>3, <1>5, <1>6, WriteKeeps DEF HalfPcs

-----------------------------------------------------------------------------
LEMMA TickKeeps ==
  ASSUME IInv, Tick
  PROVE  IInv'
<1> DEFINE aged(k) == [k EXCEPT !.now = IF @ < ReadTimeout THEN @ + 1 ELSE @,
                                !.lastActive = Older(@), !.heard = Older(@)]
<1>1. /\ conn' = [c \in Conns |-> IF conn[c].pc \in {"add", "added", "read"}
                                   THEN aged(conn[c]) ELSE conn[c]]
      /\ UNCHANGED <<clientCount, overlaps>>
  BY DEF Tick
<1>2. \A c \in Conns :
        /\ DOMAIN aged(conn[c]) = Fields /\ aged(conn[c]).pc = conn[c].pc
        /\ aged(conn[c]).tmp = conn[c].tmp /\ Timely(aged(conn[c]))
  <2> SUFFICES ASSUME NEW c \in Conns
               PROVE  /\ DOMAIN aged(conn[c]) = Fields /\ aged(conn[c]).pc = conn[c].pc
                      /\ aged(conn[c]).tmp = conn[c].tmp /\ Timely(aged(conn[c]))
    OBVIOUS
  <2>1. /\ DOMAIN conn[c] = Fields /\ Timely(conn[c])
        /\ conn[c].now \in 0..ReadTimeout /\ conn[c].lastActive \in Nat /\ conn[c].heard \in Nat
        /\ ReadTimeout \in Nat /\ HbTimeout \in Nat
    BY StandsFor
  <2> DEFINE n == IF conn[c].now < ReadTimeout THEN conn[c].now + 1 ELSE conn[c].now
             a == Older(conn[c].lastActive)
             h == Older(conn[c].heard)
             k == [conn[c] EXCEPT !.now = n, !.lastActive = a, !.heard = h]
  <2>2. /\ n \in 0..ReadTimeout /\ a \in Nat /\ h \in Nat
        /\ conn[c].lastActive <= conn[c].heard + ReadTimeout => a <= h + ReadTimeout
    BY <2>1 DEF Older
  <2>3. aged(conn[c]) = k
    OBVIOUS
  <2> HIDE DEF n, a, h
  <2>4. DOMAIN k = Fields /\ k.pc = conn[c].pc /\ k.tmp = conn[c].tmp /\ k.now = n
        /\ k.lastActive = a /\ k.heard = h
    BY <2>1 DEF Fields
  <2> HIDE DEF k
  <2>5. Timely(k)
    BY <2>1, <2>2, <2>4 DEF Timely
  <2> QED
    BY <2>3, <2>4, <2>5
<1> HIDE DEF aged
<1>3. /\ DOMAIN conn' = Conns
      /\ \A c \in Conns : /\ DOMAIN conn'[c] = Fields /\ Timely(conn'[c])
                          /\ conn'[c].pc = conn[c].pc /\ conn'[c].tmp = conn[c].tmp
  BY <1>1, <1>2, StandsFor
<1>4. Shape' /\ AllTimely'
  BY <1>1, <1>3 DEF IInv, Shape, AllTimely, Timely
<1>5. Counted' = Counted
  BY <1>3 DEF Counted
<1>6. Counts'
  BY <1>1, <1>3, <1>5 DEF IInv, Counts, Near
<1> QED
  BY <1>4, <1>6 DEF IInv

-----------------------------------------------------------------------------
LEMMA InitConn == Init => IInv
<1> SUFFICES ASSUME Init PROVE IInv
  OBVIOUS
<1>1. conn = [c \in Conns |-> NewConn] /\ clientCount = 0 /\ overlaps = 0
  BY DEF Init
<1>2. /\ DOMAIN NewConn = Fields /\ NewConn.pc = "new" /\ NewConn.now = 0
      /\ NewConn.lastActive = 0 /\ NewConn.heard = 0
  BY DEF NewConn, Fields
<1>3. Shape
  BY <1>1, <1>2 DEF Shape
<1>4. AllTimely
  BY <1>1, <1>2, TimeAssumption DEF AllTimely, Timely, Serving
<1>5. Cardinality(Counted) = 0
  <2>1. Counted = {}
    BY <1>1, <1>2, CountedIs DEF CountedPcs
  <2> QED
    BY <2>1, FS_EmptySet
<1>6. Near(clientCount)
  <2>1. 0 % 2^Width = 0 /\ 0 \in (-overlaps)..overlaps
    BY <1>1, RangeIs
  <2> QED
    BY <1>1, <1>5, <2>1 DEF Near
<1>7. Counts
  BY <1>1, <1>2, <1>6 DEF Counts, HalfPcs
<1> QED
  BY <1>3, <1>4, <1>7 DEF IInv

LEMMA NextConn == IInv /\ [Next]_vars => IInv'
<1> SUFFICES ASSUME IInv, [Next]_vars PROVE IInv'
  OBVIOUS
<1>1. CASE UNCHANGED vars
  BY <1>1 DEF vars, IInv, Shape, AllTimely, Timely, Counts, Near, Counted
<1>2. CASE Tick
  BY <1>2, TickKeeps
<1>3. ASSUME NEW c \in Conns,
             \/ Admit(c) \/ Refuse(c) \/ WaitInit(c) \/ WaitInitFails(c)
             \/ ReadCount(c) \/ Increment(c) \/ Decrement(c)
             \/ Iterate(c) \/ HeartbeatTimeout(c) \/ Leave(c) \/ CloseClient(c)
      PROVE  IInv'
  BY <1>3, AdmissionKeeps, ReadCountKeeps, IncrementKeeps, DecrementKeeps, LoopKeeps
<1>4. ASSUME NEW c \in Conns,
             \/ ReadNothing(c) \/ Heartbeat(c) \/ FirstByte(c)
             \/ \E n \in 0..HeadSize : ReadHeader(c, n)
             \/ TooBig(c) \/ EmptyMessage(c) \/ StartBody(c)
             \/ \E n \in 0..MaxBody : ReadBody(c, n)
             \/ HandleMessage(c) \/ UnknownMessage(c)
      PROVE  IInv'
  BY <1>4, FirstByteKeeps, ReadHeaderKeeps, HeaderKeeps, ReadBodyKeeps, HandleKeeps
<1> QED
  BY <1>1, <1>2, <1>3, <1>4 DEF Next

(* The inductive invariant is one, whatever the devices send and however   *)
(* the goroutines of handleConnection interleave.                          *)
THEOREM ConnectionInvariant == Spec => []IInv
<1> QED
  BY InitConn, NextConn, PTL DEF Spec

(* clientCount++ and clientCount-- are not atomic, but the count is wrong  *)
(* by no more than the updates that overlapped, for any number of          *)
(* connections and any width of the counter.                               *)
THEOREM DriftBoundedHolds == Spec => []DriftBounded
<1>1. IInv => DriftBounded
  BY DEF IInv, Counts, Near, DriftBounded
<1> QED
  BY <1>1, ConnectionInvariant, PTL

(* lastActive, which HeartbeatTimeout goes by, is never older than the     *)
(* last sign of life of the device by more than READ_HEADER_TIMEOUT.       *)
THEOREM ActiveFreshHolds == Spec => []ActiveFresh
<1>1. IInv => ActiveFresh
  BY DEF IInv, AllTimely, Timely, Serving, ActiveFresh
<1> QED
  BY <1>1, ConnectionInvariant, PTL

-----------------------------------------------------------------------------
(* Induction over the naturals, for a set of them: the least element of a  *)
(* set is found by the well-foundedness of the subsets of an interval.     *)
LEMMA Least ==
  ASSUME NEW T, T \subseteq Nat, T # {}
  PROVE  \E n \in T : \A k \in T : n <= k
<1>1. PICK t \in T : TRUE
  OBVIOUS
<1> DEFINE S == 0..t
           U == {u \in SUBSET S : \E k \in T : k <= t /\ u = 0..k}
<1>2. IsFiniteSet(S)
  BY <1>1, FS_Interval
<1>3. IsWellFoundedOn(StrictSubsetOrdering(S), SUBSET S)
  BY <1>2, FS_StrictSubsetOrderingWellFounded, FS_FiniteSubsetsOfFinite
<1>4. 0..t \in U
  BY <1>1
<1>5. U # {} /\ U \subseteq SUBSET S
  BY <1>4
<1> HIDE DEF S, U
<1>6. PICK u \in U : \A v \in U : <<v, u>> \notin StrictSubsetOrdering(S)
  BY <1>3, <1>5, WFMin
<1>7. PICK n \in T : n <= t /\ u = 0..n
  BY <1>6 DEF U
<1>8. ASSUME NEW k \in T, k < n
      PROVE  FALSE
  <2>1. 0..k \in SUBSET S
    BY <1>1, <1>7, <1>8 DEF S
  <2>2. 0..k \in U
    BY <1>1, <1>7, <1>8, <2>1 DEF U
  <2>3. 0..k \subseteq u /\ n \in u /\ n \notin 0..k
    BY <1>1, <1>7, <1>8
  <2>4. u \in SUBSET S
    BY <1>5
  <2>5. <<0..k, u>> \in StrictSubsetOrdering(S)
    BY <2>1, <2>3, <2>4 DEF StrictSubsetOrdering
  <2> QED
    BY <1>6, <2>2, <2>5
<1> QED
  BY <1>7, <1>8

LEMMA Induction ==
  ASSUME NEW T, 0 \in T, \A n \in Nat : n \in T => n + 1 \in T
  PROVE  Nat \subseteq T
<1> DEFINE R == Nat \ T
<1>1. SUFFICES ASSUME R # {} PROVE FALSE
  OBVIOUS
<1>2. PICK n \in R : \A k \in R : n <= k
  BY <1>1, Least
<1>3. n # 0 /\ n - 1 \in Nat /\ n - 1 \notin R
  BY <1>2
<1> QED
  BY <1>2, <1>3

-----------------------------------------------------------------------------
(* What FlattenSeq computes: the concatenations of the first sequences     *)
(* exist, are what its recursion defines, and each is one more sequence.   *)
Join(a, b) == a \o b

LEMMA JoinValues ==
  ASSUME NEW S, NEW s \in Seq(S)
  PROVE  Join(<<>>, s) = s /\ \A t \in Seq(S) : Join(s, t) \in Seq(S)
  BY ConcatEmptySeq, ConcatProperties DEF Join

(* What has been concatenated after i of the sequences.                    *)
Concatenated(S, s, n, f) ==
  /\ f \in [0..n -> Seq(S)] /\ f[0] = <<>>
  /\ \A i \in 1..n : f[i] = Join(f[i - 1], s[i])

LEMMA ConcatenatedExists ==
  ASSUME NEW S, NEW s \in Seq(Seq(S))
  PROVE  \E f : Concatenated(S, s, Len(s), f)
<1> DEFINE T == {n \in Nat : n <= Len(s) => \E f : Concatenated(S, s, n, f)}
<1>1. Len(s) \in Nat /\ \A i \in 1..Len(s) : s[i] \in Seq(S)
  BY LenProperties, ElementOfSeq
<1>2. 0 \in T
  <2> DEFINE f == [i \in 0..0 |-> <<>>]
  <2>1. <<>> \in Seq(S)
    BY EmptySeq
  <2>2. f \in [0..0 -> Seq(S)] /\ f[0] = <<>>
    BY <2>1
  <2>3. Concatenated(S, s, 0, f)
    BY <2>2 DEF Concatenated
  <2> QED
    BY <2>3
<1>3. ASSUME NEW n \in Nat, n \in T
      PROVE  n + 1 \in T
  <2> SUFFICES ASSUME n + 1 <= Len(s)
               PROVE  \E f : Concatenated(S, s, n + 1, f)
    OBVIOUS
  <2>1. PICK g : Concatenated(S, s, n, g)
    BY <1>1, <1>3
  <2> DEFINE f == [i \in 0..(n + 1) |-> IF i <= n THEN g[i] ELSE Join(g[n], s[n + 1])]
  <2>2. g \in [0..n -> Seq(S)] /\ g[n] \in Seq(S) /\ s[n + 1] \in Seq(S)
    BY <1>1, <2>1 DEF Concatenated
  <2>3. Join(g[n], s[n + 1]) \in Seq(S)
    BY <2>2, JoinValues
  <2>4. \A i \in 0..n : g[i] \in Seq(S)
    BY <2>2
  <2>5. f \in [0..(n + 1) -> Seq(S)]
    BY <2>3, <2>4
  <2>6. f[0] = <<>>
    BY <2>1 DEF Concatenated
  <2>7. ASSUME NEW i \in 1..(n + 1)
        PROVE  f[i] = Join(f[i - 1], s[i])
    <3>1. CASE i <= n
      <4>1. g[i] = Join(g[i - 1], s[i])
        BY <2>1, <3>1 DEF Concatenated
      <4>2. f[i] = g[i] /\ f[i - 1] = g[i - 1]
        BY <3>1
      <4> QED
        BY <4>1, <4>2
    <3>2. CASE i = n + 1
      <4>1. f[i] = Join(g[n], s[n + 1]) /\ f[i - 1] = g[n]
        BY <3>2
      <4> QED
        BY <3>2, <4>1
    <3> QED
      BY <3>1, <3>2
  <2> HIDE DEF f
  <2>8. Concatenated(S, s, n + 1, f)
    BY <2>5, <2>6, <2>7 DEF Concatenated
  <2> QED
    BY <2>8
<1>4. Nat \subseteq T
  <2> HIDE DEF T
  <2> QED
    BY <1>2, <1>3, Induction
<1> QED
  BY <1>1, <1>4

LEMMA FlattenIs ==
  ASSUME NEW S, NEW s \in Seq(Seq(S)), NEW f, Concatenated(S, s, Len(s), f)
  PROVE  FlattenSeq(s) = f[Len(s)]
<1>1. Len(s) \in Nat /\ \A i \in 1..Len(s) : s[i] \in Seq(S)
  BY LenProperties, ElementOfSeq
<1>2. CASE Len(s) = 0
  <2>1. s = <<>> /\ f[0] = <<>>
    BY <1>2, EmptySeq DEF Concatenated
  <2> QED
    BY <1>2, <2>1 DEF FlattenSeq
<1>3. CASE Len(s) # 0
  <2> DEFINE h == [i \in 1..Len(s) |-> f[i]]
  <2>1. \A i \in 1..Len(s) : h[i] = IF i = 1 THEN s[i] ELSE Join(h[i - 1], s[i])
    <3> SUFFICES ASSUME NEW i \in 1..Len(s)
                 PROVE  h[i] = IF i = 1 THEN s[i] ELSE Join(h[i - 1], s[i])
      OBVIOUS
    <3>1. f[i] = Join(f[i - 1], s[i]) /\ f[0] = <<>> /\ h[i] = f[i] /\ s[i] \in Seq(S)
      BY <1>1 DEF Concatenated
    <3>2. CASE i = 1
      BY <3>1, <3>2, JoinValues
    <3>3. CASE i # 1
      BY <1>1, <3>1, <3>3
    <3> QED
      BY <3>2, <3>3
  <2>2. h = [i \in 1..Len(s) |-> IF i = 1 THEN s[i] ELSE Join(h[i - 1], s[i])]
    BY <2>1
  <2>3. PICK g : /\ g = [i \in 1..Len(s) |-> IF i = 1 THEN s[i] ELSE Join(g[i - 1], s[i])]
                 /\ FlattenSeq(s) = g[Len(s)]
    <3> HIDE DEF h
    <3> QED
      BY <1>3, <2>2 DEF FlattenSeq, Join
  <2> DEFINE T == {n \in Nat : n \in 1..Len(s) => g[n] = f[n]}
  <2>4. 0 \in T
    OBVIOUS
  <2>5. ASSUME NEW n \in Nat, n \in T
        PROVE  n + 1 \in T
    <3> SUFFICES ASSUME n + 1 \in 1..Len(s)
                 PROVE  g[n + 1] = f[n + 1]
      OBVIOUS
    <3>1. /\ f[n + 1] = Join(f[n], s[n + 1]) /\ f[0] = <<>> /\ s[n + 1] \in Seq(S)
      BY <1>1 DEF Concatenated
    <3>2. g[n + 1] = IF n + 1 = 1 THEN s[n + 1] ELSE Join(g[n], s[n + 1])
      BY <2>3
    <3>3. CASE n = 0
      BY <3>1, <3>2, <3>3, JoinValues
    <3>4. CASE n # 0
      BY <1>1, <2>5, <3>1, <3>2, <3>4
    <3> QED
      BY <3>3, <3>4
  <2> HIDE DEF T
  <2>6. Nat \subseteq T
    BY <2>4, <2>5, Induction
  <2>7. Len(s) \in T
    BY <1>1, <2>6
  <2> QED
    BY <1>1, <1>3, <2>3, <2>7 DEF T
<1> QED
  BY <1>2, <1>3

(* FlattenSeq of one sequence more.                                        *)
LEMMA FlattenSteps ==
  ASSUME NEW S, NEW s \in Seq(Seq(S))
  PROVE  /\ \A n \in 0..Len(s) : FlattenSeq(SubSeq(s, 1, n)) \in Seq(S)
         /\ FlattenSeq(SubSeq(s, 1, 0)) = <<>>
         /\ \A n \in 0..(Len(s) - 1) :
              FlattenSeq(SubSeq(s, 1, n + 1)) = FlattenSeq(SubSeq(s, 1, n)) \o s[n + 1]
<1>1. Len(s) \in Nat /\ \A i \in 1..Len(s) : s[i] \in Seq(S)
  BY LenProperties, ElementOfSeq
<1>2. PICK f : Concatenated(S, s, Len(s), f)
  BY ConcatenatedExists
<1>3. ASSUME NEW n \in 0..Len(s)
      PROVE  FlattenSeq(SubSeq(s, 1, n)) = f[n]
  <2> DEFINE q == SubSeq(s, 1, n)
             g == [i \in 0..n |-> f[i]]
  <2>1. q \in Seq(Seq(S)) /\ Len(q) = n /\ \A i \in 1..n : q[i] = s[i]
    <3>1. \A i \in 1..n : s[i] \in Seq(S)
      BY <1>1
    <3>2. /\ SubSeq(s, 1, n) \in Seq(Seq(S))
          /\ Len(SubSeq(s, 1, n)) = IF 1 <= n THEN n - 1 + 1 ELSE 0
          /\ \A i \in 1 .. n - 1 + 1 : SubSeq(s, 1, n)[i] = s[1 + i - 1]
      BY <1>1, <3>1, SubSeqProperties
    <3> QED
      BY <1>1, <3>2
  <2>2. Concatenated(S, q, Len(q), g)
    <3>1. \A i \in 0..n : f[i] \in Seq(S)
      BY <1>1, <1>2 DEF Concatenated
    <3>2. g \in [0..n -> Seq(S)] /\ g[0] = <<>>
      BY <1>1, <1>2, <3>1 DEF Concatenated
    <3>3. \A i \in 1..n : g[i] = Join(g[i - 1], q[i])
      BY <1>1, <1>2, <2>1 DEF Concatenated
    <3> HIDE DEF g, q
    <3> QED
      BY <2>1, <3>2, <3>3 DEF Concatenated
  <2>3. g[Len(q)] = f[n]
    BY <1>1, <2>1
  <2> HIDE DEF q, g
  <2>4. FlattenSeq(q) = f[n]
    BY <2>1, <2>2, <2>3, FlattenIs
  <2> QED
    BY <2>4 DEF q
<1>4. FlattenSeq(SubSeq(s, 1, 0)) = f[0] /\ f[0] = <<>>
  BY <1>1, <1>2, <1>3 DEF Concatenated
<1>5. \A n \in 0..Len(s) : FlattenSeq(SubSeq(s, 1, n)) \in Seq(S)
  BY <1>2, <1>3 DEF Concatenated
<1>6. ASSUME NEW n \in 0..(Len(s) - 1)
      PROVE  FlattenSeq(SubSeq(s, 1, n + 1)) = FlattenSeq(SubSeq(s, 1, n)) \o s[n + 1]
  <2>1. f[n + 1] = Join(f[n], s[n + 1])
    BY <1>1, <1>2 DEF Concatenated
  <2>2. n \in 0..Len(s) /\ n + 1 \in 0..Len(s)
    BY <1>1
  <2>3. FlattenSeq(SubSeq(s, 1, n + 1)) = Join(FlattenSeq(SubSeq(s, 1, n)), s[n + 1])
    BY <1>3, <2>1, <2>2
  <2> QED
    BY <2>3 DEF Join
<1> QED
  BY <1>4, <1>5, <1>6


(* A sequence is a beginning of another one.                               *)
Begins(a, b) == Len(a) <= Len(b) /\ \A p \in 1..Len(a) : a[p] = b[p]

LEMMA BeginsConcat ==
  ASSUME NEW S, NEW a \in Seq(S), NEW b \in Seq(S), NEW e \in Seq(S), Begins(a, b)
  PROVE  Begins(a, b \o e)
<1>1. /\ Len(b \o e) = Len(b) + Len(e)
      /\ \A i \in 1..(Len(b) + Len(e)) :
           (b \o e)[i] = IF i <= Len(b) THEN b[i] ELSE e[i - Len(b)]
  BY ConcatProperties
<1>2. Len(a) \in Nat /\ Len(b) \in Nat /\ Len(e) \in Nat
  BY LenProperties
<1>3. \A i \in 1..Len(a) : (b \o e)[i] = b[i]
  BY <1>1, <1>2 DEF Begins
<1> QED
  BY <1>1, <1>2, <1>3 DEF Begins

LEMMA FlattenBegins ==
  ASSUME NEW S, NEW s \in Seq(Seq(S)), NEW n \in 0..Len(s)
  PROVE  Begins(FlattenSeq(SubSeq(s, 1, n)), FlattenSeq(s))
<1> DEFINE F(k) == FlattenSeq(SubSeq(s, 1, k))
           T == {k \in Nat : n + k <= Len(s) => Begins(F(n), F(n + k))}
<1>1. Len(s) \in Nat /\ \A i \in 1..Len(s) : s[i] \in Seq(S)
  BY LenProperties, ElementOfSeq
<1>2. /\ \A k \in 0..Len(s) : F(k) \in Seq(S)
      /\ \A k \in 0..(Len(s) - 1) : F(k + 1) = F(k) \o s[k + 1]
  BY FlattenSteps
<1> HIDE DEF F
<1>3. 0 \in T
  BY <1>1 DEF Begins
<1>4. ASSUME NEW k \in Nat, k \in T
      PROVE  k + 1 \in T
  <2> SUFFICES ASSUME n + (k + 1) <= Len(s)
               PROVE  Begins(F(n), F(n + (k + 1)))
    OBVIOUS
  <2>1. /\ Begins(F(n), F(n + k)) /\ F(n) \in Seq(S) /\ F(n + k) \in Seq(S)
        /\ s[n + k + 1] \in Seq(S)
    BY <1>1, <1>2, <1>4
  <2>2. n + k \in 0..(Len(s) - 1) /\ (n + k) + 1 = n + (k + 1)
    BY <1>1
  <2>3. F(n + (k + 1)) = F(n + k) \o s[n + k + 1]
    BY <1>2, <2>2
  <2> QED
    BY <2>1, <2>3, BeginsConcat
<1>5. Nat \subseteq T
  <2> HIDE DEF T
  <2> QED
    BY <1>3, <1>4, Induction
<1>6. Len(s) - n \in Nat /\ n + (Len(s) - n) = Len(s)
  BY <1>1
<1>8. Begins(F(n), F(n + (Len(s) - n)))
  <2>1. Len(s) - n \in T
    BY <1>5, <1>6
  <2> QED
    BY <1>1, <1>6, <2>1
<1>7. SubSeq(s, 1, Len(s)) = s
  BY SubSeqFull
<1> QED
  BY <1>6, <1>7, <1>8 DEF F

-----------------------------------------------------------------------------
(* The stream of a device.                                                 *)
MessageType == [type : Nat, len : Nat]

Size(m) == IF m.type = 0 THEN 1 ELSE HeadSize + m.len

LEMMA BytesOfIs ==
  ASSUME NEW m \in MessageType
  PROVE  /\ BytesOf(m) \in Seq(Nat) /\ Len(BytesOf(m)) = Size(m) /\ Size(m) \in Nat \ {0}
         /\ BytesOf(m)[1] = m.type
         /\ m.type # 0 => /\ BytesOf(m)[HeadSize] = m.len
                          /\ \A q \in (HeadSize + 1)..(HeadSize + m.len) : BytesOf(m)[q] = m.type
<1>1. HeadSize \in Nat /\ HeadSize > 1 /\ m.type \in Nat /\ m.len \in Nat
  BY SizeAssumption DEF MessageType
<1>2. CASE m.type = 0
  BY <1>2 DEF BytesOf, Size
<1>3. CASE m.type # 0
  <2> DEFINE n == HeadSize + m.len
             e(i) == IF i = 1 \/ i > HeadSize THEN m.type ELSE IF i = HeadSize THEN m.len ELSE 0
             b == [i \in 1..n |-> e(i)]
  <2>1. BytesOf(m) = b
    BY <1>3 DEF BytesOf
  <2>2. n \in Nat /\ b \in [1..n -> Nat]
    BY <1>1
  <2>3. b \in Seq(Nat) /\ Len(b) = n
    <3> HIDE DEF b, n
    <3> QED
      BY <2>2
  <2>4. /\ b[1] = m.type /\ b[HeadSize] = m.len
        /\ \A q \in (HeadSize + 1)..(HeadSize + m.len) : b[q] = m.type
    BY <1>1
  <2> QED
    BY <1>1, <1>3, <2>1, <2>3, <2>4 DEF Size
<1> QED
  BY <1>2, <1>3

Streams(ms) == [i \in DOMAIN ms |-> BytesOf(ms[i])]
Results(ms) == [i \in DOMAIN ms |-> HandledOf(ms[i])]

(* The number of bytes of the first i messages.                            *)
Sent(ms, i) == Len(Bytes(SubSeq(ms, 1, i)))

LEMMA SubSeqFrom1 ==
  ASSUME NEW S, NEW s \in Seq(S), NEW n \in 0..Len(s)
  PROVE  /\ SubSeq(s, 1, n) \in Seq(S) /\ Len(SubSeq(s, 1, n)) = n
         /\ DOMAIN SubSeq(s, 1, n) = 1..n
         /\ \A i \in 1..n : SubSeq(s, 1, n)[i] = s[i]
<1>1. Len(s) \in Nat /\ \A i \in 1..n : s[i] \in S
  BY LenProperties, ElementOfSeq
<1>2. /\ SubSeq(s, 1, n) \in Seq(S)
      /\ Len(SubSeq(s, 1, n)) = IF 1 <= n THEN n - 1 + 1 ELSE 0
      /\ \A i \in 1 .. n - 1 + 1 : SubSeq(s, 1, n)[i] = s[1 + i - 1]
  BY <1>1, SubSeqProperties
<1>3. n - 1 + 1 = n /\ n \in Nat
  BY <1>1
<1>4. Len(SubSeq(s, 1, n)) = n
  BY <1>2, <1>3
<1> QED
  BY <1>2, <1>3, <1>4, LenProperties

LEMMA StreamsOf ==
  ASSUME NEW ms \in Seq(MessageType), NEW n \in 0..Len(ms)
  PROVE  /\ Streams(ms) \in Seq(Seq(Nat)) /\ Len(Streams(ms)) = Len(ms)
         /\ Bytes(SubSeq(ms, 1, n)) = FlattenSeq(SubSeq(Streams(ms), 1, n))
<1>1. Len(ms) \in Nat /\ DOMAIN ms = 1..Len(ms) /\ \A i \in 1..Len(ms) : ms[i] \in MessageType
  BY LenProperties, ElementOfSeq
<1>2. Streams(ms) \in [1..Len(ms) -> Seq(Nat)]
  BY <1>1, BytesOfIs DEF Streams
<1>3. Streams(ms) \in Seq(Seq(Nat)) /\ Len(Streams(ms)) = Len(ms)
  BY <1>1, <1>2
<1>4. /\ DOMAIN SubSeq(ms, 1, n) = 1..n
      /\ \A i \in 1..n : SubSeq(ms, 1, n)[i] = ms[i]
  BY SubSeqFrom1
<1>5. /\ DOMAIN SubSeq(Streams(ms), 1, n) = 1..n
      /\ \A i \in 1..n : SubSeq(Streams(ms), 1, n)[i] = Streams(ms)[i]
      /\ SubSeq(Streams(ms), 1, n) \in Seq(Seq(Nat))
  BY <1>3, SubSeqFrom1
<1>6. \A i \in 1..n : Streams(ms)[i] = BytesOf(ms[i])
  BY <1>1 DEF Streams
<1>7. [i \in DOMAIN SubSeq(ms, 1, n) |-> BytesOf(SubSeq(ms, 1, n)[i])] = SubSeq(Streams(ms), 1, n)
  <2> DEFINE a == SubSeq(ms, 1, n)
             b == SubSeq(Streams(ms), 1, n)
  <2>1. b = [i \in 1..n |-> b[i]]
    BY <1>5, LenProperties
  <2> HIDE DEF a, b
  <2>2. [i \in DOMAIN a |-> BytesOf(a[i])] = [i \in 1..n |-> b[i]]
    BY <1>4, <1>5, <1>6 DEF a, b
  <2> QED
    BY <2>1, <2>2 DEF a, b
<1> QED
  BY <1>3, <1>7 DEF Bytes

LEMMA ResultsOf ==
  ASSUME NEW ms \in Seq(MessageType), NEW n \in 0..Len(ms)
  PROVE  /\ Results(ms) \in Seq(Seq(Nat \X Seq(Nat))) /\ Len(Results(ms)) = Len(ms)
         /\ Handled(SubSeq(ms, 1, n)) = FlattenSeq(SubSeq(Results(ms), 1, n))
<1>1. Len(ms) \in Nat /\ DOMAIN ms = 1..Len(ms) /\ \A i \in 1..Len(ms) : ms[i] \in MessageType
  BY LenProperties, ElementOfSeq
<1>2. Results(ms) \in [1..Len(ms) -> Seq(Nat \X Seq(Nat))]
  <2> SUFFICES ASSUME NEW i \in 1..Len(ms)
               PROVE  HandledOf(ms[i]) \in Seq(Nat \X Seq(Nat))
    BY <1>1 DEF Results
  <2>1. ms[i].type \in Nat /\ ms[i].len \in Nat
    BY <1>1 DEF MessageType
  <2>2. Body(ms[i]) \in Seq(Nat)
    BY <2>1 DEF Body
  <2>3. <<ms[i].type, Body(ms[i])>> \in Nat \X Seq(Nat)
    BY <2>1, <2>2
  <2> DEFINE e == <<ms[i].type, Body(ms[i])>>
             S == Nat \X Seq(Nat)
  <2>4. HandledOf(ms[i]) = <<e>> \/ HandledOf(ms[i]) = <<>>
    BY DEF HandledOf
  <2>5. e \in S
    BY <2>3
  <2> HIDE DEF e, S
  <2>6. <<e>> \in Seq(S) /\ <<>> \in Seq(S)
    BY <2>5, EmptySeq
  <2>7. HandledOf(ms[i]) \in Seq(S)
    BY <2>4, <2>6
  <2> QED
    BY <2>7 DEF S
<1>3. Results(ms) \in Seq(Seq(Nat \X Seq(Nat))) /\ Len(Results(ms)) = Len(ms)
  BY <1>1, <1>2
<1>4. /\ DOMAIN SubSeq(ms, 1, n) = 1..n
      /\ \A i \in 1..n : SubSeq(ms, 1, n)[i] = ms[i]
  BY SubSeqFrom1
<1>5. /\ DOMAIN SubSeq(Results(ms), 1, n) = 1..n
      /\ \A i \in 1..n : SubSeq(Results(ms), 1, n)[i] = Results(ms)[i]
      /\ SubSeq(Results(ms), 1, n) \in Seq(Seq(Nat \X Seq(Nat)))
  BY <1>3, SubSeqFrom1
<1>6. \A i \in 1..n : Results(ms)[i] = HandledOf(ms[i])
  BY <1>1 DEF Results
<1>7. [i \in DOMAIN SubSeq(ms, 1, n) |-> HandledOf(SubSeq(ms, 1, n)[i])] = SubSeq(Results(ms), 1, n)
  <2> DEFINE a == SubSeq(ms, 1, n)
             b == SubSeq(Results(ms), 1, n)
  <2>1. b = [i \in 1..n |-> b[i]]
    BY <1>5, LenProperties
  <2> HIDE DEF a, b
  <2>2. [i \in DOMAIN a |-> HandledOf(a[i])] = [i \in 1..n |-> b[i]]
    BY <1>4, <1>5, <1>6 DEF a, b
  <2> QED
    BY <2>1, <2>2 DEF a, b
<1> QED
  BY <1>3, <1>7 DEF Handled

(* Where the bytes of a message are in the stream of its device.           *)
LEMMA StreamSteps ==
  ASSUME NEW ms \in Seq(MessageType)
  PROVE  /\ Bytes(ms) \in Seq(Nat) /\ Sent(ms, 0) = 0 /\ Sent(ms, Len(ms)) = Len(Bytes(ms))
         /\ \A n \in 0..Len(ms) : Sent(ms, n) \in 0..Len(Bytes(ms))
         /\ \A n \in 0..(Len(ms) - 1) :
              /\ Sent(ms, n + 1) = Sent(ms, n) + Size(ms[n + 1])
              /\ \A q \in 1..Size(ms[n + 1]) :
                   Bytes(ms)[Sent(ms, n) + q] = BytesOf(ms[n + 1])[q]
<1> DEFINE s == Streams(ms)
           F(n) == FlattenSeq(SubSeq(s, 1, n))
<1>1. Len(ms) \in Nat /\ DOMAIN ms = 1..Len(ms) /\ \A i \in 1..Len(ms) : ms[i] \in MessageType
  BY LenProperties, ElementOfSeq
<1>2. s \in Seq(Seq(Nat)) /\ Len(s) = Len(ms)
  BY <1>1, StreamsOf
<1>3. \A n \in 0..Len(ms) : Bytes(SubSeq(ms, 1, n)) = F(n)
  BY StreamsOf
<1>4. \A i \in 1..Len(ms) : s[i] = BytesOf(ms[i])
  BY <1>1 DEF Streams
<1>5. SubSeq(ms, 1, Len(ms)) = ms /\ SubSeq(s, 1, Len(s)) = s
  BY <1>2, SubSeqFull
<1>6. Bytes(ms) = F(Len(ms)) /\ FlattenSeq(s) = F(Len(ms))
  <2>1. Len(ms) \in 0..Len(ms)
    BY <1>1
  <2> QED
    BY <1>2, <1>3, <1>5, <2>1
<1>7. /\ \A n \in 0..Len(ms) : F(n) \in Seq(Nat)
      /\ F(0) = <<>>
      /\ \A n \in 0..(Len(ms) - 1) : F(n + 1) = F(n) \o s[n + 1]
  BY <1>2, FlattenSteps
<1>8. \A n \in 0..Len(ms) : Begins(F(n), Bytes(ms))
  BY <1>2, <1>6, FlattenBegins
<1>9. \A n \in 0..Len(ms) : Sent(ms, n) = Len(F(n))
  BY <1>3 DEF Sent
<1> HIDE DEF F, s
<1>10. ASSUME NEW n \in 0..Len(ms)
       PROVE  Sent(ms, n) \in 0..Len(Bytes(ms))
  <2>1. F(n) \in Seq(Nat) /\ Len(F(n)) <= Len(Bytes(ms)) /\ Bytes(ms) \in Seq(Nat)
    BY <1>1, <1>6, <1>7, <1>8 DEF Begins
  <2>2. Len(F(n)) \in Nat /\ Len(Bytes(ms)) \in Nat
    BY <2>1, LenProperties
  <2> QED
    BY <1>9, <2>1, <2>2
<1>11. ASSUME NEW n \in 0..(Len(ms) - 1)
       PROVE  /\ Sent(ms, n + 1) = Sent(ms, n) + Size(ms[n + 1])
              /\ \A q \in 1..Size(ms[n + 1]) :
                   Bytes(ms)[Sent(ms, n) + q] = BytesOf(ms[n + 1])[q]
  <2> DEFINE b == BytesOf(ms[n + 1])
  <2>1. n \in 0..Len(ms) /\ n + 1 \in 0..Len(ms) /\ n + 1 \in 1..Len(ms)
    BY <1>1
  <2>2. b \in Seq(Nat) /\ Len(b) = Size(ms[n + 1]) /\ Size(ms[n + 1]) \in Nat /\ s[n + 1] = b
    BY <1>1, <1>4, <2>1, BytesOfIs
  <2> HIDE DEF b
  <2>3. /\ F(n) \in Seq(Nat) /\ F(n + 1) = F(n) \o b
        /\ Begins(F(n + 1), Bytes(ms))
    BY <1>7, <1>8, <2>1, <2>2
  <2>4. /\ Len(F(n + 1)) = Len(F(n)) + Len(b)
        /\ \A i \in 1..(Len(F(n)) + Len(b)) :
             F(n + 1)[i] = IF i <= Len(F(n)) THEN F(n)[i] ELSE b[i - Len(F(n))]
    BY <2>2, <2>3, ConcatProperties
  <2>5. Len(F(n)) \in Nat /\ Sent(ms, n) = Len(F(n)) /\ Sent(ms, n + 1) = Len(F(n + 1))
    BY <1>9, <2>1, <2>3, LenProperties
  <2>6. ASSUME NEW q \in 1..Size(ms[n + 1])
        PROVE  Bytes(ms)[Sent(ms, n) + q] = b[q]
    <3>1. Sent(ms, n) + q \in 1..Len(F(n + 1)) /\ ~(Sent(ms, n) + q <= Len(F(n)))
          /\ (Sent(ms, n) + q) - Len(F(n)) = q
      BY <2>2, <2>4, <2>5
    <3>2. Bytes(ms)[Sent(ms, n) + q] = F(n + 1)[Sent(ms, n) + q]
      BY <2>3, <3>1 DEF Begins
    <3> QED
      BY <2>4, <3>1, <3>2
  <2> QED
    BY <2>2, <2>4, <2>5, <2>6 DEF b
<1>12. Sent(ms, 0) = 0 /\ Sent(ms, Len(ms)) = Len(Bytes(ms))
  <2>1. 0 \in 0..Len(ms) /\ Len(ms) \in 0..Len(ms)
    BY <1>1
  <2> QED
    BY <1>6, <1>7, <1>9, <2>1, EmptySeq
<1>13. Bytes(ms) \in Seq(Nat)
  BY <1>1, <1>6, <1>7
<1> QED
  BY <1>10, <1>11, <1>12, <1>13

(* What handlers get of one message more.                                  *)
LEMMA HandledSteps ==
  ASSUME NEW ms \in Seq(MessageType)
  PROVE  /\ Handled(SubSeq(ms, 1, 0)) = <<>>
         /\ \A n \in 0..Len(ms) : IsPrefix(Handled(SubSeq(ms, 1, n)), Handled(ms))
         /\ \A n \in 0..(Len(ms) - 1) :
              Handled(SubSeq(ms, 1, n + 1)) = Handled(SubSeq(ms, 1, n)) \o HandledOf(ms[n + 1])
         /\ \A n \in 0..Len(ms) : Handled(SubSeq(ms, 1, n)) \in Seq(Nat \X Seq(Nat))
<1> DEFINE s == Results(ms)
           S == Nat \X Seq(Nat)
           F(n) == FlattenSeq(SubSeq(s, 1, n))
<1>1. Len(ms) \in Nat /\ DOMAIN ms = 1..Len(ms)
  BY LenProperties
<1>2. s \in Seq(Seq(S)) /\ Len(s) = Len(ms)
  BY <1>1, ResultsOf
<1>3. \A n \in 0..Len(ms) : Handled(SubSeq(ms, 1, n)) = F(n)
  BY ResultsOf
<1>4. \A i \in 1..Len(ms) : s[i] = HandledOf(ms[i])
  BY <1>1 DEF Results
<1>5. SubSeq(ms, 1, Len(ms)) = ms /\ SubSeq(s, 1, Len(s)) = s
  BY <1>2, SubSeqFull
<1>6. Handled(ms) = F(Len(ms)) /\ FlattenSeq(s) = F(Len(ms))
  <2>1. Len(ms) \in 0..Len(ms)
    BY <1>1
  <2> QED
    BY <1>2, <1>3, <1>5, <2>1
<1> HIDE DEF S
<1>7. /\ \A n \in 0..Len(ms) : F(n) \in Seq(S)
      /\ F(0) = <<>>
      /\ \A n \in 0..(Len(ms) - 1) : F(n + 1) = F(n) \o s[n + 1]
  BY <1>2, FlattenSteps
<1>8. \A n \in 0..Len(ms) : Begins(F(n), Handled(ms))
  BY <1>2, <1>6, FlattenBegins
<1> HIDE DEF F, s
<1>9. ASSUME NEW n \in 0..Len(ms)
      PROVE  IsPrefix(Handled(SubSeq(ms, 1, n)), Handled(ms))
  <2> DEFINE a == F(n)
             b == Handled(ms)
  <2>1. a \in Seq(S) /\ b \in Seq(S) /\ Begins(a, b)
    BY <1>1, <1>6, <1>7, <1>8
  <2> HIDE DEF a, b
  <2>2. Len(a) \in Nat /\ Len(b) \in Nat /\ Len(a) \in 0..Len(b)
    BY <2>1, LenProperties DEF Begins
  <2>3. SubSeq(a, 1, Len(a)) = a
    BY <2>1, SubSeqFull
  <2>4. /\ SubSeq(b, 1, Len(a)) \in Seq(S) /\ Len(SubSeq(b, 1, Len(a))) = Len(a)
        /\ \A i \in 1..Len(a) : SubSeq(b, 1, Len(a))[i] = b[i]
    BY <2>1, <2>2, SubSeqFrom1
  <2>5. a = SubSeq(b, 1, Len(a))
    BY <2>1, <2>4, SeqEqual DEF Begins
  <2>6. IsPrefix(a, b)
    BY <2>1, <2>3, <2>5 DEF Begins, IsPrefix
  <2> QED
    BY <1>3, <2>6 DEF a, b
<1>10. ASSUME NEW n \in 0..(Len(ms) - 1)
       PROVE  Handled(SubSeq(ms, 1, n + 1)) = Handled(SubSeq(ms, 1, n)) \o HandledOf(ms[n + 1])
  <2>1. n \in 0..Len(ms) /\ n + 1 \in 0..Len(ms) /\ n + 1 \in 1..Len(ms)
    BY <1>1
  <2>2. F(n + 1) = F(n) \o s[n + 1] /\ s[n + 1] = HandledOf(ms[n + 1])
    BY <1>4, <1>7, <2>1
  <2>3. Handled(SubSeq(ms, 1, n + 1)) = F(n + 1) /\ Handled(SubSeq(ms, 1, n)) = F(n)
    BY <1>3, <2>1
  <2> QED
    BY <2>2, <2>3
<1>11. Handled(SubSeq(ms, 1, 0)) = <<>>
  <2>1. 0 \in 0..Len(ms)
    BY <1>1
  <2> QED
    BY <1>3, <1>7, <2>1
<1>12. \A n \in 0..Len(ms) : Handled(SubSeq(ms, 1, n)) \in Seq(S)
  BY <1>3, <1>7
<1> QED
  BY <1>9, <1>10, <1>11, <1>12 DEF S

-----------------------------------------------------------------------------
(* The inductive invariant of the framing: what a connection has read of   *)
(* the bytes of its device is some whole messages, of which handlers have  *)
(* got theirs, and a part of the next one.                                 *)
Rest(s, n) == SubSeq(s, n + 1, Len(s))

Offset(k) == IF k.step = 2 THEN HeadSize + k.nRead ELSE k.nRead

Idle(k) == k.step = 0 /\ k.nRead = 0 /\ k.data = <<>>

InHeader(m, k) ==
  /\ k.step = 1 /\ k.type = m.type /\ m.type # 0 /\ k.data = <<>>
  /\ \/ k.pc \in {"top", "read"} /\ k.nRead \in 1..(HeadSize - 1)
     \/ k.pc = "header" /\ k.nRead = HeadSize /\ k.len = m.len

InBody(m, k) ==
  /\ k.step = 2 /\ k.type = m.type /\ m.type # 0
  /\ k.len = m.len /\ m.len \in 1..MaxBody
  /\ k.nRead \in 0..m.len /\ k.data = [j \in 1..k.nRead |-> m.type]
  /\ \/ k.pc \in {"top", "read"} /\ k.nRead < m.len
     \/ k.pc = "handle" /\ k.nRead = m.len

ReadAfter(ms, i, k) ==
  /\ k.net = Rest(Bytes(ms), Sent(ms, i) + Offset(k))
  /\ \/ k.pc \in {"top", "read"} /\ Idle(k)
     \/ i < Len(ms) /\ (InHeader(ms[i + 1], k) \/ InBody(ms[i + 1], k))

Early == {"init", "add", "added"}
Late == {"leave", "sub", "subbed", "closed"}

Framing(ms, h, k) ==
  \/ k.pc = "new" /\ Idle(k) /\ h = <<>>
  \/ k.pc \in Early /\ Idle(k) /\ k.net = Bytes(ms) /\ h = <<>>
  \/ \E i \in 0..Len(ms) : h = Handled(SubSeq(ms, 1, i)) /\ ReadAfter(ms, i, k)
  \/ k.pc \in Late /\ IsPrefix(h, Handled(ms))

FrameInv ==
  /\ plan \in Plans /\ DOMAIN handled = Conns
  /\ \A c \in Conns : Framing(plan[c], handled[c], conn[c])

LEMMA RestIs ==
  ASSUME NEW S, NEW s \in Seq(S), NEW n \in 0..Len(s)
  PROVE  /\ Rest(s, n) \in Seq(S) /\ Len(Rest(s, n)) = Len(s) - n
         /\ \A q \in 1..(Len(s) - n) : Rest(s, n)[q] = s[n + q]
<1>1. Len(s) \in Nat /\ \A i \in 1..Len(s) : s[i] \in S
  BY LenProperties, ElementOfSeq
<1>2. /\ Rest(s, n) \in Seq(S)
      /\ Len(Rest(s, n)) = IF n + 1 <= Len(s) THEN Len(s) - (n + 1) + 1 ELSE 0
      /\ \A i \in 1 .. Len(s) - (n + 1) + 1 : Rest(s, n)[i] = s[(n + 1) + i - 1]
  <2>1. \A i \in (n + 1)..Len(s) : s[i] \in S
    BY <1>1
  <2> QED
    BY <1>1, <2>1, SubSeqProperties DEF Rest
<1>3. Len(s) - (n + 1) + 1 = Len(s) - n
  BY <1>1
<1>4. \A i \in 1..(Len(s) - n) : (n + 1) + i - 1 = n + i
  BY <1>1
<1>5. Len(Rest(s, n)) = Len(s) - n
  BY <1>1, <1>2
<1>6. ASSUME NEW q \in 1..(Len(s) - n)
      PROVE  Rest(s, n)[q] = s[n + q]
  <2>1. Rest(s, n)[q] = s[(n + 1) + q - 1]
    BY <1>2, <1>3
  <2> QED
    BY <1>4, <2>1
<1> QED
  BY <1>2, <1>5, <1>6

LEMMA RestOfRest ==
  ASSUME NEW S, NEW s \in Seq(S), NEW n \in 0..Len(s), NEW m \in 0..(Len(s) - n)
  PROVE  Rest(Rest(s, n), m) = Rest(s, n + m)
<1> DEFINE a == Rest(s, n)
<1>1. Len(s) \in Nat
  BY LenProperties
<1>2. a \in Seq(S) /\ Len(a) = Len(s) - n /\ \A q \in 1..(Len(s) - n) : a[q] = s[n + q]
  BY RestIs
<1>3. n + m \in 0..Len(s) /\ Len(s) - (n + m) = (Len(s) - n) - m
  BY <1>1
<1>4. /\ Rest(s, n + m) \in Seq(S) /\ Len(Rest(s, n + m)) = Len(s) - (n + m)
      /\ \A q \in 1..(Len(s) - (n + m)) : Rest(s, n + m)[q] = s[(n + m) + q]
  BY <1>3, RestIs
<1> HIDE DEF a
<1>5. /\ Rest(a, m) \in Seq(S) /\ Len(Rest(a, m)) = Len(a) - m
      /\ \A q \in 1..(Len(a) - m) : Rest(a, m)[q] = a[m + q]
  <2>1. m \in 0..Len(a)
    BY <1>2
  <2> QED
    BY <1>2, <2>1, RestIs
<1>6. ASSUME NEW q \in 1..(Len(a) - m)
      PROVE  Rest(a, m)[q] = Rest(s, n + m)[q]
  <2>1. m + q \in 1..(Len(s) - n) /\ q \in 1..(Len(s) - (n + m)) /\ n + (m + q) = (n + m) + q
    BY <1>1, <1>2
  <2> QED
    BY <1>2, <1>4, <1>5, <2>1
<1>7. Rest(a, m) = Rest(s, n + m)
  BY <1>2, <1>3, <1>4, <1>5, <1>6, SeqEqual
<1> QED
  BY <1>7 DEF a

LEMMA RestOne ==
  ASSUME NEW S, NEW s \in Seq(S), Len(s) # 0
  PROVE  Tail(s) = Rest(s, 1) /\ Head(s) = s[1]
<1>1. Len(s) \in Nat
  BY LenProperties
<1>2. 1 \in 0..Len(s)
  BY <1>1
<1>3. /\ Rest(s, 1) \in Seq(S) /\ Len(Rest(s, 1)) = Len(s) - 1
      /\ \A q \in 1..(Len(s) - 1) : Rest(s, 1)[q] = s[1 + q]
  BY <1>2, RestIs
<1>4. /\ Tail(s) \in Seq(S) /\ Len(Tail(s)) = Len(s) - 1 /\ Head(s) = s[1]
      /\ \A q \in 1..(Len(s) - 1) : Tail(s)[q] = s[q + 1]
  BY HeadTailProperties, <1>1, EmptySeq
<1>5. \A q \in 1..(Len(s) - 1) : q + 1 = 1 + q
  BY <1>1
<1> QED
  BY <1>3, <1>4, <1>5, SeqEqual

(* What holds of the parameters and of the plan of a device.               *)
LEMMA PlanOf ==
  ASSUME FrameInv, NEW c \in Conns
  PROVE  /\ plan[c] \in Seq(MessageType) /\ Framing(plan[c], handled[c], conn[c])
         /\ HeadSize \in Nat /\ HeadSize > 1 /\ MaxBody \in Nat
  BY PlansAssumption, SizeAssumption DEF FrameInv, MessageType

LEMMA MessageIs ==
  ASSUME NEW ms \in Seq(MessageType), NEW i \in 0..Len(ms)
  PROVE  /\ Len(ms) \in Nat
         /\ i < Len(ms) => /\ ms[i + 1] \in MessageType /\ i \in 0..(Len(ms) - 1)
                           /\ i + 1 \in 0..Len(ms)
                           /\ ms[i + 1].type \in Nat /\ ms[i + 1].len \in Nat
<1>1. Len(ms) \in Nat /\ \A q \in 1..Len(ms) : ms[q] \in MessageType
  BY LenProperties, ElementOfSeq
<1>2. i < Len(ms) => i + 1 \in 1..Len(ms)
  BY <1>1
<1> QED
  BY <1>1, <1>2 DEF MessageType

-----------------------------------------------------------------------------
(* Steps of one connection.                                                *)
LEMMA FrameStep ==
  ASSUME Shape, FrameInv, NEW c \in Conns, NEW k, NEW h, conn' = [conn EXCEPT ![c] = k],
         plan' = plan, handled' = [handled EXCEPT ![c] = h], Framing(plan[c], h, k)
  PROVE  FrameInv'
<1>1. DOMAIN conn = Conns /\ DOMAIN handled = Conns
  BY DEF Shape, FrameInv
<1>2. \A o \in Conns : Framing(plan'[o], handled'[o], conn'[o])
  <2> TAKE o \in Conns
  <2>1. CASE o = c
    BY <1>1, <2>1
  <2>2. CASE o # c
    <3>1. conn'[o] = conn[o] /\ handled'[o] = handled[o] /\ plan'[o] = plan[o]
      BY <1>1, <2>2
    <3> QED
      BY <3>1 DEF FrameInv
  <2> QED
    BY <2>1, <2>2
<1>3. plan' \in Plans /\ DOMAIN handled' = Conns
  BY <1>1 DEF FrameInv
<1> QED
  BY <1>2, <1>3 DEF FrameInv, Framing, ReadAfter, Offset, Idle, InHeader, InBody

LEMMA FrameStepOnly ==
  ASSUME Shape, FrameInv, NEW c \in Conns, NEW k, conn' = [conn EXCEPT ![c] = k],
         UNCHANGED <<plan, handled>>, Framing(plan[c], handled[c], k)
  PROVE  FrameInv'
<1>1. DOMAIN conn = Conns /\ DOMAIN handled = Conns
  BY DEF Shape, FrameInv
<1>2. \A o \in Conns : Framing(plan[o], handled[o], conn'[o])
  <2> TAKE o \in Conns
  <2>1. CASE o = c
    BY <1>1, <2>1
  <2>2. CASE o # c
    BY <1>1, <2>2 DEF FrameInv
  <2> QED
    BY <2>1, <2>2
<1> QED
  BY <1>1, <1>2 DEF FrameInv

(* A step that reads nothing.                                              *)
Reader(k) == <<k.net, k.step, k.nRead, k.type, k.len, k.data>>

LEMMA SameFrame ==
  ASSUME NEW ms, NEW h, NEW k, NEW l, Framing(ms, h, k), Reader(l) = Reader(k),
         \/ l.pc = k.pc
         \/ {l.pc, k.pc} \subseteq {"top", "read"}
         \/ {l.pc, k.pc} \subseteq Early
         \/ {l.pc, k.pc} \subseteq Late
  PROVE  Framing(ms, h, l)
<1>1. /\ l.net = k.net /\ l.step = k.step /\ l.nRead = k.nRead
      /\ l.type = k.type /\ l.len = k.len /\ l.data = k.data
  BY DEF Reader
<1>2. Idle(k) <=> Idle(l)
  BY <1>1 DEF Idle
<1>3. CASE k.pc = "new" /\ Idle(k) /\ h = <<>>
  BY <1>2, <1>3 DEF Framing, Early, Late
<1>4. CASE k.pc \in Early /\ Idle(k) /\ k.net = Bytes(ms) /\ h = <<>>
  BY <1>1, <1>2, <1>4 DEF Framing, Early, Late
<1>5. CASE k.pc \in Late /\ IsPrefix(h, Handled(ms))
  BY <1>5 DEF Framing, Early, Late
<1>6. ASSUME NEW i \in 0..Len(ms), h = Handled(SubSeq(ms, 1, i)), ReadAfter(ms, i, k)
      PROVE  Framing(ms, h, l)
  <2>1. k.pc \in {"top", "read", "header", "handle"}
    BY <1>6 DEF ReadAfter, InHeader, InBody
  <2>2. l.pc = k.pc \/ (k.pc \in {"top", "read"} /\ l.pc \in {"top", "read"})
    BY <2>1 DEF Early, Late
  <2>3. Offset(l) = Offset(k)
    BY <1>1 DEF Offset
  <2>4. l.net = Rest(Bytes(ms), Sent(ms, i) + Offset(l))
    BY <1>1, <1>6, <2>3 DEF ReadAfter
  <2>5. k.pc \in {"top", "read"} /\ Idle(k) => l.pc \in {"top", "read"} /\ Idle(l)
    BY <1>2, <2>2
  <2>6. \A m : InHeader(m, k) => InHeader(m, l)
    BY <1>1, <2>2 DEF InHeader
  <2>7. \A m : InBody(m, k) => InBody(m, l)
    BY <1>1, <2>2 DEF InBody
  <2>8. ReadAfter(ms, i, l)
    BY <1>6, <2>4, <2>5, <2>6, <2>7 DEF ReadAfter
  <2> QED
    BY <1>6, <2>8 DEF Framing
<1> QED
  BY <1>3, <1>4, <1>5, <1>6 DEF Framing

(* A connection that gives up keeps what handlers have got.                *)
LEMMA LateFrame ==
  ASSUME NEW ms \in Seq(MessageType), NEW h, NEW k, NEW l, Framing(ms, h, k), l.pc \in Late
  PROVE  Framing(ms, h, l)
<1>1. /\ Handled(SubSeq(ms, 1, 0)) = <<>>
      /\ \A n \in 0..Len(ms) : IsPrefix(Handled(SubSeq(ms, 1, n)), Handled(ms))
  BY HandledSteps
<1>2. 0 \in 0..Len(ms)
  BY LenProperties
<1>3. IsPrefix(h, Handled(ms))
  BY <1>1, <1>2 DEF Framing
<1> QED
  BY <1>3 DEF Framing

LEMMA GoFrame ==
  ASSUME Shape, FrameInv, NEW c \in Conns, NEW p, Go(c, p), UNCHANGED <<plan, handled>>,
         \/ p \in Late
         \/ {p, conn[c].pc} \subseteq {"top", "read"}
  PROVE  FrameInv'
<1> DEFINE k == [conn[c] EXCEPT !.pc = p]
<1>1. DOMAIN conn[c] = Fields
  BY DEF Shape
<1>2. k.pc = p /\ Reader(k) = Reader(conn[c])
  BY <1>1 DEF Fields, Reader
<1>3. conn' = [conn EXCEPT ![c] = k]
  BY DEF Go
<1> HIDE DEF k
<1>4. Framing(plan[c], handled[c], k)
  BY <1>2, PlanOf, SameFrame, LateFrame
<1> QED
  BY <1>3, <1>4, FrameStepOnly

LEMMA AdmissionFrames ==
  ASSUME Shape, FrameInv, NEW c \in Conns,
         Admit(c) \/ Refuse(c) \/ WaitInit(c) \/ WaitInitFails(c)
  PROVE  FrameInv'
<1>1. DOMAIN conn[c] = Fields
  BY DEF Shape
<1>2. CASE Admit(c)
  <2> DEFINE b == Bytes(plan[c])
             k == [conn[c] EXCEPT !.pc = "init", !.net = b]
  <2>1. conn' = [conn EXCEPT ![c] = k] /\ conn[c].pc = "new" /\ UNCHANGED <<plan, handled>>
    BY <1>2 DEF Admit, At
  <2>2. Idle(conn[c]) /\ handled[c] = <<>>
    BY <2>1, PlanOf DEF Framing, Early, Late, ReadAfter, InHeader, InBody
  <2> HIDE DEF b
  <2>3. Idle(k) /\ k.pc = "init" /\ k.net = b
    BY <1>1, <2>2 DEF Fields, Idle
  <2> HIDE DEF k
  <2>4. Framing(plan[c], handled[c], k)
    BY <2>2, <2>3 DEF Framing, Early, b
  <2> QED
    BY <2>1, <2>4, FrameStepOnly
<1>3. CASE Refuse(c)
  BY <1>3, GoFrame DEF Refuse, Late
<1>4. CASE WaitInit(c)
  <2> DEFINE k == [conn[c] EXCEPT !.pc = "add", !.lastActive = 0, !.heard = 0]
  <2>1. conn' = [conn EXCEPT ![c] = k] /\ conn[c].pc = "init" /\ UNCHANGED <<plan, handled>>
    BY <1>4 DEF WaitInit, At
  <2>2. Reader(k) = Reader(conn[c]) /\ k.pc = "add"
    BY <1>1 DEF Fields, Reader
  <2> HIDE DEF k
  <2>3. Framing(plan[c], handled[c], k)
    BY <2>1, <2>2, PlanOf, SameFrame DEF Early
  <2> QED
    BY <2>1, <2>3, FrameStepOnly
<1>5. CASE WaitInitFails(c)
  BY <1>5, GoFrame DEF WaitInitFails, Late
<1> QED
  BY <1>2, <1>3, <1>4, <1>5

LEMMA CountFrames ==
  ASSUME Shape, FrameInv, NEW c \in Conns, ReadCount(c) \/ Increment(c) \/ Decrement(c)
  PROVE  FrameInv'
<1>1. DOMAIN conn[c] = Fields /\ plan[c] \in Seq(MessageType)
  BY PlanOf DEF Shape
<1>2. CASE ReadCount(c)
  <2> DEFINE p == IF conn[c].pc = "add" THEN "added" ELSE "subbed"
             k == [conn[c] EXCEPT !.tmp = clientCount, !.pc = p]
  <2>1. /\ conn' = [conn EXCEPT ![c] = k] /\ conn[c].pc \in {"add", "sub"}
        /\ UNCHANGED <<plan, handled>>
    BY <1>2 DEF ReadCount, At
  <2>2. p = (IF conn[c].pc = "add" THEN "added" ELSE "subbed")
    OBVIOUS
  <2> HIDE DEF p
  <2>3. Reader(k) = Reader(conn[c]) /\ k.pc = p
    BY <1>1 DEF Fields, Reader
  <2> HIDE DEF k
  <2>4. Framing(plan[c], handled[c], k)
    BY <2>1, <2>2, <2>3, PlanOf, SameFrame DEF Early, Late
  <2> QED
    BY <2>1, <2>4, FrameStepOnly
<1>3. CASE Increment(c)
  <2> DEFINE k == [conn[c] EXCEPT !.pc = "top", !.tmp = 0]
             ms == plan[c]
  <2>1. conn' = [conn EXCEPT ![c] = k] /\ conn[c].pc = "added" /\ UNCHANGED <<plan, handled>>
    BY <1>3 DEF Increment, At
  <2>2. Idle(conn[c]) /\ handled[c] = <<>> /\ conn[c].net = Bytes(ms)
    BY <2>1, PlanOf DEF Framing, Early, Late, ReadAfter, InHeader, InBody
  <2>3. Idle(k) /\ k.pc = "top" /\ k.net = Bytes(ms) /\ k.step = 0 /\ k.nRead = 0
    BY <1>1, <2>2 DEF Fields, Idle
  <2> HIDE DEF k
  <2>4. Handled(SubSeq(ms, 1, 0)) = <<>> /\ Sent(ms, 0) = 0 /\ Bytes(ms) \in Seq(Nat)
    BY <1>1, HandledSteps, StreamSteps
  <2>5. Rest(Bytes(ms), Sent(ms, 0) + Offset(k)) = Bytes(ms)
    BY <2>3, <2>4, SubSeqFull DEF Rest, Offset
  <2>6. ReadAfter(ms, 0, k)
    BY <2>3, <2>5 DEF ReadAfter
  <2>7. 0 \in 0..Len(ms)
    BY <1>1, LenProperties
  <2>8. Framing(ms, handled[c], k)
    BY <2>2, <2>4, <2>6, <2>7 DEF Framing
  <2> QED
    BY <2>1, <2>8, FrameStepOnly
<1>4. CASE Decrement(c)
  <2> DEFINE k == [NewConn EXCEPT !.pc = "closed"]
  <2>1. conn' = [conn EXCEPT ![c] = k] /\ UNCHANGED <<plan, handled>>
    BY <1>4 DEF Decrement
  <2>2. k.pc \in Late
    BY DEF NewConn, Late
  <2> HIDE DEF k
  <2>3. Framing(plan[c], handled[c], k)
    BY <1>1, <2>2, PlanOf, LateFrame
  <2> QED
    BY <2>1, <2>3, FrameStepOnly
<1> QED
  BY <1>2, <1>3, <1>4

LEMMA LoopFrames ==
  ASSUME Shape, FrameInv, NEW c \in Conns,
         \/ Iterate(c) \/ HeartbeatTimeout(c) \/ Leave(c) \/ CloseClient(c)
         \/ ReadNothing(c) \/ TooBig(c)
  PROVE  FrameInv'
<1>1. CASE Iterate(c)
  <2> DEFINE k == [conn[c] EXCEPT !.pc = "read", !.now = 0]
  <2>1. conn' = [conn EXCEPT ![c] = k] /\ conn[c].pc = "top" /\ UNCHANGED <<plan, handled>>
    BY <1>1 DEF Iterate, At
  <2>2. Reader(k) = Reader(conn[c]) /\ k.pc = "read"
    BY DEF Shape, Fields, Reader
  <2> HIDE DEF k
  <2>3. Framing(plan[c], handled[c], k)
    BY <2>1, <2>2, PlanOf, SameFrame
  <2> QED
    BY <2>1, <2>3, FrameStepOnly
<1>2. CASE HeartbeatTimeout(c)
  BY <1>2, GoFrame DEF HeartbeatTimeout, Late
<1>3. CASE Leave(c)
  BY <1>3, GoFrame DEF Leave, Late
<1>4. CASE CloseClient(c)
  BY <1>4, GoFrame DEF CloseClient, Late
<1>5. CASE ReadNothing(c)
  BY <1>5, GoFrame DEF ReadNothing, At
<1>6. CASE TooBig(c)
  BY <1>6, GoFrame DEF TooBig, Late
<1> QED
  BY <1>1, <1>2, <1>3, <1>4, <1>5, <1>6

LEMMA TickFrames ==
  ASSUME Shape, FrameInv, Tick
  PROVE  FrameInv'
<1> DEFINE aged(k) == [k EXCEPT !.now = IF @ < ReadTimeout THEN @ + 1 ELSE @,
                                !.lastActive = Older(@), !.heard = Older(@)]
<1>1. /\ conn' = [c \in Conns |-> IF conn[c].pc \in {"add", "added", "read"}
                                   THEN aged(conn[c]) ELSE conn[c]]
      /\ UNCHANGED <<plan, handled>>
  BY DEF Tick
<1>2. \A c \in Conns : aged(conn[c]).pc = conn[c].pc /\ Reader(aged(conn[c])) = Reader(conn[c])
  <2> TAKE c \in Conns
  <2> DEFINE n == IF conn[c].now < ReadTimeout THEN conn[c].now + 1 ELSE conn[c].now
             a == Older(conn[c].lastActive)
             h == Older(conn[c].heard)
             k == [conn[c] EXCEPT !.now = n, !.lastActive = a, !.heard = h]
  <2>1. aged(conn[c]) = k
    OBVIOUS
  <2> HIDE DEF n, a, h
  <2>2. k.pc = conn[c].pc /\ Reader(k) = Reader(conn[c])
    BY DEF Shape, Fields, Reader
  <2> QED
    BY <2>1, <2>2
<1> HIDE DEF aged
<1>3. \A c \in Conns : Framing(plan[c], handled[c], conn'[c])
  <2> TAKE c \in Conns
  <2> DEFINE k == conn'[c]
  <2>1. k.pc = conn[c].pc /\ Reader(k) = Reader(conn[c])
    BY <1>1, <1>2
  <2> HIDE DEF k
  <2>2. Framing(plan[c], handled[c], k)
    BY <2>1, PlanOf, SameFrame
  <2> QED
    BY <2>2 DEF k
<1> QED
  BY <1>1, <1>3 DEF FrameInv

-----------------------------------------------------------------------------
(* Steps that read the bytes of a device.                                  *)
Looping == {"top", "read", "header", "handle"}

LEMMA InLoop ==
  ASSUME FrameInv, NEW c \in Conns, conn[c].pc \in Looping
  PROVE  \E i \in 0..Len(plan[c]) :
           handled[c] = Handled(SubSeq(plan[c], 1, i)) /\ ReadAfter(plan[c], i, conn[c])
  BY PlanOf DEF Framing, Looping, Early, Late

(* Where a connection that has read the first i messages is in the bytes   *)
(* of the next one.                                                        *)
LEMMA OffsetIs ==
  ASSUME NEW ms \in Seq(MessageType), NEW i \in 0..Len(ms), NEW k, ReadAfter(ms, i, k)
  PROVE  /\ Offset(k) \in Nat
         /\ k.step = 0 => Idle(k) /\ Offset(k) = 0
         /\ k.step = 1 => i < Len(ms) /\ InHeader(ms[i + 1], k) /\ Offset(k) = k.nRead
         /\ k.step = 2 => i < Len(ms) /\ InBody(ms[i + 1], k) /\ Offset(k) = HeadSize + k.nRead
         /\ k.step \in 0..2
         /\ i < Len(ms) => Offset(k) <= Size(ms[i + 1])
         /\ i = Len(ms) => k.step = 0
<1>1. HeadSize \in Nat /\ HeadSize > 1 /\ Len(ms) \in Nat
  BY SizeAssumption, MessageIs
<1>2. i < Len(ms) => /\ ms[i + 1].type \in Nat /\ ms[i + 1].len \in Nat
                     /\ Size(ms[i + 1]) \in Nat \ {0}
  BY MessageIs, BytesOfIs
<1>3. CASE Idle(k)
  BY <1>1, <1>2, <1>3 DEF Idle, Offset
<1>4. CASE i < Len(ms) /\ InHeader(ms[i + 1], k)
  BY <1>1, <1>2, <1>4 DEF InHeader, Offset, Size
<1>5. CASE i < Len(ms) /\ InBody(ms[i + 1], k)
  BY <1>1, <1>2, <1>5 DEF InBody, Offset, Size
<1> QED
  BY <1>3, <1>4, <1>5 DEF ReadAfter

LEMMA NetIs ==
  ASSUME NEW ms \in Seq(MessageType), NEW i \in 0..Len(ms), NEW k, ReadAfter(ms, i, k)
  PROVE  /\ k.net \in Seq(Nat) /\ Len(k.net) \in Nat
         /\ \A n \in 0..Len(k.net) :
              Rest(k.net, n) = Rest(Bytes(ms), Sent(ms, i) + (Offset(k) + n))
         /\ i < Len(ms) =>
              \A q \in 1..(Size(ms[i + 1]) - Offset(k)) :
                q <= Len(k.net) /\ k.net[q] = BytesOf(ms[i + 1])[Offset(k) + q]
         /\ i = Len(ms) => Len(k.net) = 0
<1> DEFINE B == Bytes(ms)
           a == Sent(ms, i)
           o == Offset(k)
           z == Size(ms[i + 1])
<1>1. /\ B \in Seq(Nat) /\ Sent(ms, Len(ms)) = Len(B) /\ a \in 0..Len(B)
      /\ i < Len(ms) => /\ Sent(ms, i + 1) = a + z /\ Sent(ms, i + 1) \in 0..Len(B)
                        /\ \A q \in 1..z : B[a + q] = BytesOf(ms[i + 1])[q]
  BY StreamSteps, MessageIs
<1>2. Len(B) \in Nat /\ Len(ms) \in Nat
  BY <1>1, LenProperties
<1>3. o \in Nat /\ (i < Len(ms) => o <= z /\ z \in Nat) /\ (i = Len(ms) => o = 0)
  BY OffsetIs, MessageIs, BytesOfIs
<1>4. k.net = Rest(B, a + o)
  BY DEF ReadAfter
<1> HIDE DEF B, a, o, z
<1>5. i < Len(ms) \/ i = Len(ms)
  BY <1>2
<1>6. a + o \in 0..Len(B) /\ (i = Len(ms) => a + o = Len(B))
  <2>1. CASE i < Len(ms)
    BY <1>1, <1>2, <1>3, <2>1
  <2>2. CASE i = Len(ms)
    BY <1>1, <1>2, <1>3, <2>2 DEF a
  <2> QED
    BY <1>2, <1>5, <2>1, <2>2
<1>7. /\ k.net \in Seq(Nat) /\ Len(k.net) = Len(B) - (a + o)
      /\ \A q \in 1..(Len(B) - (a + o)) : k.net[q] = B[(a + o) + q]
  <2> DEFINE p == a + o
  <2>1. p \in 0..Len(B) /\ k.net = Rest(B, p)
    BY <1>4, <1>6
  <2> HIDE DEF p
  <2>2. /\ k.net \in Seq(Nat) /\ Len(k.net) = Len(B) - p
        /\ \A q \in 1..(Len(B) - p) : k.net[q] = B[p + q]
    <3>1. B \in Seq(Nat)
      BY <1>1
    <3>2. /\ Rest(B, p) \in Seq(Nat) /\ Len(Rest(B, p)) = Len(B) - p
          /\ \A q \in 1..(Len(B) - p) : Rest(B, p)[q] = B[p + q]
      BY <2>1, <3>1, RestIs
    <3> QED
      BY <2>1, <3>2
  <2> QED
    BY <2>2 DEF p
<1>8. Len(k.net) \in Nat /\ (i = Len(ms) => Len(k.net) = 0)
  BY <1>2, <1>6, <1>7
<1>9. ASSUME NEW n \in 0..Len(k.net)
      PROVE  Rest(k.net, n) = Rest(B, a + (o + n))
  <2>1. n \in 0..(Len(B) - (a + o)) /\ (a + o) + n = a + (o + n)
    BY <1>1, <1>2, <1>3, <1>7
  <2>2. Rest(Rest(B, a + o), n) = Rest(B, (a + o) + n)
    BY <1>1, <1>6, <2>1, RestOfRest
  <2> QED
    BY <1>4, <2>1, <2>2
<1>10. ASSUME i < Len(ms), NEW q \in 1..(z - o)
       PROVE  q <= Len(k.net) /\ k.net[q] = BytesOf(ms[i + 1])[o + q]
  <2>5. a \in Nat /\ o \in Nat /\ z \in Nat /\ Len(B) \in Nat /\ a + z <= Len(B)
    BY <1>1, <1>2, <1>3, <1>10
  <2>6. q \in Nat /\ 1 <= q /\ q <= z - o
    BY <2>5
  <2>1. o + q \in 1..z /\ q \in 1..(Len(B) - (a + o)) /\ (a + o) + q = a + (o + q)
    BY <2>5, <2>6
  <2>2. k.net[q] = B[a + (o + q)]
    BY <1>7, <2>1
  <2>3. B[a + (o + q)] = BytesOf(ms[i + 1])[o + q]
    BY <1>1, <1>10, <2>1
  <2>4. q <= Len(k.net)
    BY <1>2, <1>7, <2>1
  <2> QED
    BY <2>2, <2>3, <2>4
<1> QED
  BY <1>7, <1>8, <1>9, <1>10 DEF B, a, o, z

(* A message that has been read in full.                                   *)
LEMMA NextFrame ==
  ASSUME NEW ms \in Seq(MessageType), NEW i \in 0..Len(ms), i < Len(ms), NEW h, NEW l,
         l.pc = "top", Idle(l),
         l.net = Rest(Bytes(ms), Sent(ms, i) + Size(ms[i + 1])),
         h = Handled(SubSeq(ms, 1, i)) \o HandledOf(ms[i + 1])
  PROVE  Framing(ms, h, l)
<1>1. i \in 0..(Len(ms) - 1) /\ i + 1 \in 0..Len(ms)
  BY MessageIs
<1>2. h = Handled(SubSeq(ms, 1, i + 1))
  BY <1>1, HandledSteps
<1>3. Sent(ms, i + 1) = Sent(ms, i) + Size(ms[i + 1]) /\ Sent(ms, i + 1) \in Nat
  BY <1>1, StreamSteps
<1>4. Sent(ms, i + 1) + Offset(l) = Sent(ms, i + 1)
  BY <1>3 DEF Offset, Idle
<1>5. ReadAfter(ms, i + 1, l)
  BY <1>3, <1>4 DEF ReadAfter
<1> QED
  BY <1>1, <1>2, <1>5 DEF Framing

(* Handlers get nothing of a message without body or of an unknown type.   *)
LEMMA NothingHandled ==
  ASSUME NEW ms \in Seq(MessageType), NEW i \in 0..Len(ms), i < Len(ms),
         ms[i + 1].type \notin Types \/ ms[i + 1].len = 0
  PROVE  Handled(SubSeq(ms, 1, i)) = Handled(SubSeq(ms, 1, i)) \o HandledOf(ms[i + 1])
<1>1. HandledOf(ms[i + 1]) = <<>>
  BY MessageIs DEF HandledOf
<1>2. Handled(SubSeq(ms, 1, i)) \in Seq(Nat \X Seq(Nat))
  BY HandledSteps
<1> QED
  BY <1>1, <1>2, ConcatEmptySeq

LEMMA FirstByteFrames ==
  ASSUME Shape, FrameInv, NEW c \in Conns, Heartbeat(c) \/ FirstByte(c)
  PROVE  FrameInv'
<1> DEFINE k == conn[c]
           ms == plan[c]
<1>1. /\ DOMAIN k = Fields /\ ms \in Seq(MessageType) /\ HeadSize \in Nat /\ HeadSize > 1
      /\ k.pc = "read" /\ k.step = 0 /\ 1 <= Len(k.net) /\ UNCHANGED <<plan, handled>>
  BY PlanOf DEF Shape, Heartbeat, FirstByte, At, MayRead
<1>2. PICK i \in 0..Len(ms) : handled[c] = Handled(SubSeq(ms, 1, i)) /\ ReadAfter(ms, i, k)
  BY <1>1, InLoop DEF Looping
<1> DEFINE m == ms[i + 1]
           b == Tail(k.net)
           t == Head(k.net)
<1>3. \/ t = 0 /\ conn' = [conn EXCEPT ![c] = [k EXCEPT !.pc = "top", !.net = b,
                                                        !.lastActive = 0, !.heard = 0]]
      \/ t # 0 /\ conn' = [conn EXCEPT ![c] = [k EXCEPT !.net = b, !.type = t, !.step = 1,
                                                        !.nRead = k.nRead + 1]]
  BY DEF Heartbeat, FirstByte
<1> HIDE DEF k, ms
<1>4. Idle(k) /\ Offset(k) = 0
  BY <1>1, <1>2, OffsetIs
<1>5. /\ k.net \in Seq(Nat) /\ Len(k.net) \in Nat /\ i < Len(ms) /\ i + 1 \in 0..Len(ms)
      /\ \A q \in 1..(Size(m) - Offset(k)) : k.net[q] = BytesOf(m)[Offset(k) + q]
      /\ Rest(k.net, 1) = Rest(Bytes(ms), Sent(ms, i) + (Offset(k) + 1))
  <2>1. i < Len(ms)
    BY <1>1, <1>2, NetIs, MessageIs
  <2> QED
    BY <1>1, <1>2, <2>1, NetIs, MessageIs
<1>6. /\ Size(m) \in Nat \ {0} /\ BytesOf(m)[1] = m.type /\ m.type \in Nat /\ m \in MessageType
      /\ Sent(ms, i) \in Nat
  BY <1>1, <1>5, BytesOfIs, MessageIs, StreamSteps
<1>7. b = Rest(Bytes(ms), Sent(ms, i) + 1) /\ t = m.type
  <2>1. b = Rest(k.net, 1) /\ t = k.net[1]
    <3>1. k.net \in Seq(Nat) /\ Len(k.net) # 0
      BY <1>1, <1>5
    <3> QED
      BY <3>1, RestOne
  <2>2. k.net[1] = BytesOf(m)[1] /\ Offset(k) + 1 = 1
    BY <1>4, <1>5, <1>6
  <2> QED
    BY <1>5, <1>6, <2>1, <2>2
<1> HIDE DEF b, t, m
<1>8. CASE t = 0
  <2> DEFINE l == [k EXCEPT !.pc = "top", !.net = b, !.lastActive = 0, !.heard = 0]
  <2>1. conn' = [conn EXCEPT ![c] = l]
    BY <1>3, <1>8
  <2>2. l.pc = "top" /\ Idle(l) /\ l.net = b
    BY <1>1, <1>4 DEF Fields, Idle
  <2> HIDE DEF l
  <2>3. Size(m) = 1 /\ m.type \notin Types
    BY <1>7, <1>8, TypeAssumption DEF Size
  <2>4. handled[c] = handled[c] \o HandledOf(m)
    BY <1>1, <1>2, <1>5, <2>3, NothingHandled DEF m
  <2>5. Framing(ms, handled[c], l)
    BY <1>1, <1>2, <1>5, <1>7, <2>2, <2>3, <2>4, NextFrame DEF m
  <2> QED
    BY <1>1, <2>1, <2>5, FrameStepOnly DEF ms
<1>9. CASE t # 0
  <2> DEFINE n == k.nRead + 1
             l == [k EXCEPT !.net = b, !.type = t, !.step = 1, !.nRead = n]
  <2>1. conn' = [conn EXCEPT ![c] = l]
    BY <1>3, <1>9
  <2>2. n = 1
    BY <1>4 DEF Idle
  <2> HIDE DEF n
  <2>3. l.pc = "read" /\ l.net = b /\ l.type = t /\ l.step = 1 /\ l.nRead = 1 /\ l.data = <<>>
    BY <1>1, <1>4, <2>2 DEF Fields, Idle
  <2> HIDE DEF l
  <2>4. InHeader(m, l)
    BY <1>1, <1>7, <1>9, <2>3 DEF InHeader
  <2>5. Offset(l) = 1
    BY <2>3 DEF Offset
  <2>6. ReadAfter(ms, i, l)
    BY <1>5, <1>7, <2>3, <2>4, <2>5 DEF ReadAfter, m
  <2>7. Framing(ms, handled[c], l)
    BY <1>2, <2>6 DEF Framing
  <2> QED
    BY <1>1, <2>1, <2>7, FrameStepOnly DEF ms
<1> QED
  BY <1>8, <1>9

LEMMA ReadHeaderFrames ==
  ASSUME Shape, FrameInv, NEW c \in Conns, NEW n \in 0..HeadSize, ReadHeader(c, n)
  PROVE  FrameInv'
<1> DEFINE k == conn[c]
           ms == plan[c]
           b == SubSeq(k.net, n + 1, Len(k.net))
           u == k.net[n]
           v == k.nRead + n
           whole == [k EXCEPT !.pc = "header", !.net = b, !.nRead = HeadSize, !.len = u]
           part == [k EXCEPT !.pc = "top", !.net = b, !.nRead = v]
<1>1. /\ DOMAIN k = Fields /\ ms \in Seq(MessageType) /\ HeadSize \in Nat /\ HeadSize > 1
      /\ k.pc = "read" /\ k.step = 1 /\ n <= Len(k.net) /\ n <= HeadSize - k.nRead
      /\ UNCHANGED <<plan, handled>>
      /\ conn' = [conn EXCEPT ![c] = IF n = HeadSize - k.nRead THEN whole ELSE part]
  BY PlanOf DEF Shape, ReadHeader, At, MayRead
<1>2. PICK i \in 0..Len(ms) : handled[c] = Handled(SubSeq(ms, 1, i)) /\ ReadAfter(ms, i, k)
  BY <1>1, InLoop DEF Looping
<1> DEFINE m == ms[i + 1]
<1> HIDE DEF k, ms
<1>3. i < Len(ms) /\ InHeader(m, k) /\ Offset(k) = k.nRead
  BY <1>1, <1>2, OffsetIs
<1>4. /\ m \in MessageType /\ m.len \in Nat /\ Sent(ms, i) \in Nat
      /\ Size(m) = HeadSize + m.len /\ BytesOf(m)[HeadSize] = m.len
  <2>1. m \in MessageType /\ m.len \in Nat /\ m.type # 0
    BY <1>1, <1>3, MessageIs DEF InHeader
  <2>2. Sent(ms, i) \in 0..Len(Bytes(ms))
    BY <1>1, StreamSteps
  <2> HIDE DEF m
  <2>3. BytesOf(m)[HeadSize] = m.len
    BY <2>1, BytesOfIs
  <2> QED
    BY <2>1, <2>2, <2>3 DEF Size
<1>5. /\ k.nRead \in 1..(HeadSize - 1) /\ k.type = m.type /\ m.type # 0 /\ k.data = <<>>
      /\ v \in Nat
  BY <1>1, <1>3 DEF InHeader
<1>6. b = Rest(Bytes(ms), Sent(ms, i) + v)
  <2>1. n \in 0..Len(k.net)
    BY <1>1, <1>2, NetIs
  <2> QED
    <3>1. Rest(k.net, n) = Rest(Bytes(ms), Sent(ms, i) + (Offset(k) + n))
      BY <1>1, <1>2, <2>1, NetIs
    <3>2. b = Rest(k.net, n)
      BY DEF Rest
    <3> QED
      BY <1>3, <3>1, <3>2
<1>7. n = HeadSize - k.nRead => u = m.len /\ v = HeadSize
  <2> SUFFICES ASSUME n = HeadSize - k.nRead PROVE u = m.len /\ v = HeadSize
    OBVIOUS
  <2>3. k.nRead \in Nat /\ k.nRead <= HeadSize - 1 /\ n = HeadSize - k.nRead
    BY <1>1, <1>5
  <2> HIDE DEF m
  <2>1. v = HeadSize /\ n \in 1..(Size(m) - k.nRead)
    BY <1>1, <1>4, <2>3
  <2>2. u = BytesOf(m)[Offset(k) + n]
    BY <1>1, <1>2, <1>3, <2>1, NetIs DEF m
  <2> QED
    BY <1>3, <1>4, <2>1, <2>2
<1> HIDE DEF b, u, m
<1>8. CASE n = HeadSize - k.nRead
  <2>1. conn' = [conn EXCEPT ![c] = whole]
    BY <1>1, <1>8
  <2>2. /\ whole.pc = "header" /\ whole.net = b /\ whole.nRead = HeadSize /\ whole.len = m.len
        /\ whole.step = 1 /\ whole.type = k.type /\ whole.data = k.data
    BY <1>1, <1>7, <1>8 DEF Fields
  <2> HIDE DEF whole
  <2>3. InHeader(m, whole) /\ Offset(whole) = HeadSize
    BY <1>5, <2>2 DEF InHeader, Offset
  <2>4. ReadAfter(ms, i, whole)
    BY <1>3, <1>6, <1>7, <1>8, <2>2, <2>3 DEF ReadAfter, m
  <2>5. Framing(ms, handled[c], whole)
    BY <1>2, <2>4 DEF Framing
  <2> QED
    BY <1>1, <2>1, <2>5, FrameStepOnly DEF ms
<1>9. CASE n # HeadSize - k.nRead
  <2>1. conn' = [conn EXCEPT ![c] = part]
    BY <1>1, <1>9
  <2>2. v \in 1..(HeadSize - 1)
    BY <1>1, <1>5, <1>9
  <2> HIDE DEF v
  <2>3. /\ part.pc = "top" /\ part.net = b /\ part.nRead = v
        /\ part.step = 1 /\ part.type = k.type /\ part.data = k.data
    BY <1>1 DEF Fields
  <2> HIDE DEF part
  <2>4. InHeader(m, part) /\ Offset(part) = v
    BY <1>5, <2>2, <2>3 DEF InHeader, Offset
  <2>5. ReadAfter(ms, i, part)
    BY <1>3, <1>6, <2>3, <2>4 DEF ReadAfter, m
  <2>6. Framing(ms, handled[c], part)
    BY <1>2, <2>5 DEF Framing
  <2> QED
    BY <1>1, <2>1, <2>6, FrameStepOnly DEF ms
<1> QED
  BY <1>8, <1>9

LEMMA HeaderFrames ==
  ASSUME Shape, FrameInv, NEW c \in Conns, EmptyMessage(c) \/ StartBody(c)
  PROVE  FrameInv'
<1> DEFINE k == conn[c]
           ms == plan[c]
<1>1. /\ DOMAIN k = Fields /\ ms \in Seq(MessageType) /\ HeadSize \in Nat /\ HeadSize > 1
      /\ k.pc = "header" /\ UNCHANGED <<plan, handled>>
      /\ \/ k.len = 0 /\ conn' = [conn EXCEPT ![c] = NextMessage(k)]
         \/ /\ k.len \in 1..MaxBody
            /\ conn' = [conn EXCEPT ![c] = [k EXCEPT !.pc = "read", !.step = 2, !.nRead = 0]]
  BY PlanOf DEF Shape, EmptyMessage, StartBody, At
<1>2. PICK i \in 0..Len(ms) : handled[c] = Handled(SubSeq(ms, 1, i)) /\ ReadAfter(ms, i, k)
  BY <1>1, InLoop DEF Looping
<1> DEFINE m == ms[i + 1]
<1> HIDE DEF k, ms
<1>3. i < Len(ms) /\ InHeader(m, k)
  BY <1>1, <1>2 DEF ReadAfter, InBody
<1>4. /\ k.step = 1 /\ k.type = m.type /\ m.type # 0 /\ k.data = <<>>
      /\ k.nRead = HeadSize /\ k.len = m.len
  BY <1>1, <1>3 DEF InHeader
<1>5. Offset(k) = HeadSize /\ k.net = Rest(Bytes(ms), Sent(ms, i) + HeadSize)
  BY <1>2, <1>4 DEF ReadAfter, Offset
<1> HIDE DEF m
<1>6. CASE k.len = 0 /\ conn' = [conn EXCEPT ![c] = NextMessage(k)]
  <2> DEFINE l == NextMessage(k)
  <2>1. l.pc = "top" /\ Idle(l) /\ l.net = k.net
    BY <1>1 DEF NextMessage, Fields, Idle
  <2> HIDE DEF l
  <2>2. Size(m) = HeadSize
    BY <1>1, <1>4, <1>6 DEF Size
  <2>3. handled[c] = handled[c] \o HandledOf(m)
    BY <1>1, <1>2, <1>3, <1>4, <1>6, NothingHandled DEF m
  <2>4. Framing(ms, handled[c], l)
    BY <1>1, <1>2, <1>3, <1>5, <2>1, <2>2, <2>3, NextFrame DEF m
  <2> QED
    BY <1>1, <1>6, <2>4, FrameStepOnly DEF ms, l
<1>7. ASSUME k.len \in 1..MaxBody,
             conn' = [conn EXCEPT ![c] = [k EXCEPT !.pc = "read", !.step = 2, !.nRead = 0]]
      PROVE  FrameInv'
  <2> DEFINE l == [k EXCEPT !.pc = "read", !.step = 2, !.nRead = 0]
  <2>1. /\ l.pc = "read" /\ l.step = 2 /\ l.nRead = 0 /\ l.net = k.net
        /\ l.type = k.type /\ l.len = k.len /\ l.data = <<>>
    BY <1>1, <1>4 DEF Fields
  <2>2. conn' = [conn EXCEPT ![c] = l]
    BY <1>7
  <2> HIDE DEF l
  <2>3. <<>> = [j \in 1..0 |-> m.type]
    OBVIOUS
  <2>4. m.len \in 1..MaxBody /\ MaxBody \in Nat
    BY <1>4, <1>7, SizeAssumption
  <2>5. InBody(m, l) /\ Offset(l) = HeadSize
    <3>1. 0 \in 0..m.len /\ 0 < m.len
      BY <2>4
    <3> QED
      BY <1>1, <1>4, <2>1, <2>3, <2>4, <3>1 DEF InBody, Offset
  <2>6. ReadAfter(ms, i, l)
    BY <1>3, <1>5, <2>1, <2>5 DEF ReadAfter, m
  <2>7. Framing(ms, handled[c], l)
    BY <1>2, <2>6 DEF Framing
  <2> QED
    BY <1>1, <2>2, <2>7, FrameStepOnly DEF ms
<1> QED
  BY <1>1, <1>6, <1>7

(* A part of a body goes behind the parts before it.                       *)
LEMMA BodyGrows ==
  ASSUME NEW t \in Nat, NEW s \in Seq(Nat), NEW d \in Nat, NEW n \in 0..Len(s),
         \A q \in 1..n : s[q] = t
  PROVE  [j \in 1..d |-> t] \o SubSeq(s, 1, n) = [j \in 1..(d + n) |-> t]
<1> DEFINE a == [j \in 1..d |-> t]
           b == SubSeq(s, 1, n)
           e == [j \in 1..(d + n) |-> t]
<1>1. n \in Nat /\ a \in Seq(Nat) /\ Len(a) = d
  BY LenProperties
<1>2. e \in Seq(Nat) /\ Len(e) = d + n
  BY <1>1
<1>3. b \in Seq(Nat) /\ Len(b) = n /\ \A i \in 1..n : b[i] = t
  BY SubSeqFrom1
<1>4. (\A i \in 1..d : a[i] = t) /\ (\A i \in 1..(d + n) : e[i] = t)
  OBVIOUS
<1> HIDE DEF a, b, e
<1>5. /\ a \o b \in Seq(Nat) /\ Len(a \o b) = d + n
      /\ \A i \in 1..(d + n) : (a \o b)[i] = IF i <= d THEN a[i] ELSE b[i - d]
  BY <1>1, <1>3, ConcatProperties
<1>6. \A i \in 1..(d + n) : (a \o b)[i] = e[i]
  <2> TAKE i \in 1..(d + n)
  <2>1. CASE i <= d
    BY <1>1, <1>4, <1>5, <2>1
  <2>2. CASE i > d
    <3>1. i - d \in 1..n /\ ~(i <= d)
      BY <1>1, <2>2
    <3> QED
      BY <1>3, <1>4, <1>5, <3>1
  <2>3. i <= d \/ i > d
    BY <1>1
  <2> QED
    BY <2>1, <2>2, <2>3
<1>7. a \o b = e
  BY <1>2, <1>5, <1>6, SeqEqual
<1> QED
  BY <1>7 DEF a, b, e

LEMMA ReadBodyFrames ==
  ASSUME Shape, FrameInv, NEW c \in Conns, NEW n \in 0..MaxBody, ReadBody(c, n)
  PROVE  FrameInv'
<1> DEFINE k == conn[c]
           ms == plan[c]
           b == SubSeq(k.net, n + 1, Len(k.net))
           v == k.nRead + n
           d == k.data \o SubSeq(k.net, 1, n)
           p == IF n = k.len - k.nRead THEN "handle" ELSE "top"
           l == [k EXCEPT !.pc = p, !.net = b, !.nRead = v, !.data = d]
<1>1. /\ DOMAIN k = Fields /\ ms \in Seq(MessageType) /\ HeadSize \in Nat /\ MaxBody \in Nat
      /\ k.pc = "read" /\ k.step = 2 /\ n <= Len(k.net) /\ n <= k.len - k.nRead
      /\ UNCHANGED <<plan, handled>>
      /\ conn' = [conn EXCEPT ![c] = l]
  BY PlanOf DEF Shape, ReadBody, At, MayRead
<1>2. PICK i \in 0..Len(ms) : handled[c] = Handled(SubSeq(ms, 1, i)) /\ ReadAfter(ms, i, k)
  BY <1>1, InLoop DEF Looping
<1> DEFINE m == ms[i + 1]
<1> HIDE DEF k, ms
<1>3. i < Len(ms) /\ InBody(m, k) /\ Offset(k) = HeadSize + k.nRead
  BY <1>1, <1>2, OffsetIs
<1>4. m \in MessageType /\ m.len \in Nat /\ m.type \in Nat /\ Sent(ms, i) \in Nat
  <2>1. m \in MessageType /\ m.len \in Nat /\ m.type \in Nat
    BY <1>1, <1>3, MessageIs
  <2>2. Sent(ms, i) \in 0..Len(Bytes(ms))
    BY <1>1, StreamSteps
  <2> QED
    BY <2>1, <2>2
<1>5. /\ k.type = m.type /\ m.type # 0 /\ k.len = m.len /\ m.len \in 1..MaxBody
      /\ k.nRead \in Nat /\ n <= m.len - k.nRead /\ k.data = [j \in 1..k.nRead |-> m.type]
  BY <1>1, <1>3 DEF InBody
<1>6. k.net \in Seq(Nat) /\ n \in 0..Len(k.net)
  BY <1>1, <1>2, NetIs
<1>7. b = Rest(Bytes(ms), Sent(ms, i) + (HeadSize + v))
  <2>1. Rest(k.net, n) = Rest(Bytes(ms), Sent(ms, i) + (Offset(k) + n))
    BY <1>1, <1>2, <1>6, NetIs
  <2>2. b = Rest(k.net, n) /\ Offset(k) + n = HeadSize + v
    BY <1>1, <1>3, <1>5 DEF Rest
  <2> QED
    BY <2>1, <2>2
<1>8. d = [j \in 1..v |-> m.type]
  <2>1. ASSUME NEW q \in 1..n
        PROVE  k.net[q] = m.type
    <3>1. Size(m) = HeadSize + m.len
      BY <1>5 DEF Size
    <3>2. /\ q \in 1..(Size(m) - Offset(k))
          /\ Offset(k) + q \in (HeadSize + 1)..(HeadSize + m.len)
      <4> DEFINE o == Offset(k)
                 z == m.len
                 r == k.nRead
      <4>1. HeadSize \in Nat /\ z \in Nat /\ r \in Nat /\ o = HeadSize + r /\ n <= z - r
        BY <1>1, <1>3, <1>4, <1>5
      <4> HIDE DEF o, z, r
      <4>2. q \in 1..((HeadSize + z) - o) /\ o + q \in (HeadSize + 1)..(HeadSize + z)
        BY <4>1
      <4> QED
        BY <3>1, <4>2 DEF o, z
    <3>3. k.net[q] = BytesOf(m)[Offset(k) + q]
      BY <1>1, <1>2, <1>3, <3>2, NetIs
    <3>4. BytesOf(m)[Offset(k) + q] = m.type
      <4> HIDE DEF m
      <4> QED
        BY <1>4, <1>5, <3>2, BytesOfIs
    <3> QED
      BY <3>3, <3>4
  <2> HIDE DEF m
  <2>2. [j \in 1..k.nRead |-> m.type] \o SubSeq(k.net, 1, n) = [j \in 1..v |-> m.type]
    <3> DEFINE t == m.type
               s == k.net
               o == k.nRead
    <3>1. t \in Nat /\ s \in Seq(Nat) /\ o \in Nat /\ n \in 0..Len(s) /\ \A q \in 1..n : s[q] = t
      BY <1>4, <1>5, <1>6, <2>1
    <3> HIDE DEF t, s, o
    <3>2. [j \in 1..o |-> t] \o SubSeq(s, 1, n) = [j \in 1..(o + n) |-> t]
      BY <3>1, BodyGrows
    <3> QED
      BY <3>2 DEF t, s, o
  <2> QED
    BY <1>5, <2>2
<1>9. v \in 0..m.len /\ (n = k.len - k.nRead <=> v = m.len)
  BY <1>4, <1>5
<1>10. p = IF v = m.len THEN "handle" ELSE "top"
  BY <1>9
<1> HIDE DEF m, b, v, d, p
<1>11. /\ l.pc = p /\ l.net = b /\ l.nRead = v /\ l.data = d
       /\ l.step = 2 /\ l.type = k.type /\ l.len = k.len
  BY <1>1 DEF Fields
<1> HIDE DEF l
<1>12. InBody(m, l) /\ Offset(l) = HeadSize + v
  <2>1. v # m.len => v < m.len
    BY <1>4, <1>9
  <2> QED
    BY <1>5, <1>8, <1>9, <1>10, <1>11, <2>1 DEF InBody, Offset
<1>13. ReadAfter(ms, i, l)
  BY <1>3, <1>7, <1>11, <1>12 DEF ReadAfter, m
<1>14. Framing(ms, handled[c], l)
  BY <1>2, <1>13 DEF Framing
<1> QED
  BY <1>1, <1>14, FrameStepOnly DEF ms

LEMMA HandleFrames ==
  ASSUME Shape, FrameInv, NEW c \in Conns, HandleMessage(c) \/ UnknownMessage(c)
  PROVE  FrameInv'
<1> DEFINE k == conn[c]
           ms == plan[c]
           x == [NextMessage(k) EXCEPT !.lastActive = k.now, !.heard = 0]
           e == <<k.type, k.data>>
<1>1. /\ DOMAIN k = Fields /\ ms \in Seq(MessageType) /\ k.pc = "handle" /\ plan' = plan
      /\ \/ /\ k.type \in Types /\ conn' = [conn EXCEPT ![c] = x]
            /\ handled' = [handled EXCEPT ![c] = Append(handled[c], e)]
         \/ /\ k.type \notin Types /\ conn' = [conn EXCEPT ![c] = NextMessage(k)]
            /\ handled' = handled
  BY PlanOf DEF Shape, HandleMessage, UnknownMessage, At
<1>2. PICK i \in 0..Len(ms) : handled[c] = Handled(SubSeq(ms, 1, i)) /\ ReadAfter(ms, i, k)
  BY <1>1, InLoop DEF Looping
<1> DEFINE m == ms[i + 1]
<1> HIDE DEF k, ms
<1>3. i < Len(ms) /\ InBody(m, k)
  BY <1>1, <1>2 DEF ReadAfter, InHeader
<1>4. m.len \in Nat /\ m.type \in Nat
  BY <1>1, <1>3, MessageIs
<1>5. /\ k.step = 2 /\ k.type = m.type /\ m.type # 0 /\ k.len = m.len /\ m.len \in 1..MaxBody
      /\ k.nRead = m.len /\ k.data = [j \in 1..m.len |-> m.type]
  BY <1>1, <1>3 DEF InBody
<1>6. k.net = Rest(Bytes(ms), Sent(ms, i) + Size(m))
  BY <1>2, <1>5 DEF ReadAfter, Offset, Size
<1>7. NextMessage(k).pc = "top" /\ Idle(NextMessage(k)) /\ NextMessage(k).net = k.net
  BY <1>1 DEF NextMessage, Fields, Idle
<1> HIDE DEF m
<1>8. ASSUME k.type \in Types, conn' = [conn EXCEPT ![c] = x],
             handled' = [handled EXCEPT ![c] = Append(handled[c], e)]
      PROVE  FrameInv'
  <2> DEFINE h == Append(handled[c], e)
             N == NextMessage(k)
             a == k.now
             y == [N EXCEPT !.lastActive = a, !.heard = 0]
  <2>1. x = y
    OBVIOUS
  <2>2. DOMAIN N = Fields
    BY <1>1 DEF NextMessage, Fields
  <2> HIDE DEF N, a
  <2>3. y.pc = "top" /\ Idle(y) /\ y.net = k.net
    BY <1>7, <2>2 DEF Fields, Idle, N
  <2> HIDE DEF y, x
  <2>4. e = <<m.type, Body(m)>>
    BY <1>5 DEF Body
  <2>5. HandledOf(m) = <<e>>
    <3>1. m.len > 0
      BY <1>5, SizeAssumption
    <3> QED
      BY <1>5, <1>8, <2>4, <3>1 DEF HandledOf
  <2>6. e \in Nat \X Seq(Nat) /\ handled[c] \in Seq(Nat \X Seq(Nat))
    <3>1. Body(m) \in Seq(Nat)
      BY <1>4 DEF Body
    <3>2. handled[c] \in Seq(Nat \X Seq(Nat))
      BY <1>1, <1>2, HandledSteps
    <3> QED
      BY <1>4, <2>4, <3>1, <3>2
  <2> HIDE DEF e
  <2>7. h = handled[c] \o HandledOf(m)
    BY <2>5, <2>6, AppendIsConcat
  <2>8. Framing(ms, h, y)
    BY <1>1, <1>2, <1>3, <1>6, <2>3, <2>7, NextFrame DEF m
  <2>9. conn' = [conn EXCEPT ![c] = y] /\ handled' = [handled EXCEPT ![c] = h]
    BY <1>8, <2>1
  <2> HIDE DEF h
  <2> QED
    BY <1>1, <2>8, <2>9, FrameStep DEF ms
<1>9. ASSUME k.type \notin Types, conn' = [conn EXCEPT ![c] = NextMessage(k)], handled' = handled
      PROVE  FrameInv'
  <2> DEFINE l == NextMessage(k)
  <2>1. l.pc = "top" /\ Idle(l) /\ l.net = k.net /\ conn' = [conn EXCEPT ![c] = l]
    BY <1>7, <1>9
  <2> HIDE DEF l
  <2>2. handled[c] = handled[c] \o HandledOf(m)
    BY <1>1, <1>2, <1>3, <1>5, <1>9, NothingHandled DEF m
  <2>3. Framing(ms, handled[c], l)
    BY <1>1, <1>2, <1>3, <1>6, <2>1, <2>2, NextFrame DEF m
  <2> QED
    BY <1>1, <1>9, <2>1, <2>3, FrameStepOnly DEF ms
<1> QED
  BY <1>1, <1>8, <1>9

-----------------------------------------------------------------------------
LEMMA InitFrames == Init => FrameInv
<1> SUFFICES ASSUME Init PROVE FrameInv
  OBVIOUS
<1>1. /\ conn = [c \in Conns |-> NewConn] /\ plan \in Plans
      /\ handled = [c \in Conns |-> <<>>]
  BY DEF Init
<1>2. NewConn.pc = "new" /\ Idle(NewConn)
  BY DEF NewConn, Idle
<1> QED
  BY <1>1, <1>2 DEF FrameInv, Framing

LEMMA NextFrames == IInv /\ FrameInv /\ [Next]_vars => FrameInv'
<1> SUFFICES ASSUME Shape, FrameInv, [Next]_vars PROVE FrameInv'
  BY DEF IInv
<1>1. CASE UNCHANGED vars
  BY <1>1 DEF vars, FrameInv, Framing, ReadAfter, Offset, Idle, InHeader, InBody
<1>2. CASE Tick
  BY <1>2, TickFrames
<1>3. ASSUME NEW c \in Conns,
             \/ Admit(c) \/ Refuse(c) \/ WaitInit(c) \/ WaitInitFails(c)
             \/ ReadCount(c) \/ Increment(c) \/ Decrement(c)
             \/ Iterate(c) \/ HeartbeatTimeout(c) \/ Leave(c) \/ CloseClient(c)
      PROVE  FrameInv'
  BY <1>3, AdmissionFrames, CountFrames, LoopFrames
<1>4. ASSUME NEW c \in Conns,
             \/ ReadNothing(c) \/ Heartbeat(c) \/ FirstByte(c)
             \/ \E n \in 0..HeadSize : ReadHeader(c, n)
             \/ TooBig(c) \/ EmptyMessage(c) \/ StartBody(c)
             \/ \E n \in 0..MaxBody : ReadBody(c, n)
             \/ HandleMessage(c) \/ UnknownMessage(c)
      PROVE  FrameInv'
  BY <1>4, LoopFrames, FirstByteFrames, ReadHeaderFrames, HeaderFrames, ReadBodyFrames,
     HandleFrames
<1> QED
  BY <1>1, <1>2, <1>3, <1>4 DEF Next

(* What has been read of the bytes of a device is whole messages, and less *)
(* than one more.                                                          *)
LEMMA FramedOf == FrameInv => Framed
<1> SUFFICES ASSUME FrameInv, NEW c \in Conns
             PROVE  IF conn[c].pc \in {"top", "read"}
                    THEN \E i \in 0..Len(plan[c]) :
                           /\ Sent(plan[c], i) <= Sent(plan[c], Len(plan[c])) - Len(conn[c].net)
                           /\ i < Len(plan[c]) =>
                                Sent(plan[c], Len(plan[c])) - Len(conn[c].net)
                                  < Sent(plan[c], i + 1)
                           /\ handled[c] = Handled(SubSeq(plan[c], 1, i))
                    ELSE IsPrefix(handled[c], Handled(plan[c]))
  BY DEF Framed, Sent
<1> DEFINE k == conn[c]
           ms == plan[c]
           B == Bytes(ms)
<1>1. /\ ms \in Seq(MessageType) /\ Framing(ms, handled[c], k)
      /\ HeadSize \in Nat /\ HeadSize > 1
  BY PlanOf
<1> HIDE DEF k, ms
<1>2. CASE k.pc \in {"top", "read"}
  <2>1. PICK i \in 0..Len(ms) : handled[c] = Handled(SubSeq(ms, 1, i)) /\ ReadAfter(ms, i, k)
    BY <1>2, InLoop DEF Looping, k, ms
  <2> DEFINE a == Sent(ms, i)
             o == Offset(k)
             z == Size(ms[i + 1])
  <2>2. /\ B \in Seq(Nat) /\ Sent(ms, Len(ms)) = Len(B) /\ a \in 0..Len(B)
        /\ i < Len(ms) => Sent(ms, i + 1) = a + z /\ Sent(ms, i + 1) \in 0..Len(B)
    BY <1>1, StreamSteps, MessageIs
  <2>3. Len(B) \in Nat
    BY <2>2, LenProperties
  <2>4. o \in Nat /\ (i < Len(ms) => o < z /\ z \in Nat) /\ (i = Len(ms) => o = 0)
    <3>1. /\ o \in Nat /\ k.step \in 0..2 /\ (i = Len(ms) => o = 0)
          /\ k.step = 0 => o = 0
          /\ k.step = 1 => InHeader(ms[i + 1], k) /\ o = k.nRead
          /\ k.step = 2 => InBody(ms[i + 1], k) /\ o = HeadSize + k.nRead
      BY <1>1, <2>1, OffsetIs
    <3>2. i < Len(ms) => /\ z \in Nat \ {0} /\ ms[i + 1].len \in Nat
                         /\ ms[i + 1].type # 0 => z = HeadSize + ms[i + 1].len
      BY <1>1, MessageIs, BytesOfIs DEF Size
    <3> HIDE DEF o, z
    <3>3. ASSUME i < Len(ms)
          PROVE  o < z
      <4>1. CASE k.step = 0
        BY <3>1, <3>2, <3>3, <4>1
      <4>2. CASE k.step = 1
        <5>1. o \in 1..(HeadSize - 1) /\ z = HeadSize + ms[i + 1].len /\ ms[i + 1].len \in Nat
          BY <1>2, <3>1, <3>2, <3>3, <4>2 DEF InHeader
        <5> QED
          BY <1>1, <5>1
      <4>3. CASE k.step = 2
        <5>1. /\ k.nRead \in 0..ms[i + 1].len /\ k.nRead < ms[i + 1].len /\ o = HeadSize + k.nRead
              /\ z = HeadSize + ms[i + 1].len /\ ms[i + 1].len \in Nat
          BY <1>2, <3>1, <3>2, <3>3, <4>3 DEF InBody
        <5> QED
          BY <1>1, <5>1
      <4> QED
        BY <3>1, <4>1, <4>2, <4>3
    <3> QED
      BY <3>1, <3>2, <3>3
  <2>5. k.net = Rest(B, a + o)
    BY <2>1 DEF ReadAfter
  <2>6. i < Len(ms) \/ i = Len(ms)
    BY <1>1, MessageIs
  <2> HIDE DEF a, o, z, B
  <2>7. a + o \in 0..Len(B)
    <3>1. CASE i < Len(ms)
      BY <2>2, <2>3, <2>4, <3>1
    <3>2. CASE i = Len(ms)
      BY <2>2, <2>3, <2>4, <3>2 DEF a
    <3> QED
      BY <2>6, <3>1, <3>2
  <2>8. Len(k.net) = Len(B) - (a + o)
    <3> DEFINE p == a + o
    <3>1. p \in 0..Len(B) /\ B \in Seq(Nat) /\ k.net = Rest(B, p)
      BY <2>2, <2>5, <2>7
    <3> HIDE DEF p
    <3>2. Len(Rest(B, p)) = Len(B) - p
      BY <3>1, RestIs
    <3> QED
      BY <3>1, <3>2 DEF p
  <2>9. Sent(ms, Len(ms)) - Len(k.net) = a + o
    BY <2>2, <2>3, <2>4, <2>8
  <2>10. a <= a + o /\ (i < Len(ms) => a + o < Sent(ms, i + 1))
    BY <2>2, <2>3, <2>4
  <2> QED
    BY <1>2, <2>1, <2>9, <2>10 DEF a, k, ms
<1>3. CASE k.pc \notin {"top", "read"}
  <2>1. /\ Handled(SubSeq(ms, 1, 0)) = <<>>
        /\ \A n \in 0..Len(ms) : IsPrefix(Handled(SubSeq(ms, 1, n)), Handled(ms))
    BY <1>1, HandledSteps
  <2>2. 0 \in 0..Len(ms)
    BY <1>1, LenProperties
  <2>3. IsPrefix(handled[c], Handled(ms))
    BY <1>1, <2>1, <2>2 DEF Framing
  <2> QED
    BY <1>3, <2>3 DEF k, ms
<1> QED
  BY <1>2, <1>3

(* The bytes of a device, of any number of messages, are taken apart into  *)
(* the messages it sent, however reads and deadlines cut them: what has    *)
(* been read of them is whole messages and less than one more.             *)
THEOREM FramedHolds == Spec => []Framed
<1>1. Init => FrameInv
  BY InitFrames
<1>2. IInv /\ FrameInv /\ [Next]_vars => FrameInv'
  BY NextFrames
<1>3. FrameInv => Framed
  BY FramedOf
<1> QED
  BY <1>1, <1>2, <1>3, ConnectionInvariant, PTL DEF Spec

=============================================================================
