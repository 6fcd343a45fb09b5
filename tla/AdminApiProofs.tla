--------------------------- MODULE AdminApiProofs ---------------------------
(***************************************************************************)
(* Proofs about AdminApi, for any requests, packages and services and any  *)
(* failures.                                                               *)
(***************************************************************************)
EXTENDS AdminApi, FiniteSetTheorems, TLAPS

-----------------------------------------------------------------------------
(* The inductive invariant.                                                *)
Ops == {"none", "add", "del", "control", "clear", "get"}
Pcs ==
  {"new", "done", "id", "check", "storeApp", "storePackage", "load", "delApp",
   "delPackage", "list", "count", "call", "listOutcome", "countOutcome", "del",
   "cmd", "outcomes"}

ReqType ==
  [op : Ops, pc : Pcs, pkg : Pkgs \union {None}, app : Nat \union {None},
   svc : Services \union {None}, failed : BOOLEAN, todo : SUBSET Services,
   out : 0..5, cmd : Nat, sum : Nat, open : Nat]

Types ==
  /\ pappid \in Nat
  /\ DOMAIN apps \subseteq 0..pappid /\ \A a \in DOMAIN apps : apps[a] \in Pkgs
  /\ DOMAIN packages \subseteq Pkgs /\ \A p \in DOMAIN packages : packages[p] \in 0..pappid
  /\ services \subseteq Services
  /\ cmds \in [Services -> Nat] /\ outcomes \in [Services -> [Outcomes -> Nat]]
  /\ req \in [Requests -> ReqType]

(* Requests that are under way at the same time have met.                  *)
Overlaps ==
  \A q, r \in UnderWay : q # r => {q, r} \in met

(* A request that has not begun is none; what a command to a device and a  *)
(* reading of counters are about.                                          *)
Begun ==
  \A q \in Requests :
    /\ req[q].pc = "new" => req[q].op = "none" /\ req[q].pkg = None /\ ~req[q].failed
    /\ At(q, "del", "load") => req[q].pkg = None
    /\ req[q].app # None => req[q].app <= pappid
    /\ req[q].op = "control" => req[q].svc \in Services
    /\ req[q].op = "control" /\ req[q].pc \in {"listOutcome", "countOutcome"} =>
         req[q].out \in Outcomes
    /\ At(q, "get", "outcomes") => req[q].svc \in Services
    /\ req[q].op = "add" => req[q].pkg \in Pkgs
    /\ At(q, "del", "delApp") => req[q].pkg \in Pkgs

(* The app id of an addition under way is nobody else's, ...               *)
Adding(q) == req[q].op = "add" /\ req[q].pc \in {"check", "storeApp", "storePackage"}

FreshIds ==
  \A q \in Requests : Adding(q) =>
    /\ req[q].app \in 1..pappid
    /\ \A p \in DOMAIN packages : packages[p] # req[q].app
    /\ \A r \in Requests \ {q} : req[r].app # req[q].app
    /\ IF req[q].pc = "storePackage"
         THEN req[q].app \in DOMAIN apps /\ apps[req[q].app] = req[q].pkg
         ELSE req[q].app \notin DOMAIN apps

(* ... and an app stays one of the package a deletion has loaded.          *)
LoadedRight ==
  \A q \in Requests :
    At(q, "del", "delApp") /\ req[q].app \in DOMAIN apps => apps[req[q].app] = req[q].pkg

(* The requests about a package neither failed nor overlapped: then at     *)
(* most one of them is under way, and it says how far the package is from  *)
(* being right.                                                            *)
Calm(p) ==
  /\ \A q \in Touching(p) : ~req[q].failed
  /\ \A q, r \in Touching(p) : {q, r} \notin met

AppsOf(p) == {a \in DOMAIN apps : apps[a] = p}

HalfDone(q) == At(q, "add", "storePackage") \/ At(q, "del", "delPackage")

PackageRight(p) ==
  /\ (\A q \in Touching(p) : ~HalfDone(q)) => AppsOf(p) = {GetApp(p)} \ {None}
  /\ \A q \in Touching(p) :
       /\ At(q, "add", "storeApp") => p \notin DOMAIN packages
       /\ At(q, "add", "storePackage") => p \notin DOMAIN packages /\ AppsOf(p) = {req[q].app}
       /\ At(q, "del", "delApp") => req[q].app \in AppsOf(p)
       /\ At(q, "del", "delPackage") => AppsOf(p) = {}

PackagesRight == \A p \in Pkgs : Calm(p) => PackageRight(p)

(* Without failures an outcome is missing only of commands that are open.  *)
NoneLost ==
  NoneFailed(Op("control")) =>
    \A s \in Services : cmds[s] <= Total(outcomes[s]) + Open(s)

(* A command is counted for a service that is listed, and ClearStats has   *)
(* only those services left to clear that have counters.                   *)
Listed ==
  Apart(Op("control"), Op("clear")) =>
    /\ \A q \in Requests :
         req[q].op = "control" /\ req[q].pc \in {"count", "countOutcome"} =>
           req[q].svc \in services
    /\ NoneFailed(Op("clear")) =>
         \A q \in Requests : At(q, "clear", "del") =>
           \A s \in Services \ req[q].todo : cmds[s] = 0 /\ outcomes[s] = Zero

(* What GetStats has read and the counters it has yet to read.             *)
Rest(count, i) ==
  (IF i < 1 THEN count[1] ELSE 0) + (IF i < 2 THEN count[2] ELSE 0)
    + (IF i < 3 THEN count[3] ELSE 0) + (IF i < 4 THEN count[4] ELSE 0)
    + (IF i < 5 THEN count[5] ELSE 0)

ReadRight ==
  \A q \in Requests :
    At(q, "get", "outcomes") /\ NoneFailed({q} \union Op("control")) /\ Apart({q}, Op("clear"))
    => req[q].cmd <= req[q].sum + Rest(outcomes[req[q].svc], req[q].out) + req[q].open

IInv ==
  /\ Types /\ Overlaps /\ Begun
  /\ FreshIds /\ LoadedRight /\ PackagesBacked /\ PackagesRight
  /\ OutcomesCounted /\ NoneLost /\ CountersListed /\ Listed /\ ReadRight

-----------------------------------------------------------------------------
(* Values.                                                                 *)
LEMMA ReqFields ==
  ASSUME NEW r \in ReqType
  PROVE  /\ r.op \in Ops /\ r.pc \in Pcs /\ r.pkg \in Pkgs \union {None}
         /\ r.app \in Nat \union {None} /\ r.svc \in Services \union {None}
         /\ r.failed \in BOOLEAN /\ r.todo \subseteq Services /\ r.out \in 0..5
         /\ r.cmd \in Nat /\ r.sum \in Nat /\ r.open \in Nat
  BY DEF ReqType

LEMMA RequestFields ==
  ASSUME NEW op \in Ops, NEW pc \in Pcs, NEW pkg \in Pkgs \union {None},
         NEW app \in Nat \union {None}, NEW svc \in Services \union {None}
  PROVE  /\ Request(op, pc, pkg, app, svc) \in ReqType
         /\ Request(op, pc, pkg, app, svc).op = op /\ Request(op, pc, pkg, app, svc).pc = pc
         /\ Request(op, pc, pkg, app, svc).pkg = pkg /\ Request(op, pc, pkg, app, svc).app = app
         /\ Request(op, pc, pkg, app, svc).svc = svc
         /\ Request(op, pc, pkg, app, svc).failed = FALSE
  BY DEF Request, ReqType

(* What changes of a request, by the name of what is new.                  *)
NameKept(x, r) == x.op = r.op /\ x.pkg = r.pkg /\ x.app = r.app /\ x.svc = r.svc
WorkKept(x, r) ==
  x.todo = r.todo /\ x.out = r.out /\ x.cmd = r.cmd /\ x.sum = r.sum /\ x.open = r.open

Going(r, p) == [r EXCEPT !.pc = p]
Failing(r, p) == [r EXCEPT !.pc = p, !.failed = TRUE]
WithApp(r, p, a) == [r EXCEPT !.pc = p, !.app = a]
WithPkg(r, p, k) == [r EXCEPT !.pc = p, !.pkg = k]
WithOut(r, p, i) == [r EXCEPT !.pc = p, !.out = i]
WithTodo(r, p, t) == [r EXCEPT !.pc = p, !.todo = t]

LEMMA GoingFields ==
  ASSUME NEW r \in ReqType, NEW p \in Pcs
  PROVE  /\ Going(r, p) \in ReqType /\ Going(r, p).pc = p /\ Going(r, p).failed = r.failed
         /\ NameKept(Going(r, p), r) /\ WorkKept(Going(r, p), r)
  BY DEF Going, ReqType, NameKept, WorkKept

LEMMA FailingFields ==
  ASSUME NEW r \in ReqType, NEW p \in Pcs
  PROVE  /\ Failing(r, p) \in ReqType /\ Failing(r, p).pc = p /\ Failing(r, p).failed = TRUE
         /\ NameKept(Failing(r, p), r) /\ WorkKept(Failing(r, p), r)
  BY DEF Failing, ReqType, NameKept, WorkKept

LEMMA WithAppFields ==
  ASSUME NEW r \in ReqType, NEW p \in Pcs, NEW a \in Nat \union {None}
  PROVE  /\ WithApp(r, p, a) \in ReqType /\ WithApp(r, p, a).pc = p
         /\ WithApp(r, p, a).app = a /\ WithApp(r, p, a).failed = r.failed
         /\ WithApp(r, p, a).op = r.op /\ WithApp(r, p, a).pkg = r.pkg
         /\ WithApp(r, p, a).svc = r.svc
  BY DEF WithApp, ReqType

LEMMA WithPkgFields ==
  ASSUME NEW r \in ReqType, NEW p \in Pcs, NEW k \in Pkgs
  PROVE  /\ WithPkg(r, p, k) \in ReqType /\ WithPkg(r, p, k).pc = p
         /\ WithPkg(r, p, k).pkg = k /\ WithPkg(r, p, k).failed = r.failed
         /\ WithPkg(r, p, k).op = r.op /\ WithPkg(r, p, k).app = r.app
         /\ WithPkg(r, p, k).svc = r.svc
  BY DEF WithPkg, ReqType

LEMMA WithOutFields ==
  ASSUME NEW r \in ReqType, NEW p \in Pcs, NEW i \in 0..5
  PROVE  /\ WithOut(r, p, i) \in ReqType /\ WithOut(r, p, i).pc = p
         /\ WithOut(r, p, i).out = i /\ WithOut(r, p, i).failed = r.failed
         /\ NameKept(WithOut(r, p, i), r)
  BY DEF WithOut, ReqType, NameKept

LEMMA WithTodoFields ==
  ASSUME NEW r \in ReqType, NEW p \in Pcs, NEW t \in SUBSET Services
  PROVE  /\ WithTodo(r, p, t) \in ReqType /\ WithTodo(r, p, t).pc = p
         /\ WithTodo(r, p, t).todo = t /\ WithTodo(r, p, t).failed = r.failed
         /\ NameKept(WithTodo(r, p, t), r)
  BY DEF WithTodo, ReqType, NameKept

-----------------------------------------------------------------------------
(* Steps.  The others stay as they are, and nothing that happened is       *)
(* undone.                                                                 *)
Becomes(q, x) ==
  req' \in [Requests -> ReqType] /\ req'[q] = x /\ \A r \in Requests \ {q} : req'[r] = req[r]

LEMMA ReqBecomes ==
  ASSUME Types, NEW q \in Requests, NEW x \in ReqType, req' = [req EXCEPT ![q] = x]
  PROVE  Becomes(q, x)
  BY DEF Types, Becomes

LEMMA OkDoes ==
  ASSUME Types, NEW q \in Requests, NEW p \in Pcs, Ok(q, p)
  PROVE  Becomes(q, Going(req[q], p))
<1>1. req[q] \in ReqType
  BY DEF Types
<1>2. Going(req[q], p) \in ReqType
  BY <1>1, GoingFields
<1>3. req' = [req EXCEPT ![q] = Going(req[q], p)]
  BY DEF Ok, Going
<1> QED
  BY <1>2, <1>3, ReqBecomes

LEMMA ErrDoes ==
  ASSUME Types, NEW q \in Requests, NEW p \in Pcs, Err(q, p)
  PROVE  Becomes(q, Failing(req[q], p))
<1>1. req[q] \in ReqType
  BY DEF Types
<1>2. Failing(req[q], p) \in ReqType
  BY <1>1, FailingFields
<1>3. req' = [req EXCEPT ![q] = Failing(req[q], p)]
  BY DEF Err, Failing
<1> QED
  BY <1>2, <1>3, ReqBecomes

Grows(q) ==
  /\ req \in [Requests -> ReqType] /\ req' \in [Requests -> ReqType]
  /\ \A r \in Requests \ {q} : req'[r] = req[r]
  /\ met \subseteq met'
  /\ req[q].op \in {"none", req'[q].op}
  /\ req[q].failed => req'[q].failed

LEMMA HistoryGrows ==
  ASSUME NEW q \in Requests, Grows(q)
  PROVE  /\ NoneFailed(Op("control"))' => NoneFailed(Op("control"))
         /\ NoneFailed(Op("clear"))' => NoneFailed(Op("clear"))
         /\ Apart(Op("control"), Op("clear"))' => Apart(Op("control"), Op("clear"))
         /\ \A r \in Requests :
              /\ NoneFailed({r} \union Op("control"))' => NoneFailed({r} \union Op("control"))
              /\ Apart({r}, Op("clear"))' => Apart({r}, Op("clear"))
<1>1. /\ Op("control") \subseteq Op("control")' /\ Op("clear") \subseteq Op("clear")'
      /\ Op("control") \subseteq Requests /\ Op("clear") \subseteq Requests
  BY DEF Op, Grows
<1>2. \A r \in Requests : req[r].failed => req'[r].failed
  BY DEF Grows
<1>3. met \subseteq met'
  BY DEF Grows
<1>4. /\ NoneFailed(Op("control"))' => NoneFailed(Op("control"))
      /\ NoneFailed(Op("clear"))' => NoneFailed(Op("clear"))
  BY <1>1, <1>2 DEF NoneFailed
<1>5. Apart(Op("control"), Op("clear"))' => Apart(Op("control"), Op("clear"))
  BY <1>1, <1>3 DEF Apart
<1>6. \A r \in Requests :
        /\ NoneFailed({r} \union Op("control"))' => NoneFailed({r} \union Op("control"))
        /\ Apart({r}, Op("clear"))' => Apart({r}, Op("clear"))
  BY <1>1, <1>2, <1>3 DEF NoneFailed, Apart
<1> QED
  BY <1>4, <1>5, <1>6

LEMMA CalmGrows ==
  ASSUME NEW q \in Requests, Grows(q), NEW p, p # None,
         req[q].pkg = p /\ req[q].op \in {"add", "del"} => req'[q].pkg = p
  PROVE  Calm(p)' => Calm(p)
<1>1. Touching(p) \subseteq Touching(p)' /\ Touching(p) \subseteq Requests
  BY DEF Touching, Grows
<1>2. \A r \in Requests : req[r].failed => req'[r].failed
  BY DEF Grows
<1>3. met \subseteq met'
  BY DEF Grows
<1> QED
  BY <1>1, <1>2, <1>3 DEF Calm

LEMMA OverlapsKept ==
  ASSUME NEW q \in Requests, Grows(q), Overlaps, req[q].pc \notin {"new", "done"}
  PROVE  Overlaps'
<1>1. UnderWay' \subseteq UnderWay
  BY DEF UnderWay, Grows
<1> QED
  BY <1>1 DEF Overlaps, Grows

-----------------------------------------------------------------------------
(* Requests about statistics do not disturb apps and packages.             *)
AppPart == FreshIds /\ LoadedRight /\ PackagesBacked /\ PackagesRight

NoApp == {"none", "control", "clear", "get"}

LEMMA AppPartKept ==
  ASSUME AppPart, NEW q \in Requests, Grows(q), UNCHANGED appVars,
         req[q].op \in NoApp, req'[q].op \in NoApp, req'[q].app \in {req[q].app, None},
         None \notin Pkgs, None \notin Nat, pappid \in Nat
  PROVE  AppPart'
<1>1. UNCHANGED <<apps, packages, pappid>>
  BY DEF appVars
<1>2. \A r \in Requests : req'[r].op \in {"add", "del"} \/ req[r].op \in {"add", "del"} =>
        r # q /\ req'[r] = req[r]
  BY DEF Grows, NoApp
<1>3. FreshIds'
  <2> SUFFICES ASSUME NEW r \in Requests, Adding(r)'
               PROVE  /\ req'[r].app \in 1..pappid
                      /\ \A p \in DOMAIN packages : packages[p] # req'[r].app
                      /\ \A s \in Requests \ {r} : req'[s].app # req'[r].app
                      /\ IF req'[r].pc = "storePackage"
                           THEN req'[r].app \in DOMAIN apps /\ apps[req'[r].app] = req'[r].pkg
                           ELSE req'[r].app \notin DOMAIN apps
    BY <1>1 DEF FreshIds
  <2>1. req'[r] = req[r] /\ Adding(r)
    BY <1>2 DEF Adding
  <2>2. /\ req[r].app \in 1..pappid
        /\ \A p \in DOMAIN packages : packages[p] # req[r].app
        /\ \A s \in Requests \ {r} : req[s].app # req[r].app
        /\ IF req[r].pc = "storePackage"
             THEN req[r].app \in DOMAIN apps /\ apps[req[r].app] = req[r].pkg
             ELSE req[r].app \notin DOMAIN apps
    BY <2>1 DEF AppPart, FreshIds
  <2>3. req[r].app # None
    BY <2>2
  <2>4. \A s \in Requests \ {r} : req'[s].app # req[r].app
    BY <2>2, <2>3 DEF Grows
  <2> QED
    BY <2>1, <2>2, <2>4
<1>4. LoadedRight'
  BY <1>1, <1>2 DEF AppPart, LoadedRight, At
<1>5. PackagesBacked'
  BY <1>1, <1>2 DEF AppPart, PackagesBacked
<1>6. \A p : Touching(p)' = Touching(p)
  BY <1>2 DEF Touching
<1>7. PackagesRight'
  <2> SUFFICES ASSUME NEW p \in Pkgs, Calm(p)'
               PROVE  PackageRight(p)'
    BY DEF PackagesRight
  <2>1. Calm(p)
    BY <1>2, CalmGrows
  <2>2. PackageRight(p)
    BY <2>1 DEF AppPart, PackagesRight
  <2>3. \A r \in Touching(p) : req'[r] = req[r]
    BY <1>2 DEF Touching
  <2>4. AppsOf(p)' = AppsOf(p) /\ GetApp(p)' = GetApp(p)
    BY <1>1 DEF AppsOf, GetApp
  <2> QED
    BY <1>1, <1>6, <2>2, <2>3, <2>4 DEF PackageRight, At, HalfDone
<1> QED
  BY <1>3, <1>4, <1>5, <1>7 DEF AppPart

(* Requests about apps do not disturb the statistics.                      *)
StatPart == OutcomesCounted /\ NoneLost /\ CountersListed /\ Listed /\ ReadRight

NoStat == {"none", "add", "del"}

LEMMA OpenKept ==
  ASSUME NEW q \in Requests, Grows(q),
         \A s \in Services :
           (req[q].op = "control" /\ req[q].svc = s /\ req[q].pc \in {"call", "listOutcome", "countOutcome"})
             <=> (req'[q].op = "control" /\ req'[q].svc = s
                   /\ req'[q].pc \in {"call", "listOutcome", "countOutcome"})
  PROVE  \A s \in Services : Open(s)' = Open(s)
<1> SUFFICES ASSUME NEW s \in Services PROVE Open(s)' = Open(s)
  OBVIOUS
<1>1. {r \in Requests :
         /\ req'[r].op = "control" /\ req'[r].svc = s
         /\ req'[r].pc \in {"call", "listOutcome", "countOutcome"}}
      = {r \in Requests :
           /\ req[r].op = "control" /\ req[r].svc = s
           /\ req[r].pc \in {"call", "listOutcome", "countOutcome"}}
  BY DEF Grows
<1> QED
  BY <1>1 DEF Open

LEMMA StatPartKept ==
  ASSUME StatPart, NEW q \in Requests, Grows(q), UNCHANGED statVars,
         req[q].op \in NoStat, req'[q].op \in NoStat
  PROVE  StatPart'
<1>1. UNCHANGED <<services, cmds, outcomes>>
  BY DEF statVars
<1>2. \A r \in Requests :
        req'[r].op \in {"control", "clear", "get"} \/ req[r].op \in {"control", "clear", "get"} =>
        r # q /\ req'[r] = req[r]
  BY DEF Grows, NoStat
<1>3. \A s \in Services : Open(s)' = Open(s)
  BY OpenKept DEF NoStat
<1>4. /\ NoneFailed(Op("control"))' => NoneFailed(Op("control"))
      /\ NoneFailed(Op("clear"))' => NoneFailed(Op("clear"))
      /\ Apart(Op("control"), Op("clear"))' => Apart(Op("control"), Op("clear"))
      /\ \A r \in Requests :
           /\ NoneFailed({r} \union Op("control"))' => NoneFailed({r} \union Op("control"))
           /\ Apart({r}, Op("clear"))' => Apart({r}, Op("clear"))
  BY HistoryGrows
<1>5. OutcomesCounted' /\ NoneLost' /\ CountersListed'
  BY <1>1, <1>3, <1>4 DEF StatPart, OutcomesCounted, NoneLost, CountersListed
<1>6. Listed'
  BY <1>1, <1>2, <1>4 DEF StatPart, Listed, At
<1>7. ReadRight'
  BY <1>1, <1>2, <1>4 DEF StatPart, ReadRight, At
<1> QED
  BY <1>5, <1>6, <1>7 DEF StatPart

-----------------------------------------------------------------------------
(* What a step has to show about the request that takes it.                *)
LEMMA GrowsBy ==
  ASSUME Types, NEW q \in Requests, NEW x \in ReqType, Becomes(q, x), met \subseteq met',
         req[q].op \in {"none", x.op}, req[q].failed => x.failed
  PROVE  Grows(q)
  BY DEF Types, Becomes, Grows

BegunOne(q) ==
  /\ req[q].pc = "new" => req[q].op = "none" /\ req[q].pkg = None /\ ~req[q].failed
  /\ At(q, "del", "load") => req[q].pkg = None
  /\ req[q].app # None => req[q].app <= pappid
  /\ req[q].op = "control" => req[q].svc \in Services
  /\ req[q].op = "control" /\ req[q].pc \in {"listOutcome", "countOutcome"} =>
       req[q].out \in Outcomes
  /\ At(q, "get", "outcomes") => req[q].svc \in Services
  /\ req[q].op = "add" => req[q].pkg \in Pkgs
  /\ At(q, "del", "delApp") => req[q].pkg \in Pkgs

LEMMA BegunStep ==
  ASSUME Begun, NEW q \in Requests, Grows(q), pappid \in Nat, pappid' \in {pappid, pappid + 1},
         None \notin Nat, BegunOne(q)'
  PROVE  Begun'
<1> SUFFICES ASSUME NEW r \in Requests, r # q PROVE BegunOne(r)'
  BY DEF Begun, BegunOne
<1>1. req'[r] = req[r] /\ req[r] \in ReqType
  BY DEF Grows
<1>2. BegunOne(r)
  BY DEF Begun, BegunOne
<1>3. req[r].app # None => req[r].app <= pappid'
  <2>1. req[r].app \in Nat \union {None}
    BY <1>1, ReqFields
  <2> QED
    BY <1>2, <2>1 DEF BegunOne
<1> QED
  BY <1>1, <1>2, <1>3 DEF BegunOne, At

LEMMA FreshIdsStep ==
  ASSUME FreshIds, NEW q \in Requests, Grows(q),
         pappid \in Nat, pappid' \in {pappid, pappid + 1},
         \A r \in Requests \ {q} : Adding(r) =>
           /\ \A p \in DOMAIN packages' : packages'[p] # req[r].app
           /\ req'[q].app # req[r].app
           /\ req[r].app \in DOMAIN apps' <=> req[r].app \in DOMAIN apps
           /\ req[r].app \in DOMAIN apps => apps'[req[r].app] = apps[req[r].app],
         Adding(q)' =>
           /\ req'[q].app \in 1..pappid'
           /\ \A p \in DOMAIN packages' : packages'[p] # req'[q].app
           /\ \A r \in Requests \ {q} : req[r].app # req'[q].app
           /\ IF req'[q].pc = "storePackage"
                THEN req'[q].app \in DOMAIN apps' /\ apps'[req'[q].app] = req'[q].pkg
                ELSE req'[q].app \notin DOMAIN apps'
  PROVE  FreshIds'
<1> SUFFICES ASSUME NEW r \in Requests, Adding(r)'
             PROVE  /\ req'[r].app \in 1..pappid'
                    /\ \A p \in DOMAIN packages' : packages'[p] # req'[r].app
                    /\ \A s \in Requests \ {r} : req'[s].app # req'[r].app
                    /\ IF req'[r].pc = "storePackage"
                         THEN req'[r].app \in DOMAIN apps' /\ apps'[req'[r].app] = req'[r].pkg
                         ELSE req'[r].app \notin DOMAIN apps'
  BY DEF FreshIds
<1>1. \A s \in Requests \ {q} : req'[s] = req[s]
  BY DEF Grows
<1>2. CASE r = q
  BY <1>1, <1>2
<1>3. CASE r # q
  <2>1. req'[r] = req[r] /\ Adding(r)
    BY <1>1, <1>3 DEF Adding
  <2>2. /\ req[r].app \in 1..pappid
        /\ \A s \in Requests \ {r} : req[s].app # req[r].app
        /\ IF req[r].pc = "storePackage"
             THEN req[r].app \in DOMAIN apps /\ apps[req[r].app] = req[r].pkg
             ELSE req[r].app \notin DOMAIN apps
    BY <2>1 DEF FreshIds
  <2>3. req[r].app \in 1..pappid'
    BY <2>2
  <2>4. \A s \in Requests \ {r} : req'[s].app # req[r].app
    BY <1>1, <1>3, <2>1, <2>2
  <2> QED
    BY <1>3, <2>1, <2>2, <2>3, <2>4
<1> QED
  BY <1>2, <1>3

(* The request that steps and its package, if no other request about the   *)
(* package is under way.                                                   *)
OneRight(q, p) ==
  /\ ~HalfDone(q) => AppsOf(p) = {GetApp(p)} \ {None}
  /\ At(q, "add", "storeApp") => p \notin DOMAIN packages
  /\ At(q, "add", "storePackage") => p \notin DOMAIN packages /\ AppsOf(p) = {req[q].app}
  /\ At(q, "del", "delApp") => req[q].app \in AppsOf(p)
  /\ At(q, "del", "delPackage") => AppsOf(p) = {}

Before(q, p) ==
  IF q \in Touching(p) THEN OneRight(q, p) ELSE AppsOf(p) = {GetApp(p)} \ {None}

LEMMA PackagesRightStep ==
  ASSUME PackagesRight, Overlaps, Overlaps', NEW q \in Requests, Grows(q), None \notin Pkgs,
         q \in UnderWay \/ q \in UnderWay',
         req'[q].op \in {"add", "del"},
         req[q].pkg \in {None, req'[q].pkg},
         \A p \in Pkgs : p # req'[q].pkg =>
           /\ AppsOf(p)' = AppsOf(p) /\ GetApp(p)' = GetApp(p)
           /\ p \in DOMAIN packages' <=> p \in DOMAIN packages,
         req'[q].failed \/ \A p \in Pkgs : p = req'[q].pkg /\ Before(q, p) => OneRight(q, p)'
  PROVE  PackagesRight'
<1> SUFFICES ASSUME NEW p \in Pkgs, Calm(p)'
             PROVE  PackageRight(p)'
  BY DEF PackagesRight
<1>1. \A r \in Requests \ {q} : req'[r] = req[r]
  BY DEF Grows
<1>2. Calm(p) /\ PackageRight(p)
  BY CalmGrows DEF PackagesRight
<1>3. CASE p # req'[q].pkg
  <2>1. p # req[q].pkg
    BY <1>3
  <2>2. \A r \in Requests : r \in Touching(p)' <=> r \in Touching(p)
    BY <1>1, <1>3, <2>1 DEF Touching
  <2>3. Touching(p)' = Touching(p)
    BY <2>2 DEF Touching
  <2>4. \A r \in Touching(p) : req'[r] = req[r]
    BY <1>1, <2>1 DEF Touching
  <2> QED
    BY <1>2, <1>3, <2>3, <2>4 DEF PackageRight, HalfDone, At
<1>4. CASE p = req'[q].pkg
  <2>1. q \in Touching(p)' /\ ~req'[q].failed
    BY <1>4 DEF Touching, Calm
  <2>2. \A r \in Touching(p) \ {q} : r \in Requests /\ r \in Touching(p)' /\ req'[r] = req[r]
    BY <1>1 DEF Touching
  <2>3. \A r \in Touching(p) \ {q} : r \notin UnderWay
    <3> SUFFICES ASSUME NEW r \in Touching(p) \ {q}, r \in UnderWay
                 PROVE  FALSE
      OBVIOUS
    <3>1. r \in UnderWay'
      BY <2>2 DEF UnderWay
    <3>2. {q, r} \in met'
      BY <3>1 DEF Overlaps, Grows
    <3> QED
      BY <2>1, <2>2, <3>2 DEF Calm
  <2>4. \A r \in Touching(p) \ {q} :
          /\ ~HalfDone(r) /\ ~At(r, "add", "storeApp") /\ ~At(r, "add", "storePackage")
          /\ ~At(r, "del", "delApp") /\ ~At(r, "del", "delPackage")
    BY <2>2, <2>3 DEF UnderWay, HalfDone, At
  <2>5. Before(q, p)
    BY <1>2, <2>4 DEF Before, OneRight, PackageRight
  <2>6. OneRight(q, p)'
    BY <1>4, <2>1, <2>5
  <2>7. \A r \in Touching(p)' \ {q} : r \in Touching(p) \ {q} /\ req'[r] = req[r]
    BY <1>1 DEF Touching
  <2>8. \A r \in Touching(p)' \ {q} :
          /\ ~HalfDone(r)' /\ ~At(r, "add", "storeApp")' /\ ~At(r, "add", "storePackage")'
          /\ ~At(r, "del", "delApp")' /\ ~At(r, "del", "delPackage")'
    BY <2>4, <2>7 DEF HalfDone, At
  <2> QED
    BY <2>1, <2>6, <2>8 DEF OneRight, PackageRight
<1> QED
  BY <1>3, <1>4

-----------------------------------------------------------------------------
(* What a step about apps has to show, part by part.                       *)
Parts == Types /\ Overlaps /\ Begun /\ AppPart /\ StatPart

AppTypes ==
  /\ pappid \in Nat
  /\ DOMAIN apps \subseteq 0..pappid /\ \A a \in DOMAIN apps : apps[a] \in Pkgs
  /\ DOMAIN packages \subseteq Pkgs /\ \A p \in DOMAIN packages : packages[p] \in 0..pappid

LEMMA NoneIsNone == None \notin Nat /\ None \notin Pkgs /\ None \notin Services
  BY NoneAssumption

LEMMA AppStep ==
  ASSUME Parts, NEW q \in Requests, NEW x \in ReqType, Becomes(q, x),
         req[q].op \in {"add", "del"}, x.op = req[q].op,
         req[q].pc \notin {"new", "done"}, x.pc \notin {"new", "load"},
         req[q].failed => x.failed,
         UNCHANGED <<statVars, met>>, AppTypes', pappid' \in {pappid, pappid + 1},
         x.app # None => x.app <= pappid',
         x.op = "add" => x.pkg = req[q].pkg,
         x.op = "del" /\ x.pc = "delApp" => x.pkg \in Pkgs
  PROVE  Types' /\ Overlaps' /\ Begun' /\ StatPart' /\ Grows(q)
<1>1. Grows(q)
  BY GrowsBy DEF Parts
<1>2. Types'
  BY DEF Parts, Types, AppTypes, Becomes, statVars
<1>3. Overlaps'
  BY <1>1, OverlapsKept DEF Parts
<1>4. BegunOne(q)
  BY DEF Parts, Begun, BegunOne
<1>5. BegunOne(q)'
  <2>1. req'[q] = x
    BY DEF Becomes
  <2> QED
    BY <1>4, <2>1 DEF BegunOne, At
<1>6. Begun'
  BY <1>1, <1>5, BegunStep, NoneIsNone DEF Parts, Types
<1>7. StatPart'
  <2>1. req[q].op \in NoStat /\ req'[q].op \in NoStat
    BY DEF NoStat, Becomes
  <2> QED
    BY <1>1, <2>1, StatPartKept DEF Parts
<1> QED
  BY <1>1, <1>2, <1>3, <1>6, <1>7

LEMMA LoadedRightStep ==
  ASSUME LoadedRight, NEW q \in Requests, Grows(q),
         \A r \in Requests \ {q} : At(r, "del", "delApp") /\ req[r].app \in DOMAIN apps' =>
           req[r].app \in DOMAIN apps /\ apps'[req[r].app] = apps[req[r].app],
         At(q, "del", "delApp")' /\ req'[q].app \in DOMAIN apps' =>
           apps'[req'[q].app] = req'[q].pkg
  PROVE  LoadedRight'
<1>1. \A r \in Requests \ {q} : req'[r] = req[r]
  BY DEF Grows
<1> QED
  BY <1>1 DEF LoadedRight, At

(* A package of an app, and one a deletion leaves without its app.         *)
Backed(p) == packages[p] \in DOMAIN apps /\ apps[packages[p]] = p
HalfDeleted(q, p) ==
  req[q].op = "del" /\ req[q].pkg = p /\ (req[q].pc = "delPackage" \/ req[q].failed)

LEMMA PackagesBackedStep ==
  ASSUME PackagesBacked, NEW q \in Requests, Grows(q),
         \A p \in DOMAIN packages' :
           \/ Backed(p)'
           \/ HalfDeleted(q, p)'
           \/ p \in DOMAIN packages /\ ~Backed(p) /\ ~HalfDeleted(q, p)
  PROVE  PackagesBacked'
<1> SUFFICES ASSUME NEW p \in DOMAIN packages', ~Backed(p)'
             PROVE  \E r \in Requests : HalfDeleted(r, p)'
  BY DEF PackagesBacked, Backed, HalfDeleted
<1>1. CASE HalfDeleted(q, p)'
  BY <1>1
<1>2. CASE p \in DOMAIN packages /\ ~Backed(p) /\ ~HalfDeleted(q, p)
  <2>1. \E r \in Requests : HalfDeleted(r, p)
    BY <1>2 DEF PackagesBacked, Backed, HalfDeleted
  <2>2. PICK r \in Requests : HalfDeleted(r, p)
    BY <2>1
  <2>3. r # q /\ req'[r] = req[r]
    BY <1>2, <2>2 DEF Grows
  <2> QED
    BY <2>2, <2>3 DEF HalfDeleted
<1> QED
  BY <1>1, <1>2

(* A request whose command fails, and that is over.                        *)
LEMMA FailedRight ==
  ASSUME Parts, NEW q \in Requests, Becomes(q, Failing(req[q], "done")),
         req[q].op \in {"add", "del"}, req[q].pc \notin {"new", "done"},
         UNCHANGED <<statVars, met>>, AppTypes', pappid' \in {pappid, pappid + 1},
         \A p \in Pkgs : p # req[q].pkg =>
           /\ AppsOf(p)' = AppsOf(p) /\ GetApp(p)' = GetApp(p)
           /\ p \in DOMAIN packages' <=> p \in DOMAIN packages,
         \A r \in Requests \ {q} : Adding(r) =>
           /\ \A p \in DOMAIN packages' : packages'[p] # req[r].app
           /\ req[r].app \in DOMAIN apps' <=> req[r].app \in DOMAIN apps
           /\ req[r].app \in DOMAIN apps => apps'[req[r].app] = apps[req[r].app],
         \A r \in Requests \ {q} : At(r, "del", "delApp") /\ req[r].app \in DOMAIN apps' =>
           req[r].app \in DOMAIN apps /\ apps'[req[r].app] = apps[req[r].app],
         \A p \in DOMAIN packages' :
           \/ Backed(p)'
           \/ req[q].op = "del" /\ req[q].pkg = p
           \/ p \in DOMAIN packages /\ ~Backed(p) /\ ~HalfDeleted(q, p)
  PROVE  Parts'
<1> DEFINE x == Failing(req[q], "done")
<1>1. req[q] \in ReqType
  BY DEF Parts, Types
<1>2. /\ x \in ReqType /\ x.pc = "done" /\ x.failed = TRUE /\ x.op = req[q].op
      /\ x.pkg = req[q].pkg /\ x.app = req[q].app
  <2>1. "done" \in Pcs
    BY DEF Pcs
  <2> QED
    BY <1>1, <2>1, FailingFields DEF NameKept
<1>3. req'[q] = x
  BY DEF Becomes
<1>4. req[q].app # None => req[q].app <= pappid'
  <2>1. req[q].app # None => req[q].app <= pappid /\ req[q].app \in Nat
    BY <1>1, ReqFields DEF Parts, Begun
  <2> QED
    BY <2>1 DEF Parts, Types
<1> HIDE DEF x
<1>5. Types' /\ Overlaps' /\ Begun' /\ StatPart' /\ Grows(q)
  <2>1. Becomes(q, x)
    BY DEF x
  <2> QED
    BY <1>2, <1>4, <2>1, AppStep
<1>6. FreshIds'
  <2>1. ~Adding(q)'
    BY <1>2, <1>3 DEF Adding
  <2>2. \A r \in Requests \ {q} : Adding(r) => req'[q].app # req[r].app
    BY <1>2, <1>3 DEF Parts, AppPart, FreshIds
  <2> QED
    BY <1>5, <2>1, <2>2, FreshIdsStep DEF Parts, AppPart, Types
<1>7. LoadedRight'
  <2>1. ~At(q, "del", "delApp")'
    BY <1>2, <1>3 DEF At
  <2> QED
    BY <1>5, <2>1, LoadedRightStep DEF Parts, AppPart
<1>8. PackagesBacked'
  <2>1. \A p \in DOMAIN packages' : req[q].op = "del" /\ req[q].pkg = p => HalfDeleted(q, p)'
    BY <1>2, <1>3 DEF HalfDeleted
  <2> QED
    BY <1>5, <2>1, PackagesBackedStep DEF Parts, AppPart
<1>9. PackagesRight'
  <2>1. q \in UnderWay
    BY DEF UnderWay
  <2> QED
    BY <1>2, <1>3, <1>5, <2>1, PackagesRightStep, NoneIsNone DEF Parts, AppPart
<1> QED
  BY <1>5, <1>6, <1>7, <1>8, <1>9 DEF Parts, AppPart

-----------------------------------------------------------------------------
(* A request that starts.                                                  *)
LEMMA StartStep ==
  ASSUME Parts, NEW q \in Requests, NEW x \in ReqType, Start(q, x),
         x.pc \notin {"new", "done", "load", "delApp", "listOutcome", "countOutcome", "outcomes"}
           \/ (x.op = "del" /\ x.pc = "load" /\ x.pkg = None),
         x.app # None => x.app <= pappid,
         x.op = "control" => x.svc \in Services,
         x.op = "add" => x.pkg \in Pkgs
  PROVE  /\ Types' /\ Overlaps' /\ Begun' /\ Grows(q) /\ Becomes(q, x)
         /\ q \in UnderWay'
         /\ req[q].op = "none" /\ req[q].pkg = None /\ req[q].pc = "new"
         /\ UNCHANGED <<apps, packages, pappid>> /\ UNCHANGED <<services, cmds, outcomes>>
<1>1. /\ Becomes(q, x) /\ met' = met \union {{q, o} : o \in UnderWay}
      /\ UNCHANGED <<apps, packages, pappid>> /\ UNCHANGED <<services, cmds, outcomes>>
      /\ req[q].pc = "new"
  BY ReqBecomes DEF Start, Parts, appVars, statVars
<1>2. req[q].op = "none" /\ req[q].pkg = None /\ ~req[q].failed
  BY <1>1 DEF Parts, Begun
<1>3. Grows(q)
  BY <1>1, <1>2, GrowsBy DEF Parts
<1>4. req'[q] = x /\ \A r \in Requests \ {q} : req'[r] = req[r]
  BY <1>1 DEF Becomes
<1>5. q \in UnderWay'
  BY <1>4 DEF UnderWay
<1>6. Overlaps'
  <2> SUFFICES ASSUME NEW r \in UnderWay', NEW o \in UnderWay', r # o
               PROVE  {r, o} \in met'
    BY DEF Overlaps
  <2>1. r # q => r \in UnderWay
    BY <1>4 DEF UnderWay
  <2>2. o # q => o \in UnderWay
    BY <1>4 DEF UnderWay
  <2>3. CASE r = q
    BY <1>1, <2>2, <2>3
  <2>4. CASE o = q
    <3>1. {r, o} = {q, r}
      BY <2>4
    <3> QED
      BY <1>1, <2>1, <2>4, <3>1
  <2>5. CASE r # q /\ o # q
    BY <1>1, <2>1, <2>2, <2>5 DEF Parts, Overlaps
  <2> QED
    BY <2>3, <2>4, <2>5
<1>7. BegunOne(q)'
  BY <1>1, <1>4 DEF BegunOne, At
<1>8. Begun'
  BY <1>1, <1>3, <1>7, BegunStep, NoneIsNone DEF Parts, Types
<1>9. Types'
  BY <1>1 DEF Parts, Types, Becomes
<1> QED
  BY <1>1, <1>2, <1>3, <1>5, <1>6, <1>8, <1>9

LEMMA StartAddKeeps ==
  ASSUME Parts, NEW q \in Requests, NEW k \in Pkgs, StartAdd(q, k)
  PROVE  Parts'
<1> DEFINE x == Request("add", "id", k, None, None)
<1>1. /\ x \in ReqType /\ x.op = "add" /\ x.pc = "id" /\ x.pkg = k /\ x.app = None
      /\ x.failed = FALSE
  <2>1. "add" \in Ops /\ "id" \in Pcs
    BY DEF Ops, Pcs
  <2>2. /\ k \in Pkgs \union {None} /\ None \in Nat \union {None}
        /\ None \in Services \union {None}
    OBVIOUS
  <2> QED
    BY <2>1, <2>2 DEF Request, ReqType
<1>2. Start(q, x)
  BY DEF StartAdd
<1> HIDE DEF x
<1>3. /\ Types' /\ Overlaps' /\ Begun' /\ Grows(q) /\ Becomes(q, x)
      /\ q \in UnderWay'
      /\ req[q].op = "none" /\ req[q].pkg = None /\ req[q].pc = "new"
      /\ UNCHANGED <<apps, packages, pappid>> /\ UNCHANGED <<services, cmds, outcomes>>
  BY <1>1, <1>2, StartStep
<1>4. req'[q] = x
  BY <1>3 DEF Becomes
<1>5. FreshIds'
  <2>1. ~Adding(q)'
    BY <1>1, <1>4 DEF Adding
  <2>2. \A r \in Requests : Adding(r) =>
          /\ \A p \in DOMAIN packages : packages[p] # req[r].app
          /\ req[r].app \in 1..pappid
    BY DEF Parts, AppPart, FreshIds
  <2>3. \A r \in Requests : Adding(r) => req[r].app # None
    BY <2>2, NoneIsNone DEF Parts, Types
  <2> QED
    BY <1>1, <1>3, <1>4, <2>1, <2>2, <2>3, FreshIdsStep DEF Parts, AppPart, Types
<1>6. LoadedRight'
  <2>1. ~At(q, "del", "delApp")'
    BY <1>1, <1>4 DEF At
  <2> QED
    BY <1>3, <2>1, LoadedRightStep DEF Parts, AppPart
<1>7. PackagesBacked'
  <2>1. \A p : (Backed(p)' <=> Backed(p)) /\ ~HalfDeleted(q, p)
    BY <1>3 DEF Backed, HalfDeleted
  <2> QED
    BY <1>3, <2>1, PackagesBackedStep DEF Parts, AppPart
<1>8. \A p : AppsOf(p)' = AppsOf(p) /\ GetApp(p)' = GetApp(p)
  BY <1>3 DEF AppsOf, GetApp
<1>9. PackagesRight'
  <2>1. \A p \in Pkgs : Before(q, p) => OneRight(q, p)'
    <3>1. \A p : q \notin Touching(p)
      BY <1>3 DEF Touching
    <3>2. ~At(q, "add", "storeApp")' /\ ~At(q, "add", "storePackage")'
          /\ ~At(q, "del", "delApp")' /\ ~At(q, "del", "delPackage")'
      BY <1>1, <1>4 DEF At
    <3> QED
      BY <1>8, <3>1, <3>2 DEF Before, OneRight
  <2> QED
    BY <1>1, <1>3, <1>4, <1>8, <2>1, PackagesRightStep, NoneIsNone DEF Parts, AppPart
<1>10. StatPart'
  <2>1. req[q].op \in NoStat /\ req'[q].op \in NoStat
    BY <1>1, <1>3, <1>4 DEF NoStat
  <2> QED
    BY <1>3, <2>1, StatPartKept DEF Parts, statVars
<1> QED
  BY <1>3, <1>5, <1>6, <1>7, <1>9, <1>10 DEF Parts, AppPart

LEMMA StartDelKeeps ==
  ASSUME Parts, NEW q \in Requests, NEW a \in Known, StartDel(q, a)
  PROVE  Parts'
<1> DEFINE x == Request("del", "load", None, a, None)
<1>1. /\ a \in Nat \union {None} /\ (a # None => a <= pappid)
      /\ \A r \in Requests : Adding(r) => a # req[r].app
  <2>1. CASE a = 0
    BY <2>1 DEF Parts, AppPart, FreshIds, Types
  <2>2. CASE a \in Range(packages)
    <3>1. PICK p \in DOMAIN packages : a = packages[p]
      BY <2>2 DEF Range
    <3> QED
      BY <3>1 DEF Parts, AppPart, FreshIds, Types
  <2>3. CASE \E o \in Requests : At(o, "add", "done") /\ a = req[o].app
    <3>1. PICK o \in Requests : At(o, "add", "done") /\ a = req[o].app
      BY <2>3
    <3>2. req[o] \in ReqType
      BY DEF Parts, Types
    <3>3. a \in Nat \union {None} /\ (a # None => a <= pappid)
      BY <3>1, <3>2, ReqFields DEF Parts, Begun
    <3>4. \A r \in Requests : Adding(r) => r # o
      BY <3>1 DEF Adding, At
    <3> QED
      BY <3>1, <3>3, <3>4 DEF Parts, AppPart, FreshIds
  <2> QED
    BY <2>1, <2>2, <2>3 DEF Known
<1>2. /\ x \in ReqType /\ x.op = "del" /\ x.pc = "load" /\ x.pkg = None /\ x.app = a
      /\ x.failed = FALSE
  <2>1. "del" \in Ops /\ "load" \in Pcs
    BY DEF Ops, Pcs
  <2>2. None \in Pkgs \union {None} /\ None \in Services \union {None}
    OBVIOUS
  <2> QED
    BY <1>1, <2>1, <2>2 DEF Request, ReqType
<1>3. Start(q, x)
  BY DEF StartDel
<1> HIDE DEF x
<1>4. /\ Types' /\ Overlaps' /\ Begun' /\ Grows(q) /\ Becomes(q, x)
      /\ q \in UnderWay'
      /\ req[q].op = "none" /\ req[q].pkg = None /\ req[q].pc = "new"
      /\ UNCHANGED <<apps, packages, pappid>> /\ UNCHANGED <<services, cmds, outcomes>>
  BY <1>1, <1>2, <1>3, StartStep
<1>5. req'[q] = x
  BY <1>4 DEF Becomes
<1>6. FreshIds'
  <2>1. ~Adding(q)'
    BY <1>2, <1>5 DEF Adding
  <2>2. \A r \in Requests : Adding(r) => \A p \in DOMAIN packages : packages[p] # req[r].app
    BY DEF Parts, AppPart, FreshIds
  <2> QED
    BY <1>1, <1>2, <1>4, <1>5, <2>1, <2>2, FreshIdsStep DEF Parts, AppPart, Types
<1>7. LoadedRight'
  <2>1. ~At(q, "del", "delApp")'
    BY <1>2, <1>5 DEF At
  <2> QED
    BY <1>4, <2>1, LoadedRightStep DEF Parts, AppPart
<1>8. PackagesBacked'
  <2>1. \A p : (Backed(p)' <=> Backed(p)) /\ ~HalfDeleted(q, p)
    BY <1>4 DEF Backed, HalfDeleted
  <2> QED
    BY <1>4, <2>1, PackagesBackedStep DEF Parts, AppPart
<1>9. PackagesRight'
  <2>1. \A p : AppsOf(p)' = AppsOf(p) /\ GetApp(p)' = GetApp(p)
    BY <1>4 DEF AppsOf, GetApp
  <2> QED
    BY <1>2, <1>4, <1>5, <2>1, PackagesRightStep, NoneIsNone DEF Parts, AppPart
<1>10. StatPart'
  <2>1. req[q].op \in NoStat /\ req'[q].op \in NoStat
    BY <1>2, <1>4, <1>5 DEF NoStat
  <2> QED
    BY <1>4, <2>1, StatPartKept DEF Parts, statVars
<1> QED
  BY <1>4, <1>6, <1>7, <1>8, <1>9, <1>10 DEF Parts, AppPart

-----------------------------------------------------------------------------
(* The steps of requests about apps.                                       *)
LEMMA Stored ==
  ASSUME NEW f, NEW k, NEW v
  PROVE  /\ DOMAIN Put(f, k, v) = DOMAIN f \union {k} /\ Put(f, k, v)[k] = v
         /\ \A x \in DOMAIN f : x # k => Put(f, k, v)[x] = f[x]
  BY DEF Put

LEMMA Deleted ==
  ASSUME NEW f, NEW k
  PROVE  /\ DOMAIN Del(f, k) = DOMAIN f \ {k}
         /\ \A x \in DOMAIN f \ {k} : Del(f, k)[x] = f[x]
  BY DEF Del, Restrict

(* Of a failed command that left apps and packages alone.                  *)
LEMMA FailedIdle ==
  ASSUME Parts, NEW q \in Requests, Err(q, "done"),
         req[q].op \in {"add", "del"}, req[q].pc \notin {"new", "done"},
         UNCHANGED <<statVars, met>>, UNCHANGED <<apps, packages>>,
         pappid' \in {pappid, pappid + 1}
  PROVE  Parts'
<1>1. Becomes(q, Failing(req[q], "done"))
  BY ErrDoes DEF Parts, Pcs
<1>2. AppTypes'
  BY DEF Parts, Types, AppTypes
<1>3. \A p : AppsOf(p)' = AppsOf(p) /\ GetApp(p)' = GetApp(p)
  BY DEF AppsOf, GetApp
<1>4. \A p : Backed(p)' <=> Backed(p)
  BY DEF Backed
<1>5. \A r \in Requests : Adding(r) => \A p \in DOMAIN packages : packages[p] # req[r].app
  BY DEF Parts, AppPart, FreshIds
<1>6. \A p \in DOMAIN packages' :
        \/ Backed(p)'
        \/ req[q].op = "del" /\ req[q].pkg = p
        \/ p \in DOMAIN packages /\ ~Backed(p) /\ ~HalfDeleted(q, p)
  BY <1>4 DEF HalfDeleted
<1> QED
  BY <1>1, <1>2, <1>3, <1>5, <1>6, FailedRight

LEMMA TakeAppIdKeeps ==
  ASSUME Parts, NEW q \in Requests, TakeAppId(q)
  PROVE  Parts'
<1>1. /\ req[q].op = "add" /\ req[q].pc = "id" /\ UNCHANGED <<apps, packages>>
      /\ UNCHANGED <<statVars, met>> /\ pappid' \in {pappid, pappid + 1}
  BY DEF TakeAppId, At
<1>2. CASE Err(q, "done")
  BY <1>1, <1>2, FailedIdle
<1>3. CASE /\ req' = [req EXCEPT ![q].pc = "check", ![q].app = pappid + 1]
           /\ pappid' = pappid + 1
  <2> DEFINE x == WithApp(req[q], "check", pappid + 1)
  <2>1. req[q] \in ReqType /\ pappid \in Nat
    BY DEF Parts, Types
  <2>2. /\ x \in ReqType /\ x.pc = "check" /\ x.app = pappid + 1 /\ x.failed = req[q].failed
        /\ x.op = "add" /\ x.pkg = req[q].pkg
    <3>1. "check" \in Pcs /\ pappid + 1 \in Nat \union {None}
      BY <2>1 DEF Pcs
    <3> QED
      BY <1>1, <2>1, <3>1, WithAppFields
  <2>3. Becomes(q, x)
    <3>1. req' = [req EXCEPT ![q] = x]
      BY <1>3 DEF WithApp
    <3> QED
      BY <2>2, <3>1, ReqBecomes DEF Parts
  <2> HIDE DEF x
  <2>4. req'[q] = x
    BY <2>3 DEF Becomes
  <2>5. AppTypes'
    BY <1>1, <1>3, <2>1 DEF Parts, Types, AppTypes
  <2>6. Types' /\ Overlaps' /\ Begun' /\ StatPart' /\ Grows(q)
    BY <1>1, <1>3, <2>1, <2>2, <2>3, <2>5, AppStep
  <2>7. FreshIds'
    <3>1. \A r \in Requests : Adding(r) =>
            /\ \A p \in DOMAIN packages : packages[p] # req[r].app
            /\ req[r].app \in 1..pappid
      BY DEF Parts, AppPart, FreshIds
    <3>2. \A p \in DOMAIN packages : packages[p] # pappid + 1
      BY <2>1 DEF Parts, Types
    <3>3. \A r \in Requests : req[r].app # pappid + 1
      <4> SUFFICES ASSUME NEW r \in Requests, req[r].app = pappid + 1 PROVE FALSE
        OBVIOUS
      <4>1. req[r].app # None
        BY <2>1, NoneIsNone
      <4> QED
        BY <2>1, <4>1 DEF Parts, Begun
    <3>4. pappid + 1 \notin DOMAIN apps
      BY <2>1 DEF Parts, Types
    <3>5. /\ Adding(q)' => req'[q].app \in 1..pappid' /\ req'[q].pc # "storePackage"
          /\ req'[q].app = pappid + 1
          /\ pappid + 1 \notin DOMAIN apps'
      BY <1>1, <1>3, <2>1, <2>2, <2>4, <3>4
    <3>6. \A r \in Requests \ {q} : Adding(r) => req'[q].app # req[r].app
      BY <3>3, <3>5
    <3> QED
      BY <1>1, <2>1, <2>6, <3>1, <3>2, <3>3, <3>5, <3>6, FreshIdsStep DEF Parts, AppPart
  <2>8. LoadedRight'
    <3>1. ~At(q, "del", "delApp")'
      BY <2>2, <2>4 DEF At
    <3> QED
      BY <1>1, <2>6, <3>1, LoadedRightStep DEF Parts, AppPart
  <2>9. PackagesBacked'
    <3>1. \A p : (Backed(p)' <=> Backed(p)) /\ ~HalfDeleted(q, p)
      BY <1>1 DEF Backed, HalfDeleted
    <3> QED
      BY <1>1, <2>6, <3>1, PackagesBackedStep DEF Parts, AppPart
  <2>10. PackagesRight'
    <3>1. \A p : AppsOf(p)' = AppsOf(p) /\ GetApp(p)' = GetApp(p)
      BY <1>1 DEF AppsOf, GetApp
    <3>2. q \in UnderWay
      BY <1>1 DEF UnderWay
    <3>3. \A p \in Pkgs : p = req'[q].pkg /\ Before(q, p) => OneRight(q, p)'
      <4>1. ~HalfDone(q)
        BY <1>1 DEF HalfDone, At
      <4>2. /\ ~At(q, "add", "storeApp")' /\ ~At(q, "add", "storePackage")'
            /\ ~At(q, "del", "delApp")' /\ ~At(q, "del", "delPackage")'
        BY <2>2, <2>4 DEF At
      <4> QED
        BY <3>1, <4>1, <4>2 DEF Before, OneRight
    <3> QED
      BY <1>1, <2>2, <2>4, <2>6, <3>1, <3>2, <3>3, PackagesRightStep, NoneIsNone
      DEF Parts, AppPart
  <2> QED
    BY <2>6, <2>7, <2>8, <2>9, <2>10 DEF Parts, AppPart
<1> QED
  BY <1>2, <1>3 DEF TakeAppId

(* Of a command that only read, and did not fail.                          *)
LEMMA ReadKeeps ==
  ASSUME Parts, NEW q \in Requests, NEW x \in ReqType, Becomes(q, x),
         req[q].op \in {"add", "del"}, x.op = req[q].op,
         req[q].pc \notin {"new", "done", "delPackage"},
         x.pc \in {"storeApp", "delApp", "done"}, x.failed = req[q].failed,
         UNCHANGED <<appVars, statVars, met>>,
         x.app \in {req[q].app, None}, req[q].pkg \in {None, x.pkg},
         x.op = "add" => x.pkg = req[q].pkg,
         x.op = "add" /\ x.pc = "storeApp" => Adding(q) /\ x.app = req[q].app
                                              /\ req[q].pc # "storePackage",
         x.op = "del" /\ x.pc = "delApp" =>
           x.pkg \in Pkgs /\ x.app \in DOMAIN apps /\ apps[x.app] = x.pkg,
         \A p \in Pkgs : p = x.pkg /\ Before(q, p) => OneRight(q, p)'
  PROVE  Parts'
<1>1. UNCHANGED <<apps, packages, pappid>> /\ UNCHANGED <<statVars, met>>
  BY DEF appVars
<1>2. req'[q] = x
  BY DEF Becomes
<1>3. AppTypes' /\ pappid \in Nat
  BY <1>1 DEF Parts, Types, AppTypes
<1>4. x.app # None => x.app <= pappid'
  BY <1>1 DEF Parts, Begun
<1>5. Types' /\ Overlaps' /\ Begun' /\ StatPart' /\ Grows(q)
  BY <1>1, <1>3, <1>4, AppStep
<1>6. FreshIds'
  <2>1. \A r \in Requests : Adding(r) =>
          /\ \A p \in DOMAIN packages : packages[p] # req[r].app
          /\ req[r].app # None /\ req[r].app \in 1..pappid
          /\ \A s \in Requests \ {r} : req[s].app # req[r].app
    <3>1. \A i \in 1..pappid : i # None
      BY <1>3, NoneIsNone
    <3> QED
      BY <3>1 DEF Parts, AppPart, FreshIds
  <2>2. \A r \in Requests \ {q} : Adding(r) => req'[q].app # req[r].app
    BY <1>2, <2>1
  <2>3. Adding(q)' => /\ Adding(q) /\ req'[q].app = req[q].app
                      /\ req'[q].pc # "storePackage" /\ req[q].pc # "storePackage"
    BY <1>2 DEF Adding
  <2>4. Adding(q) /\ req[q].pc # "storePackage" => req[q].app \notin DOMAIN apps
    BY DEF Parts, AppPart, FreshIds
  <2> QED
    BY <1>1, <1>3, <1>5, <2>1, <2>2, <2>3, <2>4, FreshIdsStep DEF Parts, AppPart
<1>7. LoadedRight'
  <2>1. At(q, "del", "delApp")' => apps'[req'[q].app] = req'[q].pkg
    BY <1>1, <1>2 DEF At
  <2> QED
    BY <1>1, <1>5, <2>1, LoadedRightStep DEF Parts, AppPart
<1>8. PackagesBacked'
  <2>1. \A p : Backed(p)' <=> Backed(p)
    BY <1>1 DEF Backed
  <2>2. \A p \in Pkgs : HalfDeleted(q, p) => HalfDeleted(q, p)'
    BY <1>2, NoneIsNone DEF HalfDeleted
  <2>3. DOMAIN packages \subseteq Pkgs
    BY DEF Parts, Types
  <2> QED
    BY <1>1, <1>5, <2>1, <2>2, <2>3, PackagesBackedStep DEF Parts, AppPart
<1>9. PackagesRight'
  <2>1. \A p : AppsOf(p)' = AppsOf(p) /\ GetApp(p)' = GetApp(p)
    BY <1>1 DEF AppsOf, GetApp
  <2>2. q \in UnderWay
    BY DEF UnderWay
  <2> QED
    BY <1>1, <1>2, <1>5, <2>1, <2>2, PackagesRightStep, NoneIsNone DEF Parts, AppPart
<1> QED
  BY <1>5, <1>6, <1>7, <1>8, <1>9 DEF Parts, AppPart

LEMMA CheckPackageKeeps ==
  ASSUME Parts, NEW q \in Requests, CheckPackage(q)
  PROVE  Parts'
<1>1. /\ req[q].op = "add" /\ req[q].pc = "check" /\ UNCHANGED <<appVars, statVars, met>>
      /\ UNCHANGED <<apps, packages, pappid>>
  BY DEF CheckPackage, At, appVars
<1>2. req[q] \in ReqType
  BY DEF Parts, Types
<1>3. ~HalfDone(q) /\ Adding(q)
  BY <1>1 DEF HalfDone, At, Adding
<1>4. \A p : AppsOf(p)' = AppsOf(p) /\ GetApp(p)' = GetApp(p)
  BY <1>1 DEF AppsOf, GetApp
<1>5. CASE Err(q, "done")
  BY <1>1, <1>5, FailedIdle
<1>6. CASE req[q].pkg \notin DOMAIN packages /\ Ok(q, "storeApp")
  <2> DEFINE x == Going(req[q], "storeApp")
  <2>1. "storeApp" \in Pcs
    BY DEF Pcs
  <2>2. /\ x \in ReqType /\ x.pc = "storeApp" /\ x.failed = req[q].failed
        /\ x.op = "add" /\ x.pkg = req[q].pkg /\ x.app = req[q].app
    BY <1>1, <1>2, <2>1, GoingFields DEF NameKept
  <2>3. Becomes(q, x)
    BY <1>6, <2>1, OkDoes DEF Parts
  <2> HIDE DEF x
  <2>4. req'[q] = x
    BY <2>3 DEF Becomes
  <2>5. \A p \in Pkgs : p = x.pkg /\ Before(q, p) => OneRight(q, p)'
    <3>1. /\ ~At(q, "add", "storePackage")' /\ ~At(q, "del", "delApp")'
          /\ ~At(q, "del", "delPackage")'
      BY <2>2, <2>4 DEF At
    <3> QED
      BY <1>1, <1>3, <1>4, <1>6, <2>2, <3>1 DEF Before, OneRight
  <2> QED
    BY <1>1, <1>3, <2>2, <2>3, <2>5, ReadKeeps
<1>7. CASE req' = [req EXCEPT ![q].pc = "done", ![q].app = None]
  <2> DEFINE x == WithApp(req[q], "done", None)
  <2>1. "done" \in Pcs /\ None \in Nat \union {None}
    BY DEF Pcs
  <2>2. /\ x \in ReqType /\ x.pc = "done" /\ x.failed = req[q].failed
        /\ x.op = "add" /\ x.pkg = req[q].pkg /\ x.app = None
    BY <1>1, <1>2, <2>1, WithAppFields
  <2>3. Becomes(q, x)
    <3>1. req' = [req EXCEPT ![q] = x]
      BY <1>7 DEF WithApp
    <3> QED
      BY <2>2, <3>1, ReqBecomes DEF Parts
  <2> HIDE DEF x
  <2>4. req'[q] = x
    BY <2>3 DEF Becomes
  <2>5. \A p \in Pkgs : p = x.pkg /\ Before(q, p) => OneRight(q, p)'
    <3>1. /\ ~At(q, "add", "storeApp")' /\ ~At(q, "add", "storePackage")'
          /\ ~At(q, "del", "delApp")' /\ ~At(q, "del", "delPackage")'
      BY <2>2, <2>4 DEF At
    <3> QED
      BY <1>1, <1>3, <1>4, <3>1 DEF Before, OneRight
  <2> QED
    BY <1>1, <1>3, <2>2, <2>3, <2>5, ReadKeeps
<1> QED
  BY <1>5, <1>6, <1>7 DEF CheckPackage

LEMMA LoadAppKeeps ==
  ASSUME Parts, NEW q \in Requests, LoadApp(q)
  PROVE  Parts'
<1>1. /\ req[q].op = "del" /\ req[q].pc = "load" /\ UNCHANGED <<appVars, statVars, met>>
      /\ UNCHANGED <<apps, packages, pappid>>
  BY DEF LoadApp, At, appVars
<1>2. req[q] \in ReqType /\ req[q].pkg = None
  BY <1>1 DEF Parts, Types, Begun, At
<1>3. \A p \in Pkgs : q \notin Touching(p)
  BY <1>2, NoneIsNone DEF Touching
<1>4. \A p : AppsOf(p)' = AppsOf(p) /\ GetApp(p)' = GetApp(p)
  BY <1>1 DEF AppsOf, GetApp
<1>5. CASE Err(q, "done")
  BY <1>1, <1>5, FailedIdle
<1>6. CASE /\ req[q].app \in DOMAIN apps
           /\ req' = [req EXCEPT ![q].pc = "delApp", ![q].pkg = apps[req[q].app]]
  <2> DEFINE k == apps[req[q].app]
             x == WithPkg(req[q], "delApp", k)
  <2>1. "delApp" \in Pcs /\ k \in Pkgs
    BY <1>6 DEF Pcs, Parts, Types
  <2>2. /\ x \in ReqType /\ x.pc = "delApp" /\ x.failed = req[q].failed
        /\ x.op = "del" /\ x.pkg = k /\ x.app = req[q].app
    BY <1>1, <1>2, <2>1, WithPkgFields
  <2>3. Becomes(q, x)
    <3>1. req' = [req EXCEPT ![q] = x]
      BY <1>6 DEF WithPkg
    <3> QED
      BY <2>2, <3>1, ReqBecomes DEF Parts
  <2> HIDE DEF x
  <2>4. req'[q] = x
    BY <2>3 DEF Becomes
  <2>5. \A p \in Pkgs : p = x.pkg /\ Before(q, p) => OneRight(q, p)'
    <3>1. /\ ~At(q, "add", "storeApp")' /\ ~At(q, "add", "storePackage")'
          /\ ~At(q, "del", "delPackage")'
      BY <2>2, <2>4 DEF At
    <3>2. \A p \in Pkgs : p = x.pkg => req'[q].app \in AppsOf(p)'
      BY <1>4, <1>6, <2>2, <2>4 DEF AppsOf
    <3> QED
      BY <1>3, <1>4, <3>1, <3>2 DEF Before, OneRight
  <2> QED
    BY <1>1, <1>2, <1>6, <2>1, <2>2, <2>3, <2>5, ReadKeeps
<1>7. CASE Ok(q, "done")
  <2> DEFINE x == Going(req[q], "done")
  <2>1. "done" \in Pcs
    BY DEF Pcs
  <2>2. /\ x \in ReqType /\ x.pc = "done" /\ x.failed = req[q].failed
        /\ x.op = "del" /\ x.pkg = None /\ x.app = req[q].app
    BY <1>1, <1>2, <2>1, GoingFields DEF NameKept
  <2>3. Becomes(q, x)
    BY <1>7, <2>1, OkDoes DEF Parts
  <2> HIDE DEF x
  <2>4. \A p \in Pkgs : p # x.pkg
    BY <2>2, NoneIsNone
  <2> QED
    BY <1>1, <1>2, <2>2, <2>3, <2>4, ReadKeeps
<1> QED
  BY <1>5, <1>6, <1>7 DEF LoadApp

(* An addition that goes on, whatever it has stored.                       *)
LEMMA AddedStep ==
  ASSUME Parts, NEW q \in Requests, NEW c \in {"storePackage", "done"}, Ok(q, c),
         req[q].op = "add", req[q].pc \in {"storeApp", "storePackage"},
         UNCHANGED <<pappid, statVars, met>>, AppTypes'
  PROVE  /\ Types' /\ Overlaps' /\ Begun' /\ StatPart' /\ Grows(q)
         /\ req'[q].pc = c /\ req'[q].op = "add" /\ req'[q].app = req[q].app
         /\ req'[q].pkg = req[q].pkg
<1> DEFINE x == Going(req[q], c)
<1>1. req[q] \in ReqType /\ pappid \in Nat
  BY DEF Parts, Types
<1>2. c \in Pcs
  BY DEF Pcs
<1>3. /\ x \in ReqType /\ x.pc = c /\ x.failed = req[q].failed
      /\ x.op = "add" /\ x.pkg = req[q].pkg /\ x.app = req[q].app
  BY <1>1, <1>2, GoingFields DEF NameKept
<1>4. Becomes(q, x)
  BY <1>2, OkDoes DEF Parts
<1> HIDE DEF x
<1>5. x.app # None => x.app <= pappid'
  BY <1>3 DEF Parts, Begun
<1>6. Types' /\ Overlaps' /\ Begun' /\ StatPart' /\ Grows(q)
  BY <1>1, <1>3, <1>4, <1>5, AppStep
<1> QED
  BY <1>3, <1>4, <1>6 DEF Becomes

LEMMA StoreAppKeeps ==
  ASSUME Parts, NEW q \in Requests, StoreApp(q)
  PROVE  Parts'
<1> DEFINE a == req[q].app
           k == req[q].pkg
<1>1. /\ req[q].op = "add" /\ req[q].pc = "storeApp"
      /\ UNCHANGED <<packages, pappid>> /\ UNCHANGED <<statVars, met>>
  BY DEF StoreApp, At
<1>2. /\ a \in 1..pappid /\ a \notin DOMAIN apps
      /\ \A p \in DOMAIN packages : packages[p] # a
      /\ \A r \in Requests \ {q} : req[r].app # a
  BY <1>1 DEF Parts, AppPart, FreshIds, Adding
<1>3. k \in Pkgs /\ pappid \in Nat
  BY <1>1 DEF Parts, Types, Begun
<1>4. CASE Err(q, "done") /\ apps' = apps
  BY <1>1, <1>4, FailedIdle
<1>5. CASE apps' = Put(apps, a, k)
  <2> HIDE DEF a, k
  <2>1. /\ DOMAIN apps' = DOMAIN apps \union {a} /\ apps'[a] = k
        /\ \A b \in DOMAIN apps : b # a => apps'[b] = apps[b]
    BY <1>5 DEF Put
  <2>2. AppTypes'
    BY <1>1, <1>2, <1>3, <2>1 DEF Parts, Types, AppTypes
  <2>3. \A p : p # k => AppsOf(p)' = AppsOf(p)
    BY <1>2, <2>1 DEF AppsOf
  <2>4. \A p : GetApp(p)' = GetApp(p)
    BY <1>1 DEF GetApp
  <2>5. \A r \in Requests \ {q} :
          /\ req[r].app \in DOMAIN apps' <=> req[r].app \in DOMAIN apps
          /\ req[r].app \in DOMAIN apps => apps'[req[r].app] = apps[req[r].app]
    BY <1>2, <2>1
  <2>6. \A p \in DOMAIN packages : (Backed(p)' <=> Backed(p)) /\ ~HalfDeleted(q, p)
    BY <1>1, <1>2, <2>1 DEF Backed, HalfDeleted
  <2>7. \A r \in Requests : Adding(r) => \A p \in DOMAIN packages : packages[p] # req[r].app
    BY DEF Parts, AppPart, FreshIds
  <2>8. CASE Err(q, "done")
    <3>1. Becomes(q, Failing(req[q], "done"))
      BY <2>8, ErrDoes DEF Parts, Pcs
    <3>2. \A p \in Pkgs : p # req[q].pkg =>
            /\ AppsOf(p)' = AppsOf(p) /\ GetApp(p)' = GetApp(p)
            /\ p \in DOMAIN packages' <=> p \in DOMAIN packages
      BY <1>1, <2>3, <2>4 DEF k
    <3> QED
      BY <1>1, <2>2, <2>5, <2>6, <2>7, <3>1, <3>2, FailedRight
  <2>9. CASE Ok(q, "storePackage")
    <3>1. /\ Types' /\ Overlaps' /\ Begun' /\ StatPart' /\ Grows(q)
          /\ req'[q].pc = "storePackage" /\ req'[q].op = "add" /\ req'[q].app = a
          /\ req'[q].pkg = k
      BY <1>1, <2>2, <2>9, AddedStep DEF a, k
    <3>2. FreshIds'
      BY <1>1, <1>2, <1>3, <2>1, <2>5, <2>7, <3>1, FreshIdsStep DEF Parts, AppPart
    <3>3. LoadedRight'
      <4>1. ~At(q, "del", "delApp")'
        BY <3>1 DEF At
      <4> QED
        BY <2>5, <3>1, <4>1, LoadedRightStep DEF Parts, AppPart
    <3>4. PackagesBacked'
      BY <1>1, <2>6, <3>1, PackagesBackedStep DEF Parts, AppPart
    <3>5. PackagesRight'
      <4>1. q \in UnderWay
        BY <1>1 DEF UnderWay
      <4>2. \A p \in Pkgs : p = k /\ Before(q, p) => OneRight(q, p)'
        <5> SUFFICES ASSUME NEW p \in Pkgs, p = k, Before(q, p)
                     PROVE  OneRight(q, p)'
          OBVIOUS
        <5>1. q \in Touching(p)
          BY <1>1 DEF Touching, k
        <5>2. At(q, "add", "storeApp") /\ ~HalfDone(q)
          BY <1>1 DEF At, HalfDone
        <5>3. p \notin DOMAIN packages /\ AppsOf(p) = {}
          BY <5>1, <5>2 DEF Before, OneRight, GetApp
        <5>4. AppsOf(p)' = {a}
          BY <2>1, <5>3 DEF AppsOf
        <5>5. HalfDone(q)' /\ ~At(q, "add", "storeApp")' /\ ~At(q, "del", "delApp")'
              /\ ~At(q, "del", "delPackage")'
          BY <3>1 DEF HalfDone, At
        <5> QED
          BY <1>1, <3>1, <5>3, <5>4, <5>5 DEF OneRight
      <4>3. req[q].pkg \in {None, req'[q].pkg}
        BY <3>1 DEF k
      <4> QED
        BY <1>1, <2>3, <2>4, <3>1, <4>1, <4>2, <4>3, PackagesRightStep, NoneIsNone
        DEF Parts, AppPart
    <3> QED
      BY <3>1, <3>2, <3>3, <3>4, <3>5 DEF Parts, AppPart
  <2> QED
    BY <2>8, <2>9 DEF StoreApp
<1> QED
  BY <1>4, <1>5 DEF StoreApp

LEMMA StorePackageKeeps ==
  ASSUME Parts, NEW q \in Requests, StorePackage(q)
  PROVE  Parts'
<1> DEFINE a == req[q].app
           k == req[q].pkg
<1>1. /\ req[q].op = "add" /\ req[q].pc = "storePackage"
      /\ UNCHANGED <<apps, pappid>> /\ UNCHANGED <<statVars, met>>
  BY DEF StorePackage, At
<1>2. /\ a \in 1..pappid /\ a \in DOMAIN apps /\ apps[a] = k
      /\ \A p \in DOMAIN packages : packages[p] # a
      /\ \A r \in Requests \ {q} : req[r].app # a
  BY <1>1 DEF Parts, AppPart, FreshIds, Adding
<1>3. k \in Pkgs /\ pappid \in Nat
  BY <1>1 DEF Parts, Types, Begun
<1>4. CASE Err(q, "done") /\ packages' = packages
  BY <1>1, <1>4, FailedIdle
<1>5. CASE packages' = Put(packages, k, a)
  <2> HIDE DEF a, k
  <2>1. /\ DOMAIN packages' = DOMAIN packages \union {k} /\ packages'[k] = a
        /\ \A p \in DOMAIN packages : p # k => packages'[p] = packages[p]
    BY <1>5 DEF Put
  <2>2. AppTypes'
    BY <1>1, <1>2, <1>3, <2>1 DEF Parts, Types, AppTypes
  <2>3. \A p : AppsOf(p)' = AppsOf(p)
    BY <1>1 DEF AppsOf
  <2>4. \A p : p # k => GetApp(p)' = GetApp(p) /\ (p \in DOMAIN packages' <=> p \in DOMAIN packages)
    BY <2>1 DEF GetApp
  <2>5. \A p \in DOMAIN packages' : Backed(p)' \/ (p \in DOMAIN packages /\ ~Backed(p))
    BY <1>1, <1>2, <2>1 DEF Backed
  <2>6. \A p : ~HalfDeleted(q, p)
    BY <1>1 DEF HalfDeleted
  <2>7. \A r \in Requests \ {q} : Adding(r) =>
          \A p \in DOMAIN packages' : packages'[p] # req[r].app
    <3>1. \A r \in Requests : Adding(r) => \A p \in DOMAIN packages : packages[p] # req[r].app
      BY DEF Parts, AppPart, FreshIds
    <3> QED
      BY <1>2, <2>1, <3>1
  <2>8. CASE Err(q, "done")
    <3>1. Becomes(q, Failing(req[q], "done"))
      BY <2>8, ErrDoes DEF Parts, Pcs
    <3>2. \A p \in Pkgs : p # req[q].pkg =>
            /\ AppsOf(p)' = AppsOf(p) /\ GetApp(p)' = GetApp(p)
            /\ p \in DOMAIN packages' <=> p \in DOMAIN packages
      BY <2>3, <2>4 DEF k
    <3> QED
      BY <1>1, <2>2, <2>5, <2>6, <2>7, <3>1, <3>2, FailedRight
  <2>9. CASE Ok(q, "done")
    <3>1. /\ Types' /\ Overlaps' /\ Begun' /\ StatPart' /\ Grows(q)
          /\ req'[q].pc = "done" /\ req'[q].op = "add" /\ req'[q].app = a
          /\ req'[q].pkg = k
      BY <1>1, <2>2, <2>9, AddedStep DEF a, k
    <3>2. FreshIds'
      <4>1. ~Adding(q)'
        BY <3>1 DEF Adding
      <4> QED
        BY <1>1, <1>2, <1>3, <2>7, <3>1, <4>1, FreshIdsStep DEF Parts, AppPart
    <3>3. LoadedRight'
      <4>1. ~At(q, "del", "delApp")'
        BY <3>1 DEF At
      <4> QED
        BY <1>1, <3>1, <4>1, LoadedRightStep DEF Parts, AppPart
    <3>4. PackagesBacked'
      BY <2>5, <2>6, <3>1, PackagesBackedStep DEF Parts, AppPart
    <3>5. PackagesRight'
      <4>1. q \in UnderWay
        BY <1>1 DEF UnderWay
      <4>2. \A p \in Pkgs : p = k /\ Before(q, p) => OneRight(q, p)'
        <5> SUFFICES ASSUME NEW p \in Pkgs, p = k, Before(q, p)
                     PROVE  OneRight(q, p)'
          OBVIOUS
        <5>1. q \in Touching(p)
          BY <1>1 DEF Touching, k
        <5>2. At(q, "add", "storePackage")
          BY <1>1 DEF At
        <5>3. AppsOf(p) = {a}
          BY <5>1, <5>2 DEF Before, OneRight, a
        <5>4. GetApp(p)' = a /\ a # None
          BY <1>2, <1>3, <2>1, NoneIsNone DEF GetApp
        <5>5. ~At(q, "add", "storeApp")' /\ ~At(q, "add", "storePackage")'
              /\ ~At(q, "del", "delApp")' /\ ~At(q, "del", "delPackage")'
          BY <3>1 DEF At
        <5> QED
          BY <2>3, <5>3, <5>4, <5>5 DEF OneRight
      <4>3. req[q].pkg \in {None, req'[q].pkg}
        BY <3>1 DEF k
      <4> QED
        BY <2>3, <2>4, <3>1, <4>1, <4>2, <4>3, PackagesRightStep, NoneIsNone
        DEF Parts, AppPart
    <3> QED
      BY <3>1, <3>2, <3>3, <3>4, <3>5 DEF Parts, AppPart
  <2> QED
    BY <2>8, <2>9 DEF StorePackage
<1> QED
  BY <1>4, <1>5 DEF StorePackage

(* A deletion that goes on.                                                *)
LEMMA DeletedStep ==
  ASSUME Parts, NEW q \in Requests, NEW c \in {"delPackage", "done"}, Ok(q, c),
         req[q].op = "del", req[q].pc \in {"delApp", "delPackage"},
         UNCHANGED <<pappid, statVars, met>>, AppTypes'
  PROVE  /\ Types' /\ Overlaps' /\ Begun' /\ StatPart' /\ Grows(q)
         /\ req'[q].pc = c /\ req'[q].op = "del" /\ req'[q].app = req[q].app
         /\ req'[q].pkg = req[q].pkg
<1> DEFINE x == Going(req[q], c)
<1>1. req[q] \in ReqType /\ pappid \in Nat
  BY DEF Parts, Types
<1>2. c \in Pcs
  BY DEF Pcs
<1>3. /\ x \in ReqType /\ x.pc = c /\ x.failed = req[q].failed
      /\ x.op = "del" /\ x.pkg = req[q].pkg /\ x.app = req[q].app
  BY <1>1, <1>2, GoingFields DEF NameKept
<1>4. Becomes(q, x)
  BY <1>2, OkDoes DEF Parts
<1> HIDE DEF x
<1>5. x.app # None => x.app <= pappid'
  BY <1>3 DEF Parts, Begun
<1>6. Types' /\ Overlaps' /\ Begun' /\ StatPart' /\ Grows(q)
  BY <1>1, <1>3, <1>4, <1>5, AppStep
<1> QED
  BY <1>3, <1>4, <1>6 DEF Becomes

LEMMA DelAppKeeps ==
  ASSUME Parts, NEW q \in Requests, DelApp(q)
  PROVE  Parts'
<1> DEFINE a == req[q].app
           k == req[q].pkg
<1>1. /\ req[q].op = "del" /\ req[q].pc = "delApp"
      /\ UNCHANGED <<packages, pappid>> /\ UNCHANGED <<statVars, met>>
  BY DEF DelApp, At
<1>2. a \in DOMAIN apps => apps[a] = k
  BY <1>1 DEF Parts, AppPart, LoadedRight, At
<1>3. pappid \in Nat /\ \A r \in Requests \ {q} : Adding(r) => req[r].app # a
  BY DEF Parts, Types, AppPart, FreshIds
<1>4. CASE Err(q, "done") /\ apps' = apps
  BY <1>1, <1>4, FailedIdle
<1>5. CASE apps' = Del(apps, a)
  <2> HIDE DEF a, k
  <2>1. /\ DOMAIN apps' = DOMAIN apps \ {a}
        /\ \A b \in DOMAIN apps \ {a} : apps'[b] = apps[b]
    BY <1>5 DEF Del, Restrict
  <2>2. AppTypes'
    BY <1>1, <2>1 DEF Parts, Types, AppTypes
  <2>3. \A p : p # k => AppsOf(p)' = AppsOf(p)
    BY <1>2, <2>1 DEF AppsOf
  <2>4. \A p : GetApp(p)' = GetApp(p)
    BY <1>1 DEF GetApp
  <2>5. \A r \in Requests \ {q} : Adding(r) =>
          /\ \A p \in DOMAIN packages : packages[p] # req[r].app
          /\ req[r].app \in DOMAIN apps' <=> req[r].app \in DOMAIN apps
          /\ req[r].app \in DOMAIN apps => apps'[req[r].app] = apps[req[r].app]
    <3>1. \A r \in Requests : Adding(r) => \A p \in DOMAIN packages : packages[p] # req[r].app
      BY DEF Parts, AppPart, FreshIds
    <3> QED
      BY <1>3, <2>1, <3>1
  <2>6. \A r \in Requests \ {q} : req[r].app \in DOMAIN apps' =>
          req[r].app \in DOMAIN apps /\ apps'[req[r].app] = apps[req[r].app]
    BY <2>1
  <2>7. \A p \in DOMAIN packages : p = k \/ Backed(p)' \/ (~Backed(p) /\ ~HalfDeleted(q, p))
    BY <1>1, <1>2, <2>1 DEF Backed, HalfDeleted, k
  <2>8. CASE Err(q, "done")
    <3>1. Becomes(q, Failing(req[q], "done"))
      BY <2>8, ErrDoes DEF Parts, Pcs
    <3>2. \A p \in Pkgs : p # req[q].pkg =>
            /\ AppsOf(p)' = AppsOf(p) /\ GetApp(p)' = GetApp(p)
            /\ p \in DOMAIN packages' <=> p \in DOMAIN packages
      BY <1>1, <2>3, <2>4 DEF k
    <3>3. \A p \in DOMAIN packages' :
            \/ Backed(p)'
            \/ req[q].op = "del" /\ req[q].pkg = p
            \/ p \in DOMAIN packages /\ ~Backed(p) /\ ~HalfDeleted(q, p)
      BY <1>1, <2>7 DEF k
    <3> QED
      BY <1>1, <2>2, <2>5, <2>6, <3>1, <3>2, <3>3, FailedRight
  <2>9. CASE Ok(q, "delPackage")
    <3>1. /\ Types' /\ Overlaps' /\ Begun' /\ StatPart' /\ Grows(q)
          /\ req'[q].pc = "delPackage" /\ req'[q].op = "del" /\ req'[q].app = a
          /\ req'[q].pkg = k
      BY <1>1, <2>2, <2>9, DeletedStep DEF a, k
    <3>2. FreshIds'
      <4>1. ~Adding(q)'
        BY <3>1 DEF Adding
      <4> QED
        BY <1>1, <1>3, <2>5, <3>1, <4>1, FreshIdsStep DEF Parts, AppPart
    <3>3. LoadedRight'
      <4>1. ~At(q, "del", "delApp")'
        BY <3>1 DEF At
      <4> QED
        BY <2>6, <3>1, <4>1, LoadedRightStep DEF Parts, AppPart
    <3>4. PackagesBacked'
      <4>1. \A p : p = k => HalfDeleted(q, p)'
        BY <3>1 DEF HalfDeleted
      <4> QED
        BY <1>1, <2>7, <3>1, <4>1, PackagesBackedStep DEF Parts, AppPart
    <3>5. PackagesRight'
      <4>1. q \in UnderWay
        BY <1>1 DEF UnderWay
      <4>2. \A p \in Pkgs : p = k /\ Before(q, p) => OneRight(q, p)'
        <5> SUFFICES ASSUME NEW p \in Pkgs, p = k, Before(q, p)
                     PROVE  OneRight(q, p)'
          OBVIOUS
        <5>1. q \in Touching(p)
          BY <1>1 DEF Touching, k
        <5>2. At(q, "del", "delApp") /\ ~HalfDone(q)
          BY <1>1 DEF At, HalfDone
        <5>3. a \in AppsOf(p) /\ AppsOf(p) = {GetApp(p)} \ {None}
          BY <5>1, <5>2 DEF Before, OneRight, a
        <5>4. AppsOf(p)' = {}
          BY <2>1, <5>3 DEF AppsOf
        <5>5. HalfDone(q)' /\ ~At(q, "add", "storeApp")' /\ ~At(q, "add", "storePackage")'
              /\ ~At(q, "del", "delApp")'
          BY <3>1 DEF HalfDone, At
        <5> QED
          BY <5>4, <5>5 DEF OneRight
      <4>3. req[q].pkg \in {None, req'[q].pkg}
        BY <3>1 DEF k
      <4> QED
        BY <1>1, <2>3, <2>4, <3>1, <4>1, <4>2, <4>3, PackagesRightStep, NoneIsNone
        DEF Parts, AppPart
    <3> QED
      BY <3>1, <3>2, <3>3, <3>4, <3>5 DEF Parts, AppPart
  <2> QED
    BY <2>8, <2>9 DEF DelApp
<1> QED
  BY <1>4, <1>5 DEF DelApp

LEMMA DelPackageKeeps ==
  ASSUME Parts, NEW q \in Requests, DelPackage(q)
  PROVE  Parts'
<1> DEFINE k == req[q].pkg
<1>1. /\ req[q].op = "del" /\ req[q].pc = "delPackage"
      /\ UNCHANGED <<apps, pappid>> /\ UNCHANGED <<statVars, met>>
  BY DEF DelPackage, At
<1>2. /\ pappid \in Nat
      /\ \A r \in Requests : Adding(r) => /\ \A p \in DOMAIN packages : packages[p] # req[r].app
                                          /\ \A s \in Requests \ {r} : req[s].app # req[r].app
  BY DEF Parts, Types, AppPart, FreshIds
<1>3. CASE Err(q, "done") /\ packages' = packages
  BY <1>1, <1>3, FailedIdle
<1>4. CASE packages' = Del(packages, k)
  <2> HIDE DEF k
  <2>1. /\ DOMAIN packages' = DOMAIN packages \ {k}
        /\ \A p \in DOMAIN packages \ {k} : packages'[p] = packages[p]
    BY <1>4 DEF Del, Restrict
  <2>2. AppTypes'
    BY <1>1, <2>1 DEF Parts, Types, AppTypes
  <2>3. \A p : AppsOf(p)' = AppsOf(p)
    BY <1>1 DEF AppsOf
  <2>4. \A p : p # k => GetApp(p)' = GetApp(p) /\ (p \in DOMAIN packages' <=> p \in DOMAIN packages)
    BY <2>1 DEF GetApp
  <2>5. \A p \in DOMAIN packages' :
          p \in DOMAIN packages /\ (Backed(p)' <=> Backed(p)) /\ ~HalfDeleted(q, p)
    BY <1>1, <2>1 DEF Backed, HalfDeleted, k
  <2>6. \A r \in Requests : Adding(r) => \A p \in DOMAIN packages' : packages'[p] # req[r].app
    BY <1>2, <2>1
  <2>7. CASE Err(q, "done")
    <3>1. Becomes(q, Failing(req[q], "done"))
      BY <2>7, ErrDoes DEF Parts, Pcs
    <3>2. \A p \in Pkgs : p # req[q].pkg =>
            /\ AppsOf(p)' = AppsOf(p) /\ GetApp(p)' = GetApp(p)
            /\ p \in DOMAIN packages' <=> p \in DOMAIN packages
      BY <2>3, <2>4 DEF k
    <3> QED
      BY <1>1, <2>2, <2>5, <2>6, <3>1, <3>2, FailedRight
  <2>8. CASE Ok(q, "done")
    <3>1. /\ Types' /\ Overlaps' /\ Begun' /\ StatPart' /\ Grows(q)
          /\ req'[q].pc = "done" /\ req'[q].op = "del" /\ req'[q].app = req[q].app
          /\ req'[q].pkg = k
      BY <1>1, <2>2, <2>8, DeletedStep DEF k
    <3>2. FreshIds'
      <4>1. ~Adding(q)'
        BY <3>1 DEF Adding
      <4>2. \A r \in Requests \ {q} : Adding(r) => req'[q].app # req[r].app
        BY <1>2, <3>1
      <4> QED
        BY <1>1, <1>2, <2>6, <3>1, <4>1, <4>2, FreshIdsStep DEF Parts, AppPart
    <3>3. LoadedRight'
      <4>1. ~At(q, "del", "delApp")'
        BY <3>1 DEF At
      <4> QED
        BY <1>1, <3>1, <4>1, LoadedRightStep DEF Parts, AppPart
    <3>4. PackagesBacked'
      BY <2>5, <3>1, PackagesBackedStep DEF Parts, AppPart
    <3>5. PackagesRight'
      <4>1. q \in UnderWay
        BY <1>1 DEF UnderWay
      <4>2. \A p \in Pkgs : p = k /\ Before(q, p) => OneRight(q, p)'
        <5> SUFFICES ASSUME NEW p \in Pkgs, p = k, Before(q, p)
                     PROVE  OneRight(q, p)'
          OBVIOUS
        <5>1. q \in Touching(p)
          BY <1>1 DEF Touching, k
        <5>2. At(q, "del", "delPackage")
          BY <1>1 DEF At
        <5>3. AppsOf(p) = {}
          BY <5>1, <5>2 DEF Before, OneRight
        <5>4. GetApp(p)' = None
          BY <2>1 DEF GetApp
        <5>5. ~At(q, "add", "storeApp")' /\ ~At(q, "add", "storePackage")'
              /\ ~At(q, "del", "delApp")' /\ ~At(q, "del", "delPackage")'
          BY <3>1 DEF At
        <5> QED
          BY <2>3, <5>3, <5>4, <5>5 DEF OneRight
      <4>3. req[q].pkg \in {None, req'[q].pkg}
        BY <3>1 DEF k
      <4> QED
        BY <2>3, <2>4, <3>1, <4>1, <4>2, <4>3, PackagesRightStep, NoneIsNone
        DEF Parts, AppPart
    <3> QED
      BY <3>1, <3>2, <3>3, <3>4, <3>5 DEF Parts, AppPart
  <2> QED
    BY <2>7, <2>8 DEF DelPackage
<1> QED
  BY <1>3, <1>4 DEF DelPackage

-----------------------------------------------------------------------------
(* Counters, and the sums of them.                                         *)
LEMMA Sums ==
  ASSUME NEW f \in [Outcomes -> Nat]
  PROVE  /\ Total(f) \in Nat /\ \A i \in 0..5 : Rest(f, i) \in Nat
         /\ Rest(f, 0) = Total(f) /\ Rest(f, 5) = 0
         /\ \A i \in 0..4 : Rest(f, i) = f[i + 1] + Rest(f, i + 1)
<1>1. f[1] \in Nat /\ f[2] \in Nat /\ f[3] \in Nat /\ f[4] \in Nat /\ f[5] \in Nat
  BY DEF Outcomes
<1> QED
  BY <1>1 DEF Total, Rest

OneMore(f, i) == [f EXCEPT ![i] = @ + 1]

LEMMA CountedSums ==
  ASSUME NEW f \in [Outcomes -> Nat], NEW i \in Outcomes
  PROVE  /\ OneMore(f, i) \in [Outcomes -> Nat]
         /\ Total(OneMore(f, i)) = Total(f) + 1
         /\ \A n \in 0..5 : Rest(f, n) <= Rest(OneMore(f, i), n)
<1> DEFINE g == OneMore(f, i)
<1>1. /\ f[1] \in Nat /\ f[2] \in Nat /\ f[3] \in Nat /\ f[4] \in Nat /\ f[5] \in Nat
      /\ i \in {1, 2, 3, 4, 5}
  BY DEF Outcomes
<1>2. g \in [Outcomes -> Nat]
  BY DEF OneMore
<1>3. /\ g[1] = IF i = 1 THEN f[1] + 1 ELSE f[1]
      /\ g[2] = IF i = 2 THEN f[2] + 1 ELSE f[2]
      /\ g[3] = IF i = 3 THEN f[3] + 1 ELSE f[3]
      /\ g[4] = IF i = 4 THEN f[4] + 1 ELSE f[4]
      /\ g[5] = IF i = 5 THEN f[5] + 1 ELSE f[5]
  BY DEF OneMore, Outcomes
<1> HIDE DEF g
<1>4. Total(g) = Total(f) + 1
  BY <1>1, <1>3 DEF Total
<1>5. \A n \in 0..5 : Rest(f, n) <= Rest(g, n)
  BY <1>1, <1>3 DEF Rest
<1> QED
  BY <1>2, <1>4, <1>5 DEF g

LEMMA ZeroSums == Zero \in [Outcomes -> Nat] /\ Total(Zero) = 0
  BY DEF Zero, Total, Outcomes

(* How many commands to a service are open.                                *)
In(q, s) ==
  /\ req[q].op = "control" /\ req[q].svc = s
  /\ req[q].pc \in {"call", "listOutcome", "countOutcome"}

LEMMA OpenIs ==
  ASSUME NEW s
  PROVE  /\ Open(s) = Cardinality({q \in Requests : In(q, s)}) /\ Open(s) \in Nat
         /\ IsFiniteSet({q \in Requests : In(q, s)})
<1>1. IsFiniteSet({q \in Requests : In(q, s)})
  <2>1. {q \in Requests : In(q, s)} \subseteq Requests
    OBVIOUS
  <2> QED
    BY <2>1, FS_Subset, RequestsAssumption
<1>2. Open(s) = Cardinality({q \in Requests : In(q, s)})
  BY DEF Open, In
<1> QED
  BY <1>1, <1>2, FS_CardinalityType

LEMMA Opened ==
  ASSUME NEW q \in Requests, Grows(q), NEW s, ~In(q, s), In(q, s)'
  PROVE  Open(s)' = Open(s) + 1
<1> DEFINE before == {r \in Requests : In(r, s)}
           after == {r \in Requests : In(r, s)'}
<1>1. after = before \union {q} /\ q \notin before
  BY DEF Grows, In
<1>2. IsFiniteSet(before) /\ Open(s) = Cardinality(before)
  BY OpenIs
<1>3. Open(s)' = Cardinality(after)
  BY DEF Open, In
<1> HIDE DEF before, after
<1> QED
  BY <1>1, <1>2, <1>3, FS_AddElement

LEMMA Closed ==
  ASSUME NEW q \in Requests, Grows(q), NEW s, In(q, s), ~In(q, s)'
  PROVE  Open(s) \in Nat /\ Open(s)' = Open(s) - 1
<1> DEFINE before == {r \in Requests : In(r, s)}
           after == {r \in Requests : In(r, s)'}
<1>1. after = before \ {q} /\ q \in before
  BY DEF Grows, In
<1>2. IsFiniteSet(before) /\ Open(s) = Cardinality(before) /\ Open(s) \in Nat
  BY OpenIs
<1>3. Open(s)' = Cardinality(after)
  BY DEF Open, In
<1> HIDE DEF before, after
<1> QED
  BY <1>1, <1>2, <1>3, FS_RemoveElement

LEMMA OpenSame ==
  ASSUME NEW q \in Requests, Grows(q), NEW s, In(q, s)' <=> In(q, s)
  PROVE  Open(s)' = Open(s)
<1>1. {r \in Requests : In(r, s)'} = {r \in Requests : In(r, s)}
  BY DEF Grows, In
<1> QED
  BY <1>1 DEF Open, In

-----------------------------------------------------------------------------
(* What a step about statistics has to show, part by part.                 *)
StatTypes ==
  /\ services \subseteq Services
  /\ cmds \in [Services -> Nat] /\ outcomes \in [Services -> [Outcomes -> Nat]]

LEMMA StatStep ==
  ASSUME Parts, NEW q \in Requests, NEW x \in ReqType, Becomes(q, x),
         req[q].op \in {"control", "clear", "get"}, x.op = req[q].op,
         req[q].pc \notin {"new", "done"}, x.pc # "new",
         req[q].failed => x.failed,
         UNCHANGED <<appVars, met>>, StatTypes',
         x.app \in {req[q].app, None},
         x.op = "control" => x.svc = req[q].svc,
         x.op = "control" /\ x.pc \in {"listOutcome", "countOutcome"} => x.out \in Outcomes,
         x.op = "get" /\ x.pc = "outcomes" => x.svc \in Services
  PROVE  Types' /\ Overlaps' /\ Begun' /\ AppPart' /\ Grows(q)
<1>1. Grows(q)
  BY GrowsBy DEF Parts
<1>2. Types'
  BY DEF Parts, Types, StatTypes, Becomes, appVars
<1>3. Overlaps'
  BY <1>1, OverlapsKept DEF Parts
<1>4. BegunOne(q)
  BY DEF Parts, Begun, BegunOne
<1>5. req'[q] = x /\ pappid' = pappid
  BY DEF Becomes, appVars
<1>6. BegunOne(q)'
  BY <1>4, <1>5 DEF BegunOne, At
<1>7. Begun'
  BY <1>1, <1>5, <1>6, BegunStep, NoneIsNone DEF Parts, Types
<1>8. AppPart'
  <2>1. req[q].op \in NoApp /\ req'[q].op \in NoApp /\ req'[q].app \in {req[q].app, None}
    BY <1>5 DEF NoApp
  <2> QED
    BY <1>1, <2>1, AppPartKept, NoneIsNone DEF Parts, Types
<1> QED
  BY <1>1, <1>2, <1>3, <1>7, <1>8

(* A command to a device does not overlap with ClearStats, nor GetStats,   *)
(* if their properties are to hold.                                        *)
LEMMA NeverBoth ==
  ASSUME Overlaps, Apart(Op("control"), Op("clear")), NEW q \in Requests, NEW r \in Requests,
         req[q].op = "control", req[r].op = "clear", q \in UnderWay
  PROVE  r \notin UnderWay
<1>1. q \in Op("control") /\ r \in Op("clear") /\ q # r
  BY DEF Op
<1> QED
  BY <1>1 DEF Overlaps, Apart

LEMMA NeverCleared ==
  ASSUME Overlaps, NEW q \in Requests, Apart({q}, Op("clear")), NEW r \in Requests,
         req[q].op = "get", req[r].op = "clear", q \in UnderWay
  PROVE  r \notin UnderWay
<1>1. r \in Op("clear") /\ q # r
  BY DEF Op
<1> QED
  BY <1>1 DEF Overlaps, Apart

LEMMA FailedControl ==
  ASSUME NEW q \in Requests, req'[q].op = "control", req'[q].failed
  PROVE  OutcomesCounted' /\ NoneLost' /\ ReadRight'
<1>1. ~NoneFailed(Op("control"))' /\ \A r : ~NoneFailed({r} \union Op("control"))'
  BY DEF NoneFailed, Op
<1> QED
  BY <1>1 DEF OutcomesCounted, NoneLost, ReadRight

LEMMA FailedClear ==
  ASSUME NEW q \in Requests, req'[q].op = "clear", req'[q].failed
  PROVE  ~NoneFailed(Op("clear"))'
  BY DEF NoneFailed, Op

(* A step that counts and lists nothing.                                   *)
LEMMA StatIdle ==
  ASSUME StatPart, NEW q \in Requests, Grows(q), UNCHANGED statVars,
         \A s \in Services : In(q, s)' <=> In(q, s),
         ~(req'[q].op = "control" /\ req'[q].pc \in {"count", "countOutcome"}),
         At(q, "clear", "del")' /\ Apart(Op("control"), Op("clear"))' /\ NoneFailed(Op("clear"))'
           => \A s \in Services \ req'[q].todo : cmds[s] = 0 /\ outcomes[s] = Zero,
         At(q, "get", "outcomes")' /\ NoneFailed({q} \union Op("control"))' /\ Apart({q}, Op("clear"))'
           => req'[q].cmd <= req'[q].sum + Rest(outcomes[req'[q].svc], req'[q].out) + req'[q].open
  PROVE  StatPart'
<1>1. UNCHANGED <<services, cmds, outcomes>>
  BY DEF statVars
<1>2. \A r \in Requests \ {q} : req'[r] = req[r]
  BY DEF Grows
<1>3. \A s \in Services : Open(s)' = Open(s)
  BY OpenSame
<1>4. /\ NoneFailed(Op("control"))' => NoneFailed(Op("control"))
      /\ NoneFailed(Op("clear"))' => NoneFailed(Op("clear"))
      /\ Apart(Op("control"), Op("clear"))' => Apart(Op("control"), Op("clear"))
      /\ \A r \in Requests :
           /\ NoneFailed({r} \union Op("control"))' => NoneFailed({r} \union Op("control"))
           /\ Apart({r}, Op("clear"))' => Apart({r}, Op("clear"))
  BY HistoryGrows
<1>5. OutcomesCounted' /\ NoneLost' /\ CountersListed'
  BY <1>1, <1>3, <1>4 DEF StatPart, OutcomesCounted, NoneLost, CountersListed
<1>6. Listed'
  <2> SUFFICES ASSUME Apart(Op("control"), Op("clear"))' PROVE
         /\ \A r \in Requests :
              req'[r].op = "control" /\ req'[r].pc \in {"count", "countOutcome"} =>
                req'[r].svc \in services
         /\ NoneFailed(Op("clear"))' =>
              \A r \in Requests : At(r, "clear", "del")' =>
                \A s \in Services \ req'[r].todo : cmds[s] = 0 /\ outcomes[s] = Zero
    BY <1>1 DEF Listed
  <2> QED
    BY <1>2, <1>4 DEF StatPart, Listed, At
<1>7. ReadRight'
  <2> SUFFICES ASSUME NEW r \in Requests, At(r, "get", "outcomes")',
                      NoneFailed({r} \union Op("control"))', Apart({r}, Op("clear"))'
               PROVE  req'[r].cmd <= req'[r].sum + Rest(outcomes[req'[r].svc], req'[r].out)
                                       + req'[r].open
    BY <1>1 DEF ReadRight
  <2>1. CASE r = q
    BY <2>1
  <2>2. CASE r # q
    BY <1>2, <1>4, <2>2 DEF StatPart, ReadRight, At
  <2> QED
    BY <2>1, <2>2
<1> QED
  BY <1>5, <1>6, <1>7 DEF StatPart

-----------------------------------------------------------------------------
(* The steps of requests about statistics.                                 *)
LEMMA StatStarts ==
  ASSUME Parts, NEW q \in Requests, NEW x \in ReqType, Start(q, x),
         x.op \in {"control", "clear", "get"}, x.pc = "list", x.app = None,
         x.op = "control" => x.svc \in Services
  PROVE  Parts'
<1>1. /\ Types' /\ Overlaps' /\ Begun' /\ Grows(q) /\ Becomes(q, x)
      /\ req[q].op = "none"
      /\ UNCHANGED <<apps, packages, pappid>> /\ UNCHANGED <<services, cmds, outcomes>>
  BY StartStep
<1>2. req'[q] = x
  BY <1>1 DEF Becomes
<1>3. AppPart'
  <2>1. req[q].op \in NoApp /\ req'[q].op \in NoApp /\ req'[q].app \in {req[q].app, None}
    BY <1>1, <1>2 DEF NoApp
  <2> QED
    BY <1>1, <2>1, AppPartKept, NoneIsNone DEF Parts, Types, appVars
<1>4. StatPart'
  <2>1. \A s \in Services : ~In(q, s)' /\ ~In(q, s)
    BY <1>1, <1>2 DEF In
  <2>2. ~At(q, "clear", "del")' /\ ~At(q, "get", "outcomes")'
    BY <1>2 DEF At
  <2>3. UNCHANGED statVars /\ ~(req'[q].op = "control" /\ req'[q].pc \in {"count", "countOutcome"})
    BY <1>1, <1>2 DEF statVars
  <2>4. At(q, "clear", "del")' /\ Apart(Op("control"), Op("clear"))' /\ NoneFailed(Op("clear"))'
          => \A s \in Services \ req'[q].todo : cmds[s] = 0 /\ outcomes[s] = Zero
    BY <2>2
  <2>5. At(q, "get", "outcomes")' /\ NoneFailed({q} \union Op("control"))' /\ Apart({q}, Op("clear"))'
          => req'[q].cmd <= req'[q].sum + Rest(outcomes[req'[q].svc], req'[q].out) + req'[q].open
    BY <2>2
  <2>6. \A s \in Services : In(q, s)' <=> In(q, s)
    BY <2>1
  <2> QED
    BY <1>1, <2>3, <2>4, <2>5, <2>6, StatIdle DEF Parts
<1> QED
  BY <1>1, <1>3, <1>4 DEF Parts

LEMMA StartControlKeeps ==
  ASSUME Parts, NEW q \in Requests, NEW s \in Services, StartControl(q, s)
  PROVE  Parts'
<1> DEFINE x == Request("control", "list", None, None, s)
<1>1. /\ x \in ReqType /\ x.op = "control" /\ x.pc = "list" /\ x.app = None /\ x.svc = s
  <2>1. "control" \in Ops /\ "list" \in Pcs
    BY DEF Ops, Pcs
  <2> QED
    BY <2>1 DEF Request, ReqType
<1>2. Start(q, x)
  BY DEF StartControl
<1> HIDE DEF x
<1> QED
  BY <1>1, <1>2, StatStarts

LEMMA StartClearKeeps ==
  ASSUME Parts, NEW q \in Requests, StartClear(q)
  PROVE  Parts'
<1> DEFINE x == Request("clear", "list", None, None, None)
<1>1. /\ x \in ReqType /\ x.op = "clear" /\ x.pc = "list" /\ x.app = None
  <2>1. "clear" \in Ops /\ "list" \in Pcs
    BY DEF Ops, Pcs
  <2> QED
    BY <2>1 DEF Request, ReqType
<1>2. Start(q, x)
  BY DEF StartClear
<1> HIDE DEF x
<1> QED
  BY <1>1, <1>2, StatStarts

LEMMA StartGetKeeps ==
  ASSUME Parts, NEW q \in Requests, StartGet(q)
  PROVE  Parts'
<1> DEFINE x == Request("get", "list", None, None, None)
<1>1. /\ x \in ReqType /\ x.op = "get" /\ x.pc = "list" /\ x.app = None
  <2>1. "get" \in Ops /\ "list" \in Pcs
    BY DEF Ops, Pcs
  <2> QED
    BY <2>1 DEF Request, ReqType
<1>2. Start(q, x)
  BY DEF StartGet
<1> HIDE DEF x
<1> QED
  BY <1>1, <1>2, StatStarts

(* A command to a device: the request goes on, or has failed.              *)
LEMMA ControlStep ==
  ASSUME Parts, NEW q \in Requests, NEW c \in {"count", "call", "listOutcome", "countOutcome", "done"},
         Ok(q, c) \/ Err(q, c),
         req[q].op = "control", req[q].pc \in {"list", "count", "listOutcome", "countOutcome"},
         c = "countOutcome" => req[q].pc = "listOutcome", c # "listOutcome",
         UNCHANGED <<appVars, met>>, StatTypes'
  PROVE  /\ Types' /\ Overlaps' /\ Begun' /\ AppPart' /\ Grows(q)
         /\ req'[q].op = "control" /\ req'[q].pc = c /\ req'[q].svc = req[q].svc
         /\ Err(q, c) => req'[q].failed
<1>1. req[q] \in ReqType /\ c \in Pcs
  BY DEF Parts, Types, Pcs
<1>2. c = "countOutcome" => req[q].out \in Outcomes
  BY DEF Parts, Begun
<1>3. CASE Ok(q, c)
  <2> DEFINE x == Going(req[q], c)
  <2>1. /\ x \in ReqType /\ x.pc = c /\ x.failed = req[q].failed
        /\ NameKept(x, req[q]) /\ WorkKept(x, req[q])
    BY <1>1, GoingFields
  <2>2. Becomes(q, x)
    BY <1>1, <1>3, OkDoes DEF Parts
  <2> HIDE DEF x
  <2>3. x.op = "control" /\ x.svc = req[q].svc /\ x.app = req[q].app /\ x.out = req[q].out
    BY <2>1 DEF NameKept, WorkKept
  <2>4. Types' /\ Overlaps' /\ Begun' /\ AppPart' /\ Grows(q)
    BY <1>2, <2>1, <2>2, <2>3, StatStep
  <2>5. Err(q, c) => req'[q].failed
    <3>1. Err(q, c) => Becomes(q, Failing(req[q], c))
      BY <1>1, ErrDoes DEF Parts
    <3>2. Failing(req[q], c).failed
      BY <1>1, FailingFields
    <3> QED
      BY <3>1, <3>2 DEF Becomes
  <2> QED
    BY <2>1, <2>2, <2>3, <2>4, <2>5 DEF Becomes
<1>4. CASE Err(q, c)
  <2> DEFINE x == Failing(req[q], c)
  <2>1. /\ x \in ReqType /\ x.pc = c /\ x.failed
        /\ NameKept(x, req[q]) /\ WorkKept(x, req[q])
    BY <1>1, FailingFields
  <2>2. Becomes(q, x)
    BY <1>1, <1>4, ErrDoes DEF Parts
  <2> HIDE DEF x
  <2>3. x.op = "control" /\ x.svc = req[q].svc /\ x.app = req[q].app /\ x.out = req[q].out
    BY <2>1 DEF NameKept, WorkKept
  <2>4. Types' /\ Overlaps' /\ Begun' /\ AppPart' /\ Grows(q)
    BY <1>2, <2>1, <2>2, <2>3, StatStep
  <2> QED
    BY <2>1, <2>2, <2>3, <2>4 DEF Becomes
<1> QED
  BY <1>3, <1>4

(* What listing and counting keep, of which service whatever: a service    *)
(* that is counted is listed, and ClearStats is not under way.             *)
LEMMA ListedKept ==
  ASSUME StatPart, Overlaps, NEW q \in Requests, Grows(q), q \in UnderWay,
         req[q].op = "control", req'[q].op = "control",
         services \subseteq services',
         req'[q].pc \in {"count", "countOutcome"} => req'[q].svc \in services',
         \A s \in Services \ {req[q].svc} : cmds'[s] = cmds[s] /\ outcomes'[s] = outcomes[s],
         req[q].svc \in services \/ UNCHANGED <<cmds, outcomes>>
           \/ req[q].pc \in {"count", "countOutcome"}
  PROVE  CountersListed' /\ Listed'
<1>1. \A r \in Requests \ {q} : req'[r] = req[r]
  BY DEF Grows
<1>2. /\ NoneFailed(Op("clear"))' => NoneFailed(Op("clear"))
      /\ Apart(Op("control"), Op("clear"))' => Apart(Op("control"), Op("clear"))
  BY HistoryGrows
<1>3. ASSUME Apart(Op("control"), Op("clear"))'
      PROVE  /\ req[q].svc \in services \/ UNCHANGED <<cmds, outcomes>>
             /\ \A r \in Requests :
                  req'[r].op = "control" /\ req'[r].pc \in {"count", "countOutcome"} =>
                    req'[r].svc \in services'
             /\ \A r \in Requests : ~At(r, "clear", "del")'
  <2>1. Apart(Op("control"), Op("clear"))
    BY <1>2, <1>3
  <2>2. req[q].svc \in services \/ UNCHANGED <<cmds, outcomes>>
    BY <2>1 DEF StatPart, Listed
  <2>3. \A r \in Requests :
          req'[r].op = "control" /\ req'[r].pc \in {"count", "countOutcome"} =>
            req'[r].svc \in services'
    BY <1>1, <2>1 DEF StatPart, Listed
  <2>4. ASSUME NEW r \in Requests, At(r, "clear", "del")'
        PROVE  FALSE
    <3>1. r # q /\ req[r].op = "clear" /\ r \in UnderWay
      BY <1>1, <2>4 DEF At, UnderWay
    <3> QED
      BY <2>1, <3>1, NeverBoth
  <2> QED
    BY <2>2, <2>3, <2>4
<1>4. CountersListed'
  <2> SUFFICES ASSUME NoneFailed(Op("clear"))', Apart(Op("control"), Op("clear"))',
                      NEW s \in Services, s \notin services'
               PROVE  cmds'[s] = 0 /\ outcomes'[s] = Zero
    BY DEF CountersListed
  <2>1. cmds[s] = 0 /\ outcomes[s] = Zero
    BY <1>2 DEF StatPart, CountersListed
  <2> QED
    BY <1>3, <2>1
<1>5. Listed'
  BY <1>3 DEF Listed
<1> QED
  BY <1>4, <1>5

LEMMA ListServiceKeeps ==
  ASSUME Parts, NEW q \in Requests, ListService(q)
  PROVE  Parts'
<1> DEFINE v == req[q].svc
<1>1. /\ req[q].op = "control" /\ req[q].pc = "list" /\ UNCHANGED <<appVars, met>>
      /\ UNCHANGED <<cmds, outcomes>>
      /\ services' \in {services, services \union {v}}
      /\ \/ Ok(q, "count") /\ services' = services \union {v}
         \/ Err(q, "call")
  BY DEF ListService, At
<1>2. v \in Services /\ q \in UnderWay
  BY <1>1 DEF Parts, Begun, UnderWay
<1>3. StatTypes' /\ services \subseteq services'
  BY <1>1, <1>2 DEF Parts, Types, StatTypes
<1>4. CASE Ok(q, "count") /\ services' = services \union {v}
  <2>1. /\ Types' /\ Overlaps' /\ Begun' /\ AppPart' /\ Grows(q)
        /\ req'[q].op = "control" /\ req'[q].pc = "count" /\ req'[q].svc = v
    BY <1>1, <1>3, <1>4, ControlStep
  <2>2. \A s \in Services : Open(s)' = Open(s)
    <3>1. \A s : ~In(q, s) /\ ~In(q, s)'
      BY <1>1, <2>1 DEF In
    <3> QED
      BY <2>1, <3>1, OpenSame
  <2>3. CountersListed' /\ Listed'
    BY <1>1, <1>2, <1>3, <1>4, <2>1, ListedKept DEF Parts
  <2>4. OutcomesCounted' /\ NoneLost'
    BY <1>1, <2>1, <2>2, HistoryGrows DEF Parts, StatPart, OutcomesCounted, NoneLost
  <2>5. ReadRight'
    <3>1. \A r \in Requests : At(r, "get", "outcomes")' => At(r, "get", "outcomes") /\ req'[r] = req[r]
      BY <2>1 DEF At, Grows
    <3> QED
      BY <1>1, <2>1, <3>1, HistoryGrows DEF Parts, StatPart, ReadRight
  <2> QED
    BY <2>1, <2>3, <2>4, <2>5 DEF Parts, StatPart
<1>5. CASE Err(q, "call")
  <2>1. /\ Types' /\ Overlaps' /\ Begun' /\ AppPart' /\ Grows(q)
        /\ req'[q].op = "control" /\ req'[q].pc = "call" /\ req'[q].svc = v
        /\ req'[q].failed
    BY <1>1, <1>3, <1>5, ControlStep
  <2>2. CountersListed' /\ Listed'
    BY <1>1, <1>2, <1>3, <2>1, ListedKept DEF Parts
  <2>3. OutcomesCounted' /\ NoneLost' /\ ReadRight'
    BY <2>1, FailedControl
  <2> QED
    BY <2>1, <2>2, <2>3 DEF Parts, StatPart
<1> QED
  BY <1>1, <1>4, <1>5

LEMMA ListOutcomeKeeps ==
  ASSUME Parts, NEW q \in Requests, ListOutcome(q)
  PROVE  Parts'
<1> DEFINE v == req[q].svc
<1>1. /\ req[q].op = "control" /\ req[q].pc = "listOutcome" /\ UNCHANGED <<appVars, met>>
      /\ UNCHANGED <<cmds, outcomes>>
      /\ services' \in {services, services \union {v}}
      /\ \/ Ok(q, "countOutcome") /\ services' = services \union {v}
         \/ Err(q, "done")
  BY DEF ListOutcome, At
<1>2. v \in Services /\ q \in UnderWay
  BY <1>1 DEF Parts, Begun, UnderWay
<1>3. StatTypes' /\ services \subseteq services'
  BY <1>1, <1>2 DEF Parts, Types, StatTypes
<1>4. CASE Ok(q, "countOutcome") /\ services' = services \union {v}
  <2>1. /\ Types' /\ Overlaps' /\ Begun' /\ AppPart' /\ Grows(q)
        /\ req'[q].op = "control" /\ req'[q].pc = "countOutcome" /\ req'[q].svc = v
    BY <1>1, <1>3, <1>4, ControlStep
  <2>2. \A s \in Services : Open(s)' = Open(s)
    <3>1. \A s : In(q, s)' <=> In(q, s)
      BY <1>1, <2>1 DEF In
    <3> QED
      BY <2>1, <3>1, OpenSame
  <2>3. CountersListed' /\ Listed'
    BY <1>1, <1>2, <1>3, <1>4, <2>1, ListedKept DEF Parts
  <2>4. OutcomesCounted' /\ NoneLost'
    BY <1>1, <2>1, <2>2, HistoryGrows DEF Parts, StatPart, OutcomesCounted, NoneLost
  <2>5. ReadRight'
    <3>1. \A r \in Requests : At(r, "get", "outcomes")' => At(r, "get", "outcomes") /\ req'[r] = req[r]
      BY <2>1 DEF At, Grows
    <3> QED
      BY <1>1, <2>1, <3>1, HistoryGrows DEF Parts, StatPart, ReadRight
  <2> QED
    BY <2>1, <2>3, <2>4, <2>5 DEF Parts, StatPart
<1>5. CASE Err(q, "done")
  <2>1. /\ Types' /\ Overlaps' /\ Begun' /\ AppPart' /\ Grows(q)
        /\ req'[q].op = "control" /\ req'[q].pc = "done" /\ req'[q].svc = v
        /\ req'[q].failed
    BY <1>1, <1>3, <1>5, ControlStep
  <2>2. CountersListed' /\ Listed'
    BY <1>1, <1>2, <1>3, <2>1, ListedKept DEF Parts
  <2>3. OutcomesCounted' /\ NoneLost' /\ ReadRight'
    BY <2>1, FailedControl
  <2> QED
    BY <2>1, <2>2, <2>3 DEF Parts, StatPart
<1> QED
  BY <1>1, <1>4, <1>5

LEMMA CountCmdKeeps ==
  ASSUME Parts, NEW q \in Requests, CountCmd(q)
  PROVE  Parts'
<1> DEFINE v == req[q].svc
<1>1. /\ req[q].op = "control" /\ req[q].pc = "count" /\ UNCHANGED <<appVars, met>>
      /\ UNCHANGED <<services, outcomes>>
      /\ cmds' \in {cmds, [cmds EXCEPT ![v] = @ + 1]}
      /\ \/ Ok(q, "call") /\ cmds' = [cmds EXCEPT ![v] = @ + 1]
         \/ Err(q, "call")
  BY DEF CountCmd, At
<1>2. v \in Services /\ q \in UnderWay
  BY <1>1 DEF Parts, Begun, UnderWay
<1>3. cmds \in [Services -> Nat] /\ outcomes \in [Services -> [Outcomes -> Nat]]
  BY DEF Parts, Types
<1>4. StatTypes' /\ services \subseteq services'
      /\ \A s \in Services \ {v} : cmds'[s] = cmds[s]
  BY <1>1, <1>2, <1>3 DEF Parts, Types, StatTypes
<1>5. CASE Ok(q, "call") /\ cmds' = [cmds EXCEPT ![v] = @ + 1]
  <2> HIDE DEF v
  <2>1. /\ Types' /\ Overlaps' /\ Begun' /\ AppPart' /\ Grows(q)
        /\ req'[q].op = "control" /\ req'[q].pc = "call" /\ req'[q].svc = v
    BY <1>1, <1>4, <1>5, ControlStep DEF v
  <2>2. /\ \A s : s = v => Open(s)' = Open(s) + 1
        /\ \A s \in Services \ {v} : Open(s)' = Open(s)
    <3>1. \A s : s = v => ~In(q, s) /\ In(q, s)'
      BY <1>1, <2>1 DEF In
    <3>2. \A s : s # v => ~In(q, s) /\ ~In(q, s)'
      BY <1>1, <2>1 DEF In
    <3>3. \A s : s = v => Open(s)' = Open(s) + 1
      BY <2>1, <3>1, Opened
    <3>4. \A s : s # v => Open(s)' = Open(s)
      BY <2>1, <3>2, OpenSame
    <3>5. \A s : s = v => Open(s)' = Open(s) + 1
      BY <3>3
    <3> QED
      BY <3>4, <3>5
  <2>3. cmds'[v] = cmds[v] + 1
    BY <1>2, <1>3, <1>5
  <2>4. CountersListed' /\ Listed'
    BY <1>1, <1>2, <1>4, <2>1, ListedKept DEF Parts, v
  <2>5. OutcomesCounted' /\ NoneLost'
    <3>1. \A s \in Services : Total(outcomes[s]) \in Nat /\ cmds[s] \in Nat /\ Open(s) \in Nat
      BY <1>3, Sums, OpenIs
    <3> QED
      BY <1>1, <1>2, <1>4, <2>1, <2>2, <2>3, <3>1, HistoryGrows
      DEF Parts, StatPart, OutcomesCounted, NoneLost
  <2>6. ReadRight'
    <3>1. \A r \in Requests : At(r, "get", "outcomes")' => At(r, "get", "outcomes") /\ req'[r] = req[r]
      BY <2>1 DEF At, Grows
    <3> QED
      BY <1>1, <2>1, <3>1, HistoryGrows DEF Parts, StatPart, ReadRight
  <2> QED
    BY <2>1, <2>4, <2>5, <2>6 DEF Parts, StatPart
<1>6. CASE Err(q, "call")
  <2>1. /\ Types' /\ Overlaps' /\ Begun' /\ AppPart' /\ Grows(q)
        /\ req'[q].op = "control" /\ req'[q].pc = "call" /\ req'[q].svc = v
        /\ req'[q].failed
    BY <1>1, <1>4, <1>6, ControlStep
  <2>2. CountersListed' /\ Listed'
    BY <1>1, <1>2, <1>4, <2>1, ListedKept DEF Parts
  <2>3. OutcomesCounted' /\ NoneLost' /\ ReadRight'
    BY <2>1, FailedControl
  <2> QED
    BY <2>1, <2>2, <2>3 DEF Parts, StatPart
<1> QED
  BY <1>1, <1>5, <1>6

LEMMA ControlKeeps ==
  ASSUME Parts, NEW q \in Requests, Control(q)
  PROVE  Parts'
<1>1. /\ req[q].op = "control" /\ req[q].pc = "call"
      /\ UNCHANGED <<appVars, met>> /\ UNCHANGED statVars
      /\ UNCHANGED <<services, cmds, outcomes>>
      /\ \E i \in Outcomes : req' = [req EXCEPT ![q].pc = "listOutcome", ![q].out = i]
  BY DEF Control, At, statVars
<1>2. PICK i \in Outcomes : req' = [req EXCEPT ![q].pc = "listOutcome", ![q].out = i]
  BY <1>1
<1>3. req[q] \in ReqType /\ i \in 0..5 /\ "listOutcome" \in Pcs
  BY DEF Parts, Types, Outcomes, Pcs
<1> DEFINE x == WithOut(req[q], "listOutcome", i)
<1>4. /\ x \in ReqType /\ x.pc = "listOutcome" /\ x.out = i /\ x.failed = req[q].failed
      /\ x.op = "control" /\ x.svc = req[q].svc /\ x.app = req[q].app
  BY <1>1, <1>3 DEF WithOut, ReqType
<1>5. Becomes(q, x)
  <2>1. req' = [req EXCEPT ![q] = x]
    BY <1>2 DEF WithOut
  <2> QED
    BY <1>4, <2>1, ReqBecomes DEF Parts
<1> HIDE DEF x
<1>6. StatTypes'
  BY <1>1 DEF Parts, Types, StatTypes
<1>7. Types' /\ Overlaps' /\ Begun' /\ AppPart' /\ Grows(q)
  BY <1>1, <1>4, <1>5, <1>6, StatStep
<1>8. req'[q] = x
  BY <1>5 DEF Becomes
<1>9. StatPart'
  <2>1. \A s \in Services : In(q, s)' <=> In(q, s)
    BY <1>1, <1>4, <1>8 DEF In
  <2>2. ~At(q, "clear", "del")' /\ ~At(q, "get", "outcomes")'
    BY <1>4, <1>8 DEF At
  <2>3. ~(req'[q].op = "control" /\ req'[q].pc \in {"count", "countOutcome"})
    BY <1>4, <1>8
  <2> QED
    BY <1>1, <1>7, <2>1, <2>2, <2>3, StatIdle DEF Parts
<1> QED
  BY <1>7, <1>9 DEF Parts

LEMMA CountOutcomeKeeps ==
  ASSUME Parts, NEW q \in Requests, CountOutcome(q)
  PROVE  Parts'
<1> DEFINE v == req[q].svc
           n == req[q].out
           counted == [outcomes EXCEPT ![v] = OneMore(outcomes[v], n)]
<1>1. /\ req[q].op = "control" /\ req[q].pc = "countOutcome" /\ UNCHANGED <<appVars, met>>
      /\ UNCHANGED <<services, cmds>>
      /\ outcomes' \in {outcomes, counted}
      /\ \/ Ok(q, "done") /\ outcomes' = counted
         \/ Err(q, "done")
  BY DEF CountOutcome, At, OneMore
<1>2. v \in Services /\ n \in Outcomes /\ q \in UnderWay
  BY <1>1 DEF Parts, Begun, UnderWay
<1>3. cmds \in [Services -> Nat] /\ outcomes \in [Services -> [Outcomes -> Nat]]
  BY DEF Parts, Types
<1>4. /\ OneMore(outcomes[v], n) \in [Outcomes -> Nat]
      /\ Total(OneMore(outcomes[v], n)) = Total(outcomes[v]) + 1
      /\ \A i \in 0..5 : Rest(outcomes[v], i) <= Rest(OneMore(outcomes[v], n), i)
  BY <1>2, <1>3, CountedSums
<1> HIDE DEF v, n
<1>5. /\ counted \in [Services -> [Outcomes -> Nat]]
      /\ counted[v] = OneMore(outcomes[v], n)
      /\ \A s \in Services \ {v} : counted[s] = outcomes[s]
  BY <1>2, <1>3, <1>4
<1> HIDE DEF counted
<1>6. StatTypes' /\ services \subseteq services'
      /\ \A s \in Services \ {v} : outcomes'[s] = outcomes[s]
  BY <1>1, <1>3, <1>5 DEF Parts, Types, StatTypes
<1>7. CASE Ok(q, "done") /\ outcomes' = counted
  <2>1. /\ Types' /\ Overlaps' /\ Begun' /\ AppPart' /\ Grows(q)
        /\ req'[q].op = "control" /\ req'[q].pc = "done" /\ req'[q].svc = v
    BY <1>1, <1>6, <1>7, ControlStep DEF v
  <2>2. /\ \A s : s = v => Open(s) \in Nat /\ Open(s)' = Open(s) - 1
        /\ \A s \in Services \ {v} : Open(s)' = Open(s)
    <3>1. \A s : s = v => In(q, s) /\ ~In(q, s)'
      BY <1>1, <2>1 DEF In, v
    <3>2. \A s : s # v => ~In(q, s) /\ ~In(q, s)'
      BY <1>1, <2>1 DEF In, v
    <3>3. \A s : s = v => Open(s) \in Nat /\ Open(s)' = Open(s) - 1
      BY <2>1, <3>1, Closed
    <3>4. \A s : s # v => Open(s)' = Open(s)
      BY <2>1, <3>2, OpenSame
    <3> QED
      BY <3>3, <3>4
  <2>3. CountersListed' /\ Listed'
    BY <1>1, <1>2, <1>6, <2>1, ListedKept DEF Parts, v
  <2>4. \A s \in Services :
          Total(outcomes'[s]) + Open(s)' = Total(outcomes[s]) + Open(s)
    <3>1. \A s \in Services : Total(outcomes[s]) \in Nat /\ Open(s) \in Nat
      BY <1>3, Sums, OpenIs
    <3> QED
      BY <1>2, <1>4, <1>5, <1>6, <1>7, <2>2, <3>1
  <2>5. OutcomesCounted' /\ NoneLost'
    BY <1>1, <2>1, <2>4, HistoryGrows DEF Parts, StatPart, OutcomesCounted, NoneLost
  <2>6. ReadRight'
    <3> SUFFICES ASSUME NEW r \in Requests, At(r, "get", "outcomes")',
                        NoneFailed({r} \union Op("control"))', Apart({r}, Op("clear"))'
                 PROVE  req'[r].cmd <= req'[r].sum + Rest(outcomes'[req'[r].svc], req'[r].out)
                                         + req'[r].open
      BY DEF ReadRight
    <3>1. At(r, "get", "outcomes") /\ req'[r] = req[r]
      BY <2>1 DEF At, Grows
    <3>2. req[r].cmd <= req[r].sum + Rest(outcomes[req[r].svc], req[r].out) + req[r].open
      BY <2>1, <3>1, HistoryGrows DEF Parts, StatPart, ReadRight
    <3>3. /\ req[r].svc \in Services /\ req[r].out \in 0..5
          /\ req[r].cmd \in Nat /\ req[r].sum \in Nat /\ req[r].open \in Nat
      <4>1. req[r] \in ReqType
        BY DEF Parts, Types
      <4> QED
        BY <3>1, <4>1, ReqFields DEF Parts, Begun
    <3>4. /\ Rest(outcomes[req[r].svc], req[r].out) \in Nat
          /\ Rest(outcomes'[req[r].svc], req[r].out) \in Nat
      <4>1. outcomes[req[r].svc] \in [Outcomes -> Nat] /\ outcomes'[req[r].svc] \in [Outcomes -> Nat]
        BY <1>3, <1>5, <1>7, <3>3
      <4> QED
        BY <3>3, <4>1, Sums
    <3>5. Rest(outcomes[req[r].svc], req[r].out) <= Rest(outcomes'[req[r].svc], req[r].out)
      <4>1. CASE req[r].svc = v
        BY <1>4, <1>5, <1>7, <3>3, <4>1
      <4>2. CASE req[r].svc # v
        BY <1>6, <3>3, <3>4, <4>2
      <4> QED
        BY <4>1, <4>2
    <3> QED
      BY <3>1, <3>2, <3>3, <3>4, <3>5
  <2> QED
    BY <2>1, <2>3, <2>5, <2>6 DEF Parts, StatPart
<1>8. CASE Err(q, "done")
  <2>1. /\ Types' /\ Overlaps' /\ Begun' /\ AppPart' /\ Grows(q)
        /\ req'[q].op = "control" /\ req'[q].pc = "done" /\ req'[q].svc = v
        /\ req'[q].failed
    BY <1>1, <1>6, <1>8, ControlStep DEF v
  <2>2. CountersListed' /\ Listed'
    BY <1>1, <1>2, <1>6, <2>1, ListedKept DEF Parts, v
  <2>3. OutcomesCounted' /\ NoneLost' /\ ReadRight'
    BY <2>1, FailedControl
  <2> QED
    BY <2>1, <2>2, <2>3 DEF Parts, StatPart
<1> QED
  BY <1>1, <1>7, <1>8

(* ClearStats and GetStats: the request goes on without a failure, or      *)
(* fails and goes on.                                                      *)
LEMMA ServesStep ==
  ASSUME Parts, NEW q \in Requests, NEW x \in ReqType, Becomes(q, x),
         req[q].op \in {"clear", "get"}, x.op = req[q].op,
         req[q].pc \notin {"new", "done"}, x.pc # "new", req[q].failed => x.failed,
         UNCHANGED <<appVars, met>>, StatTypes', x.app \in {req[q].app, None},
         x.op = "get" /\ x.pc = "outcomes" => x.svc \in Services
  PROVE  /\ Types' /\ Overlaps' /\ Begun' /\ AppPart' /\ Grows(q) /\ req'[q] = x
         /\ \A s \in Services : In(q, s)' <=> In(q, s)
         /\ \A s \in Services : Open(s)' = Open(s)
<1>1. Types' /\ Overlaps' /\ Begun' /\ AppPart' /\ Grows(q)
  BY StatStep
<1>2. req'[q] = x
  BY DEF Becomes
<1>3. \A s : ~In(q, s) /\ ~In(q, s)'
  BY <1>2 DEF In
<1>4. \A s \in Services : Open(s)' = Open(s)
  BY <1>1, <1>3, OpenSame
<1> QED
  BY <1>1, <1>2, <1>3, <1>4

LEMMA ClearListKeeps ==
  ASSUME Parts, NEW q \in Requests, ClearList(q)
  PROVE  Parts'
<1>1. /\ req[q].op = "clear" /\ req[q].pc = "list" /\ UNCHANGED <<appVars, met>>
      /\ UNCHANGED statVars /\ UNCHANGED <<services, cmds, outcomes>>
      /\ \/ req' = [req EXCEPT ![q].pc = "del", ![q].todo = services]
         \/ Err(q, "del")
  BY DEF ClearList, At, statVars
<1>2. req[q] \in ReqType /\ services \in SUBSET Services /\ "del" \in Pcs
  BY DEF Parts, Types, Pcs
<1>3. StatTypes'
  BY <1>1 DEF Parts, Types, StatTypes
<1>4. CASE req' = [req EXCEPT ![q].pc = "del", ![q].todo = services]
  <2> DEFINE x == WithTodo(req[q], "del", services)
  <2>1. /\ x \in ReqType /\ x.pc = "del" /\ x.todo = services /\ x.failed = req[q].failed
        /\ x.op = "clear" /\ x.app = req[q].app
    BY <1>1, <1>2, WithTodoFields DEF NameKept
  <2>2. Becomes(q, x)
    <3>1. req' = [req EXCEPT ![q] = x]
      BY <1>4 DEF WithTodo
    <3> QED
      BY <2>1, <3>1, ReqBecomes DEF Parts
  <2> HIDE DEF x
  <2>3. /\ Types' /\ Overlaps' /\ Begun' /\ AppPart' /\ Grows(q) /\ req'[q] = x
        /\ \A s \in Services : In(q, s)' <=> In(q, s)
    BY <1>1, <1>3, <2>1, <2>2, ServesStep
  <2>4. StatPart'
    <3>1. ~At(q, "get", "outcomes")' /\ ~(req'[q].op = "control" /\ req'[q].pc \in {"count", "countOutcome"})
      BY <2>1, <2>3 DEF At
    <3>2. At(q, "clear", "del")' /\ Apart(Op("control"), Op("clear"))' /\ NoneFailed(Op("clear"))'
            => \A s \in Services \ req'[q].todo : cmds[s] = 0 /\ outcomes[s] = Zero
      BY <2>1, <2>3, HistoryGrows DEF Parts, StatPart, CountersListed
    <3> QED
      BY <1>1, <2>3, <3>1, <3>2, StatIdle DEF Parts
  <2> QED
    BY <2>3, <2>4 DEF Parts
<1>5. CASE Err(q, "del")
  <2> DEFINE x == Failing(req[q], "del")
  <2>1. /\ x \in ReqType /\ x.pc = "del" /\ x.failed
        /\ x.op = "clear" /\ x.app = req[q].app
    BY <1>1, <1>2, FailingFields DEF NameKept
  <2>2. Becomes(q, x)
    BY <1>2, <1>5, ErrDoes DEF Parts
  <2> HIDE DEF x
  <2>3. /\ Types' /\ Overlaps' /\ Begun' /\ AppPart' /\ Grows(q) /\ req'[q] = x
        /\ \A s \in Services : In(q, s)' <=> In(q, s)
    BY <1>1, <1>3, <2>1, <2>2, ServesStep
  <2>4. StatPart'
    <3>1. ~At(q, "get", "outcomes")' /\ ~(req'[q].op = "control" /\ req'[q].pc \in {"count", "countOutcome"})
      BY <2>1, <2>3 DEF At
    <3>2. ~NoneFailed(Op("clear"))'
      BY <2>1, <2>3, FailedClear
    <3> QED
      BY <1>1, <2>3, <3>1, <3>2, StatIdle DEF Parts
  <2> QED
    BY <2>3, <2>4 DEF Parts
<1> QED
  BY <1>1, <1>4, <1>5

LEMMA GetServicesKeeps ==
  ASSUME Parts, NEW q \in Requests, GetServices(q)
  PROVE  Parts'
<1> DEFINE c == IF services = {} THEN "done" ELSE "cmd"
<1>1. /\ req[q].op = "get" /\ req[q].pc = "list" /\ UNCHANGED <<appVars, met>>
      /\ UNCHANGED statVars /\ UNCHANGED <<services, cmds, outcomes>>
      /\ \/ req' = [req EXCEPT ![q].pc = c, ![q].todo = services]
         \/ Err(q, "done")
  BY DEF GetServices, At, statVars
<1>2. req[q] \in ReqType /\ services \in SUBSET Services /\ "done" \in Pcs /\ c \in Pcs
  BY DEF Parts, Types, Pcs
<1>3. c \in {"done", "cmd"}
  OBVIOUS
<1> HIDE DEF c
<1>4. StatTypes'
  BY <1>1 DEF Parts, Types, StatTypes
<1>5. ASSUME NEW x \in ReqType, Becomes(q, x), x.op = "get", x.pc \in {"done", "cmd"},
             x.app = req[q].app, req[q].failed => x.failed
      PROVE  Parts'
  <2>1. /\ Types' /\ Overlaps' /\ Begun' /\ AppPart' /\ Grows(q) /\ req'[q] = x
        /\ \A s \in Services : In(q, s)' <=> In(q, s)
    BY <1>1, <1>4, <1>5, ServesStep
  <2>2. StatPart'
    <3>1. /\ ~At(q, "get", "outcomes")' /\ ~At(q, "clear", "del")'
          /\ ~(req'[q].op = "control" /\ req'[q].pc \in {"count", "countOutcome"})
      BY <1>5, <2>1 DEF At
    <3> QED
      BY <1>1, <2>1, <3>1, StatIdle DEF Parts
  <2> QED
    BY <2>1, <2>2 DEF Parts
<1>6. CASE req' = [req EXCEPT ![q].pc = c, ![q].todo = services]
  <2> DEFINE x == WithTodo(req[q], c, services)
  <2>1. /\ x \in ReqType /\ x.pc = c /\ x.failed = req[q].failed
        /\ x.op = "get" /\ x.app = req[q].app
    BY <1>1, <1>2, WithTodoFields DEF NameKept
  <2>2. Becomes(q, x)
    <3>1. req' = [req EXCEPT ![q] = x]
      BY <1>6 DEF WithTodo
    <3> QED
      BY <2>1, <3>1, ReqBecomes DEF Parts
  <2> HIDE DEF x
  <2> QED
    BY <1>3, <1>5, <2>1, <2>2
<1>7. CASE Err(q, "done")
  <2> DEFINE x == Failing(req[q], "done")
  <2>1. /\ x \in ReqType /\ x.pc = "done" /\ x.failed
        /\ x.op = "get" /\ x.app = req[q].app
    BY <1>1, <1>2, FailingFields DEF NameKept
  <2>2. Becomes(q, x)
    BY <1>2, <1>7, ErrDoes DEF Parts
  <2> HIDE DEF x
  <2> QED
    BY <1>5, <2>1, <2>2
<1> QED
  BY <1>1, <1>6, <1>7

(* The counters of a service are gone: ClearStats overlaps neither with    *)
(* commands nor with the reading of counters, if those are to be right.    *)
LEMMA ClearedStat ==
  ASSUME StatPart, Overlaps, Types, NEW q \in Requests, Grows(q), NEW v \in Services,
         At(q, "clear", "del"), req'[q].op = "clear",
         UNCHANGED services,
         cmds' = [cmds EXCEPT ![v] = 0], outcomes' = [outcomes EXCEPT ![v] = Zero],
         req[q].todo \ {v} \subseteq req'[q].todo,
         \A s \in Services : Open(s)' = Open(s)
  PROVE  StatPart'
<1>1. q \in UnderWay /\ \A r \in Requests \ {q} : req'[r] = req[r]
  BY DEF At, UnderWay, Grows
<1>2. cmds \in [Services -> Nat] /\ outcomes \in [Services -> [Outcomes -> Nat]]
  BY DEF Types
<1>3. /\ cmds'[v] = 0 /\ outcomes'[v] = Zero
      /\ \A s \in Services \ {v} : cmds'[s] = cmds[s] /\ outcomes'[s] = outcomes[s]
  BY <1>2
<1>4. /\ NoneFailed(Op("control"))' => NoneFailed(Op("control"))
      /\ NoneFailed(Op("clear"))' => NoneFailed(Op("clear"))
      /\ Apart(Op("control"), Op("clear"))' => Apart(Op("control"), Op("clear"))
      /\ \A r \in Requests :
           /\ NoneFailed({r} \union Op("control"))' => NoneFailed({r} \union Op("control"))
           /\ Apart({r}, Op("clear"))' => Apart({r}, Op("clear"))
  BY HistoryGrows
<1>5. Apart(Op("control"), Op("clear"))' =>
        \A r \in Requests : req[r].op = "control" => r \notin UnderWay
  BY <1>1, <1>4, NeverBoth DEF At
<1>6. \A s : Open(s) \in Nat
  BY OpenIs
<1>7. Apart(Op("control"), Op("clear"))' => \A s \in Services : Open(s) = 0
  <2> SUFFICES ASSUME Apart(Op("control"), Op("clear"))', NEW s \in Services PROVE Open(s) = 0
    OBVIOUS
  <2>1. \A r \in Requests : ~In(r, s)
    BY <1>5 DEF In, UnderWay
  <2>2. {r \in Requests : In(r, s)} = {}
    BY <2>1
  <2>3. Open(s) = Cardinality({r \in Requests : In(r, s)})
    BY OpenIs
  <2> QED
    BY <2>2, <2>3, FS_EmptySet
<1>8. OutcomesCounted'
  <2> SUFFICES ASSUME NoneFailed(Op("control"))', Apart(Op("control"), Op("clear"))',
                      NEW s \in Services
               PROVE  cmds'[s] = Total(outcomes'[s]) + Open(s)'
    BY DEF OutcomesCounted
  <2>1. Open(s)' = 0 /\ Open(s) = 0
    BY <1>7
  <2>2. CASE s = v
    BY <1>3, <2>1, <2>2, ZeroSums
  <2>3. CASE s # v
    BY <1>3, <1>4, <2>1, <2>3 DEF StatPart, OutcomesCounted
  <2> QED
    BY <2>2, <2>3
<1>9. NoneLost'
  <2> SUFFICES ASSUME NoneFailed(Op("control"))', NEW s \in Services
               PROVE  cmds'[s] <= Total(outcomes'[s]) + Open(s)'
    BY DEF NoneLost
  <2>1. CASE s = v
    BY <1>3, <1>6, <2>1, ZeroSums
  <2>2. CASE s # v
    BY <1>3, <1>4, <2>2 DEF StatPart, NoneLost
  <2> QED
    BY <2>1, <2>2
<1>10. CountersListed'
  BY <1>3, <1>4 DEF StatPart, CountersListed
<1>11. Listed'
  <2>1. ASSUME Apart(Op("control"), Op("clear"))', NEW r \in Requests,
               req'[r].op = "control", req'[r].pc \in {"count", "countOutcome"}
        PROVE  req'[r].svc \in services'
    <3>1. r # q /\ req'[r] = req[r]
      BY <1>1, <2>1
    <3> QED
      BY <1>4, <2>1, <3>1 DEF StatPart, Listed
  <2>2. ASSUME Apart(Op("control"), Op("clear"))', NoneFailed(Op("clear"))',
               NEW r \in Requests, At(r, "clear", "del")',
               NEW s \in Services, s \notin req'[r].todo
        PROVE  cmds'[s] = 0 /\ outcomes'[s] = Zero
    <3>1. At(r, "clear", "del") /\ (s = v \/ s \notin req[r].todo)
      BY <1>1, <2>2 DEF At
    <3>2. s \notin req[r].todo => cmds[s] = 0 /\ outcomes[s] = Zero
      BY <1>4, <2>2, <3>1 DEF StatPart, Listed
    <3> QED
      BY <1>3, <3>1, <3>2
  <2> QED
    BY <2>1, <2>2 DEF Listed
<1>12. ReadRight'
  <2> SUFFICES ASSUME NEW r \in Requests, At(r, "get", "outcomes")', Apart({r}, Op("clear"))'
               PROVE  FALSE
    BY DEF ReadRight
  <2>1. r # q /\ req'[r] = req[r]
    BY <1>1 DEF At
  <2>2. r \in UnderWay /\ req[r].op = "get"
    BY <2>1 DEF At, UnderWay
  <2> QED
    BY <1>1, <1>4, <2>2, NeverCleared DEF At
<1> QED
  BY <1>8, <1>9, <1>10, <1>11, <1>12 DEF StatPart

LEMMA ClearServiceKeeps ==
  ASSUME Parts, NEW q \in Requests, NEW s \in Services, ClearService(q, s)
  PROVE  Parts'
<1> DEFINE Clear == cmds' = [cmds EXCEPT ![s] = 0] /\ outcomes' = [outcomes EXCEPT ![s] = Zero]
           left == req[q].todo \ {s}
<1>1. /\ req[q].op = "clear" /\ req[q].pc = "del" /\ At(q, "clear", "del")
      /\ UNCHANGED <<appVars, met>> /\ UNCHANGED services
      /\ \/ req' = [req EXCEPT ![q].todo = left] /\ Clear
         \/ Err(q, "done") /\ (Clear \/ UNCHANGED <<cmds, outcomes>>)
  BY DEF ClearService, At
<1>2. req[q] \in ReqType /\ left \in SUBSET Services /\ "done" \in Pcs
  BY ReqFields DEF Parts, Types, Pcs
<1>3. StatTypes'
  <2>1. Zero \in [Outcomes -> Nat]
    BY ZeroSums
  <2>2. Clear => StatTypes'
    BY <1>1, <2>1 DEF Parts, Types, StatTypes
  <2>3. UNCHANGED <<cmds, outcomes>> => StatTypes'
    BY <1>1 DEF Parts, Types, StatTypes
  <2> QED
    BY <1>1, <2>2, <2>3
<1>4. CASE req' = [req EXCEPT ![q].todo = left] /\ Clear
  <2> DEFINE x == [req[q] EXCEPT !.todo = left]
  <2>1. /\ x \in ReqType /\ x.pc = "del" /\ x.failed = req[q].failed /\ x.todo = left
        /\ x.op = "clear" /\ x.app = req[q].app
    BY <1>1, <1>2 DEF ReqType
  <2>2. Becomes(q, x)
    BY <1>4, <2>1, ReqBecomes DEF Parts
  <2> HIDE DEF x
  <2>3. /\ Types' /\ Overlaps' /\ Begun' /\ AppPart' /\ Grows(q) /\ req'[q] = x
        /\ \A v \in Services : Open(v)' = Open(v)
    BY <1>1, <1>3, <2>1, <2>2, ServesStep
  <2>4. StatPart'
    BY <1>1, <1>4, <2>1, <2>3, ClearedStat DEF Parts
  <2> QED
    BY <2>3, <2>4 DEF Parts
<1>5. CASE Err(q, "done") /\ (Clear \/ UNCHANGED <<cmds, outcomes>>)
  <2> DEFINE x == Failing(req[q], "done")
  <2>1. /\ x \in ReqType /\ x.pc = "done" /\ x.failed /\ x.todo = req[q].todo
        /\ x.op = "clear" /\ x.app = req[q].app
    BY <1>1, <1>2, FailingFields DEF NameKept, WorkKept
  <2>2. Becomes(q, x)
    BY <1>2, <1>5, ErrDoes DEF Parts
  <2> HIDE DEF x
  <2>3. /\ Types' /\ Overlaps' /\ Begun' /\ AppPart' /\ Grows(q) /\ req'[q] = x
        /\ \A v \in Services : In(q, v)' <=> In(q, v)
        /\ \A v \in Services : Open(v)' = Open(v)
    BY <1>1, <1>3, <2>1, <2>2, ServesStep
  <2>4. CASE Clear
    <3>1. StatPart'
      BY <1>1, <2>1, <2>3, <2>4, ClearedStat DEF Parts
    <3> QED
      BY <2>3, <3>1 DEF Parts
  <2>5. CASE UNCHANGED <<cmds, outcomes>>
    <3>1. UNCHANGED statVars
      BY <1>1, <2>5 DEF statVars
    <3>2. /\ ~At(q, "get", "outcomes")' /\ ~At(q, "clear", "del")'
          /\ ~(req'[q].op = "control" /\ req'[q].pc \in {"count", "countOutcome"})
      BY <2>1, <2>3 DEF At
    <3>3. StatPart'
      BY <2>3, <3>1, <3>2, StatIdle DEF Parts
    <3> QED
      BY <2>3, <3>3 DEF Parts
  <2> QED
    BY <1>5, <2>4, <2>5
<1> QED
  BY <1>1, <1>4, <1>5

LEMMA ClearServicesKeeps ==
  ASSUME Parts, NEW q \in Requests, ClearServices(q)
  PROVE  Parts'
<1>1. /\ req[q].op = "clear" /\ req[q].pc = "del" /\ At(q, "clear", "del") /\ req[q].todo = {}
      /\ UNCHANGED <<appVars, met>> /\ UNCHANGED <<cmds, outcomes>>
      /\ services' \in {services, {}}
      /\ Ok(q, "done") \/ Err(q, "done")
  BY DEF ClearServices, At
<1>2. req[q] \in ReqType /\ "done" \in Pcs /\ q \in UnderWay
  BY <1>1 DEF Parts, Types, Pcs, UnderWay
<1>3. StatTypes'
  BY <1>1 DEF Parts, Types, StatTypes
<1>4. ASSUME NEW x \in ReqType, Becomes(q, x), x.op = "clear", x.pc = "done",
             x.app = req[q].app, req[q].failed => x.failed
      PROVE  Parts'
  <2>1. /\ Types' /\ Overlaps' /\ Begun' /\ AppPart' /\ Grows(q) /\ req'[q] = x
        /\ \A s \in Services : Open(s)' = Open(s)
    BY <1>1, <1>3, <1>4, ServesStep
  <2>2. \A r \in Requests \ {q} : req'[r] = req[r]
    BY <1>4 DEF Becomes
  <2>3. Apart(Op("control"), Op("clear"))' =>
          \A r \in Requests : req[r].op = "control" => r \notin UnderWay
    BY <1>1, <1>2, <2>1, HistoryGrows, NeverBoth DEF Parts
  <2>4. OutcomesCounted' /\ NoneLost'
    BY <1>1, <2>1, HistoryGrows DEF Parts, StatPart, OutcomesCounted, NoneLost
  <2>5. NoneFailed(Op("clear"))' /\ Apart(Op("control"), Op("clear"))'
             => \A s \in Services : cmds[s] = 0 /\ outcomes[s] = Zero
    BY <1>1, <2>1, HistoryGrows DEF Parts, StatPart, Listed
  <2>6. CountersListed'
    BY <1>1, <2>5 DEF CountersListed
  <2>7. Listed'
    <3>1. ASSUME Apart(Op("control"), Op("clear"))', NEW r \in Requests,
                 req'[r].op = "control", req'[r].pc \in {"count", "countOutcome"}
          PROVE  FALSE
      <4>1. req[r].op = "control" /\ r \in UnderWay
        BY <1>4, <2>1, <2>2, <3>1 DEF UnderWay
      <4> QED
        BY <2>3, <3>1, <4>1
    <3> QED
      BY <1>1, <2>5, <3>1 DEF Listed
  <2>8. ReadRight'
    <3>1. \A r \in Requests : At(r, "get", "outcomes")' => At(r, "get", "outcomes") /\ req'[r] = req[r]
      BY <1>4, <2>1, <2>2 DEF At
    <3> QED
      BY <1>1, <2>1, <3>1, HistoryGrows DEF Parts, StatPart, ReadRight
  <2> QED
    BY <2>1, <2>4, <2>6, <2>7, <2>8 DEF Parts, StatPart
<1>5. CASE Ok(q, "done")
  <2> DEFINE x == Going(req[q], "done")
  <2>1. /\ x \in ReqType /\ x.pc = "done" /\ x.failed = req[q].failed
        /\ x.op = "clear" /\ x.app = req[q].app
    BY <1>1, <1>2, GoingFields DEF NameKept
  <2>2. Becomes(q, x)
    BY <1>2, <1>5, OkDoes DEF Parts
  <2> HIDE DEF x
  <2> QED
    BY <1>4, <2>1, <2>2
<1>6. CASE Err(q, "done")
  <2> DEFINE x == Failing(req[q], "done")
  <2>1. /\ x \in ReqType /\ x.pc = "done" /\ x.failed
        /\ x.op = "clear" /\ x.app = req[q].app
    BY <1>1, <1>2, FailingFields DEF NameKept
  <2>2. Becomes(q, x)
    BY <1>2, <1>6, ErrDoes DEF Parts
  <2> HIDE DEF x
  <2> QED
    BY <1>4, <2>1, <2>2
<1> QED
  BY <1>1, <1>5, <1>6

(* Of a step of GetStats: the inequality of its request is all there is to *)
(* show.                                                                   *)
LEMMA GetStep ==
  ASSUME Parts, NEW q \in Requests, NEW x \in ReqType, Becomes(q, x),
         At(q, "get", "cmd") \/ At(q, "get", "outcomes"), x.op = "get", x.pc # "new",
         req[q].failed => x.failed, x.app \in {req[q].app, None},
         UNCHANGED <<appVars, met>>, UNCHANGED statVars,
         x.pc = "outcomes" => x.svc \in Services,
         x.pc = "outcomes" /\ ~x.failed /\ NoneFailed(Op("control")) /\ NoneFailed({q} \union Op("control"))
           /\ Apart({q}, Op("clear"))
           => x.cmd <= x.sum + Rest(outcomes[x.svc], x.out) + x.open
  PROVE  Parts'
<1>1. req[q].op = "get" /\ req[q].pc \notin {"new", "done"}
  BY DEF At
<1>2. StatTypes' /\ UNCHANGED <<services, cmds, outcomes>>
  BY DEF Parts, Types, StatTypes, statVars
<1>3. /\ Types' /\ Overlaps' /\ Begun' /\ AppPart' /\ Grows(q) /\ req'[q] = x
      /\ \A s \in Services : In(q, s)' <=> In(q, s)
  BY <1>1, <1>2, ServesStep
<1>4. /\ ~At(q, "clear", "del")'
      /\ ~(req'[q].op = "control" /\ req'[q].pc \in {"count", "countOutcome"})
  BY <1>3 DEF At
<1>5. At(q, "get", "outcomes")' /\ NoneFailed({q} \union Op("control"))' /\ Apart({q}, Op("clear"))'
        => req'[q].cmd <= req'[q].sum + Rest(outcomes[req'[q].svc], req'[q].out) + req'[q].open
  <2> SUFFICES ASSUME At(q, "get", "outcomes")', NoneFailed({q} \union Op("control"))',
                      Apart({q}, Op("clear"))'
               PROVE  x.cmd <= x.sum + Rest(outcomes[x.svc], x.out) + x.open
    BY <1>3
  <2>1. x.pc = "outcomes" /\ ~x.failed
    BY <1>3 DEF At, NoneFailed
  <2>2. NoneFailed({q} \union Op("control")) /\ Apart({q}, Op("clear"))
    BY <1>3, HistoryGrows
  <2>3. NoneFailed(Op("control"))
    BY <2>2 DEF NoneFailed
  <2> QED
    BY <2>1, <2>2, <2>3
<1>6. StatPart'
  BY <1>3, <1>4, <1>5, StatIdle DEF Parts
<1> QED
  BY <1>3, <1>6 DEF Parts

Reading(r, s, n, o, f) ==
  [r EXCEPT !.pc = "outcomes", !.todo = @ \ {s}, !.svc = s,
            !.cmd = n, !.out = 0, !.sum = 0, !.open = o, !.failed = f]

LEMMA ReadingFields ==
  ASSUME NEW r \in ReqType, NEW s \in Services, NEW n \in Nat, NEW o \in Nat, NEW f \in BOOLEAN
  PROVE  /\ Reading(r, s, n, o, f) \in ReqType /\ Reading(r, s, n, o, f).pc = "outcomes"
         /\ Reading(r, s, n, o, f).svc = s /\ Reading(r, s, n, o, f).cmd = n
         /\ Reading(r, s, n, o, f).out = 0 /\ Reading(r, s, n, o, f).sum = 0
         /\ Reading(r, s, n, o, f).open = o /\ Reading(r, s, n, o, f).failed = f
         /\ Reading(r, s, n, o, f).op = r.op /\ Reading(r, s, n, o, f).app = r.app
<1> DEFINE rest == r.todo \ {s}
           x == [r EXCEPT !.pc = "outcomes", !.todo = rest, !.svc = s,
                          !.cmd = n, !.out = 0, !.sum = 0, !.open = o, !.failed = f]
<1>1. "outcomes" \in Pcs /\ rest \in SUBSET Services
  BY ReqFields DEF Pcs
<1>2. Reading(r, s, n, o, f) = x
  BY DEF Reading
<1> HIDE DEF rest
<1>3. x \in ReqType
  <2> DEFINE y == [r EXCEPT !.pc = "outcomes", !.todo = rest, !.svc = s]
             w == [y EXCEPT !.cmd = n]
             z == [w EXCEPT !.out = 0, !.sum = 0]
  <2>1. y \in ReqType
    BY <1>1 DEF ReqType
  <2> HIDE DEF y
  <2>2. w \in ReqType
    BY <2>1 DEF ReqType
  <2> HIDE DEF w
  <2>3. [w EXCEPT !.out = 0] \in ReqType
    BY <2>2 DEF ReqType
  <2>4. \A g \in ReqType : [g EXCEPT !.sum = 0] \in ReqType
    BY DEF ReqType
  <2>5. z \in ReqType
    BY <2>3, <2>4
  <2> HIDE DEF z
  <2>6. [z EXCEPT !.open = o, !.failed = f] \in ReqType
    BY <2>5 DEF ReqType
  <2>7. x = [z EXCEPT !.open = o, !.failed = f]
    BY DEF z, w, y
  <2> QED
    BY <2>6, <2>7
<1>4. /\ x.pc = "outcomes" /\ x.svc = s /\ x.cmd = n /\ x.out = 0 /\ x.sum = 0
      /\ x.open = o /\ x.failed = f /\ x.op = r.op /\ x.app = r.app
  BY <1>1 DEF ReqType
<1> HIDE DEF x
<1> QED
  BY <1>2, <1>3, <1>4

LEMMA ReadCmdKeeps ==
  ASSUME Parts, NEW q \in Requests, NEW s \in Services, ReadCmd(q, s)
  PROVE  Parts'
<1>1. /\ At(q, "get", "cmd") /\ UNCHANGED <<appVars, met>> /\ UNCHANGED statVars
      /\ \/ req' = [req EXCEPT ![q] = Reading(req[q], s, cmds[s], Open(s), req[q].failed)]
         \/ req' = [req EXCEPT ![q] = Reading(req[q], s, 0, Open(s), TRUE)]
  BY DEF ReadCmd, Reading
<1>2. /\ req[q] \in ReqType /\ cmds[s] \in Nat /\ outcomes[s] \in [Outcomes -> Nat]
      /\ Open(s) \in Nat /\ 0 \in Nat
  BY OpenIs DEF Parts, Types
<1>3. req[q].failed \in BOOLEAN /\ TRUE \in BOOLEAN
  BY <1>2, ReqFields
<1>4. ASSUME NEW n \in Nat, NEW f \in BOOLEAN
      PROVE  LET y == Reading(req[q], s, n, Open(s), f)
             IN  /\ y \in ReqType /\ y.pc = "outcomes" /\ y.svc = s /\ y.cmd = n /\ y.out = 0
                 /\ y.sum = 0 /\ y.open = Open(s) /\ y.failed = f
                 /\ y.op = req[q].op /\ y.app = req[q].app
  BY <1>2, ReadingFields
<1>5. CASE req' = [req EXCEPT ![q] = Reading(req[q], s, cmds[s], Open(s), req[q].failed)]
  <2> DEFINE x == Reading(req[q], s, cmds[s], Open(s), req[q].failed)
  <2>1. /\ x \in ReqType /\ x.pc = "outcomes" /\ x.svc = s /\ x.cmd = cmds[s] /\ x.out = 0
        /\ x.sum = 0 /\ x.open = Open(s) /\ x.failed = req[q].failed
        /\ x.op = req[q].op /\ x.app = req[q].app
    BY <1>2, <1>3, <1>4
  <2>2. Becomes(q, x)
    BY <1>5, <2>1, ReqBecomes DEF Parts
  <2> HIDE DEF x
  <2>3. x.op = "get"
    BY <1>1, <2>1 DEF At
  <2>4. NoneFailed(Op("control")) => x.cmd <= x.sum + Rest(outcomes[x.svc], x.out) + x.open
    <3>1. Rest(outcomes[s], 0) = Total(outcomes[s]) /\ Total(outcomes[s]) \in Nat
      BY <1>2, Sums
    <3>2. NoneFailed(Op("control")) => cmds[s] <= Total(outcomes[s]) + Open(s)
      BY DEF Parts, StatPart, NoneLost
    <3> QED
      BY <1>2, <2>1, <3>1, <3>2
  <2> QED
    BY <1>1, <2>1, <2>2, <2>3, <2>4, GetStep
<1>6. CASE req' = [req EXCEPT ![q] = Reading(req[q], s, 0, Open(s), TRUE)]
  <2> DEFINE x == Reading(req[q], s, 0, Open(s), TRUE)
  <2>1. /\ x \in ReqType /\ x.pc = "outcomes" /\ x.svc = s /\ x.failed = TRUE
        /\ x.op = req[q].op /\ x.app = req[q].app
    BY <1>2, <1>3, <1>4
  <2>2. Becomes(q, x)
    BY <1>6, <2>1, ReqBecomes DEF Parts
  <2> HIDE DEF x
  <2>3. x.op = "get"
    BY <1>1, <2>1 DEF At
  <2> QED
    BY <1>1, <2>1, <2>2, <2>3, GetStep
<1> QED
  BY <1>1, <1>5, <1>6

LEMMA ReadOutcomeKeeps ==
  ASSUME Parts, NEW q \in Requests, ReadOutcome(q)
  PROVE  Parts'
<1> DEFINE i == req[q].out + 1
           v == req[q].svc
<1>1. /\ At(q, "get", "outcomes") /\ UNCHANGED <<appVars, met>> /\ UNCHANGED statVars
      /\ i \in Outcomes
      /\ \/ req' = [req EXCEPT ![q].out = i, ![q].sum = @ + outcomes[v][i]]
         \/ req' = [req EXCEPT ![q].out = i, ![q].failed = TRUE]
  BY DEF ReadOutcome
<1>2. req[q] \in ReqType /\ v \in Services
  BY <1>1 DEF Parts, Types, Begun
<1>3. /\ req[q].op = "get" /\ req[q].pc = "outcomes" /\ req[q].out \in 0..4 /\ i \in 0..5
      /\ req[q].sum \in Nat /\ req[q].cmd \in Nat /\ req[q].open \in Nat
  BY <1>1, <1>2, ReqFields DEF At, Outcomes
<1>4. /\ outcomes[v] \in [Outcomes -> Nat] /\ outcomes[v][i] \in Nat
  BY <1>1, <1>2 DEF Parts, Types
<1>5. CASE req' = [req EXCEPT ![q].out = i, ![q].sum = @ + outcomes[v][i]]
  <2> DEFINE sum == req[q].sum + outcomes[v][i]
             x == [req[q] EXCEPT !.out = i, !.sum = sum]
  <2>1. sum \in Nat
    BY <1>3, <1>4
  <2> HIDE DEF i, v, sum
  <2>2. /\ x \in ReqType /\ x.pc = "outcomes" /\ x.svc = v /\ x.cmd = req[q].cmd /\ x.out = i
        /\ x.sum = sum /\ x.open = req[q].open /\ x.failed = req[q].failed
        /\ x.op = "get" /\ x.app = req[q].app
    BY <1>2, <1>3, <2>1 DEF ReqType, v
  <2>3. Becomes(q, x)
    <3>1. req' = [req EXCEPT ![q] = x]
      BY <1>5 DEF sum
    <3> QED
      BY <2>2, <3>1, ReqBecomes DEF Parts
  <2> HIDE DEF x
  <2>4. NoneFailed({q} \union Op("control")) /\ Apart({q}, Op("clear"))
          => x.cmd <= x.sum + Rest(outcomes[x.svc], x.out) + x.open
    <3>1. NoneFailed({q} \union Op("control")) /\ Apart({q}, Op("clear"))
            => req[q].cmd <= req[q].sum + Rest(outcomes[v], req[q].out) + req[q].open
      BY <1>1 DEF Parts, StatPart, ReadRight, v
    <3>2. /\ Rest(outcomes[v], req[q].out) = outcomes[v][i] + Rest(outcomes[v], i)
          /\ Rest(outcomes[v], i) \in Nat
      BY <1>3, <1>4, Sums DEF i
    <3> QED
      BY <1>3, <1>4, <2>2, <3>1, <3>2 DEF sum
  <2> QED
    BY <1>1, <1>2, <2>2, <2>3, <2>4, GetStep
<1>6. CASE req' = [req EXCEPT ![q].out = i, ![q].failed = TRUE]
  <2> DEFINE x == [req[q] EXCEPT !.out = i, !.failed = TRUE]
  <2> HIDE DEF i
  <2>1. /\ x \in ReqType /\ x.pc = "outcomes" /\ x.svc = v /\ x.failed = TRUE
        /\ x.op = "get" /\ x.app = req[q].app
    BY <1>2, <1>3 DEF ReqType
  <2>2. Becomes(q, x)
    <3>1. req' = [req EXCEPT ![q] = x]
      BY <1>6
    <3> QED
      BY <2>1, <3>1, ReqBecomes DEF Parts
  <2> HIDE DEF x
  <2> QED
    BY <1>1, <1>2, <2>1, <2>2, GetStep
<1> QED
  BY <1>1, <1>5, <1>6

LEMMA ReadServiceKeeps ==
  ASSUME Parts, NEW q \in Requests, ReadService(q)
  PROVE  Parts'
<1> DEFINE c == IF req[q].todo = {} THEN "done" ELSE "cmd"
           x == [Request("get", c, None, None, None)
                   EXCEPT !.todo = req[q].todo, !.failed = req[q].failed]
<1>1. /\ At(q, "get", "outcomes") /\ UNCHANGED <<appVars, met>> /\ UNCHANGED statVars
      /\ req' = [req EXCEPT ![q] = x]
  BY DEF ReadService
<1>2. req[q] \in ReqType
  BY DEF Parts, Types
<1>3. c \in {"done", "cmd"} /\ c \in Pcs /\ "get" \in Ops
  BY DEF Pcs, Ops
<1> HIDE DEF c
<1>4. /\ x \in ReqType /\ x.pc = c /\ x.op = "get" /\ x.app = None
      /\ x.failed = req[q].failed
  <2>1. req[q].todo \subseteq Services /\ req[q].failed \in BOOLEAN
    BY <1>2, ReqFields
  <2> DEFINE y == Request("get", c, None, None, None)
  <2>2. y \in ReqType /\ y.pc = c /\ y.op = "get" /\ y.app = None
    BY <1>3 DEF Request, ReqType
  <2> HIDE DEF y
  <2>3. x = [y EXCEPT !.todo = req[q].todo, !.failed = req[q].failed]
    BY DEF y
  <2> HIDE DEF x
  <2> QED
    BY <1>3, <2>1, <2>2, <2>3 DEF ReqType
<1>5. Becomes(q, x)
  BY <1>1, <1>4, ReqBecomes DEF Parts
<1> HIDE DEF x
<1> QED
  BY <1>1, <1>3, <1>4, <1>5, GetStep

-----------------------------------------------------------------------------
(* The invariant holds at first, and every step keeps it.                  *)
LEMMA PartsAre == IInv <=> Parts
  BY DEF IInv, Parts, AppPart, StatPart

LEMMA InitParts == Init => Parts
<1> SUFFICES ASSUME Init PROVE Parts
  OBVIOUS
<1> DEFINE x == Request("none", "new", None, None, None)
<1>1. /\ x \in ReqType /\ x.op = "none" /\ x.pc = "new" /\ x.pkg = None /\ x.app = None
      /\ x.failed = FALSE
  BY DEF Request, ReqType, Ops, Pcs
<1>2. /\ pappid = 0 /\ services = {} /\ cmds = [s \in Services |-> 0]
      /\ outcomes = [s \in Services |-> Zero]
      /\ req = [q \in Requests |-> x] /\ met = {}
  BY DEF Init
<1> HIDE DEF x
<1>3. req \in [Requests -> ReqType] /\ \A q \in Requests : req[q] = x
  BY <1>1, <1>2
<1>4. \/ \E p \in Pkgs : apps = [a \in {0} |-> p] /\ packages = [y \in {p} |-> 0]
      \/ DOMAIN apps = {} /\ DOMAIN packages = {}
  <2>1. DOMAIN <<>> = {}
    OBVIOUS
  <2> QED
    BY <2>1 DEF Init
<1>5. /\ DOMAIN apps \subseteq {0} /\ \A a \in DOMAIN apps : apps[a] \in Pkgs
      /\ DOMAIN packages \subseteq Pkgs
      /\ \A p \in DOMAIN packages : packages[p] = 0 /\ 0 \in DOMAIN apps /\ apps[0] = p
      /\ \A a \in DOMAIN apps : apps[a] \in DOMAIN packages
  BY <1>4
<1>6. Types
  BY <1>2, <1>3, <1>5, ZeroSums DEF Types
<1>7. Overlaps /\ Begun
  BY <1>1, <1>3 DEF Overlaps, Begun, UnderWay, At
<1>8. FreshIds /\ LoadedRight /\ PackagesBacked
  BY <1>1, <1>3, <1>5 DEF FreshIds, Adding, LoadedRight, At, PackagesBacked
<1>9. PackagesRight
  <2> SUFFICES ASSUME NEW p \in Pkgs PROVE PackageRight(p)
    BY DEF PackagesRight
  <2>1. Touching(p) = {}
    BY <1>1, <1>3 DEF Touching
  <2>2. CASE p \in DOMAIN packages
    <3>1. GetApp(p) = 0 /\ AppsOf(p) = {0} /\ None # 0
      BY <1>5, <2>2, NoneIsNone DEF GetApp, AppsOf
    <3> QED
      BY <2>1, <3>1 DEF PackageRight
  <2>3. CASE p \notin DOMAIN packages
    <3>1. GetApp(p) = None /\ AppsOf(p) = {}
      BY <1>5, <2>3 DEF GetApp, AppsOf
    <3> QED
      BY <2>1, <3>1 DEF PackageRight
  <2> QED
    BY <2>2, <2>3
<1>10. \A s : Open(s) = 0
  <2> SUFFICES ASSUME NEW s PROVE Open(s) = 0
    OBVIOUS
  <2>1. {q \in Requests : In(q, s)} = {}
    BY <1>1, <1>3 DEF In
  <2>2. Open(s) = Cardinality({q \in Requests : In(q, s)})
    BY OpenIs
  <2> QED
    BY <2>1, <2>2, FS_EmptySet
<1>11. OutcomesCounted /\ NoneLost /\ CountersListed
  BY <1>2, <1>10, ZeroSums DEF OutcomesCounted, NoneLost, CountersListed
<1>12. Listed /\ ReadRight
  BY <1>1, <1>3 DEF Listed, ReadRight, At
<1> QED
  BY <1>6, <1>7, <1>8, <1>9, <1>11, <1>12 DEF Parts, AppPart, StatPart

LEMMA StutterKeeps ==
  ASSUME Parts, UNCHANGED vars
  PROVE  Parts'
<1>1. /\ UNCHANGED <<apps, packages, pappid>> /\ UNCHANGED <<services, cmds, outcomes>>
      /\ UNCHANGED <<req, met>>
  BY DEF vars, appVars, statVars
<1>2. Types' /\ Overlaps' /\ Begun'
  BY <1>1 DEF Parts, Types, Overlaps, Begun, UnderWay, At
<1>3. FreshIds' /\ LoadedRight' /\ PackagesBacked'
  BY <1>1 DEF Parts, AppPart, FreshIds, Adding, LoadedRight, PackagesBacked, At
<1>4. PackagesRight'
  BY <1>1 DEF Parts, AppPart, PackagesRight, PackageRight, Calm, Touching, AppsOf, GetApp,
              HalfDone, At
<1>5. \A s : Open(s)' = Open(s)
  BY <1>1 DEF Open
<1>6. /\ Op("control")' = Op("control") /\ Op("clear")' = Op("clear")
      /\ NoneFailed(Op("control"))' = NoneFailed(Op("control"))
      /\ NoneFailed(Op("clear"))' = NoneFailed(Op("clear"))
      /\ Apart(Op("control"), Op("clear"))' = Apart(Op("control"), Op("clear"))
      /\ \A r \in Requests :
           /\ NoneFailed({r} \union Op("control"))' = NoneFailed({r} \union Op("control"))
           /\ Apart({r}, Op("clear"))' = Apart({r}, Op("clear"))
  BY <1>1 DEF Op, NoneFailed, Apart
<1>7. OutcomesCounted' /\ NoneLost' /\ CountersListed'
  BY <1>1, <1>5, <1>6 DEF Parts, StatPart, OutcomesCounted, NoneLost, CountersListed
<1>8. Listed' /\ ReadRight'
  BY <1>1, <1>6 DEF Parts, StatPart, Listed, ReadRight, At
<1> QED
  BY <1>2, <1>3, <1>4, <1>7, <1>8 DEF Parts, AppPart, StatPart

LEMMA NextKeeps == Parts /\ [Next]_vars => Parts'
<1> SUFFICES ASSUME Parts, [Next]_vars PROVE Parts'
  OBVIOUS
<1>1. CASE UNCHANGED vars
  BY <1>1, StutterKeeps
<1>2. ASSUME NEW q \in Requests,
             \/ \E p \in Pkgs : StartAdd(q, p)
             \/ TakeAppId(q) \/ CheckPackage(q) \/ StoreApp(q) \/ StorePackage(q)
             \/ \E a \in Known : StartDel(q, a)
             \/ LoadApp(q) \/ DelApp(q) \/ DelPackage(q)
      PROVE  Parts'
  BY <1>2, StartAddKeeps, TakeAppIdKeeps, CheckPackageKeeps, StoreAppKeeps, StorePackageKeeps,
     StartDelKeeps, LoadAppKeeps, DelAppKeeps, DelPackageKeeps
<1>3. ASSUME NEW q \in Requests,
             \/ \E s \in Services : StartControl(q, s)
             \/ ListService(q) \/ CountCmd(q) \/ Control(q) \/ ListOutcome(q) \/ CountOutcome(q)
      PROVE  Parts'
  BY <1>3, StartControlKeeps, ListServiceKeeps, CountCmdKeeps, ControlKeeps, ListOutcomeKeeps,
     CountOutcomeKeeps
<1>4. ASSUME NEW q \in Requests,
             \/ StartClear(q) \/ ClearList(q) \/ ClearServices(q)
             \/ \E s \in Services : ClearService(q, s) \/ ReadCmd(q, s)
             \/ StartGet(q) \/ GetServices(q) \/ ReadOutcome(q) \/ ReadService(q)
      PROVE  Parts'
  BY <1>4, StartClearKeeps, ClearListKeeps, ClearServicesKeeps, ClearServiceKeeps, ReadCmdKeeps,
     StartGetKeeps, GetServicesKeeps, ReadOutcomeKeeps, ReadServiceKeeps
<1> QED
  BY <1>1, <1>2, <1>3, <1>4 DEF Next

LEMMA AlwaysParts == Spec => []Parts
<1> QED
  BY InitParts, NextKeeps, PTL DEF Spec

-----------------------------------------------------------------------------
(* The inductive invariant is one: however the requests overlap and        *)
(* whichever of their Redis commands fail.                                 *)
THEOREM AdminInvariant == Spec => []IInv
  BY AlwaysParts, PartsAre, PTL

(* The app getApp finds for a package is one of that package, unless a     *)
(* deletion of the package is half done or has failed (the two DELs of     *)
(* delApp).                                                                *)
THEOREM PackagesBackedHolds == Spec => []PackagesBacked
<1>1. Parts => PackagesBacked
  BY DEF Parts, AppPart
<1> QED
  BY <1>1, AlwaysParts, PTL

(* Adds and deletions of a package that neither overlap nor fail leave it  *)
(* with one app, which getApp finds, or none, whatever goes on with other  *)
(* packages (addApp, delApp and getApp).                                   *)
THEOREM AppsFoundHolds == Spec => []AppsFound
<1>1. Parts => AppsFound
  <2> SUFFICES ASSUME Parts, NEW p \in Pkgs, Touching(p) \intersect UnderWay = {},
                      \A q \in Touching(p) : ~req[q].failed,
                      \A q, r \in Touching(p) : {q, r} \notin met
               PROVE  {a \in DOMAIN apps : apps[a] = p} = {GetApp(p)} \ {None}
    BY DEF AppsFound
  <2>1. PackageRight(p)
    BY DEF Parts, AppPart, PackagesRight, Calm
  <2>2. \A q \in Touching(p) : ~HalfDone(q)
    BY DEF Touching, UnderWay, HalfDone, At
  <2> QED
    BY <2>1, <2>2 DEF PackageRight, AppsOf
<1> QED
  BY <1>1, AlwaysParts, PTL

(* The statistics are right, however commands to devices overlap, as long  *)
(* as they overlap with no ClearStats and Redis does what it is asked:     *)
(* every counted command has one counted outcome or is open, and its       *)
(* service is listed (IncCmd, IncCmdSuccess and its like, ClearStats).     *)
THEOREM StatsConsistentHolds == Spec => []StatsConsistent
<1>1. Parts => StatsConsistent
  BY DEF Parts, StatPart, StatsConsistent
<1> QED
  BY <1>1, AlwaysParts, PTL

(* GetStats reads a service's counters one by one while commands are being *)
(* counted, but as it reads the number of commands first it never shows    *)
(* more without an outcome than were open when it began.                   *)
THEOREM SnapshotBoundedHolds == Spec => []SnapshotBounded
<1>1. Parts => SnapshotBounded
  <2> SUFFICES ASSUME Parts, NEW q \in Requests,
                      At(q, "get", "outcomes"), req[q].out + 1 \notin Outcomes,
                      NoneFailed({q} \union Op("control")), Apart({q}, Op("clear"))
               PROVE  req[q].cmd <= req[q].sum + req[q].open
    BY DEF SnapshotBounded
  <2>1. req[q] \in ReqType /\ req[q].svc \in Services
    BY DEF Parts, Types, Begun
  <2>2. /\ req[q].out = 5 /\ req[q].cmd \in Nat /\ req[q].sum \in Nat /\ req[q].open \in Nat
    BY <2>1, ReqFields DEF Outcomes
  <2>3. Rest(outcomes[req[q].svc], 5) = 0
    BY <2>1, Sums DEF Parts, Types
  <2>4. req[q].cmd <= req[q].sum + Rest(outcomes[req[q].svc], req[q].out) + req[q].open
    BY DEF Parts, StatPart, ReadRight
  <2> QED
    BY <2>2, <2>3, <2>4
<1> QED
  BY <1>1, AlwaysParts, PTL

=============================================================================
