------------------------------ MODULE AdminApi ------------------------------
(***************************************************************************)
(* Requests to the HTTP API that administer it: adding, deleting and       *)
(* finding apps (pushapi.go), and the statistics of the commands to        *)
(* devices (controlapi.go, stats.go, redis.go).                            *)
(*                                                                         *)
(* Every request runs in its own goroutine, any number of API processes    *)
(* share one Redis, and every Redis command is a step of its own.  A       *)
(* command may fail with or without having been carried out; that stands   *)
(* for the end of the API process in the middle of a request, too.         *)
(* Requests that are refused before they reach Redis, for their parameters *)
(* or their signature, are left out.                                       *)
(***************************************************************************)
EXTENDS Integers, FiniteSets, Functions

CONSTANTS
  Requests,   \* the requests there ever are
  Pkgs,       \* names of packages
  Services,   \* names of services of devices
  MaxFailed,  \* bound on the requests that meet a failure
  None        \* no package, app or service

ASSUME NoneAssumption == None \notin Pkgs \union Services \union Int
ASSUME BoundAssumption == MaxFailed \in Nat
ASSUME RequestsAssumption == IsFiniteSet(Requests)

VARIABLES
  apps,      \* db_apps: app id -> package
  packages,  \* db_packages: package -> app id
  pappid,    \* the counter app ids are made from
  services,  \* stats_service
  cmds,      \* stats_cmd_<service>
  outcomes,  \* stats_cmd_<outcome>_<service>
  req,       \* the requests
  met        \* pairs of requests that were under way at the same time

appVars == <<apps, packages, pappid>>
statVars == <<services, cmds, outcomes>>
vars == <<appVars, statVars, req, met>>

-----------------------------------------------------------------------------
(* Outcomes of a command: 1 success, 2 timeout, 3 offline, 4 invalid       *)
(* service, 5 other error.  GetStats reads their counters in this order.   *)
Outcomes == 1..5
Zero == [i \in Outcomes |-> 0]

(* A request: what it does, where it is, its package, app or service, and  *)
(* whether a command of it has failed; the services ClearStats or GetStats *)
(* has yet to visit; the outcome of a command, or the last one GetStats    *)
(* has read; the counters GetStats has read for a service, and how many    *)
(* commands to it were open when it began.                                 *)
Request(op, pc, pkg, app, svc) ==
  [op |-> op, pc |-> pc, pkg |-> pkg, app |-> app, svc |-> svc,
   failed |-> FALSE, todo |-> {}, out |-> 0, cmd |-> 0, sum |-> 0, open |-> 0]

At(q, op, pc) == req[q].op = op /\ req[q].pc = pc

UnderWay == {q \in Requests : req[q].pc \notin {"new", "done"}}

(* The Redis command of a request succeeds, or fails, and where the        *)
(* request goes on.                                                        *)
Ok(q, pc) == req' = [req EXCEPT ![q].pc = pc]
MayFail(q) ==
  Cardinality({r \in Requests : req[r].failed} \union {q}) <= MaxFailed
Err(q, pc) ==
  MayFail(q) /\ req' = [req EXCEPT ![q].pc = pc, ![q].failed = TRUE]

Put(f, k, v) == [x \in DOMAIN f \union {k} |-> IF x = k THEN v ELSE f[x]]
Del(f, k) == Restrict(f, DOMAIN f \ {k})

(* getApp: the app of a package.                                           *)
GetApp(p) == IF p \in DOMAIN packages THEN packages[p] ELSE None

(* App ids callers know: of the first app, from getApp, and from addApp.   *)
Known ==
  {0} \union Range(packages) \union
  {req[q].app : q \in {r \in Requests : At(r, "add", "done") /\ ~req[r].failed}}

(* Commands to a service that are counted, and whose outcome is not yet.   *)
Open(s) ==
  Cardinality({q \in Requests :
    /\ req[q].op = "control" /\ req[q].svc = s
    /\ req[q].pc \in {"call", "listOutcome", "countOutcome"}})

(* setPappID has set the counter; there is one app, or none.        *)
Init ==
  /\ \/ \E p \in Pkgs : apps = [a \in {0} |-> p] /\ packages = [x \in {p} |-> 0]
     \/ apps = <<>> /\ packages = <<>>
  /\ pappid = 0
  /\ services = {}
  /\ cmds = [s \in Services |-> 0]
  /\ outcomes = [s \in Services |-> Zero]
  /\ req = [q \in Requests |-> Request("none", "new", None, None, None)]
  /\ met = {}

(* A request comes in and is about to send its first command.              *)
Start(q, r) ==
  /\ req[q].pc = "new"
  /\ req' = [req EXCEPT ![q] = r]
  /\ met' = met \union {{q, o} : o \in UnderWay}
  /\ UNCHANGED <<appVars, statVars>>

-----------------------------------------------------------------------------
(* Wrong variants of definitions, each a mistake one could make in the     *)
(* code; none is part of the specification.                                *)

(* An add does not look for the package. *)
CheckPackageIgnored(q) ==
  /\ At(q, "add", "check")
  /\ Ok(q, "storeApp") \/ Err(q, "done")
  /\ UNCHANGED <<appVars, statVars, met>>

(* The package of a deleted app stays. *)
DelPackageForgotten(q) ==
  /\ At(q, "del", "delPackage") /\ Ok(q, "done")
  /\ UNCHANGED <<appVars, statVars, met>>

(* A timeout is counted as an error, too. *)
CountOutcomeTwice(q) ==
  LET s == req[q].svc
      counted == [outcomes EXCEPT ![s][req[q].out] = @ + 1]
  IN /\ At(q, "control", "countOutcome")
     /\ \/ Ok(q, "done")
        \/ Err(q, "done")
     /\ outcomes' = IF req[q].out = 2 THEN [counted EXCEPT ![s][5] = @ + 1]
                    ELSE counted
     /\ UNCHANGED <<appVars, services, cmds, met>>

(* Only the number of commands is cleared. *)
ClearServiceCmdOnly(q, s) ==
  /\ At(q, "clear", "del") /\ s \in req[q].todo
  /\ req' = [req EXCEPT ![q].todo = @ \ {s}]
  /\ cmds' = [cmds EXCEPT ![s] = 0]
  /\ UNCHANGED <<appVars, services, outcomes, met>>

(* The number of commands is read after the outcomes. *)
ReadOutcomeThenCmd(q) ==
  LET i == req[q].out + 1
  IN /\ At(q, "get", "outcomes") /\ i \in Outcomes
     /\ req' = [req EXCEPT ![q].out = i, ![q].cmd = cmds[req[q].svc],
                           ![q].sum = @ + outcomes[req[q].svc][i]]
     /\ UNCHANGED <<appVars, statVars, met>>

-----------------------------------------------------------------------------
(* addApp and addApp2.                                                     *)

StartAdd(q, p) == Start(q, Request("add", "id", p, None, None))

(* getPappID. *)
TakeAppId(q) ==
  /\ At(q, "add", "id")
  /\ \/ /\ req' = [req EXCEPT ![q].pc = "check", ![q].app = pappid + 1]
        /\ pappid' = pappid + 1
     \/ Err(q, "done") /\ pappid' \in {pappid, pappid + 1}
  /\ UNCHANGED <<apps, packages, statVars, met>>

CheckPackage(q) ==
  /\ At(q, "add", "check")
  /\ \/ req[q].pkg \notin DOMAIN packages /\ Ok(q, "storeApp")
     \/ /\ req[q].pkg \in DOMAIN packages
        /\ req' = [req EXCEPT ![q].pc = "done", ![q].app = None]
     \/ Err(q, "done")
  /\ UNCHANGED <<appVars, statVars, met>>

StoreApp(q) ==
  LET stored == Put(apps, req[q].app, req[q].pkg)
  IN /\ At(q, "add", "storeApp")
     /\ \/ Ok(q, "storePackage") /\ apps' = stored
        \/ Err(q, "done") /\ apps' \in {apps, stored}
     /\ UNCHANGED <<packages, pappid, statVars, met>>

StorePackage(q) ==
  LET stored == Put(packages, req[q].pkg, req[q].app)
  IN /\ At(q, "add", "storePackage")
     /\ \/ Ok(q, "done") /\ packages' = stored
        \/ Err(q, "done") /\ packages' \in {packages, stored}
     /\ UNCHANGED <<apps, pappid, statVars, met>>

-----------------------------------------------------------------------------
(* delApp.                                                                 *)

StartDel(q, a) == Start(q, Request("del", "load", None, a, None))

LoadApp(q) ==
  /\ At(q, "del", "load")
  /\ \/ /\ req[q].app \in DOMAIN apps
        /\ req' = [req EXCEPT ![q].pc = "delApp", ![q].pkg = apps[req[q].app]]
     \/ req[q].app \notin DOMAIN apps /\ Ok(q, "done")
     \/ Err(q, "done")
  /\ UNCHANGED <<appVars, statVars, met>>

DelApp(q) ==
  LET rest == Del(apps, req[q].app)
  IN /\ At(q, "del", "delApp")
     /\ \/ Ok(q, "delPackage") /\ apps' = rest
        \/ Err(q, "done") /\ apps' \in {apps, rest}
     /\ UNCHANGED <<packages, pappid, statVars, met>>

(* Whatever app the package belongs to by now.                             *)
DelPackage(q) ==
  LET rest == Del(packages, req[q].pkg)
  IN /\ At(q, "del", "delPackage")
     /\ \/ Ok(q, "done") /\ packages' = rest
        \/ Err(q, "done") /\ packages' \in {packages, rest}
     /\ UNCHANGED <<apps, pappid, statVars, met>>

-----------------------------------------------------------------------------
(* controlDevice and postRouterCommand.  Errors of IncCmd and its like are *)
(* ignored.                                                                *)

StartControl(q, s) == Start(q, Request("control", "list", None, None, s))

(* initStatsService in IncCmd: if it fails the command is not counted.     *)
ListService(q) ==
  LET listed == services \union {req[q].svc}
  IN /\ At(q, "control", "list")
     /\ \/ Ok(q, "count") /\ services' = listed
        \/ Err(q, "call") /\ services' \in {services, listed}
     /\ UNCHANGED <<appVars, cmds, outcomes, met>>

CountCmd(q) ==
  LET counted == [cmds EXCEPT ![req[q].svc] = @ + 1]
  IN /\ At(q, "control", "count")
     /\ \/ Ok(q, "call") /\ cmds' = counted
        \/ Err(q, "call") /\ cmds' \in {cmds, counted}
     /\ UNCHANGED <<appVars, services, outcomes, met>>

(* rpcClient.Control returns (CommandRpc).                                 *)
Control(q) ==
  /\ At(q, "control", "call")
  /\ \E i \in Outcomes : req' = [req EXCEPT ![q].pc = "listOutcome", ![q].out = i]
  /\ UNCHANGED <<appVars, statVars, met>>

ListOutcome(q) ==
  LET listed == services \union {req[q].svc}
  IN /\ At(q, "control", "listOutcome")
     /\ \/ Ok(q, "countOutcome") /\ services' = listed
        \/ Err(q, "done") /\ services' \in {services, listed}
     /\ UNCHANGED <<appVars, cmds, outcomes, met>>

CountOutcome(q) ==
  LET counted == [outcomes EXCEPT ![req[q].svc][req[q].out] = @ + 1]
  IN /\ At(q, "control", "countOutcome")
     /\ \/ Ok(q, "done") /\ outcomes' = counted
        \/ Err(q, "done") /\ outcomes' \in {outcomes, counted}
     /\ UNCHANGED <<appVars, services, cmds, met>>

-----------------------------------------------------------------------------
(* ClearStats.                                                             *)

StartClear(q) == Start(q, Request("clear", "list", None, None, None))

(* If SMEMBERS fails there seem to be no services, and it goes on.         *)
ClearList(q) ==
  /\ At(q, "clear", "list")
  /\ \/ req' = [req EXCEPT ![q].pc = "del", ![q].todo = services]
     \/ Err(q, "del")
  /\ UNCHANGED <<appVars, statVars, met>>

(* One DEL for all counters of a service.                                  *)
ClearService(q, s) ==
  LET Clear == /\ cmds' = [cmds EXCEPT ![s] = 0]
               /\ outcomes' = [outcomes EXCEPT ![s] = Zero]
  IN /\ At(q, "clear", "del") /\ s \in req[q].todo
     /\ \/ req' = [req EXCEPT ![q].todo = @ \ {s}] /\ Clear
        \/ Err(q, "done") /\ (Clear \/ UNCHANGED <<cmds, outcomes>>)
     /\ UNCHANGED <<appVars, services, met>>

ClearServices(q) ==
  /\ At(q, "clear", "del") /\ req[q].todo = {}
  /\ \/ Ok(q, "done") /\ services' = {}
     \/ Err(q, "done") /\ services' \in {services, {}}
  /\ UNCHANGED <<appVars, cmds, outcomes, met>>

-----------------------------------------------------------------------------
(* GetStats.  A counter that cannot be read counts as 0.                   *)

StartGet(q) == Start(q, Request("get", "list", None, None, None))

GetServices(q) ==
  /\ At(q, "get", "list")
  /\ \/ req' = [req EXCEPT ![q].pc = IF services = {} THEN "done" ELSE "cmd",
                           ![q].todo = services]
     \/ Err(q, "done")
  /\ UNCHANGED <<appVars, statVars, met>>

ReadCmd(q, s) ==
  LET Begun(n, f) == [req[q] EXCEPT !.pc = "outcomes", !.todo = @ \ {s}, !.svc = s,
                        !.cmd = n, !.out = 0, !.sum = 0, !.open = Open(s), !.failed = f]
  IN /\ At(q, "get", "cmd") /\ s \in req[q].todo
     /\ \/ req' = [req EXCEPT ![q] = Begun(cmds[s], @.failed)]
        \/ MayFail(q) /\ req' = [req EXCEPT ![q] = Begun(0, TRUE)]
     /\ UNCHANGED <<appVars, statVars, met>>

ReadOutcome(q) ==
  LET i == req[q].out + 1
  IN /\ At(q, "get", "outcomes") /\ i \in Outcomes
     /\ \/ req' = [req EXCEPT ![q].out = i, ![q].sum = @ + outcomes[req[q].svc][i]]
        \/ MayFail(q) /\ req' = [req EXCEPT ![q].out = i, ![q].failed = TRUE]
     /\ UNCHANGED <<appVars, statVars, met>>

(* On to the next service, or to the answer.                               *)
ReadService(q) ==
  /\ At(q, "get", "outcomes") /\ req[q].out + 1 \notin Outcomes
  /\ req' = [req EXCEPT
       ![q] = [Request("get", IF @.todo = {} THEN "done" ELSE "cmd", None, None, None)
                 EXCEPT !.todo = req[q].todo, !.failed = req[q].failed]]
  /\ UNCHANGED <<appVars, statVars, met>>

-----------------------------------------------------------------------------
Next ==
  \E q \in Requests :
    \/ (\E p \in Pkgs : StartAdd(q, p))
    \/ TakeAppId(q) \/ CheckPackage(q) \/ StoreApp(q) \/ StorePackage(q)
    \/ (\E a \in Known : StartDel(q, a))
    \/ LoadApp(q) \/ DelApp(q) \/ DelPackage(q)
    \/ (\E s \in Services : StartControl(q, s))
    \/ ListService(q) \/ CountCmd(q) \/ Control(q) \/ ListOutcome(q) \/ CountOutcome(q)
    \/ StartClear(q) \/ ClearList(q) \/ ClearServices(q)
    \/ (\E s \in Services : ClearService(q, s) \/ ReadCmd(q, s))
    \/ StartGet(q) \/ GetServices(q) \/ ReadOutcome(q) \/ ReadService(q)

Spec == Init /\ [][Next]_vars

-----------------------------------------------------------------------------
(* Properties.                                                             *)

(* The variables have the values their declarations promise; app ids come  *)
(* from the counter.                                                       *)
TypeOK ==
  /\ DOMAIN apps \subseteq 0..pappid /\ Range(apps) \subseteq Pkgs
  /\ DOMAIN packages \subseteq Pkgs /\ Range(packages) \subseteq 0..pappid
  /\ services \subseteq Services
  /\ cmds \in [Services -> Nat] /\ outcomes \in [Services -> [Outcomes -> Nat]]
  /\ \A q \in Requests :
       /\ req[q].op \in {"none", "add", "del", "control", "clear", "get"}
       /\ req[q].pkg \in Pkgs \union {None}
       /\ req[q].app \in (0..pappid) \union {None}
       /\ req[q].svc \in Services \union {None} /\ req[q].todo \subseteq Services
       /\ req[q].out \in {0} \union Outcomes /\ req[q].failed \in BOOLEAN
       /\ {req[q].cmd, req[q].sum, req[q].open} \subseteq Nat
  /\ \A pair \in met : pair \subseteq Requests /\ Cardinality(pair) = 2

(* The app that getApp finds for a package exists and is one of that       *)
(* package, however requests overlap, unless a deletion of the package is  *)
(* half done or has failed half-way.                                       *)
PackagesBacked ==
  \A p \in DOMAIN packages :
    \/ packages[p] \in DOMAIN apps /\ apps[packages[p]] = p
    \/ \E q \in Requests : /\ req[q].op = "del" /\ req[q].pkg = p
                           /\ req[q].pc = "delPackage" \/ req[q].failed

(* The requests that have to do with a package.                            *)
Touching(p) == {q \in Requests : req[q].op \in {"add", "del"} /\ req[q].pkg = p}

(* If those did not overlap and did not fail, and are over, the package    *)
(* has one app, which getApp finds, or none.  (Two overlapping adds leave  *)
(* an app no package leads to; a deletion that overlaps another one and an *)
(* add takes away the package of the new app.)                             *)
AppsFound ==
  \A p \in Pkgs :
    (/\ Touching(p) \intersect UnderWay = {}
     /\ \A q \in Touching(p) : ~req[q].failed
     /\ \A q, r \in Touching(p) : {q, r} \notin met)
    => {a \in DOMAIN apps : apps[a] = p} = {GetApp(p)} \ {None}

Op(op) == {q \in Requests : req[q].op = op}
NoneFailed(Q) == \A q \in Q : ~req[q].failed
Apart(Q, R) == \A q \in Q, r \in R : {q, r} \notin met

(* The commands to a service of which the outcome is counted.              *)
Total(count) == count[1] + count[2] + count[3] + count[4] + count[5]

(* As long as commands do not overlap with ClearStats and Redis works,     *)
(* every command that was counted has one outcome, or is open.             *)
OutcomesCounted ==
  NoneFailed(Op("control")) /\ Apart(Op("control"), Op("clear")) =>
    \A s \in Services : cmds[s] = Total(outcomes[s]) + Open(s)

(* Then there are no counters either of a service GetStats and ClearStats  *)
(* do not find.                                                            *)
CountersListed ==
  NoneFailed(Op("clear")) /\ Apart(Op("control"), Op("clear")) =>
    \A s \in Services \ services : cmds[s] = 0 /\ outcomes[s] = Zero

(* Statistics that are right: the commands are those counted, and what is  *)
(* counted is found.                                                       *)
StatsConsistent == OutcomesCounted /\ CountersListed

(* What GetStats answers never shows more commands without an outcome than *)
(* were open when it began with their service, unless ClearStats comes in  *)
(* between.                                                                *)
SnapshotBounded ==
  \A q \in Requests :
    At(q, "get", "outcomes") /\ req[q].out + 1 \notin Outcomes
      /\ NoneFailed({q} \union Op("control")) /\ Apart({q}, Op("clear"))
    => req[q].cmd <= req[q].sum + req[q].open

=============================================================================
