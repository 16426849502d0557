------------------------ MODULE InventoryAgreeProofs ------------------------
(***************************************************************************)
(* As long as every service and every host is left to one handler, no name *)
(* is a prefix of another and no client removes a service, the three       *)
(* stores agree whenever no request is in progress and nothing failed, and *)
(* a request answered "ok" is applied, UnregisterHost wholly if nothing    *)
(* failed.                                                                 *)
(*                                                                         *)
(* While a request is in progress they need not: a host may be recorded    *)
(* and unlisted, or listed and not in the catalog.  The invariant says     *)
(* which handler is about to put that right (InTransit, ToBeOffered), and  *)
(* that a record rewritten from a PUT drops no host that is recorded       *)
(* (ReadyToRewrite).                                                       *)
(***************************************************************************)
EXTENDS InventoryAppliedProofs

(* No service is removed, so no host is left behind. *)
NothingRemoved ==
    \A p \in Handlers : \A o \in Pending(run[p]) :
        o.kind \notin {"UnregisterService", "DeleteService"}

(* Before a handler rewrites a record from the parameter of a PUT, it has  *)
(* removed every host that the parameter does not name.                    *)
RewriteReady(ops, o) ==
    /\ \A x \in ops : x.kind = "RegisterHost" => x.host \in Listed(o.record)
    /\ \A h \in Hosts : ListedBy(o.service, h) =>
          \/ h \in Listed(o.record)
          \/ \E x \in ops : /\ x.kind = "UnregisterHost"
                            /\ x.service = o.service /\ x.host = h

ReadyToRewrite(s) ==
    \A o \in Pending(s) : o.kind = "PutParam" => RewriteReady(Pending(s), o)

AllReady == \A p \in Handlers : ReadyToRewrite(run[p])

(* RegisterHost has recorded the host and not listed it yet, UnregisterHost *)
(* has taken it off the list and not deleted the record yet.               *)
InTransit(s, h) ==
    /\ \/ s.pc \in {"stamp", "put"} /\ s.op.kind = "RegisterHost"
       \/ s.pc \in {"deregister", "probe", "delete"} /\ s.op.kind = "UnregisterHost"
    /\ s.op.host = h

(* RegisterHost has listed the host and not told the catalog yet. *)
ToBeOffered(s, h) == s.pc = "register" /\ s.op.host = h

HostAgrees(home, h) ==
    /\ hosts[h] # None => ~Unlisted(h) \/ InTransit(run[home[h]], h)
    /\ Discovery /\ ~Unlisted(h) => catalog[h] # None \/ ToBeOffered(run[home[h]], h)

HostsAgree(home) == \A h \in Hosts : HostAgrees(home, h)

AgreeInv(owner, home) ==
    /\ CurrentInv(owner, home)
    /\ NothingRemoved
    /\ AllReady
    /\ faults = 0 => HostsAgree(home)

-----------------------------------------------------------------------------
(* No operation that removes a service comes up. *)
LEMMA WorkKeepsServices ==
    ASSUME TypeInv, NothingRemoved, NEW p \in Handlers, Work(p)
    PROVE  NothingRemoved'
<1> RunType
  BY TypeInvParts
<1> DEFINE Removes(o) == o.kind \in {"UnregisterService", "DeleteService"}
<1>1. ASSUME \A q \in Handlers : q # p => run'[q] = run[q],
             \A o \in run'[p].todo \cup {run'[p].op} : o # None => ~Removes(o)
      PROVE  NothingRemoved'
  BY <1>1 DEF NothingRemoved, Pending
<1>2. /\ \A o \in run[p].todo : ~Removes(o)
      /\ run[p].pc \notin {"idle", "begin"} => ~Removes(run[p].op)
  BY PendingOps DEF NothingRemoved
<1>3. CASE Begin(p)
  BY <1>1, <1>2, <1>3, BeginOps
<1>4. CASE Reject(p)
  BY <1>1, <1>2, <1>4, EndOps DEF Reject
<1>5. CASE Calls(p)
  <2>1. CASE Finish(p) \/ Fail(p)
    BY <1>1, <1>2, <2>1, EndOps
  <2>2. CASE run'[p].todo = run[p].todo /\ run'[p].op = run[p].op
    BY <1>1, <1>2, <1>5, <2>2, CallOps
  <2>3. QED
    BY <1>5, <2>1, <2>2, CallOps
<1>6. CASE Return(p)
  <2>1. run'[p] = Idle /\ \A q \in Handlers : q # p => run'[q] = run[q]
    BY <1>6, GoOps DEF Return
  <2>2. Idle.todo = {} /\ Idle.op = None
    BY DEF Idle, At
  <2>3. QED
    BY <1>1, <2>1, <2>2
<1>7. CASE GetForPut(p) /\ Current(p) = None
  <2>1. Continue(p, CreatePlan(run[p].op))
    BY <1>7 DEF GetForPut
  <2>2. \A o \in CreatePlan(run[p].op) : ~Removes(o)
    BY DEF CreatePlan
  <2>3. QED
    BY <1>1, <2>1, <2>2, ContinueOps
<1>8. CASE GetForPut(p) /\ Current(p) # None
  <2>1. Go(p, [run[p] EXCEPT !.pc = "getHosts", !.cur = Current(p)])
    BY <1>8 DEF GetForPut, Read
  <2>2. run[p].pc = "get"
    BY <1>8 DEF GetForPut, In
  <2>3. run'[p].todo = run[p].todo /\ run'[p].op = run[p].op
    BY <2>1, GoCur
  <2>4. \A q \in Handlers : q # p => run'[q] = run[q]
    BY <2>1, GoOps
  <2>5. QED
    BY <1>1, <1>2, <2>2, <2>3, <2>4
<1>9. CASE PlanUpdate(p)
  <2>1. PICK plan : /\ plan = UpdatePlan(run[p].op, run[p].cur, run[p].found)
                    /\ Continue(p, plan)
    BY <1>9 DEF PlanUpdate
  <2>2. \A o \in plan : ~Removes(o)
    BY <2>1, UpdatePlanKinds
  <2>3. QED
    BY <1>1, <2>1, <2>2, ContinueOps
<1>10. CASE PlanUnregister(p)
  <2>1. run[p].pc = "scan" /\ run[p].op.kind = "UnregisterService"
    BY <1>10 DEF PlanUnregister, In
  <2>2. QED
    BY <1>2, <2>1
<1>11. QED
  BY <1>3, <1>4, <1>5, <1>6, <1>7, <1>8, <1>9, <1>10, WorkCases DEF Plans

LEMMA StepKeepsServices ==
    ASSUME TypeInv, NoServiceRemoved, NothingRemoved, [Next]_vars
    PROVE  NothingRemoved'
<1> RunType
  BY TypeInvParts
<1>1. ASSUME NEW p \in Handlers, NEW r \in Requests[p], Accept(p, r) PROVE NothingRemoved'
  <2>1. Continue(p, {r}) /\ r \in Request /\ r.kind # "UnregisterService"
    BY <1>1, InventoryAssumption DEF Accept, NoServiceRemoved
  <2>2. r.kind # "DeleteService"
    BY <2>1 DEF Request, RegisterServiceOp, UnregisterServiceOp, AddDependencyOp,
       RemoveDependencyOp, RegisterHostOp, UnregisterHostOp, UpdateHostOp, PutOp
  <2>3. /\ run'[p].todo = {r} /\ run'[p].op = None
        /\ \A q \in Handlers : q # p => run'[q] = run[q]
    BY <2>1, ContinueOps
  <2>4. QED
    BY <2>1, <2>2, <2>3 DEF NothingRemoved, Pending
<1>2. ASSUME NEW p \in Handlers, CallFails(p) PROVE NothingRemoved'
  <2>1. Finish(p) \/ Fail(p)
    BY <1>2 DEF CallFails
  <2>2. /\ \A q \in Handlers : q # p => run'[q] = run[q]
        /\ run'[p].todo \subseteq run[p].todo /\ run'[p].op = None
    BY <2>1, EndOps
  <2>3. QED
    BY <2>2 DEF NothingRemoved, Pending
<1>3. CASE Crash
  <2>1. \A q \in Handlers : run'[q].todo = {} /\ run'[q].op = None
    BY <1>3 DEF Crash, Idle, At
  <2>2. QED
    BY <2>1 DEF NothingRemoved, Pending
<1>4. CASE Tick \/ UNCHANGED vars
  <2>1. run' = run
    BY <1>4 DEF Tick, vars
  <2>2. QED
    BY <2>1 DEF NothingRemoved
<1>5. QED
  BY <1>1, <1>2, <1>3, <1>4, WorkKeepsServices DEF Next

-----------------------------------------------------------------------------
(* A handler that will rewrite a record stays ready for it. *)

(* What others do leaves it ready. *)
LEMMA ReadyFrame ==
    ASSUME NEW owner, RunType, ServicesOwned(owner),
           NEW q \in Handlers, run'[q] = run[q], ReadyToRewrite(run[q]),
           \A s \in Services : owner[s] = q => services'[s] = services[s]
    PROVE  ReadyToRewrite(run[q])'
<1>1. \A o \in Pending(run[q]) : o.service \in Services /\ owner[o.service] = q
  BY PendingOps, OpKind DEF ServicesOwned, OwnService
<1>2. \A o \in Pending(run[q]), h \in Hosts : ListedBy(o.service, h)' <=> ListedBy(o.service, h)
  BY <1>1 DEF ListedBy
<1>3. Pending(run[q])' = Pending(run[q])
  BY DEF Pending
<1>4. QED
  BY <1>2, <1>3 DEF ReadyToRewrite, RewriteReady

(* Nor does it become less ready when it drops operations, unless it drops *)
(* the removal of a host still listed.                                     *)
LEMMA ReadyStep ==
    ASSUME NEW p \in Handlers, ReadyToRewrite(run[p]),
           NEW ops, ops = Pending(run[p])', ops \subseteq Pending(run[p]),
           \A x \in Pending(run[p]) \ ops :
              x.kind = "UnregisterHost" => ~ListedBy(x.service, x.host)',
           \A o \in ops, h \in Hosts :
              o.kind = "PutParam" /\ ListedBy(o.service, h)' =>
                 ListedBy(o.service, h) \/ h \in Listed(o.record)
    PROVE  ReadyToRewrite(run[p])'
<1>1. ASSUME NEW o \in ops, o.kind = "PutParam" PROVE RewriteReady(ops, o)'
  <2>1. RewriteReady(Pending(run[p]), o)
    BY <1>1 DEF ReadyToRewrite
  <2>2. \A x \in ops : x.kind = "RegisterHost" => x.host \in Listed(o.record)
    BY <2>1 DEF RewriteReady
  <2>3. ASSUME NEW h \in Hosts, ListedBy(o.service, h)', h \notin Listed(o.record)
        PROVE  \E x \in ops : x.kind = "UnregisterHost" /\ x.service = o.service /\ x.host = h
    <3>1. PICK x \in Pending(run[p]) : /\ x.kind = "UnregisterHost"
                                       /\ x.service = o.service /\ x.host = h
      BY <1>1, <2>1, <2>3 DEF RewriteReady
    <3>2. x \in ops
      BY <2>3, <3>1
    <3>3. QED
      BY <3>1, <3>2
  <2>4. QED
    BY <2>2, <2>3 DEF RewriteReady
<1>2. QED
  BY <1>1 DEF ReadyToRewrite

(* UnregisterHost ends only when its host is not listed. *)
LEMMA EndsUnlisted ==
    ASSUME NEW owner, NEW home, CurrentInv(owner, home), NEW p \in Handlers,
           Calls(p), run[p].op.kind = "UnregisterHost"
    PROVE  \/ run'[p].todo = run[p].todo /\ run'[p].op = run[p].op
           \/ services' = services /\ ~ListedBy(Target(p), HostName(p))
<1> RunType
  BY TypeInvParts DEF CurrentInv, ApartInv
<1>1. \/ GetForUnregister(p) \/ Deregister(p) \/ Stamp(p) \/ PutService(p)
      \/ ProbeKey(p) \/ DeleteTree(p)
  BY DEF Calls, RunRegisterHost, RunUnregisterHost, RunUpdateHost, RunDependency, RunShared, In,
         CheckHostName, GetForRegister, Register, GetForUpdate, GetHost, CheckServiceName,
         ListServices, ScanService, GetForDependency, CheckPorts, GetToAppend, GetToRemove,
         GetHostsForPut, ReadHost, PutHost
<1>2. CASE GetForUnregister(p)
  <2>1. CASE ~IsListed(p)
    BY <1>2, <2>1 DEF GetForUnregister, ReadOnly, store, IsListed, ListedBy, Current
  <2>2. CASE IsListed(p)
    <3>1. Go(p, [run[p] EXCEPT !.pc = "stamp",
                               !.cur = RemoveFirstHost(Current(p), HostName(p))])
      BY <1>2, <2>2 DEF GetForUnregister, Read
    <3>2. QED
      BY <3>1, GoCur
  <2>3. QED
    BY <2>1, <2>2
<1>3. CASE Deregister(p)
  <2>1. Go(p, [run[p] EXCEPT !.pc = "probe"])
    BY <1>3 DEF Deregister
  <2>2. QED
    BY <2>1, GoPc
<1>4. CASE Stamp(p)
  <2>1. PICK a, b : Go(p, [run[p] EXCEPT !.pc = a, !.ver = clock, !.cur = b])
    BY <1>4 DEF Stamp, Read
  <2>2. run[p] \in HandlerState /\ run'[p] = [run[p] EXCEPT !.pc = a, !.ver = clock, !.cur = b]
    BY <2>1, GoOps DEF RunType, GoodState
  <2>3. QED
    BY <2>2 DEF HandlerState
<1>5. CASE PutService(p)
  <2>1. AfterPut(run[p].op.kind) # "begin"
    BY InventoryAssumption DEF AfterPut
  <2>2. PICK next : Go(p, [run[p] EXCEPT !.pc = next])
    BY <1>5, <2>1 DEF PutService, Read
  <2>3. QED
    BY <2>2, GoPc
<1>6. CASE ProbeKey(p) \/ DeleteTree(p)
  <2>1. /\ services' = services
        /\ run[p].pc \in {"probe", "delete"}
    BY <1>6 DEF ProbeKey, DeleteTree, In, ReadOnly, store
  <2>2. Unlisted(HostName(p)) /\ Target(p) \in Services
    BY <2>1, InHandCurrent DEF Fresh, FreshUnregisterHost, HostName
  <2>3. QED
    BY <2>1, <2>2 DEF Unlisted
<1>7. QED
  BY <1>1, <1>2, <1>3, <1>4, <1>5, <1>6

(* The host lists after a write: one host more, one host less, or the same *)
(* except what a rewrite drops.                                            *)
LEMMA PutLists ==
    ASSUME NEW owner, NEW home, CurrentInv(owner, home), NEW p \in Handlers, PutService(p),
           NEW h \in Hosts, NEW o, o = run[p].op
    PROVE  /\ \A s \in Services : s # o.service => (ListedBy(s, h)' <=> ListedBy(s, h))
           /\ o.kind = "RegisterHost" =>
                 (ListedBy(o.service, h)' <=> ListedBy(o.service, h) \/ h = o.host)
           /\ o.kind = "UnregisterHost" =>
                 (ListedBy(o.service, h)' <=> ListedBy(o.service, h) /\ h # o.host)
           /\ o.kind = "PutParam" => (ListedBy(o.service, h)' <=> h \in Listed(o.record))
           /\ o.kind \notin {"RegisterHost", "UnregisterHost", "PutParam"} =>
                 (ListedBy(o.service, h)' <=> ListedBy(o.service, h))
           /\ o.service \in Services /\ o.kind \in KindsAt("put")
<1>1. PICK svc, new : svc = services[o.service] /\ new = services'[o.service]
  OBVIOUS
<1>2. /\ new # None
      /\ o.kind \notin {"RegisterService", "PutParam"} => svc # None
      /\ o.kind = "RegisterService" => svc = None /\ Listed(new) = {}
      /\ o.kind \in {"AddDependency", "RemoveDependency", "UpdateHost"} =>
            Listed(new) = Listed(svc)
      /\ o.kind = "RegisterHost" => Listed(new) = Listed(svc) \cup {o.host}
      /\ o.kind = "UnregisterHost" => Listed(new) = Listed(svc) \ {o.host}
      /\ o.kind = "PutParam" => Listed(new) = Listed(o.record)
  BY <1>1, PutChanges
<1>3. /\ o.service \in Services /\ o.kind \in KindsAt("put")
      /\ \A s \in Services : s # o.service => services'[s] = services[s]
  BY PutList, InHandCurrent DEF PutService, Target, CurrentInv, ApartInv
<1>4. ListedBy(o.service, h)' <=> h \in Listed(new)
  BY <1>1, <1>2 DEF ListedBy
<1>5. ListedBy(o.service, h) <=> svc # None /\ h \in Listed(svc)
  BY <1>1 DEF ListedBy
<1>6. \A s \in Services : s # o.service => (ListedBy(s, h)' <=> ListedBy(s, h))
  BY <1>3 DEF ListedBy
<1>7. QED
  BY <1>2, <1>3, <1>4, <1>5, <1>6 DEF KindsAt

(* The plan of a PUT registers only hosts it names, and removes those      *)
(* listed that it does not name.                                           *)
LEMMA PlanReady ==
    ASSUME NEW owner, NEW home, CurrentInv(owner, home), NEW p \in Handlers, PlanUpdate(p)
    PROVE  ReadyToRewrite(run[p])'
<1> RunType /\ TypeInv
  BY TypeInvParts DEF CurrentInv, ApartInv
<1>1. PICK r, svc, current : r = run[p].op /\ svc = run[p].cur /\ current = run[p].found
  OBVIOUS
<1>2. PICK plan : plan = UpdatePlan(r, svc, current)
  OBVIOUS
<1>3. /\ run[p].pc = "readHosts" /\ r.kind = "Put" /\ run[p].rest = <<>>
      /\ Continue(p, plan) /\ services' = services
  BY <1>1, <1>2 DEF PlanUpdate, In, ReadOnly, store
<1>4. /\ r \in PutOp /\ OwnNames(home, p, r) /\ UpToDate(run[p])
      /\ svc \in Service /\ current \in Seq(NamedHost)
  BY <1>1, <1>3, InHandCurrent, InHandApart, OpKind
     DEF CurrentInv, ApartInv, Control, HoldsService
<1>5. \A i, j \in DOMAIN r.hosts : r.hosts[i].name = r.hosts[j].name => i = j
  BY <1>3, <1>4 DEF OwnNames
<1>6. FoundNames(current) = Listed(services[r.service])
  <2>1. FoundNames(current) \cup Elements(run[p].rest) = Listed(services[r.service])
    BY <1>1, <1>3, <1>4 DEF UpToDate, ReadsCurrent
  <2>2. Elements(<<>>) = {}
    BY DEF Elements
  <2>3. QED
    BY <1>3, <2>1, <2>2
<1>7. Listed(ParamService(r)) = ParamNames(r)
  BY <1>4, <1>5, ParamListed
<1>8. \A o \in plan : /\ o.service = r.service
                      /\ o.kind = "RegisterHost" => o.host \in ParamNames(r)
                      /\ o.kind = "PutParam" => o.record = ParamService(r)
  BY <1>2, UpdatePlanKinds
<1>9. \A j \in DOMAIN current : current[j].name \notin ParamNames(r) =>
         \E o \in plan : o.kind = "UnregisterHost" /\ o.host = current[j].name
  BY <1>2, <1>4, <1>5, UpdatePlanOps
<1>10. ASSUME NEW o \in plan, o.kind = "PutParam" PROVE RewriteReady(plan, o)'
  <2>1. \A x \in plan : x.kind = "RegisterHost" => x.host \in Listed(o.record)
    BY <1>7, <1>8, <1>10
  <2>2. ASSUME NEW h \in Hosts, ListedBy(o.service, h)', h \notin Listed(o.record)
        PROVE  \E x \in plan : x.kind = "UnregisterHost" /\ x.service = o.service /\ x.host = h
    <3>1. h \in FoundNames(current) /\ h \notin ParamNames(r)
      BY <1>3, <1>6, <1>7, <1>8, <1>10, <2>2 DEF ListedBy
    <3>2. QED
      BY <1>8, <1>9, <1>10, <3>1 DEF FoundNames
  <2>3. QED
    BY <2>1, <2>2 DEF RewriteReady
<1>11. Pending(run[p])' = plan
  <2>1. plan \in SUBSET Op
    BY <1>2, <1>4, UpdatePlanType
  <2>2. run'[p].todo = plan /\ run'[p].op = None
    BY <1>3, ContinueOps
  <2>3. QED
    BY <2>1, <2>2, InventoryAssumption DEF Pending
<1>12. QED
  BY <1>10, <1>11 DEF ReadyToRewrite

(* A write leaves the handler ready, too. *)
LEMMA PutReady ==
    ASSUME NEW owner, NEW home, CurrentInv(owner, home), NEW p \in Handlers,
           ReadyToRewrite(run[p]), PutService(p)
    PROVE  ReadyToRewrite(run[p])'
<1> RunType /\ TypeInv
  BY TypeInvParts DEF CurrentInv, ApartInv
<1>1. PICK r : r = run[p].op
  OBVIOUS
<1>2. run[p].pc = "put"
  BY DEF PutService
<1>3. /\ r \in Op /\ OpsApart(home, p, run[p]) /\ r \in Pending(run[p]) /\ r \notin run[p].todo
      /\ run[p].todo \subseteq Pending(run[p])
  BY <1>1, <1>2, InHandApart, PendingOps DEF CurrentInv, ApartInv, OpsApart
<1>4. \/ run'[p].todo = run[p].todo /\ run'[p].op = run[p].op
      \/ run'[p].todo = run[p].todo /\ run'[p].op = None /\ r.kind # "UnregisterHost"
  <2>1. CASE AfterPut(r.kind) # "begin"
    <3>1. PICK next : Go(p, [run[p] EXCEPT !.pc = next])
      BY <1>1, <2>1 DEF PutService, Read
    <3>2. QED
      BY <3>1, GoPc
  <2>2. CASE AfterPut(r.kind) = "begin"
    <3>1. r.kind # "UnregisterHost"
      BY <2>2, InventoryAssumption DEF AfterPut
    <3>2. Continue(p, run[p].todo)
      BY <1>1, <2>2 DEF PutService, Finish
    <3>3. QED
      BY <3>1, <3>2, ContinueOps
  <2>3. QED
    BY <2>1, <2>2
<1>5. PICK ops : ops = Pending(run[p])'
  OBVIOUS
<1>6. /\ ops \subseteq Pending(run[p])
      /\ \A x \in Pending(run[p]) \ ops : x.kind # "UnregisterHost"
      /\ r \in ops => ops = Pending(run[p]) /\ run'[p].op = r
  BY <1>1, <1>3, <1>4, <1>5 DEF Pending
<1>7. ASSUME NEW o \in ops, NEW h \in Hosts, o.kind = "PutParam", ListedBy(o.service, h)'
      PROVE  ListedBy(o.service, h) \/ h \in Listed(o.record)
  <2>1. /\ o \in Pending(run[p]) /\ Compatible(o, r) /\ RewriteReady(Pending(run[p]), o)
        /\ o.service \in Services
    BY <1>3, <1>6, <1>7, PendingOps, OpKind DEF OpsApart, ReadyToRewrite
  <2>2. CASE o.service # r.service
    BY <1>1, <1>7, <2>1, <2>2, PutLists
  <2>3. CASE r.kind = "RegisterHost"
    <3>1. r.host \in Listed(o.record)
      BY <1>3, <2>1, <2>3 DEF RewriteReady
    <3>2. QED
      BY <1>1, <1>7, <2>1, <2>2, <2>3, <3>1, PutLists
  <2>4. CASE r.kind \in {"UnregisterHost", "UpdateHost"}
    BY <1>1, <1>7, <2>1, <2>2, <2>4, PutLists
  <2>5. CASE r = o
    BY <1>1, <1>7, <2>5, PutLists
  <2>6. QED
    BY <1>7, <2>1, <2>3, <2>4, <2>5 DEF Compatible
<1>8. QED
  BY <1>5, <1>6, <1>7, ReadyStep

(* Every step of the handler itself leaves it ready. *)
LEMMA WorkReady ==
    ASSUME NEW owner, NEW home, CurrentInv(owner, home), NothingRemoved, NEW p \in Handlers,
           ReadyToRewrite(run[p]), Work(p)
    PROVE  ReadyToRewrite(run[p])'
<1> RunType /\ TypeInv
  BY TypeInvParts DEF CurrentInv, ApartInv
<1>1. PICK ops : ops = Pending(run[p])'
  OBVIOUS
<1>2. ASSUME ops = {} PROVE ReadyToRewrite(run[p])'
  BY <1>1, <1>2 DEF ReadyToRewrite
<1>3. ASSUME services' = services, ops = Pending(run[p]) PROVE ReadyToRewrite(run[p])'
  BY <1>1, <1>3, ReadyStep DEF ListedBy
<1>4. CASE Begin(p)
  <2>1. run[p].pc = "begin" /\ services' = services
    BY <1>4 DEF Begin, store
  <2>2. run[p].op = None
    BY <2>1 DEF CurrentInv, ApartInv, AllApart, Apart, OpsApart
  <2>3. PICK o \in run[p].todo : run'[p].op = o /\ run'[p].todo = run[p].todo \ {o}
    BY <1>4, BeginOps
  <2>4. ops = Pending(run[p])
    BY <1>1, <2>2, <2>3 DEF Pending
  <2>5. QED
    BY <1>3, <2>1, <2>4
<1>5. CASE Reject(p) \/ Return(p) \/ Fail(p)
  <2>1. Go(p, Idle)
    BY <1>5 DEF Reject, Return, Fail
  <2>2. run'[p] = Idle
    BY <2>1, GoOps
  <2>3. Idle.todo = {} /\ Idle.op = None
    BY DEF Idle, At
  <2>4. ops = {}
    BY <1>1, <2>2, <2>3 DEF Pending
  <2>5. QED
    BY <1>2, <2>4
<1>6. CASE GetForPut(p)
  <2>1. services' = services
    BY <1>6 DEF GetForPut, ReadOnly, store
  <2>2. CASE Current(p) = None
    <3>1. PICK plan : plan = CreatePlan(run[p].op) /\ Continue(p, plan)
      BY <1>6, <2>2 DEF GetForPut
    <3>2. run'[p].todo = plan /\ run'[p].op = None
      BY <3>1, ContinueOps
    <3>3. \A o \in plan : o.kind # "PutParam"
      BY <3>1 DEF CreatePlan
    <3>4. QED
      BY <3>2, <3>3 DEF ReadyToRewrite, Pending
  <2>3. CASE Current(p) # None
    <3>1. Go(p, [run[p] EXCEPT !.pc = "getHosts", !.cur = Current(p)])
      BY <1>6, <2>3 DEF GetForPut, Read
    <3>2. run'[p].todo = run[p].todo /\ run'[p].op = run[p].op
      BY <3>1, GoCur
    <3>3. ops = Pending(run[p])
      BY <1>1, <3>2 DEF Pending
    <3>4. QED
      BY <1>3, <2>1, <3>3
  <2>4. QED
    BY <2>2, <2>3
<1>7. CASE PlanUnregister(p)
  <2>1. run[p].pc = "scan" /\ run[p].op.kind = "UnregisterService"
    BY <1>7 DEF PlanUnregister, In
  <2>2. QED
    BY <2>1, PendingOps DEF NothingRemoved
<1>8. CASE Calls(p) /\ ~PutService(p) /\ ~Fail(p)
  <2>1. services' = services
    <3>1. ~(DeleteTree(p) /\ In(p, {"DeleteService"}, "delete"))
      <4>1. run[p].op \in Pending(run[p])
        BY <1>8, PendingOps, CallOps
      <4>2. QED
        BY <4>1 DEF In, NothingRemoved
    <3>2. QED
      BY <1>8, <3>1, ServicesWriters
  <2>2. CASE run'[p].todo = run[p].todo /\ run'[p].op = run[p].op
    <3>1. ops = Pending(run[p])
      BY <1>1, <2>2 DEF Pending
    <3>2. QED
      BY <1>3, <2>1, <3>1
  <2>3. CASE Finish(p) /\ ~(run'[p].todo = run[p].todo /\ run'[p].op = run[p].op)
    <3>1. run'[p].todo = run[p].todo /\ run'[p].op = None
      BY <2>3, ContinueOps DEF Finish
    <3>2. ops = run[p].todo \ {None}
      BY <1>1, <3>1 DEF Pending
    <3>3. ops \subseteq Pending(run[p]) /\ Pending(run[p]) \ ops \subseteq {run[p].op}
      BY <3>2 DEF Pending
    <3>4. run[p].op.kind = "UnregisterHost" => ~ListedBy(run[p].op.service, run[p].op.host)
      BY <1>8, <2>3, EndsUnlisted DEF Target, HostName
    <3>5. \A s, h : ListedBy(s, h)' <=> ListedBy(s, h)
      BY <2>1 DEF ListedBy
    <3>6. QED
      BY <1>1, <3>3, <3>4, <3>5, ReadyStep
  <2>4. QED
    BY <1>8, <2>2, <2>3, CallOps
<1>9. QED
  BY <1>4, <1>5, <1>6, <1>7, <1>8, PlanReady, PutReady, WorkCases DEF Plans

(* So does every step. *)
LEMMA StepReady ==
    ASSUME NEW owner, NEW home, Isolated(owner, home), Extends = {}, CurrentInv(owner, home),
           NothingRemoved, AllReady, [Next]_vars
    PROVE  AllReady'
<1> RunType /\ TypeInv /\ ServicesOwned(owner)
  BY TypeInvParts DEF CurrentInv, ApartInv
<1>1. ASSUME NEW q \in Handlers, run'[q] = run[q], services' = services
      PROVE  ReadyToRewrite(run[q])'
  BY <1>1, ReadyFrame DEF AllReady
<1>2. ASSUME NEW p \in Handlers, Work(p) PROVE AllReady'
  <2>1. ReadyToRewrite(run[p])'
    BY <1>2, WorkReady DEF AllReady
  <2>2. ASSUME NEW q \in Handlers, q # p PROVE ReadyToRewrite(run[q])'
    <3>1. run'[q] = run[q]
      BY <1>2, <2>2, OthersKept
    <3>2. \A s \in Services : owner[s] = q => services'[s] = services[s]
      BY <1>2, <2>2, WritesOwnServices
    <3>3. QED
      BY <3>1, <3>2, ReadyFrame DEF AllReady
  <2>3. QED
    BY <2>1, <2>2 DEF AllReady
<1>3. ASSUME NEW p \in Handlers, NEW r \in Requests[p], Accept(p, r) PROVE AllReady'
  <2>1. Continue(p, {r}) /\ r \in Request /\ services' = services
    BY <1>3, InventoryAssumption DEF Accept, store
  <2>2. r.kind # "PutParam"
    BY <2>1 DEF Request, RegisterServiceOp, UnregisterServiceOp, AddDependencyOp,
       RemoveDependencyOp, RegisterHostOp, UnregisterHostOp, UpdateHostOp, PutOp
  <2>3. /\ run'[p].todo = {r} /\ run'[p].op = None
        /\ \A q \in Handlers : q # p => run'[q] = run[q]
    BY <2>1, ContinueOps
  <2>4. ReadyToRewrite(run[p])'
    BY <2>2, <2>3 DEF ReadyToRewrite, Pending
  <2>5. QED
    BY <1>1, <2>1, <2>3, <2>4 DEF AllReady
<1>4. ASSUME NEW p \in Handlers, CallFails(p) PROVE AllReady'
  <2>1. /\ services' = services
        /\ Fail(p) \/ (Finish(p) /\ run[p].op.kind = "AddDependency")
    BY <1>4 DEF CallFails, store
  <2>2. PICK ops : ops = Pending(run[p])'
    OBVIOUS
  <2>3. ASSUME Fail(p) PROVE ReadyToRewrite(run[p])'
    <3>1. Go(p, Idle)
      BY <2>3 DEF Fail
    <3>2. run'[p] = Idle
      BY <3>1, GoOps
    <3>3. Idle.todo = {} /\ Idle.op = None
      BY DEF Idle, At
    <3>4. ops = {}
      BY <2>2, <3>2, <3>3 DEF Pending
    <3>5. QED
      BY <2>2, <3>4 DEF ReadyToRewrite
  <2>4. ASSUME Finish(p), run[p].op.kind = "AddDependency" PROVE ReadyToRewrite(run[p])'
    <3>1. run'[p].todo = run[p].todo /\ run'[p].op = None
      BY <2>4, ContinueOps DEF Finish
    <3>2. ops \subseteq Pending(run[p]) /\ Pending(run[p]) \ ops \subseteq {run[p].op}
      BY <2>2, <3>1 DEF Pending
    <3>3. \A s, h : ListedBy(s, h)' <=> ListedBy(s, h)
      BY <2>1 DEF ListedBy
    <3>4. ReadyToRewrite(run[p])
      BY DEF AllReady
    <3>5. \A x \in Pending(run[p]) \ ops : x.kind # "UnregisterHost"
      BY <2>4, <3>2
    <3>6. QED
      BY <2>2, <3>2, <3>3, <3>4, <3>5, ReadyStep
  <2>5. \A q \in Handlers : q # p => run'[q] = run[q]
    BY <2>1, EndOps
  <2>6. QED
    BY <1>1, <2>1, <2>3, <2>4, <2>5 DEF AllReady
<1>5. CASE Crash
  <2>1. \A q \in Handlers : run'[q].todo = {} /\ run'[q].op = None
    BY <1>5 DEF Crash, Idle, At
  <2>2. QED
    BY <2>1 DEF AllReady, ReadyToRewrite, Pending
<1>6. CASE Tick \/ UNCHANGED vars
  <2>1. run' = run /\ services' = services
    BY <1>6 DEF Tick, vars, store
  <2>2. QED
    BY <1>1, <2>1 DEF AllReady
<1>7. QED
  BY <1>2, <1>3, <1>4, <1>5, <1>6 DEF Next

-----------------------------------------------------------------------------
(* What is recorded, listed and offered agrees, or will when the handlers  *)
(* have done what they are about to do.                                    *)

(* The host of another handler is as it was. *)
LEMMA OthersAgree ==
    ASSUME NEW owner, NEW home, Isolated(owner, home), Extends = {}, CurrentInv(owner, home),
           CurrentInv(owner, home)', NEW p \in Handlers, Work(p),
           NEW h \in Hosts, home[h] # p, HostAgrees(home, h)
    PROVE  HostAgrees(home, h)'
<1> TypeInv /\ ServicesOwned(owner)
  BY DEF CurrentInv, ApartInv
<1>1. run'[home[h]] = run[home[h]]
  BY OthersKept DEF Isolated
<1>2. hosts'[h] = hosts[h] /\ catalog'[h] = catalog[h]
  BY WritesOwnHosts DEF CurrentInv
<1>3. \A s \in Services : owner[s] # p => services'[s] = services[s]
  BY WritesOwnServices
<1>4. \A s \in Services : ListedBy(s, h)' <=> ListedBy(s, h)
  <2>1. \A s \in Services : ListedBy(s, h) \/ ListedBy(s, h)' => owner[s] = home[h]
    BY DEF CurrentInv, ApartInv, StoreApart, HostsStored
  <2>2. QED
    BY <1>3, <2>1 DEF ListedBy
<1>5. Unlisted(h)' <=> Unlisted(h)
  BY <1>4 DEF Unlisted
<1>6. QED
  BY <1>1, <1>2, <1>5 DEF HostAgrees, InTransit, ToBeOffered

(* Neither is a host about which the handler stores nothing. *)
LEMMA QuietAgrees ==
    ASSUME NEW home, NEW h \in Hosts, HostAgrees(home, h),
           hosts'[h] = hosts[h], catalog'[h] = catalog[h], Unlisted(h)' <=> Unlisted(h),
           InTransit(run[home[h]], h) => InTransit(run[home[h]], h)',
           ToBeOffered(run[home[h]], h) => ToBeOffered(run[home[h]], h)'
    PROVE  HostAgrees(home, h)'
  BY DEF HostAgrees

(* Between the first and the last write on a host a handler makes only     *)
(* these calls.                                                            *)
LEMMA TransitCalls ==
    ASSUME TypeInv, NEW p \in Handlers, Work(p), NEW h,
           InTransit(run[p], h) \/ ToBeOffered(run[p], h)
    PROVE  \/ ToBeOffered(run[p], h) /\ Register(p)
           \/ Stamp(p) \/ PutService(p) \/ Deregister(p) \/ ProbeKey(p) \/ DeleteTree(p)
<1>1. \/ /\ run[p].pc \in {"stamp", "put", "deregister", "probe", "delete"}
         /\ run[p].op.kind \in {"RegisterHost", "UnregisterHost"}
      \/ run[p].pc = "register" /\ ToBeOffered(run[p], h)
  BY DEF InTransit, ToBeOffered
<1>2. ~(Begin(p) \/ Reject(p) \/ Return(p) \/ RunPut(p) \/ RunService(p) \/ RunUpdateHost(p))
  BY <1>1 DEF Begin, Reject, Return, RunPut, GetForPut, GetHostsForPut, PlanUpdate, RunService,
              CheckServiceName, ListServices, ScanService, PlanUnregister, RunUpdateHost,
              GetForUpdate, GetHost, In
<1>3. ~(RunDependency(p) \/ CheckHostName(p) \/ GetForRegister(p) \/ GetForUnregister(p)
        \/ ReadHost(p) \/ PutHost(p))
  BY <1>1 DEF RunDependency, GetForDependency, CheckPorts, GetToAppend, GetToRemove,
              CheckHostName, GetForRegister, GetForUnregister, ReadHost, PutHost, In
<1>4. QED
  BY <1>1, <1>2, <1>3 DEF Work, RunRegisterHost, RunUnregisterHost, RunShared, Register, In

(* Stamp and ProbeKey store nothing and leave the operation where it is    *)
(* unless there is no record to delete.                                    *)
LEMMA ReadsAgree ==
    ASSUME NEW owner, NEW home, CurrentInv(owner, home), NEW p \in Handlers,
           Stamp(p) \/ ProbeKey(p),
           NEW h \in Hosts, home[h] = p, HostAgrees(home, h)
    PROVE  HostAgrees(home, h)'
<1> RunType
  BY TypeInvParts DEF CurrentInv, ApartInv
<1>1. hosts' = hosts /\ catalog' = catalog /\ (Unlisted(h)' <=> Unlisted(h))
  BY DEF Stamp, ProbeKey, ReadOnly, store, Unlisted, ListedBy
<1>2. ~ToBeOffered(run[p], h)
  BY DEF Stamp, ProbeKey, In, ToBeOffered
<1>3. CASE ~InTransit(run[p], h)
  BY <1>1, <1>2, <1>3, QuietAgrees
<1>4. CASE Stamp(p) /\ InTransit(run[p], h)
  <2>1. run[p].pc = "stamp" /\ run[p].op.kind = "RegisterHost" /\ run[p].op.host = h
    BY <1>4 DEF Stamp, InTransit
  <2>2. PICK b : Go(p, [run[p] EXCEPT !.pc = AfterStamp[run[p].op.kind], !.ver = clock, !.cur = b])
    BY <1>4 DEF Stamp, Read
  <2>3. /\ run[p] \in HandlerState
        /\ run'[p] = [run[p] EXCEPT !.pc = AfterStamp[run[p].op.kind], !.ver = clock, !.cur = b]
    BY <2>2, GoOps DEF RunType, GoodState
  <2>4. AfterStamp[run[p].op.kind] = "put"
    BY <2>1 DEF AfterStamp
  <2>5. run'[p].pc = "put" /\ run'[p].op = run[p].op
    BY <2>3, <2>4 DEF HandlerState
  <2>6. InTransit(run[p], h)'
    BY <2>1, <2>5 DEF InTransit
  <2>7. QED
    BY <1>1, <1>2, <2>6, QuietAgrees
<1>5. CASE ProbeKey(p) /\ InTransit(run[p], h)
  <2>1. run[p].pc = "probe" /\ run[p].op.kind = "UnregisterHost" /\ run[p].op.host = h
    BY <1>5 DEF ProbeKey, In, InTransit
  <2>2. CASE hosts[h] = None
    BY <1>1, <1>2, <2>2 DEF HostAgrees
  <2>3. CASE hosts[h] # None
    <3>1. Go(p, [run[p] EXCEPT !.pc = "delete"])
      BY <1>5, <2>1, <2>3 DEF ProbeKey, Read, HostName
    <3>2. run'[p].pc = "delete" /\ run'[p].op = run[p].op
      BY <3>1, GoPc
    <3>3. InTransit(run[p], h)'
      BY <2>1, <3>2 DEF InTransit
    <3>4. QED
      BY <1>1, <1>2, <3>3, QuietAgrees
  <2>4. QED
    BY <2>2, <2>3
<1>6. QED
  BY <1>3, <1>4, <1>5

(* RegisterHost records the host before it lists it; UpdateHost records a  *)
(* host that is listed.                                                    *)
LEMMA PutHostAgrees ==
    ASSUME NEW owner, NEW home, CurrentInv(owner, home), NEW p \in Handlers, PutHost(p),
           NEW h \in Hosts, home[h] = p, HostAgrees(home, h)
    PROVE  HostAgrees(home, h)'
<1> RunType /\ StoreType
  BY TypeInvParts DEF CurrentInv, ApartInv
<1>1. /\ catalog' = catalog /\ (Unlisted(h)' <=> Unlisted(h))
      /\ run[p].pc = "putHost" /\ run[p].op.kind \in {"RegisterHost", "UpdateHost"}
      /\ hosts' = [hosts EXCEPT ![HostName(p)] = run[p].attr]
  BY DEF PutHost, In, Unlisted, ListedBy
<1>2. ~InTransit(run[p], h) /\ ~ToBeOffered(run[p], h)
  BY <1>1 DEF InTransit, ToBeOffered
<1>3. CASE h # HostName(p)
  <2>1. hosts'[h] = hosts[h]
    BY <1>1, <1>3 DEF StoreType
  <2>2. QED
    BY <1>1, <1>2, <2>1, QuietAgrees
<1>4. CASE h = HostName(p) /\ run[p].op.kind = "RegisterHost"
  <2>1. Go(p, [run[p] EXCEPT !.pc = "stamp"])
    BY <1>4 DEF PutHost
  <2>2. run'[p].pc = "stamp" /\ run'[p].op = run[p].op
    BY <2>1, GoPc
  <2>3. InTransit(run[p], h)'
    BY <1>4, <2>2 DEF InTransit, HostName
  <2>4. QED
    BY <1>1, <1>2, <2>3 DEF HostAgrees
<1>5. CASE h = HostName(p) /\ run[p].op.kind = "UpdateHost"
  <2>1. ListedBy(Target(p), h) /\ Target(p) \in Services
    BY <1>1, <1>5, InHandCurrent DEF UpToDate, AttrCurrent, Target, HostName
  <2>2. ~Unlisted(h)
    BY <2>1 DEF Unlisted
  <2>3. QED
    BY <1>1, <1>2, <2>2 DEF HostAgrees
<1>6. QED
  BY <1>1, <1>3, <1>4, <1>5

(* What a write of a record changes of whether a host is listed. *)
LEMMA PutUnlisted ==
    ASSUME NEW owner, NEW home, CurrentInv(owner, home), NEW p \in Handlers, PutService(p),
           ReadyToRewrite(run[p]), NEW h \in Hosts, NEW o, o = run[p].op
    PROVE  /\ o.kind = "RegisterHost" /\ h = o.host => ~Unlisted(h)'
           /\ o.kind = "UnregisterHost" /\ h = o.host => Unlisted(h)'
           /\ o.kind \notin {"RegisterHost", "UnregisterHost"} \/ h # o.host =>
                 (Unlisted(h)' <=> Unlisted(h))
<1>1. /\ \A s \in Services : s # o.service => (ListedBy(s, h)' <=> ListedBy(s, h))
      /\ o.service \in Services /\ o.kind \in KindsAt("put")
  BY PutLists
<1>2. run[p].pc = "put"
  BY DEF PutService
<1>3. CASE o.kind = "RegisterHost"
  <2>1. ListedBy(o.service, h)' <=> ListedBy(o.service, h) \/ h = o.host
    BY <1>3, PutLists
  <2>2. QED
    BY <1>1, <1>3, <2>1 DEF Unlisted
<1>4. CASE o.kind = "UnregisterHost"
  <2>1. ListedBy(o.service, h)' <=> ListedBy(o.service, h) /\ h # o.host
    BY <1>4, PutLists
  <2>2. ListedBy(o.service, o.host)
    BY <1>2, <1>4, InHandCurrent DEF Fresh, FreshUnregisterHost, Removed
  <2>3. \A s \in Services : ListedBy(s, h) /\ h = o.host => s = o.service
    BY <1>1, <2>2 DEF CurrentInv, ApartInv, StoreApart, ListedApart
  <2>4. QED
    BY <1>1, <1>4, <2>1, <2>3 DEF Unlisted
<1>5. CASE o.kind = "PutParam"
  <2>1. ListedBy(o.service, h)' <=> h \in Listed(o.record)
    BY <1>5, PutLists
  <2>2. h \in Listed(o.record) => ListedBy(o.service, h)
    BY <1>2, <1>5, InHandCurrent DEF Fresh, FreshPutParam
  <2>3. ListedBy(o.service, h) => h \in Listed(o.record)
    <3>1. o \in Pending(run[p]) /\ Ordered(run[p])
      BY <1>2, InHandCurrent, PendingOps DEF UpToDate
    <3>2. \A x \in Pending(run[p]) : x.kind # "UnregisterHost"
      <4>1. \A x \in run[p].todo : ~Before(x, o)
        BY <3>1 DEF Ordered
      <4>2. \A x : x.kind = "UnregisterHost" => Before(x, o)
        BY <1>5 DEF Before, Rank
      <4>3. QED
        BY <1>5, <4>1, <4>2 DEF Pending
    <3>3. QED
      BY <1>5, <3>1, <3>2 DEF ReadyToRewrite, RewriteReady
  <2>4. QED
    BY <1>1, <1>5, <2>1, <2>2, <2>3 DEF Unlisted
<1>6. CASE o.kind \notin {"RegisterHost", "UnregisterHost", "PutParam"}
  <2>1. ListedBy(o.service, h)' <=> ListedBy(o.service, h)
    BY <1>6, PutLists
  <2>2. QED
    BY <1>1, <1>6, <2>1 DEF Unlisted
<1>7. QED
  BY <1>3, <1>4, <1>5, <1>6

(* So every host is listed, in transit or about to be offered as before.   *)
LEMMA PutAgrees ==
    ASSUME NEW owner, NEW home, CurrentInv(owner, home), NEW p \in Handlers, PutService(p),
           ReadyToRewrite(run[p]), NEW h \in Hosts, home[h] = p, HostAgrees(home, h)
    PROVE  HostAgrees(home, h)'
<1> RunType
  BY TypeInvParts DEF CurrentInv, ApartInv
<1>1. PICK o : o = run[p].op
  OBVIOUS
<1>2. run[p].pc = "put" /\ hosts' = hosts /\ catalog' = catalog
  BY DEF PutService
<1>3. ~ToBeOffered(run[p], h)
  BY <1>2 DEF ToBeOffered
<1>4. CASE o.kind \notin {"RegisterHost", "UnregisterHost"} \/ h # o.host
  <2>1. (Unlisted(h)' <=> Unlisted(h)) /\ ~InTransit(run[p], h)
    BY <1>1, <1>2, <1>4, PutUnlisted DEF InTransit
  <2>2. QED
    BY <1>2, <1>3, <2>1, QuietAgrees
<1>5. CASE o.kind = "RegisterHost" /\ h = o.host
  <2>1. ~Unlisted(h)'
    BY <1>1, <1>5, PutUnlisted
  <2>2. ASSUME Discovery PROVE ToBeOffered(run[p], h)'
    <3>1. AfterPut(o.kind) = "register"
      BY <1>5, <2>2 DEF AfterPut
    <3>2. Go(p, [run[p] EXCEPT !.pc = "register"])
      BY <1>1, <3>1 DEF PutService, Read
    <3>3. run'[p].pc = "register" /\ run'[p].op = o
      BY <1>1, <3>2, GoPc
    <3>4. QED
      BY <1>5, <3>3 DEF ToBeOffered
  <2>3. QED
    BY <1>2, <2>1, <2>2 DEF HostAgrees
<1>6. CASE o.kind = "UnregisterHost" /\ h = o.host
  <2>1. Unlisted(h)'
    BY <1>1, <1>6, PutUnlisted
  <2>2. PICK next \in {"deregister", "probe"} : Go(p, [run[p] EXCEPT !.pc = next])
    <3>1. AfterPut(o.kind) \in {"deregister", "probe"}
      BY <1>6, InventoryAssumption DEF AfterPut
    <3>2. QED
      BY <1>1, <3>1 DEF PutService, Read
  <2>3. run'[p].pc \in {"deregister", "probe"} /\ run'[p].op = o
    BY <1>1, <2>2, GoPc
  <2>4. InTransit(run[p], h)'
    BY <1>6, <2>3 DEF InTransit
  <2>5. QED
    BY <2>1, <2>4 DEF HostAgrees
<1>7. QED
  BY <1>4, <1>5, <1>6

(* The last calls: the catalog gets or loses the host, the record goes.    *)
LEMMA LastCallsAgree ==
    ASSUME NEW owner, NEW home, Extends = {}, CurrentInv(owner, home), NothingRemoved,
           NEW p \in Handlers, Register(p) \/ Deregister(p) \/ DeleteTree(p),
           NEW h \in Hosts, home[h] = p, HostAgrees(home, h)
    PROVE  HostAgrees(home, h)'
<1> RunType /\ StoreType
  BY TypeInvParts DEF CurrentInv, ApartInv
<1>1. run[p].pc \in {"register", "deregister", "delete"} /\ run[p].op \in Pending(run[p])
  BY PendingOps DEF Register, Deregister, DeleteTree, In
<1>2. services' = services /\ (Unlisted(h)' <=> Unlisted(h))
  <2>1. run[p].op.kind # "DeleteService"
    BY <1>1 DEF NothingRemoved
  <2>2. services' = services
    BY <2>1 DEF Register, Deregister, DeleteTree, In
  <2>3. QED
    BY <2>2 DEF Unlisted, ListedBy
<1>3. run[p].op.host = h <=> HostName(p) = h
  BY DEF HostName
<1>4. CASE Register(p)
  <2>1. /\ hosts' = hosts /\ ~InTransit(run[p], h)
        /\ run[p].pc = "register" /\ run[p].op.kind = "RegisterHost"
        /\ catalog' = [catalog EXCEPT ![HostName(p)] = run[p].attr.ingress.machine]
    BY <1>4 DEF Register, In, InTransit
  <2>2. CASE h # HostName(p)
    <3>1. catalog'[h] = catalog[h] /\ ~ToBeOffered(run[p], h)
      BY <1>3, <2>1, <2>2 DEF StoreType, ToBeOffered
    <3>2. QED
      BY <1>2, <2>1, <3>1, QuietAgrees
  <2>3. CASE h = HostName(p)
    <3>1. run[p].attr \in HostAttr
      BY <2>1, InHandCurrent DEF Control, HoldsAttr
    <3>2. run[p].attr.ingress.machine \in Machines
      BY <3>1 DEF HostAttr, Address
    <3>3. catalog'[h] # None
      BY <2>1, <2>3, <3>2, InventoryAssumption DEF StoreType
    <3>4. QED
      BY <1>2, <2>1, <3>3 DEF HostAgrees
  <2>4. QED
    BY <2>2, <2>3
<1>5. CASE Deregister(p)
  <2>1. /\ hosts' = hosts /\ run[p].pc = "deregister" /\ run[p].op.kind = "UnregisterHost"
        /\ catalog' = [catalog EXCEPT ![HostName(p)] = None]
        /\ Go(p, [run[p] EXCEPT !.pc = "probe"])
    BY <1>5 DEF Deregister, In
  <2>2. run'[p].pc = "probe" /\ run'[p].op = run[p].op
    BY <2>1, GoPc
  <2>3. CASE h # HostName(p)
    <3>1. catalog'[h] = catalog[h] /\ ~ToBeOffered(run[p], h) /\ ~InTransit(run[p], h)
      BY <1>3, <2>1, <2>3 DEF StoreType, ToBeOffered, InTransit
    <3>2. QED
      BY <1>2, <2>1, <3>1, QuietAgrees
  <2>4. CASE h = HostName(p)
    <3>1. InTransit(run[p], h)'
      BY <1>3, <2>1, <2>2, <2>4 DEF InTransit
    <3>2. Unlisted(h)
      BY <2>1, <2>4, InHandCurrent DEF Fresh, FreshUnregisterHost, HostName
    <3>3. QED
      BY <1>2, <3>1, <3>2 DEF HostAgrees
  <2>5. QED
    BY <2>3, <2>4
<1>6. CASE DeleteTree(p)
  <2>1. /\ catalog' = catalog /\ run[p].pc = "delete" /\ run[p].op.kind = "UnregisterHost"
        /\ hosts' = [x \in Hosts |-> IF Under(HostName(p), x) THEN None ELSE hosts[x]]
    BY <1>1, <1>6 DEF DeleteTree, In, NothingRemoved
  <2>2. CASE h # HostName(p)
    <3>1. hosts'[h] = hosts[h] /\ ~ToBeOffered(run[p], h) /\ ~InTransit(run[p], h)
      BY <1>3, <2>1, <2>2 DEF Under, ToBeOffered, InTransit
    <3>2. QED
      BY <1>2, <2>1, <3>1, QuietAgrees
  <2>3. CASE h = HostName(p)
    <3>1. hosts'[h] = None
      BY <2>1, <2>3 DEF Under
    <3>2. Unlisted(h)
      BY <2>1, <2>3, InHandCurrent DEF Fresh, FreshUnregisterHost, HostName
    <3>3. QED
      BY <1>2, <3>1, <3>2 DEF HostAgrees
  <2>4. QED
    BY <2>2, <2>3
<1>7. QED
  BY <1>4, <1>5, <1>6

-----------------------------------------------------------------------------
(* A step of a handler keeps the stores in agreement, *)
LEMMA WorkAgrees ==
    ASSUME NEW owner, NEW home, Isolated(owner, home), Extends = {}, CurrentInv(owner, home),
           CurrentInv(owner, home)', NothingRemoved, AllReady, HostsAgree(home),
           NEW p \in Handlers, Work(p)
    PROVE  HostsAgree(home)'
<1> TypeInv
  BY DEF CurrentInv, ApartInv
<1> SUFFICES ASSUME NEW h \in Hosts PROVE HostAgrees(home, h)'
  BY DEF HostsAgree
<1>1. HostAgrees(home, h) /\ ReadyToRewrite(run[p])
  BY DEF HostsAgree, AllReady
<1>2. CASE home[h] # p
  BY <1>1, <1>2, OthersAgree
<1>3. CASE home[h] = p
  <2>1. CASE Stamp(p) \/ ProbeKey(p)
    BY <1>1, <1>3, <2>1, ReadsAgree
  <2>2. CASE PutHost(p)
    BY <1>1, <1>3, <2>2, PutHostAgrees
  <2>3. CASE PutService(p)
    BY <1>1, <1>3, <2>3, PutAgrees
  <2>4. CASE Register(p) \/ Deregister(p) \/ DeleteTree(p)
    BY <1>1, <1>3, <2>4, LastCallsAgree
  <2>5. CASE ~(\/ Stamp(p) \/ ProbeKey(p) \/ PutHost(p) \/ PutService(p)
               \/ Register(p) \/ Deregister(p) \/ DeleteTree(p))
    <3>1. services' = services
      BY <2>5, ServicesWriters
    <3>2. hosts' = hosts /\ catalog' = catalog
      BY <2>5, HostsWriters
    <3>3. ~InTransit(run[p], h) /\ ~ToBeOffered(run[p], h)
      BY <2>5, TransitCalls
    <3>4. Unlisted(h)' <=> Unlisted(h)
      BY <3>1 DEF Unlisted, ListedBy
    <3>5. QED
      BY <1>1, <1>3, <3>2, <3>3, <3>4, QuietAgrees
  <2>6. QED
    BY <2>1, <2>2, <2>3, <2>4, <2>5
<1>4. QED
  BY <1>2, <1>3

(* no step of a handler is a fault, *)
LEMMA WorkIsNoFault ==
    ASSUME NEW p \in Handlers, Work(p)
    PROVE  faults' = faults
<1> USE DEF ReadOnly, bounds
<1>1. CASE Begin(p) \/ Reject(p) \/ Return(p)
  BY <1>1 DEF Begin, Reject, Return
<1>2. CASE RunRegisterHost(p) \/ RunUnregisterHost(p) \/ RunUpdateHost(p)
  BY <1>2 DEF RunRegisterHost, RunUnregisterHost, RunUpdateHost, CheckHostName, GetForRegister,
              Register, GetForUnregister, Deregister, GetForUpdate, GetHost
<1>3. CASE RunService(p) \/ RunDependency(p) \/ RunPut(p)
  BY <1>3 DEF RunService, RunDependency, RunPut, CheckServiceName, ListServices, ScanService,
              PlanUnregister, GetForDependency, CheckPorts, GetToAppend, GetToRemove,
              GetForPut, GetHostsForPut, PlanUpdate
<1>4. CASE RunShared(p)
  BY <1>4 DEF RunShared, ReadHost, Stamp, PutHost, PutService, ProbeKey, DeleteTree
<1>5. QED
  BY <1>1, <1>2, <1>3, <1>4 DEF Work

(* and so does every step that is none. *)
LEMMA StepAgree ==
    ASSUME NEW owner, NEW home, Isolated(owner, home), Extends = {}, NoServiceRemoved,
           AgreeInv(owner, home), [Next]_vars
    PROVE  AgreeInv(owner, home)'
<1> TypeInv /\ RunType /\ CounterType
  BY TypeInvParts DEF AgreeInv, CurrentInv, ApartInv
<1>1. CurrentInv(owner, home) /\ CurrentInv(owner, home)'
  BY StepCurrent DEF AgreeInv
<1>2. NothingRemoved' /\ AllReady'
  BY StepKeepsServices, StepReady DEF AgreeInv
<1>3. ASSUME NEW p \in Handlers, Work(p), faults' = 0 PROVE HostsAgree(home)'
  <2>1. faults = 0
    BY <1>3, WorkIsNoFault
  <2>2. QED
    BY <1>1, <1>3, <2>1, WorkAgrees DEF AgreeInv
<1>4. ASSUME NEW p \in Handlers, NEW r \in Requests[p], Accept(p, r), faults' = 0
      PROVE  HostsAgree(home)'
  <2>1. /\ hosts' = hosts /\ catalog' = catalog /\ services' = services /\ faults' = faults
        /\ Continue(p, {r}) /\ run[p].pc = "idle"
    BY <1>4 DEF Accept, store
  <2>2. \A q \in Handlers : q # p => run'[q] = run[q]
    BY <2>1, ContinueOps
  <2>3. \A h \in Hosts : ~InTransit(run[p], h) /\ ~ToBeOffered(run[p], h)
    BY <2>1 DEF InTransit, ToBeOffered
  <2>4. ASSUME NEW h \in Hosts PROVE HostAgrees(home, h)'
    <3>1. HostAgrees(home, h) /\ home[h] \in Handlers
      BY <1>4, <2>1 DEF AgreeInv, HostsAgree, Isolated
    <3>2. Unlisted(h)' <=> Unlisted(h)
      BY <2>1 DEF Unlisted, ListedBy
    <3>3. home[h] # p => run'[home[h]] = run[home[h]]
      BY <2>2, <3>1
    <3>4. QED
      BY <2>1, <2>3, <3>1, <3>2, <3>3, QuietAgrees DEF InTransit, ToBeOffered
  <2>5. QED
    BY <2>4 DEF HostsAgree
<1>5. ASSUME Crash \/ \E p \in Handlers : CallFails(p) PROVE faults' # 0
  <2>1. faults' = faults + 1 /\ faults \in Nat
    BY <1>5 DEF Crash, CallFails, CounterType
  <2>2. QED
    BY <2>1
<1>6. ASSUME Tick \/ UNCHANGED vars, faults' = 0 PROVE HostsAgree(home)'
  <2>1. /\ hosts' = hosts /\ catalog' = catalog /\ services' = services /\ faults' = faults
        /\ run' = run
    BY <1>6 DEF Tick, vars, store, bounds
  <2>2. ASSUME NEW h \in Hosts PROVE HostAgrees(home, h)'
    <3>1. HostAgrees(home, h)
      BY <1>6, <2>1 DEF AgreeInv, HostsAgree
    <3>2. Unlisted(h)' <=> Unlisted(h)
      BY <2>1 DEF Unlisted, ListedBy
    <3>3. QED
      BY <2>1, <3>1, <3>2, QuietAgrees DEF InTransit, ToBeOffered
  <2>3. QED
    BY <2>2 DEF HostsAgree
<1>7. faults' = 0 => HostsAgree(home)'
  BY <1>3, <1>4, <1>5, <1>6 DEF Next
<1>8. QED
  BY <1>1, <1>2, <1>7 DEF AgreeInv

(* The stores agree at the start. *)
LEMMA InitAgree ==
    ASSUME NEW owner, NEW home, Isolated(owner, home), InitialHostsListed, Init
    PROVE  AgreeInv(owner, home)
<1>1. CurrentInv(owner, home)
  BY InitCurrent
<1>2. \A p \in Handlers : Pending(run[p]) = {}
  BY DEF Init, Idle, At, Pending
<1>3. NothingRemoved /\ AllReady
  BY <1>2 DEF NothingRemoved, AllReady, ReadyToRewrite
<1>4. ASSUME NEW h \in Hosts PROVE HostAgrees(home, h)
  <2>1. hosts[h] # None => ~Unlisted(h)
    BY DEF Init, InitialHostsListed, Unlisted, ListedBy
  <2>2. ASSUME Discovery, ~Unlisted(h) PROVE catalog[h] # None
    <3>1. hosts[h] # None
      BY <1>1, <2>2 DEF CurrentInv, ApartInv, StoreApart, HostsStored, Unlisted
    <3>2. InitHosts[h] \in HostAttr /\ catalog[h] = InitHosts[h].ingress.machine
      BY <2>2, <3>1, InventoryAssumption DEF Init
    <3>3. InitHosts[h].ingress.machine \in Machines
      BY <3>2 DEF HostAttr, Address
    <3>4. QED
      BY <3>2, <3>3, InventoryAssumption
  <2>3. QED
    BY <2>1, <2>2 DEF HostAgrees
<1>5. QED
  BY <1>1, <1>3, <1>4 DEF AgreeInv, HostsAgree

(* It is an invariant. *)
LEMMA AgreeInvariant ==
    ASSUME NEW CONSTANT owner, NEW CONSTANT home, Isolated(owner, home), Extends = {},
           InitialHostsListed, NoServiceRemoved
    PROVE  Spec => []AgreeInv(owner, home)
<1>1. Init => AgreeInv(owner, home)
  BY InitAgree
<1>2. AgreeInv(owner, home) /\ [Next]_vars => AgreeInv(owner, home)'
  BY StepAgree
<1>3. QED
  BY <1>1, <1>2, PTL DEF Spec

(* A host whose handler is not at work on it has a record only if a        *)
(* service lists it, and is in the catalog only if it has a record.        *)
LEMMA AtRestAgrees ==
    ASSUME NEW owner, NEW home, Isolated(owner, home), AgreeInv(owner, home), faults = 0,
           NEW h \in Hosts, run[home[h]].pc = "idle"
    PROVE  /\ hosts[h] # None <=> \E s \in Stored : h \in Listed(services[s])
           /\ Discovery => (hosts[h] # None <=> catalog[h] # None)
           /\ catalog[h] # None => hosts[h] # None
<1>1. HostAgrees(home, h)
  BY DEF AgreeInv, HostsAgree
<1>2. ~InTransit(run[home[h]], h) /\ ~ToBeOffered(run[home[h]], h)
  BY DEF InTransit, ToBeOffered
<1>3. ~Unlisted(h) <=> \E s \in Stored : h \in Listed(services[s])
  BY DEF Unlisted, ListedBy, Stored
<1>4. /\ ~Unlisted(h) => hosts[h] # None
      /\ catalog[h] # None => hosts[h] # None
  BY DEF AgreeInv, CurrentInv, ApartInv, StoreApart, HostsStored, CatalogStored, Unlisted
<1>5. QED
  BY <1>1, <1>2, <1>3, <1>4 DEF HostAgrees

(* With every service and every host left to one handler, no host named    *)
(* twice by a PUT, no name that is another with something appended and no  *)
(* request that removes a service, host records, host lists and catalog    *)
(* agree whenever no request is in progress and no call failed so far: no  *)
(* operation, and no PUT that was refused half way through its plan,       *)
(* leaves a host recorded that no service lists, or listed that the        *)
(* catalog does not offer.                                                 *)
THEOREM StoresAlwaysAgree ==
    ASSUME NEW CONSTANT owner, NEW CONSTANT home, Isolated(owner, home), Extends = {},
           InitialHostsListed, NoServiceRemoved
    PROVE  Spec => []StoresAgree
<1>1. AgreeInv(owner, home) => StoresAgree
  <2> SUFFICES ASSUME AgreeInv(owner, home), faults = 0, \A p \in Handlers : run[p].pc = "idle",
                      NEW h \in Hosts
               PROVE  /\ hosts[h] # None <=> \E s \in Stored : h \in Listed(services[s])
                      /\ Discovery => (hosts[h] # None <=> catalog[h] # None)
    BY DEF StoresAgree
  <2>1. run[home[h]].pc = "idle"
    BY DEF Isolated
  <2>2. QED
    BY <2>1, AtRestAgrees
<1>2. QED
  BY <1>1, AgreeInvariant, PTL

(* Where the stores agree, UnregisterHost leaves nothing of the host.      *)
LEMMA UnregisteredIsGone ==
    ASSUME NEW owner, NEW home, Isolated(owner, home), AppliedInv(owner, home),
           AgreeInv(owner, home), NEW p \in Handlers, reply[p] = "ok"
    PROVE  Achieved(request[p])
<1>1. /\ Brought(request[p]) /\ run[p].pc = "idle"
      /\ request[p] \in Requests[p]
  BY DEF AppliedInv, AllApplied, Applied, Progress
<1>2. ASSUME request[p].kind = "UnregisterHost", faults = 0
      PROVE  \/ Gone(request[p].host)
             \/ \E s \in Stored : request[p].host \in Listed(services[s])
  <2>1. PICK r : r = request[p]
    OBVIOUS
  <2>2. r \in Request /\ OwnHosts(home, p, r)
    BY <1>1, <2>1, InventoryAssumption DEF Isolated, HostsApart
  <2>3. r.host \in Hosts /\ home[r.host] = p
    BY <1>2, <2>1, <2>2, OpKind DEF OwnHosts, HostsOf, Op, UnregisterHostOp
  <2>4. QED
    BY <1>1, <1>2, <2>1, <2>3, AtRestAgrees DEF Gone
<1>3. QED
  BY <1>1, <1>2 DEF Achieved

(* If, besides, no PUT has dependencies where calls fail, every request    *)
(* answered "ok" has brought the store to the state it asks for, from      *)
(* whatever state an earlier request left, and no other handler undoes it; *)
(* UnregisterHost has removed record and catalog entry, too, unless there  *)
(* was a fault (IdempotentService, inventory.go:320, UnregisterHost, :222, *)
(* and the operations they call).                                          *)
THEOREM OkMeansAchieved ==
    ASSUME NEW CONSTANT owner, NEW CONSTANT home, Isolated(owner, home), Extends = {},
           NoDependencyDropped, InitialHostsListed, NoServiceRemoved
    PROVE  Spec => []AppliedWhenOk
<1>1. AppliedInv(owner, home) /\ AgreeInv(owner, home) => AppliedWhenOk
  BY UnregisteredIsGone DEF AppliedWhenOk
<1>2. QED
  BY <1>1, AppliedInvariant, AgreeInvariant, PTL

=============================================================================
