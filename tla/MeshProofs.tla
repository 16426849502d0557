----------------------------- MODULE MeshProofs -----------------------------
(***************************************************************************)
(* The whole server: what the version of a snapshot stands for.  The       *)
(* collector reads while handlers write, so a snapshot may mix what was    *)
(* stored at different times.                                              *)
(*                                                                         *)
(* As long as every service and every host is left to one handler,         *)
(* services refer only to services that do not change, every version is    *)
(* drawn in a millisecond of its own and nothing fails, an Envoy or the    *)
(* cache with the newest version of a node has the configuration the       *)
(* inventory describes.  The invariant says that snapshots mix only under  *)
(* a version that is no longer the newest (Newer, Fits).                   *)
(*                                                                         *)
(* Whatever fails, and though services do change that others refer to, an  *)
(* Envoy never goes back to an older version, as long as no service gives  *)
(* up a host or a dependency that changes.  The invariant says that the    *)
(* collector cannot make a snapshot older than what a node has (Within,    *)
(* Ahead).                                                                 *)
(*                                                                         *)
(* And under no hypothesis does the collector read what no snapshot can be *)
(* made of (Sound).                                                        *)
(***************************************************************************)
EXTENDS Mesh, InventoryAgreeProofs, WellFoundedInduction

-----------------------------------------------------------------------------
(* What handlers do to services that do not change. *)

Movable(o) == ~Fixed(o.service) /\ \A t \in References(o) : Fixed(t)

OpsMovable == \A p \in Handlers : \A o \in Pending(run[p]) : Movable(o)

RefersToFixed ==
    \A s \in Services : services[s] # None => \A t \in Refers(s) : Fixed(t)

(* Operation o is one of those a PUT r is divided into. *)
Planned(r, o) ==
    /\ r.kind = "Put" /\ o.service = r.service
    /\ \/ o.kind \in {"RegisterService", "UnregisterHost"}
       \/ o.kind = "AddDependency" /\ o.dep \in Elements(r.deps)
       \/ o.kind \in {"RegisterHost", "UpdateHost"} /\ o.host \in ParamNames(r)
       \/ o.kind = "PutParam" /\ o.record = ParamService(r)

(* Whatever a handler is to do after one of its steps it was to do before, *)
(* or it has divided a PUT.                                                *)
LEMMA WorkPending ==
    ASSUME TypeInv, NothingRemoved, NEW p \in Handlers, Work(p),
           NEW q \in Handlers, NEW o \in Pending(run'[q])
    PROVE  o \in Pending(run[q]) \/ \E r \in Pending(run[q]) : Planned(r, o)
<1> RunType
  BY TypeInvParts
<1>1. CASE run'[q] = run[q]
  BY <1>1
<1>2. CASE q = p /\ run'[p].todo \subseteq run[p].todo /\ run'[p].op \in {None, run[p].op}
  BY <1>2 DEF Pending
<1>3. ASSUME q = p, run[p].op \in Pending(run[p]), run'[p].op = None,
             \A x \in run'[p].todo : Planned(run[p].op, x)
      PROVE  \E r \in Pending(run[q]) : Planned(r, o)
  BY <1>3 DEF Pending
<1>4. q # p => run'[q] = run[q]
  BY OthersKept
<1>5. CASE Begin(p)
  <2>1. PICK x \in run[p].todo : run'[p].op = x /\ run'[p].todo = run[p].todo \ {x}
    BY <1>5, BeginOps
  <2>2. QED
    BY <1>1, <1>4, <2>1 DEF Pending
<1>6. CASE Reject(p) \/ Finish(p) \/ Fail(p)
  <2>1. run'[p].todo \subseteq run[p].todo /\ run'[p].op = None
    BY <1>6, EndOps DEF Reject
  <2>2. QED
    BY <1>1, <1>2, <1>4, <2>1
<1>7. CASE Calls(p)
  <2>1. CASE run'[p].todo = run[p].todo /\ run'[p].op = run[p].op
    BY <1>1, <1>2, <1>4, <2>1
  <2>2. QED
    BY <1>6, <1>7, <2>1, CallOps
<1>8. CASE Return(p)
  <2>1. run'[p] = Idle
    BY <1>8, GoOps DEF Return
  <2>2. Idle.todo = {} /\ Idle.op = None
    BY DEF Idle, At
  <2>3. QED
    BY <1>1, <1>2, <1>4, <2>1, <2>2
<1>9. CASE GetForPut(p) /\ Current(p) = None
  <2>1. /\ Continue(p, CreatePlan(run[p].op)) /\ run[p].op.kind = "Put"
        /\ run[p].pc = "get"
    BY <1>9 DEF GetForPut, In
  <2>2. \A x \in CreatePlan(run[p].op) : Planned(run[p].op, x)
    BY <2>1 DEF CreatePlan, Planned, Elements, ParamNames
  <2>3. QED
    BY <1>1, <1>3, <1>4, <2>1, <2>2, ContinueOps, PendingOps
<1>10. CASE GetForPut(p) /\ Current(p) # None
  <2>1. /\ Go(p, [run[p] EXCEPT !.pc = "getHosts", !.cur = Current(p)])
        /\ run[p].pc = "get"
    BY <1>10 DEF GetForPut, In, Read
  <2>2. run'[p].todo = run[p].todo /\ run'[p].op = run[p].op
    BY <2>1, GoCur
  <2>3. QED
    BY <1>1, <1>2, <1>4, <2>2
<1>11. CASE PlanUpdate(p)
  <2>1. /\ Continue(p, UpdatePlan(run[p].op, run[p].cur, run[p].found))
        /\ run[p].op.kind = "Put" /\ run[p].pc = "readHosts"
    BY <1>11 DEF PlanUpdate, In
  <2>2. \A x \in UpdatePlan(run[p].op, run[p].cur, run[p].found) : Planned(run[p].op, x)
    BY <2>1, UpdatePlanKinds DEF Planned
  <2>3. PICK plan : (\A x \in plan : Planned(run[p].op, x)) /\ Continue(p, plan)
    BY <2>1, <2>2
  <2>4. QED
    BY <1>1, <1>3, <1>4, <2>1, <2>3, ContinueOps, PendingOps
<1>12. CASE PlanUnregister(p)
  <2>1. run[p].pc = "scan" /\ run[p].op.kind = "UnregisterService"
    BY <1>12 DEF PlanUnregister, In
  <2>2. run[p].op \in Pending(run[p])
    BY <2>1, PendingOps
  <2>3. QED
    BY <2>1, <2>2 DEF NothingRemoved
<1>13. QED
  BY <1>5, <1>6, <1>7, <1>8, <1>9, <1>10, <1>11, <1>12, WorkCases DEF Plans

(* In any step of the inventory a handler may besides get a request. *)
LEMMA StepPending ==
    ASSUME TypeInv, NothingRemoved, [Next]_vars,
           NEW q \in Handlers, NEW o \in Pending(run'[q])
    PROVE  o \in Pending(run[q]) \cup Requests[q] \/ \E r \in Pending(run[q]) : Planned(r, o)
<1> RunType
  BY TypeInvParts
<1>1. ASSUME NEW p \in Handlers, NEW r \in Requests[p], Accept(p, r)
      PROVE  o \in Pending(run[q]) \cup Requests[q]
  <2>1. /\ run'[p].todo = {r} /\ run'[p].op = None
        /\ q # p => run'[q] = run[q]
    BY <1>1, ContinueOps DEF Accept
  <2>2. QED
    BY <2>1 DEF Pending
<1>2. ASSUME NEW p \in Handlers, CallFails(p) PROVE o \in Pending(run[q])
  <2>1. Finish(p) \/ Fail(p)
    BY <1>2 DEF CallFails
  <2>2. /\ q # p => run'[q] = run[q]
        /\ run'[p].todo \subseteq run[p].todo /\ run'[p].op = None
    BY <2>1, EndOps
  <2>3. QED
    BY <2>2 DEF Pending
<1>3. ~Crash
  <2>1. Crash => run'[q].todo = {} /\ run'[q].op = None
    BY DEF Crash, Idle, At
  <2>2. QED
    BY <2>1 DEF Pending
<1>4. CASE Tick \/ UNCHANGED vars
  BY <1>4 DEF Tick, vars
<1>5. QED
  BY <1>1, <1>2, <1>3, <1>4, WorkPending DEF Next

LEMMA StepMovable ==
    ASSUME TypeInv, NothingRemoved, OpsMovable, DependenciesFixed, [Next]_vars
    PROVE  OpsMovable'
<1> SUFFICES ASSUME NEW q \in Handlers, NEW o \in Pending(run'[q]) PROVE Movable(o)
  BY DEF OpsMovable
<1>1. ASSUME o \in Requests[q] PROVE Movable(o)
  BY <1>1 DEF DependenciesFixed, Movable, Fixed
<1>2. ASSUME NEW r \in Pending(run[q]), Planned(r, o) PROVE Movable(o)
  <2>1. Movable(r) /\ References(r) = {d.name : d \in Elements(r.deps)}
    BY <1>2 DEF OpsMovable, Planned, References
  <2>2. o.kind = "PutParam" => o.record.deps = Elements(r.deps)
    BY <1>2 DEF Planned, ParamService
  <2>3. \A t \in References(o) : t \in References(r)
    BY <1>2, <2>1, <2>2 DEF Planned, References
  <2>4. QED
    BY <1>2, <2>1, <2>3 DEF Planned, Movable
<1>3. QED
  BY <1>1, <1>2, StepPending DEF OpsMovable

-----------------------------------------------------------------------------
(* What a step of a handler writes: one record of a service, or of a host  *)
(* that no service lists, or that only its own service lists.              *)
LEMMA WorkWrites ==
    ASSUME TypeInv, NothingRemoved, NEW p \in Handlers, Work(p)
    PROVE  \/ services' = services /\ hosts' = hosts
           \/ PutService(p) /\ hosts' = hosts
           \/ PutHost(p) /\ services' = services
           \/ /\ In(p, {"UnregisterHost"}, "delete") /\ services' = services
              /\ hosts' = [h \in Hosts |-> IF Under(HostName(p), h) THEN None ELSE hosts[h]]
<1> RunType
  BY TypeInvParts
<1>1. ~In(p, {"DeleteService"}, "delete")
  <2> SUFFICES ASSUME In(p, {"DeleteService"}, "delete") PROVE FALSE
    OBVIOUS
  <2>1. run[p].op \in Pending(run[p])
    BY PendingOps DEF In
  <2>2. QED
    BY <2>1 DEF NothingRemoved, In
<1>2. services' = services \/ PutService(p)
  BY <1>1, ServicesWriters
<1>3. PutService(p) => hosts' = hosts
  BY DEF PutService
<1>4. CASE services' = services
  <2>1. Register(p) \/ Deregister(p) => hosts' = hosts
    BY DEF Register, Deregister
  <2>2. QED
    BY <1>4, <2>1, HostsWriters
<1>5. QED
  BY <1>2, <1>3, <1>4

(* Services that do not change do not. *)
LEMMA FixedKept ==
    ASSUME TypeInv, NothingRemoved, NEW p \in Handlers, Work(p),
           \A o \in Pending(run[p]) : ~Fixed(o.service)
    PROVE  \A s \in Services : Fixed(s) => services'[s] = services[s]
<1> RunType /\ StoreType
  BY TypeInvParts
<1>1. CASE PutService(p)
  <2>1. run[p].pc = "put"
    BY <1>1 DEF PutService
  <2>2. ~Fixed(Target(p)) /\ Target(p) \in Services
    BY <2>1, PendingOps, InHand DEF Target
  <2>3. QED
    BY <1>1, <2>2 DEF PutService, StoreType
<1>2. QED
  BY <1>1, WorkWrites

(* Every service goes on to refer to such services only. *)
LEMMA WorkReferences ==
    ASSUME NEW owner, NEW home, CurrentInv(owner, home), NothingRemoved, OpsMovable,
           RefersToFixed, NEW p \in Handlers, Work(p)
    PROVE  RefersToFixed'
<1> TypeInv /\ RunType
  BY TypeInvParts DEF CurrentInv, ApartInv
<1>1. CASE PutService(p)
  <2> DEFINE o == run[p].op
             t == run[p].op.service
  <2>1. /\ services'[t].deps = Made(o, services[t]).deps
        /\ \A s \in Services : s # t => services'[s] = services[s]
        /\ o \in Op /\ t \in Services /\ o.kind \in KindsAt("put")
        /\ o.kind \notin {"RegisterService", "PutParam"} =>
              services[t] # None /\ services[t] \in Service
    BY <1>1, PutMade
  <2>2. o \in Pending(run[p])
    BY <1>1, PendingOps DEF PutService
  <2>3. \A r \in References(o) : Fixed(r)
    BY <2>2 DEF OpsMovable, Movable
  <2>4. ASSUME NEW d \in Made(o, services[t]).deps PROVE Fixed(d.name)
    <3>1. o.kind \in {"RegisterHost", "UnregisterHost", "UpdateHost", "RemoveDependency"}
            => d \in services[t].deps
      BY <2>1, <2>4 DEF Made, AppendHost, RemoveFirstHost, RemoveDependent, Service
    <3>2. o.kind = "AddDependency" => d \in services[t].deps \/ d = o.dep
      BY <2>1, <2>4 DEF Made, AppendDependent, Service
    <3>3. o.kind = "PutParam" => d \in o.record.deps
      BY <2>4 DEF Made
    <3>4. o.kind # "RegisterService"
      BY <2>4 DEF Made, NewService
    <3>5. d \in services[t].deps /\ services[t] # None => Fixed(d.name)
      BY <2>1 DEF RefersToFixed, Refers
    <3>6. QED
      BY <2>1, <2>3, <3>1, <3>2, <3>3, <3>4, <3>5 DEF KindsAt, References
  <2>5. \A d \in services'[t].deps : Fixed(d.name)
    BY <2>1, <2>4
  <2> HIDE DEF t
  <2>6. QED
    BY <2>1, <2>5 DEF RefersToFixed, Refers
<1>2. CASE services' = services
  BY <1>2 DEF RefersToFixed, Refers
<1>3. QED
  BY <1>1, <1>2, WorkWrites

-----------------------------------------------------------------------------
(* A version drawn is newer than all that its write is to supersede: the   *)
(* versions of the handler's services and of those that do not change.     *)

Newest(owner, p) ==
    HoldsVersion(run[p]) =>
        \A t \in Services : services[t] # None /\ (owner[t] = p \/ Fixed(t))
                               => services[t].version < run[p].ver

AllNewest(owner) == \A p \in Handlers : Newest(owner, p)

LEMMA WorkNewest ==
    ASSUME NEW owner, TypeInv, NothingRemoved, OpsMovable, ServicesOwned(owner), Extends = {},
           AllNewest(owner), NEW p \in Handlers, Work(p), run[p].pc = "stamp" => VersionFresh
    PROVE  AllNewest(owner)'
<1>1. ASSUME NEW q \in Handlers, q # p PROVE Newest(owner, q)'
  <2>1. run'[q] = run[q]
    BY <1>1, OthersKept
  <2>2. \A t \in Services : owner[t] = q \/ Fixed(t) => services'[t] = services[t]
    BY <1>1, FixedKept, WritesOwnServices DEF OpsMovable, Movable
  <2>3. QED
    BY <2>1, <2>2 DEF AllNewest, Newest
<1>2. ASSUME HoldsVersion(run'[p])
      PROVE  \A t \in Services : services'[t] # None /\ (owner[t] = p \/ Fixed(t))
                               => services'[t].version < run'[p].ver
  <2>1. services' = services
    BY <1>2, VersionLabels
  <2>2. CASE Stamp(p) /\ run'[p].ver = clock
    <3>1. VersionFresh
      BY <2>2 DEF Stamp
    <3>2. QED
      BY <2>1, <2>2, <3>1 DEF VersionFresh, Stored
  <2>3. CASE HoldsVersion(run[p]) /\ run'[p].ver = run[p].ver
    BY <2>1, <2>3 DEF AllNewest, Newest
  <2>4. QED
    BY <1>2, <2>2, <2>3, VersionLabels
<1>3. Newest(owner, p)'
  BY <1>2 DEF Newest
<1>4. QED
  BY <1>1, <1>3 DEF AllNewest

(* Other steps draw no version and write nothing. *)
LEMMA EnvironmentNewest ==
    ASSUME NEW owner, TypeInv, AllNewest(owner),
           \/ \E p \in Handlers : \E r \in Requests[p] : Accept(p, r)
           \/ Tick
           \/ UNCHANGED vars
    PROVE  AllNewest(owner)'
<1> RunType
  BY TypeInvParts
<1>1. services' = services
  BY DEF Accept, Tick, vars, store
<1>2. ASSUME NEW q \in Handlers PROVE run'[q] = run[q] \/ ~HoldsVersion(run'[q])
  <2>1. ASSUME NEW p \in Handlers, NEW r \in Requests[p], Accept(p, r)
        PROVE  run'[q] = run[q] \/ ~HoldsVersion(run'[q])
    BY <2>1, ContinueOps DEF Accept, HoldsVersion
  <2>2. CASE Tick \/ UNCHANGED vars
    BY <2>2 DEF Tick, vars
  <2>3. QED
    BY <2>1, <2>2
<1>3. QED
  BY <1>1, <1>2 DEF AllNewest, Newest

-----------------------------------------------------------------------------
(* What a step may do to the store, as far as snapshots depend on it.      *)

(* No handler has written a host of the service and not yet its version. *)
Settled(s) ==
    \A p \in Handlers :
        ~(run[p].pc = "put" /\ run[p].op.kind = "UpdateHost" /\ run[p].op.service = s)

StoreMoves(owner) ==
    /\ \A s \in Services : services[s] # None => services'[s] # None
    /\ \A s \in Services : Fixed(s) => services'[s] = services[s]
    /\ \A s \in Services : services'[s] # services[s] =>
          /\ services'[s] # None
          /\ \A t \in Services : services[t] # None /\ (owner[t] = owner[s] \/ Fixed(t))
                => services[t].version < services'[s].version
    /\ \A s \in Services : services'[s] = services[s] /\ Settled(s)' => Settled(s)
    /\ \A s \in Services, h \in Hosts :
          ListedBy(s, h) /\ services'[s] = services[s] /\ (Fixed(s) \/ Settled(s)')
             => hosts'[h] = hosts[h]

(* The only call at label "put". *)
LEMMA PutCall ==
    ASSUME TypeInv, NEW p \in Handlers, Work(p), run[p].pc = "put"
    PROVE  PutService(p)
<1> USE DEF In
<1>1. ~Begin(p) /\ ~Reject(p) /\ ~Return(p)
  BY DEF Begin, Reject, Return
<1>2. ~RunRegisterHost(p) /\ ~RunUnregisterHost(p) /\ ~RunUpdateHost(p)
  BY DEF RunRegisterHost, RunUnregisterHost, RunUpdateHost, CheckHostName, GetForRegister,
         Register, GetForUnregister, Deregister, GetForUpdate, GetHost
<1>3. ~RunService(p) /\ ~RunDependency(p) /\ ~RunPut(p)
  BY DEF RunService, RunDependency, RunPut, CheckServiceName, ListServices, ScanService,
         PlanUnregister, GetForDependency, CheckPorts, GetToAppend, GetToRemove,
         GetForPut, GetHostsForPut, PlanUpdate
<1>4. RunShared(p) => PutService(p)
  BY DEF RunShared, ReadHost, Stamp, PutHost, ProbeKey, DeleteTree
<1>5. QED
  BY <1>1, <1>2, <1>3, <1>4 DEF Work

(* PutService stores a version newer than those it supersedes. *)
LEMMA PutNewer ==
    ASSUME NEW owner, NEW home, CurrentInv(owner, home), AllNewest(owner),
           NEW p \in Handlers, PutService(p)
    PROVE  /\ run[p].op.service \in Services /\ owner[run[p].op.service] = p
           /\ \A s \in Services : s # run[p].op.service => services'[s] = services[s]
           /\ services'[run[p].op.service] # None
           /\ \A t \in Services : services[t] # None /\ (owner[t] = p \/ Fixed(t))
                 => services[t].version < services'[run[p].op.service].version
<1> DEFINE u == run[p].op.service
<1>1. /\ u \in Services /\ services'[u] # None
      /\ \A s \in Services : s # u => services'[s] = services[s]
  BY PutMade
<1>2. run[p].pc = "put" /\ services' = [services EXCEPT ![u] = [run[p].cur EXCEPT !.version = run[p].ver]]
  BY DEF PutService, Target
<1>3. run[p].cur \in Service /\ StoreType /\ owner[u] = p
  BY <1>2, InHandCurrent, InHandApart DEF Control, HoldsService, Target, CurrentInv, ApartInv
<1>4. services'[u].version = run[p].ver
  BY <1>1, <1>2, <1>3 DEF StoreType, Service
<1>5. HoldsVersion(run[p])
  BY <1>2 DEF HoldsVersion
<1>6. QED
  BY <1>1, <1>3, <1>4, <1>5 DEF AllNewest, Newest

LEMMA WorkSettles ==
    ASSUME NEW owner, NEW home, CurrentInv(owner, home), AllNewest(owner),
           NEW p \in Handlers, Work(p), NEW s \in Services, services'[s] = services[s], Settled(s)'
    PROVE  Settled(s)
<1> TypeInv
  BY DEF CurrentInv, ApartInv
<1> SUFFICES ASSUME NEW q \in Handlers, run[q].pc = "put", run[q].op.kind = "UpdateHost",
                    run[q].op.service = s
             PROVE  FALSE
  BY DEF Settled
<1>1. q = p
  BY OthersKept DEF Settled
<1>2. PutService(p)
  BY <1>1, PutCall
<1>3. services[s] # None
  BY InHandCurrent DEF UpToDate, AttrCurrent, ListedBy
<1>4. services[s].version \in Nat /\ services[s].version < services[s].version
  BY <1>1, <1>2, <1>3, PutNewer, TypeInvParts DEF StoreType, Service
<1>5. QED
  BY <1>4

LEMMA WorkMoves ==
    ASSUME NEW owner, NEW home, Isolated(owner, home), Extends = {},
           CurrentInv(owner, home), NothingRemoved, OpsMovable, AllNewest(owner),
           NEW p \in Handlers, Work(p)
    PROVE  StoreMoves(owner)
<1> TypeInv /\ RunType /\ StoreType /\ StoreApart(owner, home)
  BY TypeInvParts DEF CurrentInv, ApartInv
<1>1. \A s \in Services : Fixed(s) => services'[s] = services[s]
  BY FixedKept DEF OpsMovable, Movable
<1>2. \A s \in Services : services'[s] # services[s] =>
          /\ services'[s] # None
          /\ \A t \in Services : services[t] # None /\ (owner[t] = owner[s] \/ Fixed(t))
                => services[t].version < services'[s].version
  <2>1. CASE PutService(p)
    BY <2>1, PutNewer
  <2>2. QED
    BY <2>1, WorkWrites
<1>3. \A s \in Services : services'[s] = services[s] /\ Settled(s)' => Settled(s)
  BY WorkSettles
<1>4. ASSUME NEW s \in Services, NEW h \in Hosts, ListedBy(s, h),
             Fixed(s) \/ Settled(s)'
      PROVE  hosts'[h] = hosts[h]
  <2>1. hosts[h] # None
    BY <1>4 DEF StoreApart, HostsStored
  <2>2. CASE PutHost(p)
    <3>1. /\ run[p].pc = "putHost" /\ run[p].op.kind \in {"RegisterHost", "UpdateHost"}
          /\ hosts' = [hosts EXCEPT ![HostName(p)] = run[p].attr]
          /\ Go(p, [run[p] EXCEPT !.pc = IF run[p].op.kind = "RegisterHost" THEN "stamp" ELSE "put"])
      BY <2>2 DEF PutHost, In
    <3>2. Fresh(run[p]) /\ UpToDate(run[p]) /\ Target(p) \in Services
      BY <3>1, InHandCurrent
    <3>3. CASE run[p].op.kind = "RegisterHost"
      <4>1. hosts[HostName(p)] = None
        BY <3>1, <3>2, <3>3 DEF Fresh, FreshRegisterHost, HostName
      <4>2. QED
        BY <2>1, <3>1, <4>1 DEF StoreType
    <3>4. CASE run[p].op.kind = "UpdateHost"
      <4>1. ListedBy(Target(p), HostName(p))
        BY <3>1, <3>2, <3>4 DEF UpToDate, AttrCurrent, Target, HostName
      <4>2. h = HostName(p) => s = Target(p)
        BY <1>4, <3>2, <4>1 DEF StoreApart, ListedApart
      <4>3. ~Fixed(Target(p))
        BY <3>1, PendingOps DEF OpsMovable, Movable, Target
      <4>4. run'[p].pc = "put" /\ run'[p].op = run[p].op
        BY <3>1, <3>4, GoPc
      <4>5. s = Target(p) => ~Settled(s)'
        BY <3>4, <4>4 DEF Settled, Target
      <4>6. h # HostName(p)
        BY <1>4, <4>2, <4>3, <4>5
      <4>7. QED
        BY <3>1, <4>6 DEF StoreType
    <3>5. QED
      BY <3>1, <3>3, <3>4
  <2>3. CASE /\ In(p, {"UnregisterHost"}, "delete")
             /\ hosts' = [x \in Hosts |-> IF Under(HostName(p), x) THEN None ELSE hosts[x]]
    <3>1. Unlisted(HostName(p))
      BY <2>3, InHandCurrent DEF In, Fresh, FreshUnregisterHost, HostName
    <3>2. h # HostName(p)
      BY <1>4, <3>1 DEF Unlisted
    <3>3. QED
      BY <2>3, <3>2 DEF Under
  <2>4. QED
    BY <2>2, <2>3, WorkWrites
<1>5. QED
  BY <1>1, <1>2, <1>3, <1>4 DEF StoreMoves

LEMMA EnvironmentMoves ==
    ASSUME NEW owner, TypeInv,
           \/ \E p \in Handlers : \E r \in Requests[p] : Accept(p, r)
           \/ Tick
           \/ UNCHANGED vars
    PROVE  StoreMoves(owner)
<1> RunType
  BY TypeInvParts
<1>1. services' = services /\ hosts' = hosts
  BY DEF Accept, Tick, vars, store
<1>2. ASSUME NEW q \in Handlers PROVE run'[q] = run[q] \/ run[q].pc = "idle"
  <2>1. ASSUME NEW p \in Handlers, NEW r \in Requests[p], Accept(p, r)
        PROVE  run'[q] = run[q] \/ run[q].pc = "idle"
    BY <2>1, ContinueOps DEF Accept
  <2>2. CASE Tick \/ UNCHANGED vars
    BY <2>2 DEF Tick, vars
  <2>3. QED
    BY <2>1, <2>2
<1>3. \A s \in Services : Settled(s)' => Settled(s)
  BY <1>2 DEF Settled
<1>4. QED
  BY <1>1, <1>3 DEF StoreMoves

-----------------------------------------------------------------------------
(* The invariant of the handlers: what is proved of them elsewhere, and    *)
(* the above.                                                              *)

HandlersInv(owner, home) ==
    /\ CurrentInv(owner, home)
    /\ VersionInv(owner)
    /\ ValidInv
    /\ NothingRemoved
    /\ OpsMovable
    /\ RefersToFixed
    /\ AllNewest(owner)

LEMMA InitHandlers ==
    ASSUME NEW owner, NEW home, Isolated(owner, home), InitialVersionsPast, DependenciesFixed, Init
    PROVE  HandlersInv(owner, home)
<1>1. CurrentInv(owner, home) /\ VersionInv(owner) /\ ValidInv
  BY InitCurrent, InitVersions, InitValid
<1>2. \A p \in Handlers : run[p].pc = "idle" /\ run[p].todo = {} /\ run[p].op = None
  BY DEF Init, Idle, At
<1>3. NothingRemoved /\ OpsMovable /\ AllNewest(owner)
  BY <1>2 DEF NothingRemoved, OpsMovable, Pending, AllNewest, Newest, HoldsVersion
<1>4. RefersToFixed
  BY DEF Init, DependenciesFixed, RefersToFixed, Refers
<1>5. QED
  BY <1>1, <1>3, <1>4 DEF HandlersInv

(* A step of the inventory in which nothing fails. *)
Undisturbed ==
    \/ \E p \in Handlers : Work(p) /\ (run[p].pc = "stamp" => VersionFresh)
    \/ \E p \in Handlers : \E r \in Requests[p] : Accept(p, r)
    \/ Tick
    \/ UNCHANGED vars

(* It keeps the invariant, and moves the store as said. *)
LEMMA StepHandlers ==
    ASSUME NEW owner, NEW home, Isolated(owner, home), Extends = {}, NoServiceRemoved,
           DependenciesFixed, HandlersInv(owner, home), Undisturbed
    PROVE  HandlersInv(owner, home)' /\ StoreMoves(owner)
<1> USE DEF HandlersInv
<1> TypeInv /\ ServicesOwned(owner)
  BY DEF CurrentInv, ApartInv
<1> [Next]_vars
  BY DEF Undisturbed, Next
<1>1. CurrentInv(owner, home)' /\ VersionInv(owner)' /\ ValidInv'
  BY StepCurrent, StepVersions, StepValid DEF Isolated
<1>2. NothingRemoved' /\ OpsMovable'
  BY StepKeepsServices, StepMovable
<1>3. ASSUME NEW p \in Handlers, Work(p), run[p].pc = "stamp" => VersionFresh
      PROVE  RefersToFixed' /\ AllNewest(owner)' /\ StoreMoves(owner)
  BY <1>3, WorkReferences, WorkNewest, WorkMoves
<1>4. CASE \/ \E p \in Handlers : \E r \in Requests[p] : Accept(p, r)
           \/ Tick
           \/ UNCHANGED vars
  <2>1. services' = services
    BY <1>4 DEF Accept, Tick, vars, store
  <2>2. RefersToFixed'
    BY <2>1 DEF RefersToFixed, Refers
  <2>3. QED
    BY <1>1, <1>2, <1>4, <2>2, EnvironmentNewest, EnvironmentMoves
<1>5. QED
  BY <1>1, <1>2, <1>3, <1>4 DEF Undisturbed

-----------------------------------------------------------------------------
(* Snapshots, and what the collector holds. *)

ResourceName == {X!IngressCluster} \cup {X!EgressCluster(t) : t \in Services}

Snapshot == [version   : Nat,
             clusters  : SUBSET ResourceName,
             endpoints : SUBSET [cluster : ResourceName, addresses : SUBSET Address],
             routes    : SUBSET ResourceName,
             listeners : SUBSET [cluster : ResourceName, address : Address,
                                 protocol : AnyProtocol]]

DependencyRead == [name : Services, service : Service, hosts : SUBSET NamedHost]

CollectorState == [pc    : {"asleep", "next", "deps", "depHosts", "hosts", "set"},
                   todo  : SUBSET Services,
                   name  : Services \cup {None},
                   svc   : Service \cup {None},
                   deps  : SUBSET Dependency,
                   got   : SUBSET DependencyRead,
                   dep   : Services \cup {None},
                   rest  : Seq(Hosts),
                   found : SUBSET NamedHost,
                   out   : SUBSET (Hosts \X Snapshot)]

(* The version of service s is newer than v, and than that of every        *)
(* service that does not change.                                           *)
Newer(s, v) ==
    /\ services[s] # None /\ v < services[s].version
    /\ \A t \in Services : services[t] # None /\ Fixed(t)
                              => services[t].version < services[s].version

(* A snapshot of node h is no newer than some service that node can depend *)
(* on, ...                                                                 *)
Bound(owner, home, h, snap) ==
    \E t \in Services : /\ services[t] # None /\ (owner[t] = home[h] \/ Fixed(t))
                        /\ snap.version <= services[t].version

(* ... and older than the service of the node, or its configuration.       *)
Fits(h, snap) ==
    \A s \in Services : ListedBy(s, h) =>
        \/ snap.version < services[s].version
        \/ Settled(s) /\ Meshed(s) /\ snap # None => HasConfig(snap, s, h)

SnapshotOK(owner, home, h, snap) == Bound(owner, home, h, snap) /\ Fits(h, snap)

(* The records of the hosts among some that have one. *)
RecordsOf(names) == {[name |-> x, attr |-> hosts[x]] : x \in {y \in names : hosts[y] # None}}

(* A dependency the collector has read is as it was read. *)
ReadRight(g) ==
    /\ Fixed(g.name) /\ services[g.name] # None
    /\ g.service = services[g.name]
    /\ g.hosts = RecordsOf(Listed(services[g.name]))

(* The service the collector has in hand is as it was read, or has a newer *)
(* version by now.                                                         *)
ServiceInHand(c) ==
    /\ c.name \in Services /\ c.svc \in Service /\ services[c.name] # None
    /\ ValidRecord(c.svc)
    /\ \A d \in c.svc.deps : Fixed(d.name)
    /\ c.svc.version <= services[c.name].version
    /\ c.svc = services[c.name] \/ Newer(c.name, c.svc.version)

DependenciesInHand(c) ==
    /\ c.deps \subseteq c.svc.deps
    /\ \A g \in c.got : ReadRight(g)
    /\ {d.name : d \in c.svc.deps}
          = {d.name : d \in c.deps} \cup {g.name : g \in c.got}
            \cup (IF c.pc = "depHosts" THEN {c.dep} ELSE {})

DependencyHosts(c) ==
    /\ c.dep \in Services /\ Fixed(c.dep) /\ services[c.dep] # None
    /\ Elements(c.rest) \subseteq Listed(services[c.dep])
    /\ c.found \cup RecordsOf(Elements(c.rest)) = RecordsOf(Listed(services[c.dep]))

(* The hosts it reads are or were hosts of the service; should one belong  *)
(* to another service by now, that one has a newer version.                *)
HostsInHand(owner, home, c) ==
    /\ c.deps = {}
    /\ \A x \in Elements(c.rest) \cup {f.name : f \in c.found} :
          /\ home[x] = owner[c.name]
          /\ \A s \in Services : s # c.name /\ ListedBy(s, x) => Newer(s, c.svc.version)
    /\ \A f \in c.found :
          c.svc = services[c.name] /\ ListedBy(c.name, f.name) /\ Settled(c.name)
             => hosts[f.name] = f.attr

Collector(owner, home, c) ==
    /\ c \in CollectorState
    /\ c.pc \in {"deps", "depHosts", "hosts"} => ServiceInHand(c) /\ DependenciesInHand(c)
    /\ c.pc = "depHosts" => DependencyHosts(c)
    /\ c.pc = "hosts" => HostsInHand(owner, home, c)
    /\ \A x \in c.out : SnapshotOK(owner, home, x[1], x[2])

CacheType ==
    /\ cache \in [Hosts -> Snapshot \cup {None}]
    /\ envoy \in [Hosts -> Snapshot \cup {None}]
    /\ flight \in [Hosts -> Snapshot \cup {None}]
    /\ watching \in [Hosts -> BOOLEAN]

SnapshotsOK(owner, home) ==
    \A h \in Hosts : \A snap \in {cache[h], envoy[h], flight[h]} :
        snap # None => SnapshotOK(owner, home, h, snap)

MeshInv(owner, home) ==
    /\ HandlersInv(owner, home)
    /\ \A c : c = col => Collector(owner, home, c)
    /\ CacheType
    /\ SnapshotsOK(owner, home)

-----------------------------------------------------------------------------
(* Handlers leave all this true. *)

LEMMA VersionNat ==
    ASSUME StoreType, NEW s \in Services, services[s] # None
    PROVE  services[s] \in Service /\ services[s].version \in Nat
  BY DEF StoreType, Service

LEMMA NewerMoves ==
    ASSUME NEW owner, StoreType, StoreType', StoreMoves(owner),
           NEW s \in Services, NEW v \in Nat, Newer(s, v)
    PROVE  Newer(s, v)'
<1>1. services[s].version \in Nat
  BY VersionNat DEF Newer
<1>2. services'[s] # None /\ services'[s].version \in Nat
  BY DEF StoreMoves, Newer, StoreType, Service
<1>3. \A t \in Services : Fixed(t) => services'[t] = services[t]
  BY DEF StoreMoves
<1>4. CASE services'[s] = services[s]
  BY <1>2, <1>3, <1>4 DEF Newer
<1>5. CASE services'[s] # services[s]
  <2>1. services[s].version < services'[s].version
    BY <1>5 DEF StoreMoves, Newer
  <2>2. \A t \in Services : services[t] # None /\ Fixed(t)
                              => services[t].version < services'[s].version
    BY <1>5 DEF StoreMoves
  <2>3. v < services'[s].version
    BY <1>1, <1>2, <2>1 DEF Newer
  <2>4. QED
    BY <1>2, <1>3, <2>2, <2>3 DEF Newer
<1>6. QED
  BY <1>4, <1>5

(* A version superseded by the newest of a service that a step writes. *)
LEMMA WrittenNewer ==
    ASSUME NEW owner, StoreType, StoreType', StoreMoves(owner), NEW s \in Services,
           services'[s] # services[s], NEW t \in Services, services[t] # None,
           owner[t] = owner[s], NEW v \in Nat, v <= services[t].version
    PROVE  Newer(s, v)'
<1>1. services[t].version \in Nat
  BY VersionNat
<1>2. services'[s] # None /\ services'[s].version \in Nat
  BY DEF StoreMoves, StoreType, Service
<1>3. services[t].version < services'[s].version
  BY DEF StoreMoves
<1>4. \A u \in Services : services[u] # None /\ Fixed(u)
                              => services[u].version < services'[s].version
  BY DEF StoreMoves
<1>5. \A u \in Services : Fixed(u) => services'[u] = services[u]
  BY DEF StoreMoves
<1>6. v < services'[s].version
  BY <1>1, <1>2, <1>3
<1>7. QED
  BY <1>2, <1>4, <1>5, <1>6 DEF Newer

LEMMA ConfigMoves ==
    ASSUME NEW owner, StoreType, RefersToFixed, StoreMoves(owner),
           NEW s \in Services, NEW h \in Hosts, ListedBy(s, h), services'[s] = services[s],
           Settled(s)', Meshed(s)', NEW snap, snap # None,
           Settled(s) /\ Meshed(s) => HasConfig(snap, s, h)
    PROVE  HasConfig(snap, s, h)'
<1>1. services[s] # None /\ services[s] \in Service
  BY VersionNat DEF ListedBy
<1>2. hosts'[h] = hosts[h] /\ Settled(s)
  BY DEF StoreMoves
<1>3. Refers(s)' = Refers(s) /\ \A d \in services[s].deps : d.name \in Refers(s)
  BY DEF Refers
<1>4. ASSUME NEW t \in Refers(s)
      PROVE  t \in Services /\ Fixed(t) /\ services'[t] = services[t] /\ services[t] # None
  <2>1. t \in Services
    BY <1>1 DEF Refers, Service, Dependency
  <2>2. Fixed(t)
    BY <1>1 DEF RefersToFixed
  <2>3. services'[t] # None
    BY <1>3 DEF Meshed, Stored
  <2>4. QED
    BY <2>1, <2>2, <2>3 DEF StoreMoves
<1>5. Meshed(s)
  BY <1>1, <1>4 DEF Meshed, Stored
<1>6. HasConfig(snap, s, h)
  BY <1>2, <1>5
<1>7. ASSUME NEW t \in Refers(s) PROVE IngressOf(t)' = IngressOf(t)
  <2>1. Listed(services'[t]) = Listed(services[t]) /\ Listed(services[t]) \subseteq Hosts
    BY <1>4, VersionNat DEF Listed, Service
  <2>2. \A x \in Listed(services[t]) : hosts'[x] = hosts[x]
    BY <1>4, <2>1 DEF StoreMoves, ListedBy
  <2>3. QED
    BY <2>1, <2>2 DEF IngressOf
<1>8. snap.endpoints =
          {X!Endpoint(X!IngressCluster, {hosts'[h].substance})}
          \cup {X!Endpoint(X!EgressCluster(t), IngressOf(t)') : t \in Refers(s)'}
  <2>1. {X!Endpoint(X!EgressCluster(t), IngressOf(t)') : t \in Refers(s)}
          = {X!Endpoint(X!EgressCluster(t), IngressOf(t)) : t \in Refers(s)}
    BY <1>7
  <2>2. QED
    BY <1>2, <1>3, <1>6, <2>1 DEF HasConfig
<1>9. snap.listeners =
          {X!Listener(X!IngressCluster, hosts'[h].ingress, services'[s].protocol)}
          \cup {X!Listener(X!EgressCluster(d.name),
                           [machine |-> hosts'[h].egress, port |-> d.port],
                           services'[d.name].protocol) : d \in services'[s].deps}
  <2>1. \A d \in services[s].deps : services'[d.name] = services[d.name]
    BY <1>3, <1>4
  <2>2. QED
    BY <1>2, <1>6, <2>1 DEF HasConfig
<1>10. QED
  BY <1>8, <1>9 DEF HasConfig

LEMMA SnapshotMoves ==
    ASSUME NEW owner, NEW home, StoreType, StoreType', RefersToFixed, StoreMoves(owner),
           HostsStored(owner, home)', NEW h \in Hosts, NEW snap, snap.version \in Nat,
           SnapshotOK(owner, home, h, snap)
    PROVE  SnapshotOK(owner, home, h, snap)'
<1>1. PICK t \in Services : /\ services[t] # None /\ (owner[t] = home[h] \/ Fixed(t))
                            /\ snap.version <= services[t].version
  BY DEF SnapshotOK, Bound
<1>2. services[t].version \in Nat /\ services'[t] # None /\ services'[t].version \in Nat
  BY <1>1, VersionNat DEF StoreMoves, StoreType, Service
<1>3. services[t].version <= services'[t].version
  BY <1>1, <1>2 DEF StoreMoves
<1>4. snap.version <= services'[t].version
  BY <1>1, <1>2, <1>3
<1>5. Bound(owner, home, h, snap)'
  BY <1>1, <1>2, <1>4 DEF Bound
<1>6. ASSUME NEW s \in Services, ListedBy(s, h)'
      PROVE  \/ snap.version < services'[s].version
             \/ Settled(s)' /\ Meshed(s)' /\ snap # None => HasConfig(snap, s, h)'
  <2>1. home[h] = owner[s]
    BY <1>6 DEF HostsStored
  <2>2. CASE services'[s] = services[s]
    <3>1. ListedBy(s, h)
      BY <1>6, <2>2 DEF ListedBy
    <3>2. \/ snap.version < services[s].version
          \/ Settled(s) /\ Meshed(s) /\ snap # None => HasConfig(snap, s, h)
      BY <3>1 DEF SnapshotOK, Fits
    <3>3. QED
      BY <2>2, <3>1, <3>2, ConfigMoves
  <2>3. CASE services'[s] # services[s]
    <3>1. services[t].version < services'[s].version
      BY <1>1, <2>1, <2>3 DEF StoreMoves
    <3>2. services'[s].version \in Nat
      BY <2>3 DEF StoreMoves, StoreType, Service
    <3>3. QED
      BY <1>1, <1>2, <3>1, <3>2
  <2>4. QED
    BY <2>2, <2>3
<1>7. Fits(h, snap)'
  BY <1>6 DEF Fits
<1>8. QED
  BY <1>5, <1>7 DEF SnapshotOK

(* What a service that does not change consists of stays as it is. *)
LEMMA FixedHosts ==
    ASSUME NEW owner, StoreType, StoreMoves(owner), NEW t \in Services, Fixed(t),
           services[t] # None, NEW names, names \subseteq Listed(services[t])
    PROVE  /\ services'[t] = services[t]
           /\ RecordsOf(names)' = RecordsOf(names)
<1>1. services'[t] = services[t]
  BY DEF StoreMoves
<1>2. Listed(services[t]) \subseteq Hosts
  BY VersionNat DEF Listed, Service
<1>3. \A x \in names : hosts'[x] = hosts[x]
  BY <1>1, <1>2 DEF StoreMoves, ListedBy
<1>4. QED
  BY <1>1, <1>3 DEF RecordsOf

LEMMA ReadRightMoves ==
    ASSUME NEW owner, StoreType, StoreMoves(owner), NEW g, g.name \in Services, ReadRight(g)
    PROVE  ReadRight(g)'
<1>1. /\ services'[g.name] = services[g.name]
      /\ RecordsOf(Listed(services[g.name]))' = RecordsOf(Listed(services[g.name]))
  BY FixedHosts DEF ReadRight
<1>2. QED
  BY <1>1 DEF ReadRight, RecordsOf

LEMMA ServiceInHandMoves ==
    ASSUME NEW owner, StoreType, StoreType', StoreMoves(owner), NEW c, ServiceInHand(c)
    PROVE  ServiceInHand(c)'
<1>1. /\ c.name \in Services /\ services[c.name] # None /\ services[c.name].version \in Nat
      /\ c.svc.version \in Nat /\ c.svc.version <= services[c.name].version
  BY VersionNat DEF ServiceInHand, Service
<1>2. services'[c.name] # None /\ services'[c.name].version \in Nat
  BY <1>1 DEF StoreMoves, StoreType, Service
<1>3. services[c.name].version <= services'[c.name].version
  BY <1>1, <1>2 DEF StoreMoves
<1>4. c.svc.version <= services'[c.name].version
  BY <1>1, <1>2, <1>3
<1>5. c.svc = services'[c.name] \/ Newer(c.name, c.svc.version)'
  <2>1. CASE services'[c.name] = services[c.name]
    BY <1>1, <2>1, NewerMoves DEF ServiceInHand
  <2>2. CASE services'[c.name] # services[c.name]
    BY <1>1, <2>2, WrittenNewer
  <2>3. QED
    BY <2>1, <2>2
<1>6. QED
  BY <1>1, <1>2, <1>4, <1>5 DEF ServiceInHand

LEMMA HostsInHandMoves ==
    ASSUME NEW owner, NEW home, StoreType, StoreType', StoreMoves(owner),
           HostsStored(owner, home)', NEW c, c \in CollectorState,
           ServiceInHand(c), HostsInHand(owner, home, c)
    PROVE  HostsInHand(owner, home, c)'
<1>1. /\ c.name \in Services /\ services[c.name] # None /\ services[c.name].version \in Nat
      /\ c.svc.version \in Nat /\ c.svc.version <= services[c.name].version
  BY VersionNat DEF ServiceInHand, Service
<1>2. Elements(c.rest) \cup {f.name : f \in c.found} \subseteq Hosts
  BY DEF CollectorState, Elements, NamedHost
<1>3. ASSUME NEW x \in Elements(c.rest) \cup {f.name : f \in c.found},
             NEW s \in Services, s # c.name, ListedBy(s, x)'
      PROVE  Newer(s, c.svc.version)'
  <2>1. CASE services'[s] = services[s]
    <3>1. ListedBy(s, x)
      BY <1>3, <2>1 DEF ListedBy
    <3>2. Newer(s, c.svc.version)
      BY <1>3, <3>1 DEF HostsInHand
    <3>3. QED
      BY <1>1, <3>2, NewerMoves
  <2>2. CASE services'[s] # services[s]
    <3>1. owner[c.name] = owner[s]
      BY <1>2, <1>3 DEF HostsInHand, HostsStored
    <3>2. QED
      BY <1>1, <2>2, <3>1, WrittenNewer
  <2>3. QED
    BY <2>1, <2>2
<1>4. ASSUME NEW f \in c.found, c.svc = services'[c.name], ListedBy(c.name, f.name)',
             Settled(c.name)'
      PROVE  hosts'[f.name] = f.attr
  <2>1. services'[c.name] = services[c.name]
    <3>1. services'[c.name] # services[c.name] => services[c.name].version < services'[c.name].version
      BY <1>1 DEF StoreMoves
    <3>2. QED
      BY <1>1, <1>4, <3>1
  <2>2. ListedBy(c.name, f.name) /\ Settled(c.name)
    BY <1>1, <1>4, <2>1 DEF StoreMoves, ListedBy
  <2>3. hosts'[f.name] = hosts[f.name]
    BY <1>1, <1>2, <1>4, <2>1, <2>2 DEF StoreMoves
  <2>4. QED
    BY <1>4, <2>1, <2>2, <2>3 DEF HostsInHand
<1>5. QED
  BY <1>3, <1>4 DEF HostsInHand

LEMMA CollectorMoves ==
    ASSUME NEW owner, NEW home, StoreType, StoreType', RefersToFixed, StoreMoves(owner),
           HostsStored(owner, home)', NEW c, Collector(owner, home, c)
    PROVE  Collector(owner, home, c)'
<1> c \in CollectorState
  BY DEF Collector
<1>1. c.pc \in {"deps", "depHosts", "hosts"} => ServiceInHand(c)' /\ DependenciesInHand(c)'
  <2>1. c.pc \in {"deps", "depHosts", "hosts"} => ServiceInHand(c)'
    BY ServiceInHandMoves DEF Collector
  <2>2. \A g \in c.got : g.name \in Services
    BY DEF CollectorState, DependencyRead
  <2>3. \A g \in c.got : ReadRight(g) => ReadRight(g)'
    BY <2>2, ReadRightMoves
  <2>4. DependenciesInHand(c) => DependenciesInHand(c)'
    BY <2>3 DEF DependenciesInHand
  <2>5. QED
    BY <2>1, <2>4 DEF Collector
<1>2. c.pc = "depHosts" => DependencyHosts(c)'
  <2> SUFFICES ASSUME c.pc = "depHosts" PROVE DependencyHosts(c)'
    OBVIOUS
  <2>1. DependencyHosts(c)
    BY DEF Collector
  <2>2. /\ services'[c.dep] = services[c.dep]
        /\ RecordsOf(Listed(services[c.dep]))' = RecordsOf(Listed(services[c.dep]))
        /\ RecordsOf(Elements(c.rest))' = RecordsOf(Elements(c.rest))
    BY <2>1, FixedHosts DEF DependencyHosts
  <2>3. QED
    BY <2>1, <2>2 DEF DependencyHosts, RecordsOf
<1>3. c.pc = "hosts" => HostsInHand(owner, home, c)'
  BY HostsInHandMoves DEF Collector
<1>4. ASSUME NEW x \in c.out PROVE SnapshotOK(owner, home, x[1], x[2])'
  <2>1. x[1] \in Hosts /\ x[2].version \in Nat
    BY <1>4 DEF CollectorState, Snapshot
  <2>2. QED
    BY <1>4, <2>1, SnapshotMoves DEF Collector
<1>5. QED
  BY <1>1, <1>2, <1>3, <1>4 DEF Collector

-----------------------------------------------------------------------------
(* What the collector finds whenever it reads. *)
Readable(owner, home) ==
    StoreType /\ RefersToFixed /\ StoreApart(owner, home) /\ StoredValid /\ VersionsPast

LEMMA VisitingOK ==
    ASSUME NEW owner, NEW home, NEW label \in {"asleep", "next"}, NEW names \in SUBSET Services
    PROVE  Collector(owner, home, X!Visiting(label, names))
<1> DEFINE c == X!Visiting(label, names)
<1>1. /\ c.pc = label /\ c.out = {}
      /\ c \in CollectorState
  BY DEF X!Visiting, CollectorState
<1> HIDE DEF c
<1>2. Collector(owner, home, c)
  BY <1>1 DEF Collector
<1>3. QED
  BY <1>2 DEF c

LEMMA ReadServiceOK ==
    ASSUME NEW owner, NEW home, Readable(owner, home), Collector(owner, home, col), X!ReadService
    PROVE  Collector(owner, home, col')
<1>1. col \in CollectorState
  BY DEF Collector
<1>2. PICK s \in col.todo :
          \/ services[s] = None /\ col' = X!Visiting("next", col.todo \ {s})
          \/ /\ services[s] # None
             /\ col' = [X!Visiting("deps", col.todo \ {s}) EXCEPT
                          !.name = s, !.svc = services[s], !.deps = services[s].deps]
  BY DEF X!ReadService
<1>3. s \in Services /\ col.todo \ {s} \in SUBSET Services
  BY <1>1, <1>2 DEF CollectorState
<1>4. CASE col' = X!Visiting("next", col.todo \ {s})
  BY <1>3, <1>4, VisitingOK
<1>5. CASE /\ services[s] # None
           /\ col' = [X!Visiting("deps", col.todo \ {s}) EXCEPT
                        !.name = s, !.svc = services[s], !.deps = services[s].deps]
  <2>1. services[s] \in Service /\ services[s].deps \subseteq Dependency
        /\ services[s].version \in Nat
    BY <1>3, <1>5, VersionNat DEF Readable, Service
  <2>2. /\ col'.pc = "deps" /\ col'.name = s /\ col'.svc = services[s]
        /\ col'.deps = services[s].deps /\ col'.got = {} /\ col'.out = {}
        /\ col' \in CollectorState
    <3> DEFINE v == X!Visiting("deps", col.todo \ {s})
    <3>1. v \in CollectorState /\ v.pc = "deps" /\ v.got = {} /\ v.out = {}
      BY <1>3 DEF X!Visiting, CollectorState
    <3>2. col' = [v EXCEPT !.name = s, !.svc = services[s], !.deps = services[s].deps]
      BY <1>5
    <3> HIDE DEF v
    <3>3. QED
      BY <1>3, <2>1, <3>1, <3>2 DEF CollectorState
  <2>3. \A d \in services[s].deps : Fixed(d.name)
    BY <1>3, <1>5 DEF Readable, RefersToFixed, Refers
  <2>4. ValidRecord(services[s])
    BY <1>3, <1>5 DEF Readable, StoredValid, Stored
  <2>5. ServiceInHand(col')
    BY <1>3, <1>5, <2>1, <2>2, <2>3, <2>4 DEF ServiceInHand
  <2>6. DependenciesInHand(col')
    BY <2>2 DEF DependenciesInHand
  <2>7. QED
    BY <2>2, <2>5, <2>6 DEF Collector
<1>6. QED
  BY <1>2, <1>4, <1>5

LEMMA ReadDependencyHostsOK ==
    ASSUME NEW owner, NEW home, Readable(owner, home), Collector(owner, home, col),
           X!ReadDependencyHosts
    PROVE  Collector(owner, home, col')
<1>1. /\ col \in CollectorState /\ col.pc = "deps"
      /\ ServiceInHand(col) /\ DependenciesInHand(col) /\ col.todo \in SUBSET Services
      /\ \A x \in col.out : SnapshotOK(owner, home, x[1], x[2])
  BY DEF Collector, X!ReadDependencyHosts, CollectorState
<1>2. PICK d \in col.deps :
          \/ col' = X!Visiting("next", col.todo)
          \/ /\ services[d.name] # None
             /\ col' = [col EXCEPT !.pc = "depHosts", !.deps = @ \ {d}, !.dep = d.name,
                                   !.rest = services[d.name].hosts, !.found = {}]
  BY DEF X!ReadDependencyHosts, X!NextService
<1>3. CASE col' = X!Visiting("next", col.todo)
  BY <1>1, <1>3, VisitingOK
<1>4. CASE /\ services[d.name] # None
           /\ col' = [col EXCEPT !.pc = "depHosts", !.deps = @ \ {d}, !.dep = d.name,
                                   !.rest = services[d.name].hosts, !.found = {}]
  <2>1. d \in Dependency /\ d.name \in Services /\ Fixed(d.name) /\ d \in col.svc.deps
    BY <1>1, <1>2 DEF CollectorState, Dependency, DependenciesInHand, ServiceInHand
  <2>2. services[d.name].hosts \in Seq(Hosts)
    BY <1>4, <2>1, VersionNat DEF Readable, Service
  <2>3. /\ col'.pc = "depHosts" /\ col'.deps = col.deps \ {d} /\ col'.dep = d.name
        /\ col'.rest = services[d.name].hosts /\ col'.found = {} /\ col'.out = col.out
        /\ col'.name = col.name /\ col'.svc = col.svc /\ col'.got = col.got
        /\ col' \in CollectorState
    BY <1>1, <1>4, <2>1, <2>2 DEF CollectorState
  <2>4. DependencyHosts(col')
    BY <1>4, <2>1, <2>3 DEF DependencyHosts, Elements, Listed
  <2>5. ServiceInHand(col')
    BY <1>1, <2>3 DEF ServiceInHand
  <2>6. {x.name : x \in col.deps} = {x.name : x \in col.deps \ {d}} \cup {d.name}
    BY <1>2
  <2>7. DependenciesInHand(col')
    BY <1>1, <2>3, <2>6 DEF DependenciesInHand
  <2>8. QED
    BY <1>1, <2>3, <2>4, <2>5, <2>7 DEF Collector
<1>5. QED
  BY <1>2, <1>3, <1>4

LEMMA ReadNextHostOK ==
    ASSUME NEW owner, NEW home, Readable(owner, home), Collector(owner, home, col), X!ReadNextHost
    PROVE  Collector(owner, home, col')
<1> DEFINE h == Head(col.rest)
           new == IF hosts[h] = None THEN {} ELSE {[name |-> h, attr |-> hosts[h]]}
<1>1. /\ col \in CollectorState /\ col.pc \in {"depHosts", "hosts"}
      /\ ServiceInHand(col) /\ DependenciesInHand(col) /\ col.rest \in Seq(Hosts) /\ col.rest # <<>>
      /\ col.found \subseteq NamedHost
      /\ \A x \in col.out : SnapshotOK(owner, home, x[1], x[2])
      /\ col.pc = "depHosts" => DependencyHosts(col)
      /\ col.pc = "hosts" => HostsInHand(owner, home, col)
  BY DEF Collector, X!ReadNextHost, CollectorState
<1>2. /\ Elements(col.rest) = {h} \cup Elements(Tail(col.rest))
      /\ h \in Hosts /\ Tail(col.rest) \in Seq(Hosts)
  BY <1>1, HeadTailElements
<1>3. new \subseteq NamedHost
  BY <1>2 DEF Readable, StoreType, NamedHost
<1>4. col' = [col EXCEPT !.rest = Tail(@), !.found = col.found \cup new]
  BY <1>1 DEF X!ReadNextHost, CollectorState
<1>5. new = RecordsOf({h})
  BY DEF RecordsOf
<1>6. \A f \in new : f.name = h /\ f.attr = hosts[h]
  OBVIOUS
<1> HIDE DEF h, new
<1>7. /\ col'.pc = col.pc /\ col'.deps = col.deps /\ col'.dep = col.dep
      /\ col'.rest = Tail(col.rest) /\ col'.found = col.found \cup new /\ col'.out = col.out
      /\ col'.name = col.name /\ col'.svc = col.svc /\ col'.got = col.got
      /\ col' \in CollectorState
  BY <1>1, <1>2, <1>3, <1>4 DEF CollectorState
<1>8. ServiceInHand(col') /\ DependenciesInHand(col')
  BY <1>1, <1>7 DEF ServiceInHand, DependenciesInHand
<1>9. ASSUME col.pc = "depHosts" PROVE DependencyHosts(col')
  <2>1. RecordsOf(Elements(col.rest)) = new \cup RecordsOf(Elements(Tail(col.rest)))
    BY <1>2, <1>5 DEF RecordsOf
  <2>2. QED
    BY <1>1, <1>2, <1>7, <1>9, <2>1 DEF DependencyHosts
<1>10. ASSUME col.pc = "hosts" PROVE HostsInHand(owner, home, col')
  <2>1. HostsInHand(owner, home, col)
    BY <1>1, <1>10
  <2>2. Elements(col'.rest) \cup {f.name : f \in col'.found}
          \subseteq Elements(col.rest) \cup {f.name : f \in col.found}
    BY <1>2, <1>6, <1>7
  <2>3. ASSUME NEW f \in col'.found, col.svc = services[col.name], ListedBy(col.name, f.name),
               Settled(col.name)
        PROVE  hosts[f.name] = f.attr
    BY <1>6, <1>7, <2>1, <2>3 DEF HostsInHand
  <2>4. QED
    BY <1>7, <2>1, <2>2, <2>3 DEF HostsInHand
<1>11. QED
  BY <1>1, <1>7, <1>8, <1>9, <1>10 DEF Collector

LEMMA ReadDependencyServiceOK ==
    ASSUME NEW owner, NEW home, Readable(owner, home), Collector(owner, home, col),
           X!ReadDependencyService
    PROVE  Collector(owner, home, col')
<1>1. /\ col \in CollectorState /\ col.pc = "depHosts" /\ col.rest = <<>>
      /\ ServiceInHand(col) /\ DependenciesInHand(col) /\ DependencyHosts(col)
      /\ \A x \in col.out : SnapshotOK(owner, home, x[1], x[2])
      /\ col.todo \in SUBSET Services
  BY DEF Collector, X!ReadDependencyService, CollectorState
<1>2. CASE col' = X!Visiting("next", col.todo)
  BY <1>1, <1>2, VisitingOK
<1>3. CASE col' = [col EXCEPT !.pc = "deps",
                        !.got = @ \cup {[name |-> col.dep, service |-> services[col.dep],
                                         hosts |-> col.found]}]
  <2> DEFINE g == [name |-> col.dep, service |-> services[col.dep], hosts |-> col.found]
  <2>1. col.dep \in Services /\ services[col.dep] \in Service /\ col.found \in SUBSET NamedHost
    BY <1>1, VersionNat DEF Readable, DependencyHosts, CollectorState
  <2>2. g \in DependencyRead /\ g.name = col.dep
    BY <2>1 DEF DependencyRead
  <2>3. col.found = RecordsOf(Listed(services[col.dep]))
    <3>1. RecordsOf(Elements(col.rest)) = {}
      BY <1>1 DEF RecordsOf, Elements
    <3>2. QED
      BY <1>1, <3>1 DEF DependencyHosts
  <2>4. ReadRight(g)
    BY <1>1, <2>3 DEF ReadRight, DependencyHosts
  <2> HIDE DEF g
  <2>5. /\ col'.pc = "deps" /\ col'.deps = col.deps /\ col'.out = col.out
        /\ col'.name = col.name /\ col'.svc = col.svc /\ col'.got = col.got \cup {g}
        /\ col' \in CollectorState
    BY <1>1, <1>3, <2>2 DEF CollectorState, g
  <2>6. ServiceInHand(col')
    BY <1>1, <2>5 DEF ServiceInHand
  <2>7. {x.name : x \in col.got \cup {g}} = {x.name : x \in col.got} \cup {col.dep}
    BY <2>2
  <2>8. DependenciesInHand(col')
    BY <1>1, <2>4, <2>5, <2>7 DEF DependenciesInHand
  <2>9. QED
    BY <1>1, <2>5, <2>6, <2>8 DEF Collector
<1>4. QED
  BY <1>2, <1>3 DEF X!ReadDependencyService, X!NextService

LEMMA ReadOwnHostsOK ==
    ASSUME NEW owner, NEW home, Readable(owner, home), Collector(owner, home, col), X!ReadOwnHosts
    PROVE  Collector(owner, home, col')
<1>1. /\ col \in CollectorState /\ col.pc = "deps" /\ col.deps = {}
      /\ ServiceInHand(col) /\ DependenciesInHand(col)
      /\ \A x \in col.out : SnapshotOK(owner, home, x[1], x[2])
      /\ col.todo \in SUBSET Services
  BY DEF Collector, X!ReadOwnHosts, CollectorState
<1>2. CASE col' = X!Visiting("next", col.todo)
  BY <1>1, <1>2, VisitingOK
<1>3. CASE col' = [col EXCEPT !.pc = "hosts", !.rest = services[col.name].hosts, !.found = {}]
  <2>1. col.name \in Services /\ services[col.name] # None
        /\ services[col.name].hosts \in Seq(Hosts)
    BY <1>1, VersionNat DEF Readable, ServiceInHand, Service
  <2>2. /\ col'.pc = "hosts" /\ col'.deps = col.deps /\ col'.out = col.out
        /\ col'.rest = services[col.name].hosts /\ col'.found = {}
        /\ col'.name = col.name /\ col'.svc = col.svc /\ col'.got = col.got
        /\ col' \in CollectorState
    BY <1>1, <1>3, <2>1 DEF CollectorState
  <2>3. ServiceInHand(col') /\ DependenciesInHand(col')
    BY <1>1, <2>2 DEF ServiceInHand, DependenciesInHand
  <2>4. ASSUME NEW x \in Elements(col'.rest) PROVE x \in Hosts /\ ListedBy(col.name, x)
    BY <2>1, <2>2, <2>4 DEF ListedBy, Elements, Listed
  <2>5. \A x \in Elements(col'.rest) :
           /\ home[x] = owner[col.name]
           /\ \A s \in Services : s # col.name => ~ListedBy(s, x)
    BY <2>1, <2>4 DEF Readable, StoreApart, HostsStored, ListedApart
  <2>6. HostsInHand(owner, home, col')
    BY <1>1, <2>2, <2>5 DEF HostsInHand
  <2>7. QED
    BY <1>1, <2>2, <2>3, <2>6 DEF Collector
<1>4. QED
  BY <1>2, <1>3 DEF X!ReadOwnHosts, X!NextService

-----------------------------------------------------------------------------
(* The making of the snapshots. *)

(* The greatest of some numbers that have a bound. *)
LEMMA MaxBounded ==
    ASSUME NEW S, S \subseteq Nat, S # {}, NEW k \in Nat, \A x \in S : x <= k
    PROVE  X!Max(S) \in S /\ \A x \in S : x <= X!Max(S)
<1> DEFINE R == OpToRel(<, Nat)
           T == {y \in Nat : k - y \in S}
<1>1. IsWellFoundedOn(R, Nat)
  BY NatLessThanWellFounded
<1>2. T # {}
  <2>1. PICK x \in S : TRUE
    OBVIOUS
  <2>2. k - x \in Nat /\ k - (k - x) = x
    BY <2>1
  <2>3. QED
    BY <2>1, <2>2
<1>3. \A x, y \in Nat : x < y => <<x, y>> \in R
  BY DEF OpToRel
<1> HIDE DEF R
<1>4. PICK m \in T : \A y \in T : <<y, m>> \notin R
  BY <1>1, <1>2, WFMin
<1>5. \A y \in T : ~(y < m)
  BY <1>3, <1>4
<1>6. ASSUME NEW x \in S PROVE x <= k - m
  <2>1. k - x \in Nat /\ k - (k - x) = x
    BY <1>6
  <2>2. ~(k - x < m)
    BY <1>5, <1>6, <2>1
  <2>3. QED
    BY <1>6, <2>1, <2>2
<1>7. k - m \in S /\ \A x \in S : k - m >= x
  BY <1>4, <1>6
<1>8. X!Max(S) \in S /\ \A x \in S : X!Max(S) >= x
  BY <1>7 DEF X!Max
<1>9. QED
  BY <1>8

(* The version of a snapshot is the newest of those it is made of. *)
Latest(v, svc, got) ==
    /\ v \in Nat /\ svc.version <= v /\ \A g \in got : g.service.version <= v
    /\ v = svc.version \/ \E g \in got : v = g.service.version

UpTo(k, svc, got) ==
    /\ svc.version \in Nat /\ svc.version <= k
    /\ \A g \in got : g.service.version \in Nat /\ g.service.version <= k

LEMMA LatestVersion ==
    ASSUME NEW svc, NEW got, NEW k \in Nat, UpTo(k, svc, got)
    PROVE  Latest(X!LatestNodeVersion(svc, got), svc, got)
<1> DEFINE v == X!LatestNodeVersion(svc, got)
           S == {svc.version} \cup {g.service.version : g \in got}
<1>1. S \subseteq Nat /\ S # {} /\ \A x \in S : x <= k
  BY DEF UpTo
<1>2. svc.version \in S /\ \A g \in got : g.service.version \in S
  OBVIOUS
<1>3. \A x \in S : x = svc.version \/ \E g \in got : x = g.service.version
  OBVIOUS
<1>4. v = X!Max(S)
  BY DEF X!LatestNodeVersion
<1> HIDE DEF S, v
<1>5. X!Max(S) \in S /\ \A x \in S : x <= X!Max(S)
  BY <1>1, MaxBounded
<1>6. Latest(v, svc, got)
  BY <1>1, <1>2, <1>3, <1>4, <1>5 DEF Latest
<1>7. QED
  BY <1>6 DEF v

(* What was read for a snapshot has its type. *)
ReadTyped(svc, got) ==
    /\ svc \in Service /\ got \subseteq DependencyRead
    /\ \A g \in got : \E d \in svc.deps : d.name = g.name

LEMMA SnapshotType ==
    ASSUME NEW svc, NEW attr \in HostAttr, NEW got, ReadTyped(svc, got),
           X!LatestNodeVersion(svc, got) \in Nat
    PROVE  X!HostSnapshot(svc, attr, got) \in Snapshot
<1> DEFINE egress(g) == [machine |-> attr.egress,
                         port |-> (CHOOSE x \in svc.deps : x.name = g.name).port]
           ofDep(g) == X!Listener(X!EgressCluster(g.name), egress(g), g.service.protocol)
           own == X!Listener(X!IngressCluster, attr.ingress, svc.protocol)
           listeners == {own} \cup {ofDep(g) : g \in got}
           ofHosts(g) == X!Endpoint(X!EgressCluster(g.name), {h.attr.ingress : h \in g.hosts})
           ownHost == X!Endpoint(X!IngressCluster, {attr.substance})
           endpoints == {ownHost} \cup {ofHosts(g) : g \in got}
           clusters == {X!IngressCluster} \cup {X!EgressCluster(g.name) : g \in got}
           routes == {l.cluster : l \in {x \in listeners : x.protocol = "HTTP"}}
           E == [cluster : ResourceName, addresses : SUBSET Address]
           L == [cluster : ResourceName, address : Address, protocol : AnyProtocol]
<1>1. /\ attr.ingress \in Address /\ attr.substance \in Address /\ attr.egress \in Machines
      /\ svc.protocol \in AnyProtocol /\ svc.deps \subseteq Dependency
  BY DEF HostAttr, ReadTyped, Service
<1>2. /\ X!IngressCluster \in ResourceName
      /\ \A t \in Services : X!EgressCluster(t) \in ResourceName
  BY DEF ResourceName
<1>3. ASSUME NEW g \in got
      PROVE  /\ g.name \in Services /\ g.service.protocol \in AnyProtocol
             /\ {h.attr.ingress : h \in g.hosts} \subseteq Address
             /\ egress(g) \in Address
  <2>1. g.name \in Services /\ g.service \in Service /\ g.hosts \subseteq NamedHost
    BY <1>3 DEF ReadTyped, DependencyRead
  <2>2. \A h \in g.hosts : h.attr.ingress \in Address
    BY <2>1 DEF NamedHost, HostAttr
  <2>3. PICK x \in svc.deps : x.name = g.name /\ egress(g) = [machine |-> attr.egress, port |-> x.port]
    BY <1>3 DEF ReadTyped
  <2>4. x.port \in Ports
    BY <1>1 DEF Dependency
  <2>5. QED
    BY <1>1, <2>1, <2>2, <2>3, <2>4 DEF Service, Address
<1>4. own \in L /\ \A g \in got : ofDep(g) \in L
  BY <1>1, <1>2, <1>3 DEF X!Listener
<1>5. ownHost \in E /\ \A g \in got : ofHosts(g) \in E
  BY <1>1, <1>2, <1>3 DEF X!Endpoint
<1>6. X!HostSnapshot(svc, attr, got) =
        [version |-> X!LatestNodeVersion(svc, got), clusters |-> clusters,
         endpoints |-> endpoints, routes |-> routes, listeners |-> listeners]
  BY DEF X!HostSnapshot
<1>7. clusters \in SUBSET ResourceName
  BY <1>2, <1>3
<1>8. \A l \in L : l.cluster \in ResourceName
  OBVIOUS
<1> HIDE DEF egress, ofDep, own, ofHosts, ownHost, E, L
<1>9. endpoints \in SUBSET E /\ listeners \in SUBSET L
  BY <1>4, <1>5
<1>10. routes \in SUBSET ResourceName
  BY <1>8, <1>9
<1> HIDE DEF clusters, endpoints, routes, listeners
<1>11. QED
  BY <1>6, <1>7, <1>9, <1>10 DEF Snapshot, E, L

(* All dependencies of the service in hand have been read. *)
AllRead(svc, got) ==
    /\ svc \in Service /\ ValidRecord(svc)
    /\ got \subseteq DependencyRead
    /\ \A g \in got : ReadRight(g)
    /\ {d.name : d \in svc.deps} = {g.name : g \in got}

LEMMA SnapshotVersion ==
    ASSUME StoreType, VersionsPast, clock \in Nat, NEW svc, NEW got, AllRead(svc, got),
           svc.version <= clock, NEW v, v = X!LatestNodeVersion(svc, got)
    PROVE  /\ v \in Nat /\ svc.version <= v
           /\ \A d \in svc.deps : services[d.name].version <= v
           /\ v = svc.version \/ \E d \in svc.deps : v = services[d.name].version
<1>1. svc.version \in Nat
  BY DEF AllRead, Service
<1>2. ASSUME NEW g \in got
      PROVE  /\ g.service = services[g.name] /\ g.service.version \in Nat
             /\ g.service.version <= clock
             /\ \E d \in svc.deps : d.name = g.name
  <2>1. g.name \in Services /\ services[g.name] # None /\ g.service = services[g.name]
    BY <1>2 DEF AllRead, DependencyRead, ReadRight
  <2>2. QED
    BY <1>2, <2>1, VersionNat DEF AllRead, VersionsPast
<1>3. \A d \in svc.deps : \E g \in got : d.name = g.name
  BY DEF AllRead
<1>4. UpTo(clock, svc, got)
  BY <1>1, <1>2 DEF UpTo
<1>5. Latest(v, svc, got)
  BY <1>4, LatestVersion
<1>6. QED
  BY <1>2, <1>3, <1>5 DEF Latest

(* What it contains. *)
Contains(snap, svc, attr, got) ==
    /\ snap.endpoints =
          {X!Endpoint(X!IngressCluster, {attr.substance})}
          \cup {X!Endpoint(X!EgressCluster(t), IngressOf(t)) : t \in {d.name : d \in svc.deps}}
    /\ snap.listeners =
          {X!Listener(X!IngressCluster, attr.ingress, svc.protocol)}
          \cup {X!Listener(X!EgressCluster(d.name),
                           [machine |-> attr.egress, port |-> d.port],
                           services[d.name].protocol) : d \in svc.deps}
    /\ snap.version = X!LatestNodeVersion(svc, got)

LEMMA SnapshotContents ==
    ASSUME StoreType, NEW svc, NEW attr \in HostAttr, NEW got, AllRead(svc, got)
    PROVE  Contains(X!HostSnapshot(svc, attr, got), svc, attr, got)
<1> DEFINE egress(g) == [machine |-> attr.egress,
                         port |-> (CHOOSE x \in svc.deps : x.name = g.name).port]
           listeners == {X!Listener(X!IngressCluster, attr.ingress, svc.protocol)}
                        \cup {X!Listener(X!EgressCluster(g.name), egress(g), g.service.protocol) : g \in got}
           endpoints == {X!Endpoint(X!IngressCluster, {attr.substance})}
                        \cup {X!Endpoint(X!EgressCluster(g.name), {h.attr.ingress : h \in g.hosts}) : g \in got}
           snap == X!HostSnapshot(svc, attr, got)
<1>1. /\ snap.version = X!LatestNodeVersion(svc, got)
      /\ snap.endpoints = endpoints
      /\ snap.listeners = listeners
  BY DEF X!HostSnapshot
<1>2. ASSUME NEW g \in got, NEW d \in svc.deps, d.name = g.name
      PROVE  g.service = services[d.name] /\ egress(g) = [machine |-> attr.egress, port |-> d.port]
  <2>1. g.service = services[g.name]
    BY <1>2 DEF AllRead, ReadRight
  <2>2. \A x \in svc.deps : x.name = g.name => x = d
    BY <1>2 DEF AllRead, ValidRecord
  <2>3. (CHOOSE x \in svc.deps : x.name = g.name) = d
    BY <1>2, <2>2
  <2>4. QED
    BY <1>2, <2>1, <2>3
<1>3. ASSUME NEW g \in got PROVE {h.attr.ingress : h \in g.hosts} = IngressOf(g.name)
  <2> DEFINE Y == {y \in Listed(services[g.name]) : hosts[y] # None}
             record(x) == [name |-> x, attr |-> hosts[x]]
  <2>1. g.hosts = {record(x) : x \in Y} /\ IngressOf(g.name) = {hosts[x].ingress : x \in Y}
    BY <1>3 DEF AllRead, ReadRight, RecordsOf, IngressOf
  <2>2. \A x : record(x).attr = hosts[x]
    OBVIOUS
  <2> HIDE DEF Y, record
  <2>3. ASSUME NEW h \in g.hosts PROVE h.attr.ingress \in IngressOf(g.name)
    BY <2>1, <2>2, <2>3
  <2>4. ASSUME NEW x \in Y PROVE \E h \in g.hosts : hosts[x].ingress = h.attr.ingress
    BY <2>1, <2>2, <2>4
  <2>5. QED
    BY <2>1, <2>3, <2>4
<1>4. /\ \A g \in got : \E d \in svc.deps : d.name = g.name
      /\ \A d \in svc.deps : \E g \in got : d.name = g.name
  BY DEF AllRead
<1>5. {X!Endpoint(X!EgressCluster(g.name), {h.attr.ingress : h \in g.hosts}) : g \in got}
        = {X!Endpoint(X!EgressCluster(t), IngressOf(t)) : t \in {d.name : d \in svc.deps}}
  <2> DEFINE T == {d.name : d \in svc.deps}
             made(g) == X!Endpoint(X!EgressCluster(g.name), {h.attr.ingress : h \in g.hosts})
             ofName(t) == X!Endpoint(X!EgressCluster(t), IngressOf(t))
  <2>1. \A g \in got : X!Endpoint(X!EgressCluster(g.name), {h.attr.ingress : h \in g.hosts})
                          = X!Endpoint(X!EgressCluster(g.name), IngressOf(g.name))
    BY <1>3
  <2>2. (\A g \in got : g.name \in T) /\ \A t \in T : \E g \in got : g.name = t
    BY <1>4
  <2>3. \A g \in got : made(g) = ofName(g.name)
    BY <2>1
  <2> HIDE DEF T, made, ofName
  <2>4. {made(g) : g \in got} = {ofName(t) : t \in T}
    BY <2>2, <2>3
  <2>5. QED
    BY <2>4 DEF T, made, ofName
<1> HIDE DEF egress
<1>6. {X!Listener(X!EgressCluster(g.name), egress(g), g.service.protocol) : g \in got}
        = {X!Listener(X!EgressCluster(d.name), [machine |-> attr.egress, port |-> d.port],
                      services[d.name].protocol) : d \in svc.deps}
  <2> DEFINE made(g) == X!Listener(X!EgressCluster(g.name), egress(g), g.service.protocol)
             ofDep(d) == X!Listener(X!EgressCluster(d.name),
                                    [machine |-> attr.egress, port |-> d.port],
                                    services[d.name].protocol)
  <2>1. \A g \in got, d \in svc.deps : d.name = g.name => made(g) = ofDep(d)
    BY <1>2
  <2> HIDE DEF made, ofDep
  <2>2. {made(g) : g \in got} = {ofDep(d) : d \in svc.deps}
    BY <1>4, <2>1
  <2>3. QED
    BY <2>2 DEF made, ofDep
<1>7. endpoints = {X!Endpoint(X!IngressCluster, {attr.substance})}
                  \cup {X!Endpoint(X!EgressCluster(t), IngressOf(t)) : t \in {d.name : d \in svc.deps}}
  BY <1>5
<1>8. listeners = {X!Listener(X!IngressCluster, attr.ingress, svc.protocol)}
                  \cup {X!Listener(X!EgressCluster(d.name), [machine |-> attr.egress, port |-> d.port],
                                   services[d.name].protocol) : d \in svc.deps}
  BY <1>6
<1> HIDE DEF endpoints, listeners, snap
<1>9. QED
  BY <1>1, <1>7, <1>8 DEF snap, Contains

(* A snapshot for a host found belongs to the node. *)
LEMMA SnapshotMade ==
    ASSUME NEW owner, NEW home, Readable(owner, home), clock \in Nat,
           NEW c, c \in CollectorState, c.pc = "hosts", c.rest = <<>>,
           ServiceInHand(c), DependenciesInHand(c), HostsInHand(owner, home, c),
           NEW f \in c.found
    PROVE  LET snap == X!HostSnapshot(c.svc, f.attr, c.got)
           IN  snap \in Snapshot /\ SnapshotOK(owner, home, f.name, snap)
<1> DEFINE snap == X!HostSnapshot(c.svc, f.attr, c.got)
           v == X!LatestNodeVersion(c.svc, c.got)
<1> StoreType /\ VersionsPast
  BY DEF Readable
<1>1. /\ AllRead(c.svc, c.got)
      /\ f.attr \in HostAttr /\ f.name \in Hosts
      /\ c.name \in Services /\ services[c.name] # None
  BY DEF HostsInHand, DependenciesInHand, ServiceInHand, AllRead, CollectorState, NamedHost
<1>2. /\ c.svc.version \in Nat /\ services[c.name].version \in Nat
      /\ c.svc.version <= services[c.name].version /\ services[c.name].version <= clock
  BY <1>1, VersionNat DEF ServiceInHand, Service, VersionsPast
<1>3. c.svc.version <= clock
  BY <1>2
<1>4. /\ v \in Nat
      /\ v = c.svc.version \/ \E d \in c.svc.deps : v = services[d.name].version
  BY <1>1, <1>3, SnapshotVersion
<1>5. \A d \in c.svc.deps : /\ d.name \in Services /\ Fixed(d.name) /\ services[d.name] # None
                            /\ services[d.name].version \in Nat
  <2>1. \A d \in c.svc.deps : d.name \in Services /\ Fixed(d.name)
    BY DEF ServiceInHand, Service, Dependency
  <2>2. \A d \in c.svc.deps : services[d.name] # None
    BY <1>1 DEF AllRead, ReadRight
  <2>3. QED
    BY <2>1, <2>2, VersionNat
<1> HIDE DEF snap
<1>6. Contains(snap, c.svc, f.attr, c.got)
  BY <1>1, SnapshotContents DEF snap
<1>7. snap.version = v /\ snap \in Snapshot
  <2>1. snap.version = v
    BY <1>6 DEF Contains
  <2>2. snap \in Snapshot
    BY <1>1, <1>4, SnapshotType DEF snap, ReadTyped, AllRead
  <2>3. QED
    BY <2>1, <2>2
<1>8. home[f.name] = owner[c.name]
      /\ \A s \in Services : s # c.name /\ ListedBy(s, f.name) => Newer(s, c.svc.version)
  BY DEF HostsInHand
<1> HIDE DEF v
<1>9. Bound(owner, home, f.name, snap)
  <2>1. CASE v = c.svc.version
    BY <1>1, <1>2, <1>7, <1>8, <2>1 DEF Bound
  <2>2. CASE \E d \in c.svc.deps : v = services[d.name].version
    BY <1>5, <1>7, <2>2 DEF Bound
  <2>3. QED
    BY <1>4, <2>1, <2>2
<1>10. \A s \in Services : Newer(s, c.svc.version) => snap.version < services[s].version
  BY <1>4, <1>5, <1>7 DEF Newer
<1>11. ASSUME c.svc = services[c.name], ListedBy(c.name, f.name), Settled(c.name), snap # None
       PROVE  HasConfig(snap, c.name, f.name)
  <2>1. hosts[f.name] = f.attr
    BY <1>11 DEF HostsInHand
  <2>2. Refers(c.name) = {d.name : d \in c.svc.deps}
    BY <1>11 DEF Refers
  <2>3. /\ snap.endpoints =
             {X!Endpoint(X!IngressCluster, {f.attr.substance})}
             \cup {X!Endpoint(X!EgressCluster(t), IngressOf(t)) : t \in {d.name : d \in c.svc.deps}}
        /\ snap.listeners =
             {X!Listener(X!IngressCluster, f.attr.ingress, c.svc.protocol)}
             \cup {X!Listener(X!EgressCluster(d.name),
                              [machine |-> f.attr.egress, port |-> d.port],
                              services[d.name].protocol) : d \in c.svc.deps}
    BY <1>6 DEF Contains
  <2>4. QED
    BY <1>11, <2>1, <2>2, <2>3 DEF HasConfig
<1>12. Fits(f.name, snap)
  <2>1. c.svc = services[c.name] \/ Newer(c.name, c.svc.version)
    BY DEF ServiceInHand
  <2>2. QED
    BY <1>8, <1>10, <1>11, <2>1 DEF Fits
<1>13. QED
  BY <1>7, <1>9, <1>12 DEF SnapshotOK, snap

LEMMA MakeSnapshotsOK ==
    ASSUME NEW owner, NEW home, Readable(owner, home), clock \in Nat,
           Collector(owner, home, col), X!MakeSnapshots
    PROVE  Collector(owner, home, col')
<1>1. /\ col \in CollectorState /\ col.pc = "hosts" /\ col.rest = <<>>
      /\ ServiceInHand(col) /\ DependenciesInHand(col) /\ HostsInHand(owner, home, col)
  BY DEF Collector, X!MakeSnapshots
<1>2. PICK new : /\ \/ new = {<<f.name, X!HostSnapshot(col.svc, f.attr, col.got)>> : f \in col.found}
                    \/ new = {}
                 /\ col' = [col EXCEPT !.pc = "set", !.out = new]
  BY DEF X!MakeSnapshots
<1>3. ASSUME NEW x \in new
      PROVE  x \in Hosts \X Snapshot /\ SnapshotOK(owner, home, x[1], x[2])
  <2>1. PICK f \in col.found : x = <<f.name, X!HostSnapshot(col.svc, f.attr, col.got)>>
    BY <1>2, <1>3
  <2>2. f.name \in Hosts
    BY <1>1 DEF CollectorState, NamedHost
  <2>3. /\ X!HostSnapshot(col.svc, f.attr, col.got) \in Snapshot
        /\ SnapshotOK(owner, home, f.name, X!HostSnapshot(col.svc, f.attr, col.got))
    BY <1>1, SnapshotMade
  <2>4. QED
    BY <2>1, <2>2, <2>3
<1>4. new \subseteq Hosts \X Snapshot
  BY <1>3
<1>5. col'.pc = "set" /\ col'.out = new /\ col' \in CollectorState
  BY <1>1, <1>2, <1>4 DEF CollectorState
<1>6. QED
  BY <1>3, <1>5 DEF Collector

(* Every step of the collector leaves it with what it may hold. *)
LEMMA CollectOK ==
    ASSUME NEW owner, NEW home, Readable(owner, home), clock \in Nat, CacheType,
           SnapshotsOK(owner, home), Collector(owner, home, col), X!Collect
    PROVE  Collector(owner, home, col') /\ CacheType' /\
           \A h \in Hosts : \A snap \in {cache'[h], envoy'[h], flight'[h]} :
              snap # None => SnapshotOK(owner, home, h, snap)
<1>1. /\ col \in CollectorState /\ col.todo \in SUBSET Services
      /\ col.out \subseteq Hosts \X Snapshot
      /\ \A x \in col.out : SnapshotOK(owner, home, x[1], x[2])
  BY DEF Collector, CollectorState
<1>2. CASE X!StartRound
  <2>1. col' = X!Visiting("next", {s \in Services : services[s] # None})
        /\ {s \in Services : services[s] # None} \in SUBSET Services
    BY <1>2 DEF X!StartRound
  <2>2. Collector(owner, home, col')
    BY <2>1, VisitingOK
  <2>3. UNCHANGED <<cache, envoy, flight, watching>>
    BY <1>2 DEF X!StartRound, X!ReadsOnly, X!dataPlane
  <2>4. QED
    BY <2>2, <2>3 DEF CacheType, SnapshotsOK
<1>3. CASE X!EndRound \/ X!EndService
  <2>1. col' = X!Visiting("asleep", {}) \/ col' = X!Visiting("next", col.todo)
    BY <1>3 DEF X!EndRound, X!EndService, X!NextService, X!Asleep
  <2>2. {} \in SUBSET Services
    OBVIOUS
  <2>3. Collector(owner, home, col')
    BY <1>1, <2>1, <2>2, VisitingOK
  <2>4. UNCHANGED <<cache, envoy, flight, watching>>
    BY <1>3 DEF X!EndRound, X!EndService, X!ReadsOnly, X!dataPlane
  <2>5. QED
    BY <2>3, <2>4 DEF CacheType, SnapshotsOK
<1>4. CASE \/ X!ReadService \/ X!ReadDependencyHosts \/ X!ReadNextHost
           \/ X!ReadDependencyService \/ X!ReadOwnHosts \/ X!MakeSnapshots
  <2>1. Collector(owner, home, col')
    BY <1>4, ReadServiceOK, ReadDependencyHostsOK, ReadNextHostOK, ReadDependencyServiceOK,
       ReadOwnHostsOK, MakeSnapshotsOK
  <2>2. UNCHANGED <<cache, envoy, flight, watching>>
    BY <1>4 DEF X!ReadService, X!ReadDependencyHosts, X!ReadNextHost, X!ReadDependencyService,
                X!ReadOwnHosts, X!MakeSnapshots, X!ReadsOnly, X!dataPlane
  <2>3. QED
    BY <2>1, <2>2 DEF CacheType, SnapshotsOK
<1>5. CASE X!SetSnapshot
  <2>1. PICK x \in col.out :
          /\ col' = [col EXCEPT !.out = @ \ {x}]
          /\ cache' = [cache EXCEPT ![x[1]] = x[2]]
          /\ \/ /\ watching' = [watching EXCEPT ![x[1]] = FALSE]
                /\ flight' = [flight EXCEPT ![x[1]] = x[2]]
             \/ UNCHANGED <<watching, flight>>
          /\ envoy' = envoy
    BY <1>5 DEF X!SetSnapshot
  <2>2. x[1] \in Hosts /\ x[2] \in Snapshot /\ SnapshotOK(owner, home, x[1], x[2])
    BY <1>1, <2>1
  <2>3. CacheType'
    BY <2>1, <2>2 DEF CacheType
  <2>4. \A h \in Hosts : \A snap \in {cache'[h], envoy'[h], flight'[h]} :
              snap # None => SnapshotOK(owner, home, h, snap)
    BY <2>1, <2>2 DEF CacheType, SnapshotsOK
  <2>5. /\ col'.pc = col.pc /\ col'.out = col.out \ {x} /\ col'.name = col.name
        /\ col' \in CollectorState /\ col.pc = "set"
    BY <1>1, <1>5, <2>1 DEF CollectorState, X!SetSnapshot
  <2>6. Collector(owner, home, col')
    BY <1>1, <2>5 DEF Collector
  <2>7. QED
    BY <2>3, <2>4, <2>6
<1>6. QED
  BY <1>2, <1>3, <1>4, <1>5 DEF X!Collect

(* An Envoy gets what the cache has, and runs with what it got. *)
LEMMA EnvoyOK ==
    ASSUME NEW owner, NEW home, CacheType, SnapshotsOK(owner, home),
           NEW e \in Hosts, X!EnvoyStep(e)
    PROVE  CacheType' /\ col' = col /\
           \A h \in Hosts : \A snap \in {cache'[h], envoy'[h], flight'[h]} :
              snap # None => SnapshotOK(owner, home, h, snap)
<1>1. CASE X!EnvoyRequest(e)
  <2>1. /\ col' = col /\ cache' = cache /\ envoy' = envoy
        /\ \/ flight' = [flight EXCEPT ![e] = cache[e]] /\ watching' = watching
           \/ flight' = flight /\ watching' = [watching EXCEPT ![e] = TRUE]
    BY <1>1 DEF X!EnvoyRequest
  <2>2. QED
    BY <2>1 DEF CacheType, SnapshotsOK
<1>2. CASE X!EnvoyApply(e)
  <2>1. /\ col' = col /\ cache' = cache /\ watching' = watching
        /\ envoy' = [envoy EXCEPT ![e] = flight[e]] /\ flight' = [flight EXCEPT ![e] = None]
    BY <1>2 DEF X!EnvoyApply
  <2>2. QED
    BY <2>1 DEF CacheType, SnapshotsOK
<1>3. QED
  BY <1>1, <1>2 DEF X!EnvoyStep

-----------------------------------------------------------------------------
(* The invariant of the whole. *)

LEMMA InitMesh ==
    ASSUME NEW owner, NEW home, Isolated(owner, home), InitialVersionsPast, DependenciesFixed,
           MeshInit
    PROVE  MeshInv(owner, home)
<1>1. HandlersInv(owner, home)
  BY InitHandlers DEF MeshInit
<1>2. /\ col = X!Visiting("asleep", {}) /\ {} \in SUBSET Services
      /\ cache = [h \in Hosts |-> None] /\ envoy = [h \in Hosts |-> None]
      /\ flight = [h \in Hosts |-> None] /\ watching = [h \in Hosts |-> FALSE]
  BY DEF MeshInit, X!XdsInit, X!Asleep
<1>3. Collector(owner, home, col)
  BY <1>2, VisitingOK
<1>4. CacheType /\ SnapshotsOK(owner, home)
  BY <1>2 DEF CacheType, SnapshotsOK
<1>5. QED
  BY <1>1, <1>3, <1>4 DEF MeshInv

LEMMA HandlersRead ==
    ASSUME NEW owner, NEW home, HandlersInv(owner, home)
    PROVE  Readable(owner, home) /\ clock \in Nat
  BY TypeInvParts DEF HandlersInv, CurrentInv, ApartInv, VersionInv, ValidInv, Readable,
                      TypeInv, CounterType

(* What is true of the collector and of the snapshots in a step, as the    *)
(* store was before it, is so as the store is after it.                    *)
LEMMA StoreStep ==
    ASSUME NEW owner, NEW home, HandlersInv(owner, home), HandlersInv(owner, home)',
           StoreMoves(owner), CacheType', Collector(owner, home, col'),
           \A h \in Hosts : \A snap \in {cache'[h], envoy'[h], flight'[h]} :
              snap # None => SnapshotOK(owner, home, h, snap)
    PROVE  MeshInv(owner, home)'
<1>1. StoreType /\ StoreType' /\ RefersToFixed /\ HostsStored(owner, home)'
  BY HandlersRead, TypeInvParts2 DEF Readable, StoreApart, HandlersInv, CurrentInv, ApartInv
<1>2. ASSUME NEW c, c = col' PROVE Collector(owner, home, c)'
  <2>1. Collector(owner, home, c)
    BY <1>2
  <2>2. QED
    BY <1>1, <2>1, CollectorMoves
<1>3. ASSUME NEW h \in Hosts, NEW snap \in {cache'[h], envoy'[h], flight'[h]}, snap # None
      PROVE  SnapshotOK(owner, home, h, snap)'
  <2>1. SnapshotOK(owner, home, h, snap)
    BY <1>3
  <2>2. snap.version \in Nat
    BY <1>3 DEF CacheType, Snapshot
  <2>3. QED
    BY <1>1, <2>1, <2>2, SnapshotMoves
<1>4. SnapshotsOK(owner, home)'
  BY <1>3 DEF SnapshotsOK
<1>5. QED
  BY <1>2, <1>4 DEF MeshInv

LEMMA StepMesh ==
    ASSUME NEW owner, NEW home, Isolated(owner, home), Extends = {}, NoServiceRemoved,
           DependenciesFixed, FreshVersions, "error" \notin Faults, "crash" \notin Faults,
           MeshInv(owner, home), [MeshNext]_meshVars
    PROVE  MeshInv(owner, home)'
<1>1. /\ HandlersInv(owner, home) /\ CacheType /\ SnapshotsOK(owner, home)
      /\ Collector(owner, home, col)
  BY DEF MeshInv
<1>2. Readable(owner, home) /\ clock \in Nat
  BY <1>1, HandlersRead
<1>3. CASE Undisturbed /\ UNCHANGED xdsVars
  <2>1. HandlersInv(owner, home)' /\ StoreMoves(owner)
    BY <1>1, <1>3, StepHandlers
  <2>2. UNCHANGED <<col, cache, envoy, flight, watching>>
    BY <1>3 DEF xdsVars
  <2>3. CacheType' /\ Collector(owner, home, col')
    BY <1>1, <2>2 DEF CacheType
  <2>4. \A h \in Hosts : \A snap \in {cache'[h], envoy'[h], flight'[h]} :
              snap # None => SnapshotOK(owner, home, h, snap)
    BY <1>1, <2>2 DEF SnapshotsOK
  <2>5. QED
    BY <1>1, <2>1, <2>3, <2>4, StoreStep
<1>4. CASE CollectStep \/ \E h \in Envoys : Envoy(h)
  <2>1. Undisturbed
    BY <1>4 DEF CollectStep, Envoy, Undisturbed
  <2>2. HandlersInv(owner, home)' /\ StoreMoves(owner)
    BY <1>1, <2>1, StepHandlers
  <2>3. /\ CacheType' /\ Collector(owner, home, col')
        /\ \A h \in Hosts : \A snap \in {cache'[h], envoy'[h], flight'[h]} :
              snap # None => SnapshotOK(owner, home, h, snap)
    <3>1. CASE CollectStep
      BY <1>1, <1>2, <3>1, CollectOK DEF CollectStep
    <3>2. ASSUME NEW h \in Envoys, Envoy(h)
          PROVE  /\ CacheType' /\ col' = col
                 /\ \A x \in Hosts : \A snap \in {cache'[x], envoy'[x], flight'[x]} :
                       snap # None => SnapshotOK(owner, home, x, snap)
      BY <1>1, <3>2, EnvoyOK, MeshConstants DEF Envoy
    <3>3. QED
      BY <1>1, <1>4, <3>1, <3>2
  <2>4. QED
    BY <1>1, <2>2, <2>3, StoreStep
<1>5. ASSUME NEW p \in Handlers, Handle(p) PROVE Undisturbed /\ UNCHANGED xdsVars
  BY <1>5 DEF Handle, Undisturbed
<1>6. ASSUME NEW p \in Handlers, Arrive(p) PROVE Undisturbed /\ UNCHANGED xdsVars
  BY <1>6 DEF Arrive, Undisturbed
<1>7. ClockTick => Undisturbed /\ UNCHANGED xdsVars
  BY DEF ClockTick, Undisturbed
<1>8. UNCHANGED meshVars => Undisturbed /\ UNCHANGED xdsVars
  BY DEF meshVars, Undisturbed
<1>9. \A p \in Handlers : ~CallError(p)
  BY DEF CallError, CallFails
<1>10. ~CollectError /\ ~ServerCrash
  BY DEF CollectError, ServerCrash, Crash
<1>11. QED
  BY <1>3, <1>4, <1>5, <1>6, <1>7, <1>8, <1>9, <1>10 DEF MeshNext

(* The newest version of a service that can be served is no older than     *)
(* that of the service.                                                    *)
LEMMA NewestIsNewest ==
    ASSUME StoreType, VersionsPast, clock \in Nat, NEW s \in Services, Meshed(s)
    PROVE  services[s].version <= NewestVersion(s)
<1> DEFINE S == {services[t].version : t \in {s} \cup Refers(s)}
<1>1. \A t \in {s} \cup Refers(s) : /\ t \in Services /\ services[t] # None
                                    /\ services[t].version \in Nat /\ services[t].version <= clock
  BY VersionNat DEF Meshed, Stored, VersionsPast
<1>2. S \subseteq Nat /\ S # {} /\ \A v \in S : v <= clock
  BY <1>1
<1>3. X!Max(S) \in S /\ \A v \in S : v <= X!Max(S)
  BY <1>2, MaxBounded
<1>4. \E v \in S : \A t \in {s} \cup Refers(s) : services[t].version <= v
  BY <1>3
<1>5. \A t \in {s} \cup Refers(s) : services[t].version <= NewestVersion(s)
  BY <1>4 DEF NewestVersion
<1>6. QED
  BY <1>5

(* With services and hosts left to one handler each, references only to    *)
(* services that do not change, versions drawn in milliseconds of their    *)
(* own, and no crash and no failing call, a version identifies the         *)
(* configuration: what the cache or an Envoy has of a node with the newest *)
(* version is what the store describes (snapshot_gen.go:212).              *)
THEOREM OneConfigPerVersion ==
    ASSUME NEW CONSTANT owner, NEW CONSTANT home, Isolated(owner, home), Extends = {},
           InitialVersionsPast, NoServiceRemoved, DependenciesFixed, FreshVersions,
           "error" \notin Faults, "crash" \notin Faults
    PROVE  MeshSpec => []VersionIdentifiesConfig
<1>1. MeshInit => MeshInv(owner, home)
  BY InitMesh
<1>2. MeshInv(owner, home) /\ [MeshNext]_meshVars => MeshInv(owner, home)'
  BY StepMesh
<1>3. MeshInv(owner, home) => VersionIdentifiesConfig
  <2> SUFFICES ASSUME MeshInv(owner, home), Quiet, NEW x \in Serving,
                      NEW snap \in {cache[x[2]], envoy[x[2]]}, snap # None,
                      snap.version = NewestVersion(x[1])
               PROVE  HasConfig(snap, x[1], x[2])
    BY DEF VersionIdentifiesConfig
  <2>1. /\ x[1] \in Services /\ x[2] \in Hosts /\ Meshed(x[1]) /\ ListedBy(x[1], x[2])
    BY MeshConstants DEF Serving, Stored, ListedBy
  <2>2. StoreType /\ VersionsPast /\ clock \in Nat
    BY HandlersRead DEF MeshInv, Readable
  <2>3. SnapshotOK(owner, home, x[2], snap) /\ snap.version \in Nat
    BY <2>1 DEF MeshInv, SnapshotsOK, CacheType, Snapshot
  <2>4. services[x[1]].version <= snap.version /\ services[x[1]].version \in Nat
    BY <2>1, <2>2, NewestIsNewest, VersionNat DEF ListedBy
  <2>5. Settled(x[1])
    BY DEF Quiet, Settled
  <2>6. QED
    BY <2>1, <2>3, <2>4, <2>5 DEF SnapshotOK, Fits
<1>4. QED
  BY <1>1, <1>2, <1>3, PTL DEF MeshSpec

-----------------------------------------------------------------------------
(* Versions of the snapshots.  Above, a version stands for a               *)
(* configuration; below, an Envoy never goes back to an older one.  Calls  *)
(* may fail now, the server may crash and several versions may be drawn in *)
(* a millisecond, but no service gives up a host or a dependency that      *)
(* changes.                                                                *)

(* What a handler is to do leaves every host to its service, and every     *)
(* service with the dependencies that last.                                *)
Steady(seat, lasting, o) ==
    /\ ~Fixed(o.service)
    /\ \A h \in Adopts(o) : seat[h] = o.service
    /\ \A t \in References(o) : Fixed(t) \/ t \in lasting[o.service]
    /\ o.kind \in {"Put", "PutParam"} => lasting[o.service] \subseteq References(o)
    /\ o.kind = "RemoveDependency" => o.name \notin lasting[o.service]

OpsSteady(seat, lasting) ==
    \A p \in Handlers : \A o \in Pending(run[p]) : Steady(seat, lasting, o)

ListsSeated(seat) == \A s \in Services, h \in Hosts : ListedBy(s, h) => seat[h] = s

RefersToLasting(lasting) ==
    \A s \in Services : services[s] # None =>
        \A t \in Refers(s) : Fixed(t) \/ t \in lasting[s]

(* A version drawn is no older than those of services that do not change. *)
PastFixed(p) ==
    HoldsVersion(run[p]) =>
        \A t \in Services : Fixed(t) /\ services[t] # None => services[t].version <= run[p].ver

AllPastFixed == \A p \in Handlers : PastFixed(p)

AgingInv(owner, home, seat, lasting) ==
    /\ CurrentInv(owner, home)
    /\ VersionInv(owner)
    /\ NothingRemoved
    /\ OpsSteady(seat, lasting)
    /\ ListsSeated(seat)
    /\ RefersToLasting(lasting)
    /\ AllPastFixed

LEMMA StepSteady ==
    ASSUME NEW seat, NEW lasting, TypeInv, NothingRemoved, OpsSteady(seat, lasting),
           HostsSeated(seat), DependenciesStay(lasting), [Next]_vars
    PROVE  OpsSteady(seat, lasting)'
<1> SUFFICES ASSUME NEW q \in Handlers, NEW o \in Pending(run'[q])
             PROVE  Steady(seat, lasting, o)
  BY DEF OpsSteady
<1>1. ASSUME o \in Requests[q] PROVE Steady(seat, lasting, o)
  <2>1. o.kind # "PutParam"
    BY <1>1, InventoryAssumption
       DEF Request, RegisterServiceOp, UnregisterServiceOp, AddDependencyOp,
           RemoveDependencyOp, RegisterHostOp, UnregisterHostOp, UpdateHostOp, PutOp
  <2>2. QED
    BY <1>1, <2>1 DEF HostsSeated, DependenciesStay, Steady, Fixed
<1>2. ASSUME NEW r \in Pending(run[q]), Planned(r, o) PROVE Steady(seat, lasting, o)
  <2>1. /\ Steady(seat, lasting, r) /\ References(r) = {d.name : d \in Elements(r.deps)}
        /\ Adopts(r) = ParamNames(r) /\ r.kind = "Put" /\ o.service = r.service
    BY <1>2 DEF OpsSteady, Planned, References, Adopts
  <2>2. o.kind = "PutParam" => o.record.deps = Elements(r.deps) /\ Listed(o.record) = ParamNames(r)
    <3>1. CASE o.kind = "PutParam"
      <4>1. /\ o.record.deps = Elements(r.deps)
            /\ o.record.hosts = [i \in 1..Len(r.hosts) |-> r.hosts[i].name]
        BY <1>2, <3>1 DEF Planned, ParamService
      <4>2. r \in PutOp
        BY <2>1, PendingOps, OpKind, TypeInvParts
      <4>3. DOMAIN r.hosts = 1..Len(r.hosts)
        BY <4>2 DEF PutOp
      <4>4. QED
        BY <4>1, <4>3 DEF Listed, ParamNames
    <3>2. QED
      BY <3>1
  <2>3. /\ o.kind = "PutParam" => References(o) = References(r)
        /\ \A t \in References(o) : t \in References(r)
    BY <1>2, <2>1, <2>2 DEF Planned, References
  <2>4. \A h \in Adopts(o) : h \in Adopts(r)
    BY <1>2, <2>1, <2>2 DEF Planned, Adopts
  <2>5. o.kind \notin {"Put", "RemoveDependency"}
    BY <1>2 DEF Planned
  <2>6. QED
    BY <2>1, <2>3, <2>4, <2>5 DEF Steady
<1>3. QED
  BY <1>1, <1>2, StepPending DEF OpsSteady

(* What a step does to the store, as far as versions depend on it. *)
StoreAges ==
    /\ \A s \in Services : Fixed(s) => services'[s] = services[s]
    /\ \A s \in Services : services[s] # None =>
          services'[s] # None /\ services[s].version <= services'[s].version
    /\ \A s \in Services : services[s] # None /\ services'[s] # services[s] =>
          /\ \A t \in Services : Fixed(t) /\ services[t] # None
                => services[t].version <= services'[s].version
          /\ \A t \in Refers(s) : Fixed(t) \/ t \in Refers(s)'

(* PutService writes a record with a version drawn before, and with the    *)
(* dependencies that last.                                                 *)
LEMMA PutAges ==
    ASSUME NEW owner, NEW home, NEW seat, NEW lasting, AgingInv(owner, home, seat, lasting),
           NEW p \in Handlers, PutService(p), NEW s \in Services, services'[s] # services[s]
    PROVE  /\ \A t \in Services : Fixed(t) /\ services[t] # None
                => services[t].version <= services'[s].version
           /\ services[s] # None => \A t \in Refers(s) : Fixed(t) \/ t \in Refers(s)'
           /\ \A t \in Refers(s)' : Fixed(t) \/ t \in lasting[s]
<1> CurrentInv(owner, home) /\ RefersToLasting(lasting)
  BY DEF AgingInv
<1>1. PICK o : o = run[p].op
  OBVIOUS
<1>2. /\ services'[o.service].deps = Made(o, services[o.service]).deps
      /\ \A t \in Services : t # o.service => services'[t] = services[t]
      /\ o \in Op /\ o.service \in Services /\ o.kind \in KindsAt("put")
      /\ o.kind \notin {"RegisterService", "PutParam"} =>
            services[o.service] # None /\ services[o.service] \in Service
  BY <1>1, PutMade
<1>3. s = o.service
  BY <1>2
<1>4. /\ run[p].pc = "put"
      /\ services' = [services EXCEPT ![s] = [run[p].cur EXCEPT !.version = run[p].ver]]
  BY <1>1, <1>3 DEF PutService, Target
<1>5. run[p].cur \in Service /\ StoreType /\ Fresh(run[p])
  BY <1>4, InHandCurrent DEF Control, HoldsService
<1>6. services'[s].version = run[p].ver
  BY <1>4, <1>5 DEF StoreType, Service
<1>7. HoldsVersion(run[p])
  BY <1>4 DEF HoldsVersion
<1>8. Steady(seat, lasting, o)
  BY <1>1, <1>4, <1>5, InHandCurrent, PendingOps DEF AgingInv, OpsSteady
<1>9. o.kind = "RegisterService" => services[s] = None
  BY <1>1, <1>3, <1>4, <1>5 DEF Fresh, FreshRegisterService
<1>10. PICK old, new : old = services[s] /\ new = Made(o, old).deps
  OBVIOUS
<1>11. Refers(s)' = {d.name : d \in new}
  BY <1>2, <1>3, <1>10 DEF Refers
<1>12. Refers(s) = {d.name : d \in old.deps}
  BY <1>10 DEF Refers
<1>13. /\ o.kind \in {"RegisterHost", "UnregisterHost", "UpdateHost"} => new = old.deps
       /\ o.kind = "AddDependency" => new = old.deps \cup {o.dep}
       /\ o.kind = "RemoveDependency" => new = {d \in old.deps : d.name # o.name}
       /\ o.kind = "PutParam" => new = o.record.deps
       /\ o.kind = "RegisterService" => new = {}
  <2>1. o.kind \notin {"RegisterService", "PutParam"} => old \in Service
    BY <1>2, <1>3, <1>10
  <2>2. QED
    BY <1>10, <2>1 DEF Made, AppendHost, RemoveFirstHost, RemoveDependent, AppendDependent,
                       NewService, Service
<1>14. old # None => \A d \in old.deps : Fixed(d.name) \/ d.name \in lasting[s]
  BY <1>10, <1>12 DEF RefersToLasting
<1>15. ASSUME NEW d \in old.deps, old # None, ~Fixed(d.name) PROVE \E e \in new : e.name = d.name
  BY <1>2, <1>3, <1>8, <1>9, <1>10, <1>13, <1>14, <1>15 DEF KindsAt, Steady, References
<1>16. ASSUME NEW e \in new PROVE Fixed(e.name) \/ e.name \in lasting[s]
  BY <1>2, <1>3, <1>8, <1>10, <1>13, <1>14, <1>16 DEF KindsAt, Steady, References
<1>17. \A t \in Services : Fixed(t) /\ services[t] # None => services[t].version <= run[p].ver
  BY <1>7 DEF AgingInv, AllPastFixed, PastFixed
<1>18. QED
  BY <1>6, <1>10, <1>11, <1>12, <1>15, <1>16, <1>17

LEMMA WorkAges ==
    ASSUME NEW owner, NEW home, NEW seat, NEW lasting, Isolated(owner, home),
           AgingInv(owner, home, seat, lasting), NEW p \in Handlers, Work(p)
    PROVE  StoreAges /\ RefersToLasting(lasting)' /\ ListsSeated(seat)'
<1> /\ CurrentInv(owner, home) /\ TypeInv /\ NothingRemoved /\ RefersToLasting(lasting)
    /\ ListsSeated(seat) /\ StoreType /\ RunType
  BY TypeInvParts DEF AgingInv, CurrentInv, ApartInv
<1>1. services' = services \/ PutService(p)
  BY WorkWrites
<1>2. \A s \in Services : Fixed(s) => services'[s] = services[s]
  BY FixedKept DEF AgingInv, OpsSteady, Steady
<1>3. \A s \in Services : services[s] # None =>
          services'[s] # None /\ services[s].version <= services'[s].version
  <2>1. \A s \in Services : services[s] # None => services'[s] # None
    BY <1>1, PutMade
  <2>2. \A s \in Services : services[s] # None /\ services'[s] # None
                 => services[s].version <= services'[s].version
    BY StepVersions DEF AgingInv, Isolated, Next
  <2>3. QED
    BY <2>1, <2>2
<1>4. ASSUME NEW s \in Services, services'[s] # services[s]
      PROVE  /\ \A t \in Services : Fixed(t) /\ services[t] # None
                  => services[t].version <= services'[s].version
             /\ services[s] # None => \A t \in Refers(s) : Fixed(t) \/ t \in Refers(s)'
             /\ \A t \in Refers(s)' : Fixed(t) \/ t \in lasting[s]
  BY <1>1, <1>4, PutAges
<1>5. StoreAges
  BY <1>2, <1>3, <1>4 DEF StoreAges
<1>6. RefersToLasting(lasting)'
  <2>1. \A s \in Services : services'[s] = services[s] => Refers(s)' = Refers(s)
    BY DEF Refers
  <2>2. QED
    BY <1>4, <2>1 DEF RefersToLasting
<1>7. ListsSeated(seat)'
  <2>1. ASSUME NEW s \in Services, NEW h \in Hosts, ListedBy(s, h)', PutService(p)
        PROVE  seat[h] = s
    <3>1. PICK o : o = run[p].op
      OBVIOUS
    <3>2. Steady(seat, lasting, o)
      BY <2>1, <3>1, PendingOps DEF PutService, AgingInv, OpsSteady
    <3>3. \/ ListedBy(s, h)
          \/ s = o.service /\ o.kind = "RegisterHost" /\ h = o.host
          \/ s = o.service /\ o.kind = "PutParam" /\ h \in Listed(o.record)
      BY <2>1, <3>1, PutLists
    <3>4. QED
      BY <3>2, <3>3 DEF ListsSeated, Steady, Adopts
  <2>2. CASE services' = services
    BY <2>2 DEF ListsSeated, ListedBy
  <2>3. QED
    BY <1>1, <2>1, <2>2 DEF ListsSeated
<1>8. QED
  BY <1>5, <1>6, <1>7

LEMMA WorkPastFixed ==
    ASSUME NEW owner, NEW home, NEW seat, NEW lasting, AgingInv(owner, home, seat, lasting),
           NEW p \in Handlers, Work(p)
    PROVE  AllPastFixed'
<1> TypeInv /\ NothingRemoved /\ VersionsPast /\ AllPastFixed
  BY DEF AgingInv, CurrentInv, ApartInv, VersionInv
<1>1. ASSUME NEW q \in Handlers, q # p PROVE PastFixed(q)'
  <2>1. run'[q] = run[q]
    BY <1>1, OthersKept
  <2>2. \A s \in Services : Fixed(s) => services'[s] = services[s]
    BY FixedKept DEF AgingInv, OpsSteady, Steady
  <2>3. QED
    BY <2>1, <2>2 DEF AllPastFixed, PastFixed
<1>2. ASSUME HoldsVersion(run'[p])
      PROVE  \A t \in Services : services'[t] # None /\ Fixed(t)
                => services'[t].version <= run'[p].ver
  <2>1. services' = services
    BY <1>2, VersionLabels
  <2>2. CASE run'[p].ver = clock
    BY <2>1, <2>2 DEF VersionsPast
  <2>3. CASE HoldsVersion(run[p]) /\ run'[p].ver = run[p].ver
    BY <2>1, <2>3 DEF AllPastFixed, PastFixed
  <2>4. QED
    BY <1>2, <2>2, <2>3, VersionLabels
<1>3. QED
  BY <1>1, <1>2 DEF AllPastFixed, PastFixed

(* Every step of the inventory keeps the invariant, faults included. *)
LEMMA StepAging ==
    ASSUME NEW owner, NEW home, NEW seat, NEW lasting, Isolated(owner, home), Extends = {},
           NoServiceRemoved, HostsSeated(seat), DependenciesStay(lasting),
           AgingInv(owner, home, seat, lasting), [Next]_vars
    PROVE  AgingInv(owner, home, seat, lasting)' /\ StoreAges
<1> CurrentInv(owner, home) /\ TypeInv /\ NothingRemoved /\ RunType /\ StoreType
  BY TypeInvParts DEF AgingInv, CurrentInv, ApartInv
<1>1. CurrentInv(owner, home)' /\ VersionInv(owner)'
  BY StepCurrent, StepVersions DEF AgingInv, Isolated
<1>2. NothingRemoved' /\ OpsSteady(seat, lasting)'
  BY StepKeepsServices, StepSteady DEF AgingInv
<1>3. ASSUME NEW p \in Handlers, Work(p)
      PROVE  StoreAges /\ RefersToLasting(lasting)' /\ ListsSeated(seat)' /\ AllPastFixed'
  BY <1>3, WorkAges, WorkPastFixed
<1>4. CASE \/ \E p \in Handlers : \E r \in Requests[p] : Accept(p, r)
           \/ \E p \in Handlers : CallFails(p)
           \/ Crash
           \/ Tick
           \/ UNCHANGED vars
  <2>1. services' = services
    BY <1>4 DEF Accept, CallFails, Crash, Tick, vars, store
  <2>2. RefersToLasting(lasting)' /\ ListsSeated(seat)'
    BY <2>1 DEF AgingInv, RefersToLasting, Refers, ListsSeated, ListedBy
  <2>3. StoreAges
    <3>1. \A s \in Services : services[s] # None => services[s].version \in Nat
      BY VersionNat
    <3>2. QED
      BY <2>1, <3>1 DEF StoreAges
  <2>4. ASSUME NEW q \in Handlers PROVE run'[q] = run[q] \/ ~HoldsVersion(run'[q])
    <3>1. ASSUME NEW p \in Handlers, NEW r \in Requests[p], Accept(p, r)
          PROVE  run'[q] = run[q] \/ ~HoldsVersion(run'[q])
      BY <3>1, ContinueOps DEF Accept, HoldsVersion
    <3>2. ASSUME NEW p \in Handlers, CallFails(p)
          PROVE  run'[q] = run[q] \/ ~HoldsVersion(run'[q])
      BY <3>2, EndOps DEF CallFails, HoldsVersion
    <3>3. CASE Crash
      BY <3>3 DEF Crash, Idle, At, HoldsVersion
    <3>4. CASE Tick \/ UNCHANGED vars
      BY <3>4 DEF Tick, vars
    <3>5. QED
      BY <1>4, <3>1, <3>2, <3>3, <3>4
  <2>5. AllPastFixed'
    BY <2>1, <2>4 DEF AgingInv, AllPastFixed, PastFixed
  <2>6. QED
    BY <1>1, <1>2, <2>2, <2>3, <2>5 DEF AgingInv
<1>5. QED
  BY <1>1, <1>2, <1>3, <1>4 DEF AgingInv, Next

(* A failing call of the collector is counted, and does nothing else to    *)
(* the inventory.                                                          *)
LEMMA FaultAging ==
    ASSUME NEW owner, NEW home, NEW seat, NEW lasting, Isolated(owner, home),
           AgingInv(owner, home, seat, lasting),
           UNCHANGED <<store, clock, run, client, accepted>>, faults' = faults + 1
    PROVE  AgingInv(owner, home, seat, lasting)' /\ StoreAges
<1> /\ CurrentInv(owner, home) /\ VersionInv(owner) /\ ApartInv(owner, home) /\ TypeInv
    /\ ServicesOwned(owner) /\ AllApart(home) /\ StoreType
  BY TypeInvParts DEF AgingInv, CurrentInv, ApartInv
<1>1. /\ services' = services /\ hosts' = hosts /\ catalog' = catalog
      /\ clock' = clock /\ run' = run
      /\ request' = request /\ reply' = reply /\ changed' = changed /\ repeat' = repeat
      /\ accepted' = accepted
  BY DEF store, client
<1>2. TypeInv'
  <2>1. StoreType' /\ ClientType' /\ CounterType' /\ RunType'
    BY <1>1, TypeInvParts DEF StoreType, ClientType, CounterType, RunType
  <2>2. QED
    BY <2>1, TypeInvParts2
<1>3. ServicesOwned(owner)' /\ NothingRemoved' /\ OpsSteady(seat, lasting)'
  BY <1>1 DEF ServicesOwned, NothingRemoved, OpsSteady, AgingInv
<1>4. StoreApart(owner, home)'
  BY <1>1 DEF ApartInv, StoreApart, HostsStored, ListedApart, ListsOnce, CatalogStored, ListedBy
<1>5. AllApart(home)'
  <2>1. \A h : Unlisted(h) => Unlisted(h)'
    BY <1>1 DEF Unlisted, ListedBy
  <2>2. ASSUME NEW q \in Handlers PROVE Apart(home, q, run[q])'
    BY <1>1, <2>1, ApartFrame
  <2>3. QED
    BY <1>1, <2>2 DEF AllApart
<1>6. AllCurrent'
  <2>1. ASSUME NEW q \in Handlers PROVE UpToDate(run[q])'
    BY <1>1, CurrentFrame
  <2>2. QED
    BY <1>1, <2>1 DEF AllCurrent
<1>7. VersionsPast' /\ AllDrawn'
  BY <1>1 DEF VersionInv, VersionsPast, AllDrawn, VersionDrawn
<1>8. ListsSeated(seat)' /\ RefersToLasting(lasting)' /\ AllPastFixed'
  BY <1>1 DEF AgingInv, ListsSeated, ListedBy, RefersToLasting, Refers, AllPastFixed, PastFixed
<1>9. StoreAges
  <2>1. \A s \in Services : services[s] # None => services[s].version \in Nat
    BY VersionNat
  <2>2. QED
    BY <1>1, <2>1 DEF StoreAges
<1>10. QED
  BY <1>2, <1>3, <1>4, <1>5, <1>6, <1>7, <1>8, <1>9 DEF AgingInv, CurrentInv, ApartInv, VersionInv

LEMMA InitAging ==
    ASSUME NEW owner, NEW home, NEW seat, NEW lasting, Isolated(owner, home),
           InitialVersionsPast, HostsSeated(seat), DependenciesStay(lasting), Init
    PROVE  AgingInv(owner, home, seat, lasting)
<1>1. CurrentInv(owner, home) /\ VersionInv(owner)
  BY InitCurrent, InitVersions
<1>2. \A p \in Handlers : run[p].pc = "idle" /\ run[p].todo = {} /\ run[p].op = None
  BY DEF Init, Idle, At
<1>3. NothingRemoved /\ OpsSteady(seat, lasting) /\ AllPastFixed
  BY <1>2 DEF NothingRemoved, OpsSteady, Pending, AllPastFixed, PastFixed, HoldsVersion
<1>4. ListsSeated(seat) /\ RefersToLasting(lasting)
  BY DEF Init, HostsSeated, DependenciesStay, ListsSeated, ListedBy, RefersToLasting, Refers
<1>5. QED
  BY <1>1, <1>3, <1>4 DEF AgingInv

-----------------------------------------------------------------------------
(* The versions of what the collector holds and of what the Envoys have.   *)

Snaps(h) == {cache[h], envoy[h], flight[h]} \ {None}

(* The next snapshot of a host of service s will not be older than v. *)
Within(s, v) ==
    /\ s \in Services /\ services[s] # None
    /\ \/ v <= services[s].version
       \/ \E t \in Refers(s) : services[t] # None /\ v <= services[t].version

(* Nor will that the collector is about to make. *)
Unread(c) == {d.name : d \in c.deps} \cup (IF c.pc = "depHosts" THEN {c.dep} ELSE {})

Ahead(c, v) ==
    \/ v <= c.svc.version
    \/ \E g \in c.got : v <= g.service.version
    \/ \E t \in Unread(c) : services[t] # None /\ v <= services[t].version

(* What it has read may be replaced by now, but not by anything older; a   *)
(* dependency given up does not change and the service has a newer version.*)
InHandAges(c) ==
    /\ c.name \in Services /\ c.svc \in Service /\ services[c.name] # None
    /\ c.svc.version <= services[c.name].version
    /\ \A t \in Unread(c) \cup {g.name : g \in c.got} : \E d \in c.svc.deps : d.name = t
    /\ \A g \in c.got : /\ services[g.name] # None
                        /\ g.service.version <= services[g.name].version
    /\ \A d \in c.svc.deps :
          \/ d.name \in Refers(c.name)
          \/ /\ Fixed(d.name)
             /\ services[d.name] # None => services[d.name].version <= services[c.name].version

OutAges(seat, c) ==
    \A x \in c.out : /\ Within(seat[x[1]], x[2].version)
                     /\ \A snap \in Snaps(x[1]) : snap.version <= x[2].version
                     /\ \A y \in c.out : y[2].version = x[2].version

CollectorAges(seat, c) ==
    /\ c \in CollectorState
    /\ c.pc \in {"deps", "depHosts", "hosts"} =>
          /\ InHandAges(c)
          /\ \A x \in Hosts : seat[x] = c.name => \A snap \in Snaps(x) : Ahead(c, snap.version)
    /\ c.pc = "hosts" =>
          /\ c.deps = {}
          /\ \A x \in Elements(c.rest) \cup {f.name : f \in c.found} : seat[x] = c.name
    /\ OutAges(seat, c)

SnapshotsAge(seat) == \A h \in Hosts : \A snap \in Snaps(h) : Within(seat[h], snap.version)

InOrder(a, b) == a # None /\ b # None => a.version <= b.version

(* An Envoy gets ever newer versions. *)
SnapshotsInOrder ==
    \A h \in Hosts : /\ InOrder(envoy[h], flight[h])
                     /\ InOrder(envoy[h], cache[h])
                     /\ InOrder(flight[h], cache[h])

DataAges(seat) == CacheType /\ SnapshotsAge(seat) /\ SnapshotsInOrder

MeshAges(owner, home, seat, lasting) ==
    /\ AgingInv(owner, home, seat, lasting)
    /\ \A c : c = col => CollectorAges(seat, c)
    /\ DataAges(seat)

LEMMA SnapsTyped ==
    ASSUME CacheType, NEW h \in Hosts, NEW snap \in Snaps(h)
    PROVE  snap \in Snapshot /\ snap.version \in Nat
  BY DEF CacheType, Snaps, Snapshot

LEMMA ReferredServices ==
    ASSUME StoreType, NEW s \in Services, services[s] # None, NEW t \in Refers(s)
    PROVE  t \in Services
  BY VersionNat DEF Refers, Service, Dependency

LEMMA VersionGrows ==
    ASSUME StoreType, StoreType', StoreAges, NEW s \in Services, services[s] # None,
           NEW v \in Nat, v <= services[s].version
    PROVE  services'[s] # None /\ services'[s].version \in Nat /\ v <= services'[s].version
<1>1. services[s].version \in Nat
  BY VersionNat
<1>2. services'[s] # None /\ services[s].version <= services'[s].version
  BY DEF StoreAges
<1>3. services'[s].version \in Nat
  BY <1>2 DEF StoreType, Service
<1>4. QED
  BY <1>1, <1>2, <1>3

(* As the store changes, all this stays true. *)
LEMMA WithinMoves ==
    ASSUME StoreType, StoreType', StoreAges, NEW s, NEW v \in Nat, Within(s, v)
    PROVE  Within(s, v)'
<1>1. s \in Services /\ services[s] # None /\ services'[s] # None
  BY DEF Within, StoreAges
<1>2. CASE v <= services[s].version
  BY <1>1, <1>2, VersionGrows DEF Within
<1>3. ASSUME NEW t \in Refers(s), services[t] # None, v <= services[t].version
      PROVE  Within(s, v)'
  <2>1. t \in Services
    BY <1>1, ReferredServices
  <2>2. services'[t] # None /\ v <= services'[t].version
    BY <1>3, <2>1, VersionGrows
  <2>3. CASE t \in Refers(s)'
    BY <1>1, <2>2, <2>3 DEF Within
  <2>4. CASE t \notin Refers(s)'
    <3>1. services'[s] # services[s]
      BY <2>4 DEF Refers
    <3>2. Fixed(t)
      BY <1>1, <2>4, <3>1 DEF StoreAges
    <3>3. services[t].version <= services'[s].version
      BY <1>1, <1>3, <2>1, <3>1, <3>2 DEF StoreAges
    <3>4. services[t].version \in Nat /\ services'[s].version \in Nat
      BY <1>1, <1>3, <2>1, VersionNat DEF StoreType, Service
    <3>5. QED
      BY <1>1, <1>3, <3>3, <3>4 DEF Within
  <2>5. QED
    BY <2>3, <2>4
<1>4. QED
  BY <1>2, <1>3 DEF Within

LEMMA UnreadServices ==
    ASSUME NEW c, InHandAges(c)
    PROVE  \A t \in Unread(c) \cup {g.name : g \in c.got} : t \in Services
<1>1. \A d \in c.svc.deps : d.name \in Services
  BY DEF InHandAges, Service, Dependency
<1>2. \A t \in Unread(c) \cup {g.name : g \in c.got} : \E d \in c.svc.deps : d.name = t
  BY DEF InHandAges
<1>3. QED
  BY <1>1, <1>2

LEMMA AheadMoves ==
    ASSUME StoreType, StoreType', StoreAges, NEW c, InHandAges(c), NEW v \in Nat, Ahead(c, v)
    PROVE  Ahead(c, v)'
<1>1. ASSUME NEW t \in Unread(c), services[t] # None, v <= services[t].version
      PROVE  services'[t] # None /\ v <= services'[t].version
  BY <1>1, UnreadServices, VersionGrows
<1>2. Unread(c)' = Unread(c)
  BY DEF Unread
<1>3. QED
  BY <1>1, <1>2 DEF Ahead

LEMMA InHandMoves ==
    ASSUME StoreType, StoreType', StoreAges, NEW c, c \in CollectorState, InHandAges(c)
    PROVE  InHandAges(c)'
<1> DEFINE s == c.name
<1>1. /\ s \in Services /\ c.svc \in Service /\ services[s] # None
      /\ c.svc.version \in Nat /\ c.svc.version <= services[s].version
  BY DEF InHandAges, Service
<1>2. services'[s] # None /\ services'[s].version \in Nat /\ c.svc.version <= services'[s].version
  BY <1>1, VersionGrows
<1>3. ASSUME NEW g \in c.got
      PROVE  services'[g.name] # None /\ g.service.version <= services'[g.name].version
  <2>1. /\ g.name \in Services /\ services[g.name] # None /\ g.service.version \in Nat
        /\ g.service.version <= services[g.name].version
    BY <1>3 DEF InHandAges, CollectorState, DependencyRead, Service
  <2>2. QED
    BY <2>1, VersionGrows
<1>4. ASSUME NEW d \in c.svc.deps, d.name \notin Refers(s)'
      PROVE  /\ Fixed(d.name)
             /\ services'[d.name] # None => services'[d.name].version <= services'[s].version
  <2>1. d.name \in Services
    BY <1>1 DEF Service, Dependency
  <2>2. CASE d.name \in Refers(s)
    <3>1. services'[s] # services[s]
      BY <1>4, <2>2 DEF Refers
    <3>2. Fixed(d.name) /\ services'[d.name] = services[d.name]
      BY <1>1, <1>4, <2>1, <2>2, <3>1 DEF StoreAges
    <3>3. services[d.name] # None => services[d.name].version <= services'[s].version
      BY <1>1, <2>1, <3>1, <3>2 DEF StoreAges
    <3>4. QED
      BY <3>2, <3>3
  <2>3. CASE d.name \notin Refers(s)
    <3>1. /\ Fixed(d.name) /\ services'[d.name] = services[d.name]
          /\ services[d.name] # None => services[d.name].version <= services[s].version
      BY <1>4, <2>1, <2>3 DEF InHandAges, StoreAges
    <3>2. services[d.name] # None => services[d.name].version \in Nat
      BY <2>1, VersionNat
    <3>3. services[d.name] # None => services[d.name].version <= services'[s].version
      BY <1>1, <3>1, <3>2, VersionGrows
    <3>4. QED
      BY <3>1, <3>3
  <2>4. QED
    BY <2>2, <2>3
<1>5. Unread(c)' = Unread(c)
  BY DEF Unread
<1>6. QED
  BY <1>1, <1>2, <1>3, <1>4, <1>5 DEF InHandAges

(* So it does when some snapshots are dropped besides. *)
LEMMA AgesMove ==
    ASSUME NEW seat, StoreType, StoreType', StoreAges, CacheType, SnapshotsAge(seat),
           \A h \in Hosts : Snaps(h)' \subseteq Snaps(h),
           NEW c, CollectorAges(seat, c)
    PROVE  CollectorAges(seat, c)' /\ SnapshotsAge(seat)'
<1>1. SnapshotsAge(seat)'
  <2> SUFFICES ASSUME NEW h \in Hosts, NEW snap \in Snaps(h)'
               PROVE  Within(seat[h], snap.version)'
    BY DEF SnapshotsAge
  <2>1. snap \in Snaps(h)
    OBVIOUS
  <2>2. QED
    BY <2>1, SnapsTyped, WithinMoves DEF SnapshotsAge
<1>2. ASSUME c.pc \in {"deps", "depHosts", "hosts"}
      PROVE  /\ InHandAges(c)'
             /\ \A x \in Hosts : seat[x] = c.name => \A snap \in Snaps(x)' : Ahead(c, snap.version)'
  <2>1. InHandAges(c)
    BY <1>2 DEF CollectorAges
  <2>2. ASSUME NEW x \in Hosts, seat[x] = c.name, NEW snap \in Snaps(x)'
        PROVE  Ahead(c, snap.version)'
    <3>1. snap \in Snaps(x)
      OBVIOUS
    <3>2. Ahead(c, snap.version)
      BY <1>2, <2>2, <3>1 DEF CollectorAges
    <3>3. QED
      BY <2>1, <3>1, <3>2, SnapsTyped, AheadMoves
  <2>3. QED
    BY <2>1, <2>2, InHandMoves DEF CollectorAges
<1>3. ASSUME NEW x \in c.out
      PROVE  /\ Within(seat[x[1]], x[2].version)'
             /\ \A snap \in Snaps(x[1])' : snap.version <= x[2].version
             /\ \A y \in c.out : y[2].version = x[2].version
  <2>1. x[1] \in Hosts /\ x[2].version \in Nat
    BY <1>3 DEF CollectorAges, CollectorState, Snapshot
  <2>2. QED
    BY <1>3, <2>1, WithinMoves DEF CollectorAges, OutAges
<1>4. QED
  BY <1>1, <1>2, <1>3 DEF CollectorAges, OutAges

(* Each read of the collector leaves it with no version that could go back. *)

LEMMA VisitingAges ==
    ASSUME NEW seat, NEW label \in {"asleep", "next"}, NEW names \in SUBSET Services
    PROVE  CollectorAges(seat, X!Visiting(label, names))
<1> DEFINE c == X!Visiting(label, names)
<1>1. /\ c.pc = label /\ c.out = {}
      /\ c \in CollectorState
  BY DEF X!Visiting, CollectorState
<1> HIDE DEF c
<1>2. CollectorAges(seat, c)
  BY <1>1 DEF CollectorAges, OutAges
<1>3. QED
  BY <1>2 DEF c

LEMMA ReadServiceAges ==
    ASSUME NEW seat, StoreType, CacheType, SnapshotsAge(seat), CollectorAges(seat, col),
           X!ReadService
    PROVE  CollectorAges(seat, col')
<1>1. col \in CollectorState
  BY DEF CollectorAges
<1>2. PICK s \in col.todo :
          \/ services[s] = None /\ col' = X!Visiting("next", col.todo \ {s})
          \/ /\ services[s] # None
             /\ col' = [X!Visiting("deps", col.todo \ {s}) EXCEPT
                          !.name = s, !.svc = services[s], !.deps = services[s].deps]
  BY DEF X!ReadService
<1>3. s \in Services /\ col.todo \ {s} \in SUBSET Services
  BY <1>1, <1>2 DEF CollectorState
<1>4. CASE col' = X!Visiting("next", col.todo \ {s})
  BY <1>3, <1>4, VisitingAges
<1>5. CASE /\ services[s] # None
           /\ col' = [X!Visiting("deps", col.todo \ {s}) EXCEPT
                        !.name = s, !.svc = services[s], !.deps = services[s].deps]
  <2>1. services[s] \in Service /\ services[s].deps \subseteq Dependency
        /\ services[s].version \in Nat
    BY <1>3, <1>5, VersionNat DEF Service
  <2>2. /\ col'.pc = "deps" /\ col'.name = s /\ col'.svc = services[s]
        /\ col'.deps = services[s].deps /\ col'.got = {} /\ col'.out = {}
        /\ col' \in CollectorState
    <3> DEFINE v == X!Visiting("deps", col.todo \ {s})
    <3>1. v \in CollectorState /\ v.pc = "deps" /\ v.got = {} /\ v.out = {}
      BY <1>3 DEF X!Visiting, CollectorState
    <3>2. col' = [v EXCEPT !.name = s, !.svc = services[s], !.deps = services[s].deps]
      BY <1>5
    <3> HIDE DEF v
    <3>3. QED
      BY <1>3, <2>1, <3>1, <3>2 DEF CollectorState
  <2>3. Unread(col') = Refers(s)
    BY <2>2 DEF Unread, Refers
  <2>4. InHandAges(col')
    BY <1>3, <1>5, <2>1, <2>2, <2>3 DEF InHandAges, Refers
  <2>5. ASSUME NEW x \in Hosts, seat[x] = s, NEW snap \in Snaps(x)
        PROVE  Ahead(col', snap.version)
    <3>1. Within(s, snap.version)
      BY <2>5 DEF SnapshotsAge
    <3>2. QED
      BY <2>2, <2>3, <3>1 DEF Within, Ahead
  <2>6. QED
    BY <2>2, <2>4, <2>5 DEF CollectorAges, OutAges
<1>6. QED
  BY <1>2, <1>4, <1>5

(* Reads that leave the collector with the same service, its record and    *)
(* all it has read, or with one dependency read instead of unread.         *)
LEMMA GoOnAges ==
    ASSUME NEW seat, CollectorAges(seat, col), NEW c, c \in CollectorState,
           col.pc \in {"deps", "depHosts", "hosts"},
           c.name = col.name, c.svc = col.svc, c.out = col.out,
           InHandAges(col) => InHandAges(c),
           \A v : Ahead(col, v) => Ahead(c, v),
           c.pc = "hosts" =>
              /\ c.deps = {}
              /\ \A x \in Elements(c.rest) \cup {f.name : f \in c.found} : seat[x] = c.name
    PROVE  CollectorAges(seat, c)
  BY DEF CollectorAges, OutAges

LEMMA ReadDependencyHostsAges ==
    ASSUME NEW seat, StoreType, CollectorAges(seat, col), X!ReadDependencyHosts
    PROVE  CollectorAges(seat, col')
<1>1. /\ col \in CollectorState /\ col.pc = "deps" /\ col.todo \in SUBSET Services
      /\ InHandAges(col)
  BY DEF CollectorAges, X!ReadDependencyHosts, CollectorState
<1>2. PICK d \in col.deps :
          \/ col' = X!Visiting("next", col.todo)
          \/ /\ services[d.name] # None
             /\ col' = [col EXCEPT !.pc = "depHosts", !.deps = @ \ {d}, !.dep = d.name,
                                   !.rest = services[d.name].hosts, !.found = {}]
  BY DEF X!ReadDependencyHosts, X!NextService
<1>3. CASE col' = X!Visiting("next", col.todo)
  BY <1>1, <1>3, VisitingAges
<1>4. CASE /\ services[d.name] # None
           /\ col' = [col EXCEPT !.pc = "depHosts", !.deps = @ \ {d}, !.dep = d.name,
                                   !.rest = services[d.name].hosts, !.found = {}]
  <2>1. d \in Dependency /\ d.name \in Services
    BY <1>1, <1>2 DEF CollectorState, Dependency
  <2>2. services[d.name].hosts \in Seq(Hosts)
    BY <1>4, <2>1, VersionNat DEF Service
  <2>3. /\ col'.pc = "depHosts" /\ col'.deps = col.deps \ {d} /\ col'.dep = d.name
        /\ col'.out = col.out /\ col'.name = col.name /\ col'.svc = col.svc /\ col'.got = col.got
        /\ col' \in CollectorState
    BY <1>1, <1>4, <2>1, <2>2 DEF CollectorState
  <2>4. Unread(col') = Unread(col)
    BY <1>1, <1>2, <2>3 DEF Unread
  <2>5. InHandAges(col) => InHandAges(col')
    BY <2>3, <2>4 DEF InHandAges
  <2>6. \A v : Ahead(col, v) => Ahead(col', v)
    BY <2>3, <2>4 DEF Ahead
  <2>7. QED
    BY <1>1, <2>3, <2>5, <2>6, GoOnAges
<1>5. QED
  BY <1>2, <1>3, <1>4

LEMMA ReadNextHostAges ==
    ASSUME NEW seat, StoreType, CollectorAges(seat, col), X!ReadNextHost
    PROVE  CollectorAges(seat, col')
<1> DEFINE h == Head(col.rest)
           new == IF hosts[h] = None THEN {} ELSE {[name |-> h, attr |-> hosts[h]]}
<1>1. /\ col \in CollectorState /\ col.pc \in {"depHosts", "hosts"}
      /\ col.rest \in Seq(Hosts) /\ col.rest # <<>> /\ col.found \subseteq NamedHost
  BY DEF CollectorAges, X!ReadNextHost, CollectorState
<1>2. /\ Elements(col.rest) = {h} \cup Elements(Tail(col.rest))
      /\ h \in Hosts /\ Tail(col.rest) \in Seq(Hosts)
  BY <1>1, HeadTailElements
<1>3. new \subseteq NamedHost /\ \A f \in new : f.name = h
  BY <1>2 DEF StoreType, NamedHost
<1>4. col' = [col EXCEPT !.rest = Tail(@), !.found = col.found \cup new]
  BY <1>1 DEF X!ReadNextHost, CollectorState
<1> HIDE DEF h, new
<1>5. /\ col'.pc = col.pc /\ col'.deps = col.deps /\ col'.dep = col.dep
      /\ col'.rest = Tail(col.rest) /\ col'.found = col.found \cup new /\ col'.out = col.out
      /\ col'.name = col.name /\ col'.svc = col.svc /\ col'.got = col.got
      /\ col' \in CollectorState
  BY <1>1, <1>2, <1>3, <1>4 DEF CollectorState
<1>6. Unread(col') = Unread(col)
  BY <1>5 DEF Unread
<1>7. InHandAges(col) => InHandAges(col')
  BY <1>5, <1>6 DEF InHandAges
<1>8. \A v : Ahead(col, v) => Ahead(col', v)
  BY <1>5, <1>6 DEF Ahead
<1>9. Elements(col'.rest) \cup {f.name : f \in col'.found}
        \subseteq Elements(col.rest) \cup {f.name : f \in col.found}
  BY <1>2, <1>3, <1>5
<1>10. col'.pc = "hosts" =>
         /\ col'.deps = {}
         /\ \A x \in Elements(col'.rest) \cup {f.name : f \in col'.found} : seat[x] = col'.name
  BY <1>5, <1>9 DEF CollectorAges
<1>11. QED
  BY <1>1, <1>5, <1>7, <1>8, <1>10, GoOnAges

LEMMA ReadDependencyServiceAges ==
    ASSUME NEW seat, StoreType, CollectorAges(seat, col), X!ReadDependencyService
    PROVE  CollectorAges(seat, col')
<1>1. /\ col \in CollectorState /\ col.pc = "depHosts" /\ col.todo \in SUBSET Services
      /\ InHandAges(col)
  BY DEF CollectorAges, X!ReadDependencyService, CollectorState
<1>2. CASE col' = X!Visiting("next", col.todo)
  BY <1>1, <1>2, VisitingAges
<1>3. CASE /\ services[col.dep] # None
           /\ col' = [col EXCEPT !.pc = "deps",
                        !.got = @ \cup {[name |-> col.dep, service |-> services[col.dep],
                                         hosts |-> col.found]}]
  <2> DEFINE g == [name |-> col.dep, service |-> services[col.dep], hosts |-> col.found]
  <2>1. col.dep \in Unread(col)
    BY <1>1 DEF Unread
  <2>2. col.dep \in Services
    BY <1>1, <2>1, UnreadServices
  <2>3. /\ services[col.dep] \in Service /\ services[col.dep].version \in Nat
        /\ col.found \in SUBSET NamedHost
    BY <1>1, <1>3, <2>2, VersionNat DEF CollectorState
  <2>4. g \in DependencyRead /\ g.name = col.dep /\ g.service = services[col.dep]
    BY <2>2, <2>3 DEF DependencyRead
  <2> HIDE DEF g
  <2>5. /\ col'.pc = "deps" /\ col'.deps = col.deps /\ col'.out = col.out
        /\ col'.name = col.name /\ col'.svc = col.svc /\ col'.got = col.got \cup {g}
        /\ col' \in CollectorState
    BY <1>1, <1>3, <2>4 DEF CollectorState, g
  <2>6. Unread(col) = Unread(col') \cup {col.dep}
    BY <1>1, <2>5 DEF Unread
  <2>7. {x.name : x \in col'.got} = {x.name : x \in col.got} \cup {col.dep}
    BY <2>4, <2>5
  <2>8. \A x \in col'.got : x \in col.got \/ x = g
    BY <2>5
  <2>9. services[g.name] # None /\ g.service.version <= services[g.name].version
    BY <1>3, <2>3, <2>4
  <2>10. InHandAges(col) => InHandAges(col')
    BY <2>5, <2>6, <2>7, <2>8, <2>9 DEF InHandAges
  <2>11. \A v : Ahead(col, v) => Ahead(col', v)
    BY <2>4, <2>5, <2>6 DEF Ahead
  <2>12. QED
    BY <1>1, <2>5, <2>10, <2>11, GoOnAges
<1>4. QED
  BY <1>2, <1>3 DEF X!ReadDependencyService, X!NextService

LEMMA ReadOwnHostsAges ==
    ASSUME NEW seat, StoreType, ListsSeated(seat), CollectorAges(seat, col), X!ReadOwnHosts
    PROVE  CollectorAges(seat, col')
<1>1. /\ col \in CollectorState /\ col.pc = "deps" /\ col.deps = {}
      /\ InHandAges(col) /\ col.todo \in SUBSET Services
  BY DEF CollectorAges, X!ReadOwnHosts, CollectorState
<1>2. CASE col' = X!Visiting("next", col.todo)
  BY <1>1, <1>2, VisitingAges
<1>3. CASE col' = [col EXCEPT !.pc = "hosts", !.rest = services[col.name].hosts, !.found = {}]
  <2>1. col.name \in Services /\ services[col.name] # None
        /\ services[col.name].hosts \in Seq(Hosts)
    BY <1>1, VersionNat DEF InHandAges, Service
  <2>2. /\ col'.pc = "hosts" /\ col'.deps = col.deps /\ col'.out = col.out
        /\ col'.rest = services[col.name].hosts /\ col'.found = {}
        /\ col'.name = col.name /\ col'.svc = col.svc /\ col'.got = col.got
        /\ col' \in CollectorState
    BY <1>1, <1>3, <2>1 DEF CollectorState
  <2>3. Unread(col') = Unread(col)
    BY <1>1, <2>2 DEF Unread
  <2>4. InHandAges(col) => InHandAges(col')
    BY <2>2, <2>3 DEF InHandAges
  <2>5. \A v : Ahead(col, v) => Ahead(col', v)
    BY <2>2, <2>3 DEF Ahead
  <2>6. ASSUME NEW x \in Elements(col'.rest) PROVE x \in Hosts /\ ListedBy(col.name, x)
    BY <2>1, <2>2, <2>6 DEF ListedBy, Elements, Listed
  <2>7. \A x \in Elements(col'.rest) : seat[x] = col.name
    BY <2>1, <2>6 DEF ListsSeated
  <2>8. QED
    BY <1>1, <2>2, <2>4, <2>5, <2>7, GoOnAges
<1>4. QED
  BY <1>2, <1>3 DEF X!ReadOwnHosts, X!NextService


LEMMA MakeSnapshotsAges ==
    ASSUME NEW seat, StoreType, VersionsPast, clock \in Nat, CacheType,
           CollectorAges(seat, col), X!MakeSnapshots
    PROVE  CollectorAges(seat, col')
<1> DEFINE v == X!LatestNodeVersion(col.svc, col.got)
           s == col.name
<1>1. /\ col \in CollectorState /\ col.pc = "hosts" /\ col.rest = <<>> /\ col.deps = {}
      /\ col.found \subseteq NamedHost
      /\ InHandAges(col) /\ Unread(col) = {}
  BY DEF CollectorAges, X!MakeSnapshots, CollectorState, Unread
<1>2. /\ s \in Services /\ services[s] # None /\ services[s].version \in Nat
      /\ services[s].version <= clock
      /\ col.svc \in Service /\ col.svc.version \in Nat
      /\ col.svc.version <= services[s].version
  BY <1>1, VersionNat DEF InHandAges, VersionsPast, Service
<1>3. ASSUME NEW g \in col.got
      PROVE  /\ g.name \in Services /\ services[g.name] # None
             /\ g.service.version \in Nat /\ services[g.name].version \in Nat
             /\ services[g.name].version <= clock
             /\ g.service.version <= services[g.name].version
             /\ \E d \in col.svc.deps : d.name = g.name
  <2>1. g \in DependencyRead
    BY <1>1, <1>3 DEF CollectorState
  <2>2. /\ g.name \in Services /\ services[g.name] # None
        /\ g.service.version <= services[g.name].version
        /\ \E d \in col.svc.deps : d.name = g.name
    BY <1>1, <1>3, <2>1 DEF InHandAges, DependencyRead
  <2>3. g.service.version \in Nat
    BY <2>1 DEF DependencyRead, Service
  <2>4. QED
    BY <2>2, <2>3, VersionNat DEF VersionsPast
<1>4. UpTo(clock, col.svc, col.got)
  BY <1>2, <1>3 DEF UpTo
<1>5. Latest(v, col.svc, col.got)
  BY <1>4, LatestVersion
<1>6. ReadTyped(col.svc, col.got)
  BY <1>1, <1>2, <1>3 DEF ReadTyped, CollectorState
<1>7. ASSUME NEW f \in col.found
      PROVE  /\ X!HostSnapshot(col.svc, f.attr, col.got) \in Snapshot
             /\ X!HostSnapshot(col.svc, f.attr, col.got).version = v
  <2>1. f.attr \in HostAttr /\ v \in Nat
    BY <1>1, <1>5, <1>7 DEF NamedHost, Latest
  <2>2. X!HostSnapshot(col.svc, f.attr, col.got) \in Snapshot
    BY <1>6, <2>1, SnapshotType
  <2>3. X!HostSnapshot(col.svc, f.attr, col.got).version = v
    BY DEF X!HostSnapshot
  <2>4. QED
    BY <2>2, <2>3
<1> HIDE DEF v
<1>8. Within(s, v)
  <2>1. CASE v = col.svc.version
    BY <1>2, <2>1 DEF Within
  <2>2. ASSUME NEW g \in col.got, v = g.service.version PROVE Within(s, v)
    <3>1. CASE g.name \in Refers(s)
      BY <1>2, <1>3, <2>2, <3>1 DEF Within
    <3>2. CASE g.name \notin Refers(s)
      <4>1. services[g.name].version <= services[s].version
        BY <1>1, <1>3, <3>2 DEF InHandAges
      <4>2. v <= services[s].version
        BY <1>2, <1>3, <2>2, <4>1
      <4>3. QED
        BY <1>2, <4>2 DEF Within
    <3>3. QED
      BY <3>1, <3>2
  <2>3. QED
    BY <1>5, <2>1, <2>2 DEF Latest
<1>9. ASSUME NEW h \in Hosts, seat[h] = s, NEW snap \in Snaps(h) PROVE snap.version <= v
  <2>1. Ahead(col, snap.version)
    BY <1>1, <1>9 DEF CollectorAges
  <2>2. snap.version \in Nat
    BY <1>9, SnapsTyped
  <2>3. QED
    BY <1>1, <1>2, <1>3, <1>5, <2>1, <2>2 DEF Ahead, Latest
<1>10. PICK new : /\ \/ new = {<<f.name, X!HostSnapshot(col.svc, f.attr, col.got)>> : f \in col.found}
                     \/ new = {}
                  /\ col' = [col EXCEPT !.pc = "set", !.out = new]
  BY DEF X!MakeSnapshots
<1>11. ASSUME NEW x \in new
       PROVE  x \in Hosts \X Snapshot /\ seat[x[1]] = s /\ x[2].version = v
  <2>1. PICK f \in col.found : x = <<f.name, X!HostSnapshot(col.svc, f.attr, col.got)>>
    BY <1>10, <1>11
  <2>2. f.name \in Hosts
    BY <1>1 DEF NamedHost
  <2>3. seat[f.name] = s
    BY <1>1 DEF CollectorAges
  <2>4. QED
    BY <1>7, <2>1, <2>2, <2>3
<1>12. new \subseteq Hosts \X Snapshot
  BY <1>11
<1>13. col'.pc = "set" /\ col'.out = new /\ col' \in CollectorState
  BY <1>1, <1>10, <1>12 DEF CollectorState
<1>14. OutAges(seat, col')
  BY <1>8, <1>9, <1>11, <1>13 DEF OutAges
<1>15. QED
  BY <1>13, <1>14 DEF CollectorAges

(* A snapshot set is no older than what its node has; those that remain    *)
(* are of the same version.                                                *)
LEMMA SetSnapshotAges ==
    ASSUME NEW seat, DataAges(seat), CollectorAges(seat, col), X!SetSnapshot,
           services' = services
    PROVE  /\ \A c : c = col' => CollectorAges(seat, c)'
           /\ DataAges(seat)'
           /\ envoy' = envoy
<1>1. /\ col \in CollectorState /\ col.pc = "set" /\ col.out \subseteq Hosts \X Snapshot
      /\ OutAges(seat, col)
  BY DEF CollectorAges, X!SetSnapshot, CollectorState
<1>2. PICK x \in col.out :
          /\ col' = [col EXCEPT !.out = @ \ {x}]
          /\ cache' = [cache EXCEPT ![x[1]] = x[2]]
          /\ \/ /\ watching' = [watching EXCEPT ![x[1]] = FALSE]
                /\ flight' = [flight EXCEPT ![x[1]] = x[2]]
             \/ UNCHANGED <<watching, flight>>
          /\ envoy' = envoy
  BY DEF X!SetSnapshot
<1>3. x[1] \in Hosts /\ x[2] \in Snapshot /\ x[2].version \in Nat
  BY <1>1, <1>2 DEF Snapshot
<1>4. CacheType'
  BY <1>2, <1>3 DEF DataAges, CacheType
<1>5. ASSUME NEW h \in Hosts, NEW snap \in Snaps(h)'
      PROVE  snap \in Snaps(h) \/ (h = x[1] /\ snap = x[2])
  <2>1. /\ cache'[h] = cache[h] \/ (h = x[1] /\ cache'[h] = x[2])
        /\ flight'[h] = flight[h] \/ (h = x[1] /\ flight'[h] = x[2])
        /\ envoy'[h] = envoy[h]
    BY <1>2, <1>3 DEF DataAges, CacheType
  <2>2. snap # None /\ snap \in {cache'[h], envoy'[h], flight'[h]}
    BY <1>5 DEF Snaps
  <2>3. QED
    BY <2>1, <2>2 DEF Snaps
<1>6. \A t, k : Within(t, k)' <=> Within(t, k)
  BY DEF Within, Refers
<1>7. Within(seat[x[1]], x[2].version) /\ \A snap \in Snaps(x[1]) : snap.version <= x[2].version
  BY <1>1, <1>2 DEF OutAges
<1>8. SnapshotsAge(seat)'
  BY <1>5, <1>6, <1>7 DEF SnapshotsAge, DataAges
<1>9. SnapshotsInOrder'
  <2> SUFFICES ASSUME NEW h \in Hosts
               PROVE  /\ InOrder(envoy'[h], flight'[h])
                      /\ InOrder(envoy'[h], cache'[h])
                      /\ InOrder(flight'[h], cache'[h])
    BY DEF SnapshotsInOrder, InOrder
  <2>1. CASE h # x[1]
    <3>1. envoy'[h] = envoy[h] /\ flight'[h] = flight[h] /\ cache'[h] = cache[h]
      BY <1>2, <1>3, <2>1 DEF DataAges, CacheType
    <3>2. QED
      BY <3>1 DEF DataAges, SnapshotsInOrder
  <2>2. CASE h = x[1]
    <3>1. envoy'[h] = envoy[h] /\ cache'[h] = x[2] /\ flight'[h] \in {flight[h], x[2]}
      BY <1>2, <1>3, <2>2 DEF DataAges, CacheType
    <3>2. /\ InOrder(envoy[h], x[2]) /\ InOrder(flight[h], x[2]) /\ InOrder(x[2], x[2])
          /\ InOrder(envoy[h], flight[h])
      BY <1>3, <1>7, <2>2 DEF InOrder, Snaps, DataAges, SnapshotsInOrder
    <3>3. QED
      BY <3>1, <3>2
  <2>3. QED
    BY <2>1, <2>2
<1>10. ASSUME NEW c, c = col' PROVE CollectorAges(seat, c)'
  <2>1. c.pc = "set" /\ c.out = col.out \ {x} /\ c \in CollectorState
    BY <1>1, <1>2, <1>10 DEF CollectorState
  <2>2. ASSUME NEW y \in c.out
        PROVE  /\ Within(seat[y[1]], y[2].version)'
               /\ \A snap \in Snaps(y[1])' : snap.version <= y[2].version
               /\ \A z \in c.out : z[2].version = y[2].version
    <3>1. y \in col.out /\ y[1] \in Hosts /\ y[2].version = x[2].version
      BY <1>1, <1>2, <2>1 DEF OutAges
    <3>2. \A snap \in Snaps(y[1]) : snap.version <= y[2].version
      BY <1>1, <3>1 DEF OutAges
    <3>3. \A snap \in Snaps(y[1])' : snap.version <= y[2].version
      BY <1>3, <1>5, <3>1, <3>2
    <3>4. QED
      BY <1>1, <1>6, <2>1, <3>1, <3>3 DEF OutAges
  <2>3. QED
    BY <2>1, <2>2 DEF CollectorAges, OutAges
<1>11. QED
  BY <1>2, <1>4, <1>8, <1>9, <1>10 DEF DataAges


-----------------------------------------------------------------------------
(* Every step of the whole. *)

(* A step of the handlers, or a read. *)
LEMMA FrameAges ==
    ASSUME NEW seat, StoreType, StoreType', StoreAges, DataAges(seat),
           UNCHANGED <<cache, envoy, flight, watching>>, NEW c, CollectorAges(seat, c)
    PROVE  CollectorAges(seat, c)' /\ DataAges(seat)'
<1>1. \A h \in Hosts : Snaps(h)' \subseteq Snaps(h)
  BY DEF Snaps
<1>2. CacheType' /\ SnapshotsInOrder'
  BY DEF DataAges, CacheType, SnapshotsInOrder
<1>3. QED
  BY <1>1, <1>2, AgesMove DEF DataAges

LEMMA CollectAges ==
    ASSUME NEW seat, StoreType, StoreType', StoreAges, VersionsPast, clock \in Nat,
           ListsSeated(seat), DataAges(seat), CollectorAges(seat, col),
           X!Collect \/ X!ReadFails, services' = services
    PROVE  /\ \A c : c = col' => CollectorAges(seat, c)'
           /\ DataAges(seat)'
           /\ envoy' = envoy
<1>1. CacheType /\ SnapshotsAge(seat) /\ col.todo \in SUBSET Services
  BY DEF DataAges, CollectorAges, CollectorState
<1>2. CASE X!SetSnapshot
  BY <1>2, SetSnapshotAges
<1>3. CASE X!StartRound \/ X!EndRound \/ X!EndService \/ X!ReadFails
  <2>1. \E label \in {"asleep", "next"}, names \in SUBSET Services : col' = X!Visiting(label, names)
    <3>1. {s \in Services : services[s] # None} \in SUBSET Services /\ {} \in SUBSET Services
          /\ \A s : col.todo \ {s} \in SUBSET Services
      BY <1>1
    <3>2. \E names \in SUBSET Services :
             col' = X!Visiting("asleep", names) \/ col' = X!Visiting("next", names)
      BY <1>1, <1>3, <3>1
         DEF X!StartRound, X!EndRound, X!EndService, X!ReadFails, X!NextService, X!Asleep
    <3>3. QED
      BY <3>2
  <2>2. CollectorAges(seat, col')
    BY <2>1, VisitingAges
  <2>3. UNCHANGED <<cache, envoy, flight, watching>>
    BY <1>3 DEF X!StartRound, X!EndRound, X!EndService, X!ReadFails, X!ReadsOnly, X!dataPlane
  <2>4. QED
    BY <2>2, <2>3, FrameAges
<1>4. CASE \/ X!ReadService \/ X!ReadDependencyHosts \/ X!ReadNextHost
           \/ X!ReadDependencyService \/ X!ReadOwnHosts \/ X!MakeSnapshots
  <2>1. CollectorAges(seat, col')
    BY <1>1, <1>4, ReadServiceAges, ReadDependencyHostsAges, ReadNextHostAges,
       ReadDependencyServiceAges, ReadOwnHostsAges, MakeSnapshotsAges
  <2>2. UNCHANGED <<cache, envoy, flight, watching>>
    BY <1>4 DEF X!ReadService, X!ReadDependencyHosts, X!ReadNextHost, X!ReadDependencyService,
                X!ReadOwnHosts, X!MakeSnapshots, X!ReadsOnly, X!dataPlane
  <2>3. QED
    BY <2>1, <2>2, FrameAges
<1>5. QED
  BY <1>2, <1>3, <1>4 DEF X!Collect

(* The Envoy of a host runs with a version no older than before. *)
Forward(h) == envoy[h] # None => envoy'[h] # None /\ envoy[h].version <= envoy'[h].version

LEMMA EnvoyAges ==
    ASSUME NEW seat, StoreType, StoreType', StoreAges, DataAges(seat), CollectorAges(seat, col),
           NEW e \in Hosts, X!EnvoyStep(e)
    PROVE  /\ \A c : c = col' => CollectorAges(seat, c)'
           /\ DataAges(seat)'
           /\ \A h \in Hosts : Forward(h)
<1>1. CacheType /\ SnapshotsAge(seat) /\ SnapshotsInOrder
  BY DEF DataAges
<1>2. col' = col /\ cache' = cache
  BY DEF X!EnvoyStep, X!EnvoyRequest, X!EnvoyApply
<1>3. CASE X!EnvoyRequest(e)
  <2>1. /\ envoy' = envoy
        /\ \/ flight' = [flight EXCEPT ![e] = cache[e]] /\ watching' = watching
           \/ flight' = flight /\ watching' = [watching EXCEPT ![e] = TRUE]
    BY <1>3 DEF X!EnvoyRequest
  <2>2. CacheType'
    BY <1>1, <1>2, <2>1 DEF CacheType
  <2>3. \A h \in Hosts : flight'[h] = flight[h] \/ flight'[h] = cache[h]
    BY <1>1, <2>1 DEF CacheType
  <2>4. \A h \in Hosts : Snaps(h)' \subseteq Snaps(h)
    BY <1>2, <2>1, <2>3 DEF Snaps
  <2>5. \A h \in Hosts : cache[h] # None => cache[h].version \in Nat
    BY <1>1 DEF CacheType, Snapshot
  <2>6. SnapshotsInOrder'
    BY <1>1, <1>2, <2>1, <2>3, <2>5 DEF SnapshotsInOrder, InOrder
  <2>7. \A h \in Hosts : envoy[h] # None => envoy[h].version \in Nat
    BY <1>1 DEF CacheType, Snapshot
  <2>8. \A h \in Hosts : Forward(h)
    BY <2>1, <2>7 DEF Forward
  <2>9. QED
    BY <1>1, <1>2, <2>2, <2>4, <2>6, <2>8, AgesMove DEF DataAges
<1>4. CASE X!EnvoyApply(e)
  <2>1. /\ flight[e] # None /\ watching' = watching
        /\ envoy' = [envoy EXCEPT ![e] = flight[e]] /\ flight' = [flight EXCEPT ![e] = None]
    BY <1>4 DEF X!EnvoyApply
  <2>2. CacheType'
    BY <1>1, <1>2, <2>1 DEF CacheType
  <2>3. /\ envoy'[e] = flight[e] /\ flight'[e] = None
        /\ \A h \in Hosts : h # e => envoy'[h] = envoy[h] /\ flight'[h] = flight[h]
    BY <1>1, <2>1 DEF CacheType
  <2>4. \A h \in Hosts : Snaps(h)' \subseteq Snaps(h)
    BY <1>2, <2>3 DEF Snaps
  <2>5. SnapshotsInOrder'
    BY <1>1, <1>2, <2>3 DEF SnapshotsInOrder, InOrder
  <2>6. \A h \in Hosts : envoy[h] # None => envoy[h].version \in Nat
    BY <1>1 DEF CacheType, Snapshot
  <2>7. \A h \in Hosts : Forward(h)
    BY <1>1, <2>1, <2>3, <2>6 DEF Forward, SnapshotsInOrder, InOrder
  <2>8. QED
    BY <1>1, <1>2, <2>2, <2>4, <2>5, <2>7, AgesMove DEF DataAges
<1>5. QED
  BY <1>3, <1>4 DEF X!EnvoyStep

(* A crash loses snapshots, and those that remain keep their order. *)
LEMMA RestartAges ==
    ASSUME NEW seat, StoreType, StoreType', StoreAges, DataAges(seat), X!XdsRestart
    PROVE  /\ \A c : c = col' => CollectorAges(seat, c)'
           /\ DataAges(seat)'
           /\ envoy' = envoy
<1>1. /\ col' = X!Visiting("asleep", {}) /\ {} \in SUBSET Services
      /\ cache' = [h \in Hosts |-> None] /\ flight' = [h \in Hosts |-> None]
      /\ watching' = [h \in Hosts |-> FALSE] /\ envoy' = envoy
  BY DEF X!XdsRestart, X!Asleep
<1>2. CollectorAges(seat, col')
  BY <1>1, VisitingAges
<1>3. CacheType' /\ SnapshotsInOrder'
  BY <1>1 DEF DataAges, CacheType, SnapshotsInOrder, InOrder
<1>4. \A h \in Hosts : Snaps(h)' \subseteq Snaps(h)
  BY <1>1 DEF Snaps
<1>5. QED
  BY <1>1, <1>2, <1>3, <1>4, AgesMove DEF DataAges

LEMMA InitAges ==
    ASSUME NEW owner, NEW home, NEW seat, NEW lasting, Isolated(owner, home),
           InitialVersionsPast, HostsSeated(seat), DependenciesStay(lasting), MeshInit
    PROVE  MeshAges(owner, home, seat, lasting)
<1>1. AgingInv(owner, home, seat, lasting)
  BY InitAging DEF MeshInit
<1>2. /\ col = X!Visiting("asleep", {}) /\ {} \in SUBSET Services
      /\ cache = [h \in Hosts |-> None] /\ envoy = [h \in Hosts |-> None]
      /\ flight = [h \in Hosts |-> None] /\ watching = [h \in Hosts |-> FALSE]
  BY DEF MeshInit, X!XdsInit, X!Asleep
<1>3. CollectorAges(seat, col)
  BY <1>2, VisitingAges
<1>4. \A h \in Hosts : Snaps(h) = {}
  BY <1>2 DEF Snaps
<1>5. DataAges(seat)
  BY <1>2, <1>4 DEF DataAges, CacheType, SnapshotsAge, SnapshotsInOrder, InOrder
<1>6. QED
  BY <1>1, <1>3, <1>5 DEF MeshAges

LEMMA StepAges ==
    ASSUME NEW owner, NEW home, NEW seat, NEW lasting, Isolated(owner, home), Extends = {},
           NoServiceRemoved, HostsSeated(seat), DependenciesStay(lasting),
           MeshAges(owner, home, seat, lasting), [MeshNext]_meshVars
    PROVE  MeshAges(owner, home, seat, lasting)' /\ \A h \in Hosts : Forward(h)
<1>1. /\ AgingInv(owner, home, seat, lasting) /\ DataAges(seat) /\ CollectorAges(seat, col)
      /\ StoreType /\ VersionsPast /\ clock \in Nat /\ ListsSeated(seat)
  BY TypeInvParts DEF MeshAges, AgingInv, CurrentInv, ApartInv, VersionInv, TypeInv, CounterType
<1>2. AgingInv(owner, home, seat, lasting)' => StoreType'
  BY TypeInvParts2 DEF AgingInv, CurrentInv, ApartInv
<1>3. \A h \in Hosts : envoy[h] # None => envoy[h].version \in Nat
  BY <1>1 DEF DataAges, CacheType, Snapshot
<1>4. ASSUME envoy' = envoy PROVE \A h \in Hosts : Forward(h)
  BY <1>3, <1>4 DEF Forward
<1>5. CASE [Next]_vars /\ UNCHANGED xdsVars
  <2>1. AgingInv(owner, home, seat, lasting)' /\ StoreAges
    BY <1>1, <1>5, StepAging
  <2>2. UNCHANGED <<col, cache, envoy, flight, watching>>
    BY <1>5 DEF xdsVars
  <2>3. ASSUME NEW c, c = col' PROVE CollectorAges(seat, c)' /\ DataAges(seat)'
    <3>1. CollectorAges(seat, c)
      BY <1>1, <2>2, <2>3
    <3>2. QED
      BY <1>1, <1>2, <2>1, <2>2, <3>1, FrameAges
  <2>4. QED
    BY <1>4, <2>1, <2>2, <2>3 DEF MeshAges
<1>6. CASE CollectStep \/ CollectError
  <2>1. AgingInv(owner, home, seat, lasting)' /\ StoreAges
    <3>1. CASE CollectStep
      BY <1>1, <3>1, StepAging DEF CollectStep
    <3>2. CASE CollectError
      BY <1>1, <3>2, FaultAging DEF CollectError
    <3>3. QED
      BY <1>6, <3>1, <3>2
  <2>2. (X!Collect \/ X!ReadFails) /\ services' = services
    BY <1>6 DEF CollectStep, CollectError, vars, store
  <2>3. /\ \A c : c = col' => CollectorAges(seat, c)'
        /\ DataAges(seat)' /\ envoy' = envoy
    BY <1>1, <1>2, <2>1, <2>2, CollectAges
  <2>4. QED
    BY <1>4, <2>1, <2>3 DEF MeshAges
<1>7. ASSUME NEW e \in Envoys, Envoy(e)
      PROVE  MeshAges(owner, home, seat, lasting)' /\ \A h \in Hosts : Forward(h)
  <2>1. AgingInv(owner, home, seat, lasting)' /\ StoreAges
    BY <1>1, <1>7, StepAging DEF Envoy
  <2>2. e \in Hosts /\ X!EnvoyStep(e)
    BY <1>7, MeshConstants DEF Envoy
  <2>3. QED
    BY <1>1, <1>2, <2>1, <2>2, EnvoyAges DEF MeshAges
<1>8. CASE ServerCrash
  <2>1. AgingInv(owner, home, seat, lasting)' /\ StoreAges
    BY <1>1, <1>8, StepAging DEF ServerCrash, Next
  <2>2. /\ \A c : c = col' => CollectorAges(seat, c)'
        /\ DataAges(seat)' /\ envoy' = envoy
    BY <1>1, <1>2, <1>8, <2>1, RestartAges DEF ServerCrash
  <2>3. QED
    BY <1>4, <2>1, <2>2 DEF MeshAges
<1>9. ASSUME NEW p \in Handlers, Handle(p) \/ Arrive(p) \/ CallError(p)
      PROVE  [Next]_vars /\ UNCHANGED xdsVars
  BY <1>9 DEF Handle, Arrive, CallError, Next
<1>10. ClockTick \/ UNCHANGED meshVars => [Next]_vars /\ UNCHANGED xdsVars
  BY DEF ClockTick, Next, meshVars
<1>11. QED
  BY <1>5, <1>6, <1>7, <1>8, <1>9, <1>10 DEF MeshNext

(* With services and hosts left to one handler each, no service removed,   *)
(* every host of one service for good, and only dependencies given up that *)
(* no request changes, an Envoy never goes back to an older version of its *)
(* configuration, nor to none: whatever fails, whenever the server crashes,*)
(* and though the collector reads call by call what handlers write         *)
(* (server.go:98-131, snapshot_gen.go:212).                                *)
THEOREM EnvoyNeverGoesBack ==
    ASSUME NEW CONSTANT owner, NEW CONSTANT home, NEW CONSTANT seat, NEW CONSTANT lasting,
           Isolated(owner, home), Extends = {}, InitialVersionsPast, NoServiceRemoved,
           HostsSeated(seat), DependenciesStay(lasting)
    PROVE  MeshSpec => NeverGoesBack
<1>1. MeshInit => MeshAges(owner, home, seat, lasting)
  BY InitAges
<1>2. MeshAges(owner, home, seat, lasting) /\ [MeshNext]_meshVars
        => MeshAges(owner, home, seat, lasting)'
  BY StepAges
<1>3. MeshAges(owner, home, seat, lasting) /\ [MeshNext]_meshVars
        => [\A h \in Envoys : envoy[h] # None =>
              envoy'[h] # None /\ envoy[h].version <= envoy'[h].version]_meshVars
  BY StepAges, MeshConstants DEF Forward
<1>4. QED
  BY <1>1, <1>2, <1>3, PTL DEF MeshSpec, NeverGoesBack


-----------------------------------------------------------------------------
(* A failing call of the collector does nothing to the store. *)
LEMMA FaultValid ==
    ASSUME ValidInv, UNCHANGED <<store, clock, run, client, accepted>>, faults' = faults + 1
    PROVE  ValidInv'
<1> TypeInv /\ StoredValid /\ AllHeldValid
  BY DEF ValidInv
<1>1. /\ services' = services /\ hosts' = hosts /\ catalog' = catalog
      /\ clock' = clock /\ run' = run
      /\ request' = request /\ reply' = reply /\ changed' = changed /\ repeat' = repeat
      /\ accepted' = accepted
  BY DEF store, client
<1>2. StoreType' /\ ClientType' /\ CounterType' /\ RunType'
  BY <1>1, TypeInvParts DEF StoreType, ClientType, CounterType, RunType
<1>3. TypeInv'
  BY <1>2, TypeInvParts2
<1>4. StoredValid' /\ AllHeldValid'
  BY <1>1 DEF StoredValid, Stored, AllHeldValid, HeldValid
<1>5. QED
  BY <1>3, <1>4 DEF ValidInv

LEMMA StepServerValid ==
    ASSUME ValidInv, [MeshNext]_meshVars
    PROVE  ValidInv'
<1>1. [Next]_vars \/ CollectError
  BY DEF MeshNext, Handle, Arrive, CallError, ClockTick, CollectStep, Envoy, ServerCrash,
         Next, meshVars
<1>2. CASE [Next]_vars
  BY <1>2, StepValid
<1>3. CASE CollectError
  BY <1>3, FaultValid DEF CollectError
<1>4. QED
  BY <1>1, <1>2, <1>3

(* Whatever the clients ask and whatever fails, handlers or collector, no  *)
(* record the collector may read is malformed.                             *)
THEOREM ServerStoreStaysValid == MeshSpec => []StoredValid
<1>1. MeshInit => ValidInv
  BY InitValid DEF MeshInit
<1>2. ValidInv /\ [MeshNext]_meshVars => ValidInv'
  BY StepServerValid
<1>3. ValidInv => StoredValid
  BY DEF ValidInv
<1>4. QED
  BY <1>1, <1>2, <1>3, PTL DEF MeshSpec

(* So it may make snapshots of what it has read: what it read was valid.   *)
Fields == {"pc", "todo", "name", "svc", "deps", "got", "dep", "rest", "found", "out"}

Sound(c) ==
    /\ DOMAIN c = Fields
    /\ c.todo \in SUBSET Services
    /\ c.pc \in {"deps", "depHosts", "hosts"} =>
          /\ c.name \in Services /\ c.deps \in SUBSET Dependency
          /\ c.svc.protocol \in Protocols
          /\ \A g \in c.got : g.service.protocol \in Protocols
    /\ c.pc = "depHosts" => c.dep \in Services
    /\ c.pc \in {"depHosts", "hosts"} =>
          /\ c.rest \in Seq(Hosts)
          /\ \A f \in c.found : f.attr.egress \notin Unparsable

(* What is read is valid. *)
LEMMA ReadsValid ==
    ASSUME ValidInv
    PROVE  /\ \A s \in Services : services[s] # None =>
                 /\ services[s].protocol \in Protocols
                 /\ services[s].deps \in SUBSET Dependency
                 /\ services[s].hosts \in Seq(Hosts)
           /\ \A h \in Hosts : hosts[h] # None => hosts[h].egress \notin Unparsable
<1>1. StoreType /\ StoredValid
  BY TypeInvParts DEF ValidInv
<1>2. ASSUME NEW s \in Services, services[s] # None
      PROVE  /\ services[s].protocol \in Protocols
             /\ services[s].deps \in SUBSET Dependency
             /\ services[s].hosts \in Seq(Hosts)
  BY <1>1, <1>2, VersionNat DEF StoredValid, Stored, ValidRecord, Service
<1>3. \A h \in Hosts : hosts[h] # None => hosts[h].egress \notin Unparsable
  BY <1>1 DEF StoredValid, NewHostOK, ValidHost
<1>4. QED
  BY <1>2, <1>3

LEMMA VisitingSound ==
    ASSUME NEW label \in {"asleep", "next"}, NEW names \in SUBSET Services
    PROVE  Sound(X!Visiting(label, names))
  BY DEF X!Visiting, Sound, Fields

LEMMA CollectSound ==
    ASSUME ValidInv, Sound(col), X!Collect \/ X!ReadFails
    PROVE  Sound(col')
<1>1. DOMAIN col = Fields /\ col.todo \in SUBSET Services
  BY DEF Sound
<1>2. ASSUME NEW names \in SUBSET Services, NEW label \in {"asleep", "next"},
             col' = X!Visiting(label, names)
      PROVE  Sound(col')
  BY <1>2, VisitingSound
<1>3. CASE X!StartRound \/ X!EndRound \/ X!EndService \/ X!ReadFails
  <2>1. {s \in Services : services[s] # None} \in SUBSET Services /\ {} \in SUBSET Services
        /\ \A s : col.todo \ {s} \in SUBSET Services
    BY <1>1
  <2>2. \E names \in SUBSET Services :
           col' = X!Visiting("asleep", names) \/ col' = X!Visiting("next", names)
    BY <1>1, <1>3, <2>1
       DEF X!StartRound, X!EndRound, X!EndService, X!ReadFails, X!NextService, X!Asleep
  <2>3. QED
    BY <1>2, <2>2
<1>4. CASE X!ReadService
  <2>1. PICK s \in col.todo :
          \/ services[s] = None /\ col' = X!Visiting("next", col.todo \ {s})
          \/ /\ services[s] # None
             /\ col' = [X!Visiting("deps", col.todo \ {s}) EXCEPT
                          !.name = s, !.svc = services[s], !.deps = services[s].deps]
    BY <1>4 DEF X!ReadService
  <2>2. s \in Services /\ col.todo \ {s} \in SUBSET Services
    BY <1>1
  <2>3. CASE col' = X!Visiting("next", col.todo \ {s})
    BY <1>2, <2>2, <2>3
  <2>4. CASE /\ services[s] # None
             /\ col' = [X!Visiting("deps", col.todo \ {s}) EXCEPT
                          !.name = s, !.svc = services[s], !.deps = services[s].deps]
    <3> DEFINE v == X!Visiting("deps", col.todo \ {s})
    <3>1. /\ DOMAIN v = Fields /\ v.pc = "deps" /\ v.todo = col.todo \ {s} /\ v.got = {}
      BY DEF X!Visiting, Fields
    <3>2. col' = [v EXCEPT !.name = s, !.svc = services[s], !.deps = services[s].deps]
      BY <2>4
    <3> HIDE DEF v
    <3>3. /\ DOMAIN col' = Fields /\ col'.pc = "deps" /\ col'.todo = col.todo \ {s}
          /\ col'.name = s /\ col'.svc = services[s] /\ col'.deps = services[s].deps
          /\ col'.got = {}
      BY <3>1, <3>2 DEF Fields
    <3>4. services[s].protocol \in Protocols /\ services[s].deps \in SUBSET Dependency
      BY <2>2, <2>4, ReadsValid
    <3>5. QED
      BY <2>2, <3>3, <3>4 DEF Sound
  <2>5. QED
    BY <2>1, <2>3, <2>4
<1>5. CASE X!ReadDependencyHosts
  <2>1. PICK d \in col.deps :
          \/ col' = X!Visiting("next", col.todo)
          \/ /\ services[d.name] # None
             /\ col' = [col EXCEPT !.pc = "depHosts", !.deps = @ \ {d}, !.dep = d.name,
                                   !.rest = services[d.name].hosts, !.found = {}]
    BY <1>5 DEF X!ReadDependencyHosts, X!NextService
  <2>2. CASE col' = X!Visiting("next", col.todo)
    BY <1>1, <1>2, <2>2
  <2>3. CASE /\ services[d.name] # None
             /\ col' = [col EXCEPT !.pc = "depHosts", !.deps = @ \ {d}, !.dep = d.name,
                                   !.rest = services[d.name].hosts, !.found = {}]
    <3>1. /\ DOMAIN col' = Fields /\ col'.pc = "depHosts" /\ col'.deps = col.deps \ {d}
          /\ col'.dep = d.name /\ col'.rest = services[d.name].hosts /\ col'.found = {}
          /\ col'.todo = col.todo /\ col'.name = col.name /\ col'.svc = col.svc
          /\ col'.got = col.got
      BY <1>1, <2>3 DEF Fields
    <3>2. col.pc = "deps"
      BY <1>5 DEF X!ReadDependencyHosts
    <3>3. d.name \in Services
      BY <2>1, <3>2 DEF Sound, Dependency
    <3>4. services[d.name].hosts \in Seq(Hosts)
      BY <2>3, <3>3, ReadsValid
    <3>5. QED
      BY <3>1, <3>2, <3>3, <3>4 DEF Sound
  <2>4. QED
    BY <2>1, <2>2, <2>3
<1>6. CASE X!ReadNextHost
  <2> DEFINE h == Head(col.rest)
             new == IF hosts[h] = None THEN {} ELSE {[name |-> h, attr |-> hosts[h]]}
  <2>1. col.pc \in {"depHosts", "hosts"} /\ col.rest # <<>> /\ col.rest \in Seq(Hosts)
    BY <1>6 DEF X!ReadNextHost, Sound
  <2>2. h \in Hosts /\ Tail(col.rest) \in Seq(Hosts)
    BY <2>1
  <2>3. \A f \in new : f.attr.egress \notin Unparsable
    BY <2>2, ReadsValid
  <2>4. col' = [col EXCEPT !.rest = Tail(@), !.found = col.found \cup new]
    BY <1>1, <1>6 DEF X!ReadNextHost, Fields
  <2> HIDE DEF h, new
  <2>5. /\ DOMAIN col' = Fields /\ col'.rest = Tail(col.rest) /\ col'.found = col.found \cup new
        /\ col'.pc = col.pc /\ col'.deps = col.deps /\ col'.dep = col.dep /\ col'.todo = col.todo
        /\ col'.name = col.name /\ col'.svc = col.svc /\ col'.got = col.got
    BY <1>1, <2>4 DEF Fields
  <2>6. QED
    BY <2>1, <2>2, <2>3, <2>5 DEF Sound
<1>7. CASE X!ReadDependencyService
  <2>1. CASE col' = X!Visiting("next", col.todo)
    BY <1>1, <1>2, <2>1
  <2>2. CASE /\ services[col.dep] # None
             /\ col' = [col EXCEPT !.pc = "deps",
                          !.got = @ \cup {[name |-> col.dep, service |-> services[col.dep],
                                           hosts |-> col.found]}]
    <3> DEFINE g == [name |-> col.dep, service |-> services[col.dep], hosts |-> col.found]
    <3>1. col.pc = "depHosts" /\ col.dep \in Services
      BY <1>7 DEF X!ReadDependencyService, Sound
    <3>2. g.service.protocol \in Protocols
      BY <2>2, <3>1, ReadsValid
    <3> HIDE DEF g
    <3>3. /\ DOMAIN col' = Fields /\ col'.pc = "deps" /\ col'.got = col.got \cup {g}
          /\ col'.deps = col.deps /\ col'.todo = col.todo
          /\ col'.name = col.name /\ col'.svc = col.svc
      BY <1>1, <2>2 DEF Fields, g
    <3>4. QED
      BY <3>1, <3>2, <3>3 DEF Sound
  <2>3. QED
    BY <1>7, <2>1, <2>2 DEF X!ReadDependencyService, X!NextService
<1>8. CASE X!ReadOwnHosts
  <2>1. CASE col' = X!Visiting("next", col.todo)
    BY <1>1, <1>2, <2>1
  <2>2. CASE /\ services[col.name] # None
             /\ col' = [col EXCEPT !.pc = "hosts", !.rest = services[col.name].hosts, !.found = {}]
    <3>1. col.pc = "deps" /\ col.name \in Services
      BY <1>8 DEF X!ReadOwnHosts, Sound
    <3>2. services[col.name].hosts \in Seq(Hosts)
      BY <2>2, <3>1, ReadsValid
    <3>3. /\ DOMAIN col' = Fields /\ col'.pc = "hosts" /\ col'.rest = services[col.name].hosts
          /\ col'.found = {} /\ col'.deps = col.deps /\ col'.todo = col.todo
          /\ col'.name = col.name /\ col'.svc = col.svc /\ col'.got = col.got
      BY <1>1, <2>2 DEF Fields
    <3>4. QED
      BY <3>1, <3>2, <3>3 DEF Sound
  <2>3. QED
    BY <1>8, <2>1, <2>2 DEF X!ReadOwnHosts, X!NextService
<1>9. CASE X!MakeSnapshots \/ X!SetSnapshot
  <2>1. /\ DOMAIN col' = Fields /\ col'.pc = "set" /\ col'.todo = col.todo
    BY <1>1, <1>9 DEF X!MakeSnapshots, X!SetSnapshot, Fields
  <2>2. QED
    BY <1>1, <2>1 DEF Sound
<1>10. QED
  BY <1>3, <1>4, <1>5, <1>6, <1>7, <1>8, <1>9 DEF X!Collect

(* The collector never reads what it can make no snapshot of, so that an   *)
(* unknown protocol or an address that cannot be parsed never keeps the    *)
(* hosts of a service from their snapshots (snapshot_gen.go:93), whatever  *)
(* the clients ask, however many handlers race, and whatever fails.        *)
THEOREM SnapshotsAlwaysMade == MeshSpec => []SnapshotsMade
<1> DEFINE Inv == ValidInv /\ Sound(col)
<1>1. MeshInit => Inv
  BY InitValid, VisitingSound DEF MeshInit, X!XdsInit, X!Asleep
<1>2. Inv /\ [MeshNext]_meshVars => Inv'
  <2> SUFFICES ASSUME Inv, [MeshNext]_meshVars PROVE Inv'
    OBVIOUS
  <2>1. ValidInv'
    BY StepServerValid
  <2>2. Sound(col')
    <3>1. CASE X!Collect \/ X!ReadFails
      BY <3>1, CollectSound
    <3>2. CASE col' = X!Visiting("asleep", {})
      BY <3>2, VisitingSound
    <3>3. CASE col' = col
      BY <3>3
    <3>4. QED
      BY <3>1, <3>2, <3>3
         DEF MeshNext, Handle, Arrive, CallError, ClockTick, CollectStep, CollectError, Envoy,
             ServerCrash, meshVars, xdsVars, X!EnvoyStep, X!EnvoyRequest, X!EnvoyApply,
             X!XdsRestart, X!Asleep
  <2>3. Sound(col)'
    BY <2>2 DEF Sound
  <2>4. QED
    BY <2>1, <2>3
<1>3. Inv => SnapshotsMade
  <2> SUFFICES ASSUME Sound(col), col.pc = "hosts"
               PROVE  X!Servable(col.svc, col.found, col.got)
    BY DEF SnapshotsMade
  <2>1. /\ col.svc.protocol \in Protocols
        /\ \A g \in col.got : g.service.protocol \in Protocols
        /\ \A f \in col.found : f.attr.egress \notin Unparsable
    BY DEF Sound
  <2>2. QED
    BY <2>1 DEF X!Servable, X!Protocols, Protocols
<1>4. QED
  BY <1>1, <1>2, <1>3, PTL DEF MeshSpec
=============================================================================
