------------------------------ MODULE Inventory ------------------------------
(***************************************************************************)
(* The inventory service of the meshem server (core/inventory.go) over its *)
(* Consul repositories (repository/*_consul.go, utils/consul.go).          *)
(*                                                                         *)
(* A handler is a goroutine serving one HTTP request.  It works through    *)
(* the inventory operations the request stands for, and every operation is *)
(* a series of calls to the key-value store and to the catalog with no     *)
(* transaction, lock or check-and-set around it: one action per call.      *)
(* Between two calls other handlers run, the clock ticks, the process may  *)
(* die, and a call may answer an error.                                    *)
(***************************************************************************)
EXTENDS MeshModel

CONSTANTS
    Handlers,      \* goroutines serving requests
    Requests,      \* handler -> the requests its clients may send
    Extends,       \* <<n, m>>: the name m is n followed by more characters
    Discovery,     \* is a discovery repository configured?
    Faults,        \* which of "crash" and "error" may happen
    InitServices,  \* the service records in the store at the start
    InitHosts,     \* the host records in the store at the start
    MaxClock,      \* bound on the clock
    MaxRequests,   \* bound on the requests accepted, retries not counted
    MaxFaults      \* bound on crashes and failed calls

VARIABLES
    services,  \* KV store, services/<name>: the record or None
    hosts,     \* KV store, hosts/<name>: the attributes or None
    catalog,   \* Consul catalog: host name -> machine of its admin address
    clock,     \* wall clock in milliseconds, the source of versions
    run,       \* handler -> its control point and local variables
    request,   \* handler -> its client's last request
    reply,     \* handler -> the answer to it: "none", "ok", "error"
    changed,   \* handler -> the "changed" a PUT answers
    repeat,    \* handler -> is this PUT the one just answered "ok"?
    accepted,  \* requests accepted so far
    faults     \* faults so far

store  == <<services, hosts, catalog>>
client == <<request, reply, changed, repeat>>
bounds == <<accepted, faults>>
vars   == <<store, clock, run, client, bounds>>

-----------------------------------------------------------------------------
(* The operations of interface InventoryService that write, and the two    *)
(* writes IdempotentService and UnregisterService end with.  "at" is the   *)
(* position in the list a loop of the code runs over.                      *)

RegisterServiceOp   == [kind : {"RegisterService"}, at : Nat,
                        service : Services, protocol : AnyProtocol]
UnregisterServiceOp == [kind : {"UnregisterService"}, at : Nat, service : Services]
AddDependencyOp     == [kind : {"AddDependency"}, at : Nat,
                        service : Services, dep : Dependency]
RemoveDependencyOp  == [kind : {"RemoveDependency"}, at : Nat,
                        service : Services, name : Services]
RegisterHostOp      == [kind : {"RegisterHost"}, at : Nat,
                        service : Services, host : Hosts, attr : HostAttr]
UnregisterHostOp    == [kind : {"UnregisterHost"}, at : Nat,
                        service : Services, host : Hosts]
UpdateHostOp        == [kind : {"UpdateHost"}, at : Nat,
                        service : Services, host : Hosts, attr : HostUpdate]
PutOp               == [kind : {"Put"}, at : Nat, service : Services,
                        protocol : AnyProtocol,
                        hosts : Seq(NamedHost), deps : Seq(Dependency)]
PutParamOp          == [kind : {"PutParam"}, at : Nat,
                        service : Services, record : Service]
DeleteServiceOp     == [kind : {"DeleteService"}, at : Nat, service : Services]

Request == RegisterServiceOp \cup UnregisterServiceOp \cup AddDependencyOp
           \cup RemoveDependencyOp \cup RegisterHostOp \cup UnregisterHostOp
           \cup UpdateHostOp \cup PutOp

Op == Request \cup PutParamOp \cup DeleteServiceOp

(* The order in which the operations of one request run. *)
Rank == [Put |-> 0, UnregisterService |-> 0, RegisterService |-> 1,
         AddDependency |-> 2, RegisterHost |-> 3, UnregisterHost |-> 4,
         UpdateHost |-> 5, PutParam |-> 6, RemoveDependency |-> 7,
         DeleteService |-> 8]

Before(a, b) == \/ Rank[a.kind] < Rank[b.kind]
                \/ a.kind = b.kind /\ a.at < b.at

First(ops) == {o \in ops : \A x \in ops : ~Before(x, o)}

-----------------------------------------------------------------------------
(* What a PUT r does, once it has read the service and its hosts.          *)

ParamNames(r) == {r.hosts[i].name : i \in DOMAIN r.hosts}

ParamService(r) ==
    [hosts    |-> [i \in 1..Len(r.hosts) |-> r.hosts[i].name],
     deps     |-> Elements(r.deps),
     protocol |-> r.protocol,
     version  |-> 0]

(* paramHostsMap keeps the last host of each name. *)
InParamMap(r, i) == \A j \in DOMAIN r.hosts : r.hosts[j].name = r.hosts[i].name => j <= i

CreatePlan(r) ==
    {[kind |-> "RegisterService", at |-> 0, service |-> r.service, protocol |-> r.protocol]}
    \cup {[kind |-> "AddDependency", at |-> i, service |-> r.service, dep |-> r.deps[i]] :
            i \in DOMAIN r.deps}
    \cup {[kind |-> "RegisterHost", at |-> i, service |-> r.service,
           host |-> r.hosts[i].name, attr |-> r.hosts[i].attr] : i \in DOMAIN r.hosts}

(* newHosts, in the order of the parameter *)
NewHosts(r, current) ==
    {[kind |-> "RegisterHost", at |-> x[1], service |-> r.service,
      host |-> r.hosts[x[2]].name, attr |-> r.hosts[x[2]].attr] :
        x \in {y \in (DOMAIN r.hosts) \X (DOMAIN r.hosts) :
                 /\ r.hosts[y[1]].name = r.hosts[y[2]].name
                 /\ InParamMap(r, y[2])
                 /\ \A j \in DOMAIN current : current[j].name # r.hosts[y[1]].name}}

(* delHosts, in the order of the service's list *)
DelHosts(r, current) ==
    {[kind |-> "UnregisterHost", at |-> j, service |-> r.service, host |-> current[j].name] :
        j \in {k \in DOMAIN current : current[k].name \notin ParamNames(r)}}

(* Mutant: modifiedHosts without the comparison of the attributes. *)
AllHostsModified(r, current) ==
    {[kind |-> "UpdateHost", at |-> i, service |-> r.service,
      host |-> r.hosts[i].name, attr |-> r.hosts[i].attr] :
        i \in {k \in DOMAIN r.hosts : \E j \in DOMAIN current : current[j].name = r.hosts[k].name}}

(* the members of modifiedHosts whose attributes differ *)
ModifiedHosts(r, current) ==
    {[kind |-> "UpdateHost", at |-> x[1], service |-> r.service,
      host |-> r.hosts[x[2]].name, attr |-> r.hosts[x[2]].attr] :
        x \in {y \in (DOMAIN current) \X (DOMAIN r.hosts) :
                 /\ current[y[1]].name = r.hosts[y[2]].name
                 /\ InParamMap(r, y[2])
                 /\ current[y[1]].attr # r.hosts[y[2]].attr}}

(* The record is rewritten from the parameter when protocol or dependencies differ. *)
ServiceDiff(r, svc) ==
    IF r.protocol # svc.protocol \/ Elements(r.deps) # svc.deps
    THEN {[kind |-> "PutParam", at |-> 0, service |-> r.service, record |-> ParamService(r)]}
    ELSE {}

UpdatePlan(r, svc, current) ==
    NewHosts(r, current) \cup DelHosts(r, current)
    \cup ModifiedHosts(r, current) \cup ServiceDiff(r, svc)

-----------------------------------------------------------------------------
(* The local state of a handler at a label, with operations left to do and *)
(* none in hand.                                                           *)
At(label, ops) ==
    [pc    |-> label,   \* the call it makes next
     todo  |-> ops,     \* operations of the request not begun yet
     op    |-> None,    \* the operation in hand
     cur   |-> None,    \* the service record read or built
     ver   |-> 0,       \* the version drawn for the write to come
     attr  |-> None,    \* the host attributes to write
     rest  |-> <<>>,    \* names still to be read
     found |-> <<>>]    \* what the reads returned

Idle == At("idle", {})

Go(p, state) == run' = [run EXCEPT ![p] = state]

(* The operation in hand is done, those of ops are left. *)
Continue(p, ops) == Go(p, At("begin", ops))

Finish(p) == Continue(p, run[p].todo) /\ UNCHANGED client

(* It returned an error: the operations left are dropped, the client gets  *)
(* status 500.  What was written stays written.                            *)
Fail(p) ==
    /\ Go(p, Idle)
    /\ reply' = [reply EXCEPT ![p] = "error"]
    /\ UNCHANGED <<request, changed, repeat>>

Init ==
    /\ services = InitServices
    /\ hosts = InitHosts
    /\ catalog = [h \in Hosts |-> IF Discovery /\ InitHosts[h] # None
                                   THEN InitHosts[h].ingress.machine ELSE None]
    /\ clock = 1
    /\ run = [p \in Handlers |-> Idle]
    /\ request = [p \in Handlers |-> None]
    /\ reply = [p \in Handlers |-> "none"]
    /\ changed = [p \in Handlers |-> FALSE]
    /\ repeat = [p \in Handlers |-> FALSE]
    /\ accepted = 0
    /\ faults = 0

-----------------------------------------------------------------------------
(* A request arrives.  A client whose request was answered with an error   *)
(* sends it again or, within the bound, gives up and sends another one.    *)
Accept(p, r) ==
    /\ run[p].pc = "idle"
    /\ IF reply[p] = "error" /\ r = request[p]
       THEN UNCHANGED accepted
       ELSE accepted < MaxRequests /\ accepted' = accepted + 1
    /\ Continue(p, {r})
    /\ request' = [request EXCEPT ![p] = r]
    /\ reply'   = [reply EXCEPT ![p] = "none"]
    /\ changed' = [changed EXCEPT ![p] = FALSE]
    /\ repeat'  = [repeat EXCEPT ![p] =
                     r.kind = "Put" /\ r = request[p] /\ (reply[p] = "ok" \/ @)]
    /\ UNCHANGED <<store, clock, faults>>

(* The checks an operation makes before its first call. *)
Valid(o) ==
    CASE o.kind = "RegisterService" -> ValidService(o.protocol, <<>>)
      [] o.kind = "RegisterHost"    -> NewHostOK(o.attr)
      [] o.kind = "Put"             -> /\ ValidService(o.protocol, o.deps)
                                       /\ \A i \in DOMAIN o.hosts : ValidHost(o.hosts[i].attr)
      [] OTHER                      -> TRUE

FirstCall == [RegisterService |-> "list", UnregisterService |-> "list",
              AddDependency |-> "get", RemoveDependency |-> "stamp",
              RegisterHost |-> "list", UnregisterHost |-> "get",
              UpdateHost |-> "get", Put |-> "get", PutParam |-> "stamp",
              DeleteService |-> "probe"]

(* Mutant: the operation begun stays among those to do. *)
BeginForever(p) ==
    /\ run[p].pc = "begin"
    /\ \E o \in First(run[p].todo) :
          Valid(o) /\ Go(p, [At(FirstCall[o.kind], run[p].todo) EXCEPT !.op = o])
    /\ UNCHANGED <<store, clock, client, bounds>>

Begin(p) ==
    /\ run[p].pc = "begin"
    /\ \E o \in First(run[p].todo) :
          /\ Valid(o)
          /\ Go(p, [At(FirstCall[o.kind], run[p].todo \ {o}) EXCEPT !.op = o])
    /\ UNCHANGED <<store, clock, client, bounds>>

Reject(p) ==
    /\ run[p].pc = "begin"
    /\ \E o \in First(run[p].todo) : ~Valid(o)
    /\ Fail(p)
    /\ UNCHANGED <<store, clock, bounds>>

(* Every operation of the request is done: status 200 or 201. *)
Return(p) ==
    /\ run[p].pc = "begin"
    /\ run[p].todo = {}
    /\ Go(p, Idle)
    /\ reply' = [reply EXCEPT ![p] = "ok"]
    /\ UNCHANGED <<store, clock, request, changed, repeat, bounds>>

-----------------------------------------------------------------------------
(* The calls.  In(p, kinds, label): handler p, in an operation of one of   *)
(* the kinds, is about to make the call that the label names.              *)

In(p, kinds, label) == run[p].pc = label /\ run[p].op.kind \in kinds

Target(p) == run[p].op.service

HostName(p) == run[p].op.host

Current(p) == services[Target(p)]

(* A call that only reads, and the local state after it. *)
Read(p, state) == Go(p, state) /\ UNCHANGED client

ReadOnly == UNCHANGED <<store, clock, bounds>>

(* RegisterService: SelectAllServiceNames and the check for a duplicate. *)
CheckServiceName(p) ==
    /\ In(p, {"RegisterService"}, "list")
    /\ \/ Current(p) # None /\ Fail(p)
       \/ /\ Current(p) = None
          /\ Read(p, [run[p] EXCEPT !.pc = "stamp", !.cur = NewService(run[p].op.protocol)])
    /\ ReadOnly

(* Mutant: no check for a duplicate. *)
ListHostNames(p) ==
    In(p, {"RegisterHost"}, "list") /\ Read(p, [run[p] EXCEPT !.pc = "get"]) /\ ReadOnly

(* RegisterHost: SelectAllHostNames and the check for a duplicate. *)
CheckHostName(p) ==
    /\ In(p, {"RegisterHost"}, "list")
    /\ \/ hosts[HostName(p)] # None /\ Fail(p)
       \/ hosts[HostName(p)] = None /\ Read(p, [run[p] EXCEPT !.pc = "get"])
    /\ ReadOnly

(* RegisterHost: GetService; the host's name is appended to its list. *)
GetForRegister(p) ==
    /\ In(p, {"RegisterHost"}, "get")
    /\ \/ Current(p) = None /\ Fail(p)
       \/ /\ Current(p) # None
          /\ Read(p, [run[p] EXCEPT !.pc = "putHost", !.attr = run[p].op.attr,
                                    !.cur = AppendHost(Current(p), HostName(p))])
    /\ ReadOnly

IsListed(p) == Current(p) # None /\ HostName(p) \in Listed(Current(p))

(* UnregisterHost: GetService; nothing to do if the host is not listed. *)
GetForUnregister(p) ==
    /\ In(p, {"UnregisterHost"}, "get")
    /\ \/ ~IsListed(p) /\ Finish(p)
       \/ /\ IsListed(p)
          /\ Read(p, [run[p] EXCEPT !.pc = "stamp",
                                    !.cur = RemoveFirstHost(Current(p), HostName(p))])
    /\ ReadOnly

(* UpdateHost: GetService; an error if the host is not listed. *)
GetForUpdate(p) ==
    /\ In(p, {"UpdateHost"}, "get")
    /\ \/ ~IsListed(p) /\ Fail(p)
       \/ IsListed(p) /\ Read(p, [run[p] EXCEPT !.pc = "getHost", !.cur = Current(p)])
    /\ ReadOnly

(* UpdateHost: GetHostByName, Host.Update and Validate. *)
GetHost(p) ==
    /\ In(p, {"UpdateHost"}, "getHost")
    /\ LET new == Updated(hosts[HostName(p)], run[p].op.attr)
           ok  == hosts[HostName(p)] # None /\ NewHostOK(new)
       IN  \/ ~ok /\ Fail(p)
           \/ ok /\ Read(p, [run[p] EXCEPT !.pc = "stamp", !.attr = new])
    /\ ReadOnly

(* UnregisterService: SelectAllServiceNames, in the order of a Go map. *)
ListServices(p) ==
    /\ In(p, {"UnregisterService"}, "list")
    /\ LET names == {s \in Services : services[s] # None}
       IN  \E order \in [1..Cardinality(names) -> names] :
              /\ \A i, j \in DOMAIN order : order[i] = order[j] => i = j
              /\ Read(p, [run[p] EXCEPT !.pc = "scan", !.rest = order])
    /\ ReadOnly

(* UnregisterService: SelectServiceByName of the next service; its name is *)
(* kept if it refers to the service to remove.                             *)
ScanService(p) ==
    /\ In(p, {"UnregisterService"}, "scan")
    /\ run[p].rest # <<>>
    /\ LET s == Head(run[p].rest)
       IN  Read(p, [run[p] EXCEPT !.rest = Tail(@), !.found =
                       IF services[s] # None /\ RefersTo(services[s], Target(p))
                       THEN Append(@, s) ELSE @])
    /\ ReadOnly

(* UnregisterService: all read; RemoveServiceDependency for each referrer, *)
(* then DeleteService.                                                     *)
PlanUnregister(p) ==
    /\ In(p, {"UnregisterService"}, "scan")
    /\ run[p].rest = <<>>
    /\ Continue(p, {[kind |-> "RemoveDependency", at |-> i, service |-> run[p].found[i],
                      name |-> Target(p)] : i \in DOMAIN run[p].found}
                   \cup {[kind |-> "DeleteService", at |-> 0, service |-> Target(p)]})
    /\ UNCHANGED client
    /\ ReadOnly

(* AddServiceDependency: GetHostsOfService begins with the service; when   *)
(* it fails the operation returns nil.                                     *)
GetForDependency(p) ==
    /\ In(p, {"AddDependency"}, "get")
    /\ \/ Current(p) = None /\ Finish(p)
       \/ /\ Current(p) # None
          /\ Read(p, [run[p] EXCEPT !.pc = "readHosts", !.rest = Current(p).hosts])
    /\ ReadOnly

(* Mutant: the service is created, whether it exists or not. *)
CreateForPut(p) ==
    /\ In(p, {"Put"}, "get")
    /\ Continue(p, CreatePlan(run[p].op))
    /\ changed' = [changed EXCEPT ![p] = TRUE]
    /\ UNCHANGED <<request, reply, repeat>>
    /\ ReadOnly

(* IdempotentService: GetService; create all if there is none. *)
GetForPut(p) ==
    /\ In(p, {"Put"}, "get")
    /\ \/ /\ Current(p) = None
          /\ Continue(p, CreatePlan(run[p].op))
          /\ changed' = [changed EXCEPT ![p] = TRUE]
          /\ UNCHANGED <<request, reply, repeat>>
       \/ /\ Current(p) # None
          /\ Read(p, [run[p] EXCEPT !.pc = "getHosts", !.cur = Current(p)])
    /\ ReadOnly

(* IdempotentService: GetHostsOfService reads the service once more. *)
GetHostsForPut(p) ==
    /\ In(p, {"Put"}, "getHosts")
    /\ \/ Current(p) = None /\ Fail(p)
       \/ /\ Current(p) # None
          /\ Read(p, [run[p] EXCEPT !.pc = "readHosts", !.rest = Current(p).hosts])
    /\ ReadOnly

(* SelectHostsOfService: the next host by name; a missing one is skipped. *)
ReadHost(p) ==
    /\ In(p, {"AddDependency", "Put"}, "readHosts")
    /\ run[p].rest # <<>>
    /\ LET h == Head(run[p].rest)
       IN  Read(p, [run[p] EXCEPT !.rest = Tail(@), !.found =
                       IF hosts[h] # None
                       THEN Append(@, [name |-> h, attr |-> hosts[h]]) ELSE @])
    /\ ReadOnly

(* AddServiceDependency: the egress port must not be a port of the hosts. *)
CheckPorts(p) ==
    /\ In(p, {"AddDependency"}, "readHosts")
    /\ run[p].rest = <<>>
    /\ LET taken == UNION {{x.attr.ingress.port, x.attr.substance.port} :
                             x \in Elements(run[p].found)}
       IN  \/ run[p].op.dep.port \in taken /\ Fail(p)
           \/ run[p].op.dep.port \notin taken /\ Read(p, [run[p] EXCEPT !.pc = "stamp"])
    /\ ReadOnly

(* IdempotentService: all read; compare with the parameter. *)
PlanUpdate(p) ==
    /\ In(p, {"Put"}, "readHosts")
    /\ run[p].rest = <<>>
    /\ LET plan == UpdatePlan(run[p].op, run[p].cur, run[p].found)
       IN  /\ Continue(p, plan)
           /\ changed' = [changed EXCEPT ![p] = plan # {}]
    /\ UNCHANGED <<request, reply, repeat>>
    /\ ReadOnly

AfterStamp == [RegisterService |-> "put", AddDependency |-> "reget",
               RemoveDependency |-> "reget", RegisterHost |-> "put",
               UnregisterHost |-> "put", UpdateHost |-> "putHost", PutParam |-> "put"]

(* Mutant: IdempotentService forgets to draw a version. *)
StampOperations(p) ==
    /\ run[p].pc = "stamp"
    /\ Read(p, [run[p] EXCEPT !.pc = AfterStamp[run[p].op.kind],
                   !.ver = IF run[p].op.kind = "PutParam" THEN @ ELSE clock,
                   !.cur = IF run[p].op.kind = "PutParam" THEN run[p].op.record ELSE @])
    /\ ReadOnly

(* versionGen.New: drawn before the write that carries it, at times a read *)
(* or another write earlier.                                               *)
Stamp(p) ==
    /\ run[p].pc = "stamp"
    /\ Read(p, [run[p] EXCEPT !.pc = AfterStamp[run[p].op.kind], !.ver = clock,
                   !.cur = IF run[p].op.kind = "PutParam" THEN run[p].op.record ELSE @])
    /\ ReadOnly

(* The repository's AddServiceDependency reads the service again. *)
GetToAppend(p) ==
    /\ In(p, {"AddDependency"}, "reget")
    /\ LET dep == run[p].op.dep
           ok  == Current(p) # None /\ CanAppendDependent(Current(p), dep)
       IN  \/ ~ok /\ Fail(p)
           \/ ok /\ Read(p, [run[p] EXCEPT !.pc = "put", !.cur = AppendDependent(Current(p), dep)])
    /\ ReadOnly

(* The repository's RemoveServiceDependency writes the record back even if *)
(* nothing was removed.                                                    *)
GetToRemove(p) ==
    /\ In(p, {"RemoveDependency"}, "reget")
    /\ \/ Current(p) = None /\ Finish(p)
       \/ /\ Current(p) # None
          /\ Read(p, [run[p] EXCEPT !.pc = "put",
                                    !.cur = RemoveDependent(Current(p), run[p].op.name)])
    /\ ReadOnly

PutHost(p) ==
    /\ In(p, {"RegisterHost", "UpdateHost"}, "putHost")
    /\ hosts' = [hosts EXCEPT ![HostName(p)] = run[p].attr]
    /\ Go(p, [run[p] EXCEPT !.pc = IF run[p].op.kind = "RegisterHost" THEN "stamp" ELSE "put"])
    /\ UNCHANGED <<services, catalog, clock, client, bounds>>

(* Mutant: UnregisterHost leaves the catalog alone. *)
AfterPutNoDeregister(kind) ==
    CASE kind = "RegisterHost" /\ Discovery -> "register"
      [] kind = "UnregisterHost" -> "probe"
      [] OTHER -> "begin"

AfterPut(kind) ==
    CASE kind = "RegisterHost" /\ Discovery   -> "register"
      [] kind = "UnregisterHost" /\ Discovery -> "deregister"
      [] kind = "UnregisterHost" /\ ~Discovery -> "probe"
      [] OTHER -> "begin"

(* PutService: the whole record, whatever the store holds by now. *)
PutService(p) ==
    /\ run[p].pc = "put"
    /\ services' = [services EXCEPT ![Target(p)] = [run[p].cur EXCEPT !.version = run[p].ver]]
    /\ LET next == AfterPut(run[p].op.kind)
       IN  \/ next = "begin" /\ Finish(p)
           \/ next # "begin" /\ Read(p, [run[p] EXCEPT !.pc = next])
    /\ UNCHANGED <<hosts, catalog, clock, bounds>>

(* Discovery Register: the catalog's node gets the admin address. *)
Register(p) ==
    /\ In(p, {"RegisterHost"}, "register")
    /\ catalog' = [catalog EXCEPT ![HostName(p)] = run[p].attr.ingress.machine]
    /\ Finish(p)
    /\ UNCHANGED <<services, hosts, clock, bounds>>

(* Mutant: the host record is left. *)
DeregisterOnly(p) ==
    /\ In(p, {"UnregisterHost"}, "deregister")
    /\ catalog' = [catalog EXCEPT ![HostName(p)] = None]
    /\ Finish(p)
    /\ UNCHANGED <<services, hosts, clock, bounds>>

Deregister(p) ==
    /\ In(p, {"UnregisterHost"}, "deregister")
    /\ catalog' = [catalog EXCEPT ![HostName(p)] = None]
    /\ Go(p, [run[p] EXCEPT !.pc = "probe"])
    /\ UNCHANGED <<services, hosts, clock, client, bounds>>

(* DeleteTreeIfExists: the key is read first. *)
ProbeKey(p) ==
    /\ In(p, {"UnregisterHost", "DeleteService"}, "probe")
    /\ LET value == IF run[p].op.kind = "UnregisterHost" THEN hosts[HostName(p)] ELSE Current(p)
       IN  \/ value = None /\ Finish(p)
           \/ value # None /\ Read(p, [run[p] EXCEPT !.pc = "delete"])
    /\ ReadOnly

(* Consul deletes every key that begins with the given one. *)
Under(n, m) == m = n \/ <<n, m>> \in Extends

DeleteTree(p) ==
    /\ \/ /\ In(p, {"UnregisterHost"}, "delete")
          /\ hosts' = [h \in Hosts |-> IF Under(HostName(p), h) THEN None ELSE hosts[h]]
          /\ UNCHANGED services
       \/ /\ In(p, {"DeleteService"}, "delete")
          /\ services' = [s \in Services |-> IF Under(Target(p), s) THEN None ELSE services[s]]
          /\ UNCHANGED hosts
    /\ Finish(p)
    /\ UNCHANGED <<catalog, clock, bounds>>

-----------------------------------------------------------------------------
(* The environment. *)

Tick ==
    /\ clock < MaxClock
    /\ clock' = clock + 1
    /\ UNCHANGED <<store, run, client, bounds>>

(* Between its first call and its answer: a handler at "stamp" or "begin"  *)
(* has just made a call, and the next one may fail.                        *)
Calling(p) == /\ run[p].pc # "idle"
              /\ run[p].pc \in {"readHosts", "scan"} => run[p].rest # <<>>

(* The call a handler makes answers an error and has no effect.  A write   *)
(* that took effect and answers an error is the write, followed by this    *)
(* action before anything else is called.                                  *)
(* AddServiceDependency drops an error of GetHostsOfService.               *)
CallFails(p) ==
    /\ "error" \in Faults
    /\ faults < MaxFaults
    /\ faults' = faults + 1
    /\ Calling(p)
    /\ IF run[p].pc \in {"get", "readHosts"} /\ run[p].op.kind = "AddDependency"
       THEN Finish(p) ELSE Fail(p)
    /\ UNCHANGED <<store, clock, accepted>>

(* The process dies and is started again.  The stores are Consul's; every  *)
(* client waiting for an answer sees its connection break.                 *)
Crash ==
    /\ "crash" \in Faults
    /\ faults < MaxFaults
    /\ faults' = faults + 1
    /\ run'   = [p \in Handlers |-> Idle]
    /\ reply' = [p \in Handlers |-> IF run[p].pc = "idle" THEN reply[p] ELSE "error"]
    /\ UNCHANGED <<store, clock, request, changed, repeat, accepted>>

-----------------------------------------------------------------------------
RunRegisterHost(p)   == CheckHostName(p) \/ GetForRegister(p) \/ Register(p)
RunUnregisterHost(p) == GetForUnregister(p) \/ Deregister(p)
RunUpdateHost(p)     == GetForUpdate(p) \/ GetHost(p)
RunService(p)        == \/ CheckServiceName(p)
                        \/ ListServices(p) \/ ScanService(p) \/ PlanUnregister(p)
RunDependency(p)     == \/ GetForDependency(p) \/ CheckPorts(p)
                        \/ GetToAppend(p) \/ GetToRemove(p)
RunPut(p)            == GetForPut(p) \/ GetHostsForPut(p) \/ PlanUpdate(p)
RunShared(p)         == \/ ReadHost(p) \/ Stamp(p) \/ PutHost(p) \/ PutService(p)
                        \/ ProbeKey(p) \/ DeleteTree(p)

Work(p) == \/ Begin(p) \/ Reject(p) \/ Return(p)
           \/ RunRegisterHost(p) \/ RunUnregisterHost(p) \/ RunUpdateHost(p)
           \/ RunService(p) \/ RunDependency(p) \/ RunPut(p) \/ RunShared(p)

Retry(p) == reply[p] = "error" /\ Accept(p, request[p])

Next == \/ \E p \in Handlers : \/ \E r \in Requests[p] : Accept(p, r)
                               \/ Work(p)
                               \/ CallFails(p)
        \/ Tick
        \/ Crash

Spec == Init /\ [][Next]_vars

(* Goroutines are scheduled and Consul answers every call, if only with an *)
(* error; nothing makes a client send a request or a fault happen.         *)
FairSpec == Spec /\ \A p \in Handlers : WF_vars(Work(p))

(* A client that sends a failed request again until it is answered "ok". *)
RetrySpec == FairSpec /\ \A p \in Handlers : WF_vars(Retry(p))

=============================================================================
