------------------------ MODULE InventoryProperties ------------------------
(***************************************************************************)
(* What the inventory must be, and what a step of it must never do.        *)
(***************************************************************************)
EXTENDS Inventory

ASSUME InventoryAssumption ==
    /\ Requests \in [Handlers -> SUBSET Request]
    /\ Discovery \in BOOLEAN
    /\ InitServices \in [Services -> Service \cup {None}]
    /\ InitHosts \in [Hosts -> HostAttr \cup {None}]
    /\ None \notin Service \cup HostAttr \cup Op \cup Address \cup Machines

(* What Service.Validate and AppendDependent establish of a record. *)
ValidRecord(svc) ==
    /\ svc.protocol \in Protocols
    /\ \A d \in svc.deps :
          /\ d.port # 0
          /\ \A e \in svc.deps : d # e => d.port # e.port /\ d.name # e.name

(* The store at the start was written by this program. *)
ASSUME InitialStoreValid ==
    /\ \A s \in Services : InitServices[s] # None => ValidRecord(InitServices[s])
    /\ \A h \in Hosts : InitHosts[h] # None => NewHostOK(InitHosts[h])

-----------------------------------------------------------------------------
(* Types *)

Labels == {"idle", "begin", "list", "scan", "get", "getHosts", "readHosts",
           "getHost", "stamp", "reget", "putHost", "put", "register",
           "deregister", "probe", "delete"}

HandlerState == [pc    : Labels,
                 todo  : SUBSET Op,
                 op    : Op \cup {None},
                 cur   : Service \cup {None},
                 ver   : Nat,
                 attr  : HostAttr \cup {None},
                 rest  : Seq(Hosts) \cup Seq(Services),
                 found : Seq(NamedHost) \cup Seq(Services)]

(* The type invariant: what is stored and what a handler holds has the     *)
(* shape of the Go types (Service, Host, the operations' parameters).      *)
TypeOK ==
    /\ services \in [Services -> Service \cup {None}]
    /\ hosts \in [Hosts -> HostAttr \cup {None}]
    /\ catalog \in [Hosts -> Machines \cup {None}]
    /\ clock \in Nat
    /\ run \in [Handlers -> HandlerState]
    /\ request \in [Handlers -> Request \cup {None}]
    /\ reply \in [Handlers -> {"none", "ok", "error"}]
    /\ changed \in [Handlers -> BOOLEAN]
    /\ repeat \in [Handlers -> BOOLEAN]
    /\ accepted \in Nat
    /\ faults \in Nat

-----------------------------------------------------------------------------
(* Safety *)

Stored == {s \in Services : services[s] # None}

(* A service lists only hosts that have a record: RegisterHost writes the  *)
(* record before the list, UnregisterHost the list before it deletes the   *)
(* record, and a PUT rewrites the list last.  GetHostsOfService silently   *)
(* skips a name without a record, so an Envoy would lose its endpoint.     *)
ListedHostsExist == \A s \in Stored : \A h \in Listed(services[s]) : hosts[h] # None

(* A host belongs to at most one service and is listed there once: the     *)
(* check for duplicates of RegisterHost (inventory.go:178-186).            *)
HostListedOnce ==
    /\ \A s, t \in Stored : s # t => Listed(services[s]) \cap Listed(services[t]) = {}
    /\ \A s \in Stored : Cardinality(Listed(services[s])) = Len(services[s].hosts)

(* Whatever the catalog offers to Prometheus is a host of the inventory:   *)
(* registered after the record is written, removed before it is deleted.   *)
CatalogBacked == \A h \in Hosts : catalog[h] # None => hosts[h] # None

(* With no request in progress and no fault so far, the three stores       *)
(* agree: a host is recorded iff some service lists it, iff the catalog    *)
(* has it (RegisterHost and UnregisterHost leave nothing half done).       *)
StoresAgree ==
    faults = 0 /\ (\A p \in Handlers : run[p].pc = "idle") =>
        \A h \in Hosts : /\ hosts[h] # None <=> \E s \in Stored : h \in Listed(services[s])
                         /\ Discovery => (hosts[h] # None <=> catalog[h] # None)

(* Every stored service can be turned into a snapshot: its protocol is     *)
(* known, its egress ports are distinct and not 0, and it refers to a      *)
(* service once (Service.Validate, AppendDependent); every stored host     *)
(* passes Host.Validate and its addresses can be parsed back.              *)
StoredValid ==
    /\ \A s \in Stored : ValidRecord(services[s])
    /\ \A h \in Hosts : hosts[h] # None => NewHostOK(hosts[h])

(* The store is what PUT r asked for. *)
Matches(r) ==
    LET svc == services[r.service]
    IN  /\ svc # None
        /\ svc.protocol = r.protocol
        /\ svc.deps = Elements(r.deps)
        /\ Listed(svc) = ParamNames(r)
        /\ \A i \in DOMAIN r.hosts : hosts[r.hosts[i].name] = r.hosts[i].attr

(* What request r has brought about once it is answered "ok", whatever     *)
(* requests cut short at any point have left in the store before.          *)
(* (Nothing for a plain AddServiceDependency, which also answers "ok"      *)
(* without a service.)                                                     *)
Brought(r) ==
    LET svc == services[r.service]
    IN  CASE r.kind = "Put" -> Matches(r)
          [] r.kind = "RegisterService" -> svc # None /\ svc.protocol = r.protocol
          [] r.kind = "UnregisterService" ->
                svc = None /\ \A s \in Stored : ~RefersTo(services[s], r.service)
          [] r.kind = "RegisterHost" ->
                /\ svc # None /\ r.host \in Listed(svc)
                /\ hosts[r.host] = r.attr
                /\ Discovery => catalog[r.host] = r.attr.ingress.machine
          [] r.kind = "UnregisterHost" -> svc # None => r.host \notin Listed(svc)
          [] r.kind = "UpdateHost" ->
                /\ svc # None /\ r.host \in Listed(svc)
                /\ hosts[r.host] # None /\ hosts[r.host] = Updated(hosts[r.host], r.attr)
          [] r.kind = "RemoveDependency" -> svc # None => ~RefersTo(svc, r.name)
          [] OTHER -> TRUE

Gone(h) == hosts[h] = None /\ catalog[h] = None

(* UnregisterHost "removes the Host object and hostname in host list"      *)
(* (inventory.go:222), unless another service lists the host.  It keeps    *)
(* that only as long as nothing failed: one that is sent again after it    *)
(* was cut short between list and record finds the host unlisted, and      *)
(* answers "ok" (:232).  HostsFollow is without the exception, and         *)
(* violated.                                                               *)
Achieved(r) ==
    /\ Brought(r)
    /\ r.kind = "UnregisterHost" /\ faults = 0 =>
          Gone(r.host) \/ \E s \in Stored : r.host \in Listed(services[s])

(* A request answered "ok" has brought the store to the state it asks for, *)
(* and no other client's request undoes that: a PUT (inventory.go:320,     *)
(* rest_services.go:82) and the other operations of the interface          *)
(* (UnregisterService also removes the references to the service,          *)
(* inventory.go:86; for UnregisterHost see Achieved).  That the hosts a    *)
(* PUT drops are gone as well is part of StoresAgree.                      *)
AppliedWhenOk == \A p \in Handlers : reply[p] = "ok" => Achieved(request[p])

(* What is left of a host once a request about it is answered "ok":        *)
(* nothing after UnregisterHost (inventory.go:222), and after a PUT its    *)
(* address in the catalog (discovery_consul.go:34), whatever requests cut  *)
(* short at any point have left before.                                    *)
HostsFollow ==
    \A p \in Handlers : reply[p] = "ok" =>
        LET r == request[p]
        IN  CASE r.kind = "UnregisterHost" -> Gone(r.host)
              [] r.kind = "Put" /\ Discovery ->
                    \A i \in DOMAIN r.hosts :
                        catalog[r.hosts[i].name] = r.hosts[i].attr.ingress.machine
              [] OTHER -> TRUE

-----------------------------------------------------------------------------
(* Clients that keep apart.  Nothing locks a service or a host while an    *)
(* operation on it runs, so most of the above holds only when no two       *)
(* handlers work on the same service or host at the same time.  owner and  *)
(* home say which handler a service and a host are left to; with a single  *)
(* handler both are constant.                                              *)

HostsOf(o) == CASE o.kind \in {"RegisterHost", "UnregisterHost", "UpdateHost"} -> {o.host}
                [] o.kind = "Put"      -> ParamNames(o)
                [] o.kind = "PutParam" -> Listed(o.record)
                [] OTHER               -> {}

OwnService(owner, p, o) == /\ owner[o.service] = p
                           /\ o.kind = "UnregisterService" => \A s \in Services : owner[s] = p

OwnHosts(home, p, o) == \A h \in HostsOf(o) : home[h] = p

(* UnregisterService rewrites every service that refers to its own: only a *)
(* handler that owns them all may run it.                                  *)
ServicesApart(owner) ==
    \A p \in Handlers : \A r \in Requests[p] : OwnService(owner, p, r)

HostsApart(owner, home) ==
    /\ \A p \in Handlers : \A r \in Requests[p] : OwnHosts(home, p, r)
    /\ \A s \in Services : InitServices[s] # None =>
          \A h \in Listed(InitServices[s]) : home[h] = owner[s]

Once(names) == \A i, j \in DOMAIN names : names[i] = names[j] => i = j

(* No PUT names a host twice (Service.Validate does not look, service.go:63). *)
HostsNamedOnce ==
    \A p \in Handlers : \A r \in Requests[p] :
        r.kind = "Put" => \A i, j \in DOMAIN r.hosts : r.hosts[i].name = r.hosts[j].name => i = j

(* The store at the start lists hosts it has, each once. *)
InitialHostsConsistent ==
    \A s \in Services : InitServices[s] # None =>
        /\ \A h \in Listed(InitServices[s]) : InitHosts[h] # None
        /\ Once(InitServices[s].hosts)
        /\ \A t \in Services : InitServices[t] # None /\ t # s =>
              Listed(InitServices[s]) \cap Listed(InitServices[t]) = {}

(* No version in the store at the start lies in the future. *)
InitialVersionsPast ==
    \A s \in Services : InitServices[s] # None => InitServices[s].version <= 1

(* AddServiceDependency answers "ok" without adding anything when it could *)
(* not read the hosts of the service (inventory.go:129-131): where calls   *)
(* fail, no PUT has dependencies.                                          *)
NoDependencyDropped ==
    \/ "error" \notin Faults
    \/ \A p \in Handlers : \A r \in Requests[p] : r.kind = "Put" => r.deps = <<>>

(* Every host in the store at the start is listed by a service. *)
InitialHostsListed ==
    \A h \in Hosts : InitHosts[h] # None =>
        \E s \in Services : InitServices[s] # None /\ h \in Listed(InitServices[s])

(* No client removes a service: the hosts it listed would stay (inventory.go:86). *)
NoServiceRemoved == \A p \in Handlers : \A r \in Requests[p] : r.kind # "UnregisterService"

Isolated(owner, home) ==
    /\ owner \in [Services -> Handlers] /\ home \in [Hosts -> Handlers]
    /\ ServicesApart(owner)
    /\ HostsApart(owner, home)
    /\ HostsNamedOnce
    /\ InitialHostsConsistent

-----------------------------------------------------------------------------
(* Action properties *)

(* The version of a service never goes back: xDS orders a node's snapshots *)
(* by it (snapshot_gen.go:213).                                            *)
VersionsMonotone ==
    [][\A s \in Services : services[s] # None /\ services'[s] # None
            => services[s].version <= services'[s].version]_vars

(* A PUT that repeats the one just answered "ok" writes nothing, at no     *)
(* point of its run (inventory_test.go:242-244, 279), and answers "not     *)
(* changed".                                                               *)
RepeatedPutWritesNothing ==
    [][\A p \in Handlers :
          repeat[p] /\ run[p].pc # "idle" /\ run'[p] # run[p] => UNCHANGED store /\ ~changed'[p]]_vars

-----------------------------------------------------------------------------
(* Liveness *)

(* Every request is answered. *)
EveryRequestAnswered ==
    \A p \in Handlers : run[p].pc # "idle" ~> run[p].pc = "idle"

(* A client that repeats its PUT until it is answered "ok" gets there.     *)
RetriedPutConverges ==
    \A p \in Handlers : (request[p] # None /\ request[p].kind = "Put") ~> reply[p] = "ok"
=============================================================================
