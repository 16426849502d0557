--------------------------------- MODULE Xds ---------------------------------
(***************************************************************************)
(* The xDS half of the meshem server: the snapshot collector               *)
(* (core/xds/server.go:RunSnapshotCollector and saveSnapshots) with the    *)
(* snapshot generator (core/xds/snapshot_gen.go), and, as far as they use  *)
(* it, the snapshot cache of go-control-plane and the Envoys behind it.    *)
(*                                                                         *)
(* The collector is one goroutine.  It reads the inventory call by call,   *)
(* while handlers write it, and sets one snapshot per host.  The cache     *)
(* answers an Envoy's request when the version of the snapshot differs     *)
(* from the version the Envoy has: the content is never compared.          *)
(***************************************************************************)
EXTENDS MeshModel, FiniteSetsExt

VARIABLES
    services,  \* the store, read only here
    hosts,
    col,       \* control point and local variables of the collector
    cache,     \* node -> its snapshot, or None
    envoy,     \* node -> the snapshot its Envoy runs with, or None
    flight,    \* node -> the response on its way, or None
    watching   \* node -> does its Envoy have an open watch in the cache?

dataPlane == <<envoy, flight, watching>>
xdsVars   == <<col, cache, dataPlane>>

-----------------------------------------------------------------------------
(* Snapshots.  Names of resources are pairs: what they are of, and of which *)
(* service; attributes that no reader compares (timeouts, log files, the    *)
(* sources of nested discovery) are left out.                               *)

IngressCluster == <<"ingress">>
EgressCluster(name) == <<"egress", name>>

Endpoint(cluster, addresses) == [cluster |-> cluster, addresses |-> addresses]

(* A listener for HTTP refers to a route with the name of its cluster. *)
Listener(cluster, address, protocol) ==
    [cluster |-> cluster, address |-> address, protocol |-> protocol]

(* Mutant: the comparison of the versions is the wrong way round. *)
EarliestNodeVersion(svc, got) == Min({svc.version} \cup {d.service.version : d \in got})

(* latestNodeVersion *)
LatestNodeVersion(svc, got) == Max({svc.version} \cup {d.service.version : d \in got})

(* makeHostSnapshot for a host of service svc; "got" holds each dependency *)
(* with its record and its hosts.                                          *)
HostSnapshot(svc, host, got) ==
    LET egress(d) == [machine |-> host.egress,
                      port |-> (CHOOSE x \in svc.deps : x.name = d.name).port]
        listeners == {Listener(IngressCluster, host.ingress, svc.protocol)}
                     \cup {Listener(EgressCluster(d.name), egress(d), d.service.protocol) : d \in got}
        endpoints == {Endpoint(IngressCluster, {host.substance})}
                     \cup {Endpoint(EgressCluster(d.name), {h.attr.ingress : h \in d.hosts}) : d \in got}
    IN  [version   |-> LatestNodeVersion(svc, got),
         clusters  |-> {IngressCluster} \cup {EgressCluster(d.name) : d \in got},
         endpoints |-> endpoints,
         routes    |-> {l.cluster : l \in {x \in listeners : x.protocol = "HTTP"}},
         listeners |-> listeners]

(* An unknown protocol or an egress address that cannot be parsed is an    *)
(* error, and an error for one host leaves the whole service without.      *)
Servable(svc, found, got) ==
    /\ svc.protocol \in Protocols
    /\ \A d \in got : d.service.protocol \in Protocols
    /\ got # {} => \A h \in found : h.attr.egress \notin Unparsable

-----------------------------------------------------------------------------
(* The collector between two services, with the services still to visit. *)
Visiting(label, names) ==
    [pc    |-> label,   \* what it does next
     todo  |-> names,   \* services of this round not begun yet
     name  |-> None,    \* the service in hand
     svc   |-> None,    \* its record as first read
     deps  |-> {},      \* its dependencies not read yet
     got   |-> {},      \* its dependencies as read
     dep   |-> None,    \* the dependency in hand
     rest  |-> <<>>,    \* host names still to be read
     found |-> {},      \* the hosts read
     out   |-> {}]      \* snapshots to set: <<node, snapshot>>

Asleep == Visiting("asleep", {})

(* Mutant: an error ends the round. *)
AbandonRound == col' = Asleep

(* An error is logged and the next service begun. *)
NextService == col' = Visiting("next", col.todo)

ReadsOnly == UNCHANGED <<cache, dataPlane>>

(* The ticker fires; GetServiceNames. *)
StartRound ==
    /\ col.pc = "asleep"
    /\ col' = Visiting("next", {s \in Services : services[s] # None})
    /\ ReadsOnly

EndRound ==
    /\ col.pc = "next"
    /\ col.todo = {}
    /\ col' = Asleep
    /\ ReadsOnly

(* MakeSnapshotsOfService begins with GetService.  The names are those of  *)
(* a Go map: any may come next.                                            *)
ReadService ==
    /\ col.pc = "next"
    /\ \E s \in col.todo :
          \/ services[s] = None /\ col' = Visiting("next", col.todo \ {s})
          \/ /\ services[s] # None
             /\ col' = [Visiting("deps", col.todo \ {s}) EXCEPT
                          !.name = s, !.svc = services[s], !.deps = services[s].deps]
    /\ ReadsOnly

(* GetHostsOfService of the next dependency: its record first. *)
ReadDependencyHosts ==
    /\ col.pc = "deps"
    /\ \E d \in col.deps :
          \/ services[d.name] = None /\ NextService
          \/ /\ services[d.name] # None
             /\ col' = [col EXCEPT !.pc = "depHosts", !.deps = @ \ {d}, !.dep = d.name,
                                   !.rest = services[d.name].hosts, !.found = {}]
    /\ ReadsOnly

(* SelectHostByName of the next host; a missing one is skipped. *)
ReadNextHost ==
    /\ col.pc \in {"depHosts", "hosts"}
    /\ col.rest # <<>>
    /\ LET h == Head(col.rest)
       IN  col' = [col EXCEPT !.rest = Tail(@),
                      !.found = IF hosts[h] = None THEN @
                                ELSE @ \cup {[name |-> h, attr |-> hosts[h]]}]
    /\ ReadsOnly

(* GetService of the dependency, after its hosts. *)
ReadDependencyService ==
    /\ col.pc = "depHosts"
    /\ col.rest = <<>>
    /\ \/ services[col.dep] = None /\ NextService
       \/ /\ services[col.dep] # None
          /\ col' = [col EXCEPT !.pc = "deps",
                        !.got = @ \cup {[name |-> col.dep, service |-> services[col.dep],
                                         hosts |-> col.found]}]
    /\ ReadsOnly

(* GetHostsOfService of the service itself reads its record again. *)
ReadOwnHosts ==
    /\ col.pc = "deps"
    /\ col.deps = {}
    /\ \/ services[col.name] = None /\ NextService
       \/ /\ services[col.name] # None
          /\ col' = [col EXCEPT !.pc = "hosts", !.rest = services[col.name].hosts, !.found = {}]
    /\ ReadsOnly

MakeSnapshots ==
    /\ col.pc = "hosts"
    /\ col.rest = <<>>
    /\ col' = [col EXCEPT !.pc = "set",
                  !.out = IF Servable(col.svc, col.found, col.got)
                          THEN {<<h.name, HostSnapshot(col.svc, h.attr, col.got)>> : h \in col.found}
                          ELSE {}]
    /\ ReadsOnly

VersionOf(snap) == IF snap = None THEN None ELSE snap.version

(* SnapshotCache.SetSnapshot: an open watch is answered if the version     *)
(* differs from the one in its request.                                    *)
SetSnapshot ==
    /\ col.pc = "set"
    /\ \E x \in col.out :
          LET h == x[1]
          IN  /\ col' = [col EXCEPT !.out = @ \ {x}]
              /\ cache' = [cache EXCEPT ![h] = x[2]]
              /\ \/ /\ watching[h] /\ x[2].version # VersionOf(envoy[h])
                    /\ watching' = [watching EXCEPT ![h] = FALSE]
                    /\ flight' = [flight EXCEPT ![h] = x[2]]
                 \/ /\ ~(watching[h] /\ x[2].version # VersionOf(envoy[h]))
                    /\ UNCHANGED <<watching, flight>>
    /\ UNCHANGED envoy

EndService ==
    /\ col.pc = "set"
    /\ col.out = {}
    /\ NextService
    /\ ReadsOnly

(* A read of the collector answers an error. *)
ReadFails ==
    /\ \/ col.pc = "next" /\ \E s \in col.todo : col' = Visiting("next", col.todo \ {s})
       \/ col.pc \in {"deps", "depHosts"} /\ NextService
       \/ col.pc = "hosts" /\ col.rest # <<>> /\ NextService
    /\ ReadsOnly

Collect == \/ StartRound \/ EndRound \/ ReadService \/ ReadDependencyHosts
           \/ ReadNextHost \/ ReadDependencyService \/ ReadOwnHosts
           \/ MakeSnapshots \/ SetSnapshot \/ EndService

-----------------------------------------------------------------------------
(* go-control-plane's cache and Envoy, as the collector relies on them.    *)

(* The request of an Envoy names the version it runs with.  It is answered *)
(* at once if the cache has another one, else it becomes a watch.          *)
EnvoyRequest(h) ==
    /\ ~watching[h]
    /\ flight[h] = None
    /\ \/ /\ cache[h] # None /\ VersionOf(cache[h]) # VersionOf(envoy[h])
          /\ flight' = [flight EXCEPT ![h] = cache[h]]
          /\ UNCHANGED watching
       \/ /\ cache[h] # None => VersionOf(cache[h]) = VersionOf(envoy[h])
          /\ watching' = [watching EXCEPT ![h] = TRUE]
          /\ UNCHANGED flight
    /\ UNCHANGED <<col, cache, envoy>>

EnvoyApply(h) ==
    /\ flight[h] # None
    /\ envoy' = [envoy EXCEPT ![h] = flight[h]]
    /\ flight' = [flight EXCEPT ![h] = None]
    /\ UNCHANGED <<col, cache, watching>>

EnvoyStep(h) == EnvoyRequest(h) \/ EnvoyApply(h)

-----------------------------------------------------------------------------
XdsInit ==
    /\ col = Asleep
    /\ cache = [h \in Hosts |-> None]
    /\ envoy = [h \in Hosts |-> None]
    /\ flight = [h \in Hosts |-> None]
    /\ watching = [h \in Hosts |-> FALSE]

(* The server starts again with an empty cache; the Envoys keep what they  *)
(* run with and ask again.                                                 *)
XdsRestart ==
    /\ col' = Asleep
    /\ cache' = [h \in Hosts |-> None]
    /\ flight' = [h \in Hosts |-> None]
    /\ watching' = [h \in Hosts |-> FALSE]
    /\ UNCHANGED envoy
=============================================================================
