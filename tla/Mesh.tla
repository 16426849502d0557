-------------------------------- MODULE Mesh --------------------------------
(***************************************************************************)
(* The meshem server as meshem/main.go puts it together: the handlers of   *)
(* the control API write the inventory, the snapshot collector reads it at *)
(* the same time, and the Envoys get what the collector has put into the   *)
(* snapshot cache.                                                         *)
(***************************************************************************)
EXTENDS InventoryProperties

CONSTANTS
    Envoys,        \* the hosts whose Envoy runs
    FreshVersions  \* is every version drawn in a millisecond of its own?

ASSUME MeshConstants == Envoys \subseteq Hosts /\ FreshVersions \in BOOLEAN

VARIABLES col, cache, envoy, flight, watching

X == INSTANCE Xds

xdsVars  == <<col, cache, envoy, flight, watching>>
meshVars == <<vars, xdsVars>>

Quiet == \A p \in Handlers : run[p].pc = "idle"

MeshInit == Init /\ X!XdsInit

(* No stored service has the version the clock would give. *)
VersionFresh == \A s \in Stored : services[s].version < clock

Handle(p) ==
    /\ run[p].pc = "stamp" /\ FreshVersions => VersionFresh
    /\ Work(p)
    /\ UNCHANGED xdsVars

Arrive(p) == \E r \in Requests[p] : Accept(p, r) /\ UNCHANGED xdsVars

CallError(p) == CallFails(p) /\ UNCHANGED xdsVars

(* A tick that no draw of a version waits for would change nothing else.   *)
ClockTick ==
    /\ FreshVersions => ~VersionFresh /\ \E p \in Handlers : run[p].pc = "stamp"
    /\ Tick
    /\ UNCHANGED xdsVars

CollectStep == X!Collect /\ UNCHANGED vars

(* A call of the collector fails; failures are counted with the others. *)
CollectError ==
    /\ "error" \in Faults
    /\ faults < MaxFaults
    /\ faults' = faults + 1
    /\ X!ReadFails
    /\ UNCHANGED <<store, clock, run, client, accepted>>

Envoy(h) == X!EnvoyStep(h) /\ UNCHANGED vars

(* The server stops, busy or idle, and starts again. *)
ServerCrash == Crash /\ X!XdsRestart

MeshNext ==
    \/ \E p \in Handlers : Handle(p) \/ Arrive(p) \/ CallError(p)
    \/ \E h \in Envoys : Envoy(h)
    \/ ClockTick \/ CollectStep \/ CollectError \/ ServerCrash

MeshSpec == MeshInit /\ [][MeshNext]_meshVars

(* The goroutines of the server are scheduled, the ticker fires again and  *)
(* again, time passes, an Envoy applies a response and asks for the next.  *)
FairMeshSpec ==
    /\ MeshSpec
    /\ \A p \in Handlers : WF_meshVars(Handle(p))
    /\ \A h \in Envoys : WF_meshVars(Envoy(h))
    /\ WF_meshVars(ClockTick)
    /\ WF_meshVars(CollectStep)

-----------------------------------------------------------------------------
(* What the Envoy of a host must run with, from the store. *)

Refers(s) == {d.name : d \in services[s].deps}

(* Services whose snapshots can be made: all they refer to exists. *)
Meshed(s) == s \in Stored /\ Refers(s) \subseteq Stored

IngressOf(s) == {hosts[h].ingress : h \in {x \in Listed(services[s]) : hosts[x] # None}}

HasConfig(snap, s, h) ==
    /\ snap # None
    /\ snap.endpoints =
          {X!Endpoint(X!IngressCluster, {hosts[h].substance})}
          \cup {X!Endpoint(X!EgressCluster(t), IngressOf(t)) : t \in Refers(s)}
    /\ snap.listeners =
          {X!Listener(X!IngressCluster, hosts[h].ingress, services[s].protocol)}
          \cup {X!Listener(X!EgressCluster(d.name),
                           [machine |-> hosts[h].egress, port |-> d.port],
                           services[d.name].protocol) : d \in services[s].deps}

NewestVersion(s) ==
    CHOOSE v \in {services[t].version : t \in {s} \cup Refers(s)} :
        \A t \in {s} \cup Refers(s) : services[t].version <= v

Serving == {x \in Stored \X Envoys : Meshed(x[1]) /\ x[2] \in Listed(services[x[1]]) /\ hosts[x[2]] # None}

(* With no request in progress, whoever has the newest version of a node   *)
(* has its configuration: the cache compares versions only                 *)
(* (snapshot_gen.go:212), so an Envoy with that version gets no other.     *)
VersionIdentifiesConfig ==
    Quiet => \A x \in Serving : \A snap \in {cache[x[2]], envoy[x[2]]} :
                snap # None /\ snap.version = NewestVersion(x[1]) => HasConfig(snap, x[1], x[2])

(* An Envoy never goes back to an older version, nor to none: handlers     *)
(* change what the collector reads in between, a restart empties the       *)
(* cache, and the cache would push whatever differs (snapshot_gen.go:212). *)
NeverGoesBack ==
    [][\A h \in Envoys : envoy[h] # None =>
          envoy'[h] # None /\ envoy[h].version <= envoy'[h].version]_meshVars

(* Once the collector has read all it needs, it makes the snapshots: an    *)
(* unknown protocol or an egress host with a colon would leave every host  *)
(* of the service without (snapshot_gen.go:93), round after round.  What   *)
(* it reads was stored by handlers that run at the same time and are asked *)
(* for such records too.                                                   *)
SnapshotsMade ==
    col.pc = "hosts" /\ col.rest = <<>> => X!Servable(col.svc, col.found, col.got)

(* A service no request is about. *)
Fixed(s) == \A p \in Handlers : \A r \in Requests[p] : r.service # s

(* The services an operation makes its service refer to. *)
References(o) == CASE o.kind = "Put"           -> {d.name : d \in Elements(o.deps)}
                   [] o.kind = "PutParam"      -> {d.name : d \in o.record.deps}
                   [] o.kind = "AddDependency" -> {o.dep.name}
                   [] OTHER                    -> {}

(* Services are made to refer only to services that no request changes,    *)
(* and did so at the start.                                                *)
DependenciesFixed ==
    /\ \A p \in Handlers : \A r \in Requests[p] : \A t \in References(r) : Fixed(t)
    /\ \A s \in Services : InitServices[s] # None => \A d \in InitServices[s].deps : Fixed(d.name)

(* The hosts an operation makes its service list. *)
Adopts(o) == CASE o.kind = "RegisterHost" -> {o.host}
               [] o.kind = "Put"          -> ParamNames(o)
               [] o.kind = "PutParam"     -> Listed(o.record)
               [] OTHER                   -> {}

(* Every host belongs to one service for good: its seat. *)
HostsSeated(seat) ==
    /\ \A p \in Handlers : \A r \in Requests[p] : \A h \in Adopts(r) : seat[h] = r.service
    /\ \A s \in Services : InitServices[s] # None
          => \A h \in Listed(InitServices[s]) : seat[h] = s

(* A service goes on to refer to the services in lasting[s]; all others it *)
(* refers to are such that no request changes them.                        *)
DependenciesStay(lasting) ==
    /\ \A p \in Handlers : \A r \in Requests[p] :
          /\ \A t \in References(r) : Fixed(t) \/ t \in lasting[r.service]
          /\ r.kind = "Put" => lasting[r.service] \subseteq References(r)
          /\ r.kind = "RemoveDependency" => r.name \notin lasting[r.service]
    /\ \A s \in Services : InitServices[s] # None
          => \A d \in InitServices[s].deps : Fixed(d.name) \/ d.name \in lasting[s]

AllServed == \A x \in Serving : HasConfig(envoy[x[2]], x[1], x[2])

(* Once no more requests come, every Envoy of a service whose dependencies *)
(* exist gets the configuration the inventory describes, though services   *)
(* with missing dependencies cannot be served (server.go:113).             *)
EnvoysConverge == <>[]Quiet => <>[]AllServed
=============================================================================
