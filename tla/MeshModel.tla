------------------------------ MODULE MeshModel ------------------------------
(***************************************************************************)
(* The data of meshem's inventory: services, hosts, addresses, the         *)
(* parameter of a PUT, and the pure functions the inventory calls on them  *)
(* (packages model and utils, the two copies of the plan computed by       *)
(* core/inventory.go:IdempotentService).                                   *)
(*                                                                         *)
(* Names stand for strings that pass the name regular expressions; an      *)
(* address is a machine (a host name or an IP) with a port.                *)
(***************************************************************************)
EXTENDS Integers, Sequences, FiniteSets

CONSTANTS
    Services,    \* names of services
    Hosts,       \* names of hosts (the inventory's name of an Envoy node)
    Machines,    \* host names or IP addresses of the network
    Unparsable,  \* the machines whose name contains a colon (IPv6 addresses)
    Ports,       \* TCP port numbers, 0 among them if a client may send it
    None         \* "no such key", "nil"

ASSUME ServicesFinite == IsFiniteSet(Services)

ASSUME MeshAssumption ==
    /\ Unparsable \subseteq Machines
    /\ Ports \subseteq Nat

Protocols == {"HTTP", "TCP"}

(* What a client may write where a protocol is expected. *)
AnyProtocol == Protocols \cup {"UDP"}

Address    == [machine : Machines, port : Ports]
HostAttr   == [ingress : Address, substance : Address, egress : Machines]
NamedHost  == [name : Hosts, attr : HostAttr]
Dependency == [name : Services, port : Ports]

(* A stored service.  No two of its dependencies share a name or a port,   *)
(* and nothing reads their order, so they are a set; the host names keep   *)
(* the order and the duplicates of the JSON array.                         *)
Service == [hosts : Seq(Hosts), deps : SUBSET Dependency,
            protocol : AnyProtocol, version : Nat]

Listed(svc) == {svc.hosts[i] : i \in DOMAIN svc.hosts}

Elements(s) == {s[i] : i \in DOMAIN s}

-----------------------------------------------------------------------------
(* package model *)

(* Service.Validate on a service with these dependencies. *)
ValidService(protocol, deps) ==
    /\ protocol \in Protocols
    /\ \A i \in DOMAIN deps : deps[i].port # 0
    /\ \A i, j \in DOMAIN deps :
          i # j => deps[i].port # deps[j].port /\ deps[i].name # deps[j].name

(* ParseAddress(addr.String()) succeeds: exactly one colon. *)
Parses(addr) == addr.machine \notin Unparsable

(* Mutant: no address is looked into. *)
DistinctAddresses(attr) == attr.ingress # attr.substance

(* Host.Validate: a colon in the egress host is refused, one in the        *)
(* ingress or the substance host is not looked for.                        *)
ValidHost(attr) ==
    /\ attr.ingress # attr.substance
    /\ attr.egress \notin Unparsable

(* NewHost parses both addresses before the host exists to be validated.   *)
NewHostOK(attr) == Parses(attr.ingress) /\ Parses(attr.substance) /\ ValidHost(attr)

(* Host.Update: a nil pointer keeps the attribute. *)
Updated(old, new) ==
    [ingress   |-> IF new.ingress   = None THEN old.ingress   ELSE new.ingress,
     substance |-> IF new.substance = None THEN old.substance ELSE new.substance,
     egress    |-> IF new.egress    = None THEN old.egress    ELSE new.egress]

HostUpdate == [ingress   : Address \cup {None},
               substance : Address \cup {None},
               egress    : Machines \cup {None}]

NewService(protocol) ==
    [hosts |-> <<>>, deps |-> {}, protocol |-> protocol, version |-> 0]

(* Mutant: nothing is compared with the dependencies there are. *)
AppendUnchecked(svc, dep) == dep.port # 0

CanAppendDependent(svc, dep) ==
    /\ dep.port # 0
    /\ \A d \in svc.deps : d.port # dep.port /\ d.name # dep.name

(* Mutant: the name is stored without its port. *)
AppendNameOnly(svc, dep) == [svc EXCEPT !.deps = @ \cup {dep.name}]

AppendDependent(svc, dep) == [svc EXCEPT !.deps = @ \cup {dep}]

RemoveDependent(svc, name) == [svc EXCEPT !.deps = {d \in @ : d.name # name}]

RefersTo(svc, name) == \E d \in svc.deps : d.name = name

AppendHost(svc, h) == [svc EXCEPT !.hosts = Append(@, h)]

(* Mutant: the host stays in the list. *)
KeepHost(svc, h) == svc

(* append(names[:i], names[i+1:]...) with i the first index of the name. *)
RemoveFirstHost(svc, h) ==
    LET i == CHOOSE i \in DOMAIN svc.hosts :
                /\ svc.hosts[i] = h
                /\ \A j \in DOMAIN svc.hosts : svc.hosts[j] = h => i <= j
    IN  [svc EXCEPT !.hosts = [j \in 1..(Len(@) - 1) |-> IF j < i THEN @[j] ELSE @[j + 1]]]
=============================================================================
