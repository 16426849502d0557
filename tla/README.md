# A verification of meshem

meshem is a small control plane for Envoy. Clients describe services (protocol,
hosts, dependencies) through an HTTP API; the server keeps the description in
Consul and turns it into xDS snapshots that the Envoys of the hosts run with.
This directory holds TLA+ models of the server, TLC configurations that check
them on small instances, and proofs for TLAPS. Paths below are relative to
`src/` of the repository.

    tlc -workers 2 -config inv_all.cfg MCInventory      # model-check a run
    tlapm InventoryProofs.tla                           # check the proofs

## 1. The system

| component | state | operations | talks to |
|---|---|---|---|
| **Inventory service** `core/inventory.go` | none of its own | `RegisterService`, `UnregisterService`, `AddServiceDependency`, `RemoveServiceDependency`, `RegisterHost`, `UnregisterHost`, `UpdateHost`, `IdempotentService` (the PUT, a plan of the others), reads | repository, discovery, version generator |
| **Version generator** `core/version_gen.go` | the wall clock | `New` (milliseconds), `Compare` | |
| **Repository interface** `repository/repository.go` | two tables of records | put, add and remove a dependency, delete, select | |
| **Consul repository** `repository/inventory_consul.go`, `utils/consul.go` | KV: `services/<name>`, `hosts/<name>`, each a JSON record | get, put, list keys, delete by prefix | Consul |
| **Heap repository** `repository/inventory_heap.go` | two lists of records | the same interface, for tests | |
| **Discovery repository** `repository/discovery_consul.go` | Consul catalog: node -> admin address | `Register`, `Unregister` | Consul |
| **Domain model** `model/`, `utils/slice.go` | | validation, parsing, updates of records, set operations on name lists | |
| **Snapshot collector** `core/xds/server.go`, `core/xds/snapshot_gen.go` | its local variables | every interval, read all services and set a snapshot per host | inventory service, snapshot cache |
| **Snapshot cache, xDS server** (go-control-plane), **Envoys** | snapshot, open watches; the configuration an Envoy runs with | `SetSnapshot`, requests, responses | |
| **Control API server** `core/ctlapi/server.go`, `rest_services.go` | a goroutine per request | POST, GET, PUT of a service | inventory service |
| **API client, meshemctl** `core/ctlapi/client.go`, `meshemctl/` | the request sent, its timeout | `PutService`, `GetService`; `svc apply`, `svc show` | control API |
| **Process** `meshem/main.go` | | starts the API, the collector and the gRPC server in one process | |
| configuration, health check filter, ansible, examples | | not modelled, see section 7 | |

### What is hard

* **No transaction anywhere.** An operation is a series of calls to Consul with
  no lock, session or check-and-set. Every HTTP request has a goroutine, so two
  operations interleave at every call, and records are read, changed and written
  back whole. The TODOs at `inventory.go:55` and `:166` ("with consistency")
  say so.
* **Plans without rollback.** A PUT compares the parameter with what is stored
  and runs a plan of registrations, removals and updates, each of several
  writes. A crash or an error leaves a prefix of it; the repeated PUT has to
  work out the rest from what it finds.
* **Three stores.** Host record, service list and catalog entry of one host are
  three writes in an order that differs between registering and removing.
* **Versions.** A version is the wall clock in milliseconds, drawn before the
  write that carries it. The snapshot of a node has the newest version among its
  service and its dependencies, and the cache pushes a snapshot when its version
  differs from the Envoy's: a change that does not change the version is never
  pushed.
* **The collector reads while handlers write**, call by call, some records
  twice, and a dependency's hosts before its version.
* **A client that stops waiting.** `APIClient` has a timeout and the server knows
  nothing of it: the handler goes on, and the repeated PUT runs beside it. The
  body of a broken upload is handed on as far as it was read. GET reads the
  service twice and then each host.
* **Delete by prefix.** `DeleteTreeIfExists` deletes every key that begins with
  the given one.

### What makes each component correct

* Inventory: a service lists only hosts with a record; a host is listed once; no
  malformed record is stored; a request answered "ok" has been applied and
  repeating it writes nothing; every request is answered; a client that repeats
  its PUT gets there; versions never go back.
* Repository: a method takes effect once or not at all, also when a call to Consul
  fails half way; both implementations answer alike.
* Control API and client: a command that is repeated until it is answered 200 gets
  there; what GET shows, sent back as a PUT, changes nothing; "OK" means applied.
* Catalog: it offers only hosts of the inventory, at their current address.
* Data plane: a version stands for one configuration of a node; once requests
  end, each Envoy runs with what the inventory describes; a service that cannot
  be served does not keep the others from being served.

PROJECT.json lists the hazards line by line, each with its properties.

## 2. Modules

| module | models | extends |
|---|---|---|
| `MeshModel` | `model/`, `utils/slice.go`: the types, `Validate`, `NewHost`, `Update`, `AppendDependent`, ... as sets and operators | |
| `Inventory` | `core/inventory.go` over the Consul repositories: handlers, one action per call | `MeshModel` |
| `InventoryProperties` | assumptions, type invariant, safety, action and liveness properties | `Inventory` |
| `InventoryProofs` | proof: type correctness; no malformed record is stored | `InventoryProperties` |
| `InventoryVersionProofs` | proof: versions never go back | `InventoryProofs` |
| `InventoryApartProofs` | proof: listed hosts exist, are listed once, and the catalog has no other | `InventoryVersionProofs` |
| `InventoryAppliedProofs` | proof: what "ok" has brought about; a repeated PUT writes nothing | `InventoryApartProofs` |
| `InventoryAgreeProofs` | proof: the three stores agree; "ok" means applied | `InventoryAppliedProofs` |
| `RepositoryCalls` | the methods of `InventoryRepository` as calls, and their answers | `MeshModel` |
| `Repository` | what the interface promises: two tables, each call one atomic step | `RepositoryCalls` |
| `HeapRepository` | `inventory_heap.go`, one action per method, on lists | `RepositoryCalls`, instance of `Repository` |
| `HeapRepositoryProofs` | proof: `HeapRepository` implements `Repository` | `HeapRepository` |
| `ConsulRepository` | `inventory_consul.go` over `utils/consul.go`, one action per call to the store | `RepositoryCalls`, instance of `Repository` |
| `ConsulRepositoryProofs` | proof: `ConsulRepository` implements `Repository` | `ConsulRepository` |
| `CtlApi` | control API, API client and meshemctl, over the handlers of `Inventory` | `InventoryProperties` |
| `Xds` | collector and snapshot generator; cache and Envoy as far as they matter | `MeshModel` |
| `Mesh` | the process: `Inventory` and `Xds` on one store, and the end-to-end properties | `InventoryProperties`, instance of `Xds` |
| `MeshProofs` | proofs: a version stands for one configuration; an Envoy never goes back; snapshots can always be made | `Mesh`, `InventoryAgreeProofs` |
| `MCInventory`, `MCMesh`, `MCCtl`, `MCRepository` | requests, calls and initial stores of the runs | |

### Inventory

`services`, `hosts` and `catalog` are the three stores. `run[p]` is the goroutine
of handler `p`: the label `pc` of its next call, the operations of its request not
begun yet (`todo`), the operation in hand, and the local variables that live
across calls: the record read (`cur`), the version drawn (`ver`), the attributes to
write, the names still to be read and what was read. `request`, `reply`,
`changed`, `repeat` are what the client of `p` knows.

A request arrives (`Accept`); `Begin` takes the next operation of the plan, or
`Reject` fails its validation; then one action per call, named for what the code
does between this call and the next:

| operation | actions in order |
|---|---|
| `RegisterService` | `CheckServiceName`, `Stamp`, `PutService` |
| `UnregisterService` | `ListServices`, `ScanService` per service, `PlanUnregister`, then a `RemoveDependency` per referrer and `DeleteService` (`ProbeKey`, `DeleteTree`) |
| `AddServiceDependency` | `GetForDependency`, `ReadHost` per host, `CheckPorts`, `Stamp`, `GetToAppend`, `PutService` |
| `RemoveServiceDependency` | `Stamp`, `GetToRemove`, `PutService` |
| `RegisterHost` | `CheckHostName`, `GetForRegister`, `PutHost`, `Stamp`, `PutService`, `Register` |
| `UnregisterHost` | `GetForUnregister`, `Stamp`, `PutService`, `Deregister`, `ProbeKey`, `DeleteTree` |
| `UpdateHost` | `GetForUpdate`, `GetHost`, `Stamp`, `PutHost`, `PutService` |
| `IdempotentService` | `GetForPut`, then `CreatePlan`; or `GetHostsForPut`, `ReadHost` per host, `PlanUpdate`, then the plan: new hosts, hosts to remove, hosts to change, and the service itself (`Stamp`, `PutService`) |

`Return` answers "ok". Every error path is `Fail`: the plan is dropped and what
was written stays. `CallFails` lets any call answer an error, with the one
exception in the code (`inventory.go:131`) where it is dropped. It is also enabled between two
calls (at "stamp" and "begin"): a write that took effect and answered an error is the write,
then `CallFails`. `Crash` stops all
handlers, busy or idle; their clients see an error.

The HTTP API exposes POST, GET and PUT of a service only. The other operations
of the interface run as parts of a PUT and are also modelled as requests of
their own, as `core/inventory_test.go` calls them. The runs that show a violation
use PUTs only, but for `bug_leftover`: its trace sends `UnregisterHost`, which a PUT that drops
the host runs too.

Abstractions. Names stand for strings that pass the regular expressions of
`Validate`; `Extends` says which name is a prefix of which. An address is a machine
and a port; `Unparsable` are machines with a colon in their name, which
`Validate` accepts and `ParseAddress` does not. Dependencies are a set, since
nothing reads their order (`EqualsServiceDependencies` sorts both sides);
host names stay a sequence, duplicates included. `TraceSpan` equals the name.

### Repository, HeapRepository, ConsulRepository

`Repository` is the abstract specification. `services` and `hosts` are functions from
names to records or `None`; `Perform` is a call that takes effect and is answered in
one step, `Unavailable` a call that is answered with an error and has had all of its
effect or none. `answer` holds the last call, whether it was an error, its Boolean
result and its rows. Rows are sets: no caller uses their order.

`HeapRepository` keeps two lists, appended to and searched by name. The refinement mapping
reads the list as a table (`TableOf`), which is right only if a name occurs once; every
operation refuses a name that occurs twice, as the code does, so a duplicate shows
up as a wrong answer. It knows no outages.

`ConsulRepository` keeps the key-value store `kv`, with keys of a prefix and a name, and the
method in progress (`step`): the next call to the store, the names still to be read,
the rows read, the record in hand. A method is `Begin`, then its calls: one `GetRecord`;
`ProbeKey` and `DeleteRecord`; `GetToAppend` or `GetToRemove` and `PutRecord`; `ListNames` or
`GetListed` and a `ReadNext` per name until `ReturnRead`. `CallFails` may strike at any
call, a write also after it took effect. The mapping is the identity on the rows.
The abstract call happens at the last step of the method. One caller is at work, since
the methods of two callers are not atomic; that is what `Inventory` is about, which uses
the same calls to the store, interleaved with other handlers'.

### CtlApi

`cli[c]` is the client: the PUT or POST it sent, the handler at work on it, the status
it got, the reads of a GET and what it showed. `Submit` hands a request to an idle handler
of `Inventory`, `Receive` takes the answer. 201 counts as 200 and 400 as 500: no client tells
them apart. `Timeout` ends the wait and leaves the handler at work, so that the
client's next attempt goes to another one. `BreakUpload` is a body cut off: `handlerOf`
answers 500 and calls the handler nevertheless (`server.go:104`), which refuses
the partial JSON. A client whose PUT got no 200 sends the same again, else it may send what
the last GET showed. GET is served here, read by read (`GetAsked`, `GetHostsOfAsked`,
`ReadHostOfAsked`, `RespondShown`). `untouched[c]` is history: no handler has written since
the last GET of `c` began.

A client that repeats a failed command is its user, not code. `meshemctl` registers only
`svc apply`; `show` is written and not registered (`svc_cmd.go`), and GET has
`APIClient.GetService` as its other client.

### Xds and Mesh

`col` is the collector goroutine: the services left in this round, the service in
hand as first read, its dependencies as read, the snapshots to set. One action
per call of the inventory, in the order of `MakeSnapshotsOfService`, then one
`SetSnapshot` per host in any order (Go maps). A snapshot is the set of clusters,
endpoints, routes and listeners with the attributes in which two snapshots of a
node can differ, and its version. An error of one service ends that service
only (`NextService`, `server.go:113`).

`cache`, `watching`, `flight`, `envoy` are go-control-plane and the Envoys, external to
the repository: a request is answered at once if the cache holds another version
than it names, else it waits; `SetSnapshot` answers a waiting one under the same
condition. One stream per node stands for those of the four resource types, which
share the version; that an aggregated stream answers the types in some order is left out.

`Mesh` puts `Inventory` and `Xds` side by side on the same `services` and `hosts`. A step
is a step of a handler, of the collector, of an Envoy, of the clock, or a stop
of the whole process, which loses the collector's position and the cache and
leaves Consul and what the Envoys run with.

`FreshVersions = TRUE` makes a handler wait with `Stamp` until the clock passed every
stored version. That is how the code behaves when no two changes fall into one
millisecond, and it separates the effects of orders from those of equal
versions; it is an assumption of the mesh runs, not something the code ensures.

## 3. Runs

Deadlock is checked where the model has work to do for ever: in `repo` and the mesh runs.
In the others the bound on requests makes it stop, as the real server is idle when no
request comes. `EveryRequestAnswered` covers a handler that gets stuck.

| run | instance | shows |
|---|---|---|
| `inv_all` | 1 handler, 3 requests out of 14 covering every operation (IPv6 host, duplicate port, port of its own host among them), empty store, 1 crash or failed call | `TypeOK`, `ListedHostsExist`, `HostListedOnce`, `CatalogBacked`, `StoredValid`, `VersionsMonotone`, `EveryRequestAnswered` |
| `inv_disjoint` | 2 handlers on different services and hosts, 3 requests, 1 crash | `ListedHostsExist`, `HostListedOnce` and `VersionsMonotone` survive interleaving, and `AppliedWhenOk`, `StoresAgree`, `RepeatedPutWritesNothing` |
| `ctl` | 2 clients that create the same service with the same dependency on different ports, one also GETs; 2 handlers; 3 commands; 1 crash, failed call, timeout or broken upload | `StoredValid` (updates are lost, no record is malformed), `CommandConverges`, `ShownIsNoChange` |
| `repo` | heap or Consul, as chosen at the start, 2 services, 2 hosts, every method, any sequence of calls; 1 failed call to Consul | `HeapImplementsRepository`, `ConsulImplementsRepository` |
| `mesh_front` | 1 handler, 2 PUTs on the service that has a dependency, collector, 1 Envoy | `VersionIdentifiesConfig`, `EnvoysConverge` |
| `mesh_faults` | 1 PUT that swaps a host, or one of three that must be refused (protocol, egress host with a colon, and half way an ingress address with a colon), repeated or not, 1 crash or failed call of handler or collector, 2 Envoys, a second service that cannot be served | `SnapshotsMade`, `EnvoysConverge`, `NeverGoesBack` |
| `bug_prefix` | 1 PUT, one host name a prefix of the other | violates `ListedHostsExist` |
| `bug_retry` | 1 PUT repeated for ever, 1 crash | violates `RetriedPutConverges` |
| `bug_leftover` | `UnregisterHost`, PUTs that keep or move a host, 1 crash | violates `HostsFollow` |
| `bug_depversion` | 1 PUT that moves the host of a dependency, collector | violates `EnvoysConverge` |
| `bug_lostpush` | 1 PUT that moves a host, repeated after 1 crash | violates `EnvoysConverge` |
| `bug_cli_ok` | 1 `svc apply` that names a host of another service, no fault | violates `OkMeansApplied` |

### Bounds, and why they are enough

* *Requests (`MaxRequests`).* The state a request leaves is a store, and what another
  can meet is a store some requests left, whole or cut short. Three from an empty
  store give: create, change or remove, repeat. Retries of a failed request are not
  counted, so a client may repeat for ever.
* *Faults (`MaxFaults`, `MaxOutages`).* One is enough to leave every prefix of every
  plan or method, and, as a timeout, a handler at work beside the repeated command.
* *Clock (`MaxClock`).* In the inventory the clock has two values: a version drawn
  before or after another, or equal to it. In the mesh runs it exceeds the number
  of versions the requests can draw, so no handler waits for ever.
* *Names.* Two services, three hosts, four machines: a host kept, dropped and
  added by one PUT, or moved to another machine; a service with and without
  dependencies. `ctl` has one host and no PUT that names a new one: `bug_retry` shows
  that such a PUT cannot always be repeated. In `repo`, a record can be replaced by another, and
  a listed host can be missing. Model values are not declared symmetric: the requests name them.

### Fairness

`FairSpec`: weak fairness of each handler, since goroutines are scheduled and a
Consul call returns, if only with an error. Nothing is assumed of clients,
faults or the clock. `RetrySpec` adds a client that repeats a failed request; `CtlSpec`
adds that a handler's answer reaches the client that still waits, that GET is served, and that a
client repeats a failed command. Receiving and repeating are the network and the user, external
to the code, and faults are finitely many, so a client that times out every time is excluded.
`FairMeshSpec` adds the collector (its ticker fires again and again), the Envoys
(external: they apply a response and ask for the next), and the passing of time.
`EnvoysConverge` is conditional: *if* from some time on no request is in progress,
*then* the Envoys get there.

## 4. What the violations mean

* `bug_depversion`. `MakeSnapshotsOfService` reads the hosts of a dependency
  (`snapshot_gen.go:74`), then its version (`:78`). A PUT that moves the host
  in between gives the old address the new version; every later snapshot has that
  version too, so the Envoy keeps the old address until something else changes.
  Reading the service first would be right: an old version with new hosts is
  replaced in the next round.
* `bug_lostpush`. `UpdateHost` writes the host, then the service with its new
  version (`inventory.go:304`, `:311`). After a crash in between, the repeated PUT
  finds nothing to change, and the version stays.
* `bug_retry`. After a crash between `PutHost` and `PutService` of `RegisterHost` the
  host exists and no service lists it; every later PUT that names it fails.
* `bug_leftover`. `UnregisterHost` takes the host off the list, then out of the catalog, then
  deletes its record. After a crash behind the first of these the host is no longer listed, and the
  request sent again is answered "ok" at once (`inventory.go:232`): record and catalog entry stay,
  Prometheus goes on to scrape the host, and its name can never be registered again. `AppliedWhenOk`
  asks this much of `UnregisterHost` only as long as nothing failed. Two more paths violate
  `HostsFollow`; TLC shows them on instances without `UnregisterHost`, the second from an empty store:
  `UpdateHost` never writes the catalog (`inventory.go:304`), so a moved host keeps its old address
  there without any fault; and a crash just before `Register` (`:214`) leaves a host out of the
  catalog for good, since the repeated PUT finds no difference.
* `bug_cli_ok`. A PUT that creates a service and names a host of another one is
  answered 500 after the service was written. The answer is JSON, so `PutService` returns it with
  no error, and `applyService` prints "OK (Changed=false)": it drops the status
  (`svc_cmd.go:63`).
* `bug_prefix`. Removing `app1` deletes the record of `app10`.

Not shown by a run of their own, and documented as hazards: two PUTs that claim
the same new host both pass the check for a duplicate, so `HostListedOnce` holds only for
handlers on different hosts; `ListedHostsExist`, too, is lost when two handlers work on one
service; `AppliedWhenOk` does not hold when calls may fail,
because `AddServiceDependency` drops the error of its first read; the check of an
egress port against the hosts' ports never sees a host, because dependencies are
added before hosts and the update path has no such check. Host names twice in one PUT
break `HostListedOnce`, since nothing refuses them. `RetriedPutConverges` is checked only in
`bug_retry`; for PUTs that name no new host its counterpart `CommandConverges` holds.

## 5. Proofs

Theorems are about `Spec`, `MeshSpec`, `ConsulSpec` and `HeapSpec`, for every value of the constants that satisfies the
named assumptions: finite `Services`; `Unparsable` among `Machines`, ports natural numbers;
requests of the declared shapes; initial records of the right types
(`InventoryAssumption`) and valid (`InitialStoreValid`); calls of the interface
(`CallsAssumption`). Sets of hosts and handlers may be infinite, and crashes and failing calls
are included wherever a hypothesis does not say otherwise.

### Whatever races there are

* `TypeCorrect` (`InventoryProofs`): `Spec => []TypeOK`. `TypeOK` is not inductive: an
  action uses what earlier ones have left in the local variables (`PutService`
  writes `cur`, so `cur` must be a record by then; a scan's list holds services and
  not hosts). `TypeInv` adds `GoodState`: for every label, which operation kinds can be
  there and which variables hold what. One lemma per action; the plans of a PUT
  are lemmas on the sets of operations they produce.
* `StoreStaysValid` (`InventoryProofs`): `Spec => []StoredValid`, for any number of
  handlers on the same records. The point is that validity survives lost updates.
  `ValidInv` adds to `TypeInv` that every record *held* by a handler on its way to the
  store, and every parameter of an operation still to do, is valid. A stale
  record is written back whole, so what is stored was valid when it was built,
  whoever wrote in between; the operations on records preserve validity
  (`AppendDependent` by its checks, `RemoveDependent` and the host lists trivially,
  `Updated` by the validation that follows it).

### Clients that keep apart

Without locks most of the rest is false for two handlers on one service or one host. The
theorems below say what is true as long as each service and each host is left to one
handler, and which further hypothesis each result needs:

| hypothesis | says | without it |
|---|---|---|
| `ServicesApart(owner)` | the requests on a service come from one handler | a stale record with an older version is written back |
| `HostsApart(owner, home)` | and so do those that name a host | two handlers register the same new host |
| `HostsNamedOnce` | no PUT names a host twice | nothing refuses it (`service.go:63`), and the host is listed twice |
| `InitialHostsConsistent` | the first store lists hosts it has, once each | |
| `Extends = {}` | no name begins with another | `bug_prefix` |
| `NoDependencyDropped` | where calls fail, no PUT has dependencies | the error dropped at `inventory.go:129-131` is answered "ok" |
| `NoServiceRemoved` | no client removes a service | `UnregisterService` leaves its hosts (`inventory.go:86`), unlisted |
| `InitialHostsListed` | every host of the first store is listed | |
| `InitialVersionsPast` | no version of the first store is in the future | |

`Isolated(owner, home)` is the conjunction of the first four. With one handler `owner` and `home` are
constant, so these theorems cover any sequence of requests to an otherwise idle server, crashes
and repeats included. `MCInventory` has an ASSUME (`InstanceIsolated`) by which TLC checks that the
requests of `inv_disjoint` satisfy the hypotheses.

* `VersionsNeverGoBack` (`InventoryVersionProofs`): `Spec => VersionsMonotone`, from
  `ServicesApart` and `InitialVersionsPast` alone. The version of a write is drawn a call or
  two before it. `VersionDrawn` says that in between no newer version was stored: every stored
  version is at most the clock, and one of the own service at most the version drawn.
* `ListedHostsAlwaysExist`, `HostAlwaysListedOnce`, `CatalogAlwaysBacked`
  (`InventoryApartProofs`), from `Isolated` and `Extends = {}`. None is inductive: a write
  rests on a read some calls before. `ApartInv` adds `Fresh`, that what a handler read or
  checked still is what it was (the record it will write back lists what the store lists;
  a host to be registered is still unlisted; one to be deleted has left its list and the catalog), and
  `OpsApart`, that the operations left of a plan do not undo one another.
* `OkMeansBrought`, `RepeatedPutIsIdempotent` (`InventoryAppliedProofs`), from these and
  `NoDependencyDropped`: what a request answered "ok" is to bring about (`Brought`, the part of
  `AppliedWhenOk` that survives crashes) is there, and `Spec => RepeatedPutWritesNothing`.
  `UpToDate`: the record a handler carries is what its operation makes of the record now
  stored. `Toward`: whatever the store lacks of the request, an operation that is left
  will do, and none that is left destroys what is there. `RepeatDone`: while a PUT repeats the last one, the store
  is what it asks for, so every comparison of the plan finds nothing to do. Since `Toward` is
  established from whatever store the handler finds, what requests cut short have left does not matter.
* `StoresAlwaysAgree` (`InventoryAgreeProofs`), from these, `NoServiceRemoved` and
  `InitialHostsListed`: `Spec => []StoresAgree`. While a request runs the stores disagree.
  `InTransit` and `ToBeOffered` name the handler about to put right an unlisted or not
  yet offered host, and `ReadyToRewrite` says that a record rewritten from a PUT drops no host that has a record.
* `OkMeansAchieved` (`InventoryAgreeProofs`), from all of these: `Spec => []AppliedWhenOk`. It combines
  `OkMeansBrought` with the agreement of the stores: once an `UnregisterHost` is answered, its
  handler is at work on nothing, so that the unlisted host has neither record nor catalog entry
  (`AtRestAgrees`, `UnregisteredIsGone`), unless there was a fault.

### The whole server

* `SnapshotsAlwaysMade` (`MeshProofs`): `MeshSpec => []SnapshotsMade`, with no hypothesis beside the
  named assumptions: once the collector has read all it needs of a service, it makes the snapshots
  (`Servable`), whatever the clients ask (`mesh_faults` has clients that ask for what would break it), however many handlers race, and whatever fails. An unknown
  protocol or an address that cannot be parsed in one host would leave all hosts of the service without
  (`snapshot_gen.go:93`). It rests on `ServerStoreStaysValid` (`MeshSpec => []StoredValid`) and on
  `Sound`: what the collector has read, record by record, was valid when it was read.

* `OneConfigPerVersion` (`MeshProofs`): `MeshSpec => []VersionIdentifiesConfig`, for any number of
  handlers, services, hosts and Envoys, with the collector reading between any two calls of
  a handler. Hypotheses, besides `Isolated`, `Extends = {}`, `NoServiceRemoved` and
  `InitialVersionsPast`:

  | hypothesis | says | without it |
  |---|---|---|
  | `DependenciesFixed` | services refer only to services that no request changes | `bug_depversion`: old hosts of a dependency under its new version |
  | `FreshVersions` | every version is drawn in a millisecond of its own | two configurations get one version |
  | no "crash", no "error" | every call is answered and the server does not stop | `bug_lostpush`: a host moved under the old version |

  TLC checks by the ASSUME `FrontAlone` of `MCMesh` that `mesh_front` satisfies them. A snapshot may well
  mix what was stored at different times: a record of the service read before a PUT, hosts read after it. The
  invariant says that this happens only under a version that is no longer the
  newest. `AllNewest`: a version drawn is newer than all that its write is to supersede.
  `StoreMoves`: what any step of the inventory may do to the store (a
  record that changes gets a version newer than those of its handler's services and those that do
  not change; a listed host changes only while its service is about to). `ServiceInHand`,
  `DependenciesInHand`, `HostsInHand`: what the collector has read is as stored or
  superseded. `SnapshotOK`: a snapshot made, cached, on its way or in an Envoy is older
  than the service of its node, or has that node's configuration (`Fits`), and is no newer than
  anything the node's handler has stored (`Bound`, so that a host that later comes to another
  service gets a newer version with it). The collector's steps are proved on a store
  that stands still, and `CollectorMoves`, `SnapshotMoves` carry the result over the handlers' steps.
  `MaxBounded` gives the maximum in `LatestNodeVersion` from the well-foundedness of the naturals.

* `EnvoyNeverGoesBack` (`MeshProofs`): `MeshSpec => NeverGoesBack`. Here calls may fail, the server
  may crash at any point and start again with an empty cache, requests may change services that
  others refer to, and several versions may be drawn in one millisecond (`FreshVersions` and
  `Faults` are arbitrary). Besides `Isolated`, `Extends = {}`, `NoServiceRemoved` and
  `InitialVersionsPast` it needs two hypotheses; TLC refutes `NeverGoesBack` without either:

  | hypothesis | says | without it |
  |---|---|---|
  | `HostsSeated(seat)` | all requests and initial lists that name a host are about one service, its seat | a PUT of one service drops the host, a PUT of another takes it, and the collector, which read the record of the second before, serves the host from that older record |
  | `DependenciesStay(lasting)` | a service keeps the dependencies in `lasting[s]`, and all others are on services no request changes | a PUT drops the dependency, whose version then grows; a collector that read the service before the drop gives the snapshot that version (`LatestNodeVersion` is the greatest of both), the next one a smaller |

  The second is a property of the design: a snapshot's version is a maximum that falls when
  the service that had it is no longer referred to. The ASSUME `NothingGivenUp` of `MCMesh` has TLC check that
  `mesh_faults` satisfies both. The inductive invariant `MeshAges`:

  * `SnapshotsInOrder`: what the Envoy of a host runs with, what is on its way to it and what the cache
    has for it get no older in that order.
  * `SnapshotsAge`: each of them is at most as new as the stored record of the host's service or of
    one it refers to (`Within`), so that a round that begins now makes no older one.
  * `CollectorAges`: for a round under way, it is at most as new as something the collector has
    read for the service in hand, or has yet to read (`Ahead`). What it has read is no newer than what is stored, and
    a dependency given up since is older than the service's record of today (`InHandAges`).
    Snapshots made and not yet set are no older than those of their node and all of one version
    (`OutAges`).
  * `AgingInv`, for the inventory: `CurrentInv` and `VersionInv` of the theorems above, and that hosts
    and dependencies stay where they are, in what is stored and in what handlers have yet to write.
    `StoreAges` is what it says of a step: no record is lost or gets an older version, and
    one that gives up a dependency gets a version at least as new as the dependency's.

  `WithinMoves`, `AheadMoves` and `InHandMoves` carry these over the handlers' steps, `AgesMove` over a
  crash as well, after which there are fewer snapshots and the collector has nothing in hand.

### Repositories

* `ConsulRefines` (`ConsulRepositoryProofs`): if `Extends = {}`, that is, if no name begins
  with another, `ConsulSpec => ConsulImplementsRepository`. `bug_prefix` shows that the
  hypothesis is needed: the lemma `DeleteOneKey` is its only use. The invariant `RefinementInv`
  says of the method in progress that what it has read is still what is stored: a method about to
  write holds the record it derives from the stored one (`PutOK`), a method about to
  delete knows the key exists, and the rows collected by one with many reads are
  those of the names it has gone through (`ReadOK`), so that the last step can be the
  abstract call. `PutEffect` and `DeleteEffect` relate a write to the abstract tables;
  `Performed` turns an effect and an answer into an abstract step. One lemma per
  action; every step but the last of a method is a stutter (`Stutter`).
* `HeapRefines` (`HeapRepositoryProofs`): `HeapSpec => HeapImplementsRepository`, for any names and
  calls. The table is read from a list, which is right if no name has two rows: that is the invariant
  (`OneRowEach` of both lists). `PutRow` and `DeleteRow` say what appending, replacing and
  filtering a row do to the table; there is one lemma per method.

All invariants are shown to be kept by every action of the next-state relation; the
temporal step is by PTL.

## 6. Only model-checked

* Liveness (`EveryRequestAnswered`, `CommandConverges`, `RetriedPutConverges`,
  `EnvoysConverge`): fairness and ENABLED are out of the prover's reach.
* `HostsFollow`, `OkMeansApplied` and the other properties the code does not have.
* `ShownIsNoChange` of `CtlApi`: planned (section 8).

What a recursion computes for all inputs needs induction with an operator as
parameter, which the installed provers cannot instantiate; the models use no
RECURSIVE operator.

## 7. Not modelled

* Control API: routing, the limit on the size of a body, request logging. meshemctl: arguments,
  environment, YAML.
* That the heap repository hands out its own records, whose slices a caller could change in
  place; and `FindByName` of the discovery repository, which only reads and has no
  caller outside tests.
* Name validation by regular expressions, JSON, logging, configuration files: read once at
  the start; `Discovery` stands for the one switch that changes behaviour.
* In `Servable`, two checks of the generator that cannot fail on what it has built itself: `Consistent`
  (`snapshot_gen.go:99`) and that a dependency it has read is one of the service (`:156`). An error
  of `SetSnapshot` (`xds/server.go:117`), which ends the round.
* The Boolean a method returns beside an error (`inventory_consul.go:201`): FALSE in the model, read by no
  caller.
* What a handler would make of a part of a body that parses: a truncated JSON object does not, so
  `BreakUpload` leaves the handler alone.
* The fields of xDS resources that are the same in every snapshot: timeouts, log
  files, health checks, tracing.
* A wall clock that is set back. Snapshots of removed hosts, which the code never
  clears, stay in the cache as in the code; no property speaks of them.
* The health check filter of a listener, a constant. Ansible playbooks, Docker examples.

## 8. Plan

1. *Done:* `MeshModel`, `Inventory` with properties, `Xds`, `Mesh`; `Repository` with both
   implementations; `CtlApi`. Every safety invariant and action property of the inventory's runs,
   and both refinements of `Repository`, are proved, and so are `VersionIdentifiesConfig`,
   `NeverGoesBack` and `SnapshotsMade` of the whole server.
2. More theorems: `StoredValid` for `CtlSpec`, and `ShownIsNoChange` of `CtlApi`. The API gives
   any request to any free handler (`Deliver`), so that hypotheses on `Requests` say nothing there: the
   invariants of the inventory have to be stated for `Commands` and for what GET has
   shown, and `ShownIsNoChange` needs a single writer besides, since GET skips a listed host that
   has no record.
3. `Mesh` with equal versions (`FreshVersions = FALSE`) and with two handlers; an abstract
   data plane ("each Envoy gets the configuration of some store since its last one")
   that `Mesh` implements.
4. PUTs with a host named twice.
