------------------------ MODULE InventoryApartProofs ------------------------
(***************************************************************************)
(* As long as every service and every host is left to one handler, and no  *)
(* name is a prefix of another, the three stores stay consistent: a listed *)
(* host exists and is listed once, and the catalog has no other host.      *)
(*                                                                         *)
(* None of it is inductive.  What a handler writes was read or checked     *)
(* some calls before: Fresh says that it still is what it was, OpsApart    *)
(* that the operations the handler has left do not undo one another.       *)
(***************************************************************************)
EXTENDS InventoryVersionProofs, FunctionTheorems

ListedBy(s, h) == services[s] # None /\ h \in Listed(services[s])

Unlisted(h) == \A s \in Services : ~ListedBy(s, h)

-----------------------------------------------------------------------------
(* The stores. *)

HostsStored(owner, home) ==
    \A s \in Services, h \in Hosts : ListedBy(s, h) => home[h] = owner[s] /\ hosts[h] # None

ListedApart ==
    \A s, t \in Services, h \in Hosts : ListedBy(s, h) /\ ListedBy(t, h) => s = t

ListsOnce == \A s \in Services : services[s] # None => Once(services[s].hosts)

CatalogStored == \A h \in Hosts : catalog[h] # None => hosts[h] # None /\ Discovery

StoreApart(owner, home) ==
    HostsStored(owner, home) /\ ListedApart /\ ListsOnce /\ CatalogStored

-----------------------------------------------------------------------------
(* What the operations of a handler are. *)

OwnNames(home, p, o) ==
    /\ OwnHosts(home, p, o)
    /\ o.kind = "PutParam" => Once(o.record.hosts)
    /\ o.kind = "Put" =>
          \A i, j \in DOMAIN o.hosts : o.hosts[i].name = o.hosts[j].name => i = j

(* The rewriting of a record from the parameter of a PUT comes with        *)
(* operations on hosts only, none of which removes a host it lists.        *)
Compatible(o, x) ==
    o.kind = "PutParam" =>
        /\ x.kind \in {"RegisterHost", "UnregisterHost", "UpdateHost"} \/ x = o
        /\ x.kind = "UnregisterHost" => x.host \notin Listed(o.record)

(* Every host it lists is listed, or will be registered before. *)
Covered(ops, o) ==
    o.kind = "PutParam" =>
        \A h \in Listed(o.record) :
            \/ ListedBy(o.service, h)
            \/ \E x \in ops : x.kind = "RegisterHost" /\ x.service = o.service /\ x.host = h

OpsApart(home, p, s) ==
    /\ s.op \notin s.todo
    /\ s.pc = "begin" => s.op = None
    /\ \A o \in Pending(s) : OwnNames(home, p, o)
    /\ \A o, x \in Pending(s) : Compatible(o, x)
    /\ \A o \in s.todo : Covered(Pending(s), o)

-----------------------------------------------------------------------------
(* What a handler read is still so. *)

SameList(s) ==
    services[s.op.service] # None /\ s.cur.hosts = services[s.op.service].hosts

Appended(s) ==
    /\ services[s.op.service] # None
    /\ s.cur.hosts = Append(services[s.op.service].hosts, s.op.host)

Removed(s) ==
    /\ ListedBy(s.op.service, s.op.host)
    /\ s.cur.hosts = RemoveFirstHost(services[s.op.service], s.op.host).hosts

FreshRegisterService(s) ==
    s.pc \in {"stamp", "put"} => services[s.op.service] = None /\ s.cur.hosts = <<>>

FreshRegisterHost(s) ==
    /\ s.pc \in {"get", "putHost"} => hosts[s.op.host] = None
    /\ s.pc \in {"putHost", "stamp", "put"} => Appended(s)
    /\ s.pc \in {"stamp", "put"} => hosts[s.op.host] # None /\ Unlisted(s.op.host)
    /\ s.pc = "register" => Discovery /\ ListedBy(s.op.service, s.op.host)

FreshUnregisterHost(s) ==
    /\ s.pc \in {"stamp", "put"} => Removed(s)
    /\ s.pc \in {"deregister", "probe", "delete"} => Unlisted(s.op.host)
    /\ s.pc \in {"probe", "delete"} => catalog[s.op.host] = None

FreshUpdateHost(s) ==
    s.pc \in {"getHost", "stamp", "putHost", "put"} => SameList(s)

FreshDependency(s) == s.pc = "put" => SameList(s)

FreshPut(s) ==
    s.pc = "readHosts" =>
        /\ \A i \in DOMAIN s.rest : ListedBy(s.op.service, s.rest[i])
        /\ \A i \in DOMAIN s.found : ListedBy(s.op.service, s.found[i].name)

FreshPutParam(s) ==
    /\ \A h \in Listed(s.op.record) : ListedBy(s.op.service, h)
    /\ s.pc = "put" => s.cur.hosts = s.op.record.hosts

Fresh(s) ==
    s.pc \notin {"idle", "begin"} =>
        /\ s.op.kind = "RegisterService" => FreshRegisterService(s)
        /\ s.op.kind = "RegisterHost" => FreshRegisterHost(s)
        /\ s.op.kind = "UnregisterHost" => FreshUnregisterHost(s)
        /\ s.op.kind = "UpdateHost" => FreshUpdateHost(s)
        /\ s.op.kind \in {"AddDependency", "RemoveDependency"} => FreshDependency(s)
        /\ s.op.kind = "Put" => FreshPut(s)
        /\ s.op.kind = "PutParam" => FreshPutParam(s)

Apart(home, p, s) == OpsApart(home, p, s) /\ Fresh(s)

AllApart(home) == \A p \in Handlers : Apart(home, p, run[p])

ApartInv(owner, home) ==
    /\ TypeInv
    /\ ServicesOwned(owner)
    /\ StoreApart(owner, home)
    /\ AllApart(home)

-----------------------------------------------------------------------------
(* Lists of host names. *)

(* A list that names each host once is as long as it has hosts. *)
LEMMA OnceCardinality ==
    ASSUME NEW names \in Seq(Hosts), Once(names)
    PROVE  Cardinality(Elements(names)) = Len(names)
<1> DEFINE n == Len(names)
           S == Elements(names)
<1>1. n \in Nat /\ DOMAIN names = 1..n /\ names \in [1..n -> Hosts]
  OBVIOUS
<1>2. names \in [1..n -> S] /\ \A x \in S : \E i \in 1..n : names[i] = x
  BY <1>1 DEF Elements
<1>3. \A i, j \in 1..n : names[i] = names[j] => i = j
  BY <1>1 DEF Once
<1> HIDE DEF n, S
<1>4. names \in Bijection(1..n, S)
  BY <1>2, <1>3, Fun_IsBij
<1>5. QED
  BY <1>1, <1>4, FS_CountingElements DEF ExistsBijection, n, S

(* Appending a new name keeps a list without duplicates. *)
LEMMA AppendOnce ==
    ASSUME NEW names \in Seq(Hosts), Once(names), NEW h \in Hosts, h \notin Elements(names)
    PROVE  /\ Once(Append(names, h))
           /\ Elements(Append(names, h)) = Elements(names) \cup {h}
<1> DEFINE n == Len(names)
           new == Append(names, h)
<1>1. n \in Nat /\ DOMAIN names = 1..n /\ DOMAIN new = 1..(n + 1)
  BY AppendProperties
<1>2. new[n + 1] = h /\ \A i \in 1..n : new[i] = names[i]
  BY AppendProperties
<1> HIDE DEF n, new
<1>3. Elements(new) = Elements(names) \cup {h}
  BY <1>1, <1>2 DEF Elements
<1>4. ASSUME NEW i \in 1..(n + 1), NEW j \in 1..(n + 1), new[i] = new[j] PROVE i = j
  <2>1. \A k \in 1..n : new[k] # h
    BY <1>1, <1>2 DEF Elements
  <2>2. i \in 1..n \/ i = n + 1
    BY <1>1
  <2>3. j \in 1..n \/ j = n + 1
    BY <1>1
  <2>4. QED
    BY <1>1, <1>2, <1>4, <2>1, <2>2, <2>3 DEF Once
<1>5. QED
  BY <1>1, <1>3, <1>4 DEF Once, new

(* Cutting the first occurrence of a name out of a list without duplicates *)
(* removes the name.                                                       *)
LEMMA RemoveFirstOnce ==
    ASSUME NEW svc \in Service, Once(svc.hosts), NEW h \in Listed(svc)
    PROVE  /\ Once(RemoveFirstHost(svc, h).hosts)
           /\ Elements(RemoveFirstHost(svc, h).hosts) = Elements(svc.hosts) \ {h}
<1> DEFINE hs == svc.hosts
           n == Len(hs)
           i == CHOOSE j \in DOMAIN hs : hs[j] = h /\ \A k \in DOMAIN hs : hs[k] = h => j <= k
           new == [j \in 1..(n - 1) |-> IF j < i THEN hs[j] ELSE hs[j + 1]]
<1>1. hs \in Seq(Hosts) /\ n \in Nat /\ DOMAIN hs = 1..n
  BY DEF Service
<1>2. PICK k \in 1..n : hs[k] = h
  BY <1>1 DEF Listed
<1>3. \A j \in 1..n : hs[j] = h => j = k
  BY <1>1, <1>2 DEF Once
<1>4. k \in DOMAIN hs /\ hs[k] = h /\ \A j \in DOMAIN hs : hs[j] = h => k <= j
  BY <1>1, <1>2, <1>3
<1>5. i \in DOMAIN hs /\ hs[i] = h
  BY <1>4
<1>6. i = k
  BY <1>1, <1>3, <1>5
<1>7. RemoveFirstHost(svc, h) = [svc EXCEPT !.hosts = new]
  BY Zenon DEF RemoveFirstHost, i, new, hs, n
<1> HIDE DEF i
<1>8. RemoveFirstHost(svc, h).hosts = new
  BY <1>7 DEF Service
<1>9. /\ DOMAIN new = 1..(n - 1)
      /\ \A j \in 1..(n - 1) : /\ j < k => new[j] = hs[j]
                               /\ j >= k => new[j] = hs[j + 1]
  BY <1>1, <1>6
<1> HIDE DEF new, n, hs
<1>10. ASSUME NEW a \in 1..(n - 1), NEW b \in 1..(n - 1), new[a] = new[b] PROVE a = b
  <2> DEFINE x == IF a < k THEN a ELSE a + 1
             y == IF b < k THEN b ELSE b + 1
  <2>1. x \in 1..n /\ y \in 1..n /\ new[a] = hs[x] /\ new[b] = hs[y]
    BY <1>1, <1>9
  <2>2. x = y
    BY <1>1, <1>10, <2>1 DEF Once, hs
  <2>3. QED
    BY <1>1, <2>2
<1>11. ASSUME NEW a \in 1..(n - 1) PROVE new[a] \in Elements(hs) /\ new[a] # h
  <2> DEFINE x == IF a < k THEN a ELSE a + 1
  <2>1. x \in 1..n /\ new[a] = hs[x] /\ x # k
    BY <1>1, <1>9
  <2>2. QED
    BY <1>1, <1>3, <2>1 DEF Elements
<1>12. ASSUME NEW j \in 1..n, hs[j] # h PROVE \E a \in 1..(n - 1) : new[a] = hs[j]
  <2>1. j # k
    BY <1>2, <1>12
  <2>2. CASE j < k
    BY <1>1, <1>9, <2>2
  <2>3. CASE j > k
    <3>1. j - 1 \in 1..(n - 1) /\ j - 1 >= k /\ (j - 1) + 1 = j
      BY <1>1, <2>3
    <3>2. QED
      BY <1>9, <3>1
  <2>4. QED
    BY <1>1, <2>1, <2>2, <2>3
<1>13. Elements(new) = Elements(hs) \ {h}
  <2>1. Elements(new) \subseteq Elements(hs) \ {h}
    BY <1>9, <1>11 DEF Elements
  <2>2. ASSUME NEW x \in Elements(hs) \ {h} PROVE x \in Elements(new)
    <3>1. PICK j \in 1..n : hs[j] = x /\ hs[j] # h
      BY <1>1 DEF Elements
    <3>2. QED
      BY <1>9, <1>12, <3>1 DEF Elements
  <2>3. QED
    BY <2>1, <2>2
<1>14. Once(new)
  BY <1>9, <1>10 DEF Once
<1>15. QED
  BY <1>8, <1>13, <1>14 DEF hs

-----------------------------------------------------------------------------
(* What the other handlers hold. *)

(* What is known of a handler in the midst of an operation. *)
LEMMA InHandApart ==
    ASSUME TypeInv, NEW owner, NEW home, ServicesOwned(owner), AllApart(home),
           NEW p \in Handlers, run[p].pc \notin {"idle", "begin"}
    PROVE  /\ run[p] \in HandlerState /\ run[p].op \in Op /\ Control(run[p])
           /\ run[p].op.kind \in KindsAt(run[p].pc)
           /\ Target(p) \in Services /\ owner[Target(p)] = p
           /\ run[p].op \in Pending(run[p]) /\ OwnNames(home, p, run[p].op)
           /\ OpsApart(home, p, run[p]) /\ Fresh(run[p])
           /\ run[p].op.kind \in {"RegisterHost", "UnregisterHost", "UpdateHost"}
                 => HostName(p) \in Hosts /\ home[HostName(p)] = p
<1> USE TypeInvParts
<1>1. /\ run[p] \in HandlerState /\ run[p].op \in Op /\ Control(run[p])
      /\ run[p].op.kind \in KindsAt(run[p].pc)
      /\ Target(p) \in Services
      /\ run[p].op \in Pending(run[p])
  BY InHand, PendingOps DEF GoodState
<1>2. owner[Target(p)] = p
  BY <1>1 DEF ServicesOwned, OwnService, Target
<1>3. OpsApart(home, p, run[p]) /\ Fresh(run[p]) /\ OwnNames(home, p, run[p].op)
  BY <1>1 DEF AllApart, Apart, OpsApart
<1>4. ASSUME run[p].op.kind \in {"RegisterHost", "UnregisterHost", "UpdateHost"}
      PROVE  HostName(p) \in Hosts /\ home[HostName(p)] = p
  <2>1. HostName(p) \in Hosts
    BY <1>1, <1>4, OpKind DEF HostName, RegisterHostOp, UnregisterHostOp, UpdateHostOp
  <2>2. HostName(p) \in HostsOf(run[p].op)
    BY <1>4 DEF HostName, HostsOf
  <2>3. QED
    BY <1>3, <2>1, <2>2 DEF OwnNames, OwnHosts
<1>5. QED
  BY <1>1, <1>2, <1>3, <1>4

(* A handler whose services and hosts a step leaves alone holds what it    *)
(* held, and that is as fresh as before.                                   *)
LEMMA ApartFrame ==
    ASSUME TypeInv, NEW owner, NEW home, ServicesOwned(owner), AllApart(home),
           NEW q \in Handlers, run'[q] = run[q],
           \A s \in Services : owner[s] = q => services'[s] = services[s],
           \A h \in Hosts : home[h] = q =>
              /\ hosts'[h] = hosts[h] /\ catalog'[h] = catalog[h]
              /\ Unlisted(h) => Unlisted(h)'
    PROVE  Apart(home, q, run[q])'
<1> USE TypeInvParts
<1>1. OpsApart(home, q, run[q])'
  <2>1. OpsApart(home, q, run[q])
    BY DEF AllApart, Apart
  <2>2. \A o \in run[q].todo : o.service \in Services /\ owner[o.service] = q
    BY PendingOps, OpKind DEF ServicesOwned, OwnService
  <2>3. \A o \in run[q].todo : Covered(Pending(run[q]), o)'
    BY <2>1, <2>2 DEF OpsApart, Covered, ListedBy, Pending
  <2>4. Pending(run[q])' = Pending(run[q])
    BY DEF Pending
  <2>5. QED
    BY <2>1, <2>3, <2>4 DEF OpsApart
<1>2. Fresh(run[q])'
  <2> SUFFICES ASSUME run[q].pc \notin {"idle", "begin"} PROVE Fresh(run[q])'
    BY DEF Fresh
  <2> DEFINE t == run[q].op.service
             h == run[q].op.host
             kind == run[q].op.kind
  <2>1. /\ t \in Services /\ owner[t] = q /\ services'[t] = services[t]
        /\ Fresh(run[q]) /\ run[q].op \in Op
    BY InHandApart DEF Target
  <2>2. kind \in {"RegisterHost", "UnregisterHost", "UpdateHost"} =>
          /\ hosts'[h] = hosts[h] /\ catalog'[h] = catalog[h]
          /\ Unlisted(h) => Unlisted(h)'
    BY InHandApart DEF HostName
  <2>3. kind = "RegisterService" => FreshRegisterService(run[q])'
    BY <2>1 DEF Fresh, FreshRegisterService
  <2>4. kind = "RegisterHost" => FreshRegisterHost(run[q])'
    BY <2>1, <2>2 DEF Fresh, FreshRegisterHost, Appended, ListedBy
  <2>5. kind = "UnregisterHost" => FreshUnregisterHost(run[q])'
    BY <2>1, <2>2 DEF Fresh, FreshUnregisterHost, Removed, ListedBy
  <2>6. kind = "UpdateHost" => FreshUpdateHost(run[q])'
    BY <2>1 DEF Fresh, FreshUpdateHost, SameList
  <2>7. kind \in {"AddDependency", "RemoveDependency"} => FreshDependency(run[q])'
    BY <2>1 DEF Fresh, FreshDependency, SameList
  <2>8. kind = "Put" => FreshPut(run[q])'
    BY <2>1 DEF Fresh, FreshPut, ListedBy
  <2>9. kind = "PutParam" => FreshPutParam(run[q])'
    BY <2>1 DEF Fresh, FreshPutParam, ListedBy
  <2> HIDE DEF kind
  <2>10. QED
    BY <2>3, <2>4, <2>5, <2>6, <2>7, <2>8, <2>9 DEF Fresh, kind
<1>3. QED
  BY <1>1, <1>2 DEF Apart

(* Only four calls write hosts or the catalog. *)
LEMMA HostsWriters ==
    ASSUME NEW p \in Handlers, Work(p)
    PROVE  \/ hosts' = hosts /\ catalog' = catalog
           \/ PutHost(p) \/ Register(p) \/ Deregister(p)
           \/ /\ DeleteTree(p) /\ In(p, {"UnregisterHost"}, "delete")
              /\ hosts' = [h \in Hosts |-> IF Under(HostName(p), h) THEN None ELSE hosts[h]]
              /\ catalog' = catalog
<1> USE DEF ReadOnly, store
<1>1. CASE Begin(p) \/ Reject(p) \/ Return(p)
  BY <1>1 DEF Begin, Reject, Return
<1>2. CASE RunRegisterHost(p) \/ RunUnregisterHost(p) \/ RunUpdateHost(p)
  BY <1>2 DEF RunRegisterHost, RunUnregisterHost, RunUpdateHost, CheckHostName, GetForRegister,
              GetForUnregister, GetForUpdate, GetHost
<1>3. CASE RunService(p) \/ RunDependency(p) \/ RunPut(p)
  BY <1>3 DEF RunService, RunDependency, RunPut, CheckServiceName, ListServices, ScanService,
              PlanUnregister, GetForDependency, CheckPorts, GetToAppend, GetToRemove,
              GetForPut, GetHostsForPut, PlanUpdate
<1>4. CASE RunShared(p)
  BY <1>4 DEF RunShared, ReadHost, Stamp, PutService, ProbeKey, DeleteTree
<1>5. QED
  BY <1>1, <1>2, <1>3, <1>4 DEF Work

(* A step of a handler leaves alone the hosts left to others. *)
LEMMA WritesOwnHosts ==
    ASSUME NEW owner, NEW home, ApartInv(owner, home), Extends = {},
           NEW p \in Handlers, Work(p)
    PROVE  \A h \in Hosts : home[h] # p => hosts'[h] = hosts[h] /\ catalog'[h] = catalog[h]
<1> USE TypeInvParts DEF ApartInv, In
<1>1. CASE PutHost(p)
  <2>1. HostName(p) \in Hosts /\ home[HostName(p)] = p
    BY <1>1, InHandApart DEF PutHost
  <2>2. QED
    BY <1>1, <2>1 DEF PutHost, StoreType
<1>2. CASE Register(p) \/ Deregister(p)
  <2>1. HostName(p) \in Hosts /\ home[HostName(p)] = p
    BY <1>2, InHandApart DEF Register, Deregister
  <2>2. \E x : catalog' = [catalog EXCEPT ![HostName(p)] = x]
    BY <1>2 DEF Register, Deregister
  <2>3. hosts' = hosts
    BY <1>2 DEF Register, Deregister
  <2>4. QED
    BY <2>1, <2>2, <2>3 DEF StoreType
<1>3. CASE /\ In(p, {"UnregisterHost"}, "delete")
           /\ hosts' = [h \in Hosts |-> IF Under(HostName(p), h) THEN None ELSE hosts[h]]
           /\ catalog' = catalog
  <2>1. HostName(p) \in Hosts /\ home[HostName(p)] = p
    BY <1>3, InHandApart
  <2>2. QED
    BY <1>3, <2>1 DEF Under
<1>4. QED
  BY <1>1, <1>2, <1>3, HostsWriters

(* The other handlers do not notice a step of a handler. *)
LEMMA OthersApart ==
    ASSUME NEW owner, NEW home, ApartInv(owner, home), Extends = {},
           NEW p \in Handlers, Work(p), HostsStored(owner, home)'
    PROVE  \A q \in Handlers : q # p => Apart(home, q, run[q])'
<1> USE DEF ApartInv
<1> SUFFICES ASSUME NEW q \in Handlers, q # p
             PROVE  Apart(home, q, run[q])'
  OBVIOUS
<1>1. run'[q] = run[q]
  BY OthersKept
<1>2. \A s \in Services : owner[s] = q => services'[s] = services[s]
  BY WritesOwnServices
<1>3. \A h \in Hosts : home[h] = q => hosts'[h] = hosts[h] /\ catalog'[h] = catalog[h]
  BY WritesOwnHosts
<1>4. ASSUME NEW h \in Hosts, home[h] = q, Unlisted(h) PROVE Unlisted(h)'
  BY <1>2, <1>4 DEF Unlisted, HostsStored, ListedBy
<1>5. QED
  BY <1>1, <1>2, <1>3, <1>4, ApartFrame

-----------------------------------------------------------------------------
(* What the handler itself holds after a step. *)

(* It goes on with the operation in hand. *)
LEMMA MoveApart ==
    ASSUME NEW owner, NEW home, ApartInv(owner, home), NEW p \in Handlers,
           run'[p].todo = run[p].todo, run'[p].op = run[p].op, run'[p].pc # "begin",
           services' = services, Fresh(run[p])'
    PROVE  Apart(home, p, run[p])'
<1>1. OpsApart(home, p, run[p])
  BY DEF ApartInv, AllApart, Apart
<1>2. Pending(run[p])' = Pending(run[p])
  BY DEF Pending
<1>3. \A o \in run[p].todo : Covered(Pending(run[p]), o)'
  BY <1>1, <1>2 DEF OpsApart, Covered, ListedBy
<1>4. OpsApart(home, p, run[p])'
  BY <1>1, <1>2, <1>3 DEF OpsApart
<1>5. QED
  BY <1>4 DEF Apart

(* It has only operations left to begin. *)
LEMMA BetweenApart ==
    ASSUME NEW home, NEW p \in Handlers, NEW ops \in SUBSET Op,
           run'[p].todo = ops, run'[p].op = None, run'[p].pc \in {"idle", "begin"},
           \A o \in ops : OwnNames(home, p, o) /\ Covered(ops, o)',
           \A o, x \in ops : Compatible(o, x)
    PROVE  Apart(home, p, run[p])'
<1>1. Pending(run[p])' = ops
  BY InventoryAssumption DEF Pending
<1>2. run'[p].op \notin run'[p].todo
  BY InventoryAssumption
<1>3. OpsApart(home, p, run[p])'
  BY <1>1, <1>2 DEF OpsApart
<1>4. QED
  BY <1>3 DEF Apart, Fresh

(* It ends the operation: a RegisterHost only once its host is listed. *)
LEMMA EndApart ==
    ASSUME NEW owner, NEW home, ApartInv(owner, home), NEW p \in Handlers,
           \/ Fail(p)
           \/ /\ Finish(p) /\ services' = services /\ run[p].pc \notin {"idle", "begin"}
              /\ run[p].op.kind = "RegisterHost" => ListedBy(run[p].op.service, run[p].op.host)
    PROVE  Apart(home, p, run[p])'
<1> USE TypeInvParts DEF ApartInv
<1>1. CASE Fail(p)
  <2>1. run'[p].todo = {} /\ run'[p].op = None /\ run'[p].pc \in {"idle", "begin"}
    BY <1>1 DEF Fail, Go, Idle, At, RunType
  <2>2. QED
    BY <2>1, BetweenApart
<1>2. CASE /\ Finish(p) /\ services' = services /\ run[p].pc \notin {"idle", "begin"}
           /\ run[p].op.kind = "RegisterHost" => ListedBy(run[p].op.service, run[p].op.host)
  <2>1. /\ run'[p].todo = run[p].todo /\ run'[p].op = None
        /\ run'[p].pc \in {"idle", "begin"}
    BY <1>2, ContinueOps DEF Finish
  <2>2. OpsApart(home, p, run[p]) /\ run[p].todo \subseteq Pending(run[p])
        /\ run[p].todo \subseteq Op
    BY PendingOps DEF AllApart, Apart
  <2>3. \A o \in run[p].todo : OwnNames(home, p, o)
    BY <2>2 DEF OpsApart
  <2>4. \A o, x \in run[p].todo : Compatible(o, x)
    BY <2>2 DEF OpsApart
  <2>5. ASSUME NEW o \in run[p].todo PROVE Covered(run[p].todo, o)'
    BY <1>2, <2>1, <2>2 DEF OpsApart, Covered, ListedBy, Pending
  <2>6. QED
    BY <2>1, <2>2, <2>3, <2>4, <2>5, BetweenApart
<1>3. QED
  BY <1>1, <1>2

(* The fields of the local state after a step that changes some of them. *)

(* A step to another label.                                                *)
LEMMA GoPc ==
    ASSUME RunType, NEW p \in Handlers, NEW a,
           Go(p, [run[p] EXCEPT !.pc = a])
    PROVE  /\ run'[p].todo = run[p].todo /\ run'[p].op = run[p].op
           /\ run'[p].pc = a /\ run'[p].cur = run[p].cur /\ run'[p].attr = run[p].attr
<1>1. run[p] \in HandlerState
  BY DEF RunType, GoodState
<1>2. run'[p] = [run[p] EXCEPT !.pc = a]
  BY GoOps
<1>3. QED
  BY <1>1, <1>2 DEF HandlerState

(* A step that takes a record along.                                       *)
LEMMA GoCur ==
    ASSUME RunType, NEW p \in Handlers, NEW a, NEW b,
           Go(p, [run[p] EXCEPT !.pc = a, !.cur = b])
    PROVE  /\ run'[p].todo = run[p].todo /\ run'[p].op = run[p].op
           /\ run'[p].pc = a /\ run'[p].cur = b
<1>1. run[p] \in HandlerState
  BY DEF RunType, GoodState
<1>2. run'[p] = [run[p] EXCEPT !.pc = a, !.cur = b]
  BY GoOps
<1>3. QED
  BY <1>1, <1>2 DEF HandlerState

(* A step that takes attributes along.                                     *)
LEMMA GoAttr ==
    ASSUME RunType, NEW p \in Handlers, NEW a, NEW b,
           Go(p, [run[p] EXCEPT !.pc = a, !.attr = b])
    PROVE  /\ run'[p].todo = run[p].todo /\ run'[p].op = run[p].op
           /\ run'[p].pc = a /\ run'[p].cur = run[p].cur /\ run'[p].attr = b
<1>1. run[p] \in HandlerState
  BY DEF RunType, GoodState
<1>2. run'[p] = [run[p] EXCEPT !.pc = a, !.attr = b]
  BY GoOps
<1>3. QED
  BY <1>1, <1>2 DEF HandlerState

(* A step that takes a list of names along.                                *)
LEMMA GoRest ==
    ASSUME RunType, NEW p \in Handlers, NEW a, NEW b,
           Go(p, [run[p] EXCEPT !.pc = a, !.rest = b])
    PROVE  /\ run'[p].todo = run[p].todo /\ run'[p].op = run[p].op
           /\ run'[p].pc = a /\ run'[p].rest = b /\ run'[p].found = run[p].found
<1>1. run[p] \in HandlerState
  BY DEF RunType, GoodState
<1>2. run'[p] = [run[p] EXCEPT !.pc = a, !.rest = b]
  BY GoOps
<1>3. QED
  BY <1>1, <1>2 DEF HandlerState

(* A step that reads the next name of the list.                            *)
LEMMA GoFound ==
    ASSUME RunType, NEW p \in Handlers, NEW a, NEW b,
           Go(p, [run[p] EXCEPT !.rest = a, !.found = b])
    PROVE  /\ run'[p].todo = run[p].todo /\ run'[p].op = run[p].op
           /\ run'[p].pc = run[p].pc /\ run'[p].rest = a /\ run'[p].found = b
<1>1. run[p] \in HandlerState
  BY DEF RunType, GoodState
<1>2. run'[p] = [run[p] EXCEPT !.rest = a, !.found = b]
  BY GoOps
<1>3. QED
  BY <1>1, <1>2 DEF HandlerState

(* The reading calls of RegisterService and RegisterHost: neither the      *)
(* service nor the host was there.                                         *)
LEMMA RegisterApart ==
    ASSUME NEW owner, NEW home, ApartInv(owner, home), NEW p \in Handlers,
           CheckServiceName(p) \/ CheckHostName(p) \/ GetForRegister(p)
    PROVE  Apart(home, p, run[p])'
<1> USE DEF ApartInv, In, Read
<1>1. run[p].pc \notin {"idle", "begin"} /\ UNCHANGED store
  BY DEF CheckServiceName, CheckHostName, GetForRegister, ReadOnly
<1>2. /\ run[p] \in HandlerState /\ Fresh(run[p]) /\ Target(p) \in Services
      /\ run[p].op.kind \in {"RegisterHost"} => HostName(p) \in Hosts
  BY <1>1, InHandApart
<1>3. UNCHANGED <<services, hosts, catalog>>
  BY <1>1 DEF store
<1> RunType /\ StoreType
  BY TypeInvParts
<1>4. CASE Fail(p)
  BY <1>4, EndApart
<1>5. CASE CheckServiceName(p) /\ ~Fail(p)
  <2>1. run[p].op.kind = "RegisterService" /\ services[run[p].op.service] = None
    BY <1>5 DEF CheckServiceName, Current, Target
  <2>2. Go(p, [run[p] EXCEPT !.pc = "stamp", !.cur = NewService(run[p].op.protocol)])
    BY <1>5 DEF CheckServiceName
  <2>3. /\ run'[p].pc = "stamp" /\ run'[p].op = run[p].op /\ run'[p].todo = run[p].todo
        /\ run'[p].cur = NewService(run[p].op.protocol)
    BY <2>2, GoCur
  <2>4. Fresh(run[p])'
    BY <1>3, <2>1, <2>3 DEF Fresh, FreshRegisterService, NewService
  <2>5. QED
    BY <1>3, <2>3, <2>4, MoveApart
<1>6. CASE CheckHostName(p) /\ ~Fail(p)
  <2>1. /\ run[p].op.kind = "RegisterHost" /\ hosts[run[p].op.host] = None
        /\ Go(p, [run[p] EXCEPT !.pc = "get"])
    BY <1>6 DEF CheckHostName, HostName
  <2>2. run'[p].pc = "get" /\ run'[p].op = run[p].op /\ run'[p].todo = run[p].todo
    BY <2>1, GoPc
  <2>3. Fresh(run[p])'
    BY <1>3, <2>1, <2>2 DEF Fresh, FreshRegisterHost
  <2>4. QED
    BY <1>3, <2>2, <2>3, MoveApart
<1>7. CASE GetForRegister(p) /\ ~Fail(p)
  <2> DEFINE t == run[p].op.service
  <2>1. /\ run[p].op.kind = "RegisterHost" /\ hosts[run[p].op.host] = None
        /\ services[t] # None
    BY <1>2, <1>7 DEF GetForRegister, Current, Target, HostName, Fresh, FreshRegisterHost
  <2> DEFINE a == run[p].op.attr
             new == AppendHost(Current(p), HostName(p))
  <2> HIDE DEF a, new
  <2>2. run'[p] = [run[p] EXCEPT !.pc = "putHost", !.attr = a, !.cur = new]
    BY <1>7, GoOps DEF GetForRegister, a, new
  <2>3. /\ run'[p].pc = "putHost" /\ run'[p].op = run[p].op /\ run'[p].todo = run[p].todo
        /\ run'[p].cur = new
    BY <1>2, <2>2 DEF HandlerState
  <2>4. new.hosts = Append(services[t].hosts, run[p].op.host)
    BY <1>2, <2>1 DEF new, AppendHost, Current, Target, HostName, StoreType, Service
  <2>5. Fresh(run[p])'
    BY <1>3, <2>1, <2>3, <2>4 DEF Fresh, FreshRegisterHost, Appended
  <2>6. QED
    BY <1>3, <2>3, <2>5, MoveApart
<1>8. QED
  BY <1>4, <1>5, <1>6, <1>7

(* The reading calls of UnregisterHost and UpdateHost: the host is in the  *)
(* list that is carried.                                                   *)
LEMMA HostOpsApart ==
    ASSUME NEW owner, NEW home, ApartInv(owner, home), NEW p \in Handlers,
           GetForUnregister(p) \/ GetForUpdate(p) \/ GetHost(p)
    PROVE  Apart(home, p, run[p])'
<1> USE DEF ApartInv, In, Read
<1> DEFINE t == run[p].op.service
<1>1. run[p].pc \notin {"idle", "begin"} /\ UNCHANGED store
  BY DEF GetForUnregister, GetForUpdate, GetHost, ReadOnly
<1>2. run[p] \in HandlerState /\ Fresh(run[p])
  BY <1>1, InHandApart
<1>3. UNCHANGED <<services, hosts, catalog>>
  BY <1>1 DEF store
<1> RunType /\ StoreType
  BY TypeInvParts
<1>4. CASE Fail(p)
  BY <1>4, EndApart
<1>5. CASE GetForUnregister(p)
  <2>1. run[p].op.kind = "UnregisterHost"
    BY <1>5 DEF GetForUnregister
  <2>2. CASE Finish(p)
    BY <1>1, <1>3, <2>1, <2>2, EndApart
  <2>3. CASE ~Finish(p)
    <3>1. /\ ListedBy(t, run[p].op.host)
          /\ Go(p, [run[p] EXCEPT !.pc = "stamp",
                                  !.cur = RemoveFirstHost(services[t], run[p].op.host)])
      BY <1>5, <2>3 DEF GetForUnregister, IsListed, Current, Target, HostName, ListedBy
    <3>2. /\ run'[p].pc = "stamp" /\ run'[p].op = run[p].op /\ run'[p].todo = run[p].todo
          /\ run'[p].cur = RemoveFirstHost(services[t], run[p].op.host)
      BY <3>1, GoCur
    <3>3. Fresh(run[p])'
      BY <1>3, <2>1, <3>1, <3>2 DEF Fresh, FreshUnregisterHost, Removed, ListedBy
    <3>4. QED
      BY <1>3, <3>2, <3>3, MoveApart
  <2>4. QED
    BY <2>2, <2>3
<1>6. CASE GetForUpdate(p) /\ ~Fail(p)
  <2>1. run[p].op.kind = "UpdateHost" /\ services[t] # None
    BY <1>6 DEF GetForUpdate, IsListed, Current, Target
  <2>2. Go(p, [run[p] EXCEPT !.pc = "getHost", !.cur = Current(p)])
    BY <1>6 DEF GetForUpdate
  <2>3. /\ run'[p].pc = "getHost" /\ run'[p].op = run[p].op /\ run'[p].todo = run[p].todo
        /\ run'[p].cur = Current(p)
    BY <2>2, GoCur
  <2>4. Fresh(run[p])'
    BY <1>3, <2>1, <2>3 DEF Fresh, FreshUpdateHost, SameList, Current, Target
  <2>5. QED
    BY <1>3, <2>3, <2>4, MoveApart
<1>7. CASE GetHost(p) /\ ~Fail(p)
  <2>1. run[p].op.kind = "UpdateHost" /\ SameList(run[p])
    BY <1>2, <1>7 DEF GetHost, Fresh, FreshUpdateHost
  <2>2. PICK a : Go(p, [run[p] EXCEPT !.pc = "stamp", !.attr = a])
    BY <1>7 DEF GetHost
  <2>3. /\ run'[p].pc = "stamp" /\ run'[p].op = run[p].op /\ run'[p].todo = run[p].todo
        /\ run'[p].cur = run[p].cur
    BY <2>2, GoAttr
  <2>4. Fresh(run[p])'
    BY <1>3, <2>1, <2>3 DEF Fresh, FreshUpdateHost, SameList
  <2>5. QED
    BY <1>3, <2>3, <2>4, MoveApart
<1>8. QED
  BY <1>4, <1>5, <1>6, <1>7

(* The calls of UnregisterService carry nothing that could be stale. *)
LEMMA ScanApart ==
    ASSUME NEW owner, NEW home, ApartInv(owner, home), NEW p \in Handlers,
           ListServices(p) \/ ScanService(p)
    PROVE  Apart(home, p, run[p])'
<1> USE DEF ApartInv, In, Read
<1>1. /\ run[p].pc \notin {"idle", "begin"} /\ UNCHANGED store
      /\ run[p].op.kind = "UnregisterService" /\ Calls(p)
  BY DEF ListServices, ScanService, ReadOnly, Calls
<1>2. CASE Fail(p) \/ Finish(p)
  BY <1>1, <1>2, EndApart DEF store
<1>3. CASE run'[p].todo = run[p].todo /\ run'[p].op = run[p].op /\ run'[p].pc = "scan"
  <2>1. Fresh(run[p])'
    BY <1>1, <1>3 DEF Fresh
  <2>2. QED
    BY <1>1, <1>3, <2>1, MoveApart DEF store
<1>4. ~Fail(p) /\ ~Finish(p) => run'[p].pc = "scan"
  <2>1. run \in [Handlers -> HandlerState]
    BY TypeInvParts DEF RunType, GoodState
  <2>2. CASE ListServices(p)
    <3>1. PICK order : Go(p, [run[p] EXCEPT !.pc = "scan", !.rest = order])
      BY <2>2 DEF ListServices
    <3>2. QED
      BY <3>1, GoRest, TypeInvParts
  <2>3. CASE ScanService(p)
    BY <2>1, <2>3 DEF ScanService, Go, HandlerState
  <2>4. QED
    BY <2>2, <2>3
<1>5. QED
  BY <1>1, <1>2, <1>3, <1>4, CallOps

(* The operations on dependencies carry the list of hosts they read. *)
LEMMA DependencyApart ==
    ASSUME NEW owner, NEW home, ApartInv(owner, home), NEW p \in Handlers,
           RunDependency(p)
    PROVE  Apart(home, p, run[p])'
<1> USE DEF ApartInv, In, Read
<1>1. /\ run[p].pc \notin {"idle", "begin"} /\ UNCHANGED store /\ Calls(p)
      /\ run[p].op.kind \in {"AddDependency", "RemoveDependency"}
  BY DEF RunDependency, GetForDependency, CheckPorts, GetToAppend, GetToRemove, ReadOnly, Calls
<1>2. /\ run[p] \in HandlerState /\ Fresh(run[p]) /\ Target(p) \in Services
      /\ run[p].op \in Op
  BY <1>1, InHandApart
<1>3. UNCHANGED <<services, hosts, catalog>>
  BY <1>1 DEF store
<1> RunType /\ StoreType
  BY TypeInvParts
<1>4. CASE Fail(p) \/ Finish(p)
  BY <1>1, <1>3, <1>4, EndApart
<1>5. CASE GetForDependency(p) /\ ~Finish(p)
  <2>1. Go(p, [run[p] EXCEPT !.pc = "readHosts", !.rest = Current(p).hosts])
    BY <1>5 DEF GetForDependency
  <2> DEFINE names == Current(p).hosts
  <2> HIDE DEF names
  <2>2. /\ run'[p].pc = "readHosts" /\ run'[p].op = run[p].op /\ run'[p].todo = run[p].todo
    BY <2>1, GoRest, Zenon DEF names
  <2>3. Fresh(run[p])'
    BY <1>1, <2>2 DEF Fresh, FreshDependency
  <2>4. QED
    BY <1>3, <2>2, <2>3, MoveApart
<1>6. CASE CheckPorts(p) /\ ~Fail(p)
  <2>1. Go(p, [run[p] EXCEPT !.pc = "stamp"])
    BY <1>6 DEF CheckPorts
  <2>2. /\ run'[p].pc = "stamp" /\ run'[p].op = run[p].op /\ run'[p].todo = run[p].todo
    BY <2>1, GoPc
  <2>3. Fresh(run[p])'
    BY <1>1, <2>2 DEF Fresh, FreshDependency
  <2>4. QED
    BY <1>3, <2>2, <2>3, MoveApart
<1>7. CASE (GetToAppend(p) \/ GetToRemove(p)) /\ ~Fail(p) /\ ~Finish(p)
  <2>1. Current(p) # None /\ Current(p) \in Service
    BY <1>2, <1>7 DEF GetToAppend, GetToRemove, Current, StoreType
  <2>2. PICK new : /\ Go(p, [run[p] EXCEPT !.pc = "put", !.cur = new])
                   /\ new.hosts = Current(p).hosts
    <3>1. CASE GetToAppend(p)
      <4>1. Go(p, [run[p] EXCEPT !.pc = "put",
                                 !.cur = AppendDependent(Current(p), run[p].op.dep)])
        BY <1>7, <3>1 DEF GetToAppend
      <4>2. AppendDependent(Current(p), run[p].op.dep).hosts = Current(p).hosts
        BY <2>1 DEF AppendDependent, Service
      <4>3. QED
        BY <4>1, <4>2
    <3>2. CASE GetToRemove(p)
      <4>1. Go(p, [run[p] EXCEPT !.pc = "put",
                                 !.cur = RemoveDependent(Current(p), run[p].op.name)])
        BY <1>7, <3>2 DEF GetToRemove
      <4>2. RemoveDependent(Current(p), run[p].op.name).hosts = Current(p).hosts
        BY <2>1 DEF RemoveDependent, Service
      <4>3. QED
        BY <4>1, <4>2
    <3>3. QED
      BY <1>7, <3>1, <3>2
  <2>3. /\ run'[p].pc = "put" /\ run'[p].op = run[p].op /\ run'[p].todo = run[p].todo
        /\ run'[p].cur = new
    BY <2>2, GoCur
  <2>4. Fresh(run[p])'
    BY <1>1, <1>3, <2>1, <2>2, <2>3 DEF Fresh, FreshDependency, SameList, Current, Target
  <2>5. QED
    BY <1>3, <2>3, <2>4, MoveApart
<1>8. QED
  BY <1>4, <1>5, <1>6, <1>7 DEF RunDependency

(* The reading calls of a PUT: the names it still has to read, and those   *)
(* it has read, are in the list of the service.                            *)
LEMMA PutReadsApart ==
    ASSUME NEW owner, NEW home, ApartInv(owner, home), NEW p \in Handlers,
           \/ GetForPut(p) /\ Current(p) # None
           \/ GetHostsForPut(p)
           \/ ReadHost(p)
    PROVE  Apart(home, p, run[p])'
<1> USE DEF ApartInv, In, Read
<1>1. /\ run[p].pc \notin {"idle", "begin"} /\ UNCHANGED store
      /\ run[p].op.kind \in {"AddDependency", "Put"}
  BY DEF GetForPut, GetHostsForPut, ReadHost, ReadOnly
<1>2. /\ run[p] \in HandlerState /\ Fresh(run[p]) /\ Target(p) \in Services
      /\ run[p].op \in Op /\ Control(run[p])
  BY <1>1, InHandApart
<1>3. UNCHANGED <<services, hosts, catalog>>
  BY <1>1 DEF store
<1> RunType /\ StoreType
  BY TypeInvParts
<1>4. CASE Fail(p)
  BY <1>4, EndApart
<1>5. CASE GetForPut(p) /\ Current(p) # None
  <2>1. Go(p, [run[p] EXCEPT !.pc = "getHosts", !.cur = Current(p)])
    BY <1>5 DEF GetForPut
  <2>2. /\ run'[p].pc = "getHosts" /\ run'[p].op = run[p].op /\ run'[p].todo = run[p].todo
    BY <2>1, GoCur
  <2>3. Fresh(run[p])'
    BY <1>1, <1>5, <2>2 DEF Fresh, FreshPut, GetForPut
  <2>4. QED
    BY <1>3, <2>2, <2>3, MoveApart
<1>6. CASE GetHostsForPut(p) /\ ~Fail(p)
  <2> DEFINE names == Current(p).hosts
  <2>1. run[p].op.kind = "Put" /\ Current(p) # None /\ run[p].found = <<>>
    BY <1>2, <1>6 DEF GetHostsForPut, Control
  <2>2. run'[p] = [run[p] EXCEPT !.pc = "readHosts", !.rest = names]
    BY <1>6, GoOps DEF GetHostsForPut
  <2>3. \A i \in DOMAIN names : ListedBy(run[p].op.service, names[i])
    BY <2>1 DEF ListedBy, Listed, Current, Target
  <2> HIDE DEF names
  <2>4. /\ run'[p].pc = "readHosts" /\ run'[p].op = run[p].op /\ run'[p].todo = run[p].todo
        /\ run'[p].rest = names /\ run'[p].found = run[p].found
    BY <1>2, <2>2 DEF HandlerState
  <2>5. Fresh(run[p])'
    BY <1>3, <2>1, <2>3, <2>4 DEF Fresh, FreshPut, ListedBy
  <2>6. QED
    BY <1>3, <2>4, <2>5, MoveApart
<1>7. CASE ReadHost(p)
  <2> DEFINE h == Head(run[p].rest)
             rest == Tail(run[p].rest)
             found == IF hosts[h] # None
                      THEN Append(run[p].found, [name |-> h, attr |-> hosts[h]])
                      ELSE run[p].found
  <2>1. Go(p, [run[p] EXCEPT !.rest = rest, !.found = found])
    BY <1>7 DEF ReadHost
  <2>2. /\ run[p].pc = "readHosts" /\ run[p].rest # <<>>
        /\ run[p].rest \in Seq(Hosts) /\ run[p].found \in Seq(NamedHost)
    BY <1>2, <1>7 DEF ReadHost, Control
  <2>3. ASSUME run[p].op.kind = "Put"
        PROVE  /\ \A i \in DOMAIN rest : ListedBy(run[p].op.service, rest[i])
               /\ \A i \in DOMAIN found : ListedBy(run[p].op.service, found[i].name)
    <3>1. /\ \A i \in DOMAIN run[p].rest : ListedBy(run[p].op.service, run[p].rest[i])
          /\ \A i \in DOMAIN run[p].found : ListedBy(run[p].op.service, run[p].found[i].name)
      BY <1>2, <2>2, <2>3 DEF Fresh, FreshPut
    <3> DEFINE n == Len(run[p].rest)
    <3>2. /\ n \in Nat /\ n > 0 /\ DOMAIN run[p].rest = 1..n /\ h = run[p].rest[1]
          /\ DOMAIN rest = 1..(n - 1) /\ \A i \in 1..(n - 1) : rest[i] = run[p].rest[i + 1]
      BY <2>2
    <3> HIDE DEF rest, n, h
    <3>3. \A i \in DOMAIN rest : ListedBy(run[p].op.service, rest[i])
      <4> SUFFICES ASSUME NEW i \in DOMAIN rest
                   PROVE  ListedBy(run[p].op.service, rest[i])
        OBVIOUS
      <4>1. i \in 1..(n - 1) /\ i + 1 \in 1..n
        BY <3>2
      <4>2. i + 1 \in DOMAIN run[p].rest /\ rest[i] = run[p].rest[i + 1]
        BY <3>2, <4>1
      <4>3. QED
        BY <3>1, <4>2
    <3>4. ListedBy(run[p].op.service, h)
      <4>1. 1 \in DOMAIN run[p].rest
        BY <3>2
      <4>2. QED
        BY <3>1, <3>2, <4>1
    <3> DEFINE x == [name |-> h, attr |-> hosts[h]]
               more == Append(run[p].found, x)
    <3>5. x.name = h
      OBVIOUS
    <3> HIDE DEF x
    <3>6. /\ Len(run[p].found) \in Nat /\ DOMAIN run[p].found = 1..Len(run[p].found)
          /\ DOMAIN more = 1..(Len(run[p].found) + 1)
          /\ more[Len(run[p].found) + 1] = x
          /\ \A i \in 1..Len(run[p].found) : more[i] = run[p].found[i]
      BY <2>2
    <3> HIDE DEF more
    <3>7. \A i \in DOMAIN more : ListedBy(run[p].op.service, more[i].name)
      <4> SUFFICES ASSUME NEW i \in DOMAIN more
                   PROVE  ListedBy(run[p].op.service, more[i].name)
        OBVIOUS
      <4>1. CASE i = Len(run[p].found) + 1
        BY <3>4, <3>5, <3>6, <4>1
      <4>2. CASE i \in 1..Len(run[p].found)
        BY <3>1, <3>6, <4>2
      <4>3. QED
        BY <3>6, <4>1, <4>2
    <3>8. found \in {more, run[p].found}
      BY DEF more, x
    <3>9. QED
      BY <3>1, <3>3, <3>7, <3>8
  <2> HIDE DEF rest, found
  <2>4. /\ run'[p].pc = run[p].pc /\ run'[p].op = run[p].op /\ run'[p].todo = run[p].todo
        /\ run'[p].rest = rest /\ run'[p].found = found
    BY <2>1, GoFound
  <2>5. Fresh(run[p])'
    BY <1>1, <1>3, <2>2, <2>3, <2>4 DEF Fresh, FreshPut, FreshDependency, ListedBy
  <2>6. QED
    BY <1>3, <2>2, <2>4, <2>5, MoveApart
<1>8. QED
  BY <1>4, <1>5, <1>6, <1>7

-----------------------------------------------------------------------------
(* Beginning, rejecting and planning. *)

(* The operation begun was among those left: a rewriting of the record     *)
(* comes after every host was registered, so it lists listed hosts only.   *)
LEMMA BeginApart ==
    ASSUME NEW owner, NEW home, ApartInv(owner, home), NEW p \in Handlers, Begin(p)
    PROVE  Apart(home, p, run[p])'
<1> USE TypeInvParts DEF ApartInv
<1>1. services' = services /\ run[p].pc = "begin" /\ OpsApart(home, p, run[p])
  BY DEF Begin, store, AllApart, Apart
<1>2. PICK ops : ops = run[p].todo
  OBVIOUS
<1>3. PICK o \in First(ops) :
        /\ run'[p] = [At(FirstCall[o.kind], ops \ {o}) EXCEPT !.op = o]
        /\ run'[p].op = o /\ run'[p].todo = ops \ {o}
        /\ run'[p].pc \in {"list", "get", "stamp", "probe"}
        /\ o \in ops /\ o \in Op
  BY <1>2, BeginOps
<1>4. Pending(run[p])' = ops /\ Pending(run[p]) = ops
  <2>1. run[p].op = None /\ ops \subseteq Op /\ None \notin Op
    BY <1>1, <1>2, PendingOps, InventoryAssumption DEF OpsApart, Pending
  <2>2. QED
    BY <1>2, <1>3, <2>1 DEF Pending
<1>5. /\ \A x \in ops : OwnNames(home, p, x) /\ Covered(ops, x)
      /\ \A x, y \in ops : Compatible(x, y)
  BY <1>1, <1>2, <1>4 DEF OpsApart
<1>6. \A x \in ops : Covered(ops, x)'
  BY <1>1, <1>5 DEF Covered, ListedBy
<1>7. OpsApart(home, p, run[p])'
  <2>1. run'[p].op \notin run'[p].todo /\ run'[p].pc # "begin" /\ run'[p].todo \subseteq ops
    BY <1>3
  <2>2. QED
    BY <1>4, <1>5, <1>6, <2>1 DEF OpsApart
<1>8. o.kind = "PutParam" => FreshPutParam(run[p])'
  <2> SUFFICES ASSUME o.kind = "PutParam" PROVE FreshPutParam(run[p])'
    OBVIOUS
  <2>1. run'[p].pc = "stamp"
    BY <1>3 DEF At, FirstCall
  <2>2. \A x \in ops : x.kind # "RegisterHost"
    BY <1>3 DEF First, Before, Rank
  <2>3. \A h \in Listed(o.record) : ListedBy(o.service, h)'
    BY <1>3, <1>6, <2>2 DEF Covered
  <2>4. QED
    BY <1>3, <2>1, <2>3 DEF FreshPutParam, ListedBy
<1>9. Fresh(run[p])'
  <2>1. run'[p].pc = FirstCall[o.kind]
    BY <1>3 DEF At
  <2>2. o.kind \in {"RegisterHost", "UpdateHost", "Put", "UnregisterHost", "RegisterService",
                    "AddDependency"} => run'[p].pc \in {"list", "get"}
    BY <2>1 DEF FirstCall
  <2>3. o.kind = "RemoveDependency" => run'[p].pc = "stamp"
    BY <2>1 DEF FirstCall
  <2>4. o.kind = "RegisterHost" => run'[p].pc = "list"
    BY <2>1 DEF FirstCall
  <2>5. QED
    BY <1>3, <1>8, <2>2, <2>3, <2>4 DEF Fresh, FreshRegisterService, FreshRegisterHost,
       FreshUnregisterHost, FreshUpdateHost, FreshDependency, FreshPut
<1>10. QED
  BY <1>7, <1>9 DEF Apart

(* A rejected or finished request leaves nothing to do. *)
LEMMA ReturnApart ==
    ASSUME NEW owner, NEW home, ApartInv(owner, home), NEW p \in Handlers,
           Reject(p) \/ Return(p)
    PROVE  Apart(home, p, run[p])'
<1> USE TypeInvParts DEF ApartInv
<1>1. CASE Reject(p)
  BY <1>1, EndApart DEF Reject
<1>2. CASE Return(p)
  <2>1. run'[p] = Idle
    BY <1>2, GoOps DEF Return
  <2>2. run'[p].todo = {} /\ run'[p].op = None /\ run'[p].pc = "idle"
    BY <2>1 DEF Idle, At
  <2>3. QED
    BY <2>2, BetweenApart
<1>3. QED
  BY <1>1, <1>2

(* Operations among which is no rewriting of a record can follow in any    *)
(* state of the store.                                                     *)
LEMMA PlannedApart ==
    ASSUME RunType, NEW home, NEW p \in Handlers, NEW ops \in SUBSET Op, Continue(p, ops),
           \A o \in ops : OwnHosts(home, p, o) /\ o.kind \notin {"Put", "PutParam"}
    PROVE  Apart(home, p, run[p])'
<1>1. run'[p].todo = ops /\ run'[p].op = None /\ run'[p].pc = "begin"
  BY ContinueOps
<1>2. \A o \in ops : OwnNames(home, p, o) /\ Covered(ops, o)'
  BY DEF OwnNames, Covered
<1>3. \A o, x \in ops : Compatible(o, x)
  BY DEF Compatible
<1>4. QED
  BY <1>1, <1>2, <1>3, BetweenApart

(* The creation of a service registers hosts of the PUT. *)
LEMMA CreateApart ==
    ASSUME NEW owner, NEW home, ApartInv(owner, home), NEW p \in Handlers,
           GetForPut(p), Current(p) = None
    PROVE  Apart(home, p, run[p])'
<1> USE TypeInvParts DEF ApartInv, In
<1> DEFINE r == run[p].op
           plan == CreatePlan(r)
<1>1. r.kind = "Put" /\ Continue(p, plan) /\ r \in Op /\ OwnHosts(home, p, r)
  BY InHandApart DEF GetForPut, OwnNames
<1>2. plan \in SUBSET Op
  BY <1>1, OpKind, CreatePlanType
<1>3. \A h \in ParamNames(r) : home[h] = p
  BY <1>1 DEF OwnHosts, HostsOf
<1>4. \A o \in plan : OwnHosts(home, p, o) /\ o.kind \notin {"Put", "PutParam"}
  BY <1>3 DEF CreatePlan, OwnHosts, HostsOf, ParamNames
<1> HIDE DEF plan
<1>5. QED
  BY <1>1, <1>2, <1>4, PlannedApart

(* The removal of a service writes no host. *)
LEMMA UnregisterApart ==
    ASSUME NEW owner, NEW home, ApartInv(owner, home), NEW p \in Handlers,
           PlanUnregister(p)
    PROVE  Apart(home, p, run[p])'
<1> USE TypeInvParts DEF ApartInv, In
<1>1. run[p].pc \notin {"idle", "begin"} /\ OwnService(owner, p, run[p].op)
  BY PendingOps DEF PlanUnregister, ServicesOwned
<1>2. PICK ops : /\ Continue(p, ops)
                 /\ \A o \in ops : o.kind \in {"RemoveDependency", "DeleteService"}
  BY <1>1, UnregisterPlanOwned
<1>3. ops \in SUBSET Op
  <2>1. TypeInv'
    BY WorkType DEF Work, RunService
  <2>2. run'[p].todo = ops
    BY <1>2, ContinueOps
  <2>3. QED
    BY <2>1, <2>2 DEF TypeInv, TypeOK, HandlerState
<1>4. \A o \in ops : OwnHosts(home, p, o) /\ o.kind \notin {"Put", "PutParam"}
  BY <1>2 DEF OwnHosts, HostsOf
<1>5. QED
  BY <1>2, <1>3, <1>4, PlannedApart

(* What the update of a service consists of. *)
LEMMA UpdatePlanKinds ==
    ASSUME NEW r, NEW svc, NEW current, NEW o \in UpdatePlan(r, svc, current)
    PROVE  /\ o.service = r.service
           /\ \/ o.kind \in {"RegisterHost", "UpdateHost"} /\ o.host \in ParamNames(r)
              \/ /\ o.kind = "UnregisterHost" /\ o.host \notin ParamNames(r)
                 /\ \E j \in DOMAIN current : o.host = current[j].name
              \/ o.kind = "PutParam" /\ o.record = ParamService(r) /\ o.at = 0
<1>1. CASE o \in NewHosts(r, current)
  BY <1>1 DEF NewHosts, ParamNames
<1>2. CASE o \in DelHosts(r, current)
  BY <1>2 DEF DelHosts
<1>3. CASE o \in ModifiedHosts(r, current)
  BY <1>3 DEF ModifiedHosts, ParamNames
<1>4. CASE o \in ServiceDiff(r, svc)
  BY <1>4 DEF ServiceDiff
<1>5. QED
  BY <1>1, <1>2, <1>3, <1>4 DEF UpdatePlan

(* There is at most one rewriting of the record among it. *)
LEMMA UpdatePlanParam ==
    ASSUME NEW r, NEW svc, NEW current, NEW o \in UpdatePlan(r, svc, current),
           NEW x \in UpdatePlan(r, svc, current), o.kind = "PutParam", x.kind = "PutParam"
    PROVE  x = o
<1>1. \A y \in UpdatePlan(r, svc, current) : y.kind = "PutParam" => y \in ServiceDiff(r, svc)
  BY DEF UpdatePlan, NewHosts, DelHosts, ModifiedHosts
<1>2. QED
  BY <1>1 DEF ServiceDiff

(* The record that a PUT asks for lists the hosts that the PUT names. *)
LEMMA ParamListed ==
    ASSUME NEW r \in PutOp,
           \A i, j \in DOMAIN r.hosts : r.hosts[i].name = r.hosts[j].name => i = j
    PROVE  /\ Listed(ParamService(r)) = ParamNames(r)
           /\ Once(ParamService(r).hosts)
<1> DEFINE names == [i \in 1..Len(r.hosts) |-> r.hosts[i].name]
<1>1. r.hosts \in Seq(NamedHost)
  BY DEF PutOp
<1>2. ParamService(r).hosts = names
  BY DEF ParamService
<1>3. DOMAIN names = DOMAIN r.hosts /\ \A i \in DOMAIN r.hosts : names[i] = r.hosts[i].name
  BY <1>1
<1> HIDE DEF names
<1>4. QED
  BY <1>2, <1>3 DEF Listed, ParamNames, Once

(* The update of a service: the hosts it removes were read from the list,  *)
(* and a host of the new record that was not is registered before.         *)
LEMMA UpdateApart ==
    ASSUME NEW owner, NEW home, ApartInv(owner, home), NEW p \in Handlers, PlanUpdate(p)
    PROVE  Apart(home, p, run[p])'
<1> USE TypeInvParts DEF ApartInv, In
<1>1. PICK r : r = run[p].op
  OBVIOUS
<1>2. PICK current : current = run[p].found
  OBVIOUS
<1>3. PICK svc : svc = run[p].cur
  OBVIOUS
<1> DEFINE plan == UpdatePlan(r, svc, current)
<1>4. /\ run[p].pc = "readHosts" /\ r.kind = "Put" /\ Continue(p, plan)
      /\ services' = services
  BY <1>1, <1>2, <1>3 DEF PlanUpdate, ReadOnly, store
<1>5. /\ r \in PutOp /\ svc \in Service /\ current \in Seq(NamedHost)
      /\ OwnNames(home, p, r) /\ Fresh(run[p])
      /\ r.service \in Services /\ owner[r.service] = p
  BY <1>1, <1>2, <1>3, <1>4, InHandApart, OpKind DEF Control, HoldsService, Target
<1>6. plan \in SUBSET Op
  BY <1>5, UpdatePlanType
<1>7. /\ \A h \in ParamNames(r) : home[h] = p
      /\ \A i, j \in DOMAIN r.hosts : r.hosts[i].name = r.hosts[j].name => i = j
  BY <1>4, <1>5 DEF OwnNames, OwnHosts, HostsOf
<1>8. Listed(ParamService(r)) = ParamNames(r) /\ Once(ParamService(r).hosts)
  BY <1>5, <1>7, ParamListed
<1>9. \A j \in DOMAIN current : /\ current[j].name \in Hosts
                                /\ ListedBy(r.service, current[j].name)
                                /\ home[current[j].name] = p
  <2> SUFFICES ASSUME NEW j \in DOMAIN current
               PROVE  /\ current[j].name \in Hosts
                      /\ ListedBy(r.service, current[j].name)
                      /\ home[current[j].name] = p
    OBVIOUS
  <2>1. current[j] \in NamedHost
    BY <1>5
  <2>2. current[j].name \in Hosts
    BY <2>1 DEF NamedHost
  <2>3. ListedBy(r.service, current[j].name)
    BY <1>1, <1>2, <1>4, <1>5 DEF Fresh, FreshPut
  <2>4. QED
    BY <1>5, <2>2, <2>3 DEF StoreApart, HostsStored
<1>10. \A o \in plan : OwnNames(home, p, o)
  <2> SUFFICES ASSUME NEW o \in plan PROVE OwnNames(home, p, o)
    OBVIOUS
  <2>1. CASE o.kind \in {"RegisterHost", "UpdateHost", "UnregisterHost"}
    BY <1>7, <1>9, <2>1, UpdatePlanKinds DEF OwnNames, OwnHosts, HostsOf
  <2>2. CASE o.kind = "PutParam"
    <3>1. o.record = ParamService(r)
      BY <2>2, UpdatePlanKinds
    <3>2. QED
      BY <1>7, <1>8, <2>2, <3>1 DEF OwnNames, OwnHosts, HostsOf
  <2>3. QED
    BY <2>1, <2>2, UpdatePlanKinds
<1>11. \A o, x \in plan : Compatible(o, x)
  <2> SUFFICES ASSUME NEW o \in plan, NEW x \in plan, o.kind = "PutParam"
               PROVE  /\ x.kind \in {"RegisterHost", "UnregisterHost", "UpdateHost"} \/ x = o
                      /\ x.kind = "UnregisterHost" => x.host \notin Listed(o.record)
    BY DEF Compatible
  <2>1. o.record = ParamService(r)
    BY UpdatePlanKinds
  <2>2. x.kind \in {"RegisterHost", "UnregisterHost", "UpdateHost"} \/ x = o
    BY UpdatePlanKinds, UpdatePlanParam
  <2>3. x.kind = "UnregisterHost" => x.host \notin ParamNames(r)
    BY UpdatePlanKinds
  <2>4. QED
    BY <1>8, <2>1, <2>2, <2>3
<1>12. \A o \in plan : Covered(plan, o)'
  <2>1. \A o \in plan : o.kind = "PutParam" => o.record = ParamService(r) /\ o.service = r.service
    BY UpdatePlanKinds
  <2> SUFFICES ASSUME NEW o \in plan, NEW h \in ParamNames(r), o.kind = "PutParam"
               PROVE  \/ ListedBy(r.service, h)'
                      \/ \E x \in plan : /\ x.kind = "RegisterHost"
                                         /\ x.service = r.service /\ x.host = h
    BY <1>8, <2>1 DEF Covered
  <2>2. CASE \E j \in DOMAIN current : current[j].name = h
    BY <1>4, <1>9, <2>2 DEF ListedBy
  <2>3. CASE \A j \in DOMAIN current : current[j].name # h
    <3>1. PICK i \in DOMAIN r.hosts : r.hosts[i].name = h
      BY DEF ParamNames
    <3>2. i \in Nat /\ InParamMap(r, i)
      BY <1>5, <1>7, PutParts DEF InParamMap
    <3> DEFINE x == [kind |-> "RegisterHost", at |-> i, service |-> r.service,
                     host |-> r.hosts[i].name, attr |-> r.hosts[i].attr]
    <3>3. x \in NewHosts(r, current)
      <4> DEFINE y == <<i, i>>
      <4>1. /\ y \in (DOMAIN r.hosts) \X (DOMAIN r.hosts) /\ y[1] = i /\ y[2] = i
        OBVIOUS
      <4> HIDE DEF y
      <4>2. QED
        BY <2>3, <3>1, <3>2, <4>1 DEF NewHosts
    <3>4. x \in plan /\ x.kind = "RegisterHost" /\ x.service = r.service /\ x.host = h
      BY <3>1, <3>3 DEF UpdatePlan
    <3>5. QED
      BY <3>4
  <2>4. QED
    BY <2>2, <2>3
<1> HIDE DEF plan
<1>13. run'[p].todo = plan /\ run'[p].op = None /\ run'[p].pc = "begin"
  BY <1>4, ContinueOps
<1>14. QED
  BY <1>6, <1>10, <1>11, <1>12, <1>13, BetweenApart

-----------------------------------------------------------------------------
(* The writing calls. *)

(* Drawing a version changes nothing that the handler knows. *)
LEMMA StampApart ==
    ASSUME NEW owner, NEW home, ApartInv(owner, home), NEW p \in Handlers, Stamp(p)
    PROVE  Apart(home, p, run[p])'
<1> USE DEF ApartInv, Read
<1> DEFINE kind == run[p].op.kind
           next == AfterStamp[kind]
           rec == IF kind = "PutParam" THEN run[p].op.record ELSE run[p].cur
<1>1. run[p].pc = "stamp" /\ UNCHANGED <<services, hosts, catalog>>
  BY DEF Stamp, ReadOnly, store
<1>2. Fresh(run[p]) /\ kind \in KindsAt("stamp") /\ RunType
  BY <1>1, InHandApart, TypeInvParts
<1>3. Go(p, [run[p] EXCEPT !.pc = next, !.ver = clock, !.cur = rec])
  BY DEF Stamp
<1>4. /\ next \in {"put", "reget", "putHost"}
      /\ kind \in {"RegisterService", "RegisterHost", "UnregisterHost", "PutParam"} => next = "put"
      /\ kind = "UpdateHost" => next = "putHost"
      /\ kind \in {"AddDependency", "RemoveDependency"} => next = "reget"
  BY <1>2 DEF AfterStamp, KindsAt
<1>5. rec = IF kind = "PutParam" THEN run[p].op.record ELSE run[p].cur
  OBVIOUS
<1> HIDE DEF next, rec
<1>6. /\ run'[p].todo = run[p].todo /\ run'[p].op = run[p].op
      /\ run'[p].pc = next /\ run'[p].cur = rec
  <2>1. run'[p] = [run[p] EXCEPT !.pc = next, !.ver = clock, !.cur = rec]
    BY <1>2, <1>3, GoOps
  <2>2. run[p] \in HandlerState
    BY <1>2 DEF RunType, GoodState
  <2>3. QED
    BY <2>1, <2>2 DEF HandlerState
<1>7. CASE kind \in {"RegisterService", "RegisterHost", "UnregisterHost", "UpdateHost"}
  <2>1. rec = run[p].cur
    BY <1>5, <1>7
  <2>2. Fresh(run[p])'
    BY <1>1, <1>2, <1>4, <1>6, <1>7, <2>1 DEF Fresh, FreshRegisterService, FreshRegisterHost,
       FreshUnregisterHost, FreshUpdateHost, Appended, Removed, SameList, ListedBy, Unlisted
  <2>3. QED
    BY <1>1, <1>4, <1>6, <2>2, MoveApart
<1>8. CASE kind = "PutParam"
  <2>1. Fresh(run[p])'
    BY <1>1, <1>2, <1>5, <1>6, <1>8 DEF Fresh, FreshPutParam, ListedBy
  <2>2. QED
    BY <1>1, <1>4, <1>6, <2>1, MoveApart
<1>9. CASE kind \in {"AddDependency", "RemoveDependency"}
  <2>1. Fresh(run[p])'
    BY <1>4, <1>6, <1>9 DEF Fresh, FreshDependency
  <2>2. QED
    BY <1>1, <1>4, <1>6, <2>1, MoveApart
<1>10. QED
  BY <1>2, <1>7, <1>8, <1>9 DEF KindsAt

(* A record is written for a new host that no service lists, or in place   *)
(* of another.                                                             *)
LEMMA PutHostApart ==
    ASSUME NEW owner, NEW home, ApartInv(owner, home), NEW p \in Handlers, PutHost(p)
    PROVE  Apart(home, p, run[p])'
<1> USE DEF ApartInv, In
<1> DEFINE kind == run[p].op.kind
           next == IF kind = "RegisterHost" THEN "stamp" ELSE "put"
<1>1. /\ run[p].pc = "putHost" /\ services' = services
      /\ kind \in {"RegisterHost", "UpdateHost"}
      /\ hosts' = [hosts EXCEPT ![HostName(p)] = run[p].attr]
      /\ Go(p, [run[p] EXCEPT !.pc = next])
  BY DEF PutHost
<1>2. Fresh(run[p]) /\ HostName(p) \in Hosts /\ run[p].attr \in HostAttr /\ RunType /\ StoreType
  BY <1>1, InHandApart, TypeInvParts DEF Control, HoldsAttr
<1> HIDE DEF next
<1>3. /\ run'[p].todo = run[p].todo /\ run'[p].op = run[p].op
      /\ run'[p].pc = next /\ run'[p].cur = run[p].cur
  BY <1>1, <1>2, GoPc
<1>4. CASE kind = "RegisterHost"
  <2>1. hosts[HostName(p)] = None /\ Appended(run[p])
    BY <1>1, <1>2, <1>4 DEF Fresh, FreshRegisterHost, HostName
  <2>2. Unlisted(HostName(p))
    BY <1>2, <2>1 DEF StoreApart, HostsStored, Unlisted
  <2>3. hosts'[HostName(p)] # None
    BY <1>1, <1>2, InventoryAssumption DEF StoreType
  <2>4. Fresh(run[p])'
    BY <1>1, <1>3, <1>4, <2>1, <2>2, <2>3
       DEF Fresh, FreshRegisterHost, Appended, ListedBy, Unlisted, HostName, next
  <2>5. QED
    BY <1>1, <1>3, <1>4, <2>4, MoveApart DEF next
<1>5. CASE kind = "UpdateHost"
  <2>1. Fresh(run[p])'
    BY <1>1, <1>2, <1>3, <1>5 DEF Fresh, FreshUpdateHost, SameList
  <2>2. QED
    BY <1>1, <1>3, <1>5, <2>1, MoveApart DEF next
<1>6. QED
  BY <1>1, <1>4, <1>5

(* The last calls of RegisterHost and UnregisterHost. *)
LEMMA CatalogApart ==
    ASSUME NEW owner, NEW home, ApartInv(owner, home), NEW p \in Handlers,
           Register(p) \/ Deregister(p)
    PROVE  Apart(home, p, run[p])'
<1> USE DEF ApartInv, In
<1>1. run[p].pc \in {"register", "deregister"} /\ services' = services
  BY DEF Register, Deregister
<1>2. Fresh(run[p]) /\ RunType /\ StoreType
  BY <1>1, InHandApart, TypeInvParts
<1>3. CASE Register(p)
  <2>1. Finish(p) /\ run[p].op.kind = "RegisterHost" /\ run[p].pc = "register"
    BY <1>3 DEF Register
  <2>2. ListedBy(run[p].op.service, run[p].op.host)
    BY <1>2, <2>1 DEF Fresh, FreshRegisterHost
  <2>3. QED
    BY <1>1, <2>1, <2>2, EndApart
<1>4. CASE Deregister(p)
  <2>1. /\ Go(p, [run[p] EXCEPT !.pc = "probe"]) /\ run[p].op.kind = "UnregisterHost"
        /\ run[p].pc = "deregister"
        /\ catalog' = [catalog EXCEPT ![HostName(p)] = None]
    BY <1>4 DEF Deregister
  <2>2. HostName(p) \in Hosts
    BY <2>1, InHandApart
  <2>3. catalog'[run[p].op.host] = None
    BY <1>2, <2>1, <2>2 DEF StoreType, HostName
  <2>4. /\ run'[p].todo = run[p].todo /\ run'[p].op = run[p].op /\ run'[p].pc = "probe"
    BY <1>2, <2>1, GoPc
  <2>5. Unlisted(run[p].op.host)
    BY <1>2, <2>1 DEF Fresh, FreshUnregisterHost
  <2>6. Fresh(run[p])'
    BY <1>1, <2>1, <2>3, <2>4, <2>5 DEF Fresh, FreshUnregisterHost, Unlisted, ListedBy
  <2>7. QED
    BY <1>1, <2>4, <2>6, MoveApart
<1>5. QED
  BY <1>3, <1>4

(* A deletion of a host does not touch the lists, and no rewriting of the  *)
(* record is left when a service is deleted.                               *)
LEMMA DeletionApart ==
    ASSUME NEW owner, NEW home, ApartInv(owner, home), NEW p \in Handlers,
           ProbeKey(p) \/ DeleteTree(p)
    PROVE  Apart(home, p, run[p])'
<1> USE DEF ApartInv, In, Read
<1> DEFINE kind == run[p].op.kind
<1>1. run[p].pc \in {"probe", "delete"} /\ kind \in {"UnregisterHost", "DeleteService"}
  BY DEF ProbeKey, DeleteTree
<1>2. Fresh(run[p]) /\ RunType /\ OpsApart(home, p, run[p]) /\ run[p].op \in Pending(run[p])
  BY <1>1, InHandApart, TypeInvParts
<1>3. CASE ProbeKey(p)
  <2>1. UNCHANGED <<services, hosts, catalog>> /\ run[p].pc = "probe"
    BY <1>3 DEF ProbeKey, ReadOnly, store
  <2>2. CASE Finish(p)
    BY <1>1, <2>1, <2>2, EndApart
  <2>3. CASE Go(p, [run[p] EXCEPT !.pc = "delete"])
    <3>1. run'[p].todo = run[p].todo /\ run'[p].op = run[p].op /\ run'[p].pc = "delete"
      BY <1>2, <2>3, GoPc
    <3>2. Fresh(run[p])'
      BY <1>1, <1>2, <2>1, <3>1 DEF Fresh, FreshUnregisterHost, Unlisted, ListedBy
    <3>3. QED
      BY <2>1, <3>1, <3>2, MoveApart
  <2>4. QED
    BY <1>3, <2>2, <2>3 DEF ProbeKey
<1>4. CASE DeleteTree(p) /\ kind = "UnregisterHost"
  BY <1>1, <1>4, EndApart DEF DeleteTree
<1>5. CASE DeleteTree(p) /\ kind = "DeleteService"
  <2>1. /\ run'[p].todo = run[p].todo /\ run'[p].op = None /\ run'[p].pc = "begin"
    BY <1>2, <1>5, ContinueOps DEF DeleteTree, Finish
  <2>2. /\ \A o \in run[p].todo : o \in Op /\ OwnNames(home, p, o)
        /\ \A o, x \in run[p].todo : Compatible(o, x)
    BY <1>2, PendingOps DEF OpsApart
  <2>3. \A o \in run[p].todo : o.kind # "PutParam"
    BY <1>2, <1>5, PendingOps DEF OpsApart, Compatible
  <2>4. \A o \in run[p].todo : Covered(run[p].todo, o)'
    BY <2>3 DEF Covered
  <2>5. run[p].todo \in SUBSET Op
    BY <2>2
  <2>6. QED
    BY <2>1, <2>2, <2>4, <2>5, BetweenApart
<1>6. QED
  BY <1>1, <1>3, <1>4, <1>5

(* The list of hosts that PutService writes for the service. *)
LEMMA PutList ==
    ASSUME TypeInv, NEW p \in Handlers, PutService(p)
    PROVE  /\ Target(p) \in Services /\ run[p].cur.hosts \in Seq(Hosts)
           /\ services'[Target(p)] # None
           /\ services'[Target(p)].hosts = run[p].cur.hosts
           /\ \A s \in Services : s # Target(p) => services'[s] = services[s]
           /\ Listed(services'[Target(p)]) = Elements(run[p].cur.hosts)
           /\ hosts' = hosts /\ catalog' = catalog
<1> USE TypeInvParts
<1> DEFINE t == run[p].op.service
           new == [run[p].cur EXCEPT !.version = run[p].ver]
<1>1. run[p].pc = "put" /\ services' = [services EXCEPT ![t] = new]
  BY DEF PutService, Target
<1>2. /\ t \in Services /\ run[p].cur \in Service /\ run[p].ver \in Nat
  BY <1>1, InHand DEF GoodState, HandlerState, Control, HoldsService, Target
<1>3. new \in Service /\ new.hosts = run[p].cur.hosts
  BY <1>2 DEF Service
<1> HIDE DEF new
<1>4. services'[t] = new /\ \A s \in Services : s # t => services'[s] = services[s]
  BY <1>1, <1>2 DEF StoreType
<1>5. new # None
  BY <1>3, InventoryAssumption
<1>6. Listed(new) = Elements(run[p].cur.hosts)
  BY <1>3 DEF Listed, Elements
<1>7. run[p].cur.hosts \in Seq(Hosts) /\ hosts' = hosts /\ catalog' = catalog
  BY <1>2 DEF Service, PutService
<1>8. QED
  BY <1>2, <1>3, <1>4, <1>5, <1>6, <1>7 DEF Target

(* Every host of that list is recorded, is left to the handler and is      *)
(* listed by no other service, and none is in it twice.                    *)
LEMMA PutListApart ==
    ASSUME NEW owner, NEW home, ApartInv(owner, home), NEW p \in Handlers, PutService(p)
    PROVE  /\ Once(run[p].cur.hosts)
           /\ \A h \in Elements(run[p].cur.hosts) :
                 /\ h \in Hosts /\ home[h] = owner[Target(p)] /\ hosts[h] # None
                 /\ \A s \in Services : ListedBy(s, h) => s = Target(p)
<1> USE DEF ApartInv
<1> DEFINE t == Target(p)
           names == run[p].cur.hosts
           kind == run[p].op.kind
           Good(h) == /\ h \in Hosts /\ home[h] = owner[t] /\ hosts[h] # None
                      /\ \A s \in Services : ListedBy(s, h) => s = t
<1>1. run[p].pc = "put"
  BY DEF PutService
<1>2. /\ Fresh(run[p]) /\ OwnNames(home, p, run[p].op) /\ kind \in KindsAt("put")
      /\ t \in Services /\ owner[t] = p /\ run[p].op \in Op
      /\ kind \in {"RegisterHost", "UnregisterHost", "UpdateHost"} =>
            HostName(p) \in Hosts /\ home[HostName(p)] = p
      /\ StoreType /\ HostsStored(owner, home) /\ ListedApart /\ ListsOnce
  BY <1>1, InHandApart, TypeInvParts DEF StoreApart
<1>3. \A h : ListedBy(t, h) => Good(h)
  <2>1. \A h : ListedBy(t, h) => h \in Hosts
    BY <1>2 DEF ListedBy, Listed, StoreType, Service
  <2>2. QED
    BY <1>2, <2>1 DEF HostsStored, ListedApart
<1>4. services[t] # None =>
        /\ services[t] \in Service /\ services[t].hosts \in Seq(Hosts)
        /\ Once(services[t].hosts)
        /\ \A h \in Elements(services[t].hosts) : ListedBy(t, h)
        /\ Elements(services[t].hosts) = Listed(services[t])
  BY <1>2 DEF StoreType, Service, ListsOnce, ListedBy, Elements, Listed
<1> HIDE DEF Good, kind
<1>5. CASE kind = "RegisterService"
  <2>1. names = <<>>
    BY <1>1, <1>2, <1>5 DEF Fresh, FreshRegisterService, kind
  <2>2. QED
    BY <2>1 DEF Once, Elements
<1>6. CASE kind \in {"UpdateHost", "AddDependency", "RemoveDependency"}
  <2>1. services[t] # None /\ names = services[t].hosts
    BY <1>1, <1>2, <1>6 DEF Fresh, FreshUpdateHost, FreshDependency, SameList, Target, kind
  <2>2. QED
    BY <1>3, <1>4, <2>1 DEF Good
<1>7. CASE kind = "RegisterHost"
  <2> DEFINE h == HostName(p)
  <2>1. /\ services[t] # None /\ names = Append(services[t].hosts, h)
        /\ hosts[h] # None /\ Unlisted(h) /\ h \in Hosts /\ home[h] = p
    BY <1>1, <1>2, <1>7 DEF Fresh, FreshRegisterHost, Appended, Target, HostName, kind
  <2>2. h \notin Elements(services[t].hosts)
    BY <1>2, <1>4, <2>1 DEF Unlisted
  <2>3. Once(names) /\ Elements(names) = Elements(services[t].hosts) \cup {h}
    BY <1>4, <2>1, <2>2, AppendOnce
  <2>4. Good(h)
    BY <1>2, <2>1 DEF Good, Unlisted
  <2> HIDE DEF h
  <2>5. \A x \in Elements(names) : Good(x)
    BY <1>3, <1>4, <2>1, <2>3, <2>4
  <2>6. QED
    BY <2>3, <2>5 DEF Good
<1>8. CASE kind = "UnregisterHost"
  <2> DEFINE h == HostName(p)
  <2>1. /\ ListedBy(t, h) /\ names = RemoveFirstHost(services[t], h).hosts
    BY <1>1, <1>2, <1>8 DEF Fresh, FreshUnregisterHost, Removed, Target, HostName, kind
  <2>2. services[t] # None /\ h \in Listed(services[t])
    BY <2>1 DEF ListedBy
  <2> HIDE DEF h
  <2>3. Once(names) /\ Elements(names) = Elements(services[t].hosts) \ {h}
    BY <1>4, <2>1, <2>2, RemoveFirstOnce
  <2>4. \A x \in Elements(names) : Good(x)
    BY <1>3, <1>4, <2>2, <2>3
  <2>5. QED
    BY <2>3, <2>4 DEF Good
<1>9. CASE kind = "PutParam"
  <2>1. /\ names = run[p].op.record.hosts
        /\ \A h \in Listed(run[p].op.record) : ListedBy(t, h)
    BY <1>1, <1>2, <1>9 DEF Fresh, FreshPutParam, Target, kind
  <2>2. Once(names) /\ Elements(names) = Listed(run[p].op.record)
    BY <1>2, <1>9, <2>1 DEF OwnNames, Elements, Listed, kind
  <2>3. QED
    BY <1>3, <2>1, <2>2 DEF Good
<1>10. QED
  BY <1>2, <1>5, <1>6, <1>7, <1>8, <1>9 DEF KindsAt

(* So the stores stay consistent. *)
LEMMA PutStore ==
    ASSUME NEW owner, NEW home, ApartInv(owner, home), NEW p \in Handlers, PutService(p)
    PROVE  StoreApart(owner, home)'
<1> USE DEF ApartInv
<1> DEFINE t == Target(p)
           names == run[p].cur.hosts
<1>1. /\ t \in Services /\ services'[t].hosts = names /\ Listed(services'[t]) = Elements(names)
      /\ \A s \in Services : s # t => services'[s] = services[s]
      /\ hosts' = hosts /\ catalog' = catalog
  BY PutList
<1>2. /\ Once(names)
      /\ \A h \in Elements(names) :
            /\ h \in Hosts /\ home[h] = owner[t] /\ hosts[h] # None
            /\ \A s \in Services : ListedBy(s, h) => s = t
  BY PutListApart
<1> HIDE DEF t, names
<1>3. \A s \in Services, h \in Hosts :
        ListedBy(s, h)' => \/ s = t /\ h \in Elements(names)
                           \/ s # t /\ ListedBy(s, h)
  BY <1>1 DEF ListedBy
<1>4. HostsStored(owner, home)'
  BY <1>1, <1>2, <1>3 DEF StoreApart, HostsStored
<1>5. ListedApart'
  BY <1>1, <1>2, <1>3 DEF StoreApart, ListedApart
<1>6. ListsOnce'
  BY <1>1, <1>2 DEF StoreApart, ListsOnce
<1>7. CatalogStored'
  BY <1>1 DEF StoreApart, CatalogStored
<1>8. QED
  BY <1>4, <1>5, <1>6, <1>7 DEF StoreApart

(* A host that the record to come lists is not lost by the operation that  *)
(* writes the record before, and the host it registers is listed then.     *)
LEMMA PutCovers ==
    ASSUME NEW owner, NEW home, ApartInv(owner, home), NEW p \in Handlers, PutService(p),
           NEW o \in run[p].todo
    PROVE  \A ops : ops = run[p].todo => Covered(ops, o)'
<1> USE DEF ApartInv
<1> SUFFICES ASSUME NEW ops, ops = run[p].todo, NEW h \in Listed(o.record), o.kind = "PutParam"
             PROVE  \/ ListedBy(o.service, h)'
                    \/ \E x \in ops : x.kind = "RegisterHost" /\ x.service = o.service /\ x.host = h
  BY DEF Covered
<1> DEFINE t == Target(p)
           names == run[p].cur.hosts
           kind == run[p].op.kind
<1>1. run[p].pc = "put"
  BY DEF PutService
<1>2. /\ Fresh(run[p]) /\ OpsApart(home, p, run[p]) /\ run[p].op \in Pending(run[p])
      /\ kind \in KindsAt("put") /\ StoreType /\ ListsOnce /\ RunType
  BY <1>1, InHandApart, TypeInvParts DEF StoreApart
<1>3. /\ t \in Services /\ services'[t] # None /\ Listed(services'[t]) = Elements(names)
      /\ \A s \in Services : s # t => services'[s] = services[s]
  BY PutList
<1>4. o \in Pending(run[p]) /\ o.service \in Services /\ run[p].op # o
  BY <1>2, PendingOps, OpKind DEF OpsApart
<1>5. /\ kind \in {"RegisterHost", "UnregisterHost", "UpdateHost"}
      /\ kind = "UnregisterHost" => run[p].op.host # h
  BY <1>2, <1>4 DEF OpsApart, Compatible
<1>6. \/ ListedBy(o.service, h)
      \/ \E x \in Pending(run[p]) : x.kind = "RegisterHost" /\ x.service = o.service /\ x.host = h
  BY <1>2 DEF OpsApart, Covered
<1> HIDE DEF names
<1>7. CASE o.service # t /\ ListedBy(o.service, h)
  BY <1>3, <1>4, <1>7 DEF ListedBy
<1>8. CASE o.service = t /\ ListedBy(t, h)
  <2>1. services[t] \in Service /\ services[t].hosts \in Seq(Hosts) /\ Once(services[t].hosts)
        /\ h \in Elements(services[t].hosts) /\ h \in Hosts
    BY <1>2, <1>3, <1>8 DEF ListedBy, StoreType, Service, ListsOnce, Listed, Elements
  <2>2. h \in Elements(names)
    <3>1. CASE kind = "RegisterHost"
      <4>1. names = Append(services[t].hosts, run[p].op.host)
        BY <1>1, <1>2, <3>1 DEF Fresh, FreshRegisterHost, Appended, Target, names
      <4>2. PICK i \in DOMAIN services[t].hosts : services[t].hosts[i] = h
        BY <2>1 DEF Elements
      <4>3. i \in DOMAIN names /\ names[i] = h
        BY <2>1, <4>1, <4>2, AppendProperties
      <4>4. QED
        BY <4>3 DEF Elements
    <3>2. CASE kind = "UnregisterHost"
      <4>1. /\ ListedBy(t, run[p].op.host)
            /\ names = RemoveFirstHost(services[t], run[p].op.host).hosts
        BY <1>1, <1>2, <3>2 DEF Fresh, FreshUnregisterHost, Removed, Target, names
      <4>2. Elements(names) = Elements(services[t].hosts) \ {run[p].op.host}
        BY <2>1, <4>1, RemoveFirstOnce DEF ListedBy
      <4>3. QED
        BY <1>5, <2>1, <3>2, <4>2
    <3>3. CASE kind = "UpdateHost"
      BY <1>1, <1>2, <2>1, <3>3 DEF Fresh, FreshUpdateHost, SameList, Target, names
    <3>4. QED
      BY <1>5, <3>1, <3>2, <3>3
  <2>3. QED
    BY <1>3, <1>8, <2>2 DEF ListedBy
<1>9. ASSUME NEW x \in Pending(run[p]), x.kind = "RegisterHost", x.service = o.service, x.host = h
      PROVE  \/ ListedBy(o.service, h)'
             \/ \E y \in ops : y.kind = "RegisterHost" /\ y.service = o.service /\ y.host = h
  <2>1. CASE x \in run[p].todo
    BY <1>9, <2>1
  <2>2. CASE x = run[p].op
    <3>1. names = Append(services[t].hosts, h) /\ services[t] # None /\ o.service = t
      BY <1>1, <1>2, <1>9, <2>2 DEF Fresh, FreshRegisterHost, Appended, Target, names
    <3>2. services[t].hosts \in Seq(Hosts)
      BY <1>2, <1>3, <3>1 DEF StoreType, Service
    <3>3. h \in Hosts
      BY <1>2, <1>9, PendingOps, OpKind DEF RegisterHostOp
    <3>4. Len(services[t].hosts) + 1 \in DOMAIN names /\ names[Len(services[t].hosts) + 1] = h
      BY <3>1, <3>2, <3>3, AppendProperties
    <3>5. h \in Elements(names)
      BY <3>4 DEF Elements
    <3>6. QED
      BY <1>3, <3>1, <3>5 DEF ListedBy
  <2>3. QED
    BY <2>1, <2>2 DEF Pending
<1>10. QED
  BY <1>6, <1>7, <1>8, <1>9

(* After the write a host registered is listed, and one unregistered is    *)
(* listed by no service any more.                                          *)
LEMMA PutApart ==
    ASSUME NEW owner, NEW home, ApartInv(owner, home), NEW p \in Handlers, PutService(p)
    PROVE  Apart(home, p, run[p])'
<1> USE DEF ApartInv
<1> DEFINE t == Target(p)
           names == run[p].cur.hosts
           kind == run[p].op.kind
           next == AfterPut(kind)
<1>1. run[p].pc = "put"
  BY DEF PutService
<1>2. /\ Fresh(run[p]) /\ OpsApart(home, p, run[p]) /\ RunType /\ StoreType
      /\ StoreApart(owner, home) /\ run[p].op \in Pending(run[p])
  BY <1>1, InHandApart, TypeInvParts
<1>3. /\ t \in Services /\ services'[t] # None /\ Listed(services'[t]) = Elements(names)
      /\ \A s \in Services : s # t => services'[s] = services[s]
      /\ hosts' = hosts /\ catalog' = catalog
  BY PutList
<1>4. PICK ops : ops = run[p].todo
  OBVIOUS
<1>5. \A o \in ops : Covered(ops, o)'
  BY <1>4, PutCovers
<1>6. ops \subseteq Pending(run[p]) /\ ops \in SUBSET Op
  BY <1>2, <1>4, PendingOps
<1>7. CASE Finish(p)
  <2>1. run'[p].todo = ops /\ run'[p].op = None /\ run'[p].pc = "begin"
    BY <1>2, <1>4, <1>7, ContinueOps DEF Finish
  <2>2. \A o \in ops : OwnNames(home, p, o)
    BY <1>2, <1>6 DEF OpsApart
  <2>3. \A o, x \in ops : Compatible(o, x)
    BY <1>2, <1>6 DEF OpsApart
  <2>4. QED
    BY <1>5, <1>6, <2>1, <2>2, <2>3, BetweenApart
<1>8. CASE next # "begin" /\ Go(p, [run[p] EXCEPT !.pc = next])
  <2> HIDE DEF next
  <2>1. /\ run'[p].todo = ops /\ run'[p].op = run[p].op /\ run'[p].pc = next
    BY <1>2, <1>4, <1>8, GoPc
  <2>2. Pending(run[p])' = Pending(run[p])
    BY <1>4, <2>1 DEF Pending
  <2>3. PICK all : all = Pending(run[p])
    OBVIOUS
  <2>4. \A o \in ops : Covered(all, o)'
    BY <1>5, <1>6, <2>3 DEF Covered
  <2>5. OpsApart(home, p, run[p])'
    <3>1. /\ \A o \in all : OwnNames(home, p, o)
          /\ \A o, x \in all : Compatible(o, x)
          /\ run[p].op \notin ops
      BY <1>2, <1>4, <2>3 DEF OpsApart
    <3>2. QED
      BY <1>8, <2>1, <2>2, <2>3, <2>4, <3>1 DEF OpsApart
  <2>6. CASE kind = "RegisterHost"
    <3>1. next = "register" /\ Discovery
      BY <1>8, <2>6 DEF next, AfterPut
    <3>2. names = Append(services[t].hosts, run[p].op.host) /\ services[t] # None
      BY <1>1, <1>2, <2>6 DEF Fresh, FreshRegisterHost, Appended, Target
    <3>3. services[t].hosts \in Seq(Hosts) /\ run[p].op.host \in Hosts
      BY <1>1, <1>2, <1>3, <2>6, <3>2, InHandApart DEF StoreType, Service, HostName
    <3>4. Len(services[t].hosts) + 1 \in DOMAIN names
          /\ names[Len(services[t].hosts) + 1] = run[p].op.host
      BY <3>2, <3>3, AppendProperties
    <3>5. run[p].op.host \in Listed(services'[t])
      BY <1>3, <3>4 DEF Elements
    <3>6. FreshRegisterHost(run[p])'
      BY <1>3, <2>1, <3>1, <3>5 DEF FreshRegisterHost, ListedBy, Target
    <3>7. Fresh(run[p])'
      BY <2>1, <2>6, <3>6 DEF Fresh
    <3>8. QED
      BY <2>5, <3>7 DEF Apart
  <2>7. CASE kind = "UnregisterHost"
    <3>1. next = IF Discovery THEN "deregister" ELSE "probe"
      BY <1>8, <2>7, InventoryAssumption DEF next, AfterPut
    <3> DEFINE h == run[p].op.host
    <3>2. ListedBy(t, h) /\ names = RemoveFirstHost(services[t], h).hosts
      BY <1>1, <1>2, <2>7 DEF Fresh, FreshUnregisterHost, Removed, Target
    <3>3. /\ services[t] \in Service /\ Once(services[t].hosts)
          /\ h \in Listed(services[t]) /\ h \in Hosts
      BY <1>1, <1>2, <1>3, <2>7, <3>2, InHandApart
         DEF StoreType, StoreApart, ListsOnce, ListedBy, HostName
    <3>4. h \notin Listed(services'[t])
      BY <1>3, <3>2, <3>3, RemoveFirstOnce
    <3>5. \A s \in Services : services'[s] # None => h \notin Listed(services'[s])
      BY <1>2, <1>3, <3>2, <3>3, <3>4 DEF StoreApart, ListedApart, ListedBy
    <3>6. Unlisted(run[p].op.host)'
      BY <2>1, <3>5 DEF Unlisted, ListedBy
    <3>7. ~Discovery => catalog[h] = None
      BY <1>2, <3>3 DEF StoreApart, CatalogStored
    <3>8. FreshUnregisterHost(run[p])'
      BY <1>3, <2>1, <3>1, <3>6, <3>7 DEF FreshUnregisterHost
    <3>9. Fresh(run[p])'
      BY <2>1, <2>7, <3>8 DEF Fresh
    <3>10. QED
      BY <2>5, <3>9 DEF Apart
  <2>8. QED
    BY <1>8, <2>6, <2>7 DEF next, AfterPut
<1>9. QED
  BY <1>7, <1>8 DEF PutService, Read

-----------------------------------------------------------------------------
(* The invariant is inductive. *)

(* Every write of a handler keeps the three stores consistent. *)
LEMMA WorkStore ==
    ASSUME NEW owner, NEW home, ApartInv(owner, home), Extends = {},
           NEW p \in Handlers, Work(p)
    PROVE  StoreApart(owner, home)'
<1> USE DEF ApartInv, In
<1>1. /\ StoreType /\ HostsStored(owner, home) /\ ListedApart /\ ListsOnce /\ CatalogStored
  BY TypeInvParts DEF StoreApart
<1>2. ASSUME services' = services, hosts' = hosts, catalog' = catalog
      PROVE  StoreApart(owner, home)'
  BY <1>1, <1>2 DEF StoreApart, HostsStored, ListedApart, ListsOnce, CatalogStored, ListedBy
<1>3. CASE PutService(p)
  BY <1>3, PutStore
<1>4. CASE DeleteTree(p) /\ In(p, {"DeleteService"}, "delete")
  <2>1. \A s \in Services : services'[s] \in {services[s], None}
    BY <1>4 DEF DeleteTree
  <2>2. hosts' = hosts /\ catalog' = catalog
    BY <1>4 DEF DeleteTree
  <2>3. \A s \in Services, h \in Hosts : ListedBy(s, h)' => ListedBy(s, h)
    BY <2>1 DEF ListedBy
  <2>4. QED
    BY <1>1, <2>1, <2>2, <2>3 DEF StoreApart, HostsStored, ListedApart, ListsOnce, CatalogStored
<1>5. CASE PutHost(p)
  <2>1. /\ services' = services /\ catalog' = catalog
        /\ hosts' = [hosts EXCEPT ![HostName(p)] = run[p].attr]
    BY <1>5 DEF PutHost
  <2>2. run[p].attr # None
    <3>1. run[p].attr \in HostAttr
      BY <1>5, InHandApart DEF PutHost, Control, HoldsAttr
    <3>2. QED
      BY <3>1, InventoryAssumption
  <2>3. \A h \in Hosts : hosts[h] # None => hosts'[h] # None
    BY <1>1, <2>1, <2>2 DEF StoreType
  <2>4. QED
    BY <1>1, <2>1, <2>3
       DEF StoreApart, HostsStored, ListedApart, ListsOnce, CatalogStored, ListedBy
<1>6. CASE Register(p) \/ Deregister(p)
  <2>1. services' = services /\ hosts' = hosts
    BY <1>6 DEF Register, Deregister
  <2>2. CatalogStored'
    <3>1. CASE Register(p)
      <4>1. Discovery /\ ListedBy(Target(p), HostName(p))
        BY <3>1, InHandApart DEF Register, Fresh, FreshRegisterHost, Target, HostName
      <4>2. HostName(p) \in Hosts /\ hosts[HostName(p)] # None
        BY <1>1, <3>1, <4>1, InHandApart DEF Register, HostsStored
      <4>3. \A h \in Hosts : h # HostName(p) => catalog'[h] = catalog[h]
        BY <1>1, <3>1 DEF Register, StoreType
      <4>4. QED
        BY <1>1, <2>1, <4>1, <4>2, <4>3 DEF CatalogStored
    <3>2. CASE Deregister(p)
      <4>1. \A h \in Hosts : catalog'[h] \in {catalog[h], None}
        BY <1>1, <3>2 DEF Deregister, StoreType
      <4>2. QED
        BY <1>1, <2>1, <4>1 DEF CatalogStored
    <3>3. QED
      BY <1>6, <3>1, <3>2
  <2>3. QED
    BY <1>1, <2>1, <2>2 DEF StoreApart, HostsStored, ListedApart, ListsOnce, ListedBy
<1>7. CASE /\ In(p, {"UnregisterHost"}, "delete") /\ DeleteTree(p)
           /\ hosts' = [h \in Hosts |-> IF Under(HostName(p), h) THEN None ELSE hosts[h]]
           /\ catalog' = catalog
  <2>1. services' = services
    BY <1>7 DEF DeleteTree
  <2>2. Unlisted(HostName(p)) /\ catalog[HostName(p)] = None
    BY <1>7, InHandApart DEF Fresh, FreshUnregisterHost, HostName
  <2>3. \A h \in Hosts : h # HostName(p) => hosts'[h] = hosts[h]
    BY <1>7 DEF Under
  <2>4. HostsStored(owner, home)'
    BY <1>1, <2>1, <2>2, <2>3 DEF HostsStored, Unlisted, ListedBy
  <2>5. CatalogStored'
    BY <1>1, <1>7, <2>2, <2>3 DEF CatalogStored
  <2>6. QED
    BY <1>1, <2>1, <2>4, <2>5 DEF StoreApart, ListedApart, ListsOnce, ListedBy
<1>8. \/ services' = services
      \/ PutService(p)
      \/ DeleteTree(p) /\ In(p, {"DeleteService"}, "delete")
  BY ServicesWriters
<1>9. CASE hosts' = hosts /\ catalog' = catalog /\ services' = services
  BY <1>2, <1>9
<1>10. QED
  BY <1>3, <1>4, <1>5, <1>6, <1>7, <1>8, <1>9, HostsWriters

(* Every step of a handler leaves it with operations as fresh as before. *)
LEMMA WorkApart ==
    ASSUME NEW owner, NEW home, ApartInv(owner, home), NEW p \in Handlers, Work(p)
    PROVE  Apart(home, p, run[p])'
<1>1. CASE Begin(p) \/ Reject(p) \/ Return(p)
  BY <1>1, BeginApart, ReturnApart
<1>2. CASE RunRegisterHost(p) \/ RunUnregisterHost(p) \/ RunUpdateHost(p)
  BY <1>2, RegisterApart, HostOpsApart, CatalogApart
     DEF RunRegisterHost, RunUnregisterHost, RunUpdateHost
<1>3. CASE RunService(p) \/ RunDependency(p)
  BY <1>3, RegisterApart, ScanApart, UnregisterApart, DependencyApart DEF RunService
<1>4. CASE RunPut(p)
  BY <1>4, CreateApart, PutReadsApart, UpdateApart DEF RunPut
<1>5. CASE RunShared(p)
  BY <1>5, PutReadsApart, StampApart, PutHostApart, PutApart, DeletionApart DEF RunShared
<1>6. QED
  BY <1>1, <1>2, <1>3, <1>4, <1>5 DEF Work

(* A request, a failing call, a crash and the passing of time write        *)
(* nothing.                                                                *)
LEMMA EnvironmentApart ==
    ASSUME NEW owner, NEW home, HostsApart(owner, home), HostsNamedOnce,
           ApartInv(owner, home),
           \/ \E p \in Handlers : \E r \in Requests[p] : Accept(p, r)
           \/ \E p \in Handlers : CallFails(p)
           \/ Crash
           \/ Tick
           \/ UNCHANGED vars
    PROVE  StoreApart(owner, home)' /\ AllApart(home)'
<1> USE TypeInvParts DEF ApartInv
<1>1. UNCHANGED <<services, hosts, catalog>>
  BY DEF Accept, CallFails, Crash, Tick, vars, store
<1>2. StoreApart(owner, home)'
  BY <1>1 DEF StoreApart, HostsStored, ListedApart, ListsOnce, CatalogStored, ListedBy
<1>3. ASSUME NEW q \in Handlers, run'[q] = run[q] PROVE Apart(home, q, run[q])'
  BY <1>1, <1>3, ApartFrame DEF Unlisted, ListedBy
<1>4. ASSUME NEW p \in Handlers, NEW r \in Requests[p], Accept(p, r)
      PROVE  AllApart(home)'
  <2>1. Continue(p, {r}) /\ r \in Request
    BY <1>4, InventoryAssumption DEF Accept
  <2>2. r \in Op /\ r.kind # "PutParam"
    BY <2>1 DEF Op, Request, RegisterServiceOp, UnregisterServiceOp, AddDependencyOp,
       RemoveDependencyOp, RegisterHostOp, UnregisterHostOp, UpdateHostOp, PutOp
  <2>3. run'[p].todo = {r} /\ run'[p].op = None /\ run'[p].pc = "begin"
        /\ \A q \in Handlers : q # p => run'[q] = run[q]
    BY <2>1, ContinueOps
  <2>4. OwnNames(home, p, r)
    BY <2>2 DEF HostsApart, HostsNamedOnce, OwnNames
  <2>5. Apart(home, p, run[p])'
    BY <2>2, <2>3, <2>4, BetweenApart DEF Covered, Compatible
  <2>6. QED
    BY <1>3, <2>3, <2>5 DEF AllApart
<1>5. ASSUME NEW p \in Handlers, CallFails(p) PROVE AllApart(home)'
  <2>1. \/ Fail(p)
        \/ Finish(p) /\ run[p].pc \notin {"idle", "begin"} /\ run[p].op.kind = "AddDependency"
    BY <1>5 DEF CallFails
  <2>2. Apart(home, p, run[p])'
    BY <1>1, <2>1, EndApart
  <2>3. \A q \in Handlers : q # p => run'[q] = run[q]
    BY <2>1, EndOps
  <2>4. QED
    BY <1>3, <2>2, <2>3 DEF AllApart
<1>6. CASE Crash
  <2>1. \A q \in Handlers : run'[q].todo = {} /\ run'[q].op = None /\ run'[q].pc = "idle"
    BY <1>6 DEF Crash, Idle, At
  <2>2. ASSUME NEW q \in Handlers PROVE Apart(home, q, run[q])'
    BY <2>1, BetweenApart
  <2>3. QED
    BY <1>2, <2>2 DEF AllApart
<1>7. CASE Tick \/ UNCHANGED vars
  <2>1. run' = run
    BY <1>7 DEF Tick, vars
  <2>2. QED
    BY <1>2, <1>3, <2>1 DEF AllApart
<1>8. QED
  BY <1>2, <1>4, <1>5, <1>6, <1>7

(* Every step keeps the invariant. *)
LEMMA StepApart ==
    ASSUME NEW owner, NEW home, Isolated(owner, home), Extends = {},
           ApartInv(owner, home), [Next]_vars
    PROVE  ApartInv(owner, home)'
<1>1. TypeInv' /\ ServicesOwned(owner)'
  BY StepType, StepOwned DEF ApartInv, Isolated
<1>2. ASSUME NEW p \in Handlers, Work(p)
      PROVE  StoreApart(owner, home)' /\ AllApart(home)'
  <2>1. StoreApart(owner, home)'
    BY <1>2, WorkStore
  <2>2. Apart(home, p, run[p])'
    BY <1>2, WorkApart
  <2>3. \A q \in Handlers : q # p => Apart(home, q, run[q])'
    BY <1>2, <2>1, OthersApart DEF StoreApart
  <2>4. QED
    BY <2>1, <2>2, <2>3 DEF AllApart
<1>3. ASSUME \/ \E p \in Handlers : \E r \in Requests[p] : Accept(p, r)
             \/ \E p \in Handlers : CallFails(p)
             \/ Crash
             \/ Tick
             \/ UNCHANGED vars
      PROVE  StoreApart(owner, home)' /\ AllApart(home)'
  <2>1. HostsApart(owner, home) /\ HostsNamedOnce
    BY DEF Isolated
  <2>2. QED
    BY <1>3, <2>1, EnvironmentApart
<1>4. StoreApart(owner, home)' /\ AllApart(home)'
  <2>1. CASE \E p \in Handlers : Work(p)
    BY <1>2, <2>1
  <2>2. QED
    BY <1>3, <2>1 DEF Next
<1>5. QED
  BY <1>1, <1>4 DEF ApartInv

(* It holds at the start. *)
LEMMA InitApart ==
    ASSUME NEW owner, NEW home, Isolated(owner, home), Init
    PROVE  ApartInv(owner, home)
<1> USE DEF Isolated
<1>1. Idle.todo = {} /\ Idle.op = None /\ Idle.pc = "idle"
  BY DEF Idle, At
<1>2. \A p \in Handlers : run[p] = Idle
  BY DEF Init
<1>3. ServicesOwned(owner) /\ AllApart(home)
  BY <1>1, <1>2, InventoryAssumption
     DEF ServicesOwned, Pending, AllApart, Apart, OpsApart, Fresh
<1>4. HostsStored(owner, home)
  BY DEF Init, HostsStored, ListedBy, HostsApart, InitialHostsConsistent
<1>5. ListedApart
  <2> SUFFICES ASSUME NEW s \in Services, NEW t \in Services, NEW h \in Hosts,
                      ListedBy(s, h), ListedBy(t, h), s # t
               PROVE  FALSE
    BY DEF ListedApart
  <2>1. /\ InitServices[s] # None /\ h \in Listed(InitServices[s])
        /\ InitServices[t] # None /\ h \in Listed(InitServices[t])
    BY DEF Init, ListedBy
  <2>2. QED
    BY <2>1 DEF InitialHostsConsistent
<1>6. ListsOnce
  BY DEF Init, ListsOnce, InitialHostsConsistent
<1>7. CatalogStored
  BY InventoryAssumption DEF Init, CatalogStored
<1>8. QED
  BY <1>3, <1>4, <1>5, <1>6, <1>7, InitType DEF ApartInv, StoreApart

(* It is an invariant. *)
LEMMA ApartInvariant ==
    ASSUME NEW CONSTANT owner, NEW CONSTANT home, Isolated(owner, home), Extends = {}
    PROVE  Spec => []ApartInv(owner, home)
<1>1. Init => ApartInv(owner, home)
  BY InitApart
<1>2. ApartInv(owner, home) /\ [Next]_vars => ApartInv(owner, home)'
  BY StepApart
<1>3. QED
  BY <1>1, <1>2, PTL DEF Spec

-----------------------------------------------------------------------------
(* With every service and every host left to one handler, no host named    *)
(* twice by a PUT and no name that is another with something appended,     *)
(* whatever calls fail and whenever the process dies, a service lists only *)
(* hosts that have a record: RegisterHost writes the record first,         *)
(* UnregisterHost deletes it last, and a PUT rewrites the list from its    *)
(* parameter only after it registered every host of it.                    *)
THEOREM ListedHostsAlwaysExist ==
    ASSUME NEW CONSTANT owner, NEW CONSTANT home, Isolated(owner, home), Extends = {}
    PROVE  Spec => []ListedHostsExist
<1>1. ApartInv(owner, home) => ListedHostsExist
  <2> SUFFICES ASSUME ApartInv(owner, home), NEW s \in Services, services[s] # None,
                      NEW h \in Listed(services[s])
               PROVE  hosts[h] # None
    BY DEF ListedHostsExist, Stored
  <2>1. h \in Hosts
    BY TypeInvParts DEF ApartInv, StoreType, Service, Listed
  <2>2. QED
    BY <2>1 DEF ApartInv, StoreApart, HostsStored, ListedBy
<1>2. QED
  BY <1>1, ApartInvariant, PTL

(* Under the same conditions no host is listed by two services, or twice   *)
(* by one: the check for duplicates of RegisterHost, made some calls       *)
(* before the list is written, is enough.                                  *)
THEOREM HostAlwaysListedOnce ==
    ASSUME NEW CONSTANT owner, NEW CONSTANT home, Isolated(owner, home), Extends = {}
    PROVE  Spec => []HostListedOnce
<1>1. ApartInv(owner, home) => HostListedOnce
  <2> SUFFICES ASSUME ApartInv(owner, home) PROVE HostListedOnce
    OBVIOUS
  <2>1. \A s \in Stored : /\ services[s] \in Service /\ services[s].hosts \in Seq(Hosts)
                          /\ Listed(services[s]) \subseteq Hosts
    BY TypeInvParts DEF ApartInv, Stored, StoreType, Service, Listed
  <2>2. ASSUME NEW s \in Stored, NEW t \in Stored, s # t
        PROVE  Listed(services[s]) \cap Listed(services[t]) = {}
    BY <2>1, <2>2 DEF ApartInv, StoreApart, ListedApart, ListedBy, Stored
  <2>3. ASSUME NEW s \in Stored
        PROVE  Cardinality(Listed(services[s])) = Len(services[s].hosts)
    <3>1. Once(services[s].hosts)
      BY DEF ApartInv, StoreApart, ListsOnce, Stored
    <3>2. Listed(services[s]) = Elements(services[s].hosts)
      BY DEF Listed, Elements
    <3>3. QED
      BY <2>1, <3>1, <3>2, OnceCardinality
  <2>4. QED
    BY <2>2, <2>3 DEF HostListedOnce
<1>2. QED
  BY <1>1, ApartInvariant, PTL

(* Under the same conditions the catalog, from which Prometheus takes its  *)
(* targets, has only hosts of the inventory.                               *)
THEOREM CatalogAlwaysBacked ==
    ASSUME NEW CONSTANT owner, NEW CONSTANT home, Isolated(owner, home), Extends = {}
    PROVE  Spec => []CatalogBacked
<1>1. ApartInv(owner, home) => CatalogBacked
  BY DEF ApartInv, StoreApart, CatalogStored, CatalogBacked
<1>2. QED
  BY <1>1, ApartInvariant, PTL
=============================================================================
