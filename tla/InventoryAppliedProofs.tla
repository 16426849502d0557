----------------------- MODULE InventoryAppliedProofs -----------------------
(***************************************************************************)
(* As long as every service and every host is left to one handler, no name *)
(* is a prefix of another and, where calls fail, no PUT has dependencies,  *)
(* what a request answered "ok" is to bring about (Brought) is there, and  *)
(* a PUT repeated then writes nothing, whenever the process dies.          *)
(*                                                                         *)
(* The argument: the record a handler carries is what its operation makes  *)
(* of the record stored now (UpToDate), and what the store lacks of the    *)
(* request is what the operations left will do (Toward).                   *)
(***************************************************************************)
EXTENDS InventoryApartProofs

-----------------------------------------------------------------------------
(* What a handler holds, read from the store or made of it, is up to date. *)

(* What an operation makes of the record of its service. *)
Made(o, svc) ==
    CASE o.kind = "RegisterService"  -> NewService(o.protocol)
      [] o.kind = "RegisterHost"     -> AppendHost(svc, o.host)
      [] o.kind = "UnregisterHost"   -> RemoveFirstHost(svc, o.host)
      [] o.kind = "AddDependency"    -> AppendDependent(svc, o.dep)
      [] o.kind = "RemoveDependency" -> RemoveDependent(svc, o.name)
      [] o.kind = "PutParam"         -> o.record
      [] OTHER                       -> svc

RecordCurrent(s) ==
    HoldsService(s) =>
        /\ s.op.kind \notin {"RegisterService", "PutParam"} => services[s.op.service] # None
        /\ s.cur = Made(s.op, services[s.op.service])

AttrCurrent(s) ==
    /\ s.op.kind = "RegisterHost" =>
          /\ s.pc \in {"putHost", "stamp", "put", "register"} => s.attr = s.op.attr
          /\ s.pc \in {"stamp", "put", "register"} => hosts[s.op.host] = s.op.attr
    /\ s.op.kind = "UpdateHost" =>
          /\ s.pc \in {"getHost", "stamp", "putHost", "put"} => ListedBy(s.op.service, s.op.host)
          /\ s.pc \in {"stamp", "putHost"} => s.attr = Updated(s.attr, s.op.attr)
          /\ s.pc = "put" => /\ hosts[s.op.host] # None
                             /\ hosts[s.op.host] = Updated(hosts[s.op.host], s.op.attr)

FoundNames(found) == {found[i].name : i \in DOMAIN found}

ReadsCurrent(s) ==
    /\ s.op.kind = "Put" /\ s.pc = "readHosts" =>
          /\ FoundNames(s.found) \cup Elements(s.rest) = Listed(services[s.op.service])
          /\ \A i \in DOMAIN s.found : s.found[i].attr = hosts[s.found[i].name]
    /\ s.op.kind = "UnregisterService" /\ s.pc = "scan" =>
          \A t \in Stored : \/ t \in Elements(s.rest)
                            \/ RefersTo(services[t], s.op.service) => t \in Elements(s.found)

Ordered(s) == \A o \in s.todo : ~Before(o, s.op)

UpToDate(s) ==
    s.pc \notin {"idle", "begin"} =>
        RecordCurrent(s) /\ AttrCurrent(s) /\ ReadsCurrent(s) /\ Ordered(s)

AllCurrent == \A p \in Handlers : UpToDate(run[p])

CurrentInv(owner, home) == ApartInv(owner, home) /\ AllCurrent

-----------------------------------------------------------------------------
(* A handler between two operations holds nothing. *)
LEMMA EndCurrent ==
    ASSUME RunType, NEW p \in Handlers, Finish(p) \/ Fail(p)
    PROVE  UpToDate(run[p])'
<1>1. run'[p].pc \in {"idle", "begin"}
  BY EndOps
<1>2. QED
  BY <1>1 DEF UpToDate

(* It goes on with the operation in hand. *)
LEMMA MoveCurrent ==
    ASSUME NEW p \in Handlers, run[p].pc \notin {"idle", "begin"}, UpToDate(run[p]),
           run'[p].todo = run[p].todo, run'[p].op = run[p].op,
           RecordCurrent(run[p])', AttrCurrent(run[p])', ReadsCurrent(run[p])'
    PROVE  UpToDate(run[p])'
  BY DEF UpToDate, Ordered

(* What a handler holds of its services and hosts is up to date as long as *)
(* a step leaves them alone.                                               *)
LEMMA CurrentFrame ==
    ASSUME NEW owner, NEW home, CurrentInv(owner, home),
           NEW q \in Handlers, run'[q] = run[q],
           \A s \in Services : owner[s] = q => services'[s] = services[s],
           \A h \in Hosts : home[h] = q => hosts'[h] = hosts[h]
    PROVE  UpToDate(run[q])'
<1> SUFFICES ASSUME run[q].pc \notin {"idle", "begin"} PROVE UpToDate(run[q])'
  BY DEF UpToDate
<1> USE DEF CurrentInv, ApartInv
<1> DEFINE t == run[q].op.service
           h == run[q].op.host
           kind == run[q].op.kind
<1>1. /\ t \in Services /\ owner[t] = q /\ services'[t] = services[t]
      /\ UpToDate(run[q]) /\ Fresh(run[q]) /\ run[q].op \in Op /\ Control(run[q])
      /\ OwnService(owner, q, run[q].op)
  BY InHandApart DEF Target, AllCurrent, ServicesOwned
<1>2. kind \in {"RegisterHost", "UpdateHost"} => hosts'[h] = hosts[h]
  BY InHandApart DEF HostName
<1>3. RecordCurrent(run[q])'
  BY <1>1 DEF UpToDate, RecordCurrent
<1>4. AttrCurrent(run[q])'
  BY <1>1, <1>2 DEF UpToDate, AttrCurrent, ListedBy
<1>5. ReadsCurrent(run[q])'
  <2>1. ASSUME kind = "Put", run[q].pc = "readHosts"
        PROVE  /\ FoundNames(run[q].found) \cup Elements(run[q].rest) = Listed(services'[t])
               /\ \A i \in DOMAIN run[q].found : run[q].found[i].attr = hosts'[run[q].found[i].name]
    <3>1. ASSUME NEW i \in DOMAIN run[q].found PROVE hosts'[run[q].found[i].name] = hosts[run[q].found[i].name]
      <4>1. run[q].found[i] \in NamedHost
        BY <1>1, <2>1 DEF Control
      <4>2. run[q].found[i].name \in Hosts
        BY <4>1 DEF NamedHost
      <4>3. ListedBy(t, run[q].found[i].name)
        BY <1>1, <2>1 DEF Fresh, FreshPut
      <4>4. home[run[q].found[i].name] = q
        BY <1>1, <4>2, <4>3 DEF StoreApart, HostsStored
      <4>5. QED
        BY <4>2, <4>4
    <3>2. QED
      BY <1>1, <2>1, <3>1 DEF UpToDate, ReadsCurrent
  <2>2. ASSUME kind = "UnregisterService", run[q].pc = "scan"
        PROVE  \A x \in Stored' : \/ x \in Elements(run[q].rest)
                                  \/ RefersTo(services'[x], t) => x \in Elements(run[q].found)
    <3>1. \A s \in Services : services'[s] = services[s]
      BY <1>1, <2>2 DEF OwnService
    <3>2. QED
      BY <1>1, <2>2, <3>1 DEF UpToDate, ReadsCurrent, Stored
  <2>3. QED
    BY <2>1, <2>2 DEF ReadsCurrent
<1>6. QED
  BY <1>1, <1>3, <1>4, <1>5, MoveCurrent

(* The other handlers do not notice a step of a handler. *)
LEMMA OthersCurrent ==
    ASSUME NEW owner, NEW home, CurrentInv(owner, home), Extends = {},
           NEW p \in Handlers, Work(p)
    PROVE  \A q \in Handlers : q # p => UpToDate(run[q])'
<1> SUFFICES ASSUME NEW q \in Handlers, q # p PROVE UpToDate(run[q])'
  OBVIOUS
<1> ApartInv(owner, home) /\ TypeInv /\ ServicesOwned(owner)
  BY DEF CurrentInv, ApartInv
<1>1. run'[q] = run[q]
  BY OthersKept
<1>2. \A s \in Services : owner[s] = q => services'[s] = services[s]
  BY WritesOwnServices
<1>3. \A h \in Hosts : home[h] = q => hosts'[h] = hosts[h]
  BY WritesOwnHosts
<1>4. QED
  BY <1>1, <1>2, <1>3, CurrentFrame

-----------------------------------------------------------------------------
(* What the handler itself holds after a call. *)

(* Updating a host twice is updating it once. *)
LEMMA UpdatedTwice ==
    ASSUME NEW old, NEW new
    PROVE  Updated(Updated(old, new), new) = Updated(old, new)
  BY DEF Updated

(* What is known of a handler in the midst of an operation. *)
LEMMA InHandCurrent ==
    ASSUME NEW owner, NEW home, CurrentInv(owner, home),
           NEW p \in Handlers, run[p].pc \notin {"idle", "begin"}
    PROVE  /\ run[p] \in HandlerState /\ run[p].op \in Op /\ Control(run[p])
           /\ run[p].op.kind \in KindsAt(run[p].pc)
           /\ Target(p) \in Services /\ Fresh(run[p]) /\ UpToDate(run[p])
           /\ run[p].op.kind \in {"RegisterHost", "UnregisterHost", "UpdateHost"}
                 => HostName(p) \in Hosts
           /\ RunType /\ StoreType
<1> USE DEF CurrentInv, ApartInv
<1>1. UpToDate(run[p]) /\ RunType /\ StoreType
  BY TypeInvParts DEF AllCurrent
<1>2. QED
  BY <1>1, InHandApart

(* The reading calls of RegisterService and RegisterHost. *)
LEMMA RegisterCurrent ==
    ASSUME NEW owner, NEW home, CurrentInv(owner, home), NEW p \in Handlers,
           CheckServiceName(p) \/ CheckHostName(p) \/ GetForRegister(p)
    PROVE  UpToDate(run[p])'
<1> USE DEF In, Read
<1>1. run[p].pc \notin {"idle", "begin"} /\ UNCHANGED <<services, hosts>>
  BY DEF CheckServiceName, CheckHostName, GetForRegister, ReadOnly, store
<1>2. /\ run[p] \in HandlerState /\ UpToDate(run[p]) /\ Target(p) \in Services
  BY <1>1, InHandCurrent
<1> RunType /\ StoreType
  BY <1>1, InHandCurrent
<1>3. CASE Fail(p)
  BY <1>2, <1>3, EndCurrent
<1>4. CASE CheckServiceName(p) /\ ~Fail(p)
  <2> DEFINE new == NewService(run[p].op.protocol)
  <2> HIDE DEF new
  <2>1. run[p].op.kind = "RegisterService"
    BY <1>4 DEF CheckServiceName
  <2>a. Go(p, [run[p] EXCEPT !.pc = "stamp", !.cur = new])
    BY <1>4 DEF CheckServiceName, new
  <2>2. /\ run'[p].pc = "stamp" /\ run'[p].op = run[p].op /\ run'[p].todo = run[p].todo
        /\ run'[p].cur = new
    BY <2>a, GoCur
  <2>3. RecordCurrent(run[p])' /\ AttrCurrent(run[p])' /\ ReadsCurrent(run[p])'
    BY <2>1, <2>2 DEF RecordCurrent, AttrCurrent, ReadsCurrent, Made, new
  <2>4. QED
    BY <1>1, <1>2, <2>2, <2>3, MoveCurrent
<1>5. CASE CheckHostName(p) /\ ~Fail(p)
  <2>1. run[p].op.kind = "RegisterHost" /\ Go(p, [run[p] EXCEPT !.pc = "get"])
    BY <1>5 DEF CheckHostName
  <2>2. run'[p].pc = "get" /\ run'[p].op = run[p].op /\ run'[p].todo = run[p].todo
    BY <2>1, GoPc
  <2>3. RecordCurrent(run[p])' /\ AttrCurrent(run[p])' /\ ReadsCurrent(run[p])'
    BY <2>1, <2>2 DEF RecordCurrent, AttrCurrent, ReadsCurrent, HoldsService
  <2>4. QED
    BY <1>1, <1>2, <2>2, <2>3, MoveCurrent
<1>6. CASE GetForRegister(p) /\ ~Fail(p)
  <2> DEFINE a == run[p].op.attr
             new == AppendHost(Current(p), HostName(p))
  <2> HIDE DEF a, new
  <2>1. run[p].op.kind = "RegisterHost" /\ services[run[p].op.service] # None
    BY <1>6 DEF GetForRegister, Current, Target
  <2>2. run'[p] = [run[p] EXCEPT !.pc = "putHost", !.attr = a, !.cur = new]
    BY <1>2, <1>6, GoOps DEF GetForRegister, a, new
  <2>3. /\ run'[p].pc = "putHost" /\ run'[p].op = run[p].op /\ run'[p].todo = run[p].todo
        /\ run'[p].cur = new /\ run'[p].attr = a
    BY <1>2, <2>2 DEF HandlerState
  <2>4. new = Made(run[p].op, services[run[p].op.service])
    BY <2>1 DEF new, Made, Current, Target, HostName
  <2>5. RecordCurrent(run[p])'
    BY <1>1, <2>1, <2>3, <2>4 DEF RecordCurrent
  <2>6. AttrCurrent(run[p])' /\ ReadsCurrent(run[p])'
    BY <2>1, <2>3 DEF AttrCurrent, ReadsCurrent, a
  <2>7. QED
    BY <1>1, <1>2, <2>3, <2>5, <2>6, MoveCurrent
<1>7. QED
  BY <1>3, <1>4, <1>5, <1>6

(* The reading calls of UnregisterHost and UpdateHost. *)
LEMMA HostOpsCurrent ==
    ASSUME NEW owner, NEW home, CurrentInv(owner, home), NEW p \in Handlers,
           GetForUnregister(p) \/ GetForUpdate(p) \/ GetHost(p)
    PROVE  UpToDate(run[p])'
<1> USE DEF In, Read
<1>1. run[p].pc \notin {"idle", "begin"} /\ UNCHANGED <<services, hosts>>
  BY DEF GetForUnregister, GetForUpdate, GetHost, ReadOnly, store
<1>2. /\ run[p] \in HandlerState /\ UpToDate(run[p]) /\ Target(p) \in Services
  BY <1>1, InHandCurrent
<1> RunType /\ StoreType
  BY <1>1, InHandCurrent
<1>3. CASE Fail(p) \/ Finish(p)
  BY <1>2, <1>3, EndCurrent
<1>4. CASE GetForUnregister(p) /\ ~Finish(p)
  <2> DEFINE new == RemoveFirstHost(Current(p), HostName(p))
  <2> HIDE DEF new
  <2>1. /\ run[p].op.kind = "UnregisterHost" /\ services[run[p].op.service] # None
        /\ Go(p, [run[p] EXCEPT !.pc = "stamp", !.cur = new])
    BY <1>4 DEF GetForUnregister, IsListed, Current, Target, new
  <2>2. /\ run'[p].pc = "stamp" /\ run'[p].op = run[p].op /\ run'[p].todo = run[p].todo
        /\ run'[p].cur = new
    BY <2>1, GoCur
  <2>3. new = Made(run[p].op, services[run[p].op.service])
    BY <2>1 DEF new, Made, Current, Target, HostName
  <2>4. RecordCurrent(run[p])'
    BY <1>1, <2>1, <2>2, <2>3 DEF RecordCurrent
  <2>5. AttrCurrent(run[p])' /\ ReadsCurrent(run[p])'
    BY <2>1, <2>2 DEF AttrCurrent, ReadsCurrent
  <2>6. QED
    BY <1>1, <1>2, <2>2, <2>4, <2>5, MoveCurrent
<1>5. CASE GetForUpdate(p) /\ ~Fail(p)
  <2>1. /\ run[p].op.kind = "UpdateHost" /\ ListedBy(run[p].op.service, run[p].op.host)
        /\ Go(p, [run[p] EXCEPT !.pc = "getHost", !.cur = Current(p)])
    BY <1>5 DEF GetForUpdate, IsListed, Current, Target, HostName, ListedBy
  <2>2. /\ run'[p].pc = "getHost" /\ run'[p].op = run[p].op /\ run'[p].todo = run[p].todo
        /\ run'[p].cur = Current(p)
    BY <2>1, GoCur
  <2>3. Current(p) = Made(run[p].op, services[run[p].op.service])
    BY <2>1 DEF Made, Current, Target
  <2>4. RecordCurrent(run[p])'
    BY <1>1, <2>1, <2>2, <2>3 DEF RecordCurrent, ListedBy
  <2>5. AttrCurrent(run[p])' /\ ReadsCurrent(run[p])'
    BY <1>1, <2>1, <2>2 DEF AttrCurrent, ReadsCurrent, ListedBy
  <2>6. QED
    BY <1>1, <1>2, <2>2, <2>4, <2>5, MoveCurrent
<1>6. CASE GetHost(p) /\ ~Fail(p)
  <2> DEFINE new == Updated(hosts[HostName(p)], run[p].op.attr)
  <2> HIDE DEF new
  <2>1. run[p].op.kind = "UpdateHost" /\ run[p].pc = "getHost"
    BY <1>6 DEF GetHost
  <2>a. Go(p, [run[p] EXCEPT !.pc = "stamp", !.attr = new])
    BY <1>6 DEF GetHost, new
  <2>2. /\ run'[p].pc = "stamp" /\ run'[p].op = run[p].op /\ run'[p].todo = run[p].todo
        /\ run'[p].cur = run[p].cur /\ run'[p].attr = new
    BY <2>a, GoAttr
  <2>3. /\ services[run[p].op.service] # None
        /\ run[p].cur = Made(run[p].op, services[run[p].op.service])
        /\ ListedBy(run[p].op.service, run[p].op.host)
    BY <1>2, <2>1 DEF UpToDate, RecordCurrent, HoldsService, AttrCurrent
  <2>4. RecordCurrent(run[p])'
    BY <1>1, <2>2, <2>3 DEF RecordCurrent
  <2>5. Updated(new, run[p].op.attr) = new
    BY UpdatedTwice DEF new
  <2>6. AttrCurrent(run[p])'
    BY <1>1, <2>1, <2>2, <2>3, <2>5 DEF AttrCurrent, ListedBy
  <2>7. ReadsCurrent(run[p])'
    BY <2>1, <2>2 DEF ReadsCurrent
  <2>8. QED
    BY <1>1, <1>2, <2>2, <2>4, <2>6, <2>7, MoveCurrent
<1>7. QED
  BY <1>3, <1>4, <1>5, <1>6

(* The names of a list are its first one and those of the rest. *)
LEMMA HeadTailElements ==
    ASSUME NEW S, NEW names \in Seq(S), names # <<>>
    PROVE  Elements(names) = {Head(names)} \cup Elements(Tail(names))
<1> DEFINE n == Len(names)
           rest == Tail(names)
<1>1. /\ n \in Nat /\ n > 0 /\ DOMAIN names = 1..n /\ Head(names) = names[1]
      /\ DOMAIN rest = 1..(n - 1) /\ \A i \in 1..(n - 1) : rest[i] = names[i + 1]
  OBVIOUS
<1> HIDE DEF n, rest
<1>2. ASSUME NEW i \in 1..n PROVE names[i] \in {Head(names)} \cup Elements(rest)
  <2>1. CASE i = 1
    BY <1>1, <2>1
  <2>2. CASE i # 1
    <3>1. i - 1 \in 1..(n - 1) /\ (i - 1) + 1 = i
      BY <1>1, <2>2
    <3>2. rest[i - 1] = names[i]
      BY <1>1, <3>1
    <3>3. QED
      BY <1>1, <3>1, <3>2 DEF Elements
  <2>3. QED
    BY <2>1, <2>2
<1>3. ASSUME NEW i \in 1..(n - 1) PROVE rest[i] \in Elements(names)
  <2>1. i + 1 \in 1..n
    BY <1>1
  <2>2. QED
    BY <1>1, <2>1 DEF Elements
<1>4. Head(names) \in Elements(names)
  <2>1. 1 \in 1..n
    BY <1>1
  <2>2. QED
    BY <1>1, <2>1 DEF Elements
<1>5. Elements(names) \subseteq {Head(names)} \cup Elements(rest)
  BY <1>1, <1>2 DEF Elements
<1>6. Elements(rest) \subseteq Elements(names)
  BY <1>1, <1>3 DEF Elements
<1>7. QED
  BY <1>4, <1>5, <1>6 DEF rest

(* Appending adds one element at the end. *)
LEMMA AppendElements ==
    ASSUME NEW S, NEW s \in Seq(S), NEW x
    PROVE  /\ Elements(Append(s, x)) = Elements(s) \cup {x}
           /\ FoundNames(Append(s, x)) = FoundNames(s) \cup {x.name}
           /\ DOMAIN Append(s, x) = DOMAIN s \cup {Len(s) + 1}
           /\ \A i \in DOMAIN s : Append(s, x)[i] = s[i]
           /\ Append(s, x)[Len(s) + 1] = x
<1> DEFINE n == Len(s)
           t == Append(s, x)
<1>1. /\ n \in Nat /\ DOMAIN s = 1..n /\ DOMAIN t = 1..(n + 1)
      /\ t[n + 1] = x /\ \A i \in 1..n : t[i] = s[i]
  OBVIOUS
<1> HIDE DEF t, n
<1>2. DOMAIN t = DOMAIN s \cup {n + 1}
  BY <1>1
<1>3. Elements(t) = Elements(s) \cup {x}
  BY <1>1, <1>2 DEF Elements
<1>4. FoundNames(t) = FoundNames(s) \cup {x.name}
  BY <1>1, <1>2 DEF FoundNames
<1>5. QED
  BY <1>1, <1>2, <1>3, <1>4 DEF t, n

(* A list as long as a finite set that names each of its members at most   *)
(* once names them all.                                                    *)
LEMMA EveryoneNamed ==
    ASSUME NEW S, IsFiniteSet(S), NEW order \in [1..Cardinality(S) -> S],
           \A i, j \in DOMAIN order : order[i] = order[j] => i = j
    PROVE  S = Elements(order)
<1> DEFINE n == Cardinality(S)
           D == 1..n
<1>1. n \in Nat
  BY FS_CardinalityType
<1>2. IsFiniteSet(D) /\ Cardinality(D) = n
  BY <1>1, FS_Interval
<1> HIDE DEF D
<1>3. order \in Injection(D, S)
  BY DEF Injection, IsInjective, D
<1>4. order \in Surjection(D, S)
  BY <1>2, <1>3, FS_Injection
<1>5. \A x \in S : \E i \in DOMAIN order : order[i] = x
  BY <1>4 DEF Surjection
<1>6. QED
  BY <1>5 DEF Elements

(* The calls of UnregisterService: a service not yet read is still to be   *)
(* read, a referrer that was read is noted.                                *)
LEMMA ScanCurrent ==
    ASSUME NEW owner, NEW home, CurrentInv(owner, home), NEW p \in Handlers,
           ListServices(p) \/ ScanService(p)
    PROVE  UpToDate(run[p])'
<1> USE DEF In, Read
<1>1. /\ run[p].pc \notin {"idle", "begin"} /\ UNCHANGED <<services, hosts>>
      /\ run[p].op.kind = "UnregisterService"
  BY DEF ListServices, ScanService, ReadOnly, store
<1>2. /\ run[p] \in HandlerState /\ UpToDate(run[p]) /\ Control(run[p])
  BY <1>1, InHandCurrent
<1> RunType /\ StoreType
  BY <1>1, InHandCurrent
<1> DEFINE t == run[p].op.service
<1>3. ASSUME run'[p].pc = "scan", run'[p].op = run[p].op, run'[p].todo = run[p].todo,
             \A x \in Stored : \/ x \in Elements(run'[p].rest)
                               \/ RefersTo(services[x], t) => x \in Elements(run'[p].found)
      PROVE  UpToDate(run[p])'
  <2>1. RecordCurrent(run[p])' /\ AttrCurrent(run[p])'
    BY <1>1, <1>3 DEF RecordCurrent, HoldsService, AttrCurrent
  <2>2. ReadsCurrent(run[p])'
    BY <1>1, <1>3 DEF ReadsCurrent, Stored
  <2>3. QED
    BY <1>1, <1>2, <1>3, <2>1, <2>2, MoveCurrent
<1>4. CASE ListServices(p)
  <2>1. PICK order :
          /\ order \in [1..Cardinality(Stored) -> Stored]
          /\ \A i, j \in DOMAIN order : order[i] = order[j] => i = j
          /\ Go(p, [run[p] EXCEPT !.pc = "scan", !.rest = order])
    BY <1>4 DEF ListServices, Stored
  <2>2. IsFiniteSet(Stored)
    BY ServicesFinite, FS_Subset DEF Stored
  <2>3. Stored = Elements(order)
    BY <2>1, <2>2, EveryoneNamed
  <2>4. /\ run'[p].pc = "scan" /\ run'[p].op = run[p].op /\ run'[p].todo = run[p].todo
        /\ run'[p].rest = order
    <3>1. Go(p, [run[p] EXCEPT !.pc = "scan", !.rest = order])
      BY <2>1
    <3>2. run'[p] = [run[p] EXCEPT !.pc = "scan", !.rest = order]
      BY <3>1, GoOps
    <3>3. QED
      BY <1>2, <3>2 DEF HandlerState
  <2>5. QED
    BY <1>3, <2>3, <2>4
<1>5. CASE ScanService(p)
  <2> DEFINE s == Head(run[p].rest)
             rest == Tail(run[p].rest)
             found == IF services[s] # None /\ RefersTo(services[s], Target(p))
                      THEN Append(run[p].found, s) ELSE run[p].found
  <2>1. Go(p, [run[p] EXCEPT !.rest = rest, !.found = found])
    BY <1>5 DEF ScanService
  <2>2. /\ run[p].pc = "scan" /\ run[p].rest # <<>>
        /\ run[p].rest \in Seq(Services) /\ run[p].found \in Seq(Services)
    BY <1>2, <1>5 DEF ScanService, Control
  <2>3. Elements(run[p].rest) = {s} \cup Elements(rest)
    BY <2>2, HeadTailElements
  <2>4. /\ Elements(run[p].found) \subseteq Elements(found)
        /\ services[s] # None /\ RefersTo(services[s], t) => s \in Elements(found)
    <3>1. Elements(Append(run[p].found, s)) = Elements(run[p].found) \cup {s}
      BY <2>2, AppendElements
    <3>2. QED
      BY <3>1 DEF Target
  <2>5. \A x \in Stored : \/ x \in Elements(run[p].rest)
                          \/ RefersTo(services[x], t) => x \in Elements(run[p].found)
    BY <1>1, <1>2, <2>2 DEF UpToDate, ReadsCurrent
  <2> HIDE DEF rest, found, s
  <2>6. /\ run'[p].pc = run[p].pc /\ run'[p].op = run[p].op /\ run'[p].todo = run[p].todo
        /\ run'[p].rest = rest /\ run'[p].found = found
    BY <2>1, GoFound
  <2>7. \A x \in Stored : x \in Elements(rest) \/ (RefersTo(services[x], t) => x \in Elements(found))
    BY <2>3, <2>4, <2>5 DEF Stored
  <2>8. QED
    BY <1>3, <2>2, <2>6, <2>7
<1>6. QED
  BY <1>4, <1>5

(* The reading calls of AddServiceDependency and RemoveServiceDependency. *)
LEMMA DependencyCurrent ==
    ASSUME NEW owner, NEW home, CurrentInv(owner, home), NEW p \in Handlers,
           RunDependency(p)
    PROVE  UpToDate(run[p])'
<1> USE DEF In, Read
<1>1. /\ run[p].pc \notin {"idle", "begin"} /\ UNCHANGED <<services, hosts>>
      /\ run[p].op.kind \in {"AddDependency", "RemoveDependency"}
  BY DEF RunDependency, GetForDependency, CheckPorts, GetToAppend, GetToRemove, ReadOnly, store
<1>2. run[p] \in HandlerState /\ UpToDate(run[p]) /\ Target(p) \in Services
  BY <1>1, InHandCurrent
<1> RunType /\ StoreType
  BY <1>1, InHandCurrent
<1>3. CASE Fail(p) \/ Finish(p)
  BY <1>3, EndCurrent
<1>4. ASSUME run'[p].todo = run[p].todo, run'[p].op = run[p].op, RecordCurrent(run[p])'
      PROVE  UpToDate(run[p])'
  <2>1. AttrCurrent(run[p])' /\ ReadsCurrent(run[p])'
    BY <1>1, <1>4 DEF AttrCurrent, ReadsCurrent
  <2>2. QED
    BY <1>1, <1>2, <1>4, <2>1, MoveCurrent
<1>5. CASE GetForDependency(p) /\ ~Finish(p)
  <2> DEFINE names == Current(p).hosts
  <2> HIDE DEF names
  <2>1. Go(p, [run[p] EXCEPT !.pc = "readHosts", !.rest = names])
    BY <1>5 DEF GetForDependency, names
  <2>2. run'[p].pc = "readHosts" /\ run'[p].op = run[p].op /\ run'[p].todo = run[p].todo
    BY <2>1, GoRest
  <2>3. run[p].op.kind = "AddDependency"
    BY <1>5 DEF GetForDependency
  <2>4. RecordCurrent(run[p])'
    BY <2>2, <2>3 DEF RecordCurrent, HoldsService
  <2>5. QED
    BY <1>4, <2>2, <2>4
<1>6. CASE CheckPorts(p) /\ ~Fail(p)
  <2>1. Go(p, [run[p] EXCEPT !.pc = "stamp"])
    BY <1>6 DEF CheckPorts
  <2>2. run'[p].pc = "stamp" /\ run'[p].op = run[p].op /\ run'[p].todo = run[p].todo
    BY <2>1, GoPc
  <2>3. RecordCurrent(run[p])'
    BY <1>1, <2>2 DEF RecordCurrent, HoldsService
  <2>4. QED
    BY <1>4, <2>2, <2>3
<1>7. CASE (GetToAppend(p) \/ GetToRemove(p)) /\ ~Fail(p) /\ ~Finish(p)
  <2>1. services[run[p].op.service] # None
    BY <1>7 DEF GetToAppend, GetToRemove, Current, Target
  <2>2. PICK new : /\ Go(p, [run[p] EXCEPT !.pc = "put", !.cur = new])
                   /\ new = Made(run[p].op, services[run[p].op.service])
    <3>1. CASE GetToAppend(p)
      <4>1. Go(p, [run[p] EXCEPT !.pc = "put",
                                 !.cur = AppendDependent(Current(p), run[p].op.dep)])
        BY <1>7, <3>1 DEF GetToAppend
      <4>2. AppendDependent(Current(p), run[p].op.dep) = Made(run[p].op, services[run[p].op.service])
        BY <3>1 DEF GetToAppend, Made, Current, Target
      <4>3. QED
        BY <4>1, <4>2
    <3>2. CASE GetToRemove(p)
      <4>1. Go(p, [run[p] EXCEPT !.pc = "put",
                                 !.cur = RemoveDependent(Current(p), run[p].op.name)])
        BY <1>7, <3>2 DEF GetToRemove
      <4>2. RemoveDependent(Current(p), run[p].op.name) = Made(run[p].op, services[run[p].op.service])
        BY <3>2 DEF GetToRemove, Made, Current, Target
      <4>3. QED
        BY <4>1, <4>2
    <3>3. QED
      BY <1>7, <3>1, <3>2
  <2>3. /\ run'[p].pc = "put" /\ run'[p].op = run[p].op /\ run'[p].todo = run[p].todo
        /\ run'[p].cur = new
    BY <2>2, GoCur
  <2>4. RecordCurrent(run[p])'
    BY <1>1, <2>1, <2>2, <2>3 DEF RecordCurrent
  <2>5. QED
    BY <1>4, <2>3, <2>4
<1>8. QED
  BY <1>3, <1>5, <1>6, <1>7 DEF RunDependency

(* The reading calls of a PUT: every host of the service has a record, so  *)
(* those read and those still to be read are all of them.                  *)
LEMMA PutReadsCurrent ==
    ASSUME NEW owner, NEW home, CurrentInv(owner, home), NEW p \in Handlers,
           \/ GetForPut(p) /\ Current(p) # None
           \/ GetHostsForPut(p)
           \/ ReadHost(p)
    PROVE  UpToDate(run[p])'
<1> USE DEF In, Read
<1>1. /\ run[p].pc \notin {"idle", "begin"} /\ UNCHANGED <<services, hosts>>
      /\ run[p].op.kind \in {"AddDependency", "Put"}
  BY DEF GetForPut, GetHostsForPut, ReadHost, ReadOnly, store
<1>2. /\ run[p] \in HandlerState /\ UpToDate(run[p]) /\ Target(p) \in Services
      /\ Control(run[p]) /\ Fresh(run[p])
  BY <1>1, InHandCurrent
<1> RunType /\ StoreType
  BY <1>1, InHandCurrent
<1> DEFINE t == run[p].op.service
<1>3. CASE Fail(p)
  BY <1>3, EndCurrent
<1>4. ASSUME run'[p].todo = run[p].todo, run'[p].op = run[p].op,
             RecordCurrent(run[p])', ReadsCurrent(run[p])'
      PROVE  UpToDate(run[p])'
  <2>1. AttrCurrent(run[p])'
    BY <1>1, <1>4 DEF AttrCurrent
  <2>2. QED
    BY <1>1, <1>2, <1>4, <2>1, MoveCurrent
<1>5. CASE GetForPut(p) /\ Current(p) # None
  <2>1. Go(p, [run[p] EXCEPT !.pc = "getHosts", !.cur = Current(p)])
    BY <1>5 DEF GetForPut
  <2>2. /\ run'[p].pc = "getHosts" /\ run'[p].op = run[p].op /\ run'[p].todo = run[p].todo
        /\ run'[p].cur = Current(p)
    BY <2>1, GoCur
  <2>3. run[p].op.kind = "Put" /\ services[t] # None
    BY <1>5 DEF GetForPut, Current, Target
  <2>4. RecordCurrent(run[p])'
    BY <1>1, <2>2, <2>3 DEF RecordCurrent, Made, Current, Target
  <2>5. ReadsCurrent(run[p])'
    BY <2>2, <2>3 DEF ReadsCurrent
  <2>6. QED
    BY <1>4, <2>2, <2>4, <2>5
<1>6. CASE GetHostsForPut(p) /\ ~Fail(p)
  <2> DEFINE names == Current(p).hosts
  <2>1. /\ run[p].op.kind = "Put" /\ run[p].found = <<>> /\ run[p].pc = "getHosts"
        /\ services[t] # None /\ run[p].cur = Made(run[p].op, services[t])
    BY <1>2, <1>6 DEF GetHostsForPut, Control, Current, Target, UpToDate, RecordCurrent, HoldsService
  <2>2. run'[p] = [run[p] EXCEPT !.pc = "readHosts", !.rest = names]
    BY <1>6, GoOps DEF GetHostsForPut
  <2>3. Elements(names) = Listed(services[t])
    BY DEF Elements, Listed, Current, Target
  <2> HIDE DEF names
  <2>4. /\ run'[p].pc = "readHosts" /\ run'[p].op = run[p].op /\ run'[p].todo = run[p].todo
        /\ run'[p].rest = names /\ run'[p].found = run[p].found /\ run'[p].cur = run[p].cur
    BY <1>2, <2>2 DEF HandlerState
  <2>5. RecordCurrent(run[p])'
    BY <1>1, <2>1, <2>4 DEF RecordCurrent
  <2>6. FoundNames(<<>>) = {} /\ DOMAIN <<>> = {}
    BY DEF FoundNames
  <2>7. ReadsCurrent(run[p])'
    BY <1>1, <2>1, <2>3, <2>4, <2>6 DEF ReadsCurrent
  <2>8. QED
    BY <1>4, <2>4, <2>5, <2>7
<1>7. CASE ReadHost(p)
  <2> DEFINE h == Head(run[p].rest)
             rest == Tail(run[p].rest)
             x == [name |-> h, attr |-> hosts[h]]
             more == Append(run[p].found, x)
             found == IF hosts[h] # None THEN more ELSE run[p].found
  <2>1. run'[p] = [run[p] EXCEPT !.rest = rest, !.found = found]
    BY <1>7, GoOps DEF ReadHost
  <2>2. /\ run[p].pc = "readHosts" /\ run[p].rest # <<>>
        /\ run[p].rest \in Seq(Hosts) /\ run[p].found \in Seq(NamedHost)
    BY <1>2, <1>7 DEF ReadHost, Control
  <2>3. Elements(run[p].rest) = {h} \cup Elements(rest)
    BY <2>2, HeadTailElements
  <2>4. x.name = h /\ x.attr = hosts[h]
    OBVIOUS
  <2> HIDE DEF x
  <2>5. /\ FoundNames(more) = FoundNames(run[p].found) \cup {h}
        /\ DOMAIN more = DOMAIN run[p].found \cup {Len(run[p].found) + 1}
        /\ \A i \in DOMAIN run[p].found : more[i] = run[p].found[i]
        /\ more[Len(run[p].found) + 1] = x
    BY <2>2, <2>4, AppendElements
  <2>6. found = IF hosts[h] # None THEN more ELSE run[p].found
    OBVIOUS
  <2> HIDE DEF rest, found, more, h
  <2>7. /\ run'[p].pc = "readHosts" /\ run'[p].op = run[p].op /\ run'[p].todo = run[p].todo
        /\ run'[p].rest = rest /\ run'[p].found = found /\ run'[p].cur = run[p].cur
    BY <1>2, <2>1, <2>2 DEF HandlerState
  <2>8. RecordCurrent(run[p])'
    BY <1>1, <1>2, <2>2, <2>7 DEF UpToDate, RecordCurrent, HoldsService
  <2>9. ReadsCurrent(run[p])'
    <3>1. CASE run[p].op.kind = "Put"
      <4>1. /\ FoundNames(run[p].found) \cup Elements(run[p].rest) = Listed(services[t])
            /\ \A i \in DOMAIN run[p].found : run[p].found[i].attr = hosts[run[p].found[i].name]
        BY <1>2, <2>2, <3>1 DEF UpToDate, ReadsCurrent
      <4>2. hosts[h] # None
        <5>1. /\ \A i \in DOMAIN run[p].rest : ListedBy(t, run[p].rest[i])
          BY <1>2, <2>2, <3>1 DEF Fresh, FreshPut
        <5>2. h \in Elements(run[p].rest) /\ h \in Hosts
          BY <2>2, <2>3, ElementsType
        <5>3. ListedBy(t, h)
          BY <5>1, <5>2 DEF Elements
        <5>4. QED
          BY <1>2, <5>2, <5>3 DEF CurrentInv, ApartInv, StoreApart, HostsStored, Target
      <4>3. FoundNames(more) \cup Elements(rest) = Listed(services[t])
        BY <2>3, <2>5, <4>1
      <4>4. \A i \in DOMAIN more : more[i].attr = hosts[more[i].name]
        BY <2>4, <2>5, <4>1
      <4>5. found = more
        BY <2>6, <4>2
      <4>6. QED
        BY <1>1, <2>7, <4>3, <4>4, <4>5 DEF ReadsCurrent
    <3>2. CASE run[p].op.kind # "Put"
      BY <1>1, <2>7, <3>2 DEF ReadsCurrent
    <3>3. QED
      BY <3>1, <3>2
  <2>10. QED
    BY <1>4, <2>7, <2>8, <2>9
<1>8. QED
  BY <1>3, <1>5, <1>6, <1>7

(* Drawing a version takes the record of a PUT along. *)
LEMMA StampCurrent ==
    ASSUME NEW owner, NEW home, CurrentInv(owner, home), NEW p \in Handlers, Stamp(p)
    PROVE  UpToDate(run[p])'
<1> USE DEF Read
<1> DEFINE kind == run[p].op.kind
           t == run[p].op.service
           next == AfterStamp[kind]
           rec == IF kind = "PutParam" THEN run[p].op.record ELSE run[p].cur
<1>1. run[p].pc = "stamp" /\ UNCHANGED <<services, hosts>>
  BY DEF Stamp, ReadOnly, store
<1>2. /\ run[p] \in HandlerState /\ UpToDate(run[p]) /\ kind \in KindsAt("stamp") /\ Fresh(run[p])
  BY <1>1, InHandCurrent
<1> RunType
  BY <1>1, InHandCurrent
<1>3. Go(p, [run[p] EXCEPT !.pc = next, !.ver = clock, !.cur = rec])
  BY DEF Stamp
<1>4. /\ kind \in {"RegisterService", "RegisterHost", "UnregisterHost", "PutParam"} => next = "put"
      /\ kind = "UpdateHost" => next = "putHost"
      /\ kind \in {"AddDependency", "RemoveDependency"} => next = "reget"
  BY <1>2 DEF AfterStamp, KindsAt
<1>5. rec = IF kind = "PutParam" THEN run[p].op.record ELSE run[p].cur
  OBVIOUS
<1> HIDE DEF next, rec
<1>6. /\ run'[p].todo = run[p].todo /\ run'[p].op = run[p].op
      /\ run'[p].pc = next /\ run'[p].cur = rec /\ run'[p].attr = run[p].attr
  <2>1. run'[p] = [run[p] EXCEPT !.pc = next, !.ver = clock, !.cur = rec]
    BY <1>3, GoOps
  <2>2. QED
    BY <1>2, <2>1 DEF HandlerState
<1>7. RecordCurrent(run[p])'
  <2>1. CASE kind \in {"RegisterService", "RegisterHost", "UnregisterHost", "UpdateHost"}
    <3>1. /\ kind # "RegisterService" => services[t] # None
          /\ run[p].cur = Made(run[p].op, services[t])
      BY <1>1, <1>2, <2>1 DEF UpToDate, RecordCurrent, HoldsService
    <3>2. rec = run[p].cur
      BY <1>5, <2>1
    <3>3. QED
      BY <1>1, <1>6, <2>1, <3>1, <3>2 DEF RecordCurrent
  <2>2. CASE kind = "PutParam"
    BY <1>5, <1>6, <2>2 DEF RecordCurrent, Made
  <2>3. CASE kind \in {"AddDependency", "RemoveDependency"}
    BY <1>4, <1>6, <2>3 DEF RecordCurrent, HoldsService
  <2>4. QED
    BY <1>2, <2>1, <2>2, <2>3 DEF KindsAt
<1>8. AttrCurrent(run[p])'
  BY <1>1, <1>2, <1>4, <1>6 DEF UpToDate, AttrCurrent, ListedBy
<1>9. ReadsCurrent(run[p])'
  BY <1>2, <1>6 DEF ReadsCurrent, KindsAt
<1>10. QED
  BY <1>1, <1>2, <1>6, <1>7, <1>8, <1>9, MoveCurrent

(* A record of a host is written with the attributes that were made. *)
LEMMA PutHostCurrent ==
    ASSUME NEW owner, NEW home, CurrentInv(owner, home), NEW p \in Handlers, PutHost(p)
    PROVE  UpToDate(run[p])'
<1> USE DEF In
<1> DEFINE kind == run[p].op.kind
           t == run[p].op.service
           h == run[p].op.host
           next == IF kind = "RegisterHost" THEN "stamp" ELSE "put"
<1>1. /\ run[p].pc = "putHost" /\ services' = services
      /\ kind \in {"RegisterHost", "UpdateHost"}
      /\ hosts' = [hosts EXCEPT ![HostName(p)] = run[p].attr]
  BY DEF PutHost
<1>2. /\ UpToDate(run[p]) /\ HostName(p) \in Hosts /\ run[p].attr \in HostAttr
  BY <1>1, InHandCurrent DEF Control, HoldsAttr
<1> RunType /\ StoreType
  BY <1>1, InHandCurrent
<1>3. Go(p, [run[p] EXCEPT !.pc = next])
  BY DEF PutHost
<1> HIDE DEF next
<1>4. /\ run'[p].todo = run[p].todo /\ run'[p].op = run[p].op
      /\ run'[p].pc = next /\ run'[p].cur = run[p].cur /\ run'[p].attr = run[p].attr
  BY <1>3, GoPc
<1>5. /\ services[t] # None
      /\ run[p].cur = Made(run[p].op, services[t])
  BY <1>1, <1>2 DEF UpToDate, RecordCurrent, HoldsService
<1>6. RecordCurrent(run[p])'
  BY <1>1, <1>4, <1>5 DEF RecordCurrent
<1>7. hosts'[h] = run[p].attr /\ run[p].attr # None
  BY <1>1, <1>2, InventoryAssumption DEF StoreType, HostName
<1>8. AttrCurrent(run[p])'
  BY <1>1, <1>2, <1>4, <1>7 DEF UpToDate, AttrCurrent, ListedBy, next
<1>9. ReadsCurrent(run[p])'
  BY <1>1, <1>4 DEF ReadsCurrent
<1>10. QED
  BY <1>1, <1>2, <1>4, <1>6, <1>8, <1>9, MoveCurrent

(* After the record of the service is written, and at the calls that       *)
(* remove a host or a service, nothing is carried but the attributes of a  *)
(* new host.                                                               *)
LEMMA LastCallsCurrent ==
    ASSUME NEW owner, NEW home, CurrentInv(owner, home), NEW p \in Handlers,
           PutService(p) \/ Register(p) \/ Deregister(p) \/ ProbeKey(p) \/ DeleteTree(p)
    PROVE  UpToDate(run[p])'
<1> USE DEF In, Read
<1> DEFINE kind == run[p].op.kind
<1>1. /\ run[p].pc \in {"put", "register", "deregister", "probe", "delete"}
      /\ run[p].pc # "put" => kind \in {"RegisterHost", "UnregisterHost", "DeleteService"}
  BY DEF PutService, Register, Deregister, ProbeKey, DeleteTree
<1>2. UpToDate(run[p]) /\ kind \in KindsAt(run[p].pc)
  BY <1>1, InHandCurrent
<1> RunType /\ StoreType
  BY <1>1, InHandCurrent
<1>3. CASE Finish(p)
  BY <1>3, EndCurrent
<1>4. ASSUME NEW next \in {"register", "deregister", "probe", "delete"},
             Go(p, [run[p] EXCEPT !.pc = next]), hosts' = hosts,
             kind \in {"RegisterHost", "UnregisterHost", "DeleteService"},
             next = "register" => run[p].pc = "put"
      PROVE  UpToDate(run[p])'
  <2>1. /\ run'[p].todo = run[p].todo /\ run'[p].op = run[p].op
        /\ run'[p].pc = next /\ run'[p].attr = run[p].attr
    BY <1>4, GoPc
  <2>2. RecordCurrent(run[p])'
    BY <2>1 DEF RecordCurrent, HoldsService
  <2>3. AttrCurrent(run[p])'
    BY <1>1, <1>2, <1>4, <2>1 DEF UpToDate, AttrCurrent
  <2>4. ReadsCurrent(run[p])'
    BY <1>4, <2>1 DEF ReadsCurrent
  <2>5. QED
    BY <1>1, <1>2, <2>1, <2>2, <2>3, <2>4, MoveCurrent
<1>5. CASE PutService(p) /\ ~Finish(p)
  <2> DEFINE next == AfterPut(kind)
  <2>1. next # "begin" /\ Go(p, [run[p] EXCEPT !.pc = next]) /\ hosts' = hosts /\ run[p].pc = "put"
    BY <1>5 DEF PutService
  <2>2. next \in {"register", "deregister", "probe"} /\ kind \in {"RegisterHost", "UnregisterHost"}
    BY <2>1 DEF AfterPut
  <2> HIDE DEF next
  <2>3. QED
    BY <1>4, <2>1, <2>2
<1>6. CASE Deregister(p)
  <2>1. Go(p, [run[p] EXCEPT !.pc = "probe"]) /\ hosts' = hosts /\ kind = "UnregisterHost"
    BY <1>6 DEF Deregister
  <2>2. QED
    BY <1>4, <2>1
<1>7. CASE ProbeKey(p) /\ ~Finish(p)
  <2>1. /\ Go(p, [run[p] EXCEPT !.pc = "delete"]) /\ hosts' = hosts
        /\ kind \in {"UnregisterHost", "DeleteService"}
    BY <1>7 DEF ProbeKey, ReadOnly, store
  <2>2. QED
    BY <1>4, <2>1
<1>8. CASE Register(p) \/ DeleteTree(p)
  BY <1>3, <1>8 DEF Register, DeleteTree
<1>9. QED
  BY <1>3, <1>5, <1>6, <1>7, <1>8

(* The operation begun comes before those left. *)
LEMMA BeginCurrent ==
    ASSUME NEW owner, NEW home, CurrentInv(owner, home), NEW p \in Handlers, Begin(p)
    PROVE  UpToDate(run[p])'
<1>1. PICK o \in First(run[p].todo) :
        /\ run'[p] = [At(FirstCall[o.kind], run[p].todo \ {o}) EXCEPT !.op = o]
        /\ run'[p].op = o /\ run'[p].todo = run[p].todo \ {o}
        /\ o \in Op
  BY BeginOps DEF CurrentInv, ApartInv
<1>2. run'[p].pc = FirstCall[o.kind]
  BY <1>1 DEF At
<1>3. o.kind \in OpKinds
  BY <1>1, OpKind
<1>4. /\ run'[p].pc \in {"list", "get", "stamp", "probe"}
      /\ run'[p].pc = "stamp" => o.kind \in {"RemoveDependency", "PutParam"}
  BY <1>2, <1>3 DEF FirstCall, OpKinds
<1>5. \A x \in run'[p].todo : ~Before(x, run'[p].op)
  BY <1>1 DEF First
<1>6. RecordCurrent(run[p])' /\ AttrCurrent(run[p])' /\ ReadsCurrent(run[p])'
  BY <1>1, <1>4 DEF RecordCurrent, HoldsService, AttrCurrent, ReadsCurrent
<1>7. QED
  BY <1>5, <1>6 DEF UpToDate, Ordered

(* After every step of a handler what it holds is up to date. *)
LEMMA WorkCurrent ==
    ASSUME NEW owner, NEW home, CurrentInv(owner, home), NEW p \in Handlers, Work(p)
    PROVE  UpToDate(run[p])'
<1> RunType
  BY TypeInvParts DEF CurrentInv, ApartInv
<1>1. CASE run'[p].pc \in {"idle", "begin"}
  BY <1>1 DEF UpToDate
<1>2. CASE Begin(p) \/ Reject(p)
  BY <1>2, BeginCurrent, EndCurrent DEF Reject
<1>3. CASE Return(p)
  <2>1. run'[p] = Idle
    BY <1>3, GoOps DEF Return
  <2>2. QED
    BY <1>1, <2>1 DEF Idle, At
<1>4. CASE RunRegisterHost(p) \/ RunUnregisterHost(p) \/ RunUpdateHost(p)
  BY <1>4, RegisterCurrent, HostOpsCurrent, LastCallsCurrent
     DEF RunRegisterHost, RunUnregisterHost, RunUpdateHost
<1>5. CASE CheckServiceName(p) \/ ListServices(p) \/ ScanService(p) \/ RunDependency(p)
  BY <1>5, RegisterCurrent, ScanCurrent, DependencyCurrent
<1>6. CASE PlanUnregister(p) \/ PlanUpdate(p) \/ (GetForPut(p) /\ Current(p) = None)
  <2>1. PICK ops : Continue(p, ops)
    BY <1>6 DEF PlanUnregister, PlanUpdate, GetForPut
  <2>2. QED
    BY <1>1, <2>1, ContinueOps
<1>7. CASE (GetForPut(p) /\ Current(p) # None) \/ GetHostsForPut(p)
  BY <1>7, PutReadsCurrent
<1>8. CASE RunShared(p)
  BY <1>8, PutReadsCurrent, StampCurrent, PutHostCurrent, LastCallsCurrent DEF RunShared
<1>9. QED
  BY <1>2, <1>3, <1>4, <1>5, <1>6, <1>7, <1>8 DEF Work, RunService, RunPut

(* So it is after every step of the system. *)
LEMMA StepCurrent ==
    ASSUME NEW owner, NEW home, Isolated(owner, home), Extends = {},
           CurrentInv(owner, home), [Next]_vars
    PROVE  CurrentInv(owner, home)'
<1> RunType /\ TypeInv
  BY TypeInvParts DEF CurrentInv, ApartInv
<1>1. ApartInv(owner, home)'
  BY StepApart DEF CurrentInv
<1>2. ASSUME NEW p \in Handlers, Work(p) PROVE AllCurrent'
  <2>1. UpToDate(run[p])'
    BY <1>2, WorkCurrent
  <2>2. \A q \in Handlers : q # p => UpToDate(run[q])'
    BY <1>2, OthersCurrent
  <2>3. QED
    BY <2>1, <2>2 DEF AllCurrent
<1>3. ASSUME NEW q \in Handlers, run'[q] = run[q], UNCHANGED <<services, hosts>>
      PROVE  UpToDate(run[q])'
  BY <1>3, CurrentFrame
<1>4. ASSUME NEW p \in Handlers, NEW r \in Requests[p], Accept(p, r)
      PROVE  AllCurrent'
  <2>1. Continue(p, {r}) /\ UNCHANGED <<services, hosts>>
    BY <1>4 DEF Accept, store
  <2>2. run'[p].pc = "begin" /\ \A q \in Handlers : q # p => run'[q] = run[q]
    BY <2>1, ContinueOps
  <2>3. UpToDate(run[p])'
    BY <2>2 DEF UpToDate
  <2>4. QED
    BY <1>3, <2>1, <2>2, <2>3 DEF AllCurrent
<1>5. ASSUME NEW p \in Handlers, CallFails(p) PROVE AllCurrent'
  <2>1. (Fail(p) \/ Finish(p)) /\ UNCHANGED <<services, hosts>>
    BY <1>5 DEF CallFails, store
  <2>2. UpToDate(run[p])' /\ \A q \in Handlers : q # p => run'[q] = run[q]
    BY <2>1, EndOps, EndCurrent
  <2>3. QED
    BY <1>3, <2>1, <2>2 DEF AllCurrent
<1>6. CASE Crash
  <2>1. \A q \in Handlers : run'[q].pc = "idle"
    BY <1>6 DEF Crash, Idle, At
  <2>2. QED
    BY <1>1, <2>1 DEF CurrentInv, AllCurrent, UpToDate
<1>7. CASE Tick \/ UNCHANGED vars
  <2>1. run' = run /\ UNCHANGED <<services, hosts>>
    BY <1>7 DEF Tick, vars, store
  <2>2. QED
    BY <1>1, <1>3, <2>1 DEF CurrentInv, AllCurrent
<1>8. QED
  BY <1>1, <1>2, <1>4, <1>5, <1>6, <1>7 DEF Next, CurrentInv

(* At the start no handler holds anything. *)
LEMMA InitCurrent ==
    ASSUME NEW owner, NEW home, Isolated(owner, home), Init
    PROVE  CurrentInv(owner, home)
<1>1. \A p \in Handlers : run[p].pc = "idle"
  BY DEF Init, Idle, At
<1>2. AllCurrent
  BY <1>1 DEF AllCurrent, UpToDate
<1>3. QED
  BY <1>2, InitApart DEF CurrentInv

-----------------------------------------------------------------------------
(* What is left to do of a request. *)

Of(ops, kind) == {o \in ops : o.kind = kind}

HostsIn(ops, kind) == {o.host : o \in Of(ops, kind)}

ListOf(svc) == IF svc = None THEN {} ELSE Listed(svc)

DepsOf(svc) == IF svc = None THEN {} ELSE svc.deps

(* The operations a PUT is divided into. *)
PutStep(r, o) ==
    /\ o.service = r.service
    /\ \/ o.kind = "RegisterService" /\ o.protocol = r.protocol
       \/ o.kind = "AddDependency"
       \/ /\ o.kind \in {"RegisterHost", "UpdateHost"}
          /\ \E i \in DOMAIN r.hosts : o.host = r.hosts[i].name /\ o.attr = r.hosts[i].attr
       \/ o.kind = "UnregisterHost" /\ o.host \notin ParamNames(r)
       \/ o.kind = "PutParam" /\ o.record = ParamService(r)

ServiceToward(r, ops) ==
    LET svc == services[r.service]
    IN  /\ svc # None \/ Of(ops, "RegisterService") # {}
        /\ svc # None /\ Of(ops, "PutParam") = {} => svc.protocol = r.protocol

DepsToward(r, ops) ==
    IF Of(ops, "PutParam") # {}
    THEN Of(ops, "AddDependency") = {}
    ELSE DepsOf(services[r.service]) \cup {o.dep : o \in Of(ops, "AddDependency")} = Elements(r.deps)

ListToward(r, ops) ==
    (ListOf(services[r.service]) \ HostsIn(ops, "UnregisterHost")) \cup HostsIn(ops, "RegisterHost")
        = ParamNames(r)

HostsToward(r, ops) ==
    \A i \in DOMAIN r.hosts :
        \/ hosts[r.hosts[i].name] = r.hosts[i].attr
        \/ \E o \in ops : /\ o.kind \in {"RegisterHost", "UpdateHost"}
                          /\ o.host = r.hosts[i].name /\ o.attr = r.hosts[i].attr

PutToward(r, ops) ==
    /\ \A o \in ops : PutStep(r, o)
    /\ ServiceToward(r, ops) /\ DepsToward(r, ops) /\ ListToward(r, ops) /\ HostsToward(r, ops)

UnregisterToward(r, ops) ==
    /\ \A o \in ops : \/ o.kind = "RemoveDependency" /\ o.name = r.service
                      \/ o.kind = "DeleteService" /\ o.service = r.service
    /\ services[r.service] # None => Of(ops, "DeleteService") # {}
    /\ \A s \in Stored : RefersTo(services[s], r.service) =>
          \E o \in ops : o.kind = "RemoveDependency" /\ o.service = s

Toward(r, ops) ==
    \/ ops = {r}
    \/ r.kind \notin {"Put", "UnregisterService"} /\ ops = {} /\ Brought(r)
    \/ r.kind = "Put" /\ PutToward(r, ops)
    \/ r.kind = "UnregisterService" /\ UnregisterToward(r, ops)

Progress(p) ==
    /\ request[p] = None => reply[p] = "none" /\ run[p].pc = "idle" /\ ~repeat[p]
    /\ request[p] # None => request[p] \in Requests[p]
    /\ reply[p] = "ok" => run[p].pc = "idle" /\ Brought(request[p])
    /\ run[p].pc # "idle" => Toward(request[p], Pending(run[p]))

(* A PUT like the one before has nothing left to do. *)
RepeatDone(p) ==
    repeat[p] => /\ request[p].kind = "Put" /\ Matches(request[p])
                 /\ Pending(run[p]) \subseteq {request[p]}
                 /\ ~changed[p]

Applied(p) == Progress(p) /\ RepeatDone(p)

AllApplied == \A p \in Handlers : Applied(p)

AppliedInv(owner, home) == CurrentInv(owner, home) /\ AllApplied

(* What an operation has done once it is finished. *)
Effect(o) ==
    LET svc == services[o.service]
    IN  CASE o.kind = "AddDependency" -> svc # None => o.dep \in svc.deps
          [] o.kind = "PutParam" ->
                /\ svc # None /\ svc.protocol = o.record.protocol /\ svc.deps = o.record.deps
                /\ Listed(svc) = Listed(o.record)
          [] o.kind = "DeleteService" -> svc = None
          [] OTHER -> Brought(o)

-----------------------------------------------------------------------------
(* What others do does not undo what a request has achieved. *)

(* What is known of the request of a handler. *)
LEMMA RequestParts ==
    ASSUME NEW owner, NEW home, Isolated(owner, home), NEW q \in Handlers, NEW r \in Requests[q]
    PROVE  /\ r \in Request /\ r \in Op /\ r.service \in Services /\ owner[r.service] = q
           /\ r.kind = "UnregisterService" => \A s \in Services : owner[s] = q
           /\ r.kind \in {"RegisterHost", "UnregisterHost", "UpdateHost"} =>
                 r.host \in Hosts /\ home[r.host] = q
           /\ r.kind = "Put" => \A i \in DOMAIN r.hosts : /\ r.hosts[i].name \in Hosts
                                                          /\ home[r.hosts[i].name] = q
           /\ r.kind = "Put" => \A i, j \in DOMAIN r.hosts :
                                   r.hosts[i].name = r.hosts[j].name => i = j
<1>1. r \in Request /\ r \in Op
  BY InventoryAssumption DEF Op
<1>2. OwnService(owner, q, r) /\ OwnHosts(home, q, r)
  BY DEF Isolated, ServicesApart, HostsApart
<1>3. r.service \in Services
  BY <1>1, OpKind
<1>4. ASSUME r.kind \in {"RegisterHost", "UnregisterHost", "UpdateHost"}
      PROVE  r.host \in Hosts /\ home[r.host] = q
  <2>1. r.host \in Hosts
    BY <1>1, <1>4, OpKind DEF RegisterHostOp, UnregisterHostOp, UpdateHostOp
  <2>2. r.host \in HostsOf(r)
    BY <1>4 DEF HostsOf
  <2>3. QED
    BY <1>2, <2>1, <2>2 DEF OwnHosts
<1>5. ASSUME r.kind = "Put", NEW i \in DOMAIN r.hosts
      PROVE  r.hosts[i].name \in Hosts /\ home[r.hosts[i].name] = q
  <2>1. r \in PutOp
    BY <1>1, <1>5, OpKind
  <2>2. r.hosts[i].name \in HostsOf(r)
    BY <1>5 DEF HostsOf, ParamNames
  <2>3. QED
    BY <1>2, <2>1, <2>2, PutParts DEF OwnHosts
<1>6. QED
  BY <1>1, <1>2, <1>3, <1>4, <1>5 DEF OwnService, Isolated, HostsNamedOnce

(* What a request has achieved, and what is left to do of it, depends on   *)
(* the services and the hosts of its handler.                              *)
LEMMA TowardFrame ==
    ASSUME NEW owner, NEW home, Isolated(owner, home),
           NEW q \in Handlers, NEW r \in Requests[q],
           \A s \in Services : owner[s] = q => services'[s] = services[s],
           \A h \in Hosts : home[h] = q => hosts'[h] = hosts[h] /\ catalog'[h] = catalog[h]
    PROVE  /\ Brought(r)' = Brought(r)
           /\ r.kind = "Put" => Matches(r)' = Matches(r)
           /\ \A ops : Toward(r, ops)' = Toward(r, ops)
<1>1. services'[r.service] = services[r.service]
  BY RequestParts
<1>2. r.kind = "UnregisterService" => \A s \in Services : services'[s] = services[s]
  BY RequestParts
<1>3. r.kind \in {"RegisterHost", "UnregisterHost", "UpdateHost"} =>
        hosts'[r.host] = hosts[r.host] /\ catalog'[r.host] = catalog[r.host]
  BY RequestParts
<1>4. r.kind = "Put" => \A i \in DOMAIN r.hosts : hosts'[r.hosts[i].name] = hosts[r.hosts[i].name]
  BY RequestParts
<1>5. r.kind = "Put" => Matches(r)' = Matches(r)
  BY <1>1, <1>4 DEF Matches
<1>6. Brought(r)' = Brought(r)
  BY <1>1, <1>2, <1>3, <1>5 DEF Brought, Stored
<1>7. r.kind = "Put" => \A ops : PutToward(r, ops)' = PutToward(r, ops)
  BY <1>1, <1>4 DEF PutToward, ServiceToward, DepsToward, ListToward, HostsToward
<1>8. r.kind = "UnregisterService" => \A ops : UnregisterToward(r, ops)' = UnregisterToward(r, ops)
  BY <1>1, <1>2 DEF UnregisterToward, Stored
<1>9. QED
  BY <1>5, <1>6, <1>7, <1>8 DEF Toward

(* So a handler left alone is as far with its request as it was. *)
LEMMA AppliedFrame ==
    ASSUME NEW owner, NEW home, Isolated(owner, home), NEW q \in Handlers, Applied(q),
           run'[q] = run[q], request'[q] = request[q], reply'[q] = reply[q],
           changed'[q] = changed[q], repeat'[q] = repeat[q],
           \A s \in Services : owner[s] = q => services'[s] = services[s],
           \A h \in Hosts : home[h] = q => hosts'[h] = hosts[h] /\ catalog'[h] = catalog[h]
    PROVE  Applied(q)'
<1>1. CASE request[q] = None
  BY <1>1 DEF Applied, Progress, RepeatDone
<1>2. CASE request[q] # None
  <2>1. PICK r : r = request[q] /\ r \in Requests[q]
    BY <1>2 DEF Applied, Progress
  <2>2. PICK ops : ops = Pending(run[q])
    OBVIOUS
  <2>3. Pending(run[q])' = ops
    BY <2>2 DEF Pending
  <2>4. /\ Brought(r)' = Brought(r)
        /\ r.kind = "Put" => Matches(r)' = Matches(r)
        /\ Toward(r, ops)' = Toward(r, ops)
    BY <2>1, TowardFrame
  <2>5. Brought(request[q])' = Brought(r)'
    BY <2>1
  <2>6. QED
    BY <1>2, <2>1, <2>2, <2>3, <2>4 DEF Applied, Progress, RepeatDone
<1>3. QED
  BY <1>1, <1>2

-----------------------------------------------------------------------------
(* An operation that is finished has had its effect. *)

(* Attributes that are all given replace all of a host. *)
LEMMA UpdatedAll ==
    ASSUME NEW old, NEW new \in HostAttr
    PROVE  Updated(old, new) = new
<1>1. /\ new.ingress \in Address /\ new.substance \in Address /\ new.egress \in Machines
      /\ new = [ingress |-> new.ingress, substance |-> new.substance, egress |-> new.egress]
  BY DEF HostAttr
<1>2. new.ingress # None /\ new.substance # None /\ new.egress # None
  BY <1>1, InventoryAssumption
<1>3. QED
  BY <1>1, <1>2 DEF Updated

(* What PutService stores: the record made of the one stored now, with the *)
(* version that was drawn.                                                 *)
LEMMA PutMade ==
    ASSUME NEW owner, NEW home, CurrentInv(owner, home), NEW p \in Handlers, PutService(p)
    PROVE  LET o == run[p].op
               t == run[p].op.service
               made == Made(run[p].op, services[run[p].op.service])
           IN  /\ services'[t] \in Service /\ services'[t] # None
               /\ services'[t].hosts = made.hosts /\ services'[t].deps = made.deps
               /\ services'[t].protocol = made.protocol
               /\ \A s \in Services : s # t => services'[s] = services[s]
               /\ hosts' = hosts /\ catalog' = catalog
               /\ o \in Op /\ t \in Services /\ o.kind \in KindsAt("put")
               /\ o.kind \notin {"RegisterService", "PutParam"} =>
                     services[t] # None /\ services[t] \in Service
<1> DEFINE o == run[p].op
           t == run[p].op.service
           new == [run[p].cur EXCEPT !.version = run[p].ver]
<1>1. /\ run[p].pc = "put" /\ hosts' = hosts /\ catalog' = catalog
      /\ services' = [services EXCEPT ![t] = new]
  BY DEF PutService, Target
<1>2. /\ run[p] \in HandlerState /\ o \in Op /\ Control(run[p]) /\ UpToDate(run[p])
      /\ t \in Services /\ o.kind \in KindsAt("put") /\ StoreType
  BY <1>1, InHandCurrent DEF Target
<1>3. /\ run[p].cur \in Service /\ run[p].ver \in Nat
      /\ run[p].cur = Made(o, services[t])
      /\ o.kind \notin {"RegisterService", "PutParam"} => services[t] # None
  BY <1>1, <1>2 DEF Control, HoldsService, HandlerState, UpToDate, RecordCurrent
<1>4. /\ new \in Service /\ new.hosts = run[p].cur.hosts /\ new.deps = run[p].cur.deps
      /\ new.protocol = run[p].cur.protocol
  BY <1>3 DEF Service
<1> HIDE DEF new
<1>5. services'[t] = new /\ \A s \in Services : s # t => services'[s] = services[s]
  BY <1>1, <1>2 DEF StoreType
<1>6. new # None
  BY <1>4, InventoryAssumption
<1>7. o.kind \notin {"RegisterService", "PutParam"} => services[t] # None /\ services[t] \in Service
  BY <1>2, <1>3 DEF StoreType
<1>8. QED
  BY <1>1, <1>2, <1>3, <1>4, <1>5, <1>6, <1>7

(* Writing the record of the service does it, or the host has its record   *)
(* already.                                                                *)
LEMMA PutEffect ==
    ASSUME NEW owner, NEW home, CurrentInv(owner, home), NEW p \in Handlers, PutService(p),
           NEW o, o = run[p].op, o.kind = "RegisterHost" => ~Discovery
    PROVE  Effect(o)'
<1> DEFINE t == o.service
           svc == services[t]
           new == services'[t]
           made == Made(o, svc)
<1>1. /\ new # None /\ new \in Service
      /\ new.hosts = made.hosts /\ new.deps = made.deps /\ new.protocol = made.protocol
      /\ hosts' = hosts /\ o \in Op /\ t \in Services /\ o.kind \in KindsAt("put")
      /\ o.kind \notin {"RegisterService", "PutParam"} => svc # None /\ svc \in Service
  BY PutMade
<1>2. run[p].pc = "put" /\ run[p].pc \notin {"idle", "begin"}
  BY DEF PutService
<1>3. UpToDate(run[p]) /\ StoreType
  BY <1>2, InHandCurrent
<1> HIDE DEF svc, new
<1>4. CASE o.kind = "RegisterService"
  <2>1. new.protocol = o.protocol
    BY <1>1, <1>4 DEF Made, NewService
  <2>2. QED
    BY <1>1, <1>4, <2>1 DEF Effect, Brought, new
<1>5. CASE o.kind = "AddDependency"
  <2>1. made.deps = svc.deps \cup {o.dep}
    BY <1>1, <1>5 DEF Made, AppendDependent, Service
  <2>2. QED
    BY <1>1, <1>5, <2>1 DEF Effect, new
<1>6. CASE o.kind = "RemoveDependency"
  <2>1. made.deps = {d \in svc.deps : d.name # o.name}
    BY <1>1, <1>6 DEF Made, RemoveDependent, Service
  <2>2. ~RefersTo(new, o.name)
    BY <1>1, <2>1 DEF RefersTo
  <2>3. QED
    BY <1>6, <2>2 DEF Effect, Brought, new
<1>7. CASE o.kind = "RegisterHost"
  <2>1. made.hosts = Append(svc.hosts, o.host) /\ svc.hosts \in Seq(Hosts)
    BY <1>1, <1>7 DEF Made, AppendHost, Service
  <2>2. o.host \in Elements(new.hosts)
    BY <1>1, <2>1, AppendElements
  <2>3. o.host \in Listed(new)
    BY <2>2 DEF Elements, Listed
  <2>4. hosts[o.host] = o.attr
    BY <1>2, <1>3, <1>7 DEF UpToDate, AttrCurrent
  <2>5. QED
    BY <1>1, <1>7, <2>3, <2>4 DEF Effect, Brought, new
<1>8. CASE o.kind = "UnregisterHost"
  <2>1. made.hosts = RemoveFirstHost(svc, o.host).hosts
    BY <1>8 DEF Made
  <2>2. o.host \in Listed(svc) /\ Once(svc.hosts)
    <3>1. Fresh(run[p])
      BY <1>2, InHandCurrent
    <3>2. ListedBy(t, o.host)
      BY <1>2, <1>8, <3>1 DEF Fresh, FreshUnregisterHost, Removed
    <3>3. QED
      BY <1>1, <3>2 DEF ListedBy, svc, CurrentInv, ApartInv, StoreApart, ListsOnce
  <2>3. o.host \notin Elements(new.hosts)
    BY <1>1, <1>8, <2>1, <2>2, RemoveFirstOnce
  <2>4. o.host \notin Listed(new)
    BY <2>3 DEF Elements, Listed
  <2>5. QED
    BY <1>8, <2>4 DEF Effect, Brought, new
<1>9. CASE o.kind = "UpdateHost"
  <2>1. /\ ListedBy(t, o.host) /\ hosts[o.host] # None
        /\ hosts[o.host] = Updated(hosts[o.host], o.attr)
    BY <1>2, <1>3, <1>9 DEF UpToDate, AttrCurrent
  <2>2. made = svc
    BY <1>9 DEF Made
  <2>3. o.host \in Listed(new)
    BY <1>1, <2>1, <2>2 DEF ListedBy, Listed, svc
  <2>4. QED
    BY <1>1, <1>9, <2>1, <2>3 DEF Effect, Brought, new
<1>10. CASE o.kind = "PutParam"
  <2>1. made = o.record
    BY <1>10 DEF Made
  <2>2. Listed(new) = Listed(o.record)
    BY <1>1, <2>1 DEF Listed
  <2>3. QED
    BY <1>1, <1>10, <2>1, <2>2 DEF Effect, new
<1>11. QED
  BY <1>1, <1>4, <1>5, <1>6, <1>7, <1>8, <1>9, <1>10 DEF KindsAt

Kept(p) == /\ run'[p].todo = run[p].todo /\ run'[p].op = run[p].op
           /\ UNCHANGED client

(* The calls that do not end an operation unless they fail. *)
LEMMA MoveOps ==
    ASSUME TypeInv, NEW p \in Handlers,
           \/ CheckHostName(p) \/ GetForRegister(p) \/ Deregister(p) \/ RunUpdateHost(p)
           \/ CheckServiceName(p) \/ ListServices(p) \/ ScanService(p)
           \/ CheckPorts(p) \/ GetToAppend(p) \/ GetHostsForPut(p)
           \/ ReadHost(p) \/ Stamp(p) \/ PutHost(p)
    PROVE  Fail(p) \/ Kept(p)
<1> USE DEF In, Read, Kept
<1> RunType
  BY TypeInvParts
<1>1. run \in [Handlers -> HandlerState]
  BY TypeInvParts DEF RunType, GoodState
<1>2. CASE CheckHostName(p) \/ GetForRegister(p)
  BY <1>1, <1>2 DEF CheckHostName, GetForRegister, HandlerState, Go
<1>3. CASE Deregister(p)
  BY <1>1, <1>3 DEF Deregister, HandlerState, Go
<1>4. CASE RunUpdateHost(p)
  BY <1>1, <1>4 DEF RunUpdateHost, GetForUpdate, GetHost, HandlerState, Go
<1>5. CASE CheckServiceName(p)
  <2> DEFINE new == NewService(run[p].op.protocol)
  <2> HIDE DEF new
  <2>1. CASE Go(p, [run[p] EXCEPT !.pc = "stamp", !.cur = new]) /\ UNCHANGED client
    <3>1. Go(p, [run[p] EXCEPT !.pc = "stamp", !.cur = new])
      BY <2>1
    <3>2. run'[p].op = run[p].op /\ run'[p].todo = run[p].todo
      BY <3>1, GoCur
    <3>3. QED
      BY <2>1, <3>2
  <2>2. QED
    BY <1>5, <2>1 DEF CheckServiceName, new
<1>6. CASE ListServices(p)
  <2>1. PICK order : Go(p, [run[p] EXCEPT !.pc = "scan", !.rest = order]) /\ UNCHANGED client
    BY <1>6 DEF ListServices
  <2>2. Go(p, [run[p] EXCEPT !.pc = "scan", !.rest = order])
    BY <2>1
  <2>3. run'[p].op = run[p].op /\ run'[p].todo = run[p].todo
    BY <2>2, GoRest
  <2>4. QED
    BY <2>1, <2>3
<1>7. CASE ScanService(p)
  BY <1>1, <1>7 DEF ScanService, HandlerState, Go
<1>8. CASE CheckPorts(p)
  <2>1. CASE Go(p, [run[p] EXCEPT !.pc = "stamp"]) /\ UNCHANGED client
    <3>1. Go(p, [run[p] EXCEPT !.pc = "stamp"])
      BY <2>1
    <3>2. run'[p].op = run[p].op /\ run'[p].todo = run[p].todo
      BY <3>1, GoPc
    <3>3. QED
      BY <2>1, <3>2
  <2>2. QED
    BY <1>8, <2>1 DEF CheckPorts
<1>9. CASE GetToAppend(p)
  BY <1>1, <1>9 DEF GetToAppend, HandlerState, Go
<1>10. CASE GetHostsForPut(p)
  BY <1>1, <1>10 DEF GetHostsForPut, HandlerState, Go
<1>11. CASE ReadHost(p) \/ Stamp(p)
  BY <1>1, <1>11 DEF ReadHost, Stamp, HandlerState, Go
<1>12. CASE PutHost(p)
  BY <1>1, <1>12 DEF PutHost, HandlerState, Go
<1>13. QED
  BY <1>2, <1>3, <1>4, <1>5, <1>6, <1>7, <1>8, <1>9, <1>10, <1>11, <1>12

(* A call fails, goes on with the operation, or ends it with its effect.   *)
LEMMA CallEffect ==
    ASSUME NEW owner, NEW home, CurrentInv(owner, home), NEW p \in Handlers, Calls(p),
           NEW o, o = run[p].op
    PROVE  \/ Fail(p)
           \/ Kept(p)
           \/ Finish(p) /\ Effect(o)' /\ o.kind \notin {"Put", "UnregisterService"}
<1> USE DEF In, Read
<1> TypeInv /\ RunType /\ StoreType
  BY TypeInvParts DEF CurrentInv, ApartInv
<1>1. run[p].pc \notin {"idle", "begin"}
  BY CallOps
<1>2. /\ o \in Op /\ o.service \in Services /\ o.kind \in KindsAt(run[p].pc)
      /\ Fresh(run[p]) /\ UpToDate(run[p])
      /\ o.kind \in {"RegisterHost", "UnregisterHost", "UpdateHost"} => o.host \in Hosts
  BY <1>1, InHandCurrent DEF Target, HostName
<1>3. ASSUME NEW a, Go(p, [run[p] EXCEPT !.pc = a]), UNCHANGED client
      PROVE  Kept(p)
  BY <1>3, GoPc DEF Kept
<1>4. CASE GetForUnregister(p)
  <2>1. CASE ~IsListed(p) /\ Finish(p)
    <3>1. o.kind = "UnregisterHost" /\ services' = services
      BY <1>4 DEF GetForUnregister, ReadOnly, store
    <3>2. Effect(o)'
      BY <2>1, <3>1 DEF Effect, Brought, IsListed, Current, Target, HostName
    <3>3. QED
      BY <2>1, <3>1, <3>2
  <2>2. CASE IsListed(p)
    <3> DEFINE new == RemoveFirstHost(Current(p), HostName(p))
    <3>1. Go(p, [run[p] EXCEPT !.pc = "stamp", !.cur = new]) /\ UNCHANGED client
      BY <1>4, <2>2 DEF GetForUnregister
    <3> HIDE DEF new
    <3>2. run'[p].op = run[p].op /\ run'[p].todo = run[p].todo
      BY <3>1, GoCur
    <3>3. QED
      BY <3>1, <3>2 DEF Kept
  <2>3. QED
    BY <1>4, <2>1, <2>2 DEF GetForUnregister
<1>5. CASE GetForDependency(p)
  <2>1. CASE Current(p) = None
    <3>1. Finish(p) /\ o.kind = "AddDependency" /\ services' = services
      BY <1>5, <2>1 DEF GetForDependency, ReadOnly, store
    <3>2. Effect(o)'
      BY <2>1, <3>1 DEF Effect, Current, Target
    <3>3. QED
      BY <3>1, <3>2
  <2>2. CASE Current(p) # None
    <3> DEFINE names == Current(p).hosts
    <3>1. Go(p, [run[p] EXCEPT !.pc = "readHosts", !.rest = names]) /\ UNCHANGED client
      BY <1>5, <2>2 DEF GetForDependency
    <3> HIDE DEF names
    <3>2. Go(p, [run[p] EXCEPT !.pc = "readHosts", !.rest = names])
      BY <3>1
    <3>3. run'[p].op = run[p].op /\ run'[p].todo = run[p].todo
      BY <3>2, GoRest
    <3>4. QED
      BY <3>1, <3>3 DEF Kept
  <2>3. QED
    BY <2>1, <2>2
<1>6. CASE GetToRemove(p)
  <2>1. CASE Current(p) = None
    <3>1. Finish(p) /\ o.kind = "RemoveDependency" /\ services' = services
      BY <1>6, <2>1 DEF GetToRemove, ReadOnly, store
    <3>2. Effect(o)'
      BY <2>1, <3>1 DEF Effect, Brought, Current, Target
    <3>3. QED
      BY <3>1, <3>2
  <2>2. CASE Current(p) # None
    <3> DEFINE new == RemoveDependent(Current(p), run[p].op.name)
    <3>1. Go(p, [run[p] EXCEPT !.pc = "put", !.cur = new]) /\ UNCHANGED client
      BY <1>6, <2>2 DEF GetToRemove
    <3> HIDE DEF new
    <3>2. run'[p].op = run[p].op /\ run'[p].todo = run[p].todo
      BY <3>1, GoCur
    <3>3. QED
      BY <3>1, <3>2 DEF Kept
  <2>3. QED
    BY <2>1, <2>2
<1>7. CASE PutService(p)
  <2> DEFINE next == AfterPut(o.kind)
  <2>1. CASE next = "begin"
    <3>1. /\ Finish(p) /\ run[p].pc = "put"
          /\ o.kind = "RegisterHost" => ~Discovery
      BY <1>7, <2>1 DEF PutService, AfterPut
    <3>2. Effect(o)'
      BY <1>7, <3>1, PutEffect
    <3>3. o.kind \notin {"Put", "UnregisterService"}
      BY <1>2, <3>1 DEF KindsAt
    <3>4. QED
      BY <3>1, <3>2, <3>3
  <2>2. CASE next # "begin"
    <3>1. Go(p, [run[p] EXCEPT !.pc = next]) /\ UNCHANGED client
      BY <1>7, <2>2 DEF PutService
    <3> HIDE DEF next
    <3>2. QED
      BY <1>3, <3>1
  <2>3. QED
    BY <2>1, <2>2
<1>8. CASE Register(p)
  <2>1. /\ Finish(p) /\ o.kind = "RegisterHost" /\ run[p].pc = "register"
        /\ services' = services /\ hosts' = hosts
        /\ catalog' = [catalog EXCEPT ![o.host] = run[p].attr.ingress.machine]
    BY <1>8 DEF Register, HostName
  <2>2. ListedBy(o.service, o.host)
    BY <1>2, <2>1 DEF Fresh, FreshRegisterHost
  <2>3. hosts[o.host] = o.attr /\ run[p].attr = o.attr
    BY <1>2, <2>1 DEF UpToDate, AttrCurrent
  <2>4. catalog'[o.host] = o.attr.ingress.machine
    BY <1>2, <2>1, <2>3 DEF StoreType
  <2>5. Effect(o)'
    BY <2>1, <2>2, <2>3, <2>4 DEF Effect, Brought, ListedBy
  <2>6. QED
    BY <2>1, <2>5
<1>9. CASE ProbeKey(p)
  <2> DEFINE value == IF run[p].op.kind = "UnregisterHost" THEN hosts[HostName(p)] ELSE Current(p)
  <2>1. /\ o.kind \in {"UnregisterHost", "DeleteService"} /\ run[p].pc = "probe"
        /\ services' = services
    BY <1>9 DEF ProbeKey, ReadOnly, store
  <2>2. CASE value = None
    <3>1. Finish(p)
      BY <1>9, <2>2 DEF ProbeKey
    <3>2. CASE o.kind = "UnregisterHost"
      <4>1. ~ListedBy(o.service, o.host)
        BY <1>2, <2>1, <3>2 DEF Fresh, FreshUnregisterHost, Unlisted
      <4>2. Effect(o)'
        BY <2>1, <3>2, <4>1 DEF Effect, Brought, ListedBy
      <4>3. QED
        BY <3>1, <3>2, <4>2
    <3>3. CASE o.kind = "DeleteService"
      <4>1. Effect(o)'
        BY <2>1, <2>2, <3>3 DEF Effect, Current, Target
      <4>2. QED
        BY <3>1, <3>3, <4>1
    <3>4. QED
      BY <2>1, <3>2, <3>3
  <2>3. CASE value # None
    <3>1. Go(p, [run[p] EXCEPT !.pc = "delete"]) /\ UNCHANGED client
      BY <1>9, <2>3 DEF ProbeKey
    <3>2. QED
      BY <1>3, <3>1
  <2>4. QED
    BY <2>2, <2>3
<1>10. CASE DeleteTree(p)
  <2>1. Finish(p) /\ o.kind \in {"UnregisterHost", "DeleteService"} /\ run[p].pc = "delete"
    BY <1>10 DEF DeleteTree
  <2>2. CASE o.kind = "UnregisterHost"
    <3>1. ~ListedBy(o.service, o.host) /\ services' = services
      BY <1>2, <1>10, <2>1, <2>2 DEF DeleteTree, Fresh, FreshUnregisterHost, Unlisted
    <3>2. Effect(o)'
      BY <2>2, <3>1 DEF Effect, Brought, ListedBy
    <3>3. QED
      BY <2>1, <2>2, <3>2
  <2>3. CASE o.kind = "DeleteService"
    <3>1. services'[o.service] = None
      BY <1>2, <1>10, <2>3 DEF DeleteTree, Under, Target
    <3>2. Effect(o)'
      BY <2>3, <3>1 DEF Effect
    <3>3. QED
      BY <2>1, <2>3, <3>2
  <2>4. QED
    BY <2>1, <2>2, <2>3
<1>11. QED
  BY <1>4, <1>5, <1>6, <1>7, <1>8, <1>9, <1>10, MoveOps
     DEF Calls, RunRegisterHost, RunUnregisterHost, RunDependency, RunShared

-----------------------------------------------------------------------------
(* A call that writes brings the request no further away from its end.     *)

(* Appending a host to the record of a service. *)
LEMMA AppendListed ==
    ASSUME NEW svc \in Service, NEW h
    PROVE  /\ Listed(AppendHost(svc, h)) = Listed(svc) \cup {h}
           /\ AppendHost(svc, h).deps = svc.deps
           /\ AppendHost(svc, h).protocol = svc.protocol
<1> DEFINE new == AppendHost(svc, h)
<1>1. PICK names : names = svc.hosts
  OBVIOUS
<1>2. names \in Seq(Hosts) /\ new.hosts = Append(names, h)
  BY <1>1 DEF AppendHost, Service
<1>3. Elements(Append(names, h)) = Elements(names) \cup {h}
  BY <1>2, AppendElements
<1>4. Listed(new) = Elements(Append(names, h)) /\ Listed(svc) = Elements(names)
  BY <1>1, <1>2 DEF Listed, Elements
<1>5. new.deps = svc.deps /\ new.protocol = svc.protocol
  BY DEF AppendHost, Service
<1>6. QED
  BY <1>3, <1>4, <1>5

(* What PutService changes of the record, by the kind of the operation.    *)
LEMMA PutChanges ==
    ASSUME NEW owner, NEW home, CurrentInv(owner, home), NEW p \in Handlers, PutService(p),
           NEW o, o = run[p].op, NEW svc, svc = services[o.service],
           NEW new, new = services'[o.service]
    PROVE  /\ new # None
           /\ o.kind \notin {"RegisterService", "PutParam"} =>
                 svc # None /\ new.protocol = svc.protocol
           /\ o.kind = "RegisterService" =>
                 /\ svc = None /\ Listed(new) = {} /\ new.deps = {}
                 /\ new.protocol = o.protocol
           /\ o.kind = "AddDependency" => new.deps = svc.deps \cup {o.dep}
           /\ o.kind \in {"RegisterHost", "UnregisterHost", "UpdateHost"} => new.deps = svc.deps
           /\ o.kind \in {"AddDependency", "RemoveDependency", "UpdateHost"} =>
                 Listed(new) = Listed(svc)
           /\ o.kind = "RegisterHost" => Listed(new) = Listed(svc) \cup {o.host}
           /\ o.kind = "UnregisterHost" => Listed(new) = Listed(svc) \ {o.host}
           /\ o.kind = "PutParam" => Listed(new) = Listed(o.record)
<1> DEFINE made == Made(o, svc)
<1>1. /\ new # None /\ new \in Service
      /\ new.hosts = made.hosts /\ new.deps = made.deps /\ new.protocol = made.protocol
      /\ o \in Op /\ o.service \in Services /\ o.kind \in KindsAt("put")
      /\ o.kind \notin {"RegisterService", "PutParam"} => svc # None /\ svc \in Service
  BY PutMade
<1>2. run[p].pc = "put" /\ run[p].pc \notin {"idle", "begin"}
  BY DEF PutService
<1>3. Fresh(run[p])
  BY <1>2, InHandCurrent
<1>4. Listed(new) = Elements(made.hosts) /\ Listed(svc) = Elements(svc.hosts)
  BY <1>1 DEF Listed, Elements
<1>5. CASE o.kind = "RegisterService"
  <2>1. svc = None
    BY <1>2, <1>3, <1>5 DEF Fresh, FreshRegisterService
  <2>2. made = NewService(o.protocol)
    BY <1>5 DEF Made
  <2>3. made.hosts = <<>> /\ made.deps = {} /\ made.protocol = o.protocol
    BY <2>2 DEF NewService
  <2>4. Elements(<<>>) = {}
    BY DEF Elements
  <2>5. QED
    BY <1>1, <1>4, <1>5, <2>1, <2>3, <2>4
<1>6. CASE o.kind \in {"AddDependency", "RemoveDependency"}
  <2>1. /\ made.hosts = svc.hosts /\ made.protocol = svc.protocol
        /\ o.kind = "AddDependency" => made.deps = svc.deps \cup {o.dep}
    BY <1>1, <1>6 DEF Made, AppendDependent, RemoveDependent, Service
  <2>2. QED
    BY <1>1, <1>4, <1>6, <2>1
<1>7. CASE o.kind = "RegisterHost"
  <2>1. made = AppendHost(svc, o.host) /\ svc \in Service
    BY <1>1, <1>7 DEF Made
  <2>2. /\ Listed(made) = Listed(svc) \cup {o.host}
        /\ made.deps = svc.deps /\ made.protocol = svc.protocol
    BY <2>1, AppendListed
  <2>3. QED
    BY <1>1, <1>4, <1>7, <2>2 DEF Listed, Elements
<1>8. CASE o.kind = "UnregisterHost"
  <2>1. made = RemoveFirstHost(svc, o.host)
    BY <1>8 DEF Made
  <2>2. made.deps = svc.deps /\ made.protocol = svc.protocol
    BY <1>1, <1>8, <2>1 DEF RemoveFirstHost, Service
  <2>3. ListedBy(o.service, o.host)
    BY <1>2, <1>3, <1>8 DEF Fresh, FreshUnregisterHost, Removed
  <2>4. o.host \in Listed(svc) /\ Once(svc.hosts)
    BY <1>1, <2>3 DEF ListedBy, CurrentInv, ApartInv, StoreApart, ListsOnce
  <2>5. Elements(made.hosts) = Elements(svc.hosts) \ {o.host}
    BY <1>1, <1>8, <2>1, <2>4, RemoveFirstOnce
  <2>6. QED
    BY <1>1, <1>4, <1>8, <2>2, <2>5
<1>9. CASE o.kind = "UpdateHost"
  <2>1. made = svc
    BY <1>9 DEF Made
  <2>2. QED
    BY <1>1, <1>4, <1>9, <2>1
<1>10. CASE o.kind = "PutParam"
  <2>1. made = o.record
    BY <1>10 DEF Made
  <2>2. QED
    BY <1>1, <1>4, <1>10, <2>1 DEF Listed, Elements
<1>11. QED
  BY <1>1, <1>5, <1>6, <1>7, <1>8, <1>9, <1>10 DEF KindsAt

(* The calls that do not write services or hosts. *)
LEMMA CallWrites ==
    ASSUME NEW p \in Handlers, Calls(p)
    PROVE  PutService(p) \/ PutHost(p) \/ DeleteTree(p) \/ UNCHANGED <<services, hosts>>
<1> USE DEF ReadOnly, store
<1>1. CASE RunRegisterHost(p) \/ RunUnregisterHost(p) \/ RunUpdateHost(p)
  BY <1>1 DEF RunRegisterHost, RunUnregisterHost, RunUpdateHost, CheckHostName, GetForRegister,
              Register, GetForUnregister, Deregister, GetForUpdate, GetHost
<1>2. CASE CheckServiceName(p) \/ ListServices(p) \/ ScanService(p) \/ GetHostsForPut(p)
  BY <1>2 DEF CheckServiceName, ListServices, ScanService, GetHostsForPut
<1>3. CASE RunDependency(p)
  BY <1>3 DEF RunDependency, GetForDependency, CheckPorts, GetToAppend, GetToRemove
<1>4. CASE RunShared(p)
  BY <1>4 DEF RunShared, ReadHost, Stamp, ProbeKey
<1>5. QED
  BY <1>1, <1>2, <1>3, <1>4 DEF Calls

(* The operations a PUT consists of take its service toward what it asks   *)
(* for, and each call of theirs, too.                                      *)
LEMMA PutCallToward ==
    ASSUME NEW owner, NEW home, Isolated(owner, home), CurrentInv(owner, home),
           NEW p \in Handlers, PutService(p), NEW o, o = run[p].op, NEW ops, o \in ops,
           NEW r \in Requests[p], r.kind = "Put", PutToward(r, ops)
    PROVE  ServiceToward(r, ops)' /\ DepsToward(r, ops)' /\ ListToward(r, ops)'
<1>1. PICK svc : svc = services[o.service]
  OBVIOUS
<1>2. PICK new : new = services'[o.service]
  OBVIOUS
<1>3. PutStep(r, o) /\ o.service = r.service
  BY DEF PutToward, PutStep
<1>4. /\ new # None
      /\ o.kind \notin {"RegisterService", "PutParam"} => svc # None /\ new.protocol = svc.protocol
      /\ o.kind = "RegisterService" =>
            svc = None /\ Listed(new) = {} /\ new.deps = {} /\ new.protocol = o.protocol
      /\ o.kind = "AddDependency" => new.deps = svc.deps \cup {o.dep}
      /\ o.kind \in {"RegisterHost", "UnregisterHost", "UpdateHost"} => new.deps = svc.deps
      /\ o.kind \in {"AddDependency", "RemoveDependency", "UpdateHost"} => Listed(new) = Listed(svc)
      /\ o.kind = "RegisterHost" => Listed(new) = Listed(svc) \cup {o.host}
      /\ o.kind = "UnregisterHost" => Listed(new) = Listed(svc) \ {o.host}
      /\ o.kind = "PutParam" => Listed(new) = Listed(o.record)
  BY <1>1, <1>2, PutChanges, SMTT(30)
<1>5. ServiceToward(r, ops)'
  <2>1. o.kind = "PutParam" => Of(ops, "PutParam") # {}
    BY DEF Of
  <2>2. new # None /\ (Of(ops, "PutParam") = {} => new.protocol = r.protocol)
    BY <1>1, <1>3, <1>4, <2>1 DEF PutToward, ServiceToward, PutStep
  <2>3. QED
    BY <1>2, <1>3, <2>2 DEF ServiceToward
<1>6. DepsToward(r, ops)'
  <2>1. CASE Of(ops, "PutParam") # {}
    BY <2>1 DEF PutToward, DepsToward
  <2>2. CASE Of(ops, "PutParam") = {}
    <3> DEFINE added == {x.dep : x \in Of(ops, "AddDependency")}
    <3>1. o.kind # "PutParam" /\ (o.kind = "AddDependency" => o.dep \in added)
      BY <2>2 DEF Of
    <3>2. DepsOf(svc) \cup added = Elements(r.deps)
      BY <1>1, <1>3, <2>2 DEF PutToward, DepsToward
    <3> HIDE DEF added
    <3>3. DepsOf(new) \cup added = Elements(r.deps)
      BY <1>3, <1>4, <3>1, <3>2 DEF PutStep, DepsOf
    <3>4. QED
      BY <1>2, <1>3, <2>2, <3>3 DEF DepsToward, added
  <2>3. QED
    BY <2>1, <2>2
<1>7. ListToward(r, ops)'
  <2>1. PICK gone : gone = HostsIn(ops, "UnregisterHost")
    OBVIOUS
  <2>2. PICK come : come = HostsIn(ops, "RegisterHost")
    OBVIOUS
  <2>3. (ListOf(svc) \ gone) \cup come = ParamNames(r)
    BY <1>1, <1>3, <2>1, <2>2 DEF PutToward, ListToward
  <2>4. /\ o.kind = "RegisterHost" => o.host \in come
        /\ o.kind = "UnregisterHost" => o.host \in gone
    BY <2>1, <2>2 DEF HostsIn, Of
  <2>5. come \subseteq ParamNames(r) /\ gone \cap ParamNames(r) = {}
    BY <2>1, <2>2 DEF HostsIn, Of, PutToward, PutStep, ParamNames
  <2>6. (ListOf(new) \ gone) \cup come = ParamNames(r)
    <3>1. ListOf(new) = Listed(new)
      BY <1>4 DEF ListOf
    <3>2. CASE o.kind = "PutParam"
      <4>1. Listed(new) = Listed(ParamService(r))
        BY <1>3, <1>4, <3>2 DEF PutStep
      <4>2. Listed(ParamService(r)) = ParamNames(r)
        BY RequestParts, OpKind, ParamListed
      <4>3. QED
        BY <2>5, <3>1, <4>1, <4>2
    <3>3. CASE o.kind # "PutParam"
      BY <1>3, <1>4, <2>3, <2>4, <3>1, <3>3 DEF ListOf, PutStep
    <3>4. QED
      BY <3>2, <3>3
  <2>7. QED
    BY <1>2, <1>3, <2>1, <2>2, <2>6 DEF ListToward
<1>8. QED
  BY <1>5, <1>6, <1>7

(* A call keeps what is left to do of a PUT.                               *)
LEMMA PutStepToward ==
    ASSUME NEW owner, NEW home, Isolated(owner, home), Extends = {}, CurrentInv(owner, home),
           NEW p \in Handlers, Calls(p), NEW o, o = run[p].op, NEW ops, o \in ops,
           NEW r \in Requests[p], r.kind = "Put", PutToward(r, ops)
    PROVE  PutToward(r, ops)'
<1> USE DEF In
<1>1. PutStep(r, o) /\ \A x \in ops : PutStep(r, x)
  BY DEF PutToward
<1>2. StoreType /\ TypeInv /\ run[p].pc \notin {"idle", "begin"}
  BY CallOps, TypeInvParts DEF CurrentInv, ApartInv
<1>3. ASSUME services' = services
      PROVE  ServiceToward(r, ops)' /\ DepsToward(r, ops)' /\ ListToward(r, ops)'
  BY <1>3 DEF PutToward, ServiceToward, DepsToward, ListToward
<1>4. ASSUME \A i \in DOMAIN r.hosts : hosts'[r.hosts[i].name] = hosts[r.hosts[i].name]
      PROVE  HostsToward(r, ops)'
  BY <1>4 DEF PutToward, HostsToward
<1>5. CASE PutService(p)
  <2>1. hosts' = hosts
    BY <1>5 DEF PutService
  <2>2. ServiceToward(r, ops)' /\ DepsToward(r, ops)' /\ ListToward(r, ops)'
    BY <1>5, PutCallToward
  <2>3. QED
    BY <1>1, <1>4, <2>1, <2>2 DEF PutToward
<1>6. CASE PutHost(p)
  <2>1. /\ services' = services /\ o.kind \in {"RegisterHost", "UpdateHost"}
        /\ hosts' = [hosts EXCEPT ![o.host] = run[p].attr]
    BY <1>6 DEF PutHost, HostName
  <2>2. PICK k \in DOMAIN r.hosts : o.host = r.hosts[k].name /\ o.attr = r.hosts[k].attr
    BY <1>1, <2>1 DEF PutStep
  <2>3. HostsToward(r, ops)'
    <3> SUFFICES ASSUME NEW i \in DOMAIN r.hosts
                 PROVE  \/ hosts'[r.hosts[i].name] = r.hosts[i].attr
                        \/ \E x \in ops : /\ x.kind \in {"RegisterHost", "UpdateHost"}
                                          /\ x.host = r.hosts[i].name /\ x.attr = r.hosts[i].attr
      BY DEF HostsToward
    <3>1. r.hosts[i].name \in Hosts
      BY RequestParts
    <3>2. CASE r.hosts[i].name = o.host
      <4>1. i = k
        BY <2>2, <3>2, RequestParts
      <4>2. QED
        BY <2>1, <2>2, <4>1
    <3>3. CASE r.hosts[i].name # o.host
      <4>1. hosts'[r.hosts[i].name] = hosts[r.hosts[i].name]
        BY <1>2, <2>1, <3>1, <3>3 DEF StoreType
      <4>2. QED
        BY <4>1 DEF PutToward, HostsToward
    <3>4. QED
      BY <3>2, <3>3
  <2>4. QED
    BY <1>1, <1>3, <2>1, <2>3 DEF PutToward
<1>7. CASE DeleteTree(p)
  <2>1. /\ services' = services /\ o.kind = "UnregisterHost"
        /\ hosts' = [h \in Hosts |-> IF Under(o.host, h) THEN None ELSE hosts[h]]
    BY <1>1, <1>7 DEF DeleteTree, PutStep, HostName
  <2>2. o.host \notin ParamNames(r)
    BY <1>1, <2>1 DEF PutStep
  <2>3. \A i \in DOMAIN r.hosts : r.hosts[i].name \in Hosts /\ r.hosts[i].name # o.host
    BY <2>2, RequestParts DEF ParamNames
  <2>4. \A i \in DOMAIN r.hosts : hosts'[r.hosts[i].name] = hosts[r.hosts[i].name]
    BY <2>1, <2>3 DEF Under
  <2>5. QED
    BY <1>1, <1>3, <1>4, <2>1, <2>4 DEF PutToward
<1>8. CASE UNCHANGED <<services, hosts>>
  BY <1>1, <1>3, <1>4, <1>8 DEF PutToward
<1>9. QED
  BY <1>5, <1>6, <1>7, <1>8, CallWrites

(* A call keeps what is left to do of the removal of a service.            *)
LEMMA UnregisterStepToward ==
    ASSUME NEW owner, NEW home, CurrentInv(owner, home),
           NEW p \in Handlers, Calls(p), NEW o, o = run[p].op, NEW ops, o \in ops,
           NEW r, r.service \in Services, UnregisterToward(r, ops)
    PROVE  UnregisterToward(r, ops)'
<1> USE DEF In
<1>1. /\ StoreType /\ TypeInv /\ run[p].pc \notin {"idle", "begin"} /\ o.service \in Services
      /\ \/ o.kind = "RemoveDependency" /\ o.name = r.service
         \/ o.kind = "DeleteService" /\ o.service = r.service
  <2>1. TypeInv /\ run[p].pc \notin {"idle", "begin"}
    BY CallOps DEF CurrentInv, ApartInv
  <2>2. QED
    BY <2>1, InHandCurrent DEF UnregisterToward, Target
<1>2. CASE PutService(p)
  <2>1. o.kind = "RemoveDependency" /\ services[o.service] # None
    BY <1>1, <1>2, PutMade DEF KindsAt
  <2>2. \A s \in Services : s # o.service => services'[s] = services[s]
    BY <1>2, PutMade
  <2>3. QED
    BY <1>1, <2>1, <2>2 DEF UnregisterToward, Stored
<1>3. CASE DeleteTree(p)
  <2>1. \A s \in Services : services'[s] \in {services[s], None}
    BY <1>1, <1>3 DEF DeleteTree
  <2>2. QED
    BY <2>1 DEF UnregisterToward, Stored
<1>4. CASE PutHost(p) \/ UNCHANGED <<services, hosts>>
  <2>1. services' = services
    BY <1>4 DEF PutHost
  <2>2. QED
    BY <2>1 DEF UnregisterToward, Stored
<1>5. QED
  BY <1>2, <1>3, <1>4, CallWrites

-----------------------------------------------------------------------------
(* What is left to do once an operation has had its effect.                *)

(* Of a PUT. *)
LEMMA PutToDo ==
    ASSUME NEW r \in PutOp, NEW ops, NEW o \in ops, PutToward(r, ops)', Effect(o)',
           o.kind = "AddDependency" => Of(ops, "RegisterService") = {}
    PROVE  PutToward(r, ops \ {o})'
<1>1. PICK left : left = ops \ {o}
  OBVIOUS
<1>2. PICK svc : svc = services'[r.service]
  OBVIOUS
<1>3. PutStep(r, o) /\ o.service = r.service /\ \A x \in ops : PutStep(r, x)
  BY DEF PutToward, PutStep
<1>4. \A kind : /\ Of(left, kind) \subseteq Of(ops, kind)
                /\ Of(ops, kind) \subseteq Of(left, kind) \cup {o}
                /\ kind # o.kind => Of(left, kind) = Of(ops, kind)
  BY <1>1 DEF Of
<1>5. o.kind = "PutParam" => /\ svc # None /\ svc.protocol = r.protocol
                             /\ svc.deps = Elements(r.deps)
  BY <1>2, <1>3 DEF PutStep, Effect, ParamService
<1>6. ServiceToward(r, left)'
  <2>1. o.kind = "RegisterService" => svc # None
    BY <1>2, <1>3 DEF Effect, Brought
  <2>2. /\ svc # None \/ Of(ops, "RegisterService") # {}
        /\ svc # None /\ Of(ops, "PutParam") = {} => svc.protocol = r.protocol
    BY <1>2 DEF PutToward, ServiceToward
  <2>3. svc # None \/ Of(left, "RegisterService") # {}
    BY <1>4, <2>1, <2>2
  <2>4. svc # None /\ Of(left, "PutParam") = {} => svc.protocol = r.protocol
    BY <1>4, <1>5, <2>2
  <2>5. QED
    BY <1>2, <2>3, <2>4 DEF ServiceToward
<1>7. DepsToward(r, left)'
  <2>1. CASE Of(left, "PutParam") # {}
    <3>1. Of(ops, "AddDependency") = {}
      BY <1>4, <2>1 DEF PutToward, DepsToward
    <3>2. QED
      BY <1>4, <2>1, <3>1 DEF DepsToward
  <2>2. CASE Of(left, "PutParam") = {} /\ o.kind = "PutParam"
    <3>1. Of(ops, "PutParam") # {}
      BY <2>2 DEF Of
    <3>2. Of(left, "AddDependency") = {}
      BY <1>4, <3>1 DEF PutToward, DepsToward
    <3>3. DepsOf(svc) = Elements(r.deps)
      BY <1>5, <2>2 DEF DepsOf
    <3>4. QED
      BY <1>2, <2>2, <3>2, <3>3 DEF DepsToward
  <2>3. CASE Of(left, "PutParam") = {} /\ o.kind # "PutParam"
    <3>1. Of(ops, "PutParam") = {}
      BY <1>4, <2>3
    <3>2. DepsOf(svc) \cup {x.dep : x \in Of(ops, "AddDependency")} = Elements(r.deps)
      BY <1>2, <3>1 DEF PutToward, DepsToward
    <3>3. o.kind = "AddDependency" => o.dep \in DepsOf(svc)
      BY <1>2, <1>3 DEF PutToward, ServiceToward, Effect, DepsOf
    <3>4. DepsOf(svc) \cup {x.dep : x \in Of(left, "AddDependency")} = Elements(r.deps)
      BY <1>4, <3>2, <3>3
    <3>5. QED
      BY <1>2, <2>3, <3>4 DEF DepsToward
  <2>4. QED
    BY <2>1, <2>2, <2>3
<1>8. ListToward(r, left)'
  <2>1. (ListOf(svc) \ HostsIn(ops, "UnregisterHost")) \cup HostsIn(ops, "RegisterHost") = ParamNames(r)
    BY <1>2 DEF PutToward, ListToward
  <2>2. o.kind = "RegisterHost" => o.host \in ListOf(svc) /\ o.host \in ParamNames(r)
    BY <1>2, <1>3 DEF Effect, Brought, ListOf, PutStep, ParamNames
  <2>3. o.kind = "UnregisterHost" => o.host \notin ListOf(svc)
    BY <1>2, <1>3 DEF Effect, Brought, ListOf
  <2>4. \A x \in Of(ops, "UnregisterHost") : x.host \notin ParamNames(r)
    BY <1>3 DEF PutStep, Of
  <2>5. (ListOf(svc) \ HostsIn(left, "UnregisterHost")) \cup HostsIn(left, "RegisterHost") = ParamNames(r)
    BY <1>4, <2>1, <2>2, <2>3, <2>4 DEF HostsIn
  <2>6. QED
    BY <1>2, <2>5 DEF ListToward
<1>9. HostsToward(r, left)'
  <2> SUFFICES ASSUME NEW i \in DOMAIN r.hosts
               PROVE  \/ hosts'[r.hosts[i].name] = r.hosts[i].attr
                      \/ \E x \in left : /\ x.kind \in {"RegisterHost", "UpdateHost"}
                                         /\ x.host = r.hosts[i].name /\ x.attr = r.hosts[i].attr
    BY DEF HostsToward
  <2>1. CASE hosts'[r.hosts[i].name] = r.hosts[i].attr
    BY <2>1
  <2>2. CASE \E x \in ops : /\ x.kind \in {"RegisterHost", "UpdateHost"}
                            /\ x.host = r.hosts[i].name /\ x.attr = r.hosts[i].attr
    <3>1. PICK x \in ops : /\ x.kind \in {"RegisterHost", "UpdateHost"}
                           /\ x.host = r.hosts[i].name /\ x.attr = r.hosts[i].attr
      BY <2>2
    <3>2. CASE x # o
      BY <1>1, <3>1, <3>2
    <3>3. CASE x = o
      <4>1. CASE o.kind = "RegisterHost"
        BY <3>1, <3>3, <4>1 DEF Effect, Brought
      <4>2. CASE o.kind = "UpdateHost"
        <5>1. hosts'[o.host] = Updated(hosts'[o.host], o.attr)
          BY <4>2 DEF Effect, Brought
        <5>2. o.attr \in HostAttr
          BY <3>1, <3>3, PutParts
        <5>3. Updated(hosts'[o.host], o.attr) = o.attr
          BY <5>2, UpdatedAll
        <5>4. QED
          BY <3>1, <3>3, <5>1, <5>3
      <4>3. QED
        BY <3>1, <3>3, <4>1, <4>2
    <3>4. QED
      BY <3>2, <3>3
  <2>3. QED
    BY <2>1, <2>2 DEF PutToward, HostsToward
<1>10. \A x \in left : PutStep(r, x)
  BY <1>1, <1>3
<1>11. QED
  BY <1>1, <1>6, <1>7, <1>8, <1>9, <1>10 DEF PutToward

(* Of the removal of a service. *)
LEMMA UnregisterToDo ==
    ASSUME NEW r, NEW ops, NEW o \in ops, UnregisterToward(r, ops)', Effect(o)'
    PROVE  UnregisterToward(r, ops \ {o})'
<1>1. PICK left : left = ops \ {o}
  OBVIOUS
<1>2. \A x \in ops : \/ x.kind = "RemoveDependency" /\ x.name = r.service
                     \/ x.kind = "DeleteService" /\ x.service = r.service
  BY DEF UnregisterToward
<1>3. services'[r.service] # None => Of(left, "DeleteService") # {}
  BY <1>1, <1>2 DEF UnregisterToward, Of, Effect
<1>4. \A s \in Stored' : RefersTo(services'[s], r.service) =>
         \E x \in left : x.kind = "RemoveDependency" /\ x.service = s
  BY <1>1, <1>2 DEF UnregisterToward, Effect, Brought, Stored
<1>5. QED
  BY <1>1, <1>2, <1>3, <1>4 DEF UnregisterToward

(* Of any request: its own operation is the last. *)
LEMMA ToDo ==
    ASSUME NEW r \in Request, NEW ops, NEW o \in ops, Toward(r, ops)', Effect(o)',
           o.kind \notin {"Put", "UnregisterService"},
           o.kind = "AddDependency" => Of(ops, "RegisterService") = {}
    PROVE  Toward(r, ops \ {o})'
<1>1. CASE ops = {r}
  <2>1. o = r /\ ops \ {o} = {} /\ r \in Op
    BY <1>1 DEF Op
  <2>2. r.kind \notin {"PutParam", "DeleteService"}
    BY DEF Request, RegisterServiceOp, UnregisterServiceOp, AddDependencyOp, RemoveDependencyOp,
           RegisterHostOp, UnregisterHostOp, UpdateHostOp, PutOp
  <2>3. Brought(r)'
    BY <2>1, <2>2 DEF Effect, Brought
  <2>4. QED
    BY <2>1, <2>3 DEF Toward
<1>2. CASE r.kind = "Put" /\ PutToward(r, ops)'
  <2>1. r \in PutOp
    BY <1>2, OpKind DEF Op
  <2>2. QED
    BY <1>2, <2>1, PutToDo DEF Toward
<1>3. CASE r.kind = "UnregisterService" /\ UnregisterToward(r, ops)'
  BY <1>3, UnregisterToDo DEF Toward
<1>4. QED
  BY <1>1, <1>2, <1>3 DEF Toward

-----------------------------------------------------------------------------
(* What is planned of a request is what is left to do of it.               *)

(* The creation of a service. *)
LEMMA CreateToward ==
    ASSUME NEW r \in PutOp, services[r.service] = None
    PROVE  PutToward(r, CreatePlan(r))
<1> DEFINE plan == CreatePlan(r)
<1>1. \A o \in plan : PutStep(r, o)
  BY DEF CreatePlan, PutStep
<1>2. ServiceToward(r, plan)
  <2> DEFINE o == [kind |-> "RegisterService", at |-> 0, service |-> r.service,
                   protocol |-> r.protocol]
  <2>1. o \in plan /\ o.kind = "RegisterService"
    BY DEF CreatePlan
  <2> HIDE DEF o, plan
  <2>2. QED
    BY <2>1 DEF ServiceToward, Of
<1>3. DepsToward(r, plan)
  <2>1. Of(plan, "PutParam") = {}
    BY DEF CreatePlan, Of
  <2>2. ASSUME NEW i \in DOMAIN r.deps
        PROVE  \E o \in Of(plan, "AddDependency") : o.dep = r.deps[i]
    <3> DEFINE o == [kind |-> "AddDependency", at |-> i, service |-> r.service,
                     dep |-> r.deps[i]]
    <3>1. o \in plan /\ o.kind = "AddDependency" /\ o.dep = r.deps[i]
      BY DEF CreatePlan
    <3> HIDE DEF o, plan
    <3>2. QED
      BY <3>1 DEF Of
  <2>3. \A o \in Of(plan, "AddDependency") : \E i \in DOMAIN r.deps : o.dep = r.deps[i]
    BY DEF CreatePlan, Of
  <2> HIDE DEF plan
  <2>4. QED
    BY <2>1, <2>2, <2>3 DEF DepsToward, DepsOf, Elements
<1>4. /\ \A i \in DOMAIN r.hosts : \E o \in plan :
            /\ o.kind = "RegisterHost" /\ o.host = r.hosts[i].name /\ o.attr = r.hosts[i].attr
      /\ \A o \in plan : o.kind = "RegisterHost" => \E i \in DOMAIN r.hosts : o.host = r.hosts[i].name
      /\ \A o \in plan : o.kind # "UnregisterHost"
  <2>1. ASSUME NEW i \in DOMAIN r.hosts
        PROVE  \E o \in plan : /\ o.kind = "RegisterHost" /\ o.host = r.hosts[i].name
                               /\ o.attr = r.hosts[i].attr
    <3> DEFINE o == [kind |-> "RegisterHost", at |-> i, service |-> r.service,
                     host |-> r.hosts[i].name, attr |-> r.hosts[i].attr]
    <3>1. /\ o \in plan /\ o.kind = "RegisterHost"
          /\ o.host = r.hosts[i].name /\ o.attr = r.hosts[i].attr
      BY DEF CreatePlan
    <3> HIDE DEF o, plan
    <3>2. QED
      BY <3>1
  <2>2. /\ \A o \in plan : o.kind = "RegisterHost" => \E i \in DOMAIN r.hosts : o.host = r.hosts[i].name
        /\ \A o \in plan : o.kind # "UnregisterHost"
    BY DEF CreatePlan
  <2>3. QED
    BY <2>1, <2>2
<1> HIDE DEF plan
<1>5. ListToward(r, plan)
  BY <1>4 DEF ListToward, ListOf, HostsIn, Of, ParamNames
<1>6. HostsToward(r, plan)
  BY <1>4 DEF HostsToward
<1>7. QED
  BY <1>1, <1>2, <1>3, <1>5, <1>6 DEF PutToward, plan

(* What the update of a service consists of, when the PUT names each host  *)
(* once.                                                                   *)
LEMMA UpdatePlanOps ==
    ASSUME NEW r \in PutOp, NEW svc, NEW current,
           \A i, j \in DOMAIN r.hosts : r.hosts[i].name = r.hosts[j].name => i = j
    PROVE  LET plan == UpdatePlan(r, svc, current)
           IN  /\ \A o \in plan : PutStep(r, o) /\ o.kind \in {"RegisterHost", "UpdateHost",
                                                               "UnregisterHost", "PutParam"}
               /\ \A o \in plan : /\ o.kind = "RegisterHost" => o.host \notin FoundNames(current)
                                  /\ o.kind = "UnregisterHost" => o.host \in FoundNames(current)
               /\ \A i \in DOMAIN r.hosts : r.hosts[i].name \notin FoundNames(current) =>
                     \E o \in plan : /\ o.kind = "RegisterHost" /\ o.host = r.hosts[i].name
                                     /\ o.attr = r.hosts[i].attr
               /\ \A j \in DOMAIN current : current[j].name \notin ParamNames(r) =>
                     \E o \in plan : o.kind = "UnregisterHost" /\ o.host = current[j].name
               /\ \A i \in DOMAIN r.hosts, j \in DOMAIN current :
                     current[j].name = r.hosts[i].name /\ current[j].attr # r.hosts[i].attr =>
                        \E o \in plan : /\ o.kind = "UpdateHost" /\ o.host = r.hosts[i].name
                                        /\ o.attr = r.hosts[i].attr
               /\ (r.protocol # svc.protocol \/ Elements(r.deps) # svc.deps) =>
                     \E o \in plan : o.kind = "PutParam"
<1> DEFINE plan == UpdatePlan(r, svc, current)
<1>1. \A i \in DOMAIN r.hosts : i \in Nat /\ InParamMap(r, i)
  BY PutParts DEF InParamMap
<1>2. ASSUME NEW o \in plan
      PROVE  /\ PutStep(r, o)
             /\ o.kind \in {"RegisterHost", "UpdateHost", "UnregisterHost", "PutParam"}
             /\ o.kind = "RegisterHost" => o.host \notin FoundNames(current)
             /\ o.kind = "UnregisterHost" => o.host \in FoundNames(current)
  <2>1. CASE o \in NewHosts(r, current)
    BY <2>1 DEF NewHosts, PutStep, FoundNames
  <2>2. CASE o \in DelHosts(r, current)
    BY <2>2 DEF DelHosts, PutStep, FoundNames
  <2>3. CASE o \in ModifiedHosts(r, current)
    BY <2>3 DEF ModifiedHosts, PutStep
  <2>4. CASE o \in ServiceDiff(r, svc)
    BY <2>4 DEF ServiceDiff, PutStep
  <2>5. QED
    BY <2>1, <2>2, <2>3, <2>4 DEF UpdatePlan
<1>3. ASSUME NEW i \in DOMAIN r.hosts, r.hosts[i].name \notin FoundNames(current)
      PROVE  \E o \in plan : /\ o.kind = "RegisterHost" /\ o.host = r.hosts[i].name
                             /\ o.attr = r.hosts[i].attr
  <2> DEFINE o == [kind |-> "RegisterHost", at |-> i, service |-> r.service,
                   host |-> r.hosts[i].name, attr |-> r.hosts[i].attr]
             y == <<i, i>>
  <2>1. y \in (DOMAIN r.hosts) \X (DOMAIN r.hosts) /\ y[1] = i /\ y[2] = i
    OBVIOUS
  <2>2. \A j \in DOMAIN current : current[j].name # r.hosts[i].name
    BY <1>3 DEF FoundNames
  <2> HIDE DEF y
  <2>3. o \in NewHosts(r, current)
    <3>1. y \in {z \in (DOMAIN r.hosts) \X (DOMAIN r.hosts) :
                   /\ r.hosts[z[1]].name = r.hosts[z[2]].name
                   /\ InParamMap(r, z[2])
                   /\ \A j \in DOMAIN current : current[j].name # r.hosts[z[1]].name}
      BY <1>1, <2>1, <2>2
    <3>2. o = [kind |-> "RegisterHost", at |-> y[1], service |-> r.service,
               host |-> r.hosts[y[2]].name, attr |-> r.hosts[y[2]].attr]
      BY <2>1
    <3> HIDE DEF o
    <3>3. QED
      BY <3>1, <3>2 DEF NewHosts
  <2>4. o.kind = "RegisterHost" /\ o.host = r.hosts[i].name /\ o.attr = r.hosts[i].attr
    OBVIOUS
  <2> HIDE DEF o
  <2>5. QED
    BY <2>3, <2>4 DEF UpdatePlan
<1>4. ASSUME NEW j \in DOMAIN current, current[j].name \notin ParamNames(r)
      PROVE  \E o \in plan : o.kind = "UnregisterHost" /\ o.host = current[j].name
  <2> DEFINE o == [kind |-> "UnregisterHost", at |-> j, service |-> r.service,
                   host |-> current[j].name]
  <2>1. o \in DelHosts(r, current)
    BY <1>4 DEF DelHosts
  <2>2. QED
    BY <2>1 DEF UpdatePlan
<1>5. ASSUME NEW i \in DOMAIN r.hosts, NEW j \in DOMAIN current,
             current[j].name = r.hosts[i].name, current[j].attr # r.hosts[i].attr
      PROVE  \E o \in plan : /\ o.kind = "UpdateHost" /\ o.host = r.hosts[i].name
                             /\ o.attr = r.hosts[i].attr
  <2> DEFINE o == [kind |-> "UpdateHost", at |-> j, service |-> r.service,
                   host |-> r.hosts[i].name, attr |-> r.hosts[i].attr]
             y == <<j, i>>
  <2>1. y \in (DOMAIN current) \X (DOMAIN r.hosts) /\ y[1] = j /\ y[2] = i
    OBVIOUS
  <2> HIDE DEF y
  <2>2. o \in ModifiedHosts(r, current)
    BY <1>1, <1>5, <2>1 DEF ModifiedHosts
  <2>3. QED
    BY <2>2 DEF UpdatePlan
<1>6. ASSUME r.protocol # svc.protocol \/ Elements(r.deps) # svc.deps
      PROVE  \E o \in plan : o.kind = "PutParam"
  <2> DEFINE o == [kind |-> "PutParam", at |-> 0, service |-> r.service,
                   record |-> ParamService(r)]
  <2>1. o \in plan /\ o.kind = "PutParam"
    BY <1>6 DEF UpdatePlan, ServiceDiff
  <2> HIDE DEF o, plan
  <2>2. QED
    BY <2>1
<1> HIDE DEF plan
<1>7. QED
  BY <1>2, <1>3, <1>4, <1>5, <1>6 DEF plan

(* The update, planned from the record and the hosts stored now. *)
LEMMA UpdateToward ==
    ASSUME NEW r \in PutOp, NEW svc, NEW current,
           \A i, j \in DOMAIN r.hosts : r.hosts[i].name = r.hosts[j].name => i = j,
           svc = services[r.service], svc # None,
           FoundNames(current) = Listed(svc),
           \A j \in DOMAIN current : current[j].attr = hosts[current[j].name]
    PROVE  /\ PutToward(r, UpdatePlan(r, svc, current))
           /\ Matches(r) => UpdatePlan(r, svc, current) = {}
<1>1. PICK plan : plan = UpdatePlan(r, svc, current)
  OBVIOUS
<1>2. /\ \A o \in plan : PutStep(r, o) /\ o.kind \in {"RegisterHost", "UpdateHost",
                                                      "UnregisterHost", "PutParam"}
      /\ \A o \in plan : /\ o.kind = "RegisterHost" => o.host \notin FoundNames(current)
                         /\ o.kind = "UnregisterHost" => o.host \in FoundNames(current)
      /\ \A i \in DOMAIN r.hosts : r.hosts[i].name \notin FoundNames(current) =>
            \E o \in plan : /\ o.kind = "RegisterHost" /\ o.host = r.hosts[i].name
                            /\ o.attr = r.hosts[i].attr
      /\ \A j \in DOMAIN current : current[j].name \notin ParamNames(r) =>
            \E o \in plan : o.kind = "UnregisterHost" /\ o.host = current[j].name
      /\ \A i \in DOMAIN r.hosts, j \in DOMAIN current :
            current[j].name = r.hosts[i].name /\ current[j].attr # r.hosts[i].attr =>
               \E o \in plan : /\ o.kind = "UpdateHost" /\ o.host = r.hosts[i].name
                               /\ o.attr = r.hosts[i].attr
      /\ (r.protocol # svc.protocol \/ Elements(r.deps) # svc.deps) =>
            \E o \in plan : o.kind = "PutParam"
  BY <1>1, UpdatePlanOps
<1>3. ServiceToward(r, plan) /\ DepsToward(r, plan)
  <2>1. Of(plan, "AddDependency") = {}
    BY <1>2 DEF Of
  <2>2. Of(plan, "PutParam") = {} => svc.protocol = r.protocol /\ svc.deps = Elements(r.deps)
    BY <1>2 DEF Of
  <2>3. QED
    BY <2>1, <2>2 DEF ServiceToward, DepsToward, DepsOf
<1>4. ListToward(r, plan)
  <2>1. \A o \in plan : /\ o.kind = "RegisterHost" => o.host \in ParamNames(r)
                        /\ o.kind = "UnregisterHost" => o.host \notin ParamNames(r)
    BY <1>2 DEF PutStep, ParamNames
  <2>2. \A h \in ParamNames(r) : h \in Listed(svc) \/ h \in HostsIn(plan, "RegisterHost")
    BY <1>2 DEF ParamNames, HostsIn, Of
  <2>3. \A h \in Listed(svc) : h \in ParamNames(r) \/ h \in HostsIn(plan, "UnregisterHost")
    BY <1>2 DEF FoundNames, HostsIn, Of
  <2>4. /\ HostsIn(plan, "RegisterHost") \subseteq ParamNames(r)
        /\ HostsIn(plan, "UnregisterHost") \cap ParamNames(r) = {}
    BY <2>1 DEF HostsIn, Of
  <2>5. QED
    BY <2>2, <2>3, <2>4 DEF ListToward, ListOf
<1>5. HostsToward(r, plan)
  <2> SUFFICES ASSUME NEW i \in DOMAIN r.hosts
               PROVE  \/ hosts[r.hosts[i].name] = r.hosts[i].attr
                      \/ \E o \in plan : /\ o.kind \in {"RegisterHost", "UpdateHost"}
                                         /\ o.host = r.hosts[i].name /\ o.attr = r.hosts[i].attr
    BY DEF HostsToward
  <2>1. CASE r.hosts[i].name \notin FoundNames(current)
    BY <1>2, <2>1
  <2>2. CASE r.hosts[i].name \in FoundNames(current)
    <3>1. PICK j \in DOMAIN current : current[j].name = r.hosts[i].name
      BY <2>2 DEF FoundNames
    <3>2. QED
      BY <1>2, <3>1
  <2>3. QED
    BY <2>1, <2>2
<1>6. Matches(r) => plan = {}
  <2> SUFFICES ASSUME Matches(r), NEW o \in plan PROVE FALSE
    OBVIOUS
  <2>1. /\ svc.protocol = r.protocol /\ svc.deps = Elements(r.deps)
        /\ FoundNames(current) = ParamNames(r)
        /\ \A i \in DOMAIN r.hosts : hosts[r.hosts[i].name] = r.hosts[i].attr
    BY DEF Matches
  <2>2. NewHosts(r, current) = {}
    BY <2>1 DEF NewHosts, FoundNames, ParamNames
  <2>3. DelHosts(r, current) = {}
    BY <2>1 DEF DelHosts, FoundNames
  <2>4. ModifiedHosts(r, current) = {}
    BY <2>1 DEF ModifiedHosts
  <2>5. ServiceDiff(r, svc) = {}
    BY <2>1 DEF ServiceDiff
  <2>6. QED
    BY <1>1, <2>2, <2>3, <2>4, <2>5 DEF UpdatePlan
<1>7. QED
  BY <1>1, <1>2, <1>3, <1>4, <1>5, <1>6 DEF PutToward

-----------------------------------------------------------------------------
(* Every step leaves a handler as far with its request as its operations   *)
(* say.                                                                    *)

(* What is known of a handler that serves a request. *)
LEMMA InProgress ==
    ASSUME NEW owner, NEW home, Isolated(owner, home), AppliedInv(owner, home),
           NEW p \in Handlers, run[p].pc # "idle", NEW r, r = request[p]
    PROVE  /\ r \in Requests[p] /\ r \in Request /\ r \in Op /\ r # None /\ r.service \in Services
           /\ Toward(r, Pending(run[p])) /\ reply[p] # "ok"
           /\ repeat[p] => /\ r.kind = "Put" /\ Matches(r)
                           /\ Pending(run[p]) \subseteq {r} /\ ~changed[p]
<1>1. Progress(p) /\ RepeatDone(p)
  BY DEF AppliedInv, AllApplied, Applied
<1>2. r # None /\ r \in Requests[p]
  BY <1>1 DEF Progress
<1>3. QED
  BY <1>1, <1>2, RequestParts DEF Progress, RepeatDone

(* What a request asks of the store depends on nothing else. *)
LEMMA SameStore ==
    ASSUME UNCHANGED store, NEW r, NEW ops
    PROVE  /\ Brought(r)' = Brought(r)
           /\ Matches(r)' = Matches(r)
           /\ PutToward(r, ops)' = PutToward(r, ops)
           /\ UnregisterToward(r, ops)' = UnregisterToward(r, ops)
           /\ Toward(r, ops)' = Toward(r, ops)
<1>1. services' = services /\ hosts' = hosts /\ catalog' = catalog
  BY DEF store
<1>2. Matches(r)' = Matches(r)
  BY <1>1 DEF Matches
<1>3. Brought(r)' = Brought(r)
  BY <1>1, <1>2 DEF Brought, Stored
<1>4. PutToward(r, ops)' = PutToward(r, ops)
  BY <1>1 DEF PutToward, ServiceToward, DepsToward, ListToward, HostsToward
<1>5. UnregisterToward(r, ops)' = UnregisterToward(r, ops)
  BY <1>1 DEF UnregisterToward, Stored
<1>6. QED
  BY <1>2, <1>3, <1>4, <1>5 DEF Toward

(* A request that failed promises nothing. *)
LEMMA FailApplied ==
    ASSUME NEW owner, NEW home, Isolated(owner, home), AppliedInv(owner, home),
           NEW p \in Handlers, run[p].pc # "idle", Fail(p),
           NEW r, r = request[p], repeat[p] => Matches(r)'
    PROVE  Applied(p)'
<1> RunType /\ ClientType
  BY TypeInvParts DEF AppliedInv, CurrentInv, ApartInv
<1>1. r \in Requests[p] /\ r # None /\ (repeat[p] => r.kind = "Put" /\ ~changed[p])
  BY InProgress
<1>2. run'[p] = Idle
  BY GoOps DEF Fail
<1>3. run'[p].pc = "idle" /\ Pending(run[p])' = {}
  BY <1>2 DEF Idle, At, Pending
<1>4. /\ request'[p] = r /\ reply'[p] = "error"
      /\ changed'[p] = changed[p] /\ repeat'[p] = repeat[p]
  BY DEF Fail, ClientType
<1>5. Progress(p)'
  BY <1>1, <1>3, <1>4 DEF Progress
<1>6. RepeatDone(p)'
  BY <1>1, <1>3, <1>4 DEF RepeatDone
<1>7. QED
  BY <1>5, <1>6 DEF Applied

(* A handler whose answer is to come is as far as it was if what is left   *)
(* to do is still what is left to do.                                      *)
LEMMA GoOnApplied ==
    ASSUME NEW owner, NEW home, Isolated(owner, home), AppliedInv(owner, home),
           NEW p \in Handlers, run[p].pc # "idle", NEW r, r = request[p],
           request'[p] = r, reply'[p] = reply[p], repeat'[p] = repeat[p],
           NEW left, left = Pending(run[p])', Toward(r, left)',
           repeat[p] => Matches(r)' /\ left \subseteq {r} /\ ~changed'[p]
    PROVE  Applied(p)'
<1>1. /\ r \in Requests[p] /\ r # None /\ reply[p] # "ok"
      /\ repeat[p] => r.kind = "Put"
  BY InProgress
<1>2. Progress(p)'
  BY <1>1 DEF Progress
<1>3. RepeatDone(p)'
  BY <1>1 DEF RepeatDone
<1>4. QED
  BY <1>2, <1>3 DEF Applied

(* What is left to do after a call is what was left, less the operation    *)
(* that it ended.                                                          *)
LEMMA CallToward ==
    ASSUME NEW owner, NEW home, Isolated(owner, home), Extends = {}, AppliedInv(owner, home),
           NEW p \in Handlers, Calls(p), NEW r, r = request[p],
           NEW ops, ops = Pending(run[p])
    PROVE  Toward(r, ops)'
<1> CurrentInv(owner, home) /\ TypeInv
  BY DEF AppliedInv, CurrentInv, ApartInv
<1> DEFINE o == run[p].op
<1>1. run[p].pc \notin {"idle", "begin"}
  BY CallOps
<1>2. o \in ops
  BY <1>1, PendingOps, TypeInvParts
<1>3. r \in Requests[p] /\ r.service \in Services /\ Toward(r, ops)
  BY <1>1, InProgress
<1>4. CASE ops = {r}
  BY <1>4 DEF Toward
<1>5. CASE r.kind = "Put" /\ PutToward(r, ops)
  BY <1>2, <1>3, <1>5, PutStepToward DEF Toward
<1>6. CASE r.kind = "UnregisterService" /\ UnregisterToward(r, ops)
  BY <1>2, <1>3, <1>6, UnregisterStepToward DEF Toward
<1>7. QED
  BY <1>2, <1>3, <1>4, <1>5, <1>6 DEF Toward

(* A PUT like the one before only reads. *)
LEMMA RepeatReads ==
    ASSUME NEW owner, NEW home, Isolated(owner, home), AppliedInv(owner, home),
           NEW p \in Handlers, Calls(p), repeat[p], NEW r, r = request[p]
    PROVE  /\ UNCHANGED store
           /\ run[p].op = r /\ r.kind = "Put" /\ Matches(r)'
<1> USE DEF In
<1>1. /\ TypeInv /\ CurrentInv(owner, home) /\ run[p].pc \notin {"idle", "begin"}
  BY CallOps DEF AppliedInv, CurrentInv, ApartInv
<1>2. run[p].op = r /\ r.kind = "Put" /\ Matches(r)
  BY <1>1, InProgress, PendingOps, TypeInvParts
<1>3. r.kind \in KindsAt(run[p].pc)
  BY <1>1, <1>2, InHandCurrent
<1>4. ~PutService(p) /\ ~PutHost(p) /\ ~DeleteTree(p) /\ ~Register(p) /\ ~Deregister(p)
  BY <1>2, <1>3 DEF PutService, PutHost, DeleteTree, Register, Deregister, KindsAt
<1>5. UNCHANGED <<services, hosts>>
  BY <1>4, CallWrites
<1>6. catalog' = catalog
  BY <1>4, HostsWriters DEF Calls, Work, RunService, RunPut
<1>7. UNCHANGED store
  BY <1>5, <1>6 DEF store
<1>8. QED
  BY <1>2, <1>7, SameStore

(* After a call. *)
LEMMA CallApplied ==
    ASSUME NEW owner, NEW home, Isolated(owner, home), Extends = {}, AppliedInv(owner, home),
           NEW p \in Handlers, Calls(p)
    PROVE  Applied(p)'
<1> CurrentInv(owner, home) /\ TypeInv /\ RunType /\ ClientType
  BY TypeInvParts DEF AppliedInv, CurrentInv, ApartInv
<1>1. PICK r : r = request[p]
  OBVIOUS
<1>2. PICK o : o = run[p].op
  OBVIOUS
<1>3. PICK ops : ops = Pending(run[p])
  OBVIOUS
<1>4. /\ run[p].pc \notin {"idle", "begin"} /\ r \in Request
      /\ repeat[p] => ops \subseteq {r} /\ ~changed[p]
  BY <1>1, <1>3, CallOps, InProgress
<1>5. Toward(r, ops)'
  BY <1>1, <1>3, CallToward
<1>6. repeat[p] => Matches(r)' /\ o = r /\ r.kind = "Put"
  BY <1>1, <1>2, RepeatReads
<1>7. CASE Fail(p)
  BY <1>1, <1>4, <1>6, <1>7, FailApplied
<1>8. CASE Kept(p)
  <2>1. Pending(run[p])' = ops
    BY <1>3, <1>8 DEF Kept, Pending
  <2>2. /\ request'[p] = r /\ reply'[p] = reply[p] /\ repeat'[p] = repeat[p]
        /\ changed'[p] = changed[p]
    BY <1>1, <1>8 DEF Kept, client
  <2>3. QED
    BY <1>1, <1>4, <1>5, <1>6, <2>1, <2>2, GoOnApplied
<1>9. CASE Finish(p) /\ Effect(o)' /\ o.kind \notin {"Put", "UnregisterService"}
  <2>1. o \in ops /\ o \notin run[p].todo /\ None \notin run[p].todo
    <3>1. o \in ops
      BY <1>2, <1>3, <1>4, PendingOps
    <3>2. OpsApart(home, p, run[p]) /\ run[p].todo \subseteq Op
      BY <1>4, InHandApart, PendingOps DEF CurrentInv, ApartInv
    <3>3. QED
      BY <1>2, <3>1, <3>2, InventoryAssumption DEF OpsApart
  <2>2. Pending(run[p])' = ops \ {o}
    <3>1. run'[p].todo = run[p].todo /\ run'[p].op = None
      BY <1>9, ContinueOps DEF Finish
    <3>2. QED
      BY <1>2, <1>3, <2>1, <3>1 DEF Pending
  <2>3. ASSUME o.kind = "AddDependency" PROVE Of(ops, "RegisterService") = {}
    <3>1. \A x \in run[p].todo : ~Before(x, o)
      BY <1>2, <1>4, InHandCurrent DEF UpToDate, Ordered
    <3>2. \A x : x.kind = "RegisterService" => Before(x, o)
      BY <2>3 DEF Before, Rank
    <3>3. QED
      BY <1>2, <1>3, <2>3, <3>1, <3>2 DEF Of, Pending
  <2>4. Toward(r, ops \ {o})'
    BY <1>4, <1>5, <1>9, <2>1, <2>3, ToDo
  <2>5. request'[p] = r /\ reply'[p] = reply[p] /\ repeat'[p] = repeat[p]
    BY <1>1, <1>9 DEF Finish, client
  <2>6. ~repeat[p]
    BY <1>6, <1>9
  <2>7. QED
    BY <1>1, <1>4, <2>2, <2>4, <2>5, <2>6, GoOnApplied
<1>10. QED
  BY <1>2, <1>7, <1>8, <1>9, CallEffect

(* The removal of a service is planned from what the services refer to.    *)
LEMMA UnregisterPlanToward ==
    ASSUME NEW owner, NEW home, CurrentInv(owner, home), NEW p \in Handlers, PlanUnregister(p),
           NEW r, r = run[p].op
    PROVE  /\ r.kind = "UnregisterService"
           /\ UnregisterToward(r, run[p].todo)'
           /\ run'[p].op = None
<1> USE DEF In
<1>1. PICK found : found = run[p].found
  OBVIOUS
<1>2. PICK names : names = Elements(found)
  OBVIOUS
<1> DEFINE removals == {[kind |-> "RemoveDependency", at |-> i, service |-> found[i],
                         name |-> r.service] : i \in DOMAIN found}
           last == [kind |-> "DeleteService", at |-> 0, service |-> r.service]
           plan == removals \cup {last}
<1>3. /\ r.kind = "UnregisterService" /\ run[p].pc = "scan" /\ run[p].rest = <<>>
      /\ Continue(p, plan) /\ services' = services
  BY <1>1 DEF PlanUnregister, Target, ReadOnly, store
<1>4. RunType /\ UpToDate(run[p])
  BY <1>3, InHandCurrent
<1>5. \A t \in Stored : RefersTo(services[t], r.service) => t \in names
  <2>1. Elements(<<>>) = {}
    BY DEF Elements
  <2>2. QED
    BY <1>1, <1>2, <1>3, <1>4, <2>1 DEF UpToDate, ReadsCurrent
<1>6. \A o \in plan : \/ o.kind = "RemoveDependency" /\ o.name = r.service
                      \/ o.kind = "DeleteService" /\ o.service = r.service
  OBVIOUS
<1>7. Of(plan, "DeleteService") # {}
  <2>1. last \in plan /\ last.kind = "DeleteService"
    OBVIOUS
  <2> HIDE DEF last, plan
  <2>2. QED
    BY <2>1 DEF Of
<1>8. ASSUME NEW t \in names PROVE \E o \in plan : o.kind = "RemoveDependency" /\ o.service = t
  <2>1. PICK i \in DOMAIN found : t = found[i]
    BY <1>2 DEF Elements
  <2> DEFINE o == [kind |-> "RemoveDependency", at |-> i, service |-> found[i],
                   name |-> r.service]
  <2>2. o \in plan /\ o.kind = "RemoveDependency" /\ o.service = t
    BY <2>1
  <2> HIDE DEF o, plan
  <2>3. QED
    BY <2>2
<1> HIDE DEF plan
<1>9. run'[p].todo = plan /\ run'[p].op = None
  BY <1>3, <1>4, ContinueOps
<1>10. UnregisterToward(r, plan)'
  BY <1>3, <1>5, <1>6, <1>7, <1>8 DEF UnregisterToward, Stored
<1>11. QED
  BY <1>3, <1>9, <1>10

(* So is a PUT, from the record and the hosts stored. *)
LEMMA PutPlanToward ==
    ASSUME NEW owner, NEW home, Isolated(owner, home), CurrentInv(owner, home),
           NEW p \in Handlers, NEW r \in Requests[p], r = run[p].op,
           PlanUpdate(p) \/ (GetForPut(p) /\ Current(p) = None)
    PROVE  /\ r.kind = "Put"
           /\ PutToward(r, run[p].todo)'
           /\ Matches(r) => run'[p].todo = {} /\ changed'[p] = FALSE
           /\ run'[p].op = None
<1> USE DEF In
<1>1. /\ run[p].pc \notin {"idle", "begin"} /\ r.kind = "Put" /\ UNCHANGED store
  BY DEF PlanUpdate, GetForPut, ReadOnly
<1>2. RunType /\ ClientType /\ UpToDate(run[p]) /\ Target(p) = r.service
  BY <1>1, InHandCurrent, TypeInvParts DEF CurrentInv, ApartInv, Target
<1>3. /\ r \in PutOp
      /\ \A i, j \in DOMAIN r.hosts : r.hosts[i].name = r.hosts[j].name => i = j
  BY <1>1, RequestParts, OpKind
<1>4. CASE GetForPut(p) /\ Current(p) = None
  <2> DEFINE plan == CreatePlan(r)
  <2>1. Continue(p, plan) /\ services[r.service] = None
    BY <1>2, <1>4 DEF GetForPut, Current
  <2>2. PutToward(r, plan) /\ ~Matches(r)
    BY <1>3, <2>1, CreateToward DEF Matches
  <2> HIDE DEF plan
  <2>3. run'[p].todo = plan /\ run'[p].op = None
    BY <1>2, <2>1, ContinueOps
  <2>4. PutToward(r, plan)'
    BY <1>1, <2>2, SameStore
  <2>5. QED
    BY <1>1, <2>2, <2>3, <2>4
<1>5. CASE PlanUpdate(p)
  <2>1. PICK svc : svc = run[p].cur
    OBVIOUS
  <2>2. PICK current : current = run[p].found
    OBVIOUS
  <2> DEFINE plan == UpdatePlan(r, svc, current)
  <2>3. /\ run[p].pc = "readHosts" /\ run[p].rest = <<>>
        /\ Continue(p, plan) /\ changed' = [changed EXCEPT ![p] = plan # {}]
    BY <1>5, <2>1, <2>2 DEF PlanUpdate
  <2>4. svc = services[r.service] /\ svc # None
    BY <1>1, <1>2, <2>1, <2>3 DEF UpToDate, RecordCurrent, HoldsService, Made
  <2>5. /\ FoundNames(current) = Listed(svc)
        /\ \A j \in DOMAIN current : current[j].attr = hosts[current[j].name]
    <3>1. Elements(<<>>) = {}
      BY DEF Elements
    <3>2. QED
      BY <1>1, <1>2, <2>2, <2>3, <2>4, <3>1 DEF UpToDate, ReadsCurrent
  <2>6. PutToward(r, plan) /\ (Matches(r) => plan = {})
    BY <1>3, <2>4, <2>5, UpdateToward
  <2> HIDE DEF plan
  <2>7. run'[p].todo = plan /\ run'[p].op = None
    BY <1>2, <2>3, ContinueOps
  <2>8. changed'[p] = (plan # {})
    BY <1>2, <2>3 DEF ClientType
  <2>9. PutToward(r, plan)'
    BY <1>1, <2>6, SameStore
  <2>10. QED
    BY <1>1, <2>6, <2>7, <2>8, <2>9
<1>6. QED
  BY <1>4, <1>5

(* After planning. *)
LEMMA PlanApplied ==
    ASSUME NEW owner, NEW home, Isolated(owner, home), AppliedInv(owner, home),
           NEW p \in Handlers, Plans(p)
    PROVE  Applied(p)'
<1> USE DEF In
<1> CurrentInv(owner, home) /\ TypeInv /\ RunType /\ ClientType
  BY TypeInvParts DEF AppliedInv, CurrentInv, ApartInv
<1>1. PICK r : r = request[p]
  OBVIOUS
<1>2. PICK ops : ops = Pending(run[p])
  OBVIOUS
<1>3. /\ run[p].pc \notin {"idle", "begin"} /\ run[p].op.kind \in {"Put", "UnregisterService"}
      /\ UNCHANGED store
  BY DEF Plans, GetForPut, PlanUpdate, PlanUnregister, ReadOnly
<1>4. /\ r \in Requests[p] /\ Toward(r, ops)
      /\ repeat[p] => r.kind = "Put" /\ Matches(r) /\ ops \subseteq {r} /\ ~changed[p]
  BY <1>1, <1>2, <1>3, InProgress
<1>5. ops = {r} /\ run[p].op = r
  <2>1. run[p].op \in ops
    BY <1>2, <1>3, PendingOps
  <2>2. QED
    BY <1>3, <1>4, <2>1 DEF Toward, PutToward, PutStep, UnregisterToward
<1>6. repeat[p] => Matches(r)'
  BY <1>3, <1>4, SameStore
<1>7. /\ request'[p] = r /\ reply'[p] = reply[p] /\ repeat'[p] = repeat[p]
  BY <1>1 DEF Plans, GetForPut, PlanUpdate, PlanUnregister, Read, client
<1>8. run'[p].op = None => Pending(run[p])' = run'[p].todo
  <2>1. RunType'
    BY WorkType, TypeInvParts2 DEF Plans, Work, RunPut, RunService
  <2>2. run'[p].todo \subseteq Op
    BY <2>1 DEF RunType, GoodState, HandlerState
  <2>3. None \notin run'[p].todo
    BY <2>2, InventoryAssumption
  <2>4. QED
    BY <2>3 DEF Pending
<1>9. CASE PlanUnregister(p)
  <2>1. /\ r.kind = "UnregisterService" /\ UnregisterToward(r, run[p].todo)'
        /\ run'[p].op = None
    BY <1>5, <1>9, UnregisterPlanToward
  <2>2. PICK left : left = run'[p].todo
    OBVIOUS
  <2>3. Toward(r, left)'
    BY <2>1, <2>2 DEF Toward
  <2>4. QED
    BY <1>1, <1>3, <1>4, <1>7, <1>8, <2>1, <2>2, <2>3, GoOnApplied
<1>10. CASE PlanUpdate(p) \/ (GetForPut(p) /\ Current(p) = None)
  <2>1. /\ r.kind = "Put" /\ PutToward(r, run[p].todo)' /\ run'[p].op = None
        /\ Matches(r) => run'[p].todo = {} /\ changed'[p] = FALSE
    BY <1>4, <1>5, <1>10, PutPlanToward
  <2>2. PICK left : left = run'[p].todo
    OBVIOUS
  <2>3. Toward(r, left)'
    BY <2>1, <2>2 DEF Toward
  <2>4. repeat[p] => Matches(r)' /\ left \subseteq {r} /\ ~changed'[p]
    BY <1>4, <1>6, <2>1, <2>2
  <2>5. QED
    BY <1>1, <1>3, <1>7, <1>8, <2>1, <2>2, <2>3, <2>4, GoOnApplied
<1>11. CASE GetForPut(p) /\ Current(p) # None
  <2> DEFINE svc == Current(p)
  <2>1. Go(p, [run[p] EXCEPT !.pc = "getHosts", !.cur = svc]) /\ changed' = changed
    BY <1>11 DEF GetForPut, Read, client
  <2> HIDE DEF svc
  <2>2. Go(p, [run[p] EXCEPT !.pc = "getHosts", !.cur = svc])
    BY <2>1
  <2>3. run'[p].op = run[p].op /\ run'[p].todo = run[p].todo
    BY <2>2, GoCur
  <2>4. Pending(run[p])' = ops
    BY <1>2, <2>3 DEF Pending
  <2>5. Toward(r, ops)'
    BY <1>5 DEF Toward
  <2>6. QED
    BY <1>1, <1>3, <1>4, <1>6, <1>7, <2>1, <2>4, <2>5, GoOnApplied
<1>12. QED
  BY <1>9, <1>10, <1>11 DEF Plans

(* A request of which nothing is left to do has achieved what it promises. *)
LEMMA NothingToDo ==
    ASSUME NEW r, Toward(r, {})
    PROVE  Brought(r)
<1>1. /\ \A kind : Of({}, kind) = {}
      /\ \A kind : HostsIn({}, kind) = {}
  BY DEF Of, HostsIn
<1>2. CASE r.kind = "Put" /\ PutToward(r, {})
  <2>1. PICK svc : svc = services[r.service]
    OBVIOUS
  <2>2. svc # None /\ svc.protocol = r.protocol
    BY <1>1, <1>2, <2>1 DEF PutToward, ServiceToward
  <2>3. svc.deps = Elements(r.deps)
    BY <1>1, <1>2, <2>1, <2>2 DEF PutToward, DepsToward, DepsOf
  <2>4. Listed(svc) = ParamNames(r)
    BY <1>1, <1>2, <2>1, <2>2 DEF PutToward, ListToward, ListOf
  <2>5. \A i \in DOMAIN r.hosts : hosts[r.hosts[i].name] = r.hosts[i].attr
    BY <1>2 DEF PutToward, HostsToward
  <2>6. QED
    BY <1>2, <2>1, <2>2, <2>3, <2>4, <2>5 DEF Brought, Matches
<1>3. CASE r.kind = "UnregisterService" /\ UnregisterToward(r, {})
  BY <1>1, <1>3 DEF UnregisterToward, Brought
<1>4. QED
  BY <1>2, <1>3 DEF Toward

(* Between two operations. *)
LEMMA BetweenApplied ==
    ASSUME NEW owner, NEW home, Isolated(owner, home), AppliedInv(owner, home),
           NEW p \in Handlers, Begin(p) \/ Reject(p) \/ Return(p)
    PROVE  Applied(p)'
<1> TypeInv /\ RunType /\ ClientType
  BY TypeInvParts DEF AppliedInv, CurrentInv, ApartInv
<1>1. PICK r : r = request[p]
  OBVIOUS
<1>2. PICK ops : ops = Pending(run[p])
  OBVIOUS
<1>3. run[p].pc = "begin" /\ UNCHANGED store
  BY DEF Begin, Reject, Return
<1>4. /\ r \in Requests[p] /\ r # None /\ Toward(r, ops)
      /\ repeat[p] => r.kind = "Put" /\ Matches(r) /\ ops \subseteq {r} /\ ~changed[p]
  BY <1>1, <1>2, <1>3, InProgress
<1>5. /\ repeat[p] => Matches(r)'
      /\ Toward(r, ops)' /\ (Brought(r) => Brought(r)')
  BY <1>3, <1>4, SameStore
<1>6. ops = run[p].todo
  <2>1. run[p].op = None
    BY <1>3 DEF AppliedInv, CurrentInv, ApartInv, AllApart, Apart, OpsApart
  <2>2. run[p].todo \subseteq Op
    BY PendingOps
  <2>3. QED
    BY <1>2, <2>1, <2>2, InventoryAssumption DEF Pending
<1>7. CASE Begin(p)
  <2>1. PICK o : /\ run'[p].op = o /\ run'[p].todo = run[p].todo \ {o}
                 /\ o \in run[p].todo /\ o \in Op
    BY <1>7, BeginOps
  <2>2. Pending(run[p])' = ops
    BY <1>2, <1>6, <2>1 DEF Pending
  <2>3. /\ request'[p] = r /\ reply'[p] = reply[p] /\ repeat'[p] = repeat[p]
        /\ changed'[p] = changed[p]
    BY <1>1, <1>7 DEF Begin, client
  <2>4. QED
    BY <1>1, <1>3, <1>4, <1>5, <2>2, <2>3, GoOnApplied
<1>8. CASE Reject(p)
  BY <1>1, <1>3, <1>5, <1>8, FailApplied DEF Reject
<1>9. CASE Return(p)
  <2>1. ops = {} /\ Brought(r)
    BY <1>4, <1>6, <1>9, NothingToDo DEF Return
  <2>2. run'[p] = Idle
    BY <1>9, GoOps DEF Return
  <2>3. run'[p].pc = "idle" /\ Pending(run[p])' = {}
    BY <2>2 DEF Idle, At, Pending
  <2>4. /\ request'[p] = r /\ changed'[p] = changed[p] /\ repeat'[p] = repeat[p]
    BY <1>1, <1>9 DEF Return
  <2>5. Progress(p)'
    BY <1>4, <1>5, <2>1, <2>3, <2>4 DEF Progress
  <2>6. RepeatDone(p)'
    BY <1>4, <1>5, <2>3, <2>4 DEF RepeatDone
  <2>7. QED
    BY <2>5, <2>6 DEF Applied
<1>10. QED
  BY <1>7, <1>8, <1>9

(* After every step of its own. *)
LEMMA WorkApplied ==
    ASSUME NEW owner, NEW home, Isolated(owner, home), Extends = {}, AppliedInv(owner, home),
           NEW p \in Handlers, Work(p)
    PROVE  Applied(p)'
  BY WorkCases, BetweenApplied, PlanApplied, CallApplied

(* A request that arrives has all of it left to do.                        *)
LEMMA AcceptApplied ==
    ASSUME NEW owner, NEW home, Isolated(owner, home), AppliedInv(owner, home),
           NEW p \in Handlers, NEW r \in Requests[p], Accept(p, r)
    PROVE  Applied(p)'
<1> RunType /\ ClientType
  BY TypeInvParts DEF AppliedInv, CurrentInv, ApartInv
<1>1. r \in Op /\ r # None
  BY RequestParts, InventoryAssumption
<1>2. Continue(p, {r}) /\ UNCHANGED store
  BY DEF Accept
<1>3. run'[p].pc = "begin" /\ Pending(run[p])' = {r}
  BY <1>1, <1>2, ContinueOps DEF Pending
<1>4. /\ request'[p] = r /\ reply'[p] = "none" /\ changed'[p] = FALSE
      /\ repeat'[p] => r.kind = "Put" /\ r = request[p] /\ (reply[p] = "ok" \/ repeat[p])
  BY DEF Accept, ClientType
<1>5. Progress(p)'
  BY <1>1, <1>3, <1>4 DEF Progress, Toward
<1>6. ASSUME repeat'[p] PROVE Matches(r)'
  <2>1. Matches(r)
    BY <1>4, <1>6 DEF AppliedInv, AllApplied, Applied, Progress, RepeatDone, Brought
  <2>2. QED
    BY <1>2, <2>1, SameStore
<1>7. RepeatDone(p)'
  BY <1>3, <1>4, <1>6 DEF RepeatDone
<1>8. QED
  BY <1>5, <1>7 DEF Applied

(* A call that fails ends the request, or an AddDependency of which nothing *)
(* is asked.                                                               *)
LEMMA CallFailsApplied ==
    ASSUME NEW owner, NEW home, Isolated(owner, home), NoDependencyDropped,
           AppliedInv(owner, home), NEW p \in Handlers, CallFails(p)
    PROVE  Applied(p)'
<1> CurrentInv(owner, home) /\ TypeInv /\ RunType
  BY TypeInvParts DEF AppliedInv, CurrentInv, ApartInv
<1>1. PICK r : r = request[p]
  OBVIOUS
<1>2. PICK o : o = run[p].op
  OBVIOUS
<1>3. PICK ops : ops = Pending(run[p])
  OBVIOUS
<1>4. /\ run[p].pc # "idle" /\ UNCHANGED store /\ "error" \in Faults
      /\ \/ Fail(p)
         \/ Finish(p) /\ run[p].pc \notin {"idle", "begin"} /\ o.kind = "AddDependency"
  BY <1>2 DEF CallFails, Calling
<1>5. /\ r \in Requests[p] /\ Toward(r, ops)
      /\ repeat[p] => r.kind = "Put" /\ Matches(r) /\ ops \subseteq {r}
  BY <1>1, <1>3, <1>4, InProgress
<1>6. repeat[p] => Matches(r)'
  BY <1>4, <1>5, SameStore
<1>7. CASE Fail(p)
  BY <1>1, <1>4, <1>6, <1>7, FailApplied
<1>8. CASE Finish(p) /\ run[p].pc \notin {"idle", "begin"} /\ o.kind = "AddDependency"
  <2>1. o \in ops
    BY <1>2, <1>3, <1>8, PendingOps
  <2>2. ~(r.kind = "Put" /\ PutToward(r, ops))
    <3> SUFFICES ASSUME r.kind = "Put", PutToward(r, ops) PROVE FALSE
      OBVIOUS
    <3>1. r.deps = <<>>
      BY <1>4, <1>5 DEF NoDependencyDropped
    <3>2. Elements(r.deps) = {}
      BY <3>1 DEF Elements
    <3>3. o \in Of(ops, "AddDependency")
      BY <1>8, <2>1 DEF Of
    <3>4. o.dep \in Elements(r.deps)
      BY <3>3 DEF PutToward, DepsToward
    <3>5. QED
      BY <3>2, <3>4
  <2>3. ops = {r} /\ r = o
    BY <1>5, <1>8, <2>1, <2>2 DEF Toward, UnregisterToward
  <2>4. Toward(r, {})'
    BY <1>8, <2>3 DEF Toward, Brought
  <2>5. Pending(run[p])' = {}
    <3>1. OpsApart(home, p, run[p]) /\ run[p].todo \subseteq ops
      BY <1>3, <1>8, InHandApart, PendingOps DEF CurrentInv, ApartInv
    <3>2. run[p].todo = {}
      BY <1>2, <2>3, <3>1 DEF OpsApart
    <3>3. run'[p].todo = {} /\ run'[p].op = None
      BY <1>8, <3>2, ContinueOps DEF Finish
    <3>4. QED
      BY <3>3 DEF Pending
  <2>6. /\ request'[p] = r /\ reply'[p] = reply[p] /\ repeat'[p] = repeat[p]
        /\ ~repeat[p]
    BY <1>1, <1>5, <1>8, <2>3 DEF Finish, client
  <2>7. QED
    BY <1>1, <1>4, <2>4, <2>5, <2>6, GoOnApplied
<1>9. QED
  BY <1>4, <1>7, <1>8

(* A step of a handler leaves the answers to the other clients alone, and  *)
(* the requests of all of them unless it accepts one.                      *)
LEMMA OthersClients ==
    ASSUME ClientType, NEW p \in Handlers, NEW q \in Handlers,
           Work(p) \/ CallFails(p) \/ (\E r \in Requests[p] : Accept(p, r))
    PROVE  /\ q # p => /\ request'[q] = request[q] /\ reply'[q] = reply[q]
                       /\ changed'[q] = changed[q] /\ repeat'[q] = repeat[q]
           /\ Work(p) \/ CallFails(p) => UNCHANGED <<request, repeat>>
<1> USE DEF ClientType, client
<1>1. CASE Fail(p) \/ UNCHANGED client
  BY <1>1 DEF Fail
<1>2. CASE CallFails(p)
  BY <1>1, <1>2 DEF CallFails, Finish
<1>3. ASSUME NEW r \in Requests[p], Accept(p, r)
      PROVE  q # p => /\ request'[q] = request[q] /\ reply'[q] = reply[q]
                      /\ changed'[q] = changed[q] /\ repeat'[q] = repeat[q]
  BY <1>3 DEF Accept
<1>4. CASE Begin(p) \/ Reject(p)
  BY <1>1, <1>4 DEF Begin, Reject
<1>5. CASE Return(p)
  BY <1>5 DEF Return
<1>6. CASE GetForPut(p) \/ PlanUpdate(p)
  BY <1>6 DEF GetForPut, PlanUpdate, Read
<1>7. CASE PlanUnregister(p)
  BY <1>1, <1>7 DEF PlanUnregister
<1>8. CASE Calls(p)
  <2> USE DEF Read, Finish
  <2>1. CASE RunRegisterHost(p) \/ RunUnregisterHost(p) \/ RunUpdateHost(p)
    BY <1>1, <2>1 DEF RunRegisterHost, RunUnregisterHost, RunUpdateHost, CheckHostName,
       GetForRegister, Register, GetForUnregister, Deregister, GetForUpdate, GetHost
  <2>2. CASE CheckServiceName(p) \/ ListServices(p) \/ ScanService(p) \/ GetHostsForPut(p)
    BY <1>1, <2>2 DEF CheckServiceName, ListServices, ScanService, GetHostsForPut
  <2>3. CASE RunDependency(p)
    BY <1>1, <2>3 DEF RunDependency, GetForDependency, CheckPorts, GetToAppend, GetToRemove
  <2>4. CASE RunShared(p)
    BY <1>1, <2>4 DEF RunShared, ReadHost, Stamp, PutHost, PutService, ProbeKey, DeleteTree
  <2>5. QED
    BY <1>8, <2>1, <2>2, <2>3, <2>4 DEF Calls
<1>9. CASE Work(p)
  BY <1>4, <1>5, <1>6, <1>7, <1>8, <1>9, WorkCases DEF Plans
<1>10. CASE ~Work(p) /\ ~CallFails(p)
  BY <1>3, <1>10
<1>11. QED
  BY <1>2, <1>9, <1>10

(* Every step keeps the invariant. *)
LEMMA StepApplied ==
    ASSUME NEW owner, NEW home, Isolated(owner, home), Extends = {}, NoDependencyDropped,
           AppliedInv(owner, home), [Next]_vars
    PROVE  AppliedInv(owner, home)'
<1> CurrentInv(owner, home) /\ ApartInv(owner, home) /\ TypeInv /\ RunType /\ ClientType
  BY TypeInvParts DEF AppliedInv, CurrentInv, ApartInv
<1>1. CurrentInv(owner, home)'
  BY StepCurrent
<1>2. ASSUME NEW p \in Handlers, NEW q \in Handlers, q # p,
             Work(p) \/ CallFails(p) \/ (\E r \in Requests[p] : Accept(p, r))
      PROVE  Applied(q)'
  <2>1. /\ request'[q] = request[q] /\ reply'[q] = reply[q]
        /\ changed'[q] = changed[q] /\ repeat'[q] = repeat[q]
    BY <1>2, OthersClients
  <2>2. Applied(q)
    BY DEF AppliedInv, AllApplied
  <2>3. CASE Work(p)
    <3>1. run'[q] = run[q] /\ \A s \in Services : owner[s] = q => services'[s] = services[s]
      BY <1>2, <2>3, OthersKept, WritesOwnServices DEF ApartInv
    <3>2. \A h \in Hosts : home[h] = q => hosts'[h] = hosts[h] /\ catalog'[h] = catalog[h]
      BY <1>2, <2>3, WritesOwnHosts
    <3>3. QED
      BY <2>1, <2>2, <3>1, <3>2, AppliedFrame
  <2>4. CASE CallFails(p) \/ \E r \in Requests[p] : Accept(p, r)
    <3>1. run'[q] = run[q]
      BY <1>2, <2>4, EndOps, ContinueOps DEF CallFails, Accept
    <3>2. services' = services /\ hosts' = hosts /\ catalog' = catalog
      BY <2>4 DEF CallFails, Accept, store
    <3>3. QED
      BY <2>1, <2>2, <3>1, <3>2, AppliedFrame
  <2>5. QED
    BY <1>2, <2>3, <2>4
<1>3. CASE \E p \in Handlers : \/ \E r \in Requests[p] : Accept(p, r)
                               \/ Work(p)
                               \/ CallFails(p)
  <2>1. PICK p \in Handlers : Work(p) \/ CallFails(p) \/ (\E r \in Requests[p] : Accept(p, r))
    BY <1>3
  <2>2. Applied(p)'
    BY <2>1, WorkApplied, AcceptApplied, CallFailsApplied
  <2>3. AllApplied'
    BY <1>2, <2>1, <2>2 DEF AllApplied
  <2>4. QED
    BY <1>1, <2>3 DEF AppliedInv
<1>4. CASE Crash
  <2>1. UNCHANGED store /\ UNCHANGED <<request, changed, repeat>>
    BY <1>4 DEF Crash
  <2>2. ASSUME NEW q \in Handlers PROVE Applied(q)'
    <3>1. run'[q].pc = "idle" /\ Pending(run[q])' = {}
      BY <1>4 DEF Crash, Idle, At, Pending
    <3>2. reply'[q] = IF run[q].pc = "idle" THEN reply[q] ELSE "error"
      BY <1>4 DEF Crash
    <3>3. PICK r : r = request[q] /\ r = request'[q]
      BY <2>1
    <3>4. Brought(r)' = Brought(r) /\ Matches(r)' = Matches(r)
      BY <2>1, SameStore
    <3>5. Progress(q) /\ RepeatDone(q)
      BY DEF AppliedInv, AllApplied, Applied
    <3>6. Progress(q)'
      BY <2>1, <3>1, <3>2, <3>3, <3>4, <3>5 DEF Progress
    <3>7. RepeatDone(q)'
      BY <2>1, <3>1, <3>3, <3>4, <3>5 DEF RepeatDone
    <3>8. QED
      BY <3>6, <3>7 DEF Applied
  <2>3. QED
    BY <1>1, <2>2 DEF AppliedInv, AllApplied
<1>5. CASE Tick \/ UNCHANGED vars
  <2>1. UNCHANGED <<services, hosts, catalog, run, request, reply, changed, repeat>>
    BY <1>5 DEF Tick, vars, store, client
  <2>2. ASSUME NEW q \in Handlers PROVE Applied(q)'
    BY <2>1, AppliedFrame DEF AppliedInv, AllApplied
  <2>3. QED
    BY <1>1, <2>2 DEF AppliedInv, AllApplied
<1>6. QED
  BY <1>3, <1>4, <1>5 DEF Next

(* At the start nothing is asked for. *)
LEMMA InitApplied ==
    ASSUME NEW owner, NEW home, Isolated(owner, home), Init
    PROVE  AppliedInv(owner, home)
<1>1. ASSUME NEW p \in Handlers PROVE Applied(p)
  <2>1. /\ run[p].pc = "idle" /\ request[p] = None /\ reply[p] = "none" /\ repeat[p] = FALSE
    BY DEF Init, Idle, At
  <2>2. QED
    BY <2>1 DEF Applied, Progress, RepeatDone
<1>2. QED
  BY <1>1, InitCurrent DEF AppliedInv, AllApplied

(* A PUT like the one before writes nothing in this step. *)
LEMMA StepRepeat ==
    ASSUME NEW owner, NEW home, Isolated(owner, home), Extends = {}, NoDependencyDropped,
           AppliedInv(owner, home), [Next]_vars,
           NEW p \in Handlers, repeat[p], run[p].pc # "idle", run'[p] # run[p]
    PROVE  UNCHANGED store /\ ~changed'[p]
<1> TypeInv /\ RunType /\ ClientType
  BY TypeInvParts DEF AppliedInv, CurrentInv, ApartInv
<1>1. AppliedInv(owner, home)'
  BY StepApplied
<1>2. repeat'[p] => ~changed'[p]
  BY <1>1 DEF AppliedInv, AllApplied, Applied, RepeatDone
<1>3. ~(Tick \/ UNCHANGED vars)
  BY DEF Tick, vars
<1>4. CASE Crash
  <2>1. ~changed[p]
    BY DEF AppliedInv, AllApplied, Applied, RepeatDone
  <2>2. QED
    BY <1>4, <2>1 DEF Crash
<1>5. ASSUME NEW q \in Handlers,
             Work(q) \/ CallFails(q) \/ (\E r \in Requests[q] : Accept(q, r))
      PROVE  UNCHANGED store /\ ~changed'[p]
  <2>1. q = p
    BY <1>5, OthersKept, EndOps, ContinueOps DEF CallFails, Accept
  <2>2. Work(p) \/ CallFails(p)
    BY <1>5, <2>1 DEF Accept
  <2>3. ~changed'[p]
    BY <1>2, <2>2, OthersClients
  <2>4. CASE Calls(p)
    BY <2>3, <2>4, RepeatReads
  <2>5. CASE Begin(p) \/ Reject(p) \/ Return(p) \/ Plans(p) \/ CallFails(p)
    BY <2>3, <2>5
       DEF Begin, Reject, Return, Plans, GetForPut, PlanUpdate, PlanUnregister, ReadOnly, CallFails
  <2>6. QED
    BY <2>2, <2>4, <2>5, WorkCases
<1>6. QED
  BY <1>3, <1>4, <1>5 DEF Next

(* It is an invariant. *)
LEMMA AppliedInvariant ==
    ASSUME NEW CONSTANT owner, NEW CONSTANT home, Isolated(owner, home), Extends = {},
           NoDependencyDropped
    PROVE  Spec => []AppliedInv(owner, home)
<1>1. Init => AppliedInv(owner, home)
  BY InitApplied
<1>2. AppliedInv(owner, home) /\ [Next]_vars => AppliedInv(owner, home)'
  BY StepApplied
<1>3. QED
  BY <1>1, <1>2, PTL DEF Spec

-----------------------------------------------------------------------------
(* With every service and every host left to one handler, no host named    *)
(* twice by a PUT, no name that is another with something appended, and no *)
(* dependencies in a PUT where calls fail, what a request answered "ok"    *)
(* has brought about (Brought) is there, and no other handler undoes it:   *)
(* from whatever state an earlier request left when the process died or a  *)
(* call failed (IdempotentService, inventory.go:320, and the operations it *)
(* calls).  What UnregisterHost promises beyond that is in OkMeansAchieved.*)
THEOREM OkMeansBrought ==
    ASSUME NEW CONSTANT owner, NEW CONSTANT home, Isolated(owner, home), Extends = {},
           NoDependencyDropped
    PROVE  Spec => [](\A p \in Handlers : reply[p] = "ok" => Brought(request[p]))
<1>1. AppliedInv(owner, home) => \A p \in Handlers : reply[p] = "ok" => Brought(request[p])
  BY DEF AppliedInv, AllApplied, Applied, Progress
<1>2. QED
  BY <1>1, AppliedInvariant, PTL

(* Under the same conditions a PUT sent again after it was answered "ok"   *)
(* writes nothing and answers "not changed" (inventory_test.go:242-244):   *)
(* what it finds in the store is what it asks for, so its plan is empty.   *)
THEOREM RepeatedPutIsIdempotent ==
    ASSUME NEW CONSTANT owner, NEW CONSTANT home, Isolated(owner, home), Extends = {},
           NoDependencyDropped
    PROVE  Spec => RepeatedPutWritesNothing
<1> DEFINE Quiet == \A p \in Handlers :
                       repeat[p] /\ run[p].pc # "idle" /\ run'[p] # run[p]
                          => UNCHANGED store /\ ~changed'[p]
<1>1. AppliedInv(owner, home) /\ [Next]_vars => [Quiet]_vars
  BY StepRepeat
<1>2. QED
  BY <1>1, AppliedInvariant, PTL DEF Spec, RepeatedPutWritesNothing
=============================================================================
