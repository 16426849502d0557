--------------------------- MODULE InventoryProofs ---------------------------
(***************************************************************************)
(* The types of the inventory, and that every record of the store is       *)
(* valid, whatever races, crashes and failing calls there are.             *)
(***************************************************************************)
EXTENDS InventoryProperties, SequenceTheorems, FiniteSetTheorems, TLAPS

-----------------------------------------------------------------------------
(* What a handler holds at each control point, as a predicate on its local *)
(* state: the part of the inductive invariant that TypeOK lacks.           *)

OpKinds == {"RegisterService", "UnregisterService", "AddDependency",
            "RemoveDependency", "RegisterHost", "UnregisterHost", "UpdateHost",
            "Put", "PutParam", "DeleteService"}

(* the kinds of operation that reach a label *)
KindsAt(label) ==
    CASE label = "list"      -> {"RegisterService", "UnregisterService", "RegisterHost"}
      [] label = "scan"      -> {"UnregisterService"}
      [] label = "get"       -> {"AddDependency", "RegisterHost", "UnregisterHost", "UpdateHost", "Put"}
      [] label = "getHosts"  -> {"Put"}
      [] label = "readHosts" -> {"AddDependency", "Put"}
      [] label = "getHost"   -> {"UpdateHost"}
      [] label = "stamp"     -> {"RegisterService", "AddDependency", "RemoveDependency",
                                 "RegisterHost", "UnregisterHost", "UpdateHost", "PutParam"}
      [] label = "reget"     -> {"AddDependency", "RemoveDependency"}
      [] label = "putHost"   -> {"RegisterHost", "UpdateHost"}
      [] label = "put"       -> {"RegisterService", "AddDependency", "RemoveDependency",
                                 "RegisterHost", "UnregisterHost", "UpdateHost", "PutParam"}
      [] label = "register"  -> {"RegisterHost"}
      [] label = "deregister" -> {"UnregisterHost"}
      [] label = "probe"     -> {"UnregisterHost", "DeleteService"}
      [] label = "delete"    -> {"UnregisterHost", "DeleteService"}
      [] OTHER               -> {}

HoldsService(s) ==
    \/ s.pc \in {"getHost", "putHost", "put"}
    \/ s.pc \in {"getHosts", "readHosts"} /\ s.op.kind = "Put"
    \/ s.pc = "stamp" /\ s.op.kind \in {"RegisterService", "RegisterHost",
                                        "UnregisterHost", "UpdateHost"}

HoldsAttr(s) ==
    \/ s.pc = "putHost"
    \/ s.pc \in {"stamp", "put", "register"} /\ s.op.kind = "RegisterHost"
    \/ s.pc \in {"stamp", "put"} /\ s.op.kind = "UpdateHost"

Control(s) ==
    /\ s.pc \notin {"idle", "begin"} => s.op \in Op /\ s.op.kind \in KindsAt(s.pc)
    /\ HoldsService(s) => s.cur \in Service
    /\ HoldsAttr(s) => s.attr \in HostAttr
    /\ s.pc \in {"list", "get", "getHosts"} => s.found = <<>>
    /\ s.pc = "readHosts" => s.rest \in Seq(Hosts) /\ s.found \in Seq(NamedHost)
    /\ s.pc = "scan" => s.rest \in Seq(Services) /\ s.found \in Seq(Services)

GoodState == {s \in HandlerState : Control(s)}

TypeInv == TypeOK /\ run \in [Handlers -> GoodState]

-----------------------------------------------------------------------------
(* A handler between two operations holds nothing, so nothing can be ill-  *)
(* typed.                                                                  *)
LEMMA AtGood ==
    ASSUME NEW label \in {"idle", "begin"}, NEW ops \in SUBSET Op
    PROVE  At(label, ops) \in GoodState
<1> DEFINE s == At(label, ops)
<1>1. s = [pc |-> label, todo |-> ops, op |-> None, cur |-> None,
           ver |-> 0, attr |-> None, rest |-> <<>>, found |-> <<>>]
  BY DEF At
<1> HIDE DEF s
<1>2. s \in HandlerState
  BY <1>1 DEF HandlerState, Labels
<1>3. Control(s)
  BY <1>1 DEF Control, HoldsService, HoldsAttr
<1>4. QED
  BY <1>2, <1>3 DEF GoodState, s

(* In particular a handler that serves no request. *)
LEMMA IdleGood == Idle \in GoodState
  BY AtGood DEF Idle

-----------------------------------------------------------------------------
(* The functions of package model return values of the model's types. *)

(* model.NewService returns a service. *)
LEMMA NewServiceType ==
    ASSUME NEW protocol \in AnyProtocol
    PROVE  NewService(protocol) \in Service
  BY DEF NewService, Service

(* Appending a host name to the list of RegisterHost returns a service. *)
LEMMA AppendHostType ==
    ASSUME NEW svc \in Service, NEW h \in Hosts
    PROVE  AppendHost(svc, h) \in Service
<1>1. svc.hosts \in Seq(Hosts)
  BY DEF Service
<1>2. Append(svc.hosts, h) \in Seq(Hosts)
  BY <1>1, AppendProperties
<1>3. AppendHost(svc, h) = [svc EXCEPT !.hosts = Append(svc.hosts, h)]
  BY Zenon DEF AppendHost
<1>4. QED
  BY <1>2, <1>3 DEF Service

(* Cutting a listed name out of UnregisterHost's list returns a service. *)
LEMMA RemoveFirstHostType ==
    ASSUME NEW svc \in Service, NEW h \in Hosts, h \in Listed(svc)
    PROVE  RemoveFirstHost(svc, h) \in Service
<1> DEFINE hs == svc.hosts
           i == CHOOSE j \in DOMAIN hs : hs[j] = h /\ \A k \in DOMAIN hs : hs[k] = h => j <= k
           new == [j \in 1..(Len(hs) - 1) |-> IF j < i THEN hs[j] ELSE hs[j + 1]]
<1>1. hs \in Seq(Hosts) /\ Len(hs) \in Nat /\ DOMAIN hs = 1..Len(hs)
  BY DEF Service
<1>2. Len(hs) # 0
  BY <1>1 DEF Listed
<1> HIDE DEF i
<1>3. new \in [1..(Len(hs) - 1) -> Hosts]
  <2> SUFFICES ASSUME NEW j \in 1..(Len(hs) - 1)
               PROVE  hs[j] \in Hosts /\ hs[j + 1] \in Hosts
    OBVIOUS
  <2>1. j \in 1..Len(hs) /\ j + 1 \in 1..Len(hs)
    BY <1>1
  <2> QED
    BY <1>1, <2>1
<1>4. new \in Seq(Hosts)
  BY <1>1, <1>2, <1>3, SeqDef
<1>5. RemoveFirstHost(svc, h) = [svc EXCEPT !.hosts = new]
  BY Zenon DEF RemoveFirstHost, i, new, hs
<1> HIDE DEF new
<1>6. QED
  BY <1>4, <1>5 DEF Service

(* Service.AppendDependent returns a service. *)
LEMMA AppendDependentType ==
    ASSUME NEW svc \in Service, NEW dep \in Dependency
    PROVE  AppendDependent(svc, dep) \in Service
  BY DEF AppendDependent, Service

(* Service.RemoveDependent returns a service. *)
LEMMA RemoveDependentType ==
    ASSUME NEW svc \in Service, NEW name
    PROVE  RemoveDependent(svc, name) \in Service
  BY DEF RemoveDependent, Service

(* Host.Update returns the attributes of a host. *)
LEMMA UpdatedType ==
    ASSUME NEW old \in HostAttr, NEW new \in HostUpdate
    PROVE  Updated(old, new) \in HostAttr
  BY DEF Updated, HostAttr, HostUpdate

(* The elements of a sequence over S are members of S. *)
LEMMA ElementsType ==
    ASSUME NEW S, NEW s \in Seq(S)
    PROVE  Elements(s) \in SUBSET S
  BY DEF Elements

(* The record built from the parameter of a PUT is a service. *)
LEMMA ParamServiceType ==
    ASSUME NEW r \in PutOp
    PROVE  ParamService(r) \in Service
<1>1. r.hosts \in Seq(NamedHost) /\ r.deps \in Seq(Dependency) /\ r.protocol \in AnyProtocol
  BY DEF PutOp
<1>2. [i \in 1..Len(r.hosts) |-> r.hosts[i].name] \in Seq(Hosts)
  <2>1. Len(r.hosts) \in Nat /\ \A i \in 1..Len(r.hosts) : r.hosts[i] \in NamedHost
    BY <1>1
  <2>2. \A i \in 1..Len(r.hosts) : r.hosts[i].name \in Hosts
    BY <2>1 DEF NamedHost
  <2>3. QED
    BY <2>1, <2>2, IsASeq
<1>3. Elements(r.deps) \in SUBSET Dependency
  BY <1>1, ElementsType
<1>4. QED
  BY <1>1, <1>2, <1>3 DEF ParamService, Service

(* The plans of a PUT consist of operations. *)

(* The lists of the parameter of a PUT hold hosts and dependencies. *)
LEMMA PutParts ==
    ASSUME NEW r \in PutOp
    PROVE  /\ r.service \in Services
           /\ r.protocol \in AnyProtocol
           /\ \A i \in DOMAIN r.hosts : /\ i \in Nat
                                        /\ r.hosts[i].name \in Hosts
                                        /\ r.hosts[i].attr \in HostAttr
           /\ \A i \in DOMAIN r.deps : i \in Nat /\ r.deps[i] \in Dependency
<1>1. r.hosts \in Seq(NamedHost) /\ r.deps \in Seq(Dependency)
  BY DEF PutOp
<1>2. \A i \in DOMAIN r.hosts : i \in Nat /\ r.hosts[i] \in NamedHost
  BY <1>1
<1>3. \A i \in DOMAIN r.deps : i \in Nat /\ r.deps[i] \in Dependency
  BY <1>1
<1>4. QED
  BY <1>2, <1>3 DEF PutOp, NamedHost

(* What a PUT does for an unknown service is a set of operations. *)
LEMMA CreatePlanType ==
    ASSUME NEW r \in PutOp
    PROVE  CreatePlan(r) \in SUBSET Op
<1>1. [kind |-> "RegisterService", at |-> 0, service |-> r.service, protocol |-> r.protocol]
        \in RegisterServiceOp
  BY PutParts DEF RegisterServiceOp
<1>2. \A i \in DOMAIN r.deps :
        [kind |-> "AddDependency", at |-> i, service |-> r.service, dep |-> r.deps[i]]
          \in AddDependencyOp
  BY PutParts DEF AddDependencyOp
<1>3. \A i \in DOMAIN r.hosts :
        [kind |-> "RegisterHost", at |-> i, service |-> r.service,
         host |-> r.hosts[i].name, attr |-> r.hosts[i].attr] \in RegisterHostOp
  BY PutParts DEF RegisterHostOp
<1>4. QED
  BY <1>1, <1>2, <1>3 DEF CreatePlan, Op, Request

(* What a PUT does for a known service is a set of operations. *)
LEMMA UpdatePlanType ==
    ASSUME NEW r \in PutOp, NEW svc \in Service, NEW current \in Seq(NamedHost)
    PROVE  UpdatePlan(r, svc, current) \in SUBSET Op
<1>1. \A j \in DOMAIN current : j \in Nat /\ current[j].name \in Hosts
  <2>1. \A j \in DOMAIN current : j \in Nat /\ current[j] \in NamedHost
    OBVIOUS
  <2>2. QED
    BY <2>1 DEF NamedHost
<1>2. NewHosts(r, current) \in SUBSET RegisterHostOp
  BY PutParts DEF NewHosts, RegisterHostOp
<1>3. DelHosts(r, current) \in SUBSET UnregisterHostOp
  BY PutParts, <1>1 DEF DelHosts, UnregisterHostOp
<1>4. ModifiedHosts(r, current) \in SUBSET UpdateHostOp
  <2>1. HostAttr \subseteq HostUpdate
    BY DEF HostAttr, HostUpdate
  <2>2. QED
    BY PutParts, <1>1, <2>1 DEF ModifiedHosts, UpdateHostOp
<1>5. ServiceDiff(r, svc) \in SUBSET PutParamOp
  BY PutParts, ParamServiceType DEF ServiceDiff, PutParamOp
<1>6. QED
  BY <1>2, <1>3, <1>4, <1>5 DEF UpdatePlan, Op, Request

-----------------------------------------------------------------------------
(* TypeInv is inductive. *)

StoreType ==
    /\ services \in [Services -> Service \cup {None}]
    /\ hosts \in [Hosts -> HostAttr \cup {None}]
    /\ catalog \in [Hosts -> Machines \cup {None}]

ClientType ==
    /\ request \in [Handlers -> Request \cup {None}]
    /\ reply \in [Handlers -> {"none", "ok", "error"}]
    /\ changed \in [Handlers -> BOOLEAN]
    /\ repeat \in [Handlers -> BOOLEAN]

CounterType == clock \in Nat /\ accepted \in Nat /\ faults \in Nat

RunType == run \in [Handlers -> GoodState]

(* TypeInv, divided by the variables that the actions change together. *)
LEMMA TypeInvParts == TypeInv <=> StoreType /\ ClientType /\ CounterType /\ RunType
<1>1. RunType => run \in [Handlers -> HandlerState]
  BY DEF RunType, GoodState
<1>2. QED
  BY <1>1 DEF TypeInv, TypeOK, StoreType, ClientType, CounterType, RunType

(* The same for the next state. *)
LEMMA TypeInvParts2 == TypeInv' <=> StoreType' /\ ClientType' /\ CounterType' /\ RunType'
<1>1. RunType' => run' \in [Handlers -> HandlerState]
  BY DEF RunType, GoodState
<1>2. QED
  BY <1>1 DEF TypeInv, TypeOK, StoreType, ClientType, CounterType, RunType

(* A handler that goes to a good state keeps the handlers typed. *)
LEMMA GoType ==
    ASSUME RunType, NEW p \in Handlers, NEW s \in GoodState, Go(p, s)
    PROVE  RunType'
  BY DEF RunType, Go

(* The end of an operation keeps handlers and clients typed. *)
LEMMA FinishType ==
    ASSUME RunType, ClientType, NEW p \in Handlers, Finish(p)
    PROVE  RunType' /\ ClientType'
<1>1. run[p].todo \in SUBSET Op
  BY DEF RunType, GoodState, HandlerState
<1>2. QED
  BY <1>1, AtGood, GoType DEF Finish, Continue, ClientType, client

(* So does an operation that returns an error. *)
LEMMA FailType ==
    ASSUME RunType, ClientType, NEW p \in Handlers, Fail(p)
    PROVE  RunType' /\ ClientType'
  BY IdleGood, GoType DEF Fail, ClientType

(* So does a call after which the handler is in a good state. *)
LEMMA ReadType ==
    ASSUME RunType, ClientType, NEW p \in Handlers, NEW s \in GoodState, Read(p, s)
    PROVE  RunType' /\ ClientType'
  BY GoType DEF Read, ClientType, client

(* A step that only reads keeps the stores and the counters typed. *)
LEMMA ReadOnlyType ==
    ASSUME StoreType, CounterType, ReadOnly
    PROVE  StoreType' /\ CounterType'
  BY DEF StoreType, CounterType, ReadOnly, store, bounds

(* what the kind of an operation says of its other fields *)
LEMMA OpKind ==
    ASSUME NEW o \in Op
    PROVE  /\ o.kind \in OpKinds
           /\ o.service \in Services
           /\ o.kind = "RegisterService" => o \in RegisterServiceOp
           /\ o.kind = "AddDependency" => o \in AddDependencyOp
           /\ o.kind = "RemoveDependency" => o \in RemoveDependencyOp
           /\ o.kind = "RegisterHost" => o \in RegisterHostOp
           /\ o.kind = "UnregisterHost" => o \in UnregisterHostOp
           /\ o.kind = "UpdateHost" => o \in UpdateHostOp
           /\ o.kind = "Put" => o \in PutOp
           /\ o.kind = "PutParam" => o \in PutParamOp
<1> USE DEF RegisterServiceOp, UnregisterServiceOp, AddDependencyOp, RemoveDependencyOp,
            RegisterHostOp, UnregisterHostOp, UpdateHostOp, PutOp, PutParamOp, DeleteServiceOp
<1>1. o.kind \in OpKinds /\ o.service \in Services
  BY DEF Op, Request, OpKinds
<1>2. QED
  BY <1>1 DEF Op, Request

(* What is known of a handler in the midst of an operation. *)
LEMMA InHand ==
    ASSUME RunType, NEW p \in Handlers, run[p].pc \notin {"idle", "begin"}
    PROVE  /\ run[p].op \in Op
           /\ run[p].op.kind \in KindsAt(run[p].pc)
           /\ Target(p) \in Services
           /\ run[p] \in GoodState
           /\ run[p] \in HandlerState
<1>1. run[p] \in GoodState
  BY DEF RunType
<1>2. QED
  BY <1>1, OpKind DEF GoodState, Control, Target

(* Begin, Reject and Return keep the type invariant. *)
LEMMA BeginType ==
    ASSUME TypeInv, NEW p \in Handlers, Begin(p) \/ Reject(p) \/ Return(p)
    PROVE  TypeInv'
<1> USE TypeInvParts, TypeInvParts2
<1>1. CASE Begin(p)
  <2>1. PICK o \in First(run[p].todo) :
          Go(p, [At(FirstCall[o.kind], run[p].todo \ {o}) EXCEPT !.op = o])
    BY <1>1 DEF Begin
  <2> DEFINE label == FirstCall[o.kind]
             s == [At(label, run[p].todo \ {o}) EXCEPT !.op = o]
  <2>2. run[p].todo \in SUBSET Op /\ o \in Op
    BY DEF First, RunType, GoodState, HandlerState
  <2>3. label \in Labels /\ label \in {"list", "get", "stamp", "probe"} /\ o.kind \in KindsAt(label)
    BY <2>2, OpKind DEF OpKinds, FirstCall, Labels, KindsAt
  <2>4. label = "stamp" => o.kind \in {"RemoveDependency", "PutParam"}
    BY <2>2, OpKind DEF OpKinds, FirstCall
  <2> HIDE DEF label
  <2>5. s \in HandlerState
    <3>1. At(label, run[p].todo \ {o}) \in HandlerState
      BY <2>2, <2>3 DEF At, HandlerState
    <3>2. QED
      BY <2>2, <3>1 DEF HandlerState
  <2>6. s.pc = label /\ s.op = o /\ s.found = <<>>
    BY DEF At
  <2> HIDE DEF s
  <2>7. Control(s)
    BY <2>2, <2>3, <2>4, <2>6 DEF Control, HoldsService, HoldsAttr
  <2>8. RunType'
    BY <2>1, <2>5, <2>7, GoType DEF GoodState, s, label
  <2>9. QED
    BY <1>1, <2>8 DEF Begin, StoreType, ClientType, CounterType, store, client, bounds
<1>2. CASE Reject(p)
  BY <1>2, FailType DEF Reject, StoreType, CounterType, store, bounds
<1>3. CASE Return(p)
  BY <1>3, GoType, IdleGood DEF Return, StoreType, CounterType, ClientType, store, bounds
<1>4. QED
  BY <1>1, <1>2, <1>3

(* An action that answers an error, finishes the operation or moves on to  *)
(* a good state, and writes no store.                                      *)
LEMMA ReadStepType ==
    ASSUME TypeInv, NEW p \in Handlers, ReadOnly,
           Fail(p) \/ Finish(p) \/ \E s \in GoodState : Read(p, s)
    PROVE  TypeInv'
  BY TypeInvParts, TypeInvParts2, FailType, FinishType, ReadType, ReadOnlyType

(* So do the reading calls of RegisterHost. *)
LEMMA RegisterHostType ==
    ASSUME TypeInv, NEW p \in Handlers, CheckHostName(p) \/ GetForRegister(p)
    PROVE  TypeInv'
<1> USE TypeInvParts DEF In
<1>1. CASE CheckHostName(p)
  <2>1. [run[p] EXCEPT !.pc = "get"] \in GoodState
    BY <1>1, InHand DEF CheckHostName, GoodState, HandlerState, Labels, Control,
                        HoldsService, HoldsAttr, KindsAt
  <2>2. QED
    BY <1>1, <2>1, ReadStepType DEF CheckHostName
<1>2. CASE GetForRegister(p) /\ Current(p) # None
  <2> DEFINE new == AppendHost(Current(p), HostName(p))
             a == run[p].op.attr
  <2>1. /\ run[p] \in HandlerState /\ run[p].op \in Op
        /\ run[p].op.kind = "RegisterHost" /\ run[p].pc = "get" /\ Target(p) \in Services
    BY <1>2, InHand DEF GetForRegister
  <2>2. HostName(p) \in Hosts /\ a \in HostAttr
    BY <2>1, OpKind DEF RegisterHostOp, HostName
  <2>3. Current(p) \in Service
    BY <1>2, <2>1 DEF Current, StoreType
  <2>4. new \in Service
    BY <2>2, <2>3, AppendHostType
  <2> HIDE DEF new, a
  <2>5. [run[p] EXCEPT !.pc = "putHost", !.attr = a, !.cur = new] \in GoodState
    BY <2>1, <2>2, <2>4 DEF GoodState, HandlerState, Labels, Control,
                            HoldsService, HoldsAttr, KindsAt
  <2>6. QED
    BY <1>2, <2>5, ReadStepType DEF GetForRegister, new, a
<1>3. CASE GetForRegister(p) /\ Current(p) = None
  BY <1>3, ReadStepType DEF GetForRegister
<1>4. QED
  BY <1>1, <1>2, <1>3

(* The service record a handler reads is one. *)
LEMMA CurrentType ==
    ASSUME StoreType, RunType, NEW p \in Handlers, run[p].pc \notin {"idle", "begin"},
           Current(p) # None
    PROVE  Current(p) \in Service
  BY InHand DEF Current, StoreType

(* So does the reading call of UnregisterHost. *)
LEMMA UnregisterHostType ==
    ASSUME TypeInv, NEW p \in Handlers, GetForUnregister(p)
    PROVE  TypeInv'
<1> USE TypeInvParts DEF In
<1>1. /\ run[p] \in HandlerState /\ run[p].op \in Op
      /\ run[p].op.kind = "UnregisterHost" /\ run[p].pc = "get"
  BY InHand DEF GetForUnregister
<1>2. CASE IsListed(p)
  <2> DEFINE new == RemoveFirstHost(Current(p), HostName(p))
  <2>1. HostName(p) \in Hosts
    BY <1>1, OpKind DEF UnregisterHostOp, HostName
  <2>2. new \in Service
    BY <1>1, <1>2, <2>1, CurrentType, RemoveFirstHostType DEF IsListed
  <2> HIDE DEF new
  <2>3. [run[p] EXCEPT !.pc = "stamp", !.cur = new] \in GoodState
    BY <1>1, <2>2 DEF GoodState, HandlerState, Labels, Control,
                      HoldsService, HoldsAttr, KindsAt
  <2>4. QED
    BY <1>2, <2>3, ReadStepType DEF GetForUnregister, new
<1>3. CASE ~IsListed(p)
  BY <1>3, ReadStepType DEF GetForUnregister
<1>4. QED
  BY <1>2, <1>3

(* So do the reading calls of UpdateHost. *)
LEMMA UpdateHostType ==
    ASSUME TypeInv, NEW p \in Handlers, GetForUpdate(p) \/ GetHost(p)
    PROVE  TypeInv'
<1> USE TypeInvParts DEF In
<1>1. CASE GetForUpdate(p) /\ ~IsListed(p)
  BY <1>1, ReadStepType DEF GetForUpdate
<1>2. CASE GetForUpdate(p) /\ IsListed(p)
  <2>1. /\ run[p] \in HandlerState /\ run[p].op \in Op
        /\ run[p].op.kind = "UpdateHost" /\ run[p].pc = "get"
    BY <1>2, InHand DEF GetForUpdate
  <2>2. Current(p) \in Service
    BY <1>2, <2>1, CurrentType DEF IsListed
  <2>3. [run[p] EXCEPT !.pc = "getHost", !.cur = Current(p)] \in GoodState
    BY <2>1, <2>2 DEF GoodState, HandlerState, Labels, Control,
                      HoldsService, HoldsAttr, KindsAt
  <2>4. QED
    BY <1>2, <2>3, ReadStepType DEF GetForUpdate
<1>3. CASE GetHost(p)
  <2> DEFINE new == Updated(hosts[HostName(p)], run[p].op.attr)
             ok  == hosts[HostName(p)] # None /\ NewHostOK(new)
  <2>1. /\ run[p] \in GoodState /\ run[p] \in HandlerState /\ run[p].op \in Op
        /\ run[p].op.kind = "UpdateHost" /\ run[p].pc = "getHost"
    BY <1>3, InHand DEF GetHost
  <2>2. HostName(p) \in Hosts /\ run[p].op.attr \in HostUpdate
    BY <2>1, OpKind DEF UpdateHostOp, HostName
  <2>3. CASE ok
    <3>1. hosts[HostName(p)] \in HostAttr
      BY <2>2, <2>3 DEF StoreType
    <3>2. new \in HostAttr
      BY <2>2, <3>1, UpdatedType
    <3> HIDE DEF new
    <3>3. [run[p] EXCEPT !.pc = "stamp", !.attr = new] \in GoodState
      BY <2>1, <3>2 DEF GoodState, HandlerState, Labels, Control,
                        HoldsService, HoldsAttr, KindsAt
    <3>4. QED
      BY <1>3, <2>3, <3>3, ReadStepType DEF GetHost, new
  <2>4. CASE ~ok
    BY <1>3, <2>4, ReadStepType DEF GetHost
  <2>5. QED
    BY <2>3, <2>4
<1>4. QED
  BY <1>1, <1>2, <1>3

(* So do the listing calls of RegisterService and UnregisterService. *)
LEMMA ServiceType ==
    ASSUME TypeInv, NEW p \in Handlers, CheckServiceName(p) \/ ListServices(p)
    PROVE  TypeInv'
<1> USE TypeInvParts DEF In
<1>1. CASE CheckServiceName(p)
  <2> DEFINE new == NewService(run[p].op.protocol)
  <2>1. /\ run[p] \in HandlerState /\ run[p].op \in Op
        /\ run[p].op.kind = "RegisterService" /\ run[p].pc = "list"
    BY <1>1, InHand DEF CheckServiceName
  <2>2. new \in Service
    BY <2>1, OpKind, NewServiceType DEF RegisterServiceOp
  <2> HIDE DEF new
  <2>3. [run[p] EXCEPT !.pc = "stamp", !.cur = new] \in GoodState
    BY <2>1, <2>2 DEF GoodState, HandlerState, Labels, Control,
                      HoldsService, HoldsAttr, KindsAt
  <2>4. QED
    BY <1>1, <2>3, ReadStepType DEF CheckServiceName, new
<1>2. CASE ListServices(p)
  <2> DEFINE names == {s \in Services : services[s] # None}
  <2>1. PICK order \in [1..Cardinality(names) -> names] :
          Read(p, [run[p] EXCEPT !.pc = "scan", !.rest = order])
    BY <1>2 DEF ListServices
  <2>2. /\ run[p] \in HandlerState /\ run[p].op \in Op /\ run[p].found = <<>>
        /\ run[p].op.kind = "UnregisterService" /\ run[p].pc = "list"
    BY <1>2, InHand DEF ListServices, GoodState, Control
  <2>3. order \in Seq(Services)
    <3>1. Cardinality(names) \in Nat /\ names \subseteq Services
      BY ServicesFinite, FS_Subset, FS_CardinalityType
    <3> HIDE DEF names
    <3>2. \A n \in Nat : \A o \in [1..n -> Services] : o \in Seq(Services)
      OBVIOUS
    <3>3. QED
      BY <3>1, <3>2
  <2> HIDE DEF names
  <2>4. [run[p] EXCEPT !.pc = "scan", !.rest = order] \in GoodState
    <3> DEFINE s == [run[p] EXCEPT !.pc = "scan", !.rest = order]
    <3>1. s \in HandlerState
      BY <2>2, <2>3 DEF HandlerState, Labels
    <3>2. s.pc = "scan" /\ s.rest = order /\ s.found = <<>> /\ s.op = run[p].op
      BY <2>2 DEF HandlerState
    <3> HIDE DEF s
    <3>3. Control(s)
      BY <2>2, <2>3, <3>2 DEF Control, HoldsService, HoldsAttr, KindsAt
    <3>4. QED
      BY <3>1, <3>3 DEF GoodState, s
  <2>5. QED
    BY <1>2, <2>1, <2>4, ReadStepType DEF ListServices
<1>3. QED
  BY <1>1, <1>2

(* So do the scan of UnregisterService and the plan it ends with. *)
LEMMA UnregisterServiceType ==
    ASSUME TypeInv, NEW p \in Handlers, ScanService(p) \/ PlanUnregister(p)
    PROVE  TypeInv'
<1> USE TypeInvParts DEF In
<1>1. /\ run[p] \in HandlerState /\ run[p].op \in Op /\ Target(p) \in Services
      /\ run[p].op.kind = "UnregisterService" /\ run[p].pc = "scan"
      /\ run[p].rest \in Seq(Services) /\ run[p].found \in Seq(Services)
  BY InHand DEF ScanService, PlanUnregister, GoodState, Control
<1>2. CASE ScanService(p)
  <2> DEFINE s == Head(run[p].rest)
             seen == IF services[s] # None /\ RefersTo(services[s], Target(p))
                     THEN Append(run[p].found, s) ELSE run[p].found
             new == [run[p] EXCEPT !.rest = Tail(@), !.found = seen]
  <2>1. s \in Services /\ Tail(run[p].rest) \in Seq(Services)
    BY <1>1, <1>2 DEF ScanService
  <2>2. seen \in Seq(Services)
    BY <1>1, <2>1
  <2>3. Read(p, new)
    BY <1>2 DEF ScanService
  <2> HIDE DEF seen
  <2>4. new \in GoodState
    BY <1>1, <2>1, <2>2 DEF GoodState, HandlerState, Labels, Control,
                            HoldsService, HoldsAttr, KindsAt
  <2>5. QED
    BY <1>2, <2>3, <2>4, ReadStepType DEF ScanService
<1>3. CASE PlanUnregister(p)
  <2> DEFINE f == run[p].found
             plan == {[kind |-> "RemoveDependency", at |-> i, service |-> f[i],
                       name |-> Target(p)] : i \in DOMAIN f}
                     \cup {[kind |-> "DeleteService", at |-> 0, service |-> Target(p)]}
  <2>1. \A i \in DOMAIN f : i \in Nat /\ f[i] \in Services
    BY <1>1
  <2>2. plan \in SUBSET Op
    BY <1>1, <2>1 DEF Op, Request, RemoveDependencyOp, DeleteServiceOp
  <2>3. Read(p, At("begin", plan))
    BY <1>3 DEF PlanUnregister, Continue, Read
  <2> HIDE DEF plan
  <2>4. At("begin", plan) \in GoodState
    BY <2>2, AtGood
  <2>5. QED
    BY <1>3, <2>3, <2>4, ReadStepType DEF PlanUnregister
<1>4. QED
  BY <1>2, <1>3

(* A handler that begins to read hosts by their names (SelectHostsOfService). *)
LEMMA StartReading ==
    ASSUME NEW old \in HandlerState, old.op \in Op, old.found = <<>>,
           old.op.kind \in {"AddDependency", "Put"},
           old.op.kind = "Put" => old.cur \in Service,
           NEW names \in Seq(Hosts)
    PROVE  [old EXCEPT !.pc = "readHosts", !.rest = names] \in GoodState
<1> DEFINE s == [old EXCEPT !.pc = "readHosts", !.rest = names]
<1>1. s \in HandlerState
  BY DEF HandlerState, Labels
<1>2. /\ s.pc = "readHosts" /\ s.rest = names /\ s.found = <<>>
      /\ s.op = old.op /\ s.cur = old.cur
  BY DEF HandlerState
<1> HIDE DEF s
<1>3. Control(s)
  BY <1>2 DEF Control, HoldsService, HoldsAttr, KindsAt
<1>4. QED
  BY <1>1, <1>3 DEF GoodState, s

(* So do the reading calls of the operations on dependencies. *)
LEMMA DependencyType ==
    ASSUME TypeInv, NEW p \in Handlers,
           GetForDependency(p) \/ CheckPorts(p) \/ GetToAppend(p) \/ GetToRemove(p)
    PROVE  TypeInv'
<1> USE TypeInvParts DEF In
<1>1. CASE GetForDependency(p)
  <2>1. CASE Current(p) # None
    <3>1. /\ run[p] \in HandlerState /\ run[p].op \in Op /\ run[p].found = <<>>
          /\ run[p].op.kind = "AddDependency" /\ run[p].pc = "get"
      BY <1>1, InHand DEF GetForDependency, GoodState, Control
    <3>2. Current(p).hosts \in Seq(Hosts)
      BY <2>1, <3>1, CurrentType DEF Service
    <3>3. [run[p] EXCEPT !.pc = "readHosts", !.rest = Current(p).hosts] \in GoodState
      BY <3>1, <3>2, StartReading
    <3>4. QED
      BY <1>1, <2>1, <3>3, ReadStepType DEF GetForDependency
  <2>2. CASE Current(p) = None
    BY <1>1, <2>2, ReadStepType DEF GetForDependency
  <2>3. QED
    BY <2>1, <2>2
<1>2. CASE CheckPorts(p)
  <2>1. /\ run[p] \in HandlerState /\ run[p].op \in Op
        /\ run[p].op.kind = "AddDependency" /\ run[p].pc = "readHosts"
    BY <1>2, InHand DEF CheckPorts
  <2>2. [run[p] EXCEPT !.pc = "stamp"] \in GoodState
    BY <2>1 DEF GoodState, HandlerState, Labels, Control, HoldsService, HoldsAttr, KindsAt
  <2>3. Fail(p) \/ Read(p, [run[p] EXCEPT !.pc = "stamp"])
    BY <1>2, Zenon DEF CheckPorts
  <2>4. QED
    BY <1>2, <2>2, <2>3, ReadStepType DEF CheckPorts
<1>3. CASE GetToAppend(p)
  <2> DEFINE dep == run[p].op.dep
             new == AppendDependent(Current(p), dep)
             ok  == Current(p) # None /\ CanAppendDependent(Current(p), dep)
  <2>1. /\ run[p] \in HandlerState /\ run[p].op \in Op
        /\ run[p].op.kind = "AddDependency" /\ run[p].pc = "reget"
    BY <1>3, InHand DEF GetToAppend
  <2>2. CASE ok
    <3>1. dep \in Dependency
      BY <2>1, OpKind DEF AddDependencyOp
    <3>2. new \in Service
      BY <2>1, <2>2, <3>1, CurrentType, AppendDependentType
    <3> HIDE DEF new
    <3>3. [run[p] EXCEPT !.pc = "put", !.cur = new] \in GoodState
      BY <2>1, <3>2 DEF GoodState, HandlerState, Labels, Control,
                        HoldsService, HoldsAttr, KindsAt
    <3>4. QED
      BY <1>3, <2>2, <3>3, ReadStepType DEF GetToAppend, new
  <2>3. CASE ~ok
    BY <1>3, <2>3, ReadStepType DEF GetToAppend
  <2>4. QED
    BY <2>2, <2>3
<1>4. CASE GetToRemove(p)
  <2> DEFINE new == RemoveDependent(Current(p), run[p].op.name)
  <2>1. /\ run[p] \in HandlerState /\ run[p].op \in Op
        /\ run[p].op.kind = "RemoveDependency" /\ run[p].pc = "reget"
    BY <1>4, InHand DEF GetToRemove
  <2>2. CASE Current(p) # None
    <3>1. new \in Service
      BY <2>1, <2>2, CurrentType, RemoveDependentType
    <3> HIDE DEF new
    <3>2. [run[p] EXCEPT !.pc = "put", !.cur = new] \in GoodState
      BY <2>1, <3>1 DEF GoodState, HandlerState, Labels, Control,
                        HoldsService, HoldsAttr, KindsAt
    <3>3. QED
      BY <1>4, <2>2, <3>2, ReadStepType DEF GetToRemove, new
  <2>3. CASE Current(p) = None
    BY <1>4, <2>3, ReadStepType DEF GetToRemove
  <2>4. QED
    BY <2>2, <2>3
<1>5. QED
  BY <1>1, <1>2, <1>3, <1>4

(* So do the reading calls of IdempotentService and its plans. *)
LEMMA PutType ==
    ASSUME TypeInv, NEW p \in Handlers, GetForPut(p) \/ GetHostsForPut(p) \/ PlanUpdate(p)
    PROVE  TypeInv'
<1> USE TypeInvParts, TypeInvParts2 DEF In
<1>1. CASE GetForPut(p) /\ Current(p) = None
  <2>1. run[p].op \in PutOp
    BY <1>1, InHand, OpKind DEF GetForPut
  <2>2. At("begin", CreatePlan(run[p].op)) \in GoodState
    BY <2>1, CreatePlanType, AtGood
  <2>3. RunType'
    BY <1>1, <2>2, GoType DEF GetForPut, Continue
  <2>4. QED
    BY <1>1, <2>3, ReadOnlyType DEF GetForPut, ClientType
<1>2. CASE GetForPut(p) /\ Current(p) # None
  <2>1. /\ run[p] \in HandlerState /\ run[p].op \in Op /\ run[p].found = <<>>
        /\ run[p].op.kind = "Put" /\ run[p].pc = "get"
    BY <1>2, InHand DEF GetForPut, GoodState, Control
  <2>2. Current(p) \in Service
    BY <1>2, <2>1, CurrentType
  <2>3. [run[p] EXCEPT !.pc = "getHosts", !.cur = Current(p)] \in GoodState
    BY <2>1, <2>2 DEF GoodState, HandlerState, Labels, Control,
                      HoldsService, HoldsAttr, KindsAt
  <2>4. QED
    BY <1>2, <2>3, ReadStepType DEF GetForPut
<1>3. CASE GetHostsForPut(p) /\ Current(p) = None
  BY <1>3, ReadStepType DEF GetHostsForPut
<1>4. CASE GetHostsForPut(p) /\ Current(p) # None
  <2>1. /\ run[p] \in HandlerState /\ run[p].op \in Op /\ run[p].found = <<>>
        /\ run[p].op.kind = "Put" /\ run[p].pc = "getHosts" /\ run[p].cur \in Service
    BY <1>4, InHand DEF GetHostsForPut, GoodState, Control, HoldsService
  <2>2. Current(p).hosts \in Seq(Hosts)
    BY <1>4, <2>1, CurrentType DEF Service
  <2>3. [run[p] EXCEPT !.pc = "readHosts", !.rest = Current(p).hosts] \in GoodState
    BY <2>1, <2>2, StartReading
  <2>4. QED
    BY <1>4, <2>3, ReadStepType DEF GetHostsForPut
<1>5. CASE PlanUpdate(p)
  <2> DEFINE plan == UpdatePlan(run[p].op, run[p].cur, run[p].found)
  <2>1. /\ run[p].op \in PutOp /\ run[p].cur \in Service
        /\ run[p].found \in Seq(NamedHost)
    BY <1>5, InHand, OpKind DEF PlanUpdate, GoodState, Control, HoldsService
  <2>2. plan \in SUBSET Op
    BY <2>1, UpdatePlanType
  <2>3. Continue(p, plan) /\ changed' = [changed EXCEPT ![p] = plan # {}]
    BY <1>5 DEF PlanUpdate
  <2> HIDE DEF plan
  <2>4. RunType'
    BY <2>2, <2>3, AtGood, GoType DEF Continue
  <2>5. QED
    BY <1>5, <2>3, <2>4, ReadOnlyType DEF PlanUpdate, ClientType
<1>6. QED
  BY <1>1, <1>2, <1>3, <1>4, <1>5

(* So do the calls that several operations share: a host read, a version   *)
(* drawn, the probe before a deletion.                                     *)
LEMMA SharedReadType ==
    ASSUME TypeInv, NEW p \in Handlers, ReadHost(p) \/ Stamp(p) \/ ProbeKey(p)
    PROVE  TypeInv'
<1> USE TypeInvParts DEF In
<1>1. CASE ReadHost(p)
  <2> DEFINE h == Head(run[p].rest)
             seen == IF hosts[h] # None
                     THEN Append(run[p].found, [name |-> h, attr |-> hosts[h]])
                     ELSE run[p].found
             s == [run[p] EXCEPT !.rest = Tail(@), !.found = seen]
  <2>1. /\ run[p] \in HandlerState /\ run[p].op \in Op /\ run[p].pc = "readHosts"
        /\ run[p].op.kind \in {"AddDependency", "Put"}
        /\ run[p].rest \in Seq(Hosts) /\ run[p].found \in Seq(NamedHost)
        /\ run[p].op.kind = "Put" => run[p].cur \in Service
    BY <1>1, InHand DEF ReadHost, GoodState, Control, HoldsService
  <2>2. h \in Hosts /\ Tail(run[p].rest) \in Seq(Hosts)
    BY <1>1, <2>1 DEF ReadHost
  <2>3. seen \in Seq(NamedHost)
    <3>1. CASE hosts[h] # None
      <4>1. [name |-> h, attr |-> hosts[h]] \in NamedHost
        BY <2>2, <3>1 DEF StoreType, NamedHost
      <4>2. QED
        BY <2>1, <3>1, <4>1
    <3>2. QED
      BY <2>1, <3>1
  <2>4. Read(p, s)
    BY <1>1 DEF ReadHost
  <2> HIDE DEF seen
  <2>5. s \in GoodState
    <3>1. s \in HandlerState
      BY <2>1, <2>2, <2>3 DEF HandlerState
    <3>2. /\ s.pc = "readHosts" /\ s.rest = Tail(run[p].rest) /\ s.found = seen
          /\ s.op = run[p].op /\ s.cur = run[p].cur
      BY <2>1 DEF HandlerState
    <3> HIDE DEF s
    <3>3. Control(s)
      BY <2>1, <2>2, <2>3, <3>2 DEF Control, HoldsService, HoldsAttr, KindsAt
    <3>4. QED
      BY <3>1, <3>3 DEF GoodState
  <2>6. QED
    BY <1>1, <2>4, <2>5, ReadStepType DEF ReadHost
<1>2. CASE Stamp(p)
  <2> DEFINE kind  == run[p].op.kind
             label == AfterStamp[kind]
             cur   == IF kind = "PutParam" THEN run[p].op.record ELSE run[p].cur
             s     == [run[p] EXCEPT !.pc = label, !.ver = clock, !.cur = cur]
  <2>1. /\ run[p] \in HandlerState /\ run[p].op \in Op /\ run[p].pc = "stamp"
        /\ kind \in KindsAt("stamp") /\ Control(run[p])
    BY <1>2, InHand DEF Stamp, GoodState
  <2>2. /\ kind \in {"RegisterService", "RegisterHost", "UnregisterHost", "UpdateHost"}
             => run[p].cur \in Service
        /\ kind \in {"RegisterHost", "UpdateHost"} => run[p].attr \in HostAttr
    BY <2>1 DEF Control, HoldsService, HoldsAttr
  <2>3. kind = "PutParam" => cur \in Service
    BY <2>1, OpKind DEF PutParamOp
  <2>4. /\ label \in {"put", "reget", "putHost"} /\ kind \in KindsAt(label)
        /\ label = "put" => kind \in {"RegisterService", "RegisterHost",
                                      "UnregisterHost", "PutParam"}
        /\ label = "putHost" => kind = "UpdateHost"
    BY <2>1 DEF KindsAt, AfterStamp
  <2>5. cur \in Service \cup {None} /\ (label \in {"put", "putHost"} => cur \in Service)
    BY <2>1, <2>2, <2>3, <2>4 DEF HandlerState
  <2>6. Read(p, s)
    BY <1>2 DEF Stamp
  <2>7. s \in GoodState
    <3> HIDE DEF label, cur
    <3>1. s \in HandlerState
      BY <2>1, <2>4, <2>5 DEF HandlerState, Labels, CounterType
    <3>2. s.pc = label /\ s.op = run[p].op /\ s.cur = cur /\ s.attr = run[p].attr
      BY <2>1 DEF HandlerState
    <3> HIDE DEF s
    <3>3. s.op.kind = kind
      BY <3>2
    <3> HIDE DEF kind
    <3>4. Control(s)
      BY <2>1, <2>2, <2>4, <2>5, <3>2, <3>3 DEF Control, HoldsService, HoldsAttr
    <3>5. QED
      BY <3>1, <3>4 DEF GoodState
  <2>8. QED
    BY <1>2, <2>6, <2>7, ReadStepType DEF Stamp
<1>3. CASE ProbeKey(p)
  <2>1. /\ run[p] \in HandlerState /\ run[p].op \in Op
        /\ run[p].op.kind \in {"UnregisterHost", "DeleteService"} /\ run[p].pc = "probe"
    BY <1>3, InHand DEF ProbeKey
  <2>2. [run[p] EXCEPT !.pc = "delete"] \in GoodState
    BY <2>1 DEF GoodState, HandlerState, Labels, Control, HoldsService, HoldsAttr, KindsAt
  <2>3. Finish(p) \/ Read(p, [run[p] EXCEPT !.pc = "delete"])
    BY <1>3, Zenon DEF ProbeKey
  <2>4. QED
    BY <1>3, <2>2, <2>3, ReadStepType DEF ProbeKey
<1>4. QED
  BY <1>1, <1>2, <1>3

(* So does the write of a host: the attributes written are typed. *)
LEMMA PutHostType ==
    ASSUME TypeInv, NEW p \in Handlers, PutHost(p)
    PROVE  TypeInv'
<1> USE TypeInvParts, TypeInvParts2 DEF In
<1> DEFINE kind  == run[p].op.kind
           label == IF kind = "RegisterHost" THEN "stamp" ELSE "put"
           s     == [run[p] EXCEPT !.pc = label]
<1>1. /\ run[p] \in HandlerState /\ run[p].op \in Op /\ run[p].pc = "putHost"
      /\ kind \in {"RegisterHost", "UpdateHost"}
      /\ run[p].cur \in Service /\ run[p].attr \in HostAttr
  BY InHand DEF PutHost, GoodState, Control, HoldsService, HoldsAttr
<1>2. HostName(p) \in Hosts
  BY <1>1, OpKind DEF HostName, RegisterHostOp, UpdateHostOp
<1>3. StoreType'
  BY <1>1, <1>2 DEF PutHost, StoreType
<1>4. Go(p, s)
  BY DEF PutHost
<1>5. s \in GoodState
  BY <1>1 DEF GoodState, HandlerState, Labels, Control, HoldsService, HoldsAttr, KindsAt
<1>6. RunType'
  BY <1>4, <1>5, GoType
<1>7. QED
  BY <1>3, <1>6 DEF PutHost, ClientType, CounterType, client, bounds

(* So does the write of a service: the record written is typed. *)
LEMMA PutServiceType ==
    ASSUME TypeInv, NEW p \in Handlers, PutService(p)
    PROVE  TypeInv'
<1> USE TypeInvParts, TypeInvParts2
<1> DEFINE kind  == run[p].op.kind
           label == AfterPut(kind)
           s     == [run[p] EXCEPT !.pc = label]
           new   == [run[p].cur EXCEPT !.version = run[p].ver]
<1>1. /\ run[p] \in HandlerState /\ run[p].op \in Op /\ run[p].pc = "put"
      /\ Target(p) \in Services /\ run[p].cur \in Service
      /\ kind = "RegisterHost" => run[p].attr \in HostAttr
  BY InHand DEF PutService, GoodState, Control, HoldsService, HoldsAttr
<1>2. StoreType'
  <2>1. new \in Service
    BY <1>1 DEF HandlerState, Service
  <2> HIDE DEF new
  <2>2. services' = [services EXCEPT ![Target(p)] = new] /\ UNCHANGED <<hosts, catalog>>
    BY DEF PutService, new
  <2>3. QED
    BY <1>1, <2>1, <2>2 DEF StoreType
<1>3. CounterType'
  BY DEF PutService, CounterType, bounds
<1>4. CASE label # "begin"
  <2>1. Read(p, s)
    BY <1>4 DEF PutService
  <2>2. /\ label \in {"register", "deregister", "probe"} /\ kind \in KindsAt(label)
        /\ label = "register" => kind = "RegisterHost"
    BY <1>4 DEF AfterPut, KindsAt
  <2>3. s \in GoodState
    <3> HIDE DEF label
    <3>1. s \in HandlerState
      BY <1>1, <2>2 DEF HandlerState, Labels
    <3>2. s.pc = label /\ s.op = run[p].op /\ s.attr = run[p].attr
      BY <1>1 DEF HandlerState
    <3> HIDE DEF s
    <3>3. Control(s)
      BY <1>1, <2>2, <3>2 DEF Control, HoldsService, HoldsAttr
    <3>4. QED
      BY <3>1, <3>3 DEF GoodState
  <2>4. QED
    BY <1>2, <1>3, <2>1, <2>3, ReadType
<1>5. CASE label = "begin"
  <2>1. Finish(p)
    BY <1>5 DEF PutService
  <2>2. QED
    BY <1>2, <1>3, <2>1, FinishType
<1>6. QED
  BY <1>4, <1>5

(* Writes to the catalog, and the deletions. *)
LEMMA RemovalType ==
    ASSUME TypeInv, NEW p \in Handlers, Register(p) \/ Deregister(p) \/ DeleteTree(p)
    PROVE  TypeInv'
<1> USE TypeInvParts, TypeInvParts2 DEF In
<1>1. CASE Register(p)
  <2>1. run[p].attr \in HostAttr
    BY <1>1, InHand DEF Register, GoodState, Control, HoldsAttr
  <2>2. run[p].attr.ingress.machine \in Machines
    BY <2>1 DEF HostAttr, Address
  <2>3. StoreType'
    BY <1>1, <2>2 DEF Register, StoreType
  <2>4. CounterType'
    BY <1>1 DEF Register, CounterType, bounds
  <2>5. QED
    BY <1>1, <2>3, <2>4, FinishType DEF Register
<1>2. CASE Deregister(p)
  <2>1. /\ run[p] \in HandlerState /\ run[p].op \in Op
        /\ run[p].op.kind = "UnregisterHost" /\ run[p].pc = "deregister"
    BY <1>2, InHand DEF Deregister
  <2>2. [run[p] EXCEPT !.pc = "probe"] \in GoodState
    BY <2>1 DEF GoodState, HandlerState, Labels, Control, HoldsService, HoldsAttr, KindsAt
  <2>3. StoreType'
    BY <1>2 DEF Deregister, StoreType
  <2>4. RunType'
    BY <1>2, <2>2, GoType DEF Deregister
  <2>5. QED
    BY <1>2, <2>3, <2>4 DEF Deregister, ClientType, CounterType, client, bounds
<1>3. CASE DeleteTree(p)
  <2>1. StoreType'
    BY <1>3 DEF DeleteTree, StoreType
  <2>2. CounterType'
    BY <1>3 DEF DeleteTree, CounterType, bounds
  <2>3. QED
    BY <1>3, <2>1, <2>2, FinishType DEF DeleteTree
<1>4. QED
  BY <1>1, <1>2, <1>3

(* Every step of a handler keeps the type invariant. *)
LEMMA WorkType ==
    ASSUME TypeInv, NEW p \in Handlers, Work(p)
    PROVE  TypeInv'
  BY BeginType, RegisterHostType, UnregisterHostType, UpdateHostType, ServiceType,
     UnregisterServiceType, DependencyType, PutType, SharedReadType, PutHostType,
     PutServiceType, RemovalType
  DEF Work, RunRegisterHost, RunUnregisterHost, RunUpdateHost, RunService, RunDependency,
      RunPut, RunShared

(* So does the arrival of a request. *)
LEMMA AcceptType ==
    ASSUME TypeInv, NEW p \in Handlers, NEW r \in Requests[p], Accept(p, r)
    PROVE  TypeInv'
<1> USE TypeInvParts, TypeInvParts2
<1>1. r \in Request /\ {r} \in SUBSET Op
  BY InventoryAssumption DEF Op
<1>2. RunType'
  BY <1>1, AtGood, GoType DEF Accept, Continue
<1>3. StoreType'
  BY DEF Accept, StoreType, store
<1>4. ClientType'
  <2>1. request' \in [Handlers -> Request \cup {None}]
    BY <1>1 DEF Accept, ClientType
  <2>2. reply' \in [Handlers -> {"none", "ok", "error"}] /\ changed' \in [Handlers -> BOOLEAN]
    BY DEF Accept, ClientType
  <2>3. repeat' \in [Handlers -> BOOLEAN]
    <3> DEFINE again == r.kind = "Put" /\ r = request[p] /\ (reply[p] = "ok" \/ repeat[p])
    <3>1. repeat' = [repeat EXCEPT ![p] = again]
      BY DEF Accept
    <3>2. again \in BOOLEAN
      OBVIOUS
    <3> HIDE DEF again
    <3>3. QED
      BY <3>1, <3>2 DEF ClientType
  <2>4. QED
    BY <2>1, <2>2, <2>3 DEF ClientType
<1>5. CounterType'
  BY DEF Accept, CounterType
<1>6. QED
  BY <1>2, <1>3, <1>4, <1>5

(* Failing calls, crashes and the passing of time. *)
LEMMA EnvironmentType ==
    ASSUME TypeInv, (\E p \in Handlers : CallFails(p)) \/ Crash \/ Tick
    PROVE  TypeInv'
<1> USE TypeInvParts, TypeInvParts2
<1>1. ASSUME NEW p \in Handlers, CallFails(p) PROVE TypeInv'
  <2>1. StoreType' /\ CounterType'
    BY <1>1 DEF CallFails, StoreType, CounterType, store
  <2>2. Fail(p) \/ Finish(p)
    BY <1>1 DEF CallFails
  <2>3. QED
    BY <2>1, <2>2, FailType, FinishType
<1>2. CASE Crash
  <2>1. RunType'
    BY <1>2, IdleGood DEF Crash, RunType
  <2>2. QED
    BY <1>2, <2>1 DEF Crash, StoreType, ClientType, CounterType, store
<1>3. CASE Tick
  BY <1>3 DEF Tick, StoreType, ClientType, CounterType, RunType, store, client, bounds
<1>4. QED
  BY <1>1, <1>2, <1>3

(* The type invariant holds at the start. *)
LEMMA InitType == Init => TypeInv
<1> SUFFICES ASSUME Init PROVE TypeInv
  OBVIOUS
<1>1. StoreType
  <2>1. \A h \in Hosts : InitHosts[h] # None => InitHosts[h].ingress.machine \in Machines
    BY InventoryAssumption DEF HostAttr, Address
  <2>2. QED
    BY <2>1, InventoryAssumption DEF Init, StoreType
<1>2. ClientType /\ CounterType
  BY DEF Init, ClientType, CounterType
<1>3. RunType
  BY IdleGood DEF Init, RunType
<1>4. QED
  BY <1>1, <1>2, <1>3, TypeInvParts

(* The type invariant is inductive. *)
LEMMA StepType == TypeInv /\ [Next]_vars => TypeInv'
<1> SUFFICES ASSUME TypeInv, [Next]_vars PROVE TypeInv'
  OBVIOUS
<1>1. CASE Next
  BY <1>1, WorkType, AcceptType, EnvironmentType DEF Next
<1>2. CASE UNCHANGED vars
  BY <1>2, TypeInvParts, TypeInvParts2
     DEF vars, store, client, bounds, StoreType, ClientType, CounterType, RunType
<1>3. QED
  BY <1>1, <1>2

(* The inventory's records, and what a handler holds of them, keep their   *)
(* types in every behaviour: any number of handlers, any requests, crashes *)
(* and failing calls.                                                      *)
THEOREM TypeCorrect == Spec => []TypeOK
<1>1. TypeInv => TypeOK
  BY DEF TypeInv
<1>2. QED
  BY InitType, StepType, <1>1, PTL DEF Spec

-----------------------------------------------------------------------------
(* No malformed record is stored.  StoredValid is not inductive: a write   *)
(* stores what its handler carries, which was read or checked several      *)
(* steps before.  HeldValid says of the local state of a handler what      *)
(* StoredValid says of the store.                                          *)

(* What an operation carries has passed the checks it begins with. *)
ValidOp(o) == Valid(o) /\ (o.kind = "PutParam" => ValidRecord(o.record))

HeldValid(s) ==
    /\ HoldsService(s) => ValidRecord(s.cur)
    /\ HoldsAttr(s) => NewHostOK(s.attr)
    /\ s.pc \notin {"idle", "begin"} => ValidOp(s.op)
    /\ \A o \in s.todo : o.kind = "PutParam" => ValidRecord(o.record)

AllHeldValid == \A p \in Handlers : HeldValid(run[p])

ValidInv == TypeInv /\ StoredValid /\ AllHeldValid

-----------------------------------------------------------------------------
(* Service.NewService builds a valid record from a parameter that passed   *)
(* Service.Validate.                                                       *)
LEMMA ParamServiceValid ==
    ASSUME NEW r \in PutOp, Valid(r)
    PROVE  ValidRecord(ParamService(r))
<1>1. r.kind = "Put" /\ r.deps \in Seq(Dependency)
  BY DEF PutOp
<1>2. ValidService(r.protocol, r.deps)
  BY <1>1 DEF Valid
<1>3. ASSUME NEW d \in Elements(r.deps) PROVE d.port # 0
  BY <1>2 DEF ValidService, Elements
<1>4. ASSUME NEW d \in Elements(r.deps), NEW e \in Elements(r.deps), d # e
      PROVE  d.port # e.port /\ d.name # e.name
  BY <1>2, <1>4 DEF ValidService, Elements
<1>5. QED
  BY <1>2, <1>3, <1>4 DEF ParamService, ValidRecord, ValidService

(* AppendDependent keeps a record valid: it refuses a port or a name the   *)
(* record has already, and the port 0.                                     *)
LEMMA AppendDependentValid ==
    ASSUME NEW svc \in Service, NEW dep \in Dependency, ValidRecord(svc),
           CanAppendDependent(svc, dep)
    PROVE  ValidRecord(AppendDependent(svc, dep))
<1> DEFINE new == AppendDependent(svc, dep)
<1>1. new.protocol = svc.protocol /\ new.deps = svc.deps \cup {dep}
  BY DEF AppendDependent, Service
<1> HIDE DEF new
<1>2. QED
  BY <1>1 DEF ValidRecord, CanAppendDependent, new

(* RemoveDependent keeps a record valid. *)
LEMMA RemoveDependentValid ==
    ASSUME NEW svc \in Service, NEW name, ValidRecord(svc)
    PROVE  ValidRecord(RemoveDependent(svc, name))
  BY DEF RemoveDependent, Service, ValidRecord

(* The host list plays no part in the validity of a record. *)
LEMMA HostListValid ==
    ASSUME NEW svc \in Service, NEW h, ValidRecord(svc)
    PROVE  ValidRecord(AppendHost(svc, h)) /\ ValidRecord(RemoveFirstHost(svc, h))
  BY DEF AppendHost, RemoveFirstHost, Service, ValidRecord

-----------------------------------------------------------------------------
(* A handler that goes to a state that holds valid data. *)
LEMMA GoValid ==
    ASSUME RunType, AllHeldValid, NEW p \in Handlers, NEW s, HeldValid(s), Go(p, s)
    PROVE  AllHeldValid'
  BY DEF RunType, AllHeldValid, Go

(* A label between operations holds nothing but what is left to do. *)
LEMMA AtValid ==
    ASSUME NEW label \in {"idle", "begin"}, NEW ops,
           \A o \in ops : o.kind = "PutParam" => ValidRecord(o.record)
    PROVE  HeldValid(At(label, ops))
<1> DEFINE s == At(label, ops)
<1>1. s.pc = label /\ s.todo = ops
  BY DEF At
<1> HIDE DEF s
<1>2. HeldValid(s)
  BY <1>1 DEF HeldValid, HoldsService, HoldsAttr
<1>3. QED
  BY <1>2 DEF s

(* The end of an operation, with or without an error. *)
LEMMA EndValid ==
    ASSUME RunType, AllHeldValid, NEW p \in Handlers, Finish(p) \/ Fail(p)
    PROVE  AllHeldValid'
<1>1. HeldValid(run[p])
  BY DEF AllHeldValid
<1>2. HeldValid(At("begin", run[p].todo)) /\ HeldValid(Idle)
  BY <1>1, AtValid DEF HeldValid, Idle
<1>3. QED
  BY <1>2, GoValid DEF Finish, Continue, Fail

(* Steps that write neither services nor hosts keep the store valid. *)
LEMMA StoredUnchanged ==
    ASSUME StoredValid, UNCHANGED <<services, hosts>>
    PROVE  StoredValid'
  BY DEF StoredValid, Stored

(* A reading call: the operation ends, or the handler holds valid data.    *)
LEMMA ReadStepValid ==
    ASSUME RunType, StoredValid, AllHeldValid, NEW p \in Handlers, ReadOnly,
           Fail(p) \/ Finish(p) \/ \E s : HeldValid(s) /\ Go(p, s)
    PROVE  StoredValid' /\ AllHeldValid'
  BY EndValid, GoValid, StoredUnchanged DEF ReadOnly, store

(* What a handler in the midst of an operation holds. *)
LEMMA InHandValid ==
    ASSUME TypeInv, AllHeldValid, NEW p \in Handlers, run[p].pc \notin {"idle", "begin"}
    PROVE  /\ run[p] \in HandlerState /\ run[p].op \in Op /\ Target(p) \in Services
           /\ run[p].op.kind \in KindsAt(run[p].pc)
           /\ Control(run[p]) /\ HeldValid(run[p]) /\ ValidOp(run[p].op)
           /\ \A o \in run[p].todo : o.kind = "PutParam" => ValidRecord(o.record)
<1>1. run[p] \in GoodState /\ HeldValid(run[p])
  BY DEF TypeInv, AllHeldValid
<1>2. QED
  BY <1>1, InHand, TypeInvParts DEF GoodState, HeldValid

(* The service record a handler reads is valid. *)
LEMMA CurrentValid ==
    ASSUME TypeInv, StoredValid, NEW p \in Handlers, run[p].pc \notin {"idle", "begin"},
           Current(p) # None
    PROVE  Current(p) \in Service /\ ValidRecord(Current(p))
<1>1. Current(p) \in Service /\ Target(p) \in Services
  BY CurrentType, InHand, TypeInvParts
<1>2. QED
  BY <1>1 DEF Current, StoredValid, Stored
(* A handler that moves to a label where it holds the same service record  *)
(* and attributes as before, or none.                                      *)
LEMMA MoveValid ==
    ASSUME NEW old \in HandlerState, HeldValid(old), old.pc \notin {"idle", "begin"},
           NEW s \in HandlerState, s.todo = old.todo, s.op = old.op,
           HoldsService(s) => ValidRecord(s.cur),
           HoldsAttr(s) => NewHostOK(s.attr)
    PROVE  HeldValid(s)
  BY DEF HeldValid

-----------------------------------------------------------------------------
(* Every action keeps the store and what the handlers hold valid.          *)

(* Begin, which checks the operation, Reject and Return. *)
LEMMA BeginValid ==
    ASSUME TypeInv, StoredValid, AllHeldValid, NEW p \in Handlers,
           Begin(p) \/ Reject(p) \/ Return(p)
    PROVE  StoredValid' /\ AllHeldValid'
<1> USE TypeInvParts
<1>1. CASE Begin(p)
  <2>1. PICK o \in First(run[p].todo) :
          Valid(o) /\ Go(p, [At(FirstCall[o.kind], run[p].todo \ {o}) EXCEPT !.op = o])
    BY <1>1 DEF Begin
  <2> DEFINE label == FirstCall[o.kind]
             s == [At(label, run[p].todo \ {o}) EXCEPT !.op = o]
  <2>2. o \in run[p].todo /\ o \in Op
    BY DEF First, RunType, GoodState, HandlerState
  <2>3. label \in {"list", "get", "stamp", "probe"}
    BY <2>2, OpKind DEF OpKinds, FirstCall
  <2>4. label = "stamp" => o.kind \in {"RemoveDependency", "PutParam"}
    BY <2>2, OpKind DEF OpKinds, FirstCall
  <2>5. s.pc = label /\ s.op = o /\ s.todo = run[p].todo \ {o}
    BY DEF At
  <2>6. \A x \in run[p].todo : x.kind = "PutParam" => ValidRecord(x.record)
    BY DEF AllHeldValid, HeldValid
  <2> HIDE DEF s, label
  <2>7. HeldValid(s)
    BY <2>1, <2>2, <2>3, <2>4, <2>5, <2>6 DEF HeldValid, HoldsService, HoldsAttr, ValidOp
  <2>8. AllHeldValid'
    BY <2>1, <2>7, GoValid DEF s, label
  <2>9. QED
    BY <1>1, <2>8, StoredUnchanged DEF Begin, store
<1>2. CASE Reject(p)
  BY <1>2, EndValid, StoredUnchanged DEF Reject, store
<1>3. CASE Return(p)
  <2>1. HeldValid(Idle)
    BY AtValid DEF Idle
  <2>2. QED
    BY <1>3, <2>1, GoValid, StoredUnchanged DEF Return, store
<1>4. QED
  BY <1>1, <1>2, <1>3

(* RegisterService and RegisterHost carry what they have checked. *)
LEMMA RegisterValid ==
    ASSUME TypeInv, StoredValid, AllHeldValid, NEW p \in Handlers,
           CheckServiceName(p) \/ CheckHostName(p) \/ GetForRegister(p)
    PROVE  StoredValid' /\ AllHeldValid'
<1> USE TypeInvParts DEF In, Read
<1>1. CASE CheckServiceName(p)
  <2> DEFINE new == NewService(run[p].op.protocol)
             s == [run[p] EXCEPT !.pc = "stamp", !.cur = new]
  <2>1. /\ run[p] \in HandlerState /\ HeldValid(run[p]) /\ Valid(run[p].op)
        /\ run[p].op.kind = "RegisterService" /\ run[p].pc = "list"
        /\ run[p].op.protocol \in AnyProtocol
    BY <1>1, InHandValid, OpKind DEF CheckServiceName, ValidOp, RegisterServiceOp
  <2>2. new \in Service /\ ValidRecord(new)
    BY <2>1, NewServiceType DEF Valid, ValidService, NewService, ValidRecord
  <2> HIDE DEF new
  <2>3. HeldValid(s)
    BY <2>1, <2>2, MoveValid DEF HandlerState, Labels, HoldsService, HoldsAttr
  <2>4. QED
    BY <1>1, <2>3, ReadStepValid DEF CheckServiceName, new
<1>2. CASE CheckHostName(p)
  <2> DEFINE s == [run[p] EXCEPT !.pc = "get"]
  <2>1. /\ run[p] \in HandlerState /\ HeldValid(run[p])
        /\ run[p].op.kind = "RegisterHost" /\ run[p].pc = "list"
    BY <1>2, InHandValid DEF CheckHostName
  <2>2. HeldValid(s)
    BY <2>1, MoveValid DEF HandlerState, Labels, HoldsService, HoldsAttr
  <2>3. QED
    BY <1>2, <2>2, ReadStepValid DEF CheckHostName
<1>3. CASE GetForRegister(p)
  <2> DEFINE new == AppendHost(Current(p), HostName(p))
             a == run[p].op.attr
             s == [run[p] EXCEPT !.pc = "putHost", !.attr = a, !.cur = new]
  <2>1. /\ run[p] \in HandlerState /\ HeldValid(run[p]) /\ run[p].op \in Op
        /\ Valid(run[p].op) /\ run[p].op.kind = "RegisterHost" /\ run[p].pc = "get"
    BY <1>3, InHandValid DEF GetForRegister, ValidOp
  <2>2. a \in HostAttr /\ NewHostOK(a) /\ HostName(p) \in Hosts
    BY <2>1, OpKind DEF Valid, RegisterHostOp, HostName
  <2>3. CASE Current(p) # None
    <3>1. new \in Service /\ ValidRecord(new)
      BY <2>1, <2>2, <2>3, CurrentValid, AppendHostType, HostListValid
    <3> HIDE DEF new, a
    <3>2. HeldValid(s)
      BY <2>1, <2>2, <3>1, MoveValid DEF HandlerState, Labels, HoldsService, HoldsAttr
    <3>3. QED
      BY <1>3, <2>3, <3>2, ReadStepValid DEF GetForRegister, new, a
  <2>4. CASE Current(p) = None
    BY <1>3, <2>4, ReadStepValid DEF GetForRegister
  <2>5. QED
    BY <2>3, <2>4
<1>4. QED
  BY <1>1, <1>2, <1>3

(* UnregisterHost and UpdateHost carry a record that was stored, and       *)
(* UpdateHost attributes that it has checked.                              *)
LEMMA HostOpsValid ==
    ASSUME TypeInv, StoredValid, AllHeldValid, NEW p \in Handlers,
           GetForUnregister(p) \/ GetForUpdate(p) \/ GetHost(p)
    PROVE  StoredValid' /\ AllHeldValid'
<1> USE TypeInvParts DEF In, Read
<1>1. CASE GetForUnregister(p)
  <2> DEFINE new == RemoveFirstHost(Current(p), HostName(p))
             s == [run[p] EXCEPT !.pc = "stamp", !.cur = new]
  <2>1. /\ run[p] \in HandlerState /\ HeldValid(run[p]) /\ run[p].op \in Op
        /\ run[p].op.kind = "UnregisterHost" /\ run[p].pc = "get"
    BY <1>1, InHandValid DEF GetForUnregister
  <2>2. CASE IsListed(p)
    <3>1. HostName(p) \in Hosts
      BY <2>1, OpKind DEF UnregisterHostOp, HostName
    <3>2. new \in Service /\ ValidRecord(new)
      BY <2>1, <2>2, <3>1, CurrentValid, RemoveFirstHostType, HostListValid DEF IsListed
    <3> HIDE DEF new
    <3>3. HeldValid(s)
      BY <2>1, <3>2, MoveValid DEF HandlerState, Labels, HoldsService, HoldsAttr
    <3>4. QED
      BY <1>1, <2>2, <3>3, ReadStepValid DEF GetForUnregister, new
  <2>3. CASE ~IsListed(p)
    BY <1>1, <2>3, ReadStepValid DEF GetForUnregister
  <2>4. QED
    BY <2>2, <2>3
<1>2. CASE GetForUpdate(p)
  <2> DEFINE s == [run[p] EXCEPT !.pc = "getHost", !.cur = Current(p)]
  <2>1. /\ run[p] \in HandlerState /\ HeldValid(run[p])
        /\ run[p].op.kind = "UpdateHost" /\ run[p].pc = "get"
    BY <1>2, InHandValid DEF GetForUpdate
  <2>2. CASE IsListed(p)
    <3>1. Current(p) \in Service /\ ValidRecord(Current(p))
      BY <2>1, <2>2, CurrentValid DEF IsListed
    <3>2. HeldValid(s)
      BY <2>1, <3>1, MoveValid DEF HandlerState, Labels, HoldsService, HoldsAttr
    <3>3. QED
      BY <1>2, <2>2, <3>2, ReadStepValid DEF GetForUpdate
  <2>3. CASE ~IsListed(p)
    BY <1>2, <2>3, ReadStepValid DEF GetForUpdate
  <2>4. QED
    BY <2>2, <2>3
<1>3. CASE GetHost(p)
  <2> DEFINE new == Updated(hosts[HostName(p)], run[p].op.attr)
             ok  == hosts[HostName(p)] # None /\ NewHostOK(new)
             s == [run[p] EXCEPT !.pc = "stamp", !.attr = new]
  <2>1. /\ run[p] \in HandlerState /\ HeldValid(run[p]) /\ run[p].op \in Op
        /\ Control(run[p])
        /\ run[p].op.kind = "UpdateHost" /\ run[p].pc = "getHost"
    BY <1>3, InHandValid DEF GetHost
  <2>2. HostName(p) \in Hosts /\ run[p].op.attr \in HostUpdate
    BY <2>1, OpKind DEF UpdateHostOp, HostName
  <2>3. ValidRecord(run[p].cur)
    BY <2>1 DEF HeldValid, HoldsService
  <2>4. CASE ok
    <3>1. hosts[HostName(p)] \in HostAttr
      BY <2>2, <2>4 DEF StoreType
    <3>2. new \in HostAttr /\ NewHostOK(new)
      BY <2>2, <2>4, <3>1, UpdatedType
    <3> HIDE DEF new
    <3>3. HeldValid(s)
      BY <2>1, <2>3, <3>2, MoveValid DEF HandlerState, Labels, HoldsService, HoldsAttr
    <3>4. QED
      BY <1>3, <2>4, <3>3, ReadStepValid DEF GetHost, new
  <2>5. CASE ~ok
    BY <1>3, <2>5, ReadStepValid DEF GetHost
  <2>6. QED
    BY <2>4, <2>5
<1>4. QED
  BY <1>1, <1>2, <1>3

(* The operations on dependencies carry a record that was stored, with a   *)
(* dependency appended after the check or removed.                         *)
LEMMA DependencyValid ==
    ASSUME TypeInv, StoredValid, AllHeldValid, NEW p \in Handlers,
           GetForDependency(p) \/ CheckPorts(p) \/ GetToAppend(p) \/ GetToRemove(p)
    PROVE  StoredValid' /\ AllHeldValid'
<1> USE TypeInvParts DEF In, Read
<1>1. CASE GetForDependency(p)
  <2> DEFINE names == Current(p).hosts
             s == [run[p] EXCEPT !.pc = "readHosts", !.rest = names]
  <2>1. /\ run[p] \in HandlerState /\ HeldValid(run[p])
        /\ run[p].op.kind = "AddDependency" /\ run[p].pc = "get"
    BY <1>1, InHandValid DEF GetForDependency
  <2>2. CASE Current(p) # None
    <3>1. names \in Seq(Hosts)
      BY <2>1, <2>2, CurrentValid DEF Service
    <3> HIDE DEF names
    <3>2. HeldValid(s)
      BY <2>1, <3>1, MoveValid DEF HandlerState, Labels, HoldsService, HoldsAttr
    <3>3. QED
      BY <1>1, <2>2, <3>2, ReadStepValid DEF GetForDependency, names
  <2>3. CASE Current(p) = None
    BY <1>1, <2>3, ReadStepValid DEF GetForDependency
  <2>4. QED
    BY <2>2, <2>3
<1>2. CASE CheckPorts(p)
  <2> DEFINE s == [run[p] EXCEPT !.pc = "stamp"]
  <2>1. /\ run[p] \in HandlerState /\ HeldValid(run[p])
        /\ run[p].op.kind = "AddDependency" /\ run[p].pc = "readHosts"
    BY <1>2, InHandValid DEF CheckPorts
  <2>2. HeldValid(s)
    BY <2>1, MoveValid DEF HandlerState, Labels, HoldsService, HoldsAttr
  <2>3. Fail(p) \/ Go(p, s)
    BY <1>2, Zenon DEF CheckPorts
  <2>4. QED
    BY <1>2, <2>2, <2>3, ReadStepValid DEF CheckPorts
<1>3. CASE GetToAppend(p)
  <2> DEFINE dep == run[p].op.dep
             new == AppendDependent(Current(p), dep)
             ok  == Current(p) # None /\ CanAppendDependent(Current(p), dep)
             s   == [run[p] EXCEPT !.pc = "put", !.cur = new]
  <2>1. /\ run[p] \in HandlerState /\ HeldValid(run[p]) /\ run[p].op \in Op
        /\ run[p].op.kind = "AddDependency" /\ run[p].pc = "reget"
    BY <1>3, InHandValid DEF GetToAppend
  <2>2. CASE ok
    <3>1. dep \in Dependency
      BY <2>1, OpKind DEF AddDependencyOp
    <3>2. new \in Service /\ ValidRecord(new)
      BY <2>1, <2>2, <3>1, CurrentValid, AppendDependentType, AppendDependentValid
    <3> HIDE DEF new
    <3>3. HeldValid(s)
      BY <2>1, <3>2, MoveValid DEF HandlerState, Labels, HoldsService, HoldsAttr
    <3>4. QED
      BY <1>3, <2>2, <3>3, ReadStepValid DEF GetToAppend, new
  <2>3. CASE ~ok
    BY <1>3, <2>3, ReadStepValid DEF GetToAppend
  <2>4. QED
    BY <2>2, <2>3
<1>4. CASE GetToRemove(p)
  <2> DEFINE new == RemoveDependent(Current(p), run[p].op.name)
             s   == [run[p] EXCEPT !.pc = "put", !.cur = new]
  <2>1. /\ run[p] \in HandlerState /\ HeldValid(run[p])
        /\ run[p].op.kind = "RemoveDependency" /\ run[p].pc = "reget"
    BY <1>4, InHandValid DEF GetToRemove
  <2>2. CASE Current(p) # None
    <3>1. new \in Service /\ ValidRecord(new)
      BY <2>1, <2>2, CurrentValid, RemoveDependentType, RemoveDependentValid
    <3> HIDE DEF new
    <3>2. HeldValid(s)
      BY <2>1, <3>1, MoveValid DEF HandlerState, Labels, HoldsService, HoldsAttr
    <3>3. QED
      BY <1>4, <2>2, <3>2, ReadStepValid DEF GetToRemove, new
  <2>3. CASE Current(p) = None
    BY <1>4, <2>3, ReadStepValid DEF GetToRemove
  <2>4. QED
    BY <2>2, <2>3
<1>5. QED
  BY <1>1, <1>2, <1>3, <1>4
(* UnregisterService carries no record. *)
LEMMA UnregisterServiceValid ==
    ASSUME TypeInv, StoredValid, AllHeldValid, NEW p \in Handlers,
           ListServices(p) \/ ScanService(p) \/ PlanUnregister(p)
    PROVE  StoredValid' /\ AllHeldValid'
<1> USE TypeInvParts DEF In, Read
<1>1. /\ run[p] \in HandlerState /\ HeldValid(run[p])
      /\ run[p].op.kind = "UnregisterService" /\ run[p].pc \in {"list", "scan"}
      /\ run[p].pc = "scan" => run[p].rest \in Seq(Services) /\ run[p].found \in Seq(Services)
  BY InHandValid DEF ListServices, ScanService, PlanUnregister, Control
<1>2. CASE ListServices(p)
  <2>1. PICK order : Go(p, [run[p] EXCEPT !.pc = "scan", !.rest = order])
    BY <1>2 DEF ListServices
  <2> DEFINE s == [run[p] EXCEPT !.pc = "scan", !.rest = order]
  <2>2. s.pc = "scan" /\ s.op = run[p].op /\ s.todo = run[p].todo
    BY <1>1 DEF HandlerState
  <2> HIDE DEF s
  <2>3. HeldValid(s)
    BY <1>1, <2>2 DEF HeldValid, HoldsService, HoldsAttr
  <2>4. QED
    BY <1>2, <2>1, <2>3, ReadStepValid DEF ListServices, s
<1>3. CASE ScanService(p)
  <2>1. PICK rest, found : Go(p, [run[p] EXCEPT !.rest = rest, !.found = found])
    BY <1>3 DEF ScanService
  <2> DEFINE s == [run[p] EXCEPT !.rest = rest, !.found = found]
  <2>2. s.pc = "scan" /\ s.op = run[p].op /\ s.todo = run[p].todo
    BY <1>1, <1>3 DEF HandlerState, ScanService
  <2> HIDE DEF s
  <2>3. HeldValid(s)
    BY <1>1, <2>2 DEF HeldValid, HoldsService, HoldsAttr
  <2>4. QED
    BY <1>3, <2>1, <2>3, ReadStepValid DEF ScanService, s
<1>4. CASE PlanUnregister(p)
  <2> DEFINE f == run[p].found
             plan == {[kind |-> "RemoveDependency", at |-> i, service |-> f[i],
                       name |-> Target(p)] : i \in DOMAIN f}
                     \cup {[kind |-> "DeleteService", at |-> 0, service |-> Target(p)]}
  <2>1. \A o \in plan : o.kind # "PutParam"
    OBVIOUS
  <2>2. Go(p, At("begin", plan))
    BY <1>4 DEF PlanUnregister, Continue
  <2> HIDE DEF plan
  <2>3. HeldValid(At("begin", plan))
    BY <2>1, AtValid
  <2>4. QED
    BY <1>4, <2>2, <2>3, ReadStepValid DEF PlanUnregister
<1>5. QED
  BY <1>2, <1>3, <1>4

(* The plans of a PUT carry no record but that of ParamService. *)
LEMMA PlansValid ==
    ASSUME NEW r \in PutOp, NEW svc, NEW current, Valid(r)
    PROVE  /\ \A o \in CreatePlan(r) : o.kind # "PutParam"
           /\ \A o \in UpdatePlan(r, svc, current) : o.kind = "PutParam" => ValidRecord(o.record)
<1>1. \A o \in CreatePlan(r) : o.kind # "PutParam"
  BY DEF CreatePlan
<1>2. \A o \in NewHosts(r, current) : o.kind = "RegisterHost"
  BY DEF NewHosts
<1>3. \A o \in DelHosts(r, current) : o.kind = "UnregisterHost"
  BY DEF DelHosts
<1>4. \A o \in ModifiedHosts(r, current) : o.kind = "UpdateHost"
  BY DEF ModifiedHosts
<1>5. \A o \in ServiceDiff(r, svc) : o.record = ParamService(r)
  BY DEF ServiceDiff
<1>6. QED
  BY <1>1, <1>2, <1>3, <1>4, <1>5, ParamServiceValid DEF UpdatePlan

(* IdempotentService carries the record of its checked parameter. *)
LEMMA PutValid ==
    ASSUME TypeInv, StoredValid, AllHeldValid, NEW p \in Handlers,
           GetForPut(p) \/ GetHostsForPut(p) \/ PlanUpdate(p)
    PROVE  StoredValid' /\ AllHeldValid'
<1> USE TypeInvParts DEF In, Read
<1> DEFINE r == run[p].op
<1>1. /\ run[p] \in HandlerState /\ HeldValid(run[p]) /\ r \in PutOp /\ Valid(r)
      /\ r.kind = "Put" /\ run[p].pc \in {"get", "getHosts", "readHosts"}
  BY InHandValid, OpKind DEF GetForPut, GetHostsForPut, PlanUpdate, ValidOp
<1>2. CASE GetForPut(p) /\ Current(p) = None
  <2>1. Go(p, At("begin", CreatePlan(r)))
    BY <1>2 DEF GetForPut, Continue
  <2>2. HeldValid(At("begin", CreatePlan(r)))
    BY <1>1, PlansValid, AtValid
  <2>3. QED
    BY <1>2, <2>1, <2>2, ReadStepValid DEF GetForPut
<1>3. CASE GetForPut(p) /\ Current(p) # None
  <2> DEFINE s == [run[p] EXCEPT !.pc = "getHosts", !.cur = Current(p)]
  <2>1. Current(p) \in Service /\ ValidRecord(Current(p))
    BY <1>1, <1>3, CurrentValid
  <2>2. HeldValid(s)
    BY <1>1, <2>1, MoveValid DEF HandlerState, Labels, HoldsService, HoldsAttr
  <2>3. QED
    BY <1>3, <2>2, ReadStepValid DEF GetForPut
<1>4. CASE GetHostsForPut(p) /\ Current(p) = None
  BY <1>4, ReadStepValid DEF GetHostsForPut
<1>5. CASE GetHostsForPut(p) /\ Current(p) # None
  <2> DEFINE names == Current(p).hosts
             s == [run[p] EXCEPT !.pc = "readHosts", !.rest = names]
  <2>1. names \in Seq(Hosts)
    BY <1>1, <1>5, CurrentValid DEF Service
  <2>2. ValidRecord(run[p].cur)
    BY <1>1, <1>5 DEF GetHostsForPut, HeldValid, HoldsService
  <2> HIDE DEF names
  <2>3. HeldValid(s)
    BY <1>1, <2>1, <2>2, MoveValid DEF HandlerState, Labels, HoldsService, HoldsAttr
  <2>4. QED
    BY <1>5, <2>3, ReadStepValid DEF GetHostsForPut, names
<1>6. CASE PlanUpdate(p)
  <2> DEFINE plan == UpdatePlan(r, run[p].cur, run[p].found)
  <2>1. Go(p, At("begin", plan))
    BY <1>6 DEF PlanUpdate, Continue
  <2>2. \A o \in plan : o.kind = "PutParam" => ValidRecord(o.record)
    BY <1>1, PlansValid
  <2> HIDE DEF plan
  <2>3. HeldValid(At("begin", plan))
    BY <2>2, AtValid
  <2>4. QED
    BY <1>6, <2>1, <2>3, ReadStepValid DEF PlanUpdate
<1>7. QED
  BY <1>2, <1>3, <1>4, <1>5, <1>6

(* A host read, a version drawn and the probe before a deletion leave      *)
(* what a handler carries alone.                                           *)
LEMMA SharedReadValid ==
    ASSUME TypeInv, StoredValid, AllHeldValid, NEW p \in Handlers,
           ReadHost(p) \/ Stamp(p) \/ ProbeKey(p)
    PROVE  StoredValid' /\ AllHeldValid'
<1> USE TypeInvParts DEF In, Read
<1>1. /\ run[p] \in HandlerState /\ run[p].op \in Op /\ HeldValid(run[p]) /\ ValidOp(run[p].op)
      /\ run[p].op.kind \in KindsAt(run[p].pc)
  BY InHandValid DEF ReadHost, Stamp, ProbeKey
<1>2. CASE ReadHost(p)
  <2>1. PICK rest, found : Go(p, [run[p] EXCEPT !.rest = rest, !.found = found])
    BY <1>2 DEF ReadHost
  <2> DEFINE s == [run[p] EXCEPT !.rest = rest, !.found = found]
  <2>2. /\ s.pc = run[p].pc /\ s.op = run[p].op /\ s.todo = run[p].todo
        /\ s.cur = run[p].cur /\ s.attr = run[p].attr
    BY <1>1 DEF HandlerState
  <2> HIDE DEF s
  <2>3. HeldValid(s)
    BY <1>1, <2>2 DEF HeldValid, HoldsService, HoldsAttr
  <2>4. QED
    BY <1>2, <2>1, <2>3, ReadStepValid DEF ReadHost, s
<1>3. CASE Stamp(p)
  <2> DEFINE kind  == run[p].op.kind
             label == AfterStamp[kind]
             cur   == IF kind = "PutParam" THEN run[p].op.record ELSE run[p].cur
             s     == [run[p] EXCEPT !.pc = label, !.ver = clock, !.cur = cur]
  <2>1. kind \in KindsAt("stamp") /\ run[p].pc = "stamp"
    BY <1>1, <1>3 DEF Stamp
  <2>2. /\ label \in {"put", "reget", "putHost"}
        /\ label = "put" => kind \in {"RegisterService", "RegisterHost",
                                      "UnregisterHost", "PutParam"}
        /\ label = "putHost" => kind = "UpdateHost"
    BY <2>1 DEF KindsAt, AfterStamp
  <2>3. /\ label \in {"put", "putHost"} => ValidRecord(cur)
        /\ kind \in {"RegisterHost", "UpdateHost"} => NewHostOK(run[p].attr)
    BY <1>1, <2>1, <2>2 DEF HeldValid, ValidOp, HoldsService, HoldsAttr
  <2>4. /\ s.pc = label /\ s.op = run[p].op /\ s.todo = run[p].todo
        /\ s.cur = cur /\ s.attr = run[p].attr
    BY <1>1 DEF HandlerState
  <2>5. Go(p, s)
    BY <1>3 DEF Stamp
  <2> HIDE DEF s, label, cur
  <2>6. s.op.kind = kind
    BY <2>4
  <2> HIDE DEF kind
  <2>7. (HoldsService(s) => ValidRecord(s.cur)) /\ (HoldsAttr(s) => NewHostOK(s.attr))
    BY <2>2, <2>3, <2>4, <2>6 DEF HoldsService, HoldsAttr
  <2>8. HeldValid(s)
    BY <1>1, <2>1, <2>4, <2>7 DEF HeldValid
  <2>9. QED
    BY <1>3, <2>5, <2>8, ReadStepValid DEF Stamp
<1>4. CASE ProbeKey(p)
  <2> DEFINE s == [run[p] EXCEPT !.pc = "delete"]
  <2>1. HeldValid(s)
    BY <1>1, <1>4, MoveValid DEF ProbeKey, HandlerState, Labels, HoldsService, HoldsAttr
  <2>2. Finish(p) \/ Go(p, s)
    BY <1>4, Zenon DEF ProbeKey
  <2>3. QED
    BY <1>4, <2>1, <2>2, ReadStepValid DEF ProbeKey
<1>5. QED
  BY <1>2, <1>3, <1>4

(* Here the record a handler carries reaches the store. *)
LEMMA WriteValid ==
    ASSUME TypeInv, StoredValid, AllHeldValid, NEW p \in Handlers, PutHost(p) \/ PutService(p)
    PROVE  StoredValid' /\ AllHeldValid'
<1> USE TypeInvParts DEF In
<1>1. /\ run[p] \in HandlerState /\ run[p].op \in Op /\ HeldValid(run[p]) /\ Control(run[p])
      /\ Target(p) \in Services /\ run[p].pc \in {"putHost", "put"}
  BY InHandValid DEF PutHost, PutService
<1>2. ValidRecord(run[p].cur) /\ run[p].cur \in Service
  BY <1>1 DEF HeldValid, HoldsService, Control
<1>3. CASE PutHost(p)
  <2> DEFINE kind  == run[p].op.kind
             label == IF kind = "RegisterHost" THEN "stamp" ELSE "put"
             s     == [run[p] EXCEPT !.pc = label]
  <2>1. NewHostOK(run[p].attr) /\ kind \in {"RegisterHost", "UpdateHost"} /\ HostName(p) \in Hosts
    BY <1>1, <1>3, OpKind DEF PutHost, HeldValid, HoldsAttr, HostName, RegisterHostOp, UpdateHostOp
  <2>2. StoredValid'
    BY <1>3, <2>1 DEF PutHost, StoredValid, Stored, StoreType
  <2>3. HeldValid(s)
    BY <1>1, <1>2, <2>1, MoveValid DEF HandlerState, Labels, HoldsService, HoldsAttr
  <2>4. QED
    BY <1>3, <2>2, <2>3, GoValid DEF PutHost
<1>4. CASE PutService(p)
  <2> DEFINE kind  == run[p].op.kind
             label == AfterPut(kind)
             s     == [run[p] EXCEPT !.pc = label]
             new   == [run[p].cur EXCEPT !.version = run[p].ver]
  <2>1. StoredValid'
    <3>1. ValidRecord(new)
      BY <1>2 DEF Service, ValidRecord
    <3> HIDE DEF new
    <3>2. services' = [services EXCEPT ![Target(p)] = new] /\ UNCHANGED hosts
      BY <1>4 DEF PutService, new
    <3>3. QED
      BY <1>1, <3>1, <3>2 DEF StoredValid, Stored, StoreType
  <2>2. CASE label = "begin"
    BY <1>4, <2>1, <2>2, EndValid DEF PutService
  <2>3. CASE label # "begin"
    <3>1. label \in {"register", "deregister", "probe"} /\ (label = "register" => kind = "RegisterHost")
      BY <2>3 DEF AfterPut
    <3>2. kind = "RegisterHost" => NewHostOK(run[p].attr)
      BY <1>1, <1>4 DEF PutService, HeldValid, HoldsAttr
    <3>3. /\ s.pc = label /\ s.op = run[p].op /\ s.todo = run[p].todo
          /\ s.attr = run[p].attr
      BY <1>1 DEF HandlerState
    <3>4. Go(p, s)
      BY <1>4, <2>3 DEF PutService, Read
    <3> HIDE DEF s, label
    <3>5. HeldValid(s)
      BY <1>1, <1>4, <3>1, <3>2, <3>3 DEF HeldValid, HoldsService, HoldsAttr
    <3>6. QED
      BY <2>1, <3>4, <3>5, GoValid
  <2>4. QED
    BY <2>2, <2>3
<1>5. QED
  BY <1>3, <1>4

(* Writes to the catalog and deletions add nothing to the store. *)
LEMMA RemovalValid ==
    ASSUME TypeInv, StoredValid, AllHeldValid, NEW p \in Handlers,
           Register(p) \/ Deregister(p) \/ DeleteTree(p)
    PROVE  StoredValid' /\ AllHeldValid'
<1> USE TypeInvParts DEF In
<1>1. CASE Register(p)
  BY <1>1, EndValid, StoredUnchanged DEF Register
<1>2. CASE Deregister(p)
  <2> DEFINE s == [run[p] EXCEPT !.pc = "probe"]
  <2>1. /\ run[p] \in HandlerState /\ HeldValid(run[p])
        /\ run[p].op.kind = "UnregisterHost" /\ run[p].pc = "deregister"
    BY <1>2, InHandValid DEF Deregister
  <2>2. HeldValid(s)
    BY <2>1, MoveValid DEF HandlerState, Labels, HoldsService, HoldsAttr
  <2>3. QED
    BY <1>2, <2>2, GoValid, StoredUnchanged DEF Deregister
<1>3. CASE DeleteTree(p)
  <2>1. StoredValid'
    BY <1>3 DEF DeleteTree, StoredValid, Stored
  <2>2. QED
    BY <1>3, <2>1, EndValid DEF DeleteTree
<1>4. QED
  BY <1>1, <1>2, <1>3

(* Every step of a handler. *)
LEMMA WorkValid ==
    ASSUME TypeInv, StoredValid, AllHeldValid, NEW p \in Handlers, Work(p)
    PROVE  StoredValid' /\ AllHeldValid'
  BY BeginValid, RegisterValid, HostOpsValid, DependencyValid, UnregisterServiceValid,
     PutValid, SharedReadValid, WriteValid, RemovalValid
  DEF Work, RunRegisterHost, RunUnregisterHost, RunUpdateHost, RunService, RunDependency,
      RunPut, RunShared

(* Requests, failing calls, crashes and ticks write no record. *)
LEMMA EnvironmentValid ==
    ASSUME TypeInv, StoredValid, AllHeldValid,
           \/ \E p \in Handlers : \E r \in Requests[p] : Accept(p, r)
           \/ \E p \in Handlers : CallFails(p)
           \/ Crash
           \/ Tick
    PROVE  StoredValid' /\ AllHeldValid'
<1> USE TypeInvParts
<1>1. ASSUME NEW p \in Handlers, NEW r \in Requests[p], Accept(p, r)
      PROVE  StoredValid' /\ AllHeldValid'
  <2>1. r \in Request
    BY InventoryAssumption
  <2>2. r.kind # "PutParam"
    BY <2>1 DEF Request, RegisterServiceOp, UnregisterServiceOp, AddDependencyOp,
                RemoveDependencyOp, RegisterHostOp, UnregisterHostOp, UpdateHostOp, PutOp
  <2>3. HeldValid(At("begin", {r}))
    BY <2>2, AtValid
  <2>4. QED
    BY <1>1, <2>3, GoValid, StoredUnchanged DEF Accept, Continue, store
<1>2. ASSUME NEW p \in Handlers, CallFails(p)
      PROVE  StoredValid' /\ AllHeldValid'
  BY <1>2, EndValid, StoredUnchanged DEF CallFails, store
<1>3. CASE Crash
  <2>1. HeldValid(Idle)
    BY AtValid DEF Idle
  <2>2. QED
    BY <1>3, <2>1, StoredUnchanged DEF Crash, store, AllHeldValid
<1>4. CASE Tick
  BY <1>4, StoredUnchanged DEF Tick, store, AllHeldValid
<1>5. QED
  BY <1>1, <1>2, <1>3, <1>4

(* The strengthened invariant holds at the start. *)
LEMMA InitValid == Init => ValidInv
<1> SUFFICES ASSUME Init PROVE ValidInv
  OBVIOUS
<1>1. StoredValid
  BY InitialStoreValid DEF Init, StoredValid, Stored
<1>2. HeldValid(Idle)
  BY AtValid DEF Idle
<1>3. AllHeldValid
  BY <1>2 DEF Init, AllHeldValid
<1>4. QED
  BY <1>1, <1>3, InitType DEF ValidInv

(* The strengthened invariant is inductive. *)
LEMMA StepValid == ValidInv /\ [Next]_vars => ValidInv'
<1> SUFFICES ASSUME ValidInv, [Next]_vars PROVE ValidInv'
  OBVIOUS
<1> USE DEF ValidInv
<1>1. TypeInv'
  BY StepType
<1>2. CASE Next
  <2>1. StoredValid' /\ AllHeldValid'
    BY <1>2, WorkValid, EnvironmentValid DEF Next
  <2>2. QED
    BY <1>1, <2>1
<1>3. CASE UNCHANGED vars
  <2>1. StoredValid' /\ AllHeldValid'
    BY <1>3, StoredUnchanged DEF vars, store, AllHeldValid
  <2>2. QED
    BY <1>1, <2>1
<1>4. QED
  BY <1>2, <1>3

(* However many handlers race on the same services, whenever the process   *)
(* dies and whichever calls fail, the store holds valid records only:      *)
(* PutService writes whole records that were read or built and checked     *)
(* before, so a lost update loses data but never mixes two records.        *)
THEOREM StoreStaysValid == Spec => []StoredValid
<1>1. ValidInv => StoredValid
  BY DEF ValidInv
<1>2. QED
  BY InitValid, StepValid, <1>1, PTL DEF Spec
=============================================================================
