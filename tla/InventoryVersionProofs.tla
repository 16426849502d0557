----------------------- MODULE InventoryVersionProofs -----------------------
(***************************************************************************)
(* Versions never go back as long as every service is left to one handler  *)
(* (and the clock of the server does not go back).                         *)
(*                                                                         *)
(* The version of a write is drawn before it, a call or two earlier.  The  *)
(* inductive invariant says that meanwhile no newer version was stored,    *)
(* which takes that no other handler has an operation on the service.      *)
(***************************************************************************)
EXTENDS InventoryProofs

(* The operations a handler has not finished. *)
Pending(s) == {o \in s.todo \cup {s.op} : o # None}

ServicesOwned(owner) ==
    \A p \in Handlers : \A o \in Pending(run[p]) : OwnService(owner, p, o)

VersionsPast == \A s \in Services : services[s] # None => services[s].version <= clock

(* the labels between Stamp and PutService *)
HoldsVersion(s) == s.pc \in {"reget", "put"} \/ (s.pc = "putHost" /\ s.op.kind = "UpdateHost")

VersionDrawn(s) ==
    HoldsVersion(s) =>
        /\ s.ver <= clock
        /\ services[s.op.service] # None => services[s.op.service].version <= s.ver

AllDrawn == \A p \in Handlers : VersionDrawn(run[p])

VersionInv(owner) == TypeInv /\ ServicesOwned(owner) /\ VersionsPast /\ AllDrawn

-----------------------------------------------------------------------------
(* How the operations of a handler develop. *)

Plans(p) == GetForPut(p) \/ PlanUpdate(p) \/ PlanUnregister(p)

(* the calls of a handler that keep to the operations it has *)
Calls(p) == \/ RunRegisterHost(p) \/ RunUnregisterHost(p) \/ RunUpdateHost(p)
            \/ CheckServiceName(p) \/ ListServices(p) \/ ScanService(p)
            \/ RunDependency(p) \/ GetHostsForPut(p) \/ RunShared(p)

(* A step of a handler begins, rejects or ends an operation or the whole   *)
(* request, plans new operations, or is a call.                            *)
LEMMA WorkCases ==
    ASSUME NEW p \in Handlers, Work(p)
    PROVE  Begin(p) \/ Reject(p) \/ Return(p) \/ Plans(p) \/ Calls(p)
  BY DEF Work, RunService, RunPut, Plans, Calls

(* What the end of an operation leaves of it. *)
LEMMA EndOps ==
    ASSUME RunType, NEW p \in Handlers, Finish(p) \/ Fail(p)
    PROVE  /\ \A q \in Handlers : q # p => run'[q] = run[q]
           /\ run'[p].todo \subseteq run[p].todo /\ run'[p].op = None
           /\ run'[p].pc \in {"idle", "begin"}
<1>1. Finish(p) => run' = [run EXCEPT ![p] = At("begin", run[p].todo)]
  BY DEF Finish, Continue, Go
<1>2. Fail(p) => run' = [run EXCEPT ![p] = At("idle", {})]
  BY DEF Fail, Go, Idle
<1>3. QED
  BY <1>1, <1>2 DEF At, RunType

(* A step to a local state. *)
LEMMA GoOps ==
    ASSUME RunType, NEW p \in Handlers, NEW s, Go(p, s)
    PROVE  run'[p] = s /\ \A q \in Handlers : q # p => run'[q] = run[q]
  BY DEF Go, RunType

(* A call keeps the operation in hand, or ends it; it begins none. *)
LEMMA CallOps ==
    ASSUME TypeInv, NEW p \in Handlers, Calls(p)
    PROVE  /\ run[p].pc \notin {"idle", "begin"}
           /\ \A q \in Handlers : q # p => run'[q] = run[q]
           /\ \/ Finish(p) \/ Fail(p)
              \/ run'[p].todo = run[p].todo /\ run'[p].op = run[p].op
<1> USE TypeInvParts DEF In, Read, Go
<1> DEFINE Same == /\ \A q \in Handlers : q # p => run'[q] = run[q]
                   /\ run'[p].todo = run[p].todo
                   /\ run'[p].op = run[p].op
<1>1. run \in [Handlers -> HandlerState]
  BY DEF RunType, GoodState
<1>2. run[p].pc \notin {"idle", "begin"} /\ (Finish(p) \/ Fail(p) \/ Same)
  <2>1. CASE RunRegisterHost(p)
    BY <1>1, <2>1 DEF RunRegisterHost, CheckHostName, GetForRegister, Register, HandlerState
  <2>2. CASE RunUnregisterHost(p)
    BY <1>1, <2>2 DEF RunUnregisterHost, GetForUnregister, Deregister, HandlerState
  <2>3. CASE RunUpdateHost(p)
    BY <1>1, <2>3 DEF RunUpdateHost, GetForUpdate, GetHost, HandlerState
  <2>4. CASE CheckServiceName(p)
    BY <1>1, <2>4 DEF CheckServiceName, HandlerState
  <2>5. CASE ListServices(p)
    BY <1>1, <2>5 DEF ListServices, HandlerState
  <2>6. CASE ScanService(p)
    BY <1>1, <2>6 DEF ScanService, HandlerState
  <2>7. CASE GetForDependency(p) \/ GetToRemove(p)
    BY <1>1, <2>7 DEF GetForDependency, GetToRemove, HandlerState
  <2>8. CASE CheckPorts(p)
    BY <1>1, <2>8 DEF CheckPorts, HandlerState
  <2>9. CASE GetToAppend(p)
    BY <1>1, <2>9 DEF GetToAppend, HandlerState
  <2>10. CASE GetHostsForPut(p)
    BY <1>1, <2>10 DEF GetHostsForPut, HandlerState
  <2>11. CASE ReadHost(p) \/ Stamp(p)
    BY <1>1, <2>11 DEF ReadHost, Stamp, HandlerState
  <2>12. CASE PutHost(p)
    BY <1>1, <2>12 DEF PutHost, HandlerState
  <2>13. CASE PutService(p)
    BY <1>1, <2>13 DEF PutService, HandlerState
  <2>14. CASE ProbeKey(p) \/ DeleteTree(p)
    BY <1>1, <2>14 DEF ProbeKey, DeleteTree, HandlerState
  <2>15. QED
    BY <2>1, <2>2, <2>3, <2>4, <2>5, <2>6, <2>7, <2>8, <2>9, <2>10, <2>11, <2>12, <2>13, <2>14
       DEF Calls, RunDependency, RunShared
<1>3. QED
  BY <1>2, EndOps

(* Begin takes the operation in hand from those left to do. *)
LEMMA BeginOps ==
    ASSUME TypeInv, NEW p \in Handlers, Begin(p)
    PROVE  \E o \in First(run[p].todo) :
              /\ run'[p] = [At(FirstCall[o.kind], run[p].todo \ {o}) EXCEPT !.op = o]
              /\ run'[p].op = o /\ run'[p].todo = run[p].todo \ {o}
              /\ run'[p].pc \in {"list", "get", "stamp", "probe"}
              /\ o \in run[p].todo /\ o \in Op
              /\ \A q \in Handlers : q # p => run'[q] = run[q]
<1> USE TypeInvParts
<1>1. PICK o \in First(run[p].todo) :
        Go(p, [At(FirstCall[o.kind], run[p].todo \ {o}) EXCEPT !.op = o])
  BY DEF Begin
<1> DEFINE s == [At(FirstCall[o.kind], run[p].todo \ {o}) EXCEPT !.op = o]
<1>2. o \in run[p].todo /\ o \in Op
  BY DEF First, RunType, GoodState, HandlerState
<1>3. FirstCall[o.kind] \in {"list", "get", "stamp", "probe"}
  BY <1>2, OpKind DEF OpKinds, FirstCall
<1>4. s.op = o /\ s.todo = run[p].todo \ {o} /\ s.pc = FirstCall[o.kind]
  BY DEF At
<1> HIDE DEF s
<1>5. run'[p] = s /\ \A q \in Handlers : q # p => run'[q] = run[q]
  BY <1>1, GoOps DEF s
<1>6. QED
  BY <1>2, <1>3, <1>4, <1>5 DEF s

(* A handler that plans is left with the operations planned. *)
LEMMA ContinueOps ==
    ASSUME RunType, NEW p \in Handlers, NEW ops, Continue(p, ops)
    PROVE  /\ run'[p] = At("begin", ops)
           /\ run'[p].todo = ops /\ run'[p].op = None /\ run'[p].pc = "begin"
           /\ \A q \in Handlers : q # p => run'[q] = run[q]
<1>1. run'[p] = At("begin", ops) /\ \A q \in Handlers : q # p => run'[q] = run[q]
  BY GoOps DEF Continue
<1>2. QED
  BY <1>1 DEF At

-----------------------------------------------------------------------------
(* Every operation a handler has concerns services left to it. *)

(* The operations of a handler are operations. *)
LEMMA PendingOps ==
    ASSUME RunType, NEW p \in Handlers
    PROVE  /\ run[p].todo \subseteq Pending(run[p]) /\ Pending(run[p]) \subseteq Op
           /\ run[p].pc \notin {"idle", "begin"} => run[p].op \in Pending(run[p])
<1>1. run[p].todo \subseteq Op /\ run[p].op \in Op \cup {None} /\ None \notin Op
  BY InventoryAssumption DEF RunType, GoodState, HandlerState
<1>2. run[p].pc \notin {"idle", "begin"} => run[p].op \in Op
  BY DEF RunType, GoodState, Control
<1>3. QED
  BY <1>1, <1>2 DEF Pending

(* The operations that the creation of a service consists of are on that   *)
(* service.                                                                *)
LEMMA CreatePlanOwned ==
    ASSUME NEW owner, NEW p, NEW r, OwnService(owner, p, r)
    PROVE  \A o \in CreatePlan(r) : OwnService(owner, p, o)
  BY DEF CreatePlan, OwnService

(* So are those that an update consists of. *)
LEMMA UpdatePlanOwned ==
    ASSUME NEW owner, NEW p, NEW r, NEW svc, NEW current, OwnService(owner, p, r)
    PROVE  \A o \in UpdatePlan(r, svc, current) : OwnService(owner, p, o)
<1>1. \A o \in UpdatePlan(r, svc, current) : o.service = r.service /\ o.kind # "UnregisterService"
  BY DEF UpdatePlan, NewHosts, DelHosts, ModifiedHosts, ServiceDiff
<1>2. QED
  BY <1>1 DEF OwnService

(* UnregisterService plans operations on any service. *)
LEMMA UnregisterPlanOwned ==
    ASSUME TypeInv, NEW p \in Handlers, NEW owner, PlanUnregister(p),
           OwnService(owner, p, run[p].op)
    PROVE  \E ops : /\ Continue(p, ops)
                    /\ \A o \in ops : /\ OwnService(owner, p, o)
                                       /\ o.kind \in {"RemoveDependency", "DeleteService"}
<1> USE TypeInvParts DEF In
<1> DEFINE removals == {[kind |-> "RemoveDependency", at |-> i, service |-> run[p].found[i],
                         name |-> Target(p)] : i \in DOMAIN run[p].found}
           last == {[kind |-> "DeleteService", at |-> 0, service |-> Target(p)]}
<1>1. /\ run[p].op.kind = "UnregisterService" /\ run[p].found \in Seq(Services)
      /\ Target(p) \in Services
  BY InHand DEF PlanUnregister, GoodState, Control
<1>2. \A s \in Services : owner[s] = p
  BY <1>1 DEF OwnService
<1>3. \A i \in DOMAIN run[p].found : run[p].found[i] \in Services
  BY <1>1
<1>4. \A o \in removals \cup last : /\ OwnService(owner, p, o)
                                   /\ o.kind \in {"RemoveDependency", "DeleteService"}
  BY <1>1, <1>2, <1>3 DEF OwnService
<1>5. Continue(p, removals \cup last)
  BY DEF PlanUnregister
<1> HIDE DEF removals, last
<1>6. QED
  BY <1>4, <1>5

(* A step of a handler leaves the local state of the others alone. *)
LEMMA OthersKept ==
    ASSUME TypeInv, NEW p \in Handlers, Work(p)
    PROVE  \A q \in Handlers : q # p => run'[q] = run[q]
<1> USE TypeInvParts
<1>1. Begin(p) \/ Reject(p) \/ Return(p) \/ Calls(p) => \A q \in Handlers : q # p => run'[q] = run[q]
  BY BeginOps, EndOps, CallOps, GoOps DEF Reject, Return
<1>2. Plans(p) => \A q \in Handlers : q # p => run'[q] = run[q]
  BY ContinueOps, GoOps DEF Plans, GetForPut, PlanUpdate, PlanUnregister, Read
<1>3. QED
  BY <1>1, <1>2, WorkCases

(* A step of a handler leaves it with operations on its own services. *)
LEMMA WorkOwned ==
    ASSUME TypeInv, NEW p \in Handlers, NEW owner, ServicesOwned(owner), Work(p)
    PROVE  ServicesOwned(owner)'
<1> USE TypeInvParts DEF In, Read
<1>1. ASSUME \A q \in Handlers : q # p => run'[q] = run[q],
             \A o \in run'[p].todo \cup {run'[p].op} : o # None => OwnService(owner, p, o)
      PROVE  ServicesOwned(owner)'
  BY <1>1 DEF ServicesOwned, Pending
<1>2. /\ \A o \in run[p].todo : OwnService(owner, p, o)
      /\ run[p].pc \notin {"idle", "begin"} => OwnService(owner, p, run[p].op)
  BY PendingOps DEF ServicesOwned
<1>3. CASE Begin(p)
  BY <1>1, <1>2, <1>3, BeginOps
<1>4. CASE Reject(p) \/ Calls(p)
  <2>1. CASE Reject(p)
    BY <1>1, <1>2, <2>1, EndOps DEF Reject
  <2>2. CASE Calls(p) /\ (Finish(p) \/ Fail(p))
    BY <1>1, <1>2, <2>2, EndOps
  <2>3. CASE Calls(p) /\ run'[p].todo = run[p].todo /\ run'[p].op = run[p].op
    BY <1>1, <1>2, <2>3, CallOps
  <2>4. QED
    BY <1>4, <2>1, <2>2, <2>3, CallOps
<1>5. CASE Return(p)
  <2>1. run'[p] = Idle /\ \A q \in Handlers : q # p => run'[q] = run[q]
    BY <1>5, GoOps DEF Return
  <2>2. Idle.todo = {} /\ Idle.op = None
    BY DEF Idle, At
  <2>3. QED
    BY <1>1, <2>1, <2>2
<1>6. CASE GetForPut(p) /\ Current(p) = None
  <2>1. Continue(p, CreatePlan(run[p].op)) /\ OwnService(owner, p, run[p].op)
    BY <1>2, <1>6 DEF GetForPut
  <2>2. QED
    BY <1>1, <2>1, ContinueOps, CreatePlanOwned
<1>7. CASE GetForPut(p) /\ Current(p) # None
  <2> DEFINE s == [run[p] EXCEPT !.pc = "getHosts", !.cur = Current(p)]
  <2>1. Go(p, s) /\ run[p] \in HandlerState /\ run[p].pc = "get"
    BY <1>7, InHand DEF GetForPut
  <2>2. s.todo = run[p].todo /\ s.op = run[p].op
    BY <2>1 DEF HandlerState
  <2> HIDE DEF s
  <2>3. QED
    BY <1>1, <1>2, <2>1, <2>2, GoOps
<1>8. CASE PlanUpdate(p)
  <2> DEFINE plan == UpdatePlan(run[p].op, run[p].cur, run[p].found)
  <2>1. Continue(p, plan) /\ OwnService(owner, p, run[p].op)
    BY <1>2, <1>8 DEF PlanUpdate
  <2>2. \A o \in plan : OwnService(owner, p, o)
    BY <2>1, UpdatePlanOwned
  <2> HIDE DEF plan
  <2>3. QED
    BY <1>1, <2>1, <2>2, ContinueOps
<1>9. CASE PlanUnregister(p)
  <2>1. OwnService(owner, p, run[p].op)
    BY <1>2, <1>9 DEF PlanUnregister
  <2>2. PICK ops : Continue(p, ops) /\ \A o \in ops : OwnService(owner, p, o)
    BY <1>9, <2>1, UnregisterPlanOwned
  <2>3. QED
    BY <1>1, <2>2, ContinueOps
<1>10. QED
  BY <1>3, <1>4, <1>5, <1>6, <1>7, <1>8, <1>9, WorkCases DEF Plans

(* So does any step. *)
LEMMA StepOwned ==
    ASSUME TypeInv, NEW owner, ServicesApart(owner), ServicesOwned(owner), [Next]_vars
    PROVE  ServicesOwned(owner)'
<1> USE TypeInvParts
<1>1. ASSUME NEW p \in Handlers, NEW r \in Requests[p], Accept(p, r)
      PROVE  ServicesOwned(owner)'
  <2>1. Continue(p, {r}) /\ OwnService(owner, p, r)
    BY <1>1 DEF Accept, ServicesApart
  <2>2. QED
    BY <2>1, ContinueOps DEF ServicesOwned, Pending
<1>2. ASSUME NEW p \in Handlers, CallFails(p)
      PROVE  ServicesOwned(owner)'
  <2>1. Finish(p) \/ Fail(p)
    BY <1>2 DEF CallFails
  <2>2. QED
    BY <2>1, EndOps DEF ServicesOwned, Pending
<1>3. CASE Crash
  <2>1. Idle.todo = {} /\ Idle.op = None
    BY DEF Idle, At
  <2>2. QED
    BY <1>3, <2>1 DEF Crash, ServicesOwned, Pending
<1>4. CASE Tick \/ UNCHANGED vars
  BY <1>4 DEF Tick, vars, ServicesOwned, Pending
<1>5. QED
  BY <1>1, <1>2, <1>3, <1>4, WorkOwned DEF Next

(* Only PutService and the deletion of a service write services. *)
LEMMA ServicesWriters ==
    ASSUME NEW p \in Handlers, Work(p)
    PROVE  \/ services' = services
           \/ PutService(p)
           \/ /\ DeleteTree(p) /\ In(p, {"DeleteService"}, "delete")
              /\ services' = [s \in Services |-> IF Under(Target(p), s) THEN None ELSE services[s]]
<1> USE DEF ReadOnly, store
<1>1. CASE Begin(p) \/ Reject(p) \/ Return(p)
  BY <1>1 DEF Begin, Reject, Return
<1>2. CASE RunRegisterHost(p) \/ RunUnregisterHost(p) \/ RunUpdateHost(p)
  BY <1>2 DEF RunRegisterHost, RunUnregisterHost, RunUpdateHost, CheckHostName, GetForRegister,
              Register, GetForUnregister, Deregister, GetForUpdate, GetHost
<1>3. CASE RunService(p) \/ RunDependency(p) \/ RunPut(p)
  BY <1>3 DEF RunService, RunDependency, RunPut, CheckServiceName, ListServices, ScanService,
              PlanUnregister, GetForDependency, CheckPorts, GetToAppend, GetToRemove,
              GetForPut, GetHostsForPut, PlanUpdate
<1>4. CASE RunShared(p)
  BY <1>4 DEF RunShared, ReadHost, Stamp, PutHost, ProbeKey, DeleteTree
<1>5. QED
  BY <1>1, <1>2, <1>3, <1>4 DEF Work

(* A step of a handler leaves alone the services left to others, or a      *)
(* deletion of it takes them along by their prefix.                        *)
LEMMA WritesOwnServices ==
    ASSUME TypeInv, NEW p \in Handlers, NEW owner, ServicesOwned(owner), Work(p)
    PROVE  \A s \in Services : owner[s] # p =>
              /\ services'[s] \in {services[s], None}
              /\ Extends = {} => services'[s] = services[s]
<1> USE TypeInvParts
<1>1. ASSUME run[p].pc \notin {"idle", "begin"}
      PROVE  owner[Target(p)] = p /\ Target(p) \in Services
  BY <1>1, PendingOps, InHand DEF ServicesOwned, OwnService, Target
<1>2. CASE PutService(p)
  BY <1>1, <1>2 DEF PutService, StoreType
<1>3. CASE /\ In(p, {"DeleteService"}, "delete")
           /\ services' = [s \in Services |-> IF Under(Target(p), s) THEN None ELSE services[s]]
  BY <1>1, <1>3 DEF In, Under
<1>4. QED
  BY <1>2, <1>3, ServicesWriters

-----------------------------------------------------------------------------
(* The version drawn is as new as the one stored until it is written.      *)

(* Which calls lead to a label where a version is held. *)
LEMMA VersionLabels ==
    ASSUME TypeInv, NEW p \in Handlers, Work(p), HoldsVersion(run'[p])
    PROVE  /\ run[p].pc \notin {"idle", "begin"} /\ run'[p].op = run[p].op
           /\ services' = services
           /\ \/ Stamp(p) /\ run'[p].ver = clock
              \/ HoldsVersion(run[p]) /\ run'[p].ver = run[p].ver
<1> USE TypeInvParts DEF In, Read, Go, HoldsVersion
<1> DEFINE Kept == HoldsVersion(run[p]) /\ run'[p].ver = run[p].ver
<1>1. run \in [Handlers -> HandlerState]
  BY DEF RunType, GoodState
<1>2. ~Finish(p) /\ ~Fail(p)
  BY EndOps
<1>3. ~Begin(p) /\ ~Reject(p) /\ ~Return(p)
  <2>1. Return(p) => run'[p].pc = "idle"
    BY <1>1 DEF Return, Idle, At
  <2>2. QED
    BY <1>2, <2>1, BeginOps DEF Reject
<1>4. ~Plans(p)
  BY <1>1, ContinueOps DEF Plans, GetForPut, PlanUpdate, PlanUnregister, HandlerState
<1>5. Calls(p) /\ run[p].pc \notin {"idle", "begin"} /\ run'[p].op = run[p].op
  BY <1>2, <1>3, <1>4, WorkCases, CallOps
<1>6. CASE RunRegisterHost(p)
  BY <1>1, <1>2, <1>6 DEF RunRegisterHost, CheckHostName, GetForRegister, Register, HandlerState
<1>7. CASE RunUnregisterHost(p)
  BY <1>1, <1>2, <1>7 DEF RunUnregisterHost, GetForUnregister, Deregister, HandlerState
<1>8. CASE RunUpdateHost(p)
  BY <1>1, <1>2, <1>8 DEF RunUpdateHost, GetForUpdate, GetHost, HandlerState
<1>9. CASE CheckServiceName(p)
  BY <1>1, <1>2, <1>9 DEF CheckServiceName, HandlerState
<1>10. CASE ListServices(p)
  BY <1>1, <1>2, <1>10 DEF ListServices, HandlerState
<1>11. CASE ScanService(p)
  BY <1>1, <1>2, <1>11 DEF ScanService, HandlerState
<1>12. CASE GetForDependency(p) \/ CheckPorts(p)
  <2>1. CASE GetForDependency(p)
    BY <1>1, <1>2, <2>1 DEF GetForDependency, HandlerState
  <2>2. CASE CheckPorts(p)
    <3>1. run' = [run EXCEPT ![p] = [run[p] EXCEPT !.pc = "stamp"]]
      BY <1>2, <2>2 DEF CheckPorts
    <3>2. QED
      BY <1>1, <3>1 DEF HandlerState
  <2>3. QED
    BY <1>12, <2>1, <2>2
<1>13. CASE GetToAppend(p) \/ GetToRemove(p)
  BY <1>1, <1>2, <1>5, <1>13 DEF GetToAppend, GetToRemove, HandlerState, ReadOnly, store
<1>14. CASE GetHostsForPut(p)
  BY <1>1, <1>2, <1>14 DEF GetHostsForPut, HandlerState
<1>15. CASE ReadHost(p)
  BY <1>1, <1>2, <1>15 DEF ReadHost, HandlerState
<1>16. CASE Stamp(p)
  BY <1>1, <1>5, <1>16 DEF Stamp, HandlerState, ReadOnly, store
<1>17. CASE PutHost(p)
  BY <1>1, <1>5, <1>17 DEF PutHost, HandlerState
<1>18. CASE PutService(p)
  BY <1>1, <1>2, <1>18 DEF PutService, AfterPut, HandlerState
<1>19. CASE ProbeKey(p) \/ DeleteTree(p)
  BY <1>1, <1>2, <1>19 DEF ProbeKey, DeleteTree, HandlerState
<1>20. QED
  BY <1>5, <1>6, <1>7, <1>8, <1>9, <1>10, <1>11, <1>12, <1>13, <1>14, <1>15, <1>16, <1>17,
     <1>18, <1>19 DEF Calls, RunDependency, RunShared

(* Every step of a handler keeps the versions stored in the past and the   *)
(* versions drawn as new as those, and moves no stored version back.       *)
LEMMA WorkVersions ==
    ASSUME TypeInv, NEW p \in Handlers, NEW owner, ServicesOwned(owner), VersionsPast,
           AllDrawn, Work(p)
    PROVE  /\ VersionsPast' /\ AllDrawn'
           /\ \A s \in Services : services[s] # None /\ services'[s] # None
                 => services[s].version <= services'[s].version
<1> USE TypeInvParts
<1>1. clock' = clock /\ clock \in Nat
  BY DEF Work, CounterType, Begin, Reject, Return, RunRegisterHost, RunUnregisterHost,
         RunUpdateHost, RunService, RunDependency, RunPut, RunShared, CheckHostName,
         GetForRegister, Register, GetForUnregister, Deregister, GetForUpdate, GetHost,
         CheckServiceName, ListServices, ScanService, PlanUnregister, GetForDependency,
         CheckPorts, GetToAppend, GetToRemove, GetForPut, GetHostsForPut, PlanUpdate,
         ReadHost, Stamp, PutHost, PutService, ProbeKey, DeleteTree, ReadOnly
<1>2. \A s \in Services : services[s] # None => services[s].version \in Nat
  BY DEF StoreType, Service
<1>3. /\ VersionsPast'
      /\ \A s \in Services : services[s] # None /\ services'[s] # None
            => services[s].version <= services'[s].version
  <2>1. CASE services' = services
    BY <1>1, <1>2, <2>1 DEF VersionsPast
  <2>2. CASE PutService(p)
    <3>1. /\ run[p].cur \in Service /\ run[p].ver \in Nat /\ Target(p) \in Services
          /\ VersionDrawn(run[p]) /\ HoldsVersion(run[p])
      BY <2>2, InHand DEF PutService, GoodState, Control, HoldsService, HandlerState,
                          AllDrawn, HoldsVersion
    <3>2. /\ run[p].ver <= clock
          /\ services[Target(p)] # None => services[Target(p)].version <= run[p].ver
      BY <3>1 DEF VersionDrawn, Target
    <3> DEFINE new == [run[p].cur EXCEPT !.version = run[p].ver]
    <3>3. new.version = run[p].ver
      BY <3>1 DEF Service
    <3>4. services' = [services EXCEPT ![Target(p)] = new]
      BY <2>2 DEF PutService
    <3> HIDE DEF new
    <3>5. QED
      BY <1>1, <1>2, <3>1, <3>2, <3>3, <3>4 DEF VersionsPast, StoreType
  <2>3. CASE services' = [s \in Services |-> IF Under(Target(p), s) THEN None ELSE services[s]]
    BY <1>1, <1>2, <2>3 DEF VersionsPast
  <2>4. QED
    BY <2>1, <2>2, <2>3, ServicesWriters
<1>4. ASSUME NEW q \in Handlers, q # p, HoldsVersion(run'[q])
      PROVE  /\ run'[q].ver <= clock'
             /\ LET t == run'[q].op.service
                IN  services'[t] # None => services'[t].version <= run'[q].ver
  <2>1. run'[q] = run[q]
    BY <1>4, OthersKept
  <2>2. HoldsVersion(run[q]) /\ run[q].pc \notin {"idle", "begin"}
    BY <1>4, <2>1 DEF HoldsVersion
  <2>3. owner[Target(q)] = q /\ Target(q) \in Services
    BY <2>2, PendingOps, InHand DEF ServicesOwned, OwnService, Target
  <2>4. services'[Target(q)] \in {services[Target(q)], None}
    BY <1>4, <2>3, WritesOwnServices
  <2>5. VersionDrawn(run[q])
    BY DEF AllDrawn
  <2>6. QED
    BY <1>1, <2>1, <2>2, <2>4, <2>5 DEF VersionDrawn, Target
<1>5. ASSUME HoldsVersion(run'[p])
      PROVE  /\ run'[p].ver <= clock'
             /\ LET t == run'[p].op.service
                IN  services'[t] # None => services'[t].version <= run'[p].ver
  <2>1. /\ run[p].pc \notin {"idle", "begin"} /\ run'[p].op = run[p].op
        /\ services' = services
    BY <1>5, VersionLabels
  <2>2. Target(p) \in Services
    BY <2>1, InHand
  <2>3. CASE run'[p].ver = clock
    BY <1>1, <2>1, <2>2, <2>3 DEF VersionsPast, Target
  <2>4. CASE HoldsVersion(run[p]) /\ run'[p].ver = run[p].ver
    BY <1>1, <2>1, <2>4 DEF AllDrawn, VersionDrawn
  <2>5. QED
    BY <1>5, <2>3, <2>4, VersionLabels
<1>6. AllDrawn'
  BY <1>4, <1>5 DEF AllDrawn, VersionDrawn
<1>7. QED
  BY <1>3, <1>6

(* A request, a failing call, a crash and the passing of time write no     *)
(* service and draw no version.                                            *)
LEMMA EnvironmentVersions ==
    ASSUME TypeInv, VersionsPast, AllDrawn,
           \/ \E p \in Handlers : \E r \in Requests[p] : Accept(p, r)
           \/ \E p \in Handlers : CallFails(p)
           \/ Crash
           \/ Tick
           \/ UNCHANGED vars
    PROVE  VersionsPast' /\ AllDrawn' /\ services' = services
<1> USE TypeInvParts
<1>1. services' = services /\ clock' \in {clock, clock + 1}
  BY DEF Accept, CallFails, Crash, Tick, vars, store
<1>2. clock \in Nat /\ \A s \in Services : services[s] # None => services[s].version \in Nat
  BY DEF CounterType, StoreType, Service
<1>3. VersionsPast'
  BY <1>1, <1>2 DEF VersionsPast
<1>4. ASSUME NEW q \in Handlers PROVE run'[q] = run[q] \/ ~HoldsVersion(run'[q])
  <2>1. ASSUME NEW p \in Handlers, NEW r \in Requests[p], Accept(p, r)
        PROVE  run'[q] = run[q] \/ ~HoldsVersion(run'[q])
    BY <2>1, ContinueOps DEF Accept, HoldsVersion
  <2>2. ASSUME NEW p \in Handlers, CallFails(p)
        PROVE  run'[q] = run[q] \/ ~HoldsVersion(run'[q])
    BY <2>2, EndOps DEF CallFails, HoldsVersion
  <2>3. CASE Crash
    BY <2>3 DEF Crash, Idle, At, HoldsVersion
  <2>4. CASE Tick \/ UNCHANGED vars
    BY <2>4 DEF Tick, vars
  <2>5. QED
    BY <2>1, <2>2, <2>3, <2>4
<1>5. \A q \in Handlers : run[q].ver \in Nat
  BY DEF RunType, GoodState, HandlerState
<1>6. AllDrawn'
  BY <1>1, <1>2, <1>4, <1>5 DEF AllDrawn, VersionDrawn
<1>7. QED
  BY <1>1, <1>3, <1>6

(* The invariant holds at the start. *)
LEMMA InitVersions ==
    ASSUME NEW owner, InitialVersionsPast, Init
    PROVE  VersionInv(owner)
<1>1. Idle.todo = {} /\ Idle.op = None /\ Idle.pc = "idle"
  BY DEF Idle, At
<1>2. ServicesOwned(owner) /\ AllDrawn
  BY <1>1 DEF Init, ServicesOwned, Pending, AllDrawn, VersionDrawn, HoldsVersion
<1>3. VersionsPast
  BY DEF Init, InitialVersionsPast, VersionsPast
<1>4. QED
  BY <1>2, <1>3, InitType DEF VersionInv

(* The invariant is inductive, and no step from it moves a version back. *)
LEMMA StepVersions ==
    ASSUME NEW owner, ServicesApart(owner), VersionInv(owner), [Next]_vars
    PROVE  /\ VersionInv(owner)'
           /\ \A s \in Services : services[s] # None /\ services'[s] # None
                 => services[s].version <= services'[s].version
<1> USE DEF VersionInv
<1>1. TypeInv' /\ ServicesOwned(owner)'
  BY StepType, StepOwned
<1>2. CASE \E p \in Handlers : Work(p)
  BY <1>1, <1>2, WorkVersions
<1>3. CASE \/ \E p \in Handlers : \E r \in Requests[p] : Accept(p, r)
           \/ \E p \in Handlers : CallFails(p)
           \/ Crash
           \/ Tick
           \/ UNCHANGED vars
  <2>1. VersionsPast' /\ AllDrawn' /\ services' = services
    BY <1>3, EnvironmentVersions
  <2>2. \A s \in Services : services[s] # None => services[s].version \in Nat
    BY TypeInvParts DEF StoreType, Service
  <2>3. QED
    BY <1>1, <2>1, <2>2
<1>4. QED
  BY <1>2, <1>3 DEF Next

(* As long as every service is left to one handler, whatever else the      *)
(* handlers do at the same time, whichever calls fail and whenever the     *)
(* process dies, the version of a service never goes back, although it is  *)
(* drawn before the record it goes with is read again and written: it      *)
(* holds for UpdateHost, too, which draws it two writes ahead.             *)
THEOREM VersionsNeverGoBack ==
    ASSUME NEW CONSTANT owner, ServicesApart(owner), InitialVersionsPast
    PROVE  Spec => VersionsMonotone
<1>1. Init => VersionInv(owner)
  BY InitVersions
<1>2. VersionInv(owner) /\ [Next]_vars => VersionInv(owner)'
  BY StepVersions
<1>3. VersionInv(owner) /\ [Next]_vars
        => [\A s \in Services : services[s] # None /\ services'[s] # None
              => services[s].version <= services'[s].version]_vars
  BY StepVersions
<1>4. QED
  BY <1>1, <1>2, <1>3, PTL DEF Spec, VersionsMonotone
=============================================================================
