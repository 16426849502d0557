------------------------ MODULE ConsulRepositoryProofs ------------------------
(***************************************************************************)
(* The Consul implementation of the repository implements the abstract one *)
(* for every set of names none of which begins with another, every set of  *)
(* calls of the interface, and any number of failed calls to the store.    *)
(***************************************************************************)
EXTENDS ConsulRepository, TLAPS

(* The tables the store stands for, as R sees them. *)
ServiceTable == [s \in Services |-> kv[withServicePrefix(s)]]
HostTable    == [h \in Hosts |-> kv[withHostPrefix(h)]]

-----------------------------------------------------------------------------
(* The inductive invariant. *)

(* The store is a function on the keys, and services list hosts. *)
StoreOK ==
    /\ kv = [k \in Keys |-> kv[k]]
    /\ \A s \in Services : kv[withServicePrefix(s)] \in Service \cup {None}

GetOps  == ReadsOne \cup Deletes \cup {"AddServiceDependency", "RemoveServiceDependency",
                                       "SelectHostsOfService"}
ReadOps == {"SelectAllHosts", "SelectAllServices", "SelectReferringServiceNamesTo",
            "SelectHostsOfService"}

Fields(s) == s = [call |-> s.call, pc |-> s.pc, rest |-> s.rest, found |-> s.found, cur |-> s.cur]

(* What a method about to write has read is still what is stored. *)
PutOK ==
    LET c == step.call
    IN  \/ c.op \in Puts
        \/ /\ c.op = "AddServiceDependency"
           /\ Value # None /\ CanAppendDependent(Value, c.depend)
           /\ step.cur = AppendDependent(Value, c.depend)
        \/ /\ c.op = "RemoveServiceDependency"
           /\ Value # None
           /\ step.cur = RemoveDependent(Value, c.depend)
           /\ step.found = {d \in Value.deps : d.name = c.depend}

(* The names a method with many reads goes through. *)
NamesToRead(c) ==
    CASE c.op = "SelectAllHosts" -> {h \in Hosts : kv[withHostPrefix(h)] # None}
      [] c.op = "SelectHostsOfService" -> Listed(kv[withServicePrefix(c.name)])
      [] OTHER -> {s \in Services : kv[withServicePrefix(s)] # None}

RowsRead(names) == {x \in {Row(n, kv[RecordKey(n)]) : n \in names} : x.value # None}

(* What it has read so far is what is stored under the names gone through. *)
ReadOK ==
    /\ step.call.op \in ReadOps
    /\ step.call.op = "SelectHostsOfService" => Value # None
    /\ step.rest \subseteq NamesToRead(step.call)
    /\ step.found = RowsRead(NamesToRead(step.call) \ step.rest)

StepOK ==
    /\ Fields(step)
    /\ \/ step = Ready
       \/ /\ step.call \in Calls
          /\ \/ step.pc = "get" /\ step.call.op \in GetOps /\ step.found = {}
             \/ step.pc = "keys" /\ step.call.op \in ListsKeys /\ step.found = {}
             \/ step.pc = "delete" /\ step.call.op \in Deletes /\ Value # None
             \/ step.pc = "put" /\ PutOK
             \/ step.pc = "read" /\ ReadOK

RefinementInv == StoreOK /\ StepOK

-----------------------------------------------------------------------------
(* The calls. *)

(* The operation of a call tells which parameters it has. *)
LEMMA CallFields ==
    ASSUME NEW c \in Calls
    PROVE  /\ c.op = "PutHost" => c.name \in Hosts /\ c.value \in HostAttr
           /\ c.op = "PutService" => c.name \in Services /\ c.value \in Service
           /\ c.op = "AddServiceDependency" =>
                 c.name \in Services /\ c.depend \in Dependency /\ c.version \in Nat
           /\ c.op = "RemoveServiceDependency" =>
                 c.name \in Services /\ c.depend \in Services /\ c.version \in Nat
           /\ c.op \in {"SelectHostByName", "DeleteHost"} => c.name \in Hosts
           /\ c.op \in {"SelectServiceByName", "DeleteService", "SelectHostsOfService",
                        "SelectReferringServiceNamesTo"} => c.name \in Services
  <1>1. c \in Call
    BY CallsAssumption
  <1>. QED
    BY <1>1 DEF Call, HostWrite, ServiceWrite, AddCall, RemoveCall, HostCall, ServiceCall, ListCall

(* No other operation exists. *)
LEMMA CallOps ==
    ASSUME NEW c \in Calls
    PROVE  c.op \in Puts \cup GetOps \cup ListsKeys
  <1>1. c \in Call
    BY CallsAssumption
  <1>. QED
    BY <1>1 DEF Call, HostWrite, ServiceWrite, AddCall, RemoveCall, HostCall, ServiceCall, ListCall,
                Puts, GetOps, ListsKeys, ReadsOne, Deletes

(* The records a service method writes are services. *)
LEMMA Appended ==
    ASSUME NEW svc \in Service, NEW d \in Dependency, NEW v \in Nat
    PROVE  [AppendDependent(svc, d) EXCEPT !.version = v] \in Service
  BY DEF Service, AppendDependent

LEMMA Removed ==
    ASSUME NEW svc \in Service, NEW n, NEW v \in Nat
    PROVE  [RemoveDependent(svc, n) EXCEPT !.version = v] \in Service
  BY DEF Service, RemoveDependent

-----------------------------------------------------------------------------
(* The store: a write or a delete of one key changes one row of one table. *)

LEMMA KeysDistinct ==
    /\ \A s \in Services : withServicePrefix(s) \in Keys
    /\ \A h \in Hosts : withHostPrefix(h) \in Keys
    /\ \A s \in Services : \A h \in Hosts : withServicePrefix(s) # withHostPrefix(h)
    /\ \A s, t \in Services : withServicePrefix(s) = withServicePrefix(t) => s = t
    /\ \A g, h \in Hosts : withHostPrefix(g) = withHostPrefix(h) => g = h
  BY DEF withServicePrefix, withHostPrefix, Keys, hostPrefix, servicePrefix

LEMMA PutServiceRow ==
    ASSUME StoreOK, NEW s \in Services, NEW v, PutKV(withServicePrefix(s), v)
    PROVE  /\ ServiceTable' = [ServiceTable EXCEPT ![s] = v]
           /\ HostTable' = HostTable
           /\ kv' = [k \in Keys |-> kv'[k]]
  BY KeysDistinct DEF StoreOK, PutKV, ServiceTable, HostTable

LEMMA PutHostRow ==
    ASSUME StoreOK, NEW h \in Hosts, NEW v, PutKV(withHostPrefix(h), v)
    PROVE  /\ HostTable' = [HostTable EXCEPT ![h] = v]
           /\ ServiceTable' = ServiceTable
           /\ kv' = [k \in Keys |-> kv'[k]]
  BY KeysDistinct DEF StoreOK, PutKV, ServiceTable, HostTable

LEMMA DeleteOneKey ==
    ASSUME Extends = {}, NEW key \in Keys, DeleteTree(key)
    PROVE  kv' = [k \in Keys |-> IF k = key THEN None ELSE kv[k]]
  <1>1. \A k \in Keys : Under(key, k) <=> k = key
    BY DEF Under, Keys
  <1>. QED
    BY <1>1 DEF DeleteTree

LEMMA DeleteServiceRow ==
    ASSUME Extends = {}, NEW s \in Services, DeleteTree(withServicePrefix(s))
    PROVE  /\ ServiceTable' = [ServiceTable EXCEPT ![s] = None]
           /\ HostTable' = HostTable
           /\ kv' = [k \in Keys |-> kv'[k]]
  <1>1. kv' = [k \in Keys |-> IF k = withServicePrefix(s) THEN None ELSE kv[k]]
    BY DeleteOneKey, KeysDistinct
  <1>. QED
    BY <1>1, KeysDistinct DEF ServiceTable, HostTable

LEMMA DeleteHostRow ==
    ASSUME Extends = {}, NEW h \in Hosts, DeleteTree(withHostPrefix(h))
    PROVE  /\ HostTable' = [HostTable EXCEPT ![h] = None]
           /\ ServiceTable' = ServiceTable
           /\ kv' = [k \in Keys |-> kv'[k]]
  <1>1. kv' = [k \in Keys |-> IF k = withHostPrefix(h) THEN None ELSE kv[k]]
    BY DeleteOneKey, KeysDistinct
  <1>. QED
    BY <1>1, KeysDistinct DEF ServiceTable, HostTable

(* The tables tell whether the store is well-formed. *)
LEMMA StoreFromTables ==
    ASSUME kv' = [k \in Keys |-> kv'[k]],
           \A s \in Services : ServiceTable'[s] \in Service \cup {None}
    PROVE  StoreOK'
  BY DEF StoreOK, ServiceTable

-----------------------------------------------------------------------------
(* The writes of a method do to the tables what the abstract call does.    *)

(* A method that is about to write. *)
LEMMA PutCases ==
    ASSUME RefinementInv, step.pc = "put"
    PROVE  step.call \in Calls /\ PutOK
  BY DEF RefinementInv, StepOK, Ready, Busy

LEMMA PutEffect ==
    ASSUME RefinementInv, step.pc = "put", PutKV(KeyOf(step.call), ValueToPut)
    PROVE  /\ StoreOK'
           /\ ServiceTable' = R!ServicesAfter(step.call)
           /\ HostTable' = R!HostsAfter(step.call)
  <1>. DEFINE c == step.call
  <1>1. c \in Calls /\ PutOK
    BY PutCases
  <1>2. StoreOK
    BY DEF RefinementInv
  <1>3. CASE c.op = "PutHost"
    <2>1. c.name \in Hosts /\ PutKV(withHostPrefix(c.name), c.value)
      BY <1>1, <1>3, CallFields DEF KeyOf, OfHosts, ValueToPut, Puts
    <2>2. HostTable' = [HostTable EXCEPT ![c.name] = c.value] /\ ServiceTable' = ServiceTable
          /\ kv' = [k \in Keys |-> kv'[k]]
      BY <1>2, <2>1, PutHostRow
    <2>3. StoreOK'
      BY <1>2, <2>2, StoreFromTables DEF StoreOK, ServiceTable
    <2>. QED
      BY <1>3, <2>2, <2>3 DEF R!ServicesAfter, R!HostsAfter, ServiceTable, HostTable
  <1>4. CASE c.op = "PutService"
    <2>1. /\ c.name \in Services /\ c.value \in Service
          /\ PutKV(withServicePrefix(c.name), c.value)
      BY <1>1, <1>4, CallFields DEF KeyOf, OfHosts, ValueToPut, Puts
    <2>2. ServiceTable' = [ServiceTable EXCEPT ![c.name] = c.value] /\ HostTable' = HostTable
          /\ kv' = [k \in Keys |-> kv'[k]]
      BY <1>2, <2>1, PutServiceRow
    <2>3. StoreOK'
      BY <1>2, <2>1, <2>2, StoreFromTables DEF StoreOK, ServiceTable
    <2>. QED
      BY <1>4, <2>2, <2>3 DEF R!ServicesAfter, R!HostsAfter, ServiceTable, HostTable
  <1>5. CASE c.op = "AddServiceDependency"
    <2>. DEFINE old == kv[withServicePrefix(c.name)]
                new == [AppendDependent(old, c.depend) EXCEPT !.version = c.version]
    <2>1. c.name \in Services /\ c.depend \in Dependency /\ c.version \in Nat
      BY <1>1, <1>5, CallFields
    <2>2. Value = old
      BY <1>5 DEF Value, KeyOf, OfHosts, GetKV
    <2>3. old # None /\ CanAppendDependent(old, c.depend) /\ step.cur = AppendDependent(old, c.depend)
      BY <1>1, <1>5, <2>2 DEF PutOK, Puts
    <2>4. old \in Service
      BY <1>2, <2>1, <2>3 DEF StoreOK
    <2>5. new \in Service
      BY <2>1, <2>4, Appended
    <2>6. PutKV(withServicePrefix(c.name), new)
      BY <1>5, <2>3 DEF KeyOf, OfHosts, ValueToPut, Puts
    <2>7. ServiceTable' = [ServiceTable EXCEPT ![c.name] = new] /\ HostTable' = HostTable
          /\ kv' = [k \in Keys |-> kv'[k]]
      BY <1>2, <2>1, <2>6, PutServiceRow
    <2>8. StoreOK'
      BY <1>2, <2>1, <2>5, <2>7, StoreFromTables DEF StoreOK, ServiceTable
    <2>9. ServiceTable[c.name] = old
      BY <2>1 DEF ServiceTable
    <2>. QED
      BY <1>5, <2>1, <2>3, <2>7, <2>8, <2>9
      DEF R!ServicesAfter, R!HostsAfter, R!Appends, R!Known, R!CanAppendDependent,
          R!AppendDependent, CanAppendDependent, AppendDependent, ServiceTable, HostTable
  <1>6. CASE c.op = "RemoveServiceDependency"
    <2>. DEFINE old == kv[withServicePrefix(c.name)]
                new == [RemoveDependent(old, c.depend) EXCEPT !.version = c.version]
    <2>1. c.name \in Services /\ c.depend \in Services /\ c.version \in Nat
      BY <1>1, <1>6, CallFields
    <2>2. Value = old
      BY <1>6 DEF Value, KeyOf, OfHosts, GetKV
    <2>3. old # None /\ step.cur = RemoveDependent(old, c.depend)
      BY <1>1, <1>6, <2>2 DEF PutOK, Puts
    <2>4. old \in Service
      BY <1>2, <2>1, <2>3 DEF StoreOK
    <2>5. new \in Service
      BY <2>1, <2>4, Removed
    <2>6. PutKV(withServicePrefix(c.name), new)
      BY <1>6, <2>3 DEF KeyOf, OfHosts, ValueToPut, Puts
    <2>7. ServiceTable' = [ServiceTable EXCEPT ![c.name] = new] /\ HostTable' = HostTable
          /\ kv' = [k \in Keys |-> kv'[k]]
      BY <1>2, <2>1, <2>6, PutServiceRow
    <2>8. StoreOK'
      BY <1>2, <2>1, <2>5, <2>7, StoreFromTables DEF StoreOK, ServiceTable
    <2>9. ServiceTable[c.name] = old
      BY <2>1 DEF ServiceTable
    <2>. QED
      BY <1>6, <2>1, <2>3, <2>7, <2>8, <2>9
      DEF R!ServicesAfter, R!HostsAfter, R!Known, R!RemoveDependent, RemoveDependent,
          ServiceTable, HostTable
  <1>. QED
    BY <1>1, <1>3, <1>4, <1>5, <1>6 DEF PutOK, Puts

LEMMA DeleteEffect ==
    ASSUME Extends = {}, RefinementInv, step.pc = "delete", DeleteTree(KeyOf(step.call))
    PROVE  /\ StoreOK'
           /\ ServiceTable' = R!ServicesAfter(step.call)
           /\ HostTable' = R!HostsAfter(step.call)
  <1>. DEFINE c == step.call
  <1>1. c \in Calls /\ c.op \in Deletes /\ StoreOK
    BY DEF RefinementInv, StepOK, Ready, Busy
  <1>2. CASE c.op = "DeleteHost"
    <2>1. c.name \in Hosts /\ DeleteTree(withHostPrefix(c.name))
      BY <1>1, <1>2, CallFields DEF KeyOf, OfHosts
    <2>2. HostTable' = [HostTable EXCEPT ![c.name] = None] /\ ServiceTable' = ServiceTable
          /\ kv' = [k \in Keys |-> kv'[k]]
      BY <2>1, DeleteHostRow
    <2>3. StoreOK'
      BY <1>1, <2>2, StoreFromTables DEF StoreOK, ServiceTable
    <2>. QED
      BY <1>2, <2>2, <2>3 DEF R!ServicesAfter, R!HostsAfter, ServiceTable, HostTable
  <1>3. CASE c.op = "DeleteService"
    <2>1. c.name \in Services /\ DeleteTree(withServicePrefix(c.name))
      BY <1>1, <1>3, CallFields DEF KeyOf, OfHosts
    <2>2. ServiceTable' = [ServiceTable EXCEPT ![c.name] = None] /\ HostTable' = HostTable
          /\ kv' = [k \in Keys |-> kv'[k]]
      BY <2>1, DeleteServiceRow
    <2>3. StoreOK'
      BY <1>1, <2>1, <2>2, StoreFromTables DEF StoreOK, ServiceTable
    <2>. QED
      BY <1>3, <2>2, <2>3 DEF R!ServicesAfter, R!HostsAfter, ServiceTable, HostTable
  <1>. QED
    BY <1>1, <1>2, <1>3 DEF Deletes

-----------------------------------------------------------------------------
(* Steps of the implementation and steps of R. *)

LEMMA Stutter ==
    ASSUME UNCHANGED <<kv, consulAnswer, outages>>
    PROVE  UNCHANGED R!repoVars
  BY DEF R!repoVars, R!tables, withServicePrefix, withHostPrefix

LEMMA Performed ==
    ASSUME NEW c \in Calls,
           ServiceTable' = R!ServicesAfter(c), HostTable' = R!HostsAfter(c), UNCHANGED outages,
           consulAnswer' = IF R!Refused(c) THEN Failure(c)
                           ELSE Answer(c, R!Succeeds(c), R!Selected(c))
    PROVE  R!RepoNext
  <1>1. R!Perform(c)
    BY DEF R!Perform, R!Failure, R!Answer, Failure, Answer, ServiceTable, HostTable
  <1>. QED
    BY <1>1 DEF R!RepoNext

LEMMA NothingWritten ==
    ASSUME NEW c, c.op \notin {"PutHost", "PutService", "DeleteHost", "DeleteService",
                              "AddServiceDependency", "RemoveServiceDependency"}
    PROVE  R!ServicesAfter(c) = ServiceTable /\ R!HostsAfter(c) = HostTable
  BY DEF R!ServicesAfter, R!HostsAfter, ServiceTable, HostTable

LEMMA TablesKept ==
    ASSUME UNCHANGED kv
    PROVE  ServiceTable' = ServiceTable /\ HostTable' = HostTable /\ (StoreOK => StoreOK')
  BY DEF ServiceTable, HostTable, StoreOK, withServicePrefix, withHostPrefix

(* Between two methods nothing is held. *)
LEMMA Returned ==
    ASSUME StoreOK', step' = Ready
    PROVE  RefinementInv'
  BY DEF RefinementInv, StepOK, Fields, Ready, Busy

(* The method in progress. *)
LEMMA InProgress ==
    ASSUME RefinementInv, step.pc # "ready"
    PROVE  /\ step.call \in Calls /\ StoreOK
           /\ step.pc = "get" => step.call.op \in GetOps /\ step.found = {}
           /\ step.pc = "keys" => step.call.op \in ListsKeys /\ step.found = {}
           /\ step.pc = "delete" => step.call.op \in Deletes /\ Value # None
           /\ step.pc = "put" => PutOK
           /\ step.pc = "read" => ReadOK
           /\ step.pc \in {"get", "keys", "delete", "put", "read"}
           /\ Fields(step)
  BY DEF RefinementInv, StepOK, Ready, Busy

(* What Value is, for a call on a host and for one on a service. *)
LEMMA ValueOf ==
    ASSUME step.call \in Calls
    PROVE  /\ step.call.op \in {"SelectHostByName", "DeleteHost"} =>
                 Value = HostTable[step.call.name] /\ step.call.name \in Hosts
           /\ step.call.op \in {"SelectServiceByName", "DeleteService", "SelectHostsOfService",
                                "AddServiceDependency", "RemoveServiceDependency"} =>
                 /\ Value = ServiceTable[step.call.name]
                 /\ Value = kv[withServicePrefix(step.call.name)]
                 /\ step.call.name \in Services
  BY CallFields DEF Value, KeyOf, OfHosts, GetKV, HostTable, ServiceTable

LEMMA BeginStep ==
    ASSUME RefinementInv, NEW c \in Calls, Begin(c)
    PROVE  RefinementInv' /\ UNCHANGED R!repoVars
  <1>1. UNCHANGED <<kv, consulAnswer, outages>>
    BY DEF Begin, Proceed
  <1>2. StoreOK'
    BY <1>1, TablesKept DEF RefinementInv
  <1>3. c.op \in Puts \cup GetOps \cup ListsKeys
    BY CallOps
  <1>4. step' = Busy(c, CASE c.op \in Puts -> "put" [] c.op \in ListsKeys -> "keys" [] OTHER -> "get")
    BY DEF Begin, Proceed
  <1>5. Fields(step)'
    BY <1>4 DEF Fields, Busy
  <1>6. step'.call = c /\ step'.found = {}
    BY <1>4 DEF Busy
  <1>7. CASE c.op \in Puts
    <2>1. step'.pc = "put"
      BY <1>4, <1>7 DEF Busy, Puts, ListsKeys
    <2>. QED
      BY <1>1, <1>2, <1>5, <1>6, <1>7, <2>1, Stutter DEF RefinementInv, StepOK, PutOK
  <1>8. CASE c.op \in ListsKeys
    <2>1. step'.pc = "keys"
      BY <1>4, <1>8 DEF Busy, Puts, ListsKeys
    <2>. QED
      BY <1>1, <1>2, <1>5, <1>6, <1>8, <2>1, Stutter DEF RefinementInv, StepOK
  <1>9. CASE c.op \notin Puts /\ c.op \notin ListsKeys
    <2>1. step'.pc = "get"
      BY <1>4, <1>9 DEF Busy
    <2>. QED
      BY <1>1, <1>2, <1>3, <1>5, <1>6, <1>9, <2>1, Stutter DEF RefinementInv, StepOK
  <1>. QED
    BY <1>7, <1>8, <1>9

LEMMA GetRecordStep ==
    ASSUME RefinementInv, GetRecord
    PROVE  RefinementInv' /\ R!RepoNext
  <1>. DEFINE c == step.call
  <1>1. c \in Calls /\ c.op \in ReadsOne /\ UNCHANGED <<kv, outages>> /\ step' = Ready
        /\ consulAnswer' = Answer(c, Value # None, {Row(c.name, v) : v \in {Value} \ {None}})
    BY InProgress DEF GetRecord, Doing, Respond, Return, StoreUnchanged
  <1>2. RefinementInv'
    BY <1>1, TablesKept, Returned DEF RefinementInv
  <1>3. ServiceTable' = R!ServicesAfter(c) /\ HostTable' = R!HostsAfter(c)
    BY <1>1, TablesKept, NothingWritten DEF ReadsOne
  <1>4. ~R!Refused(c)
    BY <1>1 DEF R!Refused, ReadsOne
  <1>5. (Value # None) = R!Succeeds(c)
    BY <1>1, ValueOf DEF R!Succeeds, R!Known, ReadsOne, ServiceTable, HostTable
  <1>6. {Row(c.name, v) : v \in {Value} \ {None}} = R!Selected(c)
    <2>1. CASE c.op = "SelectHostByName"
      <3>1. R!Selected(c) = {R!Row(n, HostTable[n]) : n \in {c.name} \cap {h \in Hosts : HostTable[h] # None}}
        BY <2>1 DEF R!Selected, R!RowsOf, R!Present, HostTable
      <3>. QED
        BY <1>1, <2>1, <3>1, ValueOf DEF Row, R!Row
    <2>2. CASE c.op = "SelectServiceByName"
      <3>1. R!Selected(c) = {R!Row(n, ServiceTable[n]) : n \in {c.name} \cap {s \in Services : ServiceTable[s] # None}}
        BY <2>2 DEF R!Selected, R!RowsOf, R!Present, ServiceTable
      <3>. QED
        BY <1>1, <2>2, <3>1, ValueOf DEF Row, R!Row
    <2>. QED
      BY <1>1, <2>1, <2>2 DEF ReadsOne
  <1>. QED
    BY <1>1, <1>2, <1>3, <1>4, <1>5, <1>6, Performed

LEMMA ProbeKeyStep ==
    ASSUME RefinementInv, ProbeKey
    PROVE  RefinementInv' /\ (R!RepoNext \/ UNCHANGED R!repoVars)
  <1>. DEFINE c == step.call
  <1>1. /\ c \in Calls /\ c.op \in Deletes /\ step.pc = "get" /\ StoreOK /\ Fields(step)
        /\ UNCHANGED <<kv, outages>>
    BY InProgress DEF ProbeKey, Doing, StoreUnchanged
  <1>2. CASE Value = None
    <2>1. step' = Ready /\ consulAnswer' = Answer(c, FALSE, {})
      BY <1>2 DEF ProbeKey, Respond, Return, Proceed
    <2>2. RefinementInv'
      BY <1>1, <2>1, TablesKept, Returned
    <2>3. ServiceTable' = R!ServicesAfter(c) /\ HostTable' = R!HostsAfter(c)
      <3>1. CASE c.op = "DeleteHost"
        <4>1. [HostTable EXCEPT ![c.name] = None] = HostTable
          BY <1>1, <1>2, <3>1, ValueOf DEF HostTable
        <4>. QED
          BY <1>1, <3>1, <4>1, TablesKept DEF R!ServicesAfter, R!HostsAfter, ServiceTable, HostTable
      <3>2. CASE c.op = "DeleteService"
        <4>1. [ServiceTable EXCEPT ![c.name] = None] = ServiceTable
          BY <1>1, <1>2, <3>2, ValueOf DEF ServiceTable
        <4>. QED
          BY <1>1, <3>2, <4>1, TablesKept DEF R!ServicesAfter, R!HostsAfter, ServiceTable, HostTable
      <3>. QED
        BY <1>1, <3>1, <3>2 DEF Deletes
    <2>4. ~R!Refused(c) /\ R!Selected(c) = {}
      BY <1>1 DEF R!Refused, R!Selected, Deletes
    <2>5. R!Succeeds(c) = FALSE
      BY <1>1, <1>2, ValueOf DEF R!Succeeds, R!Known, Deletes, ServiceTable, HostTable
    <2>. QED
      BY <1>1, <2>1, <2>2, <2>3, <2>4, <2>5, Performed
  <1>3. CASE Value # None
    <2>1. step' = [step EXCEPT !.pc = "delete"] /\ UNCHANGED consulAnswer
      BY <1>3 DEF ProbeKey, Respond, Return, Proceed
    <2>2. step'.call = c /\ step'.pc = "delete" /\ Fields(step)'
      BY <1>1, <2>1 DEF Fields
    <2>3. Value' = Value
      BY <1>1, <2>2 DEF Value, GetKV, KeyOf, withHostPrefix, withServicePrefix
    <2>4. StoreOK'
      BY <1>1, TablesKept
    <2>5. RefinementInv'
      BY <1>1, <1>3, <2>2, <2>3, <2>4 DEF RefinementInv, StepOK
    <2>. QED
      BY <1>1, <2>1, <2>5, Stutter
  <1>. QED
    BY <1>2, <1>3

LEMMA GetToAppendStep ==
    ASSUME RefinementInv, GetToAppend
    PROVE  RefinementInv' /\ (R!RepoNext \/ UNCHANGED R!repoVars)
  <1>. DEFINE c == step.call
              ok == Value # None /\ CanAppendDependent(Value, c.depend)
  <1>1. /\ c \in Calls /\ c.op = "AddServiceDependency" /\ step.pc = "get" /\ StoreOK
        /\ Fields(step) /\ UNCHANGED <<kv, outages>>
    BY InProgress DEF GetToAppend, Doing, StoreUnchanged
  <1>2. ok = R!Appends(c)
    BY <1>1, ValueOf DEF R!Appends, R!Known, R!CanAppendDependent, CanAppendDependent, ServiceTable
  <1>3. CASE ~ok
    <2>1. step' = Ready /\ consulAnswer' = Failure(c)
      BY <1>3 DEF GetToAppend, Return
    <2>2. RefinementInv'
      BY <1>1, <2>1, TablesKept, Returned
    <2>3. ServiceTable' = R!ServicesAfter(c) /\ HostTable' = R!HostsAfter(c)
      BY <1>1, <1>2, <1>3, TablesKept DEF R!ServicesAfter, R!HostsAfter, ServiceTable, HostTable
    <2>4. R!Refused(c)
      BY <1>1, <1>2, <1>3 DEF R!Refused
    <2>. QED
      BY <1>1, <2>1, <2>2, <2>3, <2>4, Performed
  <1>4. CASE ok
    <2>1. /\ step' = [step EXCEPT !.pc = "put", !.cur = AppendDependent(Value, c.depend)]
          /\ UNCHANGED consulAnswer
      BY <1>4 DEF GetToAppend, Return, Proceed
    <2>2. /\ step'.call = c /\ step'.pc = "put" /\ Fields(step)'
          /\ step'.cur = AppendDependent(Value, c.depend)
      BY <1>1, <2>1 DEF Fields
    <2>3. Value' = Value
      BY <1>1, <2>2 DEF Value, GetKV, KeyOf, withHostPrefix, withServicePrefix
    <2>4. StoreOK'
      BY <1>1, TablesKept
    <2>5. PutOK'
      BY <1>1, <1>4, <2>2, <2>3 DEF PutOK
    <2>6. RefinementInv'
      BY <1>1, <2>2, <2>4, <2>5 DEF RefinementInv, StepOK
    <2>. QED
      BY <1>1, <2>1, <2>6, Stutter
  <1>. QED
    BY <1>3, <1>4

LEMMA GetToRemoveStep ==
    ASSUME RefinementInv, GetToRemove
    PROVE  RefinementInv' /\ (R!RepoNext \/ UNCHANGED R!repoVars)
  <1>. DEFINE c == step.call
  <1>1. /\ c \in Calls /\ c.op = "RemoveServiceDependency" /\ step.pc = "get" /\ StoreOK
        /\ Fields(step) /\ UNCHANGED <<kv, outages>>
    BY InProgress DEF GetToRemove, Doing, StoreUnchanged
  <1>2. (Value # None) = R!Known(c)
    BY <1>1, ValueOf DEF R!Known, ServiceTable
  <1>3. CASE Value = None
    <2>1. step' = Ready /\ consulAnswer' = Answer(c, FALSE, {})
      BY <1>3 DEF GetToRemove, Respond, Return, Proceed
    <2>2. RefinementInv'
      BY <1>1, <2>1, TablesKept, Returned
    <2>3. ServiceTable' = R!ServicesAfter(c) /\ HostTable' = R!HostsAfter(c)
      BY <1>1, <1>2, <1>3, TablesKept DEF R!ServicesAfter, R!HostsAfter, ServiceTable, HostTable
    <2>4. ~R!Refused(c) /\ R!Selected(c) = {} /\ R!Succeeds(c) = FALSE
      BY <1>1, <1>2, <1>3 DEF R!Refused, R!Selected, R!Succeeds
    <2>. QED
      BY <1>1, <2>1, <2>2, <2>3, <2>4, Performed
  <1>4. CASE Value # None
    <2>1. /\ step' = [step EXCEPT !.pc = "put", !.cur = RemoveDependent(Value, c.depend),
                                  !.found = {d \in Value.deps : d.name = c.depend}]
          /\ UNCHANGED consulAnswer
      BY <1>4 DEF GetToRemove, Respond, Return, Proceed
    <2>2. /\ step'.call = c /\ step'.pc = "put" /\ Fields(step)'
          /\ step'.cur = RemoveDependent(Value, c.depend)
          /\ step'.found = {d \in Value.deps : d.name = c.depend}
      BY <1>1, <2>1 DEF Fields
    <2>3. Value' = Value
      BY <1>1, <2>2 DEF Value, GetKV, KeyOf, withHostPrefix, withServicePrefix
    <2>4. StoreOK'
      BY <1>1, TablesKept
    <2>5. PutOK'
      BY <1>1, <1>4, <2>2, <2>3 DEF PutOK
    <2>6. RefinementInv'
      BY <1>1, <2>2, <2>4, <2>5 DEF RefinementInv, StepOK
    <2>. QED
      BY <1>1, <2>1, <2>6, Stutter
  <1>. QED
    BY <1>3, <1>4

(* What is read from now on depends on the call and the store only. *)
LEMMA ReadsKept ==
    ASSUME UNCHANGED kv, step'.call = step.call
    PROVE  /\ Value' = Value
           /\ NamesToRead(step.call)' = NamesToRead(step.call)
           /\ \A names : RowsRead(names)' = RowsRead(names)
  BY DEF Value, GetKV, KeyOf, withHostPrefix, withServicePrefix, NamesToRead, RowsRead, RecordKey

LEMMA GetListedStep ==
    ASSUME RefinementInv, GetListed
    PROVE  RefinementInv' /\ (R!RepoNext \/ UNCHANGED R!repoVars)
  <1>. DEFINE c == step.call
  <1>1. /\ c \in Calls /\ c.op = "SelectHostsOfService" /\ step.pc = "get" /\ StoreOK
        /\ Fields(step) /\ UNCHANGED <<kv, outages>> /\ step.found = {}
    BY InProgress DEF GetListed, Doing, StoreUnchanged
  <1>2. (Value # None) = R!Known(c)
    BY <1>1, ValueOf DEF R!Known, ServiceTable
  <1>3. CASE Value = None
    <2>1. step' = Ready /\ consulAnswer' = Failure(c)
      BY <1>3 DEF GetListed, Return, Proceed
    <2>2. RefinementInv'
      BY <1>1, <2>1, TablesKept, Returned
    <2>3. ServiceTable' = R!ServicesAfter(c) /\ HostTable' = R!HostsAfter(c)
      BY <1>1, TablesKept, NothingWritten
    <2>4. R!Refused(c)
      BY <1>1, <1>2, <1>3 DEF R!Refused
    <2>. QED
      BY <1>1, <2>1, <2>2, <2>3, <2>4, Performed
  <1>4. CASE Value # None
    <2>1. step' = [step EXCEPT !.pc = "read", !.rest = Listed(Value)] /\ UNCHANGED consulAnswer
      BY <1>4 DEF GetListed, Return, Proceed
    <2>2. /\ step'.call = c /\ step'.pc = "read" /\ Fields(step)'
          /\ step'.rest = Listed(Value) /\ step'.found = {}
      BY <1>1, <2>1 DEF Fields
    <2>3. Value' = Value /\ NamesToRead(c)' = NamesToRead(c)
      BY <1>1, <2>2, ReadsKept
    <2>4. NamesToRead(c) = Listed(Value)
      BY <1>1, ValueOf DEF NamesToRead
    <2>5. StoreOK'
      BY <1>1, TablesKept
    <2>6. RowsRead({})' = {}
      BY DEF RowsRead
    <2>7. ReadOK'
      <3>1. NamesToRead(step.call)' = Listed(Value)
        BY <2>3, <2>4
      <3>2. (NamesToRead(step.call) \ step.rest)' = {}
        BY <2>2, <3>1
      <3>. QED
        BY <1>1, <1>4, <2>2, <2>3, <2>6, <3>1, <3>2 DEF ReadOK, ReadOps
    <2>8. RefinementInv'
      BY <1>1, <2>2, <2>5, <2>7 DEF RefinementInv, StepOK
    <2>. QED
      BY <1>1, <2>1, <2>8, Stutter
  <1>. QED
    BY <1>3, <1>4

LEMMA SubKeyNames ==
    /\ GetSubKeyNames(hostPrefix) = {h \in Hosts : HostTable[h] # None}
    /\ GetSubKeyNames(servicePrefix) = {s \in Services : ServiceTable[s] # None}
  <1>1. GetSubKeyNames(hostPrefix) = {h \in Hosts : HostTable[h] # None}
    BY DEF GetSubKeyNames, HostTable, withHostPrefix, Keys, hostPrefix, servicePrefix
  <1>2. GetSubKeyNames(servicePrefix) = {s \in Services : ServiceTable[s] # None}
    BY DEF GetSubKeyNames, ServiceTable, withServicePrefix, Keys, hostPrefix, servicePrefix
  <1>. QED
    BY <1>1, <1>2

LEMMA ListNamesStep ==
    ASSUME RefinementInv, ListNames
    PROVE  RefinementInv' /\ (R!RepoNext \/ UNCHANGED R!repoVars)
  <1>. DEFINE c == step.call
              names == GetSubKeyNames(PrefixOf(c))
  <1>1. /\ c \in Calls /\ c.op \in ListsKeys /\ step.pc = "keys" /\ StoreOK
        /\ Fields(step) /\ UNCHANGED <<kv, outages>> /\ step.found = {}
    BY InProgress DEF ListNames, Doing, StoreUnchanged
  <1>2. CASE c.op \in {"SelectAllHostNames", "SelectAllServiceNames"}
    <2>1. step' = Ready /\ consulAnswer' = Answer(c, TRUE, names)
      BY <1>2 DEF ListNames, Respond, Return
    <2>2. RefinementInv'
      BY <1>1, <2>1, TablesKept, Returned
    <2>3. ServiceTable' = R!ServicesAfter(c) /\ HostTable' = R!HostsAfter(c)
      BY <1>1, <1>2, TablesKept, NothingWritten
    <2>4. ~R!Refused(c) /\ R!Succeeds(c)
      BY <1>2 DEF R!Refused, R!Succeeds
    <2>5. R!Selected(c) = names
      <3>1. CASE c.op = "SelectAllHostNames"
        <4>1. PrefixOf(c) = hostPrefix
          BY <3>1 DEF PrefixOf, OfHosts
        <4>2. R!Selected(c) = {h \in Hosts : HostTable[h] # None}
          BY <3>1 DEF R!Selected, R!Present, HostTable
        <4>. QED
          BY <4>1, <4>2, SubKeyNames
      <3>2. CASE c.op = "SelectAllServiceNames"
        <4>1. PrefixOf(c) = servicePrefix
          BY <3>2 DEF PrefixOf, OfHosts
        <4>2. R!Selected(c) = {s \in Services : ServiceTable[s] # None}
          BY <3>2 DEF R!Selected, R!Present, ServiceTable
        <4>. QED
          BY <4>1, <4>2, SubKeyNames
      <3>. QED
        BY <1>2, <3>1, <3>2
    <2>. QED
      BY <1>1, <2>1, <2>2, <2>3, <2>4, <2>5, Performed
  <1>3. CASE c.op \notin {"SelectAllHostNames", "SelectAllServiceNames"}
    <2>1. step' = [step EXCEPT !.pc = "read", !.rest = names] /\ UNCHANGED consulAnswer
      BY <1>3 DEF ListNames, Proceed
    <2>2. /\ step'.call = c /\ step'.pc = "read" /\ Fields(step)'
          /\ step'.rest = names /\ step'.found = {}
      BY <1>1, <2>1 DEF Fields
    <2>3. c.op \in {"SelectAllHosts", "SelectAllServices", "SelectReferringServiceNamesTo"}
      BY <1>1, <1>3 DEF ListsKeys
    <2>4. NamesToRead(c) = names
      BY <2>3, SubKeyNames DEF NamesToRead, PrefixOf, OfHosts, HostTable, ServiceTable
    <2>5. NamesToRead(c)' = NamesToRead(c)
      BY <1>1, <2>2, ReadsKept
    <2>6. RowsRead({})' = {}
      BY DEF RowsRead
    <2>7. (NamesToRead(step.call) \ step.rest)' = {}
      BY <2>2, <2>4, <2>5
    <2>8. ReadOK'
      BY <2>2, <2>3, <2>4, <2>5, <2>6, <2>7 DEF ReadOK, ReadOps
    <2>9. RefinementInv'
      BY <1>1, <2>2, <2>8, TablesKept DEF RefinementInv, StepOK
    <2>. QED
      BY <1>1, <2>1, <2>9, Stutter
  <1>. QED
    BY <1>2, <1>3

LEMMA ReadNextStep ==
    ASSUME RefinementInv, ReadNext
    PROVE  RefinementInv' /\ UNCHANGED R!repoVars
  <1>. DEFINE c == step.call
              all == NamesToRead(c)
  <1>1. /\ c \in Calls /\ step.pc = "read" /\ StoreOK /\ Fields(step) /\ ReadOK
        /\ UNCHANGED <<kv, outages>>
    BY InProgress DEF ReadNext, StoreUnchanged
  <1>2. PICK n \in step.rest :
          /\ step' = [step EXCEPT !.rest = @ \ {n},
                         !.found = @ \cup {Row(n, v) : v \in {GetKV(RecordKey(n))} \ {None}}]
          /\ UNCHANGED consulAnswer
    BY DEF ReadNext, Proceed
  <1>3. /\ step'.call = c /\ step'.pc = "read" /\ Fields(step)' /\ step'.rest = step.rest \ {n}
        /\ step'.found = step.found \cup {Row(n, v) : v \in {GetKV(RecordKey(n))} \ {None}}
    BY <1>1, <1>2 DEF Fields
  <1>4. /\ Value' = Value /\ NamesToRead(c)' = all
        /\ \A names : RowsRead(names)' = RowsRead(names)
    BY <1>1, <1>3, ReadsKept
  <1>5. {Row(n, v) : v \in {GetKV(RecordKey(n))} \ {None}} = RowsRead({n})
    BY DEF RowsRead, Row, GetKV
  <1>6. RowsRead(all \ step.rest) \cup RowsRead({n}) = RowsRead((all \ step.rest) \cup {n})
    BY DEF RowsRead
  <1>7. (all \ step.rest) \cup {n} = all \ (step.rest \ {n})
    BY <1>1 DEF ReadOK
  <1>8. step'.found = RowsRead(all \ (step.rest \ {n}))
    BY <1>1, <1>3, <1>5, <1>6, <1>7 DEF ReadOK
  <1>9. ReadOK'
    BY <1>1, <1>3, <1>4, <1>8 DEF ReadOK
  <1>10. RefinementInv'
    BY <1>1, <1>3, <1>9, TablesKept DEF RefinementInv, StepOK
  <1>. QED
    BY <1>1, <1>2, <1>10, Stutter

(* The rows read are the rows of the table that holds the records. *)
LEMMA RowsOfTable ==
    ASSUME NEW names, NEW table, \A n \in names : kv[RecordKey(n)] = table[n]
    PROVE  RowsRead(names) = {Row(n, table[n]) : n \in {x \in names : table[x] # None}}
  <1>1. {Row(n, kv[RecordKey(n)]) : n \in names} = {Row(n, table[n]) : n \in names}
    OBVIOUS
  <1>2. {x \in {Row(n, table[n]) : n \in names} : x.value # None}
          = {Row(n, table[n]) : n \in {x \in names : table[x] # None}}
    BY DEF Row
  <1>. QED
    BY <1>1, <1>2 DEF RowsRead

LEMMA ReturnReadStep ==
    ASSUME RefinementInv, ReturnRead
    PROVE  RefinementInv' /\ R!RepoNext
  <1>. DEFINE c == step.call
              rows == IF c.op = "SelectReferringServiceNamesTo"
                      THEN {r.name : r \in {x \in step.found : RefersTo(x.value, c.name)}}
                      ELSE step.found
  <1>1. /\ c \in Calls /\ StoreOK /\ ReadOK /\ step.rest = {}
        /\ UNCHANGED <<kv, outages>> /\ step' = Ready /\ consulAnswer' = Answer(c, TRUE, rows)
    BY InProgress DEF ReturnRead, StoreUnchanged, Respond, Return
  <1>2. RefinementInv'
    BY <1>1, TablesKept, Returned
  <1>3. ServiceTable' = R!ServicesAfter(c) /\ HostTable' = R!HostsAfter(c)
    BY <1>1, TablesKept, NothingWritten DEF ReadOK, ReadOps
  <1>4. ~R!Refused(c) /\ R!Succeeds(c)
    BY <1>1, ValueOf DEF R!Refused, R!Succeeds, R!Known, ServiceTable, ReadOK, ReadOps
  <1>5. step.found = RowsRead(NamesToRead(c))
    BY <1>1 DEF ReadOK
  <1>6. CASE c.op = "SelectAllHosts"
    <2>1. step.found = {Row(h, HostTable[h]) : h \in {x \in Hosts : HostTable[x] # None}}
      <3>1. NamesToRead(c) = {x \in Hosts : HostTable[x] # None}
        BY <1>6 DEF NamesToRead, HostTable
      <3>2. \A h \in NamesToRead(c) : kv[RecordKey(h)] = HostTable[h]
        BY <1>6, <3>1 DEF RecordKey, HostTable
      <3>3. {x \in NamesToRead(c) : HostTable[x] # None} = NamesToRead(c)
        BY <3>1
      <3>. QED
        BY <1>5, <3>1, <3>2, <3>3, RowsOfTable
    <2>2. R!Selected(c) = {R!Row(h, HostTable[h]) : h \in Hosts \cap {x \in Hosts : HostTable[x] # None}}
      BY <1>6 DEF R!Selected, R!RowsOf, R!Present, HostTable
    <2>3. rows = R!Selected(c)
      BY <1>6, <2>1, <2>2 DEF Row, R!Row
    <2>. QED
      BY <1>1, <1>2, <1>3, <1>4, <2>3, Performed
  <1>7. CASE c.op = "SelectAllServices"
    <2>1. step.found = {Row(s, ServiceTable[s]) : s \in {x \in Services : ServiceTable[x] # None}}
      <3>1. NamesToRead(c) = {x \in Services : ServiceTable[x] # None}
        BY <1>7 DEF NamesToRead, ServiceTable
      <3>2. \A s \in NamesToRead(c) : kv[RecordKey(s)] = ServiceTable[s]
        BY <1>7, <3>1 DEF RecordKey, ServiceTable
      <3>3. {x \in NamesToRead(c) : ServiceTable[x] # None} = NamesToRead(c)
        BY <3>1
      <3>. QED
        BY <1>5, <3>1, <3>2, <3>3, RowsOfTable
    <2>2. R!Selected(c) = {R!Row(s, ServiceTable[s]) : s \in Services \cap {x \in Services : ServiceTable[x] # None}}
      BY <1>7 DEF R!Selected, R!RowsOf, R!Present, ServiceTable
    <2>3. rows = R!Selected(c)
      BY <1>7, <2>1, <2>2 DEF Row, R!Row
    <2>. QED
      BY <1>1, <1>2, <1>3, <1>4, <2>3, Performed
  <1>8. CASE c.op = "SelectReferringServiceNamesTo"
    <2>1. step.found = {Row(s, ServiceTable[s]) : s \in {x \in Services : ServiceTable[x] # None}}
      <3>1. NamesToRead(c) = {x \in Services : ServiceTable[x] # None}
        BY <1>8 DEF NamesToRead, ServiceTable
      <3>2. \A s \in NamesToRead(c) : kv[RecordKey(s)] = ServiceTable[s]
        BY <1>8, <3>1 DEF RecordKey, ServiceTable
      <3>3. {x \in NamesToRead(c) : ServiceTable[x] # None} = NamesToRead(c)
        BY <3>1
      <3>. QED
        BY <1>5, <3>1, <3>2, <3>3, RowsOfTable
    <2>2. R!Selected(c) = {s \in {x \in Services : ServiceTable[x] # None} : R!RefersTo(ServiceTable[s], c.name)}
      BY <1>8 DEF R!Selected, R!Present, ServiceTable
    <2>3. rows = {s \in {x \in Services : ServiceTable[x] # None} : RefersTo(ServiceTable[s], c.name)}
      <3>1. rows = {r.name : r \in {x \in step.found : RefersTo(x.value, c.name)}}
        BY <1>8
      <3>2. {r.name : r \in {x \in step.found : RefersTo(x.value, c.name)}}
              = {s \in {x \in Services : ServiceTable[x] # None} : RefersTo(ServiceTable[s], c.name)}
        <4>. DEFINE present == {x \in Services : ServiceTable[x] # None}
        <4>1. \A n : Row(n, ServiceTable[n]).name = n /\ Row(n, ServiceTable[n]).value = ServiceTable[n]
          BY DEF Row
        <4>2. {x \in step.found : RefersTo(x.value, c.name)}
                = {Row(n, ServiceTable[n]) : n \in {m \in present : RefersTo(ServiceTable[m], c.name)}}
          BY <2>1, <4>1
        <4>. QED
          BY <4>1, <4>2
      <3>. QED
        BY <3>1, <3>2
    <2>4. rows = R!Selected(c)
      BY <2>2, <2>3 DEF RefersTo, R!RefersTo
    <2>. QED
      BY <1>1, <1>2, <1>3, <1>4, <2>4, Performed
  <1>9. CASE c.op = "SelectHostsOfService"
    <2>. DEFINE svc == kv[withServicePrefix(c.name)]
    <2>1. svc \in Service /\ svc = ServiceTable[c.name]
      BY <1>1, <1>9, ValueOf DEF ReadOK, StoreOK
    <2>2. Listed(svc) \subseteq Hosts
      BY <2>1 DEF Listed, Service
    <2>3. step.found = {Row(h, HostTable[h]) : h \in {x \in Listed(svc) : HostTable[x] # None}}
      <3>1. NamesToRead(c) = Listed(svc)
        BY <1>9 DEF NamesToRead
      <3>2. \A h \in NamesToRead(c) : kv[RecordKey(h)] = HostTable[h]
        BY <1>9, <2>2, <3>1 DEF RecordKey, HostTable
      <3>. QED
        BY <1>5, <3>1, <3>2, RowsOfTable
    <2>4. R!Selected(c) = {R!Row(h, HostTable[h]) :
                             h \in R!Listed(ServiceTable[c.name]) \cap {x \in Hosts : HostTable[x] # None}}
      BY <1>9 DEF R!Selected, R!RowsOf, R!Present, HostTable, ServiceTable
    <2>5. R!Listed(ServiceTable[c.name]) = Listed(svc)
      BY <2>1 DEF R!Listed, Listed
    <2>6. rows = R!Selected(c)
      BY <1>9, <2>2, <2>3, <2>4, <2>5 DEF Row, R!Row
    <2>. QED
      BY <1>1, <1>2, <1>3, <1>4, <2>6, Performed
  <1>. QED
    BY <1>1, <1>6, <1>7, <1>8, <1>9 DEF ReadOK, ReadOps

LEMMA PutRecordStep ==
    ASSUME RefinementInv, PutRecord
    PROVE  RefinementInv' /\ R!RepoNext
  <1>. DEFINE c == step.call
              ok == c.op = "RemoveServiceDependency" => step.found # {}
  <1>1. /\ step.pc = "put" /\ PutKV(KeyOf(c), ValueToPut) /\ UNCHANGED outages
        /\ step' = Ready /\ consulAnswer' = Answer(c, ok, {})
    BY DEF PutRecord, Respond, Return
  <1>2. c \in Calls /\ PutOK
    BY <1>1, PutCases
  <1>3. /\ StoreOK'
        /\ ServiceTable' = R!ServicesAfter(c)
        /\ HostTable' = R!HostsAfter(c)
    BY <1>1, PutEffect
  <1>4. RefinementInv'
    BY <1>1, <1>3, Returned
  <1>5. c.op \in {"PutHost", "PutService", "AddServiceDependency", "RemoveServiceDependency"}
    BY <1>2 DEF PutOK, Puts
  <1>6. ~R!Refused(c)
    <2>1. CASE c.op = "AddServiceDependency"
      <3>1. Value # None /\ CanAppendDependent(Value, c.depend) /\ Value = ServiceTable[c.name]
        BY <1>2, <2>1, ValueOf DEF PutOK, Puts
      <3>. QED
        BY <2>1, <3>1 DEF R!Refused, R!Appends, R!Known, R!CanAppendDependent,
                          CanAppendDependent, ServiceTable
    <2>. QED
      BY <1>5, <2>1 DEF R!Refused
  <1>7. R!Selected(c) = {}
    BY <1>5 DEF R!Selected
  <1>8. ok = R!Succeeds(c)
    <2>1. CASE c.op = "RemoveServiceDependency"
      <3>1. /\ Value # None /\ Value = ServiceTable[c.name]
            /\ step.found = {d \in Value.deps : d.name = c.depend}
        BY <1>2, <2>1, ValueOf DEF PutOK, Puts
      <3>2. R!Succeeds(c) = (R!Known(c) /\ R!RefersTo(ServiceTable[c.name], c.depend))
        BY <2>1 DEF R!Succeeds, ServiceTable
      <3>3. R!Known(c)
        BY <3>1 DEF R!Known, ServiceTable
      <3>4. R!RefersTo(ServiceTable[c.name], c.depend) = (step.found # {})
        BY <3>1 DEF R!RefersTo
      <3>. QED
        BY <2>1, <3>2, <3>3, <3>4
    <2>. QED
      BY <1>5, <2>1 DEF R!Succeeds
  <1>. QED
    BY <1>1, <1>2, <1>3, <1>4, <1>6, <1>7, <1>8, Performed

LEMMA DeleteRecordStep ==
    ASSUME Extends = {}, RefinementInv, DeleteRecord
    PROVE  RefinementInv' /\ R!RepoNext
  <1>. DEFINE c == step.call
  <1>1. /\ step.pc = "delete" /\ DeleteTree(KeyOf(c)) /\ UNCHANGED outages
        /\ step' = Ready /\ consulAnswer' = Answer(c, TRUE, {})
    BY DEF DeleteRecord, Respond, Return
  <1>2. c \in Calls /\ c.op \in Deletes /\ Value # None
    BY <1>1, InProgress
  <1>3. /\ StoreOK'
        /\ ServiceTable' = R!ServicesAfter(c)
        /\ HostTable' = R!HostsAfter(c)
    BY <1>1, DeleteEffect
  <1>4. RefinementInv'
    BY <1>1, <1>3, Returned
  <1>5. ~R!Refused(c) /\ R!Selected(c) = {}
    BY <1>2 DEF R!Refused, R!Selected, Deletes
  <1>6. R!Succeeds(c) = TRUE
    BY <1>2, ValueOf DEF R!Succeeds, R!Known, Deletes, ServiceTable, HostTable
  <1>. QED
    BY <1>1, <1>2, <1>3, <1>4, <1>5, <1>6, Performed

(* A failed call to the store is an outage of the abstract repository,     *)
(* with the whole effect of the method or with none.                       *)
LEMMA CallFailsStep ==
    ASSUME Extends = {}, RefinementInv, CallFails
    PROVE  RefinementInv' /\ R!RepoNext
  <1>. DEFINE c == step.call
  <1>1. step.pc # "ready" /\ outages' = outages + 1 /\ step' = Ready /\ consulAnswer' = Failure(c)
    BY DEF CallFails, Return, RefinementInv, StepOK, Ready, Busy
  <1>2. c \in Calls /\ StoreOK
    BY <1>1, InProgress
  <1>3. /\ StoreOK'
        /\ \/ ServiceTable' = ServiceTable /\ HostTable' = HostTable
           \/ ServiceTable' = R!ServicesAfter(c) /\ HostTable' = R!HostsAfter(c)
    <2>1. CASE UNCHANGED kv
      BY <1>2, <2>1, TablesKept
    <2>2. CASE step.pc = "put" /\ PutKV(KeyOf(c), ValueToPut)
      BY <2>2, PutEffect
    <2>3. CASE step.pc = "delete" /\ DeleteTree(KeyOf(c))
      BY <2>3, DeleteEffect
    <2>. QED
      BY <2>1, <2>2, <2>3 DEF CallFails
  <1>4. RefinementInv'
    BY <1>1, <1>3, Returned
  <1>5. R!Unavailable(c)
    BY <1>1, <1>3 DEF R!Unavailable, R!tables, R!Failure, Failure, ServiceTable, HostTable
  <1>. QED
    BY <1>2, <1>4, <1>5 DEF R!RepoNext

-----------------------------------------------------------------------------
(* The store starts empty, as the abstract repository does.                *)
LEMMA InitRefines ==
    ASSUME ConsulInit
    PROVE  RefinementInv /\ R!RepoInit
  <1>1. \A k \in Keys : kv[k] = None
    BY DEF ConsulInit
  <1>2. StoreOK
    BY <1>1, KeysDistinct DEF ConsulInit, StoreOK
  <1>3. StepOK
    BY DEF ConsulInit, StepOK, Fields, Ready, Busy
  <1>4. ServiceTable = [s \in Services |-> None] /\ HostTable = [h \in Hosts |-> None]
    BY <1>1, KeysDistinct DEF ServiceTable, HostTable
  <1>5. R!RepoInit
    BY <1>4 DEF ConsulInit, R!RepoInit, R!NoAnswer, NoAnswer, ServiceTable, HostTable
  <1>. QED
    BY <1>2, <1>3, <1>5 DEF RefinementInv

LEMMA NoStep ==
    ASSUME RefinementInv, UNCHANGED consulVars
    PROVE  RefinementInv' /\ UNCHANGED R!repoVars
  <1>1. UNCHANGED <<kv, step, consulAnswer, outages>>
    BY DEF consulVars
  <1>2. StoreOK'
    BY <1>1, TablesKept DEF RefinementInv
  <1>3. step.call = step'.call
    BY <1>1
  <1>4. StepOK'
    BY <1>1, <1>3, ReadsKept
    DEF RefinementInv, StepOK, Fields, PutOK, ReadOK, Ready, Busy
  <1>. QED
    BY <1>1, <1>2, <1>4, Stutter DEF RefinementInv

LEMMA StepRefines ==
    ASSUME Extends = {}, RefinementInv, [ConsulNext]_consulVars
    PROVE  RefinementInv' /\ [R!RepoNext]_R!repoVars
  <1>1. CASE \E c \in Calls : Begin(c)
    BY <1>1, BeginStep
  <1>2. CASE GetRecord
    BY <1>2, GetRecordStep
  <1>3. CASE ProbeKey
    BY <1>3, ProbeKeyStep
  <1>4. CASE GetToAppend
    BY <1>4, GetToAppendStep
  <1>5. CASE GetToRemove
    BY <1>5, GetToRemoveStep
  <1>6. CASE GetListed
    BY <1>6, GetListedStep
  <1>7. CASE ListNames
    BY <1>7, ListNamesStep
  <1>8. CASE ReadNext
    BY <1>8, ReadNextStep
  <1>9. CASE ReturnRead
    BY <1>9, ReturnReadStep
  <1>10. CASE PutRecord
    BY <1>10, PutRecordStep
  <1>11. CASE DeleteRecord
    BY <1>11, DeleteRecordStep
  <1>12. CASE CallFails
    BY <1>12, CallFailsStep
  <1>13. CASE UNCHANGED consulVars
    BY <1>13, NoStep
  <1>. QED
    BY <1>1, <1>2, <1>3, <1>4, <1>5, <1>6, <1>7, <1>8, <1>9, <1>10, <1>11, <1>12, <1>13
    DEF ConsulNext

(* Over a store whose names do not begin with one another every method of  *)
(* the Consul repository takes effect once or not at all, and answers what *)
(* the interface promises, whatever calls to the store fail.               *)
THEOREM ConsulRefines ==
    ASSUME Extends = {}
    PROVE  ConsulSpec => ConsulImplementsRepository
  <1>1. ConsulInit => RefinementInv /\ R!RepoInit
    BY InitRefines
  <1>2. RefinementInv /\ [ConsulNext]_consulVars => RefinementInv' /\ [R!RepoNext]_R!repoVars
    BY StepRefines
  <1>. QED
    BY <1>1, <1>2, PTL DEF ConsulSpec, ConsulImplementsRepository, R!RepoSpec

=============================================================================
