--------------------------- MODULE ConsulRepository ---------------------------
(***************************************************************************)
(* The implementation of InventoryRepository over Consul's key-value store *)
(* (repository/inventory_consul.go, utils/consul.go).  A method is a       *)
(* series of calls to the store, one action each, and any of them may      *)
(* fail.  One caller is at work: that the methods of two callers are not   *)
(* atomic is the subject of module Inventory.                              *)
(***************************************************************************)
EXTENDS RepositoryCalls

CONSTANTS
    Extends,    \* <<n, m>>: the name m is n followed by more characters
    MaxOutages  \* bound on failed calls to the store

VARIABLES
    kv,            \* the store: <<prefix, name>> -> value, or None
    step,          \* the method in progress and its local variables
    consulAnswer,  \* the last method and what it returned
    outages        \* failed calls so far

consulVars == <<kv, step, consulAnswer, outages>>

hostPrefix == "hosts"
servicePrefix == "services"

withHostPrefix(name) == <<hostPrefix, name>>
withServicePrefix(name) == <<servicePrefix, name>>

Keys == ({hostPrefix} \X Hosts) \cup ({servicePrefix} \X Services)

R == INSTANCE Repository WITH
        services <- [s \in Services |-> kv[withServicePrefix(s)]],
        hosts    <- [h \in Hosts |-> kv[withHostPrefix(h)]],
        answer   <- consulAnswer

-----------------------------------------------------------------------------
(* utils/consul.go *)

GetKV(key) == kv[key]

PutKV(key, value) == kv' = [kv EXCEPT ![key] = value]

(* GetKeys below the prefix, without what follows the name. *)
GetSubKeyNames(prefix) == {k[2] : k \in {x \in Keys : x[1] = prefix /\ kv[x] # None}}

Under(key, k) == k[1] = key[1] /\ (k[2] = key[2] \/ <<key[2], k[2]>> \in Extends)

(* Every key that begins with the given one. *)
DeleteTree(key) ==
    kv' = [k \in Keys |-> IF Under(key, k) THEN None ELSE kv[k]]

-----------------------------------------------------------------------------
(* The method in progress: the next call to the store, the names still to  *)
(* be read, the rows read so far, the record read or built.                *)
Busy(c, label) == [call |-> c, pc |-> label, rest |-> {}, found |-> {}, cur |-> None]

Ready == Busy(None, "ready")

ReadsOne  == {"SelectHostByName", "SelectServiceByName"}
Deletes   == {"DeleteHost", "DeleteService"}
Puts      == {"PutHost", "PutService"}
ListsKeys == {"SelectAllHostNames", "SelectAllHosts", "SelectAllServiceNames",
              "SelectAllServices", "SelectReferringServiceNamesTo"}
OfHosts   == {"PutHost", "SelectHostByName", "DeleteHost", "SelectAllHostNames",
              "SelectAllHosts"}

KeyOf(c) == IF c.op \in OfHosts THEN withHostPrefix(c.name) ELSE withServicePrefix(c.name)

PrefixOf(c) == IF c.op \in OfHosts THEN hostPrefix ELSE servicePrefix

(* The method returns. *)
Return(ans) == step' = Ready /\ consulAnswer' = ans

Respond(ok, rows) == Return(Answer(step.call, ok, rows))

Proceed(state) == step' = state /\ UNCHANGED consulAnswer

Begin(c) ==
    /\ step = Ready
    /\ Proceed(Busy(c, CASE c.op \in Puts      -> "put"
                         [] c.op \in ListsKeys -> "keys"
                         [] OTHER              -> "get"))
    /\ UNCHANGED <<kv, outages>>

Doing(label, ops) == step.pc = label /\ step.call.op \in ops

Value == GetKV(KeyOf(step.call))

StoreUnchanged == UNCHANGED <<kv, outages>>

(* SelectHostByName, SelectServiceByName *)
GetRecord ==
    /\ Doing("get", ReadsOne)
    /\ Respond(Value # None, {Row(step.call.name, v) : v \in {Value} \ {None}})
    /\ StoreUnchanged

(* DeleteTreeIfExists reads the key first. *)
ProbeKey ==
    /\ Doing("get", Deletes)
    /\ \/ Value = None /\ Respond(FALSE, {})
       \/ Value # None /\ Proceed([step EXCEPT !.pc = "delete"])
    /\ StoreUnchanged

(* AddServiceDependency: the service is read and changed. *)
GetToAppend ==
    /\ Doing("get", {"AddServiceDependency"})
    /\ LET ok == Value # None /\ CanAppendDependent(Value, step.call.depend)
       IN  \/ ~ok /\ Return(Failure(step.call))
           \/ /\ ok
              /\ Proceed([step EXCEPT !.pc = "put", !.cur = AppendDependent(Value, step.call.depend)])
    /\ StoreUnchanged

(* RemoveServiceDependency; "found" holds the dependency if there is one. *)
GetToRemove ==
    /\ Doing("get", {"RemoveServiceDependency"})
    /\ \/ Value = None /\ Respond(FALSE, {})
       \/ /\ Value # None
          /\ Proceed([step EXCEPT !.pc = "put",
                        !.cur = RemoveDependent(Value, step.call.depend),
                        !.found = {d \in Value.deps : d.name = step.call.depend}])
    /\ StoreUnchanged

(* SelectHostsOfService: the service first. *)
GetListed ==
    /\ Doing("get", {"SelectHostsOfService"})
    /\ \/ Value = None /\ Return(Failure(step.call))
       \/ Value # None /\ Proceed([step EXCEPT !.pc = "read", !.rest = Listed(Value)])
    /\ StoreUnchanged

(* SelectAll...: the names first. *)
ListNames ==
    /\ Doing("keys", ListsKeys)
    /\ LET names == GetSubKeyNames(PrefixOf(step.call))
       IN  IF step.call.op \in {"SelectAllHostNames", "SelectAllServiceNames"}
           THEN Respond(TRUE, names)
           ELSE Proceed([step EXCEPT !.pc = "read", !.rest = names])
    /\ StoreUnchanged

RecordKey(name) ==
    IF step.call.op \in {"SelectAllHosts", "SelectHostsOfService"}
    THEN withHostPrefix(name) ELSE withServicePrefix(name)

(* The record of the next name; a missing one is skipped. *)
ReadNext ==
    /\ step.pc = "read"
    /\ \E n \in step.rest :
          Proceed([step EXCEPT !.rest = @ \ {n},
                     !.found = @ \cup {Row(n, v) : v \in {GetKV(RecordKey(n))} \ {None}}])
    /\ StoreUnchanged

(* All read.  Of the services that refer to the given one, only the names. *)
ReturnRead ==
    /\ step.pc = "read"
    /\ step.rest = {}
    /\ Respond(TRUE, IF step.call.op = "SelectReferringServiceNamesTo"
                     THEN {r.name : r \in {x \in step.found : RefersTo(x.value, step.call.name)}}
                     ELSE step.found)
    /\ StoreUnchanged

(* Mutant: the service is written without its new version. *)
ValueUnversioned == IF step.call.op \in Puts THEN step.call.value ELSE step.cur

(* What PutHost or PutService writes. *)
ValueToPut ==
    IF step.call.op \in Puts THEN step.call.value
    ELSE [step.cur EXCEPT !.version = step.call.version]

PutRecord ==
    /\ step.pc = "put"
    /\ PutKV(KeyOf(step.call), ValueToPut)
    /\ Respond(step.call.op = "RemoveServiceDependency" => step.found # {}, {})
    /\ UNCHANGED outages

DeleteRecord ==
    /\ step.pc = "delete"
    /\ DeleteTree(KeyOf(step.call))
    /\ Respond(TRUE, {})
    /\ UNCHANGED outages

(* A call to the store answers an error, a write perhaps after it took     *)
(* effect; the method passes the error on and is over.                     *)
CallFails ==
    /\ step.pc \notin {"ready", "read"} \/ step.rest # {}
    /\ outages < MaxOutages
    /\ outages' = outages + 1
    /\ \/ UNCHANGED kv
       \/ step.pc = "put" /\ PutKV(KeyOf(step.call), ValueToPut)
       \/ step.pc = "delete" /\ DeleteTree(KeyOf(step.call))
    /\ Return(Failure(step.call))

ConsulInit ==
    /\ kv = [k \in Keys |-> None]
    /\ step = Ready
    /\ consulAnswer = NoAnswer
    /\ outages = 0

ConsulNext ==
    \/ \E c \in Calls : Begin(c)
    \/ GetRecord \/ ProbeKey \/ GetToAppend \/ GetToRemove \/ GetListed
    \/ ListNames \/ ReadNext \/ ReturnRead
    \/ PutRecord \/ DeleteRecord
    \/ CallFails

ConsulSpec == ConsulInit /\ [][ConsulNext]_consulVars

-----------------------------------------------------------------------------
(* The methods over the store implement the repository for one caller and  *)
(* names of which none begins with another: each takes effect once or not  *)
(* at all, also when a call to the store fails at any point of it, and it  *)
(* answers what the interface promises.                                    *)
ConsulImplementsRepository == R!RepoSpec
=============================================================================
