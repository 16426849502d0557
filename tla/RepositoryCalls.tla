--------------------------- MODULE RepositoryCalls ---------------------------
(***************************************************************************)
(* The methods of InventoryRepository (repository/repository.go) as calls, *)
(* and the answers to them.                                                *)
(***************************************************************************)
EXTENDS MeshModel

CONSTANT Calls  \* the calls the user of a repository may make

(* The methods.  The version PutService stores is the one of its argument. *)
HostWrite    == [op : {"PutHost"}, name : Hosts, value : HostAttr]
ServiceWrite == [op : {"PutService"}, name : Services, value : Service]
AddCall      == [op : {"AddServiceDependency"}, name : Services,
                 depend : Dependency, version : Nat]
RemoveCall   == [op : {"RemoveServiceDependency"}, name : Services,
                 depend : Services, version : Nat]
HostCall     == [op : {"SelectHostByName", "DeleteHost"}, name : Hosts]
ServiceCall  == [op : {"SelectServiceByName", "DeleteService", "SelectHostsOfService",
                       "SelectReferringServiceNamesTo"}, name : Services]
ListCall     == [op : {"SelectAllHostNames", "SelectAllHosts",
                       "SelectAllServiceNames", "SelectAllServices"}]

Call == HostWrite \cup ServiceWrite \cup AddCall \cup RemoveCall
        \cup HostCall \cup ServiceCall \cup ListCall

(* nil is no record. *)
ASSUME CallsAssumption ==
    /\ Calls \subseteq Call
    /\ None \notin Service \cup HostAttr

(* An answer: error is "err # nil", ok the Boolean result, rows the values *)
(* or names returned, of which no caller uses the order.  Beside an error  *)
(* the Boolean says nothing (RemoveServiceDependency may return true,      *)
(* inventory_consul.go:201) and is FALSE here: callers test the error first.*)
Answer(c, ok, rows) == [call |-> c, error |-> FALSE, ok |-> ok, rows |-> rows]
Failure(c) == [call |-> c, error |-> TRUE, ok |-> FALSE, rows |-> {}]

NoAnswer == [call |-> None, error |-> FALSE, ok |-> FALSE, rows |-> {}]

Row(name, value) == [name |-> name, value |-> value]
=============================================================================
