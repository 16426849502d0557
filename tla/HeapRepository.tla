---------------------------- MODULE HeapRepository ----------------------------
(***************************************************************************)
(* The in-memory implementation of InventoryRepository                     *)
(* (repository/inventory_heap.go): two lists of pointers that every call   *)
(* searches by name.  Nothing locks them; a call is one step, as for the   *)
(* single goroutine of a test.                                             *)
(***************************************************************************)
EXTENDS RepositoryCalls, SequencesExt

VARIABLES
    serviceList,  \* the services, in the order they were first put
    hostList,     \* the hosts
    heapAnswer    \* the last call and what it returned

heapVars == <<serviceList, hostList, heapAnswer>>

(* The tables the lists stand for, for names that occur once. *)
TableOf(list, names) ==
    [n \in names |-> IF \E i \in DOMAIN list : list[i].name = n
                      THEN list[CHOOSE i \in DOMAIN list : list[i].name = n].value
                      ELSE None]

HeapR == INSTANCE Repository WITH
        services <- TableOf(serviceList, Services),
        hosts    <- TableOf(hostList, Hosts),
        answer   <- heapAnswer,
        outages  <- 0

(* FilterHosts, FilterServices: where the name occurs. *)
Filtered(list, name) == {i \in DOMAIN list : list[i].name = name}

Unique(list, name) == Cardinality(Filtered(list, name)) = 1
Missing(list, name) == Filtered(list, name) = {}
Duplicate(list, name) == ~Unique(list, name) /\ ~Missing(list, name)

Index(list, name) == CHOOSE i \in Filtered(list, name) : TRUE
Get(list, name) == list[Index(list, name)].value

(* Mutant: a host or service that is stored already is appended as well. *)
AppendAlways(list, name, value) == Append(list, Row(name, value))

(* The one entry of the name is overwritten, a new one appended. *)
Put(list, name, value) ==
    IF Unique(list, name)
    THEN [list EXCEPT ![Index(list, name)] = Row(name, value)]
    ELSE Append(list, Row(name, value))

(* Every entry but the filtered one is kept. *)
Delete(list, name) == IF Unique(list, name) THEN RemoveAt(list, Index(list, name)) ELSE list

Reply(c, ok, rows) == heapAnswer' = Answer(c, ok, rows)
Refuse(c) == heapAnswer' = Failure(c)

-----------------------------------------------------------------------------
PutHost(c) ==
    /\ c.op = "PutHost"
    /\ IF Duplicate(hostList, c.name)
       THEN Refuse(c) /\ UNCHANGED hostList
       ELSE Reply(c, TRUE, {}) /\ hostList' = Put(hostList, c.name, c.value)
    /\ UNCHANGED serviceList

PutService(c) ==
    /\ c.op = "PutService"
    /\ IF Duplicate(serviceList, c.name)
       THEN Refuse(c) /\ UNCHANGED serviceList
       ELSE Reply(c, TRUE, {}) /\ serviceList' = Put(serviceList, c.name, c.value)
    /\ UNCHANGED hostList

DeleteHost(c) ==
    /\ c.op = "DeleteHost"
    /\ hostList' = Delete(hostList, c.name)
    /\ IF Duplicate(hostList, c.name) THEN Refuse(c)
       ELSE Reply(c, Unique(hostList, c.name), {})
    /\ UNCHANGED serviceList

DeleteService(c) ==
    /\ c.op = "DeleteService"
    /\ serviceList' = Delete(serviceList, c.name)
    /\ IF Duplicate(serviceList, c.name) THEN Refuse(c)
       ELSE Reply(c, Unique(serviceList, c.name), {})
    /\ UNCHANGED hostList

SelectByName(list, c) ==
    IF Duplicate(list, c.name) THEN Refuse(c)
    ELSE Reply(c, Unique(list, c.name), {list[i] : i \in Filtered(list, c.name)})

SelectHostByName(c) == c.op = "SelectHostByName" /\ SelectByName(hostList, c)

SelectServiceByName(c) == c.op = "SelectServiceByName" /\ SelectByName(serviceList, c)

Names(list) == {list[i].name : i \in DOMAIN list}

SelectAllNames(c) ==
    \/ c.op = "SelectAllHostNames" /\ Reply(c, TRUE, Names(hostList))
    \/ c.op = "SelectAllServiceNames" /\ Reply(c, TRUE, Names(serviceList))

SelectAll(c) ==
    \/ c.op = "SelectAllHosts" /\ Reply(c, TRUE, Elements(hostList))
    \/ c.op = "SelectAllServices" /\ Reply(c, TRUE, Elements(serviceList))

(* SelectHostByName of every listed name; a missing one is skipped. *)
SelectHostsOfService(c) ==
    /\ c.op = "SelectHostsOfService"
    /\ \/ ~Unique(serviceList, c.name) /\ Refuse(c)
       \/ /\ Unique(serviceList, c.name)
          /\ LET listed == Listed(Get(serviceList, c.name))
             IN  IF \E h \in listed : Duplicate(hostList, h) THEN Refuse(c)
                 ELSE Reply(c, TRUE, {Row(h, Get(hostList, h)) :
                                          h \in {x \in listed : Unique(hostList, x)}})

SelectReferringServiceNamesTo(c) ==
    /\ c.op = "SelectReferringServiceNamesTo"
    /\ Reply(c, TRUE, {x.name : x \in {y \in Elements(serviceList) : RefersTo(y.value, c.name)}})

(* SelectServiceByName, AppendDependent, PutService. *)
AddServiceDependency(c) ==
    /\ c.op = "AddServiceDependency"
    /\ LET ok == /\ Unique(serviceList, c.name)
                 /\ CanAppendDependent(Get(serviceList, c.name), c.depend)
           new == AppendDependent(Get(serviceList, c.name), c.depend)
       IN  \/ /\ ok
              /\ serviceList' = Put(serviceList, c.name, [new EXCEPT !.version = c.version])
              /\ Reply(c, TRUE, {})
           \/ ~ok /\ Refuse(c) /\ UNCHANGED serviceList
    /\ UNCHANGED hostList

(* SelectServiceByName, RemoveDependent, PutService. *)
RemoveServiceDependency(c) ==
    /\ c.op = "RemoveServiceDependency"
    /\ \/ /\ Unique(serviceList, c.name)
          /\ LET svc == Get(serviceList, c.name)
                 new == RemoveDependent(svc, c.depend)
             IN  /\ serviceList' = Put(serviceList, c.name, [new EXCEPT !.version = c.version])
                 /\ Reply(c, RefersTo(svc, c.depend), {})
       \/ /\ ~Unique(serviceList, c.name)
          /\ IF Duplicate(serviceList, c.name) THEN Refuse(c) ELSE Reply(c, FALSE, {})
          /\ UNCHANGED serviceList
    /\ UNCHANGED hostList

HeapReads(c) ==
    /\ \/ SelectHostByName(c) \/ SelectServiceByName(c) \/ SelectAllNames(c) \/ SelectAll(c)
       \/ SelectHostsOfService(c) \/ SelectReferringServiceNamesTo(c)
    /\ UNCHANGED <<serviceList, hostList>>

HeapWrites(c) == \/ PutHost(c) \/ PutService(c) \/ DeleteHost(c) \/ DeleteService(c)
                 \/ AddServiceDependency(c) \/ RemoveServiceDependency(c)

HeapInit ==
    /\ serviceList = <<>>
    /\ hostList = <<>>
    /\ heapAnswer = NoAnswer

HeapNext == \E c \in Calls : HeapReads(c) \/ HeapWrites(c)

HeapSpec == HeapInit /\ [][HeapNext]_heapVars

-----------------------------------------------------------------------------
(* The lists implement the repository: a name occurs at most once, so that *)
(* no call fails with "duplicate ... in the heap inventory", and every     *)
(* call answers and changes what the interface promises (the tests of      *)
(* repository/inventory_test.go, for every sequence of calls).             *)
HeapImplementsRepository == HeapR!RepoSpec
=============================================================================
