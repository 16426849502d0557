---------------------------- MODULE MCRepository ----------------------------
(***************************************************************************)
(* Both implementations of the repository on a small instance: which of    *)
(* the two the process constructs is chosen at the start.                  *)
(***************************************************************************)
EXTENDS ConsulRepository, HeapRepository

CONSTANTS app, front, h1, h2, m1, lo

VARIABLE chosen

vars == <<heapVars, consulVars, chosen>>

Init == HeapInit /\ ConsulInit /\ chosen \in {"heap", "consul"}

UseHeap == chosen = "heap" /\ HeapNext /\ UNCHANGED <<consulVars, chosen>>

UseConsul == chosen = "consul" /\ ConsulNext /\ UNCHANGED <<heapVars, chosen>>

Next == UseHeap \/ UseConsul

Spec == Init /\ [][Next]_vars

-----------------------------------------------------------------------------
Attr(m) == [ingress   |-> [machine |-> m, port |-> 80],
            substance |-> [machine |-> lo, port |-> 8080],
            egress    |-> lo]

On(s, port) == [name |-> s, port |-> port]

Record(hs, ds, v) == [hosts |-> hs, deps |-> ds, protocol |-> "HTTP", version |-> v]

AddDep(s, t, port) ==
    [op |-> "AddServiceDependency", name |-> s, depend |-> On(t, port), version |-> 1]

RemoveDep(s, t) ==
    [op |-> "RemoveServiceDependency", name |-> s, depend |-> t, version |-> 2]

MCCalls ==
    {[op |-> "PutHost", name |-> h1, value |-> Attr(m1)],
     [op |-> "PutHost", name |-> h1, value |-> Attr(lo)],
     [op |-> "PutHost", name |-> h2, value |-> Attr(m1)],
     [op |-> "PutService", name |-> app, value |-> Record(<<h1, h2>>, {}, 1)],
     [op |-> "PutService", name |-> front, value |-> Record(<<h2>>, {On(front, 9001)}, 1)],
     AddDep(app, front, 9001), AddDep(front, app, 9001), RemoveDep(app, front),
     RemoveDep(front, app)}
    \cup [op : {"SelectHostByName", "DeleteHost"}, name : Hosts]
    \cup [op : {"SelectServiceByName", "DeleteService", "SelectHostsOfService"}, name : Services]
    \cup [op : {"SelectReferringServiceNamesTo"}, name : {front}]
    \cup [op : {"SelectAllHostNames", "SelectAllHosts", "SelectAllServiceNames",
                "SelectAllServices"}]
=============================================================================
