---------------------------- MODULE MCInventory ----------------------------
(***************************************************************************)
(* Small instances of the inventory for TLC.                               *)
(***************************************************************************)
EXTENDS InventoryProperties

CONSTANTS p1, p2, app, front, h1, h2, h3, lo, m1, m2, v6

Attr(m, port) == [ingress   |-> [machine |-> m, port |-> port],
                  substance |-> [machine |-> lo, port |-> 8080],
                  egress    |-> lo]

Host(h, m) == [name |-> h, attr |-> Attr(m, 80)]

Put(s, protocol, hs, ds) ==
    [kind |-> "Put", at |-> 0, service |-> s, protocol |-> protocol, hosts |-> hs, deps |-> ds]

On(s, port) == [name |-> s, port |-> port]

RegService(s, protocol) ==
    [kind |-> "RegisterService", at |-> 0, service |-> s, protocol |-> protocol]
UnregService(s) == [kind |-> "UnregisterService", at |-> 0, service |-> s]
AddDep(s, t, port) == [kind |-> "AddDependency", at |-> 0, service |-> s, dep |-> On(t, port)]
RemoveDep(s, t) == [kind |-> "RemoveDependency", at |-> 0, service |-> s, name |-> t]
RegHost(s, h, m) == [kind |-> "RegisterHost", at |-> 0, service |-> s, host |-> h, attr |-> Attr(m, 80)]
UnregHost(s, h) == [kind |-> "UnregisterHost", at |-> 0, service |-> s, host |-> h]
MoveHost(s, h, m) ==
    [kind |-> "UpdateHost", at |-> 0, service |-> s, host |-> h,
     attr |-> [ingress |-> [machine |-> m, port |-> 80], substance |-> None, egress |-> None]]

MCExtends == {}
MCEmptyServices == [s \in Services |-> None]
MCEmptyHosts == [h \in Hosts |-> None]

(* A store holding the service app with hosts h1 and h2, and front, which refers to app. *)
MCServices ==
    [s \in Services |->
      IF s = app
      THEN [hosts |-> <<h1, h2>>, deps |-> {}, protocol |-> "HTTP", version |-> 0]
      ELSE [hosts |-> <<>>, deps |-> {On(app, 9001)}, protocol |-> "HTTP", version |-> 0]]
MCHosts == [h \in Hosts |-> CASE h = h1 -> Attr(m1, 80) [] h = h2 -> Attr(m2, 80) [] OTHER -> None]

(* The requests of one client: every operation of the interface. *)
MCAllRequests ==
    [p \in Handlers |->
      {Put(app, "HTTP", <<Host(h1, m1), Host(h2, m2)>>, <<>>),
       Put(app, "TCP", <<Host(h2, m1), Host(h3, m2)>>, <<On(front, 9001)>>),
       Put(app, "HTTP", <<Host(h1, v6)>>, <<>>),
       Put(front, "HTTP", <<Host(h3, m1)>>, <<On(app, 9001), On(front, 9002)>>),
       Put(front, "HTTP", <<>>, <<On(app, 9001), On(front, 9001)>>),
       RegService(front, "HTTP"), UnregService(app),
       AddDep(front, app, 9002), AddDep(app, front, 80), RemoveDep(front, app),
       RegHost(front, h1, m1), UnregHost(app, h1), MoveHost(app, h2, m1), MoveHost(app, h2, v6)}]

(* Two clients, each with a service and hosts of its own. *)
MCDisjointRequests ==
    [p \in Handlers |->
      IF p = p1
      THEN {Put(app, "HTTP", <<Host(h1, m1), Host(h2, m2)>>, <<>>),
            Put(app, "TCP", <<Host(h2, m1)>>, <<On(front, 9001)>>),
            RegHost(app, h1, m1), UnregHost(app, h2)}
      ELSE {Put(front, "HTTP", <<Host(h3, m1)>>, <<On(app, 9001)>>),
            Put(front, "HTTP", <<Host(h3, m2)>>, <<>>),
            RemoveDep(front, app)}]

(* A PUT that names new hosts. *)
MCCreateRequests == [p \in Handlers |-> {Put(app, "HTTP", <<Host(h1, m1)>>, <<On(front, 9001)>>)}]

(* h1 is a prefix of h2, as in "app1" and "app10"; a PUT that drops h1. *)
MCPrefixExtends == {<<h1, h2>>}
MCDropRequests == [p \in Handlers |-> {Put(app, "HTTP", <<Host(h2, m2)>>, <<>>)}]

(* Removing h2, and PUTs that keep it or give it another address. *)
MCFollowRequests ==
    [p \in Handlers |->
      {UnregHost(app, h2),
       Put(app, "HTTP", <<Host(h1, m1), Host(h2, m2)>>, <<>>),
       Put(app, "HTTP", <<Host(h1, m1), Host(h2, m1)>>, <<>>)}]

(* The clients of every instance keep apart, as the proofs about isolated  *)
(* handlers suppose, and its store is one those proofs begin with.         *)
ASSUME InstanceIsolated ==
    /\ \E owner \in [Services -> Handlers], home \in [Hosts -> Handlers] : Isolated(owner, home)
    /\ InitialVersionsPast
    /\ InitialHostsListed

=============================================================================
