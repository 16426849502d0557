------------------------------- MODULE MCMesh -------------------------------
(***************************************************************************)
(* Small instances of the whole server for TLC.                            *)
(***************************************************************************)
EXTENDS MCInventory, Mesh

CONSTANT ghost

Record(hs, ds) == [hosts |-> hs, deps |-> ds, protocol |-> "HTTP", version |-> 0]

(* app with host h1, and front with host h2, which refers to app. *)
MeshServices == [s \in Services |-> CASE s = app   -> Record(<<h1>>, {})
                                      [] s = front -> Record(<<h2>>, {On(app, 9001)})
                                      [] OTHER     -> None]
MeshHosts == [h \in Hosts |-> CASE h = h1 -> Attr(m1, 80) [] h = h2 -> Attr(m2, 80) [] OTHER -> None]

(* The same, but front refers to a service that does not exist. *)
BrokenServices == [MeshServices EXCEPT ![front] = Record(<<h2>>, {On(app, 9001), On(ghost, 9002)})]

(* Only the service that refers to others changes. *)
FrontRequests ==
    [p \in Handlers |->
      {Put(front, "HTTP", <<Host(h2, m1), Host(h3, m1)>>, <<On(app, 9001)>>),
       Put(front, "TCP", <<Host(h2, m2)>>, <<On(app, 9002)>>)}]

(* An address with a colon, where a client may write any. *)
ColonEgress(h) == [Host(h, m1) EXCEPT !.attr.egress = v6]

(* app gets another host and drops the one it has; and PUTs that do the    *)
(* same and must be refused, the last one when it is half done.            *)
SwapAppRequests ==
    [p \in Handlers |->
      {Put(app, "TCP", <<Host(h3, m1)>>, <<>>),
       Put(app, "UDP", <<Host(h3, m1)>>, <<>>),
       Put(app, "TCP", <<ColonEgress(h3)>>, <<On(front, 9002)>>),
       Put(app, "TCP", <<Host(h3, m1), Host(h1, v6)>>, <<>>)}]

(* A PUT that gives app's host another address. *)
MoveAppRequests == [p \in Handlers |-> {Put(app, "HTTP", <<Host(h1, m2)>>, <<>>)}]

(* Where only front changes, a version stands for one configuration: this  *)
(* is an instance of what the proof of that supposes.                      *)
ASSUME FrontAlone ==
    Requests = FrontRequests => DependenciesFixed /\ NoServiceRemoved /\ Extends = {}

(* Where app swaps its hosts, no host and no dependency that changes is    *)
(* given up: this is an instance of what keeps Envoys from going back.     *)
ASSUME NothingGivenUp ==
    Requests = SwapAppRequests =>
        /\ \E seat \in [Hosts -> Services] : HostsSeated(seat)
        /\ \E lasting \in [Services -> SUBSET Services] : DependenciesStay(lasting)
        /\ NoServiceRemoved /\ Extends = {}
=============================================================================
