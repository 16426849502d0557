------------------------------- MODULE MCCtl -------------------------------
(***************************************************************************)
(* Small instances of the control API and its clients for TLC.             *)
(***************************************************************************)
EXTENDS MCInventory, CtlApi

CONSTANTS c1, c2

(* Requests come from the clients of CtlApi. *)
NoRequests == [p \in Handlers |-> {}]

(* A store holding the service app with host h1. *)
AppServices ==
    [s \in Services |->
      IF s = app
      THEN [hosts |-> <<h1>>, deps |-> {On(front, 9002)}, protocol |-> "HTTP", version |-> 0]
      ELSE None]

(* Both clients create front with the same dependency on different ports;  *)
(* the first one also shows what there is.                                 *)
MCCommands ==
    [c \in Clients |-> {Put(front, "HTTP", <<>>, <<On(app, IF c = c1 THEN 9001 ELSE 9002)>>)}]

MCShows == [c \in Clients |-> IF c = c1 THEN {app, front} ELSE {}]

(* A client that applies the file of a new service. *)
MCApply == [c \in Clients |-> {Put(front, "HTTP", <<Host(h1, m1)>>, <<>>)}]
MCNoShows == [c \in Clients |-> {}]
=============================================================================
