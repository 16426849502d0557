-------------------------------- MODULE CtlApi --------------------------------
(***************************************************************************)
(* The control API (core/ctlapi/server.go, rest_services.go) with its      *)
(* clients: APIClient (core/ctlapi/client.go) and meshemctl, which is one  *)
(* (meshemctl/command).                                                    *)
(*                                                                         *)
(* A client sends one request at a time and waits for the answer, but not  *)
(* for ever: after its timeout, or when the connection breaks, it reports  *)
(* an error and may send the request again, while the handler of the first *)
(* one goes on.  The inventory under the API is module Inventory, whose    *)
(* handlers serve PUT and POST; GET is served here.                        *)
(***************************************************************************)
EXTENDS InventoryProperties

LOCAL INSTANCE SequencesExt

CONSTANTS
    Clients,
    Commands,  \* client -> the PUT and POST requests it may send
    Shows      \* client -> the services it may GET

ASSUME ClientsAssumption ==
    /\ Commands \in [Clients -> SUBSET (PutOp \cup RegisterServiceOp)]
    /\ Shows \in [Clients -> SUBSET Services]

VARIABLES
    cli,      \* client -> its request and what it knows of the answer
    untouched \* client -> has no handler written since its last GET began?

ctlVars == <<cli, untouched>>
apiVars == <<vars, ctlVars>>

(* Status 0 stands for an error of the call itself: no answer came.        *)
OK == 200
NotFound == 404
ServerError == 500
NoStatus == 0

(* A client with nothing to do. *)
Unused == [pc     |-> "idle",    \* idle, waiting, or where GET's handler is
           sent   |-> None,      \* the PUT or POST it sent last
           via    |-> None,      \* the handler at work on it
           status |-> NoStatus,  \* of the last answer
           name   |-> None,      \* GET: the service asked for
           svc    |-> None,      \* GET: its record as the handler read it
           rest   |-> <<>>,      \* GET: host names still to be read
           found  |-> <<>>,      \* GET: the hosts read
           shown  |-> None]      \* the answer to the last GET, as a PUT

Set(c, state) == cli' = [cli EXCEPT ![c] = state]

(* The command is over. *)
End(c, status) == Set(c, [cli[c] EXCEPT !.pc = "idle", !.via = None, !.status = status])

Free(p) == run[p].pc = "idle" /\ \A c \in Clients : cli[c].via # p

(* A PUT or POST that got no good answer is sent again, else a new one. *)
Failed(c) == cli[c].pc = "idle" /\ cli[c].sent # None /\ cli[c].status # OK

Submissions(c) ==
    IF Failed(c) THEN {cli[c].sent}
    ELSE Commands[c] \cup ({cli[c].shown} \ {None})

Counted(c) ==
    IF Failed(c) THEN UNCHANGED accepted
    ELSE accepted < MaxRequests /\ accepted' = accepted + 1

(* Handler p gets the request of a client. *)
Deliver(p, r) ==
    /\ Free(p)
    /\ Continue(p, {r})
    /\ request' = [request EXCEPT ![p] = r]
    /\ reply'   = [reply EXCEPT ![p] = "none"]
    /\ changed' = [changed EXCEPT ![p] = FALSE]
    /\ repeat'  = [repeat EXCEPT ![p] = FALSE]
    /\ UNCHANGED <<store, clock>>

-----------------------------------------------------------------------------
(* PUT and POST *)

Submit(c, p, r) ==
    /\ cli[c].pc = "idle"
    /\ Deliver(p, r)
    /\ Counted(c)
    /\ Set(c, [cli[c] EXCEPT !.pc = "waiting", !.sent = r, !.via = p, !.status = NoStatus])
    /\ UNCHANGED <<faults, untouched>>

Answered(c) == cli[c].pc = "waiting" /\ run[cli[c].via].pc = "idle"

(* The answer of the handler: 200 or 201, or 500 with any error.           *)
Receive(c) ==
    /\ cli[c].pc = "waiting"
    /\ \/ reply[cli[c].via] = "ok" /\ End(c, OK)
       \/ reply[cli[c].via] = "error" /\ End(c, ServerError)
    /\ UNCHANGED <<vars, untouched>>

Fault(kind) ==
    /\ kind \in Faults
    /\ faults < MaxFaults
    /\ faults' = faults + 1

(* The timeout of the http.Client; the handler knows nothing of it. *)
Timeout(c) ==
    /\ cli[c].pc # "idle"
    /\ Fault("timeout")
    /\ End(c, NoStatus)
    /\ UNCHANGED <<store, clock, run, client, accepted, untouched>>

(* The connection breaks under the body.  handlerOf answers 500, calls the *)
(* handler all the same, and that refuses the part of a JSON text it got.  *)
BreakUpload(c, r) ==
    /\ cli[c].pc = "idle"
    /\ Fault("upload")
    /\ Counted(c)
    /\ Set(c, [cli[c] EXCEPT !.sent = r, !.status = NoStatus])
    /\ UNCHANGED <<store, clock, run, client, untouched>>

-----------------------------------------------------------------------------
(* GET: getSerivce reads the service, then reads it again with its hosts. *)

Show(c, s) ==
    /\ cli[c].pc = "idle"
    /\ ~Failed(c)
    /\ accepted < MaxRequests
    /\ accepted' = accepted + 1
    /\ Set(c, [Unused EXCEPT !.pc = "get", !.name = s])
    /\ untouched' = [untouched EXCEPT ![c] = TRUE]
    /\ UNCHANGED <<store, clock, run, client, faults>>

Asked(c) == services[cli[c].name]

GetAsked(c) ==
    /\ cli[c].pc = "get"
    /\ \/ Asked(c) = None /\ End(c, NotFound)
       \/ Asked(c) # None /\ Set(c, [cli[c] EXCEPT !.pc = "getHosts", !.svc = Asked(c)])

GetHostsOfAsked(c) ==
    /\ cli[c].pc = "getHosts"
    /\ \/ Asked(c) = None /\ End(c, ServerError)
       \/ Asked(c) # None /\ Set(c, [cli[c] EXCEPT !.pc = "readHosts", !.rest = Asked(c).hosts])

(* SelectHostByName of the next host; a missing one is skipped. *)
ReadHostOfAsked(c) ==
    /\ cli[c].pc = "readHosts"
    /\ cli[c].rest # <<>>
    /\ LET h == Head(cli[c].rest)
       IN  Set(c, [cli[c] EXCEPT !.rest = Tail(@),
                     !.found = IF hosts[h] = None THEN @
                               ELSE Append(@, [name |-> h, attr |-> hosts[h]])])

(* Mutant: the dependencies are left out of the answer. *)
WithoutDependencies(name, svc, found) ==
    [kind |-> "Put", at |-> 0, service |-> name,
     protocol |-> svc.protocol, hosts |-> found, deps |-> <<>>]

(* The answer, and what its reader may PUT: NewIdempotentService. *)
NewIdempotentService(name, svc, found) ==
    [kind |-> "Put", at |-> 0, service |-> name,
     protocol |-> svc.protocol, hosts |-> found, deps |-> SetToSeq(svc.deps)]

RespondShown(c) ==
    /\ cli[c].pc = "readHosts"
    /\ cli[c].rest = <<>>
    /\ Set(c, [Unused EXCEPT !.status = OK,
                 !.shown = NewIdempotentService(cli[c].name, cli[c].svc, cli[c].found)])

Serve(c) ==
    /\ GetAsked(c) \/ GetHostsOfAsked(c) \/ ReadHostOfAsked(c) \/ RespondShown(c)
    /\ UNCHANGED <<vars, untouched>>

(* A call of GET's handler to the store fails: 500. *)
ServeFails(c) ==
    /\ cli[c].pc \in {"get", "getHosts"} \/ cli[c].rest # <<>>
    /\ Fault("error")
    /\ End(c, ServerError)
    /\ UNCHANGED <<store, clock, run, client, accepted, untouched>>

-----------------------------------------------------------------------------
(* The server under the API.  What it writes is noted for every client.    *)

Observe == untouched' = [c \in Clients |-> untouched[c] /\ store' = store]

ServerStep(p) == (Work(p) \/ CallFails(p)) /\ Observe /\ UNCHANGED cli

ClockStep == Tick /\ UNCHANGED ctlVars

(* The clients whose handler was at work see their connection break. *)
ServerCrash ==
    /\ Crash
    /\ cli' = [c \in Clients |->
                 IF cli[c].pc = "idle" \/ Answered(c) THEN cli[c]
                 ELSE [cli[c] EXCEPT !.pc = "idle", !.via = None, !.status = NoStatus]]
    /\ UNCHANGED untouched

CtlInit ==
    /\ Init
    /\ cli = [c \in Clients |-> Unused]
    /\ untouched = [c \in Clients |-> FALSE]

CtlNext ==
    \/ \E c \in Clients :
          \/ \E r \in Submissions(c) : (\E p \in Handlers : Submit(c, p, r)) \/ BreakUpload(c, r)
          \/ \E s \in Shows[c] : Show(c, s)
          \/ Receive(c) \/ Timeout(c) \/ Serve(c) \/ ServeFails(c)
    \/ \E p \in Handlers : ServerStep(p)
    \/ ClockStep
    \/ ServerCrash

(* Goroutines are scheduled, answers arrive, and a client repeats a PUT    *)
(* that failed until it is answered 200.                                   *)
Repeat(c) == Failed(c) /\ \E p \in Handlers : Submit(c, p, cli[c].sent)

CtlSpec ==
    /\ CtlInit /\ [][CtlNext]_apiVars
    /\ \A p \in Handlers : WF_apiVars(Work(p) /\ Observe /\ UNCHANGED cli)
    /\ \A c \in Clients : WF_apiVars(Receive(c)) /\ WF_apiVars(Serve(c)) /\ WF_apiVars(Repeat(c))

-----------------------------------------------------------------------------
(* A client that repeats its PUT until the answer is 200 gets there,       *)
(* though its timeout leaves handlers of earlier attempts at work beside   *)
(* the last one, and other clients write the same service (client.go:68,   *)
(* server.go:104).                                                         *)
CommandConverges ==
    \A c \in Clients : cli[c].sent # None ~> cli[c].pc = "idle" /\ cli[c].status = OK

(* The answer of a GET, sent back as a PUT, writes nothing and is answered *)
(* "not changed", if nobody else wrote since the GET began: GET shows all  *)
(* that a PUT compares (rest_services.go:50, NewIdempotentService).        *)
ShownIsNoChange ==
    [][\A c \in Clients :
          LET p == cli[c].via
          IN  untouched[c] /\ p # None /\ cli[c].sent = cli[c].shown /\ run'[p] # run[p]
                => UNCHANGED store /\ ~changed'[p]]_apiVars

(* What meshemctl prints when its command ends: PutService reports an      *)
(* error only if no answer came or it was no JSON, whatever the status.    *)
Prints(c) == IF cli[c].status = NoStatus THEN "Error" ELSE "OK"

(* When "svc apply" prints "OK (Changed=...)", the service is what its     *)
(* file describes (svc_cmd.go:68).                                         *)
OkMeansApplied ==
    \A c \in Clients :
        cli[c].pc = "idle" /\ cli[c].sent # None /\ Prints(c) = "OK" => Achieved(cli[c].sent)
=============================================================================
