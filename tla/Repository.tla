------------------------------ MODULE Repository ------------------------------
(***************************************************************************)
(* What an InventoryRepository (repository/repository.go) promises to the  *)
(* inventory service: two tables, and calls that take effect at once, once *)
(* or not at all.  HeapRepository and ConsulRepository implement it; the   *)
(* tests of the repository run the same cases against both.                *)
(***************************************************************************)
EXTENDS RepositoryCalls

VARIABLES
    services,  \* name -> the service's record, or None
    hosts,     \* name -> the host's attributes, or None
    answer,    \* the last call and what it returned
    outages    \* calls that met an unavailable storage so far

tables   == <<services, hosts>>
repoVars == <<tables, answer, outages>>

Present(table) == {n \in DOMAIN table : table[n] # None}
RowsOf(table, names) == {Row(n, table[n]) : n \in names \cap Present(table)}

-----------------------------------------------------------------------------
(* What a call makes of the tables. *)

Known(c) == services[c.name] # None

Appends(c) == Known(c) /\ CanAppendDependent(services[c.name], c.depend)

HostsAfter(c) ==
    CASE c.op = "PutHost"    -> [hosts EXCEPT ![c.name] = c.value]
      [] c.op = "DeleteHost" -> [hosts EXCEPT ![c.name] = None]
      [] OTHER -> hosts

(* A dependency that cannot be added changes nothing; a known service gets *)
(* the new version from RemoveServiceDependency in any case.               *)
ServicesAfter(c) ==
    CASE c.op = "PutService"    -> [services EXCEPT ![c.name] = c.value]
      [] c.op = "DeleteService" -> [services EXCEPT ![c.name] = None]
      [] c.op = "AddServiceDependency" /\ Appends(c) ->
            [services EXCEPT ![c.name] = [AppendDependent(@, c.depend) EXCEPT !.version = c.version]]
      [] c.op = "RemoveServiceDependency" /\ Known(c) ->
            [services EXCEPT ![c.name] = [RemoveDependent(@, c.depend) EXCEPT !.version = c.version]]
      [] OTHER -> services

(* What it answers.  Only AddServiceDependency and SelectHostsOfService    *)
(* take an unknown service for an error; deleting or changing what does    *)
(* not exist answers FALSE.                                                *)
Refused(c) == \/ c.op = "AddServiceDependency" /\ ~Appends(c)
              \/ c.op = "SelectHostsOfService" /\ ~Known(c)

Selected(c) ==
    CASE c.op = "SelectHostByName"      -> RowsOf(hosts, {c.name})
      [] c.op = "SelectServiceByName"   -> RowsOf(services, {c.name})
      [] c.op = "SelectAllHosts"        -> RowsOf(hosts, Hosts)
      [] c.op = "SelectAllServices"     -> RowsOf(services, Services)
      [] c.op = "SelectAllHostNames"    -> Present(hosts)
      [] c.op = "SelectAllServiceNames" -> Present(services)
      [] c.op = "SelectHostsOfService"  -> RowsOf(hosts, Listed(services[c.name]))
      [] c.op = "SelectReferringServiceNamesTo" ->
            {s \in Present(services) : RefersTo(services[s], c.name)}
      [] OTHER -> {}

Succeeds(c) ==
    CASE c.op = "SelectHostByName" \/ c.op = "DeleteHost" -> hosts[c.name] # None
      [] c.op = "SelectServiceByName" \/ c.op = "DeleteService" -> Known(c)
      [] c.op = "RemoveServiceDependency" -> Known(c) /\ RefersTo(services[c.name], c.depend)
      [] OTHER -> TRUE

Perform(c) ==
    /\ answer' = IF Refused(c) THEN Failure(c) ELSE Answer(c, Succeeds(c), Selected(c))
    /\ services' = ServicesAfter(c)
    /\ hosts' = HostsAfter(c)
    /\ UNCHANGED outages

(* The storage is unavailable: the call answers an error and has changed   *)
(* nothing, or all it was to change and only the answer was lost.          *)
Unavailable(c) ==
    /\ outages' = outages + 1
    /\ answer' = Failure(c)
    /\ \/ UNCHANGED tables
       \/ services' = ServicesAfter(c) /\ hosts' = HostsAfter(c)

RepoInit ==
    /\ services = [s \in Services |-> None]
    /\ hosts = [h \in Hosts |-> None]
    /\ answer = NoAnswer
    /\ outages = 0

RepoNext == \E c \in Calls : Perform(c) \/ Unavailable(c)

RepoSpec == RepoInit /\ [][RepoNext]_repoVars
=============================================================================
