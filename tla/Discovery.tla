------------------------------ MODULE Discovery ------------------------------
(***************************************************************************)
(* The metrics proxy: MetricsDiscoveryHandler lists the instances of an    *)
(* application, MetricsProxyHandler passes a scrape on to one of them      *)
(* (apiserver, instancediscoverer, metricsproxy).                          *)
(*                                                                         *)
(* One scrape beside a platform that creates, scales, stops, starts and    *)
(* deletes applications between its calls.  Applications keep their names. *)
(* Of the headers only the one that names the instance is modelled.        *)
(***************************************************************************)
EXTENDS Integers, Sequences, FiniteSets

CONSTANTS
  Names,        \* names of applications in the space
  AppNames,     \* names this proxy serves (APP_NAMES)
  Hosts,        \* host names, with their domains
  Routes,       \* routes of the space
  MaxInstances, \* bound: instances of an application
  MaxChanges    \* bound: changes of the platform

AppNamesAssumption == AppNames \subseteq Names
FiniteAssumption == IsFiniteSet(Names) /\ IsFiniteSet(Routes)
RoutesAssumption == Routes \subseteq [host : Hosts, path : {"none", "metrics", "other"}]
BoundsAssumption == {MaxInstances, MaxChanges} \subseteq Nat

(* Of the path of a route it matters whether it is that of the metrics.    *)
(* "other" is also a route of TCP, which has a port.                       *)

(* Application GUIDs are numbered in the order of creation.  Instances is  *)
(* how many there should be, Running which there are: none of a stopped    *)
(* application.                                                            *)
NoApp == [Guid |-> 0, Instances |-> 0, Running |-> {}]

Guids == 1 .. Cardinality(Names) + MaxChanges

Numbers == 0 .. MaxInstances - 1

App == [Guid : Guids, Instances : 0 .. MaxInstances, Running : SUBSET Numbers]

(* What a client may ask for as an instance: a number that one may have,   *)
(* another integer (MaxInstances stands for any), or no integer.           *)
NotANumber == MaxInstances + 1
InstanceIDs == 0 .. NotANumber

VARIABLES
  apps,      \* the application of each name, or NoApp
  routes,    \* the routes mapped to each application
  changes,   \* changes of the platform so far
  targets,   \* what discovery listed, and of which application name
  calm,      \* whether nothing has changed or failed since
  name,      \* the name asked for
  instance,  \* the instance asked for
  pc,        \* where the proxy handler is
  app,       \* the application it found first
  urls,      \* where it may pass the scrape on to
  left,      \* routes whose domain it has still to ask for
  status,    \* what it answered, 0 before
  from       \* the instance that answered

platform == <<apps, routes, changes>>
request == <<name, instance>>
work == <<app, urls, left>>
reply == <<status, from>>
vars == <<platform, targets, calm, request, pc, work, reply>>

Nobody == <<0, 0>>

TypeOK ==
  /\ apps \in [Names -> App \cup {NoApp}]
  /\ routes \in [Guids -> SUBSET Routes]
  /\ changes \in 0 .. MaxChanges
  /\ targets \subseteq Names \X InstanceIDs
  /\ calm \in BOOLEAN
  /\ name \in Names /\ instance \in InstanceIDs
  /\ pc \in {"app", "instance", "app_again", "routes", "domains", "forward", "done"}
  /\ app \in App \cup {NoApp}
  /\ urls \in Seq(Hosts) /\ Len(urls) <= Cardinality(Routes)
  /\ left \subseteq Routes
  /\ status \in {0, 200, 400, 404, 500}
  /\ from \in (Guids \cup {0}) \X InstanceIDs
  /\ status = 0 <=> pc # "done"
  /\ pc = "forward" => app # NoApp /\ left = {} /\ urls # <<>>

Init ==
  /\ LET guid == CHOOSE g \in [Names -> 1 .. Cardinality(Names)] :
                    \A m, n \in Names : g[m] = g[n] => m = n
     IN /\ apps \in [Names -> App]
        /\ \A n \in Names : apps[n].Guid = guid[n]
  /\ routes \in [Guids -> SUBSET Routes]
  /\ changes = 0
  /\ targets = {}
  /\ calm = FALSE
  /\ name \in Names
  /\ instance \in InstanceIDs
  /\ pc = "app"
  /\ app = NoApp
  /\ urls = <<>>
  /\ left = {}
  /\ status = 0
  /\ from = Nobody

------------------------------------------------------------------------------
(* The Cloud Controller and the router (external).                         *)

Change ==
  /\ changes < MaxChanges
  /\ changes' = changes + 1
  /\ calm' = FALSE
  /\ UNCHANGED <<routes, targets, request, pc, work, reply>>

Delete(n) == apps' = [apps EXCEPT ![n] = NoApp] /\ Change

Create(n, i, up) ==
  /\ apps' = [apps EXCEPT ![n] =
                 [Guid |-> Cardinality(Names) + changes + 1, Instances |-> i, Running |-> up]]
  /\ Change

Scale(n, i) ==
  /\ apps[n] # NoApp
  /\ apps' = [apps EXCEPT ![n].Instances = i]
  /\ Change

(* Instances start, crash or follow a scaling; stopping leaves none.       *)
Run(n, up) ==
  /\ apps[n] # NoApp
  /\ apps' = [apps EXCEPT ![n].Running = up]
  /\ Change

(* The applications that run and have a route.                             *)
Behind(host, path) ==
  {n \in Names : /\ apps[n] # NoApp /\ apps[n].Running # {}
                 /\ [host |-> host, path |-> path] \in routes[apps[n].Guid]}

(* Where the router leads a request for a host's metrics: the longest path *)
(* decides.                                                                *)
LedTo(host) ==
  IF Behind(host, "metrics") # {} THEN Behind(host, "metrics") ELSE Behind(host, "none")

(* The instance that X-Cf-App-Instance names gets the request, if it is    *)
(* among those that the request is led to.                                 *)
Routed(host, guid, i) ==
  \E n \in LedTo(host) : apps[n].Guid = guid /\ i \in apps[n].Running

------------------------------------------------------------------------------
(* Finding applications.                                                   *)

appAccessAllowed(n) == n \in AppNames

GetSpaceAppByName(n) == IF appAccessAllowed(n) THEN apps[n] ELSE NoApp

(* Mutant of InstancesOf: counted from one.                                *)
InstancesFromOne(n) == 1 .. GetSpaceAppByName(n).Instances

InstancesOf(n) == 0 .. GetSpaceAppByName(n).Instances - 1

(* The discovery handler, in one call to the Cloud Controller.             *)
MetricsDiscovery ==
  /\ pc = "app"
  /\ targets' = {name} \X InstancesOf(name)
  /\ calm' = TRUE
  /\ UNCHANGED <<platform, request, pc, work, reply>>

------------------------------------------------------------------------------
(* The proxy handler.                                                      *)

Go(to) == pc' = to /\ UNCHANGED reply

Answer(code, who) == pc' = "done" /\ status' = code /\ from' = who

LookUp ==
  /\ pc = "app"
  /\ app' = GetSpaceAppByName(name)
  /\ IF app' = NoApp THEN Answer(404, Nobody) ELSE Go("instance")
  /\ UNCHANGED <<platform, targets, calm, request, urls, left>>

ParseInstance ==
  /\ pc = "instance"
  /\ IF instance = NotANumber THEN Answer(400, Nobody) ELSE Go("app_again")
  /\ UNCHANGED <<platform, targets, calm, request, work>>

(* GetAppRoutesByName looks the name up once more.                         *)
LookUpAgain ==
  /\ pc = "app_again"
  /\ LET again == GetSpaceAppByName(name) IN
     IF again = NoApp THEN Answer(500, Nobody) /\ UNCHANGED left
     ELSE Go("routes") /\ left' = routes[again.Guid]
  /\ UNCHANGED <<platform, targets, calm, request, app, urls>>

(* The routes of an application deleted since are an error.                *)
GetAppRoutes ==
  /\ pc = "routes"
  /\ Go("domains")
  /\ UNCHANGED <<platform, targets, calm, request, work>>

(* Of a route its URL keeps the host and the domain: no path and no port.  *)
URL(r) == r.host

getRouteDomain(r) ==
  /\ pc = "domains" /\ r \in left
  /\ urls' = Append(urls, URL(r))
  /\ left' = left \ {r}
  /\ UNCHANGED <<platform, targets, calm, request, pc, app, reply>>

(* A route whose domain cannot be had is left out.                         *)
SkipRoute(r) ==
  /\ pc = "domains" /\ r \in left
  /\ left' = left \ {r}
  /\ calm' = FALSE
  /\ UNCHANGED <<platform, targets, request, pc, app, urls, reply>>

(* Mutant of SomeURL: nothing is checked.                                  *)
NoURLNeeded == TRUE

SomeURL == urls # <<>>

HaveURLs ==
  /\ pc = "domains" /\ left = {}
  /\ IF SomeURL THEN Go("forward") ELSE Answer(404, Nobody)
  /\ UNCHANGED <<platform, targets, calm, request, work>>

(* Mutant of AppInstance: instances counted from one.                      *)
AppInstanceFromOne == <<app.Guid, instance - 1>>

(* The header X-Cf-App-Instance: of the application found first, whatever  *)
(* the routes belong to.                                                   *)
AppInstance == <<app.Guid, instance>>

(* Where no instance is, the router answers (400, 404), or no name is      *)
(* found (500).                                                            *)
ForwardRequestToURL ==
  /\ pc = "forward"
  /\ IF Routed(urls[1], AppInstance[1], AppInstance[2])
     THEN Answer(200, AppInstance) ELSE \E code \in {400, 404, 500} : Answer(code, Nobody)
  /\ UNCHANGED <<platform, targets, calm, request, work>>

(* A call that fails: to the Cloud Controller, which the first look-up     *)
(* takes for a missing application, or to the instance.                    *)
Fail ==
  /\ pc \in {"app", "app_again", "routes", "forward"}
  /\ Answer(IF pc = "app" THEN 404 ELSE 500, Nobody)
  /\ calm' = FALSE
  /\ UNCHANGED <<platform, targets, request, work>>

Done == pc = "done" /\ UNCHANGED vars

Next ==
  \/ \E n \in Names : Delete(n)
  \/ \E n \in Names, i \in 0 .. MaxInstances, up \in SUBSET Numbers : Create(n, i, up)
  \/ \E n \in Names, i \in 0 .. MaxInstances : Scale(n, i)
  \/ \E n \in Names, up \in SUBSET Numbers : Run(n, up)
  \/ MetricsDiscovery
  \/ LookUp \/ ParseInstance \/ LookUpAgain \/ GetAppRoutes
  \/ \E r \in Routes : getRouteDomain(r) \/ SkipRoute(r)
  \/ HaveURLs \/ ForwardRequestToURL \/ Fail \/ Done

Spec == Init /\ [][Next]_vars

------------------------------------------------------------------------------
(* Metrics that are passed back come from the instance asked for of an     *)
(* application of the name asked for and served, although the name is      *)
(* looked up twice and a route may lead to several applications.           *)
OwnMetrics ==
  status = 200 =>
    /\ name \in AppNames
    /\ from[2] = instance
    /\ \A n \in Names : apps[n].Guid = from[1] => n = name

(* What discovery lists is served: while nothing changes or fails, a       *)
(* scrape of a listed target is answered by it, unless it is an instance   *)
(* that there should be and is not, or its application has no route, one   *)
(* with a path or port, or one whose host has a route to /metrics besides. *)
(* The exceptions are real: instances are listed of a stopped application  *)
(* too, and the URL of a route forgets its path and port                   *)
(* (instancediscoverer.go:120).                                            *)
ListedAreServed ==
  pc = "done" /\ calm /\ <<name, instance>> \in targets =>
    LET own == routes[apps[name].Guid] IN
    \/ status = 200
    \/ instance \in (0 .. apps[name].Instances - 1) \ apps[name].Running
    \/ own = {}
    \/ \E r \in own : r.path # "none" \/ Behind(r.host, "metrics") # {}
==============================================================================
