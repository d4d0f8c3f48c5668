------------------------------ MODULE Lifecycle ------------------------------
(***************************************************************************)
(* One process of paas-billing (main.go, main_app.go, ListenAndServe of    *)
(* apiserver/server.go): what its command starts, in which order, how the  *)
(* parts run beside each other over one database handle and one context,   *)
(* and how the process ends when a part ends or a signal comes.            *)
(*                                                                         *)
(* What a part does while it works is the business of the other modules;   *)
(* here it waits or works, and needs the handle to finish its work.        *)
(***************************************************************************)
EXTENDS Naturals, Sequences, FiniteSets

CONSTANT MaxRequests   \* bound: requests that arrive

RequestsAssumption == MaxRequests \in Nat

Commands == {"collector", "api", "proxymetrics"}

Servers == {"health", "api", "proxymetrics"}
Workers == {"app-usage-event-collector", "service-usage-event-collector", "processor"}
Parts == Servers \cup Workers

(* Goroutines nobody waits for.                                            *)
Detached == {"periodic-metrics", "historic-data-collector"}

Inits == {"store", "historic data store"}

(* startCollector, startAPI, startProxyMetrics: the steps before Wait.     *)
Startup(c) ==
  IF c = "collector"
  THEN <<"health", "store", "historic data store", "app-usage-event-collector",
         "service-usage-event-collector", "processor", "historic-data-collector">>
  ELSE <<c>>

VARIABLES
  command,    \* the first argument
  main,       \* startup steps the main goroutine has done
  exit,       \* "no", "0", "1" or "killed"
  signalled,  \* whether the first signal has come
  part,       \* the state of each part
  wg,         \* the counter of the wait group
  db,         \* whether the database handle is open
  ctx,        \* whether the context of the parts is cancelled
  detached,   \* the state of each goroutine nobody waits for
  arrived,    \* requests that have arrived
  requests,   \* requests each server is answering
  timedOut,   \* servers whose drain ran out of time
  cut         \* servers that broke off a request

process == <<command, main, exit, signalled>>
parts == <<part, wg, db, ctx>>
serving == <<arrived, requests, timedOut, cut>>
vars == <<process, parts, detached, serving>>

Ending == {"returned", "closed", "cancelled"}

Initialised ==
  \A i \in 1 .. Len(Startup(command)) : Startup(command)[i] \in Inits => i <= main

(* The first signal or a part that has ended cancels the context, and a    *)
(* part has closed the handle by then.                                     *)
TypeOK ==
  /\ command \in Commands
  /\ main \in 0 .. Len(Startup(command))
  /\ exit \in {"no", "0", "1", "killed"}
  /\ part \in [Parts -> {"absent", "started", "waiting", "working", "draining", "done"} \cup Ending]
  /\ wg \in 0 .. Cardinality(Parts)
  /\ {signalled, db, ctx} \subseteq BOOLEAN
  /\ detached \in [Detached -> {"absent", "asleep", "working", "returned"}]
  /\ arrived \in 0 .. MaxRequests
  /\ requests \in [Servers -> 0 .. MaxRequests]
  /\ timedOut \subseteq Servers /\ cut \subseteq Servers
  /\ ctx /\ ~signalled => ~db

Init ==
  /\ command \in Commands
  /\ main = 0
  /\ exit = "no"
  /\ signalled = FALSE
  /\ part = [p \in Parts |-> "absent"]
  /\ wg = 0
  /\ db = TRUE
  /\ ctx = FALSE
  /\ detached = [d \in Detached |-> "absent"]
  /\ arrived = 0
  /\ requests = [s \in Servers |-> 0]
  /\ timedOut = {}
  /\ cut = {}

Running == exit = "no"

------------------------------------------------------------------------------
(* The main goroutine.                                                     *)

Starting(step) == main < Len(Startup(command)) /\ Startup(command)[main + 1] = step

Advance == main' = main + 1 /\ UNCHANGED <<command, exit, signalled>>

Exit(code) == exit' = code /\ UNCHANGED <<command, main, signalled>>

AddPart == wg' = wg + 1

start(p) ==
  /\ Starting(p)
  /\ part' = [part EXCEPT ![p] = "started"]
  /\ AddPart
  /\ Advance
  /\ UNCHANGED <<db, ctx, detached, serving>>

(* store.Init and historicDataStore.Init: both need the handle, the first  *)
(* also the context.                                                       *)
AppInit(step) ==
  /\ Starting(step)
  /\ db /\ (step = "store" => ~ctx)
  /\ Advance
  /\ UNCHANGED <<parts, detached, serving>>

StartHistoricDataCollector ==
  /\ Starting("historic-data-collector")
  /\ detached' = [detached EXCEPT !["historic-data-collector"] = "working"]
  /\ Advance
  /\ UNCHANGED <<parts, serving>>

(* What is still being answered when the process is gone is cut.           *)
CutRequests == cut' = cut \cup {s \in Servers : requests[s] > 0}

(* Main returns an error: Init failed, or what a part needs could not be   *)
(* made (a client, a configuration).                                       *)
StartFails ==
  /\ main < Len(Startup(command))
  /\ Startup(command)[main + 1] \notin {"health", "processor", "historic-data-collector"}
  /\ Exit("1")
  /\ CutRequests
  /\ UNCHANGED <<parts, detached, arrived, requests, timedOut>>

Wait ==
  /\ main = Len(Startup(command))
  /\ wg = 0
  /\ Exit("0")
  /\ CutRequests
  /\ UNCHANGED <<parts, detached, arrived, requests, timedOut>>

(* The first SIGINT or SIGTERM cancels the context; the handler is then    *)
(* reset, so that the next one ends the process, as SIGKILL does.          *)
Signal ==
  /\ ~signalled
  /\ signalled' = TRUE
  /\ ctx' = TRUE
  /\ UNCHANGED <<command, main, exit, part, wg, db, detached, serving>>

Kill ==
  /\ Exit("killed")
  /\ CutRequests
  /\ UNCHANGED <<parts, detached, arrived, requests, timedOut>>

------------------------------------------------------------------------------
(* A part: fn, and what start defers.                                      *)

Move(p, from, to) == part[p] = from /\ part' = [part EXCEPT ![p] = to]

(* runRefreshAndConsolidateLoop begins with work and starts the metrics    *)
(* loop; EventCollector.Run begins with a wait.                            *)
RunWorker(w) ==
  /\ Move(w, "started", IF w = "processor" THEN "working" ELSE "waiting")
  /\ detached' = IF w = "processor"
                 THEN [detached EXCEPT !["periodic-metrics"] = "working"] ELSE detached
  /\ UNCHANGED <<process, wg, db, ctx, serving>>

(* The timer, which select may choose although the context is cancelled.   *)
Work(w) ==
  /\ Move(w, "waiting", "working")
  /\ UNCHANGED <<process, wg, db, ctx, detached, serving>>

(* Done, or failed: on a closed handle or a cancelled context it fails.    *)
Worked(w) ==
  /\ Move(w, "working", "waiting")
  /\ UNCHANGED <<process, wg, db, ctx, detached, serving>>

StopWorker(w) ==
  /\ ctx
  /\ Move(w, "waiting", "returned")
  /\ UNCHANGED <<process, wg, db, ctx, detached, serving>>

(* ListenAndServe.  A listener that fails ends the server as a cancelled   *)
(* context does: after a drain, and without an error.                      *)
Listen(s) ==
  /\ Move(s, "started", "waiting")
  /\ UNCHANGED <<process, wg, db, ctx, detached, serving>>

ListenFails(s) ==
  /\ part[s] \in {"started", "waiting"}
  /\ part' = [part EXCEPT ![s] = "draining"]
  /\ UNCHANGED <<process, wg, db, ctx, detached, serving>>

Stopping(s) ==
  /\ ctx
  /\ Move(s, "waiting", "draining")
  /\ UNCHANGED <<process, wg, db, ctx, detached, serving>>

(* Mutant of Drained: the server does not wait.                            *)
DrainedNever(s) == TRUE

Drained(s) == requests[s] = 0

Drain(s) ==
  /\ Drained(s)
  /\ Move(s, "draining", "returned")
  /\ UNCHANGED <<process, wg, db, ctx, detached, serving>>

DrainTimeout(s) ==
  /\ requests[s] > 0
  /\ Move(s, "draining", "returned")
  /\ timedOut' = timedOut \cup {s}
  /\ UNCHANGED <<process, wg, db, ctx, detached, arrived, requests, cut>>

Arrive(s) ==
  /\ part[s] = "waiting"
  /\ arrived < MaxRequests
  /\ arrived' = arrived + 1
  /\ requests' = [requests EXCEPT ![s] = @ + 1]
  /\ UNCHANGED <<process, parts, detached, timedOut, cut>>

(* The answer of a handler that reads the database; metrics are proxied    *)
(* without it.                                                             *)
Answer(s) ==
  /\ requests[s] > 0
  /\ requests' = [requests EXCEPT ![s] = @ - 1]
  /\ cut' = IF db \/ s = "proxymetrics" THEN cut ELSE cut \cup {s}
  /\ UNCHANGED <<process, parts, detached, arrived, timedOut>>

(* db.Close, Shutdown, wg.Done: deferred calls run last to first.          *)
Deferred == <<"closed", "cancelled", "done">>

(* Mutant of Shutdown: the parts are left running.                         *)
ShutdownNothing(to) == UNCHANGED ctx

Shutdown(to) == ctx' = (ctx \/ to = "cancelled")

Defer(p) ==
  \E i \in 1 .. Len(Deferred) :
    LET to == Deferred[i] IN
    /\ Move(p, IF i = 1 THEN "returned" ELSE Deferred[i - 1], to)
    /\ db' = (db /\ to # "closed")
    /\ Shutdown(to)
    /\ wg' = IF to = "done" THEN wg - 1 ELSE wg
    /\ UNCHANGED <<process, detached, serving>>

------------------------------------------------------------------------------
(* Goroutines nobody waits for: the metrics loop heeds the context, the    *)
(* collector of historic data does not.                                    *)
Sleep(d) ==
  /\ detached[d] = "working"
  /\ detached' = [detached EXCEPT ![d] = "asleep"]
  /\ UNCHANGED <<process, parts, serving>>

Wake(d) ==
  /\ detached[d] = "asleep"
  /\ detached' = [detached EXCEPT ![d] = "working"]
  /\ UNCHANGED <<process, parts, serving>>

StopMetrics ==
  /\ ctx /\ detached["periodic-metrics"] = "asleep"
  /\ detached' = [detached EXCEPT !["periodic-metrics"] = "returned"]
  /\ UNCHANGED <<process, parts, serving>>

MainStep ==
  \/ \E p \in Parts : start(p)
  \/ \E i \in Inits : AppInit(i)
  \/ StartHistoricDataCollector \/ StartFails \/ Wait

PartStep(p) ==
  \/ p \in Workers /\ (RunWorker(p) \/ Worked(p))
  \/ p \in Servers /\ (Listen(p) \/ Stopping(p) \/ Drain(p) \/ DrainTimeout(p))
  \/ Defer(p)

Step ==
  \/ MainStep \/ Signal \/ Kill \/ StopMetrics
  \/ \E p \in Parts : PartStep(p)
  \/ \E w \in Workers : Work(w) \/ StopWorker(w)
  \/ \E s \in Servers : ListenFails(s) \/ Arrive(s) \/ Answer(s)
  \/ \E d \in Detached : Sleep(d) \/ Wake(d)

Ended == ~Running /\ UNCHANGED vars

Next == (Running /\ Step) \/ Ended

Spec == Init /\ [][Next]_vars

(* Goroutines run; work, requests and drains end (all have timeouts); a    *)
(* worker that chooses between its timer and the cancelled context again   *)
(* and again does not always choose the timer.                             *)
Fairness ==
  /\ WF_vars(Running /\ MainStep)
  /\ \A p \in Parts : WF_vars(Running /\ PartStep(p))
  /\ \A w \in Workers : SF_vars(Running /\ StopWorker(w))

FairSpec == Spec /\ Fairness

------------------------------------------------------------------------------
(* A process reports success only when every part that Wait waits for is   *)
(* done, its work ended and its handle closed, and none of its command has *)
(* been left out.  The goroutines nobody waits for may be at work even     *)
(* then: the end of the process breaks off what a collection of historic   *)
(* data (main_app.go:201) or the metrics loop is doing.                    *)
CleanExit ==
  exit = "0" => \A p \in Parts : part[p] = IF \E i \in 1 .. Len(Startup(command)) :
                                               Startup(command)[i] = p
                                           THEN "done" ELSE "absent"

(* A request that the API server has accepted is answered, with the handle *)
(* open and the process alive, unless it takes longer than the drain or    *)
(* the process is killed.  Of the health server nothing is said: the end   *)
(* of any part closes the handle that its answers need.                    *)
AcceptedAreAnswered == "api" \in cut => "api" \in timedOut \/ exit = "killed"

(* Collectors of events, processor and the collector of historic data run  *)
(* only on a database that both Init have set up.                          *)
RunsInitialised ==
  /\ \A w \in Workers : part[w] # "absent" => Initialised
  /\ detached["historic-data-collector"] # "absent" => Initialised

(* From its start to its end a process of any command is in order: what    *)
(* needs an initialised database starts after Init (the health server does *)
(* not, and starts before it), the API answers what it has accepted, and   *)
(* success means that all that is waited for is done.                      *)
InOrder == RunsInitialised /\ CleanExit /\ AcceptedAreAnswered

(* No part goes on alone: once a part has ended or a signal has come, the  *)
(* process ends, for its platform to start it anew.                        *)
MustEnd == signalled \/ \E p \in Parts : part[p] \in Ending \cup {"done"}
EndsTogether == MustEnd ~> ~Running
==============================================================================
