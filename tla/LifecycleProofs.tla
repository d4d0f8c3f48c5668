--------------------------- MODULE LifecycleProofs ----------------------------
(***************************************************************************)
(* Theorems about Lifecycle, for any command and number of requests: what  *)
(* runs has been initialised, an exit that reports success is clean, and   *)
(* what the API has accepted is answered.                                  *)
(***************************************************************************)
EXTENDS Lifecycle, FiniteSetTheorems, TLAPS

Closed == {"closed", "cancelled", "done"}

Active == {p \in Parts : part[p] \notin {"absent", "done"}}

(* The parts that have been started are those of the steps that are done.  *)
StartedInv ==
  /\ \A p \in Parts : part[p] # "absent" <=> \E i \in 1 .. main : Startup(command)[i] = p
  /\ detached["historic-data-collector"] # "absent" => main = 7

(* The wait group counts the parts that have not ended.                    *)
WaitInv == wg = Cardinality(Active)

(* The handle is closed by the first part that ends.                       *)
HandleInv == db <=> \A p \in Parts : part[p] \notin Closed

(* A server that has drained answers no more, unless it ran out of time.   *)
DrainInv ==
  \A s \in Servers : requests[s] > 0 =>
    /\ part[s] # "absent"
    /\ part[s] \in Ending \cup {"done"} => s \in timedOut

(* A server answers what has arrived.                                      *)
CountInv == \A s \in Servers : requests[s] =< arrived

IInv ==
  /\ TypeOK
  /\ CountInv
  /\ StartedInv
  /\ WaitInv
  /\ HandleInv
  /\ DrainInv
  /\ CleanExit
  /\ AcceptedAreAnswered

------------------------------------------------------------------------------
(* The steps of each command.                                              *)
LEMMA Steps ==
  ASSUME NEW c \in Commands
  PROVE  /\ c = "collector" =>
              /\ Len(Startup(c)) = 7
              /\ Startup(c)[1] = "health"
              /\ Startup(c)[2] = "store"
              /\ Startup(c)[3] = "historic data store"
              /\ Startup(c)[4] = "app-usage-event-collector"
              /\ Startup(c)[5] = "service-usage-event-collector"
              /\ Startup(c)[6] = "processor"
              /\ Startup(c)[7] = "historic-data-collector"
         /\ c # "collector" => Len(Startup(c)) = 1 /\ Startup(c)[1] = c
<1>1. CASE c = "collector"
  <2>1. Startup(c) = <<"health", "store", "historic data store", "app-usage-event-collector",
                       "service-usage-event-collector", "processor", "historic-data-collector">>
    BY <1>1 DEF Startup
  <2>2. PICK seq : seq = <<"health", "store", "historic data store",
                           "app-usage-event-collector", "service-usage-event-collector",
                           "processor", "historic-data-collector">>
    OBVIOUS
  <2>3. Len(seq) = 7
    BY <2>2
  <2>4. seq[1] = "health" /\ seq[2] = "store" /\ seq[3] = "historic data store"
    BY <2>2
  <2>5. seq[4] = "app-usage-event-collector" /\ seq[5] = "service-usage-event-collector"
    BY <2>2
  <2>6. seq[6] = "processor" /\ seq[7] = "historic-data-collector"
    BY <2>2
  <2> QED
    BY <1>1, <2>1, <2>2, <2>3, <2>4, <2>5, <2>6
<1>2. CASE c # "collector"
  <2>1. Startup(c) = <<c>>
    BY <1>2 DEF Startup
  <2> QED
    BY <1>2, <2>1
<1> QED
  BY <1>1, <1>2

LEMMA OneToSeven ==
  /\ \A k \in 1 .. 7 : k = 1 \/ k = 2 \/ k = 3 \/ k = 4 \/ k = 5 \/ k = 6 \/ k = 7
  /\ \A k \in 1 .. 1 : k = 1
  /\ 1 \in 1 .. 7 /\ 7 \in 1 .. 7
OBVIOUS

LEMMA OneStep ==
  ASSUME NEW c \in Commands, c # "collector"
  PROVE  Len(Startup(c)) = 1 /\ \A i \in 1 .. Len(Startup(c)) : i = 1 /\ Startup(c)[i] = c
<1>1. Len(Startup(c)) = 1
  BY Steps
<1>2. Startup(c)[1] = c
  BY Steps
<1>3. \A i \in 1 .. Len(Startup(c)) : i = 1
  BY <1>1, OneToSeven, Zenon
<1> QED
  BY <1>1, <1>2, <1>3, Zenon

LEMMA StepsDiffer ==
  ASSUME NEW c \in Commands
  PROVE  /\ Len(Startup(c)) \in 1 .. 7
         /\ \A i, j \in 1 .. Len(Startup(c)) : Startup(c)[i] = Startup(c)[j] => i = j
<1>1. CASE c = "collector"
  <2>1. PICK seq : seq = Startup(c)
    OBVIOUS
  <2>2. /\ Len(seq) = 7 /\ seq[1] = "health" /\ seq[2] = "store"
        /\ seq[3] = "historic data store" /\ seq[4] = "app-usage-event-collector"
        /\ seq[5] = "service-usage-event-collector" /\ seq[6] = "processor"
        /\ seq[7] = "historic-data-collector"
    BY <1>1, <2>1, Steps
  <2>3. \A i, j \in 1 .. 7 : seq[i] = seq[j] => i = j
    BY <2>2, OneToSeven
  <2> QED
    BY <2>1, <2>2, <2>3, OneToSeven, Zenon
<1>2. CASE c # "collector"
  <2>1. Len(Startup(c)) = 1 /\ \A i \in 1 .. Len(Startup(c)) : i = 1
    BY <1>2, OneStep, Zenon
  <2> QED
    BY <2>1, OneToSeven, Zenon
<1> QED
  BY <1>1, <1>2

(* Workers, and the collector of historic data, come after both Inits.     *)
LEMMA InitsFirst ==
  ASSUME NEW c \in Commands, NEW i \in 1 .. Len(Startup(c)),
         Startup(c)[i] \in Workers \cup {"historic-data-collector"}
  PROVE  \A j \in 1 .. Len(Startup(c)) : Startup(c)[j] \in Inits => j < i
<1>1. c = "collector"
  <2> SUFFICES ASSUME c # "collector" PROVE FALSE
    OBVIOUS
  <2>1. Startup(c)[i] = c
    BY OneStep, Zenon
  <2> QED
    BY <2>1 DEF Workers, Commands
<1>2. PICK seq : seq = Startup(c)
  OBVIOUS
<1>3. /\ Len(seq) = 7 /\ seq[1] = "health" /\ seq[2] = "store"
      /\ seq[3] = "historic data store" /\ seq[4] = "app-usage-event-collector"
      /\ seq[5] = "service-usage-event-collector" /\ seq[6] = "processor"
      /\ seq[7] = "historic-data-collector"
  BY <1>1, <1>2, Steps
<1>4. i \in 1 .. 7 /\ seq[i] \in Workers \cup {"historic-data-collector"}
  BY <1>2, <1>3, Zenon
<1>5. i > 3
  <2>1. \A step \in Workers \cup {"historic-data-collector"} :
          step # "health" /\ step # "store" /\ step # "historic data store"
    BY DEF Workers
  <2>2. i # 1 /\ i # 2 /\ i # 3
    BY <1>3, <1>4, <2>1, Zenon
  <2> QED
    BY <1>4, <2>2
<1>6. \A j \in 1 .. 7 : seq[j] \in Inits => j =< 3
  <2>1. \A step \in Inits : /\ step # "app-usage-event-collector"
                            /\ step # "service-usage-event-collector"
                            /\ step # "processor" /\ step # "historic-data-collector"
    BY DEF Inits
  <2>2. \A j \in 1 .. 7 : seq[j] \in Inits => j # 4 /\ j # 5 /\ j # 6 /\ j # 7
    BY <1>3, <2>1, Zenon
  <2> QED
    BY <2>2
<1>7. \A j \in 1 .. 7 : seq[j] \in Inits => j < i
  BY <1>4, <1>5, <1>6
<1> QED
  BY <1>2, <1>3, <1>7, Zenon

LEMMA HistoricLast ==
  ASSUME NEW c \in Commands, NEW i \in 1 .. Len(Startup(c)),
         Startup(c)[i] = "historic-data-collector"
  PROVE  i = 7 /\ Len(Startup(c)) = 7
<1>1. c = "collector"
  <2> SUFFICES ASSUME c # "collector" PROVE FALSE
    OBVIOUS
  <2>1. Startup(c)[i] = c
    BY OneStep, Zenon
  <2> QED
    BY <2>1 DEF Commands
<1>2. PICK seq : seq = Startup(c)
  OBVIOUS
<1>3. /\ Len(seq) = 7 /\ seq[1] = "health" /\ seq[2] = "store"
      /\ seq[3] = "historic data store" /\ seq[4] = "app-usage-event-collector"
      /\ seq[5] = "service-usage-event-collector" /\ seq[6] = "processor"
      /\ seq[7] = "historic-data-collector"
  BY <1>1, <1>2, Steps
<1>4. i \in 1 .. 7 /\ seq[i] = "historic-data-collector"
  BY <1>2, <1>3, Zenon
<1>5. i = 7
  BY <1>3, <1>4, OneToSeven
<1> QED
  BY <1>2, <1>3, <1>5

(* The API server is a part of the command api, and its only one.          *)
LEMMA ApiAlone ==
  ASSUME NEW c \in Commands, NEW i \in 1 .. Len(Startup(c)), Startup(c)[i] = "api"
  PROVE  c = "api" /\ Len(Startup(c)) = 1
<1>1. c # "collector"
  <2> SUFFICES ASSUME c = "collector" PROVE FALSE
    OBVIOUS
  <2>2. PICK seq : seq = Startup(c)
    OBVIOUS
  <2>3. /\ Len(seq) = 7 /\ seq[1] = "health" /\ seq[2] = "store"
        /\ seq[3] = "historic data store" /\ seq[4] = "app-usage-event-collector"
        /\ seq[5] = "service-usage-event-collector" /\ seq[6] = "processor"
        /\ seq[7] = "historic-data-collector"
    BY <2>2, Steps
  <2>4. i \in 1 .. 7 /\ seq[i] = "api"
    BY <2>2, <2>3, Zenon
  <2> QED
    BY <2>3, <2>4, OneToSeven
<1>2. Len(Startup(c)) = 1 /\ Startup(c)[1] = c
  BY <1>1, Steps
<1> QED
  BY <1>2, OneToSeven, Zenon

LEMMA PartsFinite == IsFiniteSet(Parts)
<1>1. IsFiniteSet({}) /\ IsFiniteSet({"health"})
  BY FS_EmptySet, FS_Singleton
<1>2. Parts = {"health", "api", "proxymetrics", "app-usage-event-collector",
                 "service-usage-event-collector", "processor"}
  BY DEF Parts, Servers, Workers
<1>3. IsFiniteSet({"health"} \cup {"api"})
  BY <1>1, FS_AddElement
<1>4. IsFiniteSet({"health", "api"} \cup {"proxymetrics"})
  BY <1>3, FS_AddElement
<1>5. IsFiniteSet({"health", "api", "proxymetrics"} \cup {"app-usage-event-collector"})
  BY <1>4, FS_AddElement
<1>6. IsFiniteSet({"health", "api", "proxymetrics", "app-usage-event-collector"}
                    \cup {"service-usage-event-collector"})
  BY <1>5, FS_AddElement
<1>7. IsFiniteSet({"health", "api", "proxymetrics", "app-usage-event-collector",
                     "service-usage-event-collector"} \cup {"processor"})
  BY <1>6, FS_AddElement
<1> QED
  BY <1>2, <1>7

LEMMA ActiveFinite == IsFiniteSet(Active) /\ Cardinality(Active) \in 0 .. Cardinality(Parts)
<1>1. Active \subseteq Parts
  BY DEF Active
<1> QED
  BY <1>1, PartsFinite, FS_Subset, FS_CardinalityType

------------------------------------------------------------------------------
(* Steps.                                                                  *)

PartStates == {"absent", "started", "waiting", "working", "draining", "done"} \cup Ending

LEMMA Counted ==
  ASSUME NEW p \in Parts
  PROVE  /\ part[p] \notin {"absent", "done"} =>
              Cardinality(Active \ {p}) = Cardinality(Active) - 1
         /\ part[p] \in {"absent", "done"} =>
              Cardinality(Active \cup {p}) = Cardinality(Active) + 1
<1>1. IsFiniteSet(Active) /\ Cardinality(Active) \in Nat
  BY ActiveFinite, FS_CardinalityType
<1>2. p \in Active <=> part[p] \notin {"absent", "done"}
  BY DEF Active
<1> QED
  BY <1>1, <1>2, FS_AddElement, FS_RemoveElement

(* A part that has been started moves on.                                  *)
LEMMA MovePart ==
  ASSUME IInv, Running, NEW p \in Parts, NEW to \in PartStates \ {"absent"},
         part[p] \notin {"absent", "done"}, part' = [part EXCEPT ![p] = to],
         wg' = IF to = "done" THEN wg - 1 ELSE wg,
         UNCHANGED <<process, arrived, requests, cut>>,
         ctx' \in BOOLEAN, ctx' /\ ~signalled => ~db',
         db' = (db /\ to \notin Closed), to \notin Closed => part[p] \notin Closed,
         detached' \in [Detached -> {"absent", "asleep", "working", "returned"}],
         detached'["historic-data-collector"] = detached["historic-data-collector"],
         timedOut \subseteq timedOut', timedOut' \subseteq Servers,
         p \in Servers /\ requests[p] > 0 /\ to \in Ending \cup {"done"} => p \in timedOut'
  PROVE  IInv'
<1>1. TypeOK
  BY DEF IInv
<1>2. /\ part \in [Parts -> PartStates] /\ part' \in [Parts -> PartStates]
      /\ part'[p] = to /\ \A q \in Parts \ {p} : part'[q] = part[q]
  BY <1>1 DEF TypeOK, PartStates
<1>3. UNCHANGED <<command, main, exit, signalled>>
  BY DEF process
<1>4. StartedInv'
  BY <1>2, <1>3 DEF IInv, StartedInv
<1>5. WaitInv'
  <2>1. CASE to = "done"
    <3>1. Active' = Active \ {p}
      BY <1>2, <2>1 DEF Active
    <3> QED
      BY <2>1, <3>1, Counted DEF IInv, WaitInv
  <2>2. CASE to # "done"
    <3>1. Active' = Active
      BY <1>2, <2>2 DEF Active
    <3> QED
      BY <2>2, <3>1 DEF IInv, WaitInv
  <2> QED
    BY <2>1, <2>2
<1>6. HandleInv'
  <2>1. db <=> \A q \in Parts : part[q] \notin Closed
    BY DEF IInv, HandleInv
  <2>2. db' <=> db /\ to \notin Closed
    BY <1>1 DEF TypeOK
  <2>3. (\A q \in Parts : part'[q] \notin Closed)
          <=> (\A q \in Parts : part[q] \notin Closed) /\ to \notin Closed
    BY <1>2
  <2> QED
    BY <2>1, <2>2, <2>3, Zenon DEF HandleInv
<1>7. DrainInv'
  BY <1>2 DEF IInv, DrainInv
<1>8. CleanExit' /\ AcceptedAreAnswered' /\ CountInv'
  BY <1>3 DEF Running, IInv, CleanExit, AcceptedAreAnswered, CountInv
<1>9. TypeOK'
  <2>1. wg' \in 0 .. Cardinality(Parts)
    <3>1. Active' \subseteq Parts /\ IsFiniteSet(Parts)
      BY PartsFinite DEF Active
    <3>2. Cardinality(Active') \in Nat /\ Cardinality(Active') =< Cardinality(Parts)
          /\ Cardinality(Parts) \in Nat
      BY <3>1, FS_Subset, FS_CardinalityType
    <3> QED
      BY <1>5, <3>2 DEF WaitInv
  <2>2. db' \in BOOLEAN
    OBVIOUS
  <2> QED
    BY <1>1, <1>2, <1>3, <2>1, <2>2 DEF TypeOK, PartStates
<1> QED
  BY <1>4, <1>5, <1>6, <1>7, <1>8, <1>9 DEF IInv

LEMMA WorkerSteps ==
  ASSUME IInv, Running, NEW w \in Workers,
         RunWorker(w) \/ Work(w) \/ Worked(w) \/ StopWorker(w)
  PROVE  IInv'
<1>1. TypeOK /\ w \in Parts /\ w \notin Servers
  BY DEF IInv, Parts, Workers, Servers
<1>2. PICK to \in {"waiting", "working", "returned"} :
        part[w] \in {"started", "waiting", "working"} /\ part' = [part EXCEPT ![w] = to]
  BY DEF RunWorker, Work, Worked, StopWorker, Move
<1>3. UNCHANGED <<process, wg, db, ctx, arrived, requests, timedOut, cut>>
  BY DEF RunWorker, Work, Worked, StopWorker, serving
<1>4. /\ detached' \in [Detached -> {"absent", "asleep", "working", "returned"}]
      /\ detached'["historic-data-collector"] = detached["historic-data-collector"]
  BY <1>1 DEF RunWorker, Work, Worked, StopWorker, TypeOK, Detached
<1>5. to \in PartStates \ {"absent"} /\ to # "done" /\ to \notin Closed
  BY <1>2 DEF PartStates, Ending, Closed
<1>6. part[w] \notin {"absent", "done"} /\ part[w] \notin Closed
  BY <1>2 DEF Closed
<1>7. ctx' \in BOOLEAN /\ (ctx' /\ ~signalled => ~db') /\ db \in BOOLEAN
  BY <1>1, <1>3 DEF TypeOK
<1>8. db' = (db /\ to \notin Closed)
  BY <1>3, <1>5, <1>7
<1> QED
  BY <1>1, <1>2, <1>3, <1>4, <1>5, <1>6, <1>7, <1>8, MovePart DEF TypeOK

LEMMA ServerSteps ==
  ASSUME IInv, Running, NEW s \in Servers,
         Listen(s) \/ ListenFails(s) \/ Stopping(s) \/ Drain(s) \/ DrainTimeout(s)
  PROVE  IInv'
<1>1. TypeOK /\ s \in Parts
  BY DEF IInv, Parts
<1>2. PICK to \in {"waiting", "draining", "returned"} :
        /\ part[s] \in {"started", "waiting", "draining"} /\ part' = [part EXCEPT ![s] = to]
        /\ to = "returned" => requests[s] = 0 \/ s \in timedOut'
  BY DEF Listen, ListenFails, Stopping, Drain, Drained, DrainTimeout, Move
<1>3. /\ UNCHANGED <<process, wg, db, ctx, detached, arrived, requests, cut>>
      /\ timedOut' = timedOut \/ timedOut' = timedOut \cup {s}
  BY DEF Listen, ListenFails, Stopping, Drain, DrainTimeout, serving
<1>4. timedOut \subseteq timedOut' /\ timedOut' \subseteq Servers
  BY <1>1, <1>3 DEF TypeOK
<1>5. to \in PartStates \ {"absent"} /\ to # "done" /\ to \notin Closed
  BY <1>2 DEF PartStates, Ending, Closed
<1>6. part[s] \notin {"absent", "done"} /\ part[s] \notin Closed
  BY <1>2 DEF Closed
<1>7. ctx' \in BOOLEAN /\ (ctx' /\ ~signalled => ~db') /\ db \in BOOLEAN
  BY <1>1, <1>3 DEF TypeOK
<1>8. db' = (db /\ to \notin Closed)
  BY <1>3, <1>5, <1>7
<1>9. requests[s] > 0 /\ to \in Ending \cup {"done"} => s \in timedOut'
  <2>1. requests[s] \in Nat
    BY <1>1 DEF TypeOK
  <2> QED
    BY <1>2, <2>1 DEF Ending
<1>10. detached' \in [Detached -> {"absent", "asleep", "working", "returned"}]
  BY <1>1, <1>3 DEF TypeOK
<1> QED
  BY <1>1, <1>2, <1>3, <1>4, <1>5, <1>6, <1>7, <1>8, <1>9, <1>10, MovePart

LEMMA DeferStep ==
  ASSUME IInv, Running, NEW p \in Parts, Defer(p)
  PROVE  IInv'
<1>1. TypeOK
  BY DEF IInv
<1>2. Len(Deferred) = 3 /\ Deferred[1] = "closed" /\ Deferred[2] = "cancelled"
      /\ Deferred[3] = "done" /\ \A i \in 1 .. 3 : i = 1 \/ i = 2 \/ i = 3
  BY DEF Deferred
<1>3. PICK i \in 1 .. Len(Deferred) :
        /\ Move(p, IF i = 1 THEN "returned" ELSE Deferred[i - 1], Deferred[i])
        /\ db' = (db /\ Deferred[i] # "closed")
        /\ Shutdown(Deferred[i])
        /\ wg' = IF Deferred[i] = "done" THEN wg - 1 ELSE wg
        /\ UNCHANGED <<process, detached, serving>>
  BY DEF Defer
<1>4. PICK to : to = Deferred[i]
  OBVIOUS
<1>5. /\ to \in Closed /\ part[p] \in {"returned", "closed", "cancelled"}
      /\ part[p] = "returned" <=> to = "closed"
      /\ part' = [part EXCEPT ![p] = to]
  BY <1>2, <1>3, <1>4 DEF Move, Closed
<1>6. part[p] \notin Closed => to = "closed"
  BY <1>5 DEF Closed
<1>7. to # "closed" => ~db
  BY <1>5, <1>6 DEF IInv, HandleInv
<1>8. ~db' /\ db' = (db /\ to \notin Closed)
  BY <1>1, <1>3, <1>4, <1>5, <1>7 DEF TypeOK
<1>9. ctx' \in BOOLEAN
  BY <1>3 DEF Shutdown
<1>10. to \in PartStates \ {"absent"} /\ part[p] \notin {"absent", "done"}
  BY <1>5 DEF PartStates, Closed, Ending
<1>11. p \in Servers /\ requests[p] > 0 => p \in timedOut
  BY <1>5 DEF IInv, DrainInv, Ending
<1>12. /\ UNCHANGED <<process, detached, arrived, requests, timedOut, cut>>
       /\ wg' = IF to = "done" THEN wg - 1 ELSE wg
  BY <1>3, <1>4 DEF serving
<1>13. detached' \in [Detached -> {"absent", "asleep", "working", "returned"}]
       /\ timedOut' \subseteq Servers
  BY <1>1, <1>12 DEF TypeOK
<1> QED
  BY <1>5, <1>8, <1>9, <1>10, <1>11, <1>12, <1>13, MovePart

(* The step that is next has not been done, and no part has it.            *)
LEMMA NextStep ==
  ASSUME IInv, NEW step, Starting(step)
  PROVE  /\ main \in Nat /\ main + 1 \in 1 .. Len(Startup(command)) /\ command \in Commands
         /\ step = Startup(command)[main + 1]
         /\ \A i \in 1 .. main : Startup(command)[i] # step
         /\ detached["historic-data-collector"] = "absent"
<1>1. /\ command \in Commands /\ main \in 0 .. Len(Startup(command)) /\ main < Len(Startup(command))
      /\ step = Startup(command)[main + 1]
  BY DEF IInv, TypeOK, Starting
<1>2. PICK n \in 1 .. 7 : n = Len(Startup(command))
  BY <1>1, StepsDiffer
<1>3. main \in Nat /\ main < n /\ main + 1 \in 1 .. n
  BY <1>1, <1>2
<1>4. main + 1 \in 1 .. Len(Startup(command))
  BY <1>2, <1>3
<1>5. \A i \in 1 .. main : i \in 1 .. n /\ i # main + 1
  BY <1>3
<1>6. \A i \in 1 .. main : Startup(command)[i] # step
  BY <1>1, <1>2, <1>4, <1>5, StepsDiffer, Zenon
<1>7. main # 7
  BY <1>2, <1>3
<1> QED
  BY <1>1, <1>3, <1>4, <1>6, <1>7 DEF IInv, StartedInv

LEMMA StartStep ==
  ASSUME IInv, Running, NEW p \in Parts, start(p)
  PROVE  IInv'
<1>1. TypeOK /\ StartedInv /\ WaitInv /\ HandleInv /\ DrainInv
  BY DEF IInv
<1>2. /\ main' = main + 1 /\ UNCHANGED <<command, exit, signalled, db, ctx, detached>>
      /\ UNCHANGED <<arrived, requests, timedOut, cut>>
      /\ part' = [part EXCEPT ![p] = "started"] /\ wg' = wg + 1
  BY DEF start, Advance, AddPart, serving
<1>3. /\ main \in Nat /\ main + 1 \in 1 .. Len(Startup(command)) /\ command \in Commands
      /\ p = Startup(command)[main + 1]
      /\ \A i \in 1 .. main : Startup(command)[i] # p
      /\ detached["historic-data-collector"] = "absent"
  BY NextStep DEF start
<1>4. part[p] = "absent"
  BY <1>1, <1>3 DEF StartedInv
<1>5. /\ part \in [Parts -> PartStates] /\ part' \in [Parts -> PartStates]
      /\ part'[p] = "started" /\ \A q \in Parts \ {p} : part'[q] = part[q]
  BY <1>1, <1>2 DEF TypeOK, PartStates
<1>6. StartedInv'
  <2>1. PICK steps : steps = Startup(command)
    OBVIOUS
  <2>2. 1 .. main + 1 = (1 .. main) \cup {main + 1}
    BY <1>3
  <2>3. ASSUME NEW q \in Parts
        PROVE  part'[q] # "absent" <=> \E i \in 1 .. main + 1 : steps[i] = q
    <3>1. part[q] # "absent" <=> \E i \in 1 .. main : steps[i] = q
      BY <1>1, <2>1 DEF StartedInv
    <3>2. steps[main + 1] = p
      BY <1>3, <2>1
    <3> QED
      BY <1>5, <2>2, <3>1, <3>2, Zenon
  <2> QED
    BY <1>2, <1>3, <2>1, <2>3 DEF StartedInv
<1>7. WaitInv'
  <2>1. Active' = Active \cup {p}
    BY <1>5 DEF Active
  <2> QED
    BY <1>1, <1>2, <1>4, <2>1, Counted DEF WaitInv
<1>8. HandleInv'
  <2>1. (\A q \in Parts : part'[q] \notin Closed) <=> (\A q \in Parts : part[q] \notin Closed)
    BY <1>4, <1>5 DEF Closed
  <2> QED
    BY <1>1, <1>2, <2>1, Zenon DEF HandleInv
<1>9. DrainInv'
  BY <1>1, <1>2, <1>4, <1>5 DEF DrainInv, Ending
<1>10. CleanExit' /\ AcceptedAreAnswered' /\ CountInv'
  BY <1>2 DEF Running, IInv, CleanExit, AcceptedAreAnswered, CountInv
<1>11. TypeOK'
  <2>1. wg' \in 0 .. Cardinality(Parts)
    <3>1. Active' \subseteq Parts
      BY DEF Active
    <3>2. Cardinality(Active') \in Nat /\ Cardinality(Active') =< Cardinality(Parts)
          /\ Cardinality(Parts) \in Nat
      BY <3>1, PartsFinite, FS_Subset, FS_CardinalityType
    <3> QED
      BY <1>7, <3>2 DEF WaitInv
  <2>2. main' \in 0 .. Len(Startup(command'))
    <3>1. PICK n \in 1 .. 7 : n = Len(Startup(command))
      BY <1>3, StepsDiffer
    <3>2. main' \in 0 .. n
      BY <1>2, <1>3, <3>1
    <3> QED
      BY <1>2, <3>1, <3>2
  <2> QED
    BY <1>1, <1>2, <1>5, <2>1, <2>2 DEF TypeOK, PartStates
<1> QED
  BY <1>6, <1>7, <1>8, <1>9, <1>10, <1>11 DEF IInv

(* A step of the main goroutine that starts no part.                       *)
LEMMA OtherStep ==
  ASSUME IInv, Running, NEW step, step \notin Parts, Starting(step),
         Advance, UNCHANGED <<parts, serving>>,
         detached' \in [Detached -> {"absent", "asleep", "working", "returned"}],
         \/ detached'["historic-data-collector"] = detached["historic-data-collector"]
         \/ step = "historic-data-collector"
  PROVE  IInv'
<1>1. TypeOK /\ StartedInv
  BY DEF IInv
<1>2. /\ main' = main + 1 /\ UNCHANGED <<command, exit, signalled, part, wg, db, ctx>>
      /\ UNCHANGED <<arrived, requests, timedOut, cut>>
  BY DEF Advance, parts, serving
<1>3. /\ main \in Nat /\ main + 1 \in 1 .. Len(Startup(command)) /\ command \in Commands
      /\ step = Startup(command)[main + 1]
      /\ detached["historic-data-collector"] = "absent"
  BY NextStep
<1>4. PICK n \in 1 .. 7 : n = Len(Startup(command))
  BY <1>3, StepsDiffer
<1>5. StartedInv'
  <2>1. PICK steps : steps = Startup(command)
    OBVIOUS
  <2>2. 1 .. main + 1 = (1 .. main) \cup {main + 1}
    BY <1>3
  <2>3. ASSUME NEW q \in Parts
        PROVE  part[q] # "absent" <=> \E i \in 1 .. main + 1 : steps[i] = q
    <3>1. part[q] # "absent" <=> \E i \in 1 .. main : steps[i] = q
      BY <1>1, <2>1 DEF StartedInv
    <3>2. steps[main + 1] # q
      BY <1>3, <2>1
    <3> QED
      BY <2>2, <3>1, <3>2, Zenon
  <2>4. detached'["historic-data-collector"] # "absent" => main' = 7
    <3>1. step = "historic-data-collector" => main + 1 = 7
      BY <1>3, HistoricLast
    <3> QED
      BY <1>2, <1>3, <3>1
  <2> QED
    BY <1>2, <2>1, <2>3, <2>4 DEF StartedInv
<1>6. WaitInv' /\ HandleInv' /\ DrainInv'
  BY <1>2 DEF IInv, WaitInv, Active, HandleInv, DrainInv
<1>7. CleanExit' /\ AcceptedAreAnswered' /\ CountInv'
  BY <1>2 DEF Running, IInv, CleanExit, AcceptedAreAnswered, CountInv
<1>8. TypeOK'
  <2>1. main' \in 0 .. n
    BY <1>2, <1>3, <1>4
  <2>2. main' \in 0 .. Len(Startup(command'))
    BY <1>2, <1>4, <2>1
  <2> QED
    BY <1>1, <1>2, <2>2 DEF TypeOK
<1> QED
  BY <1>5, <1>6, <1>7, <1>8 DEF IInv

LEMMA AppInitStep ==
  ASSUME IInv, Running, NEW step \in Inits, AppInit(step)
  PROVE  IInv'
<1>1. step \notin Parts /\ Starting(step) /\ Advance /\ UNCHANGED <<parts, detached, serving>>
  BY DEF AppInit, Inits, Parts, Servers, Workers
<1>2. detached' \in [Detached -> {"absent", "asleep", "working", "returned"}]
  BY <1>1 DEF IInv, TypeOK
<1> QED
  BY <1>1, <1>2, OtherStep

LEMMA HistoricStep ==
  ASSUME IInv, Running, StartHistoricDataCollector
  PROVE  IInv'
<1>1. PICK step : step = "historic-data-collector"
  OBVIOUS
<1>2. step \notin Parts /\ Starting(step) /\ Advance /\ UNCHANGED <<parts, serving>>
  BY <1>1 DEF StartHistoricDataCollector, Parts, Servers, Workers
<1>3. detached' \in [Detached -> {"absent", "asleep", "working", "returned"}]
  BY DEF StartHistoricDataCollector, IInv, TypeOK
<1> QED
  BY <1>1, <1>2, <1>3, OtherStep

(* Where the API server runs, nothing else does.                           *)
LEMMA ApiOnly ==
  ASSUME IInv, part["api"] # "absent"
  PROVE  /\ main = Len(Startup(command))
         /\ \A p \in Parts : part[p] # "absent" => p = "api"
<1>1. command \in Commands /\ main \in 0 .. Len(Startup(command)) /\ StartedInv
  BY DEF IInv, TypeOK
<1>2. PICK n \in 1 .. 7 : n = Len(Startup(command))
  BY <1>1, StepsDiffer
<1>3. main \in 0 .. n /\ \A i \in 1 .. main : i \in 1 .. n
  BY <1>1, <1>2
<1>4. PICK i \in 1 .. main : Startup(command)[i] = "api"
  BY <1>1 DEF StartedInv, Parts, Servers
<1>5. command = "api" /\ Len(Startup(command)) = 1
  BY <1>1, <1>2, <1>3, <1>4, ApiAlone
<1>6. n = 1 /\ main = 1
  <2>1. n = 1
    BY <1>2, <1>5, Zenon
  <2> QED
    BY <1>3, <1>4, <2>1
<1>7. Startup(command)[1] = "api"
  BY <1>1, <1>5, Steps
<1>8. ASSUME NEW p \in Parts, part[p] # "absent" PROVE p = "api"
  <2>1. PICK j \in 1 .. main : Startup(command)[j] = p
    BY <1>1, <1>8 DEF StartedInv
  <2>2. j = 1
    BY <1>6, <2>1
  <2> QED
    BY <1>7, <2>1, <2>2
<1> QED
  BY <1>2, <1>6, <1>8

LEMMA NoneActive ==
  ASSUME IInv, wg = 0
  PROVE  \A p \in Parts : part[p] \in {"absent", "done"}
<1>1. Active = {}
  BY ActiveFinite, FS_EmptySet DEF IInv, WaitInv
<1> QED
  BY <1>1 DEF Active

LEMMA ExitStep ==
  ASSUME IInv, Running, NEW code \in {"0", "1", "killed"}, Exit(code), CutRequests,
         UNCHANGED <<parts, detached, arrived, requests, timedOut>>,
         code = "0" => main = Len(Startup(command)) /\ wg = 0,
         code # "killed" /\ requests["api"] > 0 => "api" \in timedOut
  PROVE  IInv'
<1>1. TypeOK /\ StartedInv
  BY DEF IInv
<1>2. /\ UNCHANGED <<command, main, signalled, part, wg, db, ctx>>
      /\ exit' = code /\ cut' = cut \cup {s \in Servers : requests[s] > 0}
  BY DEF Exit, parts, CutRequests
<1>3. TypeOK'
  BY <1>1, <1>2 DEF TypeOK
<1>4. StartedInv' /\ WaitInv' /\ HandleInv' /\ DrainInv' /\ CountInv'
  BY <1>2 DEF IInv, StartedInv, WaitInv, Active, HandleInv, DrainInv, CountInv
<1>5. CleanExit'
  <2> SUFFICES ASSUME code = "0", NEW p \in Parts
               PROVE  part[p] = IF \E i \in 1 .. Len(Startup(command)) : Startup(command)[i] = p
                                THEN "done" ELSE "absent"
    BY <1>2 DEF CleanExit
  <2>1. part[p] \in {"absent", "done"}
    BY NoneActive
  <2>2. part[p] # "absent" <=> \E i \in 1 .. Len(Startup(command)) : Startup(command)[i] = p
    BY <1>1, Zenon DEF StartedInv
  <2> QED
    BY <2>1, <2>2, Zenon
<1>6. AcceptedAreAnswered'
  <2>1. "api" \in cut => "api" \in timedOut
    BY DEF IInv, AcceptedAreAnswered, Running
  <2> QED
    BY <1>2, <2>1 DEF AcceptedAreAnswered
<1> QED
  BY <1>3, <1>4, <1>5, <1>6 DEF IInv

LEMMA EndSteps ==
  ASSUME IInv, Running, StartFails \/ Wait \/ Kill
  PROVE  IInv'
<1>1. "api" \in Servers /\ "api" \in Parts /\ TypeOK
  BY DEF Servers, Parts, IInv
<1>2. requests["api"] > 0 => part["api"] # "absent"
  BY <1>1 DEF IInv, DrainInv
<1>3. CASE StartFails
  <2>1. ~(requests["api"] > 0)
    <3>1. PICK n \in 1 .. 7 : n = Len(Startup(command))
      BY <1>1, StepsDiffer DEF TypeOK
    <3>2. main < n /\ main \in 0 .. n
      BY <1>1, <1>3, <3>1 DEF StartFails, TypeOK
    <3> QED
      BY <1>2, <3>1, <3>2, ApiOnly
  <2> QED
    BY <1>3, <2>1, ExitStep DEF StartFails
<1>4. CASE Wait
  <2>1. requests["api"] > 0 => "api" \in timedOut
    <3>1. part["api"] \in {"absent", "done"}
      BY <1>1, <1>4, NoneActive DEF Wait
    <3> QED
      BY <1>1, <1>2, <3>1 DEF IInv, DrainInv
  <2> QED
    BY <1>4, <2>1, ExitStep DEF Wait
<1>5. CASE Kill
  BY <1>5, ExitStep DEF Kill
<1> QED
  BY <1>3, <1>4, <1>5

LEMMA SignalStep ==
  ASSUME IInv, Running, Signal
  PROVE  IInv'
<1>1. UNCHANGED <<command, main, exit, part, wg, db, detached, arrived, requests, timedOut, cut>>
      /\ signalled' = TRUE /\ ctx' = TRUE
  BY DEF Signal, serving
<1>2. TypeOK'
  BY <1>1 DEF IInv, TypeOK
<1> QED
  BY <1>1, <1>2 DEF IInv, StartedInv, WaitInv, Active, HandleInv, DrainInv, CountInv,
     CleanExit, AcceptedAreAnswered

LEMMA DetachedSteps ==
  ASSUME IInv, Running, StopMetrics \/ \E d \in Detached : Sleep(d) \/ Wake(d)
  PROVE  IInv'
<1>1. TypeOK
  BY DEF IInv
<1>2. UNCHANGED <<command, main, exit, signalled, part, wg, db, ctx, arrived, requests, timedOut, cut>>
  BY DEF StopMetrics, Sleep, Wake, process, parts, serving
<1>3. /\ detached' \in [Detached -> {"absent", "asleep", "working", "returned"}]
      /\ detached["historic-data-collector"] = "absent" =>
           detached'["historic-data-collector"] = "absent"
  BY <1>1 DEF StopMetrics, Sleep, Wake, TypeOK, Detached
<1>4. TypeOK'
  BY <1>1, <1>2, <1>3 DEF TypeOK
<1>5. StartedInv'
  BY <1>2, <1>3 DEF IInv, StartedInv
<1> QED
  BY <1>2, <1>4, <1>5 DEF IInv, WaitInv, Active, HandleInv, DrainInv, CountInv,
     CleanExit, AcceptedAreAnswered

LEMMA ArriveStep ==
  ASSUME RequestsAssumption, IInv, Running, NEW s \in Servers, Arrive(s)
  PROVE  IInv'
<1>1. TypeOK /\ CountInv
  BY DEF IInv
<1>2. /\ UNCHANGED <<command, main, exit, signalled, part, wg, db, ctx, detached, timedOut, cut>>
      /\ part[s] = "waiting" /\ arrived < MaxRequests /\ arrived' = arrived + 1
      /\ requests' = [requests EXCEPT ![s] = @ + 1]
  BY DEF Arrive, process, parts
<1>3. DrainInv'
  BY <1>1, <1>2 DEF IInv, DrainInv, TypeOK, Ending
<1>4. CountInv'
  <2>1. arrived \in Nat /\ \A q \in Servers : requests[q] \in Nat
    BY <1>1 DEF TypeOK, RequestsAssumption
  <2> QED
    BY <1>1, <1>2, <2>1 DEF CountInv, TypeOK
<1>5. TypeOK'
  <2>1. requests[s] \in Nat /\ requests[s] =< arrived /\ arrived \in Nat
    BY <1>1 DEF CountInv, TypeOK, RequestsAssumption
  <2>2. requests[s] + 1 \in 0 .. MaxRequests /\ arrived' \in 0 .. MaxRequests
    BY <1>2, <2>1 DEF RequestsAssumption
  <2> QED
    BY <1>1, <1>2, <2>2 DEF TypeOK
<1> QED
  BY <1>2, <1>3, <1>4, <1>5 DEF IInv, StartedInv, WaitInv, Active, HandleInv, CleanExit,
     AcceptedAreAnswered

(* An API server answers without the handle only when its drain is over.   *)
LEMMA AnswerStep ==
  ASSUME RequestsAssumption, IInv, Running, NEW s \in Servers, Answer(s)
  PROVE  IInv'
<1>1. TypeOK /\ CountInv /\ DrainInv /\ HandleInv
  BY DEF IInv
<1>2. /\ UNCHANGED <<command, main, exit, signalled, part, wg, db, ctx, detached, arrived, timedOut>>
      /\ requests[s] > 0 /\ requests' = [requests EXCEPT ![s] = @ - 1]
      /\ cut' = IF db \/ s = "proxymetrics" THEN cut ELSE cut \cup {s}
  BY DEF Answer, process, parts
<1>3. \A q \in Servers : /\ requests[q] \in 0 .. MaxRequests
                         /\ requests'[q] = IF q = s THEN requests[q] - 1 ELSE requests[q]
  BY <1>1, <1>2 DEF TypeOK
<1>4. DrainInv'
  <2>1. \A q \in Servers : requests'[q] > 0 => requests[q] > 0
    BY <1>3 DEF RequestsAssumption
  <2> QED
    BY <1>1, <1>2, <2>1 DEF DrainInv
<1>5. CountInv'
  BY <1>1, <1>2, <1>3 DEF CountInv, TypeOK, RequestsAssumption
<1>6. TypeOK'
  <2>1. requests[s] - 1 \in 0 .. MaxRequests
    BY <1>2, <1>3 DEF RequestsAssumption
  <2>2. cut' \subseteq Servers
    BY <1>1, <1>2 DEF TypeOK
  <2> QED
    BY <1>1, <1>2, <2>1, <2>2 DEF TypeOK
<1>7. AcceptedAreAnswered'
  <2>1. "api" \in cut => "api" \in timedOut
    BY DEF IInv, AcceptedAreAnswered, Running
  <2>2. ASSUME ~db, s = "api" PROVE "api" \in timedOut
    <3>1. PICK p \in Parts : part[p] \in Closed
      BY <1>1, <2>2 DEF HandleInv
    <3>2. part["api"] # "absent"
      BY <1>1, <1>2, <2>2 DEF DrainInv
    <3>3. p = "api"
      BY <3>1, <3>2, ApiOnly DEF Closed
    <3> QED
      BY <1>1, <1>2, <2>2, <3>1, <3>3 DEF DrainInv, Closed, Ending
  <2> QED
    BY <1>2, <2>1, <2>2 DEF AcceptedAreAnswered
<1> QED
  BY <1>2, <1>4, <1>5, <1>6, <1>7 DEF IInv, StartedInv, WaitInv, Active, HandleInv, CleanExit

------------------------------------------------------------------------------
(* The invariant, and what follows from it.                                *)

LEMMA InitInvariant ==
  ASSUME RequestsAssumption, Init
  PROVE  IInv
<1>1. Active = {}
  BY DEF Init, Active
<1>2. wg = Cardinality(Active)
  BY <1>1, FS_EmptySet DEF Init
<1>3. Cardinality(Parts) \in Nat
  BY PartsFinite, FS_CardinalityType
<1>4. PICK n \in 1 .. 7 : n = Len(Startup(command))
  BY StepsDiffer DEF Init
<1>5. main \in 0 .. Len(Startup(command))
  BY <1>4 DEF Init
<1>6. TypeOK
  <2>1. /\ part \in [Parts -> {"absent", "started", "waiting", "working", "draining", "done"}
                                \cup Ending]
        /\ detached \in [Detached -> {"absent", "asleep", "working", "returned"}]
        /\ exit \in {"no", "0", "1", "killed"}
    BY DEF Init
  <2>2. /\ wg \in 0 .. Cardinality(Parts) /\ arrived \in 0 .. MaxRequests
        /\ requests \in [Servers -> 0 .. MaxRequests]
    BY <1>3 DEF Init, RequestsAssumption
  <2>3. /\ {signalled, db, ctx} \subseteq BOOLEAN
        /\ timedOut \subseteq Servers /\ cut \subseteq Servers
        /\ ctx /\ ~signalled => ~db
    BY DEF Init
  <2> QED
    BY <1>5, <2>1, <2>2, <2>3 DEF Init, TypeOK
<1>7. StartedInv
  <2>1. ~ \E i \in 1 .. main : TRUE
    BY DEF Init
  <2>2. \A p \in Parts : part[p] = "absent"
    BY DEF Init
  <2>3. detached["historic-data-collector"] = "absent"
    BY DEF Init, Detached
  <2> QED
    BY <2>1, <2>2, <2>3, Zenon DEF StartedInv
<1>8. HandleInv /\ DrainInv /\ CountInv
  BY DEF Init, HandleInv, DrainInv, CountInv, Closed
<1> QED
  BY <1>2, <1>6, <1>7, <1>8 DEF Init, IInv, WaitInv, CleanExit, AcceptedAreAnswered

LEMMA NextInvariant ==
  ASSUME RequestsAssumption, IInv, [Next]_vars
  PROVE  IInv'
<1>1. CASE Running /\ Step
  <2>1. CASE MainStep
    BY <1>1, <2>1, StartStep, AppInitStep, HistoricStep, EndSteps DEF MainStep
  <2>2. CASE Signal \/ Kill \/ StopMetrics
    BY <1>1, <2>2, SignalStep, EndSteps, DetachedSteps
  <2>3. ASSUME NEW p \in Parts, PartStep(p) PROVE IInv'
    <3>1. CASE p \in Workers /\ (RunWorker(p) \/ Worked(p))
      BY <1>1, <3>1, WorkerSteps
    <3>2. CASE p \in Servers /\ (Listen(p) \/ Stopping(p) \/ Drain(p) \/ DrainTimeout(p))
      BY <1>1, <3>2, ServerSteps
    <3>3. CASE Defer(p)
      BY <1>1, <3>3, DeferStep
    <3> QED
      BY <2>3, <3>1, <3>2, <3>3 DEF PartStep
  <2>4. ASSUME NEW w \in Workers, Work(w) \/ StopWorker(w) PROVE IInv'
    BY <1>1, <2>4, WorkerSteps
  <2>5. ASSUME NEW s \in Servers, ListenFails(s) \/ Arrive(s) \/ Answer(s) PROVE IInv'
    BY <1>1, <2>5, ServerSteps, ArriveStep, AnswerStep
  <2>6. CASE \E d \in Detached : Sleep(d) \/ Wake(d)
    BY <1>1, <2>6, DetachedSteps
  <2> QED
    BY <1>1, <2>1, <2>2, <2>3, <2>4, <2>5, <2>6 DEF Step
<1>2. CASE UNCHANGED vars
  BY <1>2 DEF vars, process, parts, serving, IInv, TypeOK, StartedInv, WaitInv, Active,
     HandleInv, DrainInv, CountInv, CleanExit, AcceptedAreAnswered
<1> QED
  BY <1>1, <1>2 DEF Next, Ended

LEMMA Invariant == ASSUME RequestsAssumption PROVE Spec => []IInv
<1>1. Init => IInv
  BY InitInvariant
<1>2. IInv /\ [Next]_vars => IInv'
  BY NextInvariant
<1> QED
  BY <1>1, <1>2, PTL DEF Spec

(* What needs both Init steps comes after them among the steps.            *)
LEMMA StartedAfterInit ==
  ASSUME IInv
  PROVE  RunsInitialised
<1>1. command \in Commands /\ main \in 0 .. Len(Startup(command)) /\ StartedInv
  BY DEF IInv, TypeOK
<1>2. PICK n \in 1 .. 7 : n = Len(Startup(command))
  BY <1>1, StepsDiffer
<1>3. main \in 0 .. n
  BY <1>1, <1>2
<1>4. ASSUME NEW w \in Workers, part[w] # "absent" PROVE Initialised
  <2>1. PICK i \in 1 .. main : Startup(command)[i] = w
    BY <1>1, <1>4 DEF StartedInv, Parts
  <2>2. i \in 1 .. n /\ i =< main
    BY <1>3, <2>1
  <2>3. ASSUME NEW j \in 1 .. Len(Startup(command)), Startup(command)[j] \in Inits
        PROVE  j =< main
    <3>1. j < i
      BY <1>1, <1>2, <2>1, <2>2, <2>3, InitsFirst
    <3>2. j \in 1 .. n
      BY <1>2, <2>3
    <3> QED
      BY <1>3, <2>2, <3>1, <3>2
  <2> QED
    BY <2>3 DEF Initialised
<1>5. ASSUME detached["historic-data-collector"] # "absent" PROVE Initialised
  <2>1. main = 7
    BY <1>1, <1>5 DEF StartedInv
  <2>2. \A j \in 1 .. n : j =< main
    BY <2>1
  <2> QED
    BY <1>2, <2>2 DEF Initialised
<1> QED
  BY <1>4, <1>5 DEF RunsInitialised

------------------------------------------------------------------------------
(* Every variable stays in its range; in particular the counter of the     *)
(* wait group never exceeds the parts and never falls below zero, where    *)
(* wg.Done would panic, and a context that no signal has cancelled was     *)
(* cancelled by a part that had closed the handle.                         *)
THEOREM TypeCorrect == ASSUME RequestsAssumption PROVE Spec => []TypeOK
<1>1. IInv => TypeOK
  BY DEF IInv
<1> QED
  BY <1>1, Invariant, PTL

(* A process of any command is in order, whatever parts fail, whenever the *)
(* signal comes and however requests arrive: no collector or processor     *)
(* works on a database that startCollector has not initialised, the wait   *)
(* group lets main return without an error only when every part it counts  *)
(* is done, and the API cuts off no request that its drain could have      *)
(* waited for, unless the process is killed.                               *)
THEOREM LifeInOrder == ASSUME RequestsAssumption PROVE Spec => []InOrder
<1>1. IInv => InOrder
  BY StartedAfterInit DEF InOrder, IInv
<1> QED
  BY <1>1, Invariant, PTL
==============================================================================
