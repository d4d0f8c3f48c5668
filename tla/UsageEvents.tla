----------------------------- MODULE UsageEvents -----------------------------
(***************************************************************************)
(* From raw usage events to spans of use: the statement that builds the    *)
(* events table (eventstore/sql/create_events.sql), as the Refreshes of    *)
(* one or more processes run it again and again while collectors go on     *)
(* storing rows.                                                           *)
(*                                                                         *)
(* A raw row says that a resource changed state; a row of the events table *)
(* says from when to when the resource was in use.  A row's position in    *)
(* the log stands for its guid and its id: IdOrderIsLogOrder of Collector  *)
(* shows that the ids follow the log.  The app and the service log are one *)
(* here, because rows of the two never meet in a window.                   *)
(*                                                                         *)
(* What a span is charged for (plan, nodes, memory, names) is copied from  *)
(* the raw row that starts it, which is the "event" of the span.           *)
(***************************************************************************)
EXTENDS Naturals, Sequences, FiniteSetsExt

CONSTANTS
  Processes,  \* processes that refresh the table
  Resources,  \* apps, tasks and service instances
  States,     \* the states a resource's raw rows may report
  Unmetered,  \* resources in SMOKE-, ACC-, CATS-, PERF- spaces, user-provided
              \* service instances
  MaxRows,    \* bound: length of the log
  MaxTime,    \* bound: last value of the clock
  MaxSkew,    \* how far created_at may lie before the change it reports
  MinAge      \* RecordMinAge: age at which a row is collected

RawState == {"STARTED", "STOPPED", "TASK_STARTED", "TASK_STOPPED",
             "STAGING_STARTED", "STAGING_STOPPED", "BUILDPACK_SET",
             "CREATED", "UPDATED", "DELETED"}

ASSUME ResourceAssumption ==
  /\ Unmetered \subseteq Resources
  /\ States \in [Resources -> SUBSET RawState]

ASSUME BoundsAssumption ==
  /\ MaxRows \in Nat
  /\ MaxTime \in Nat
  /\ MaxSkew \in Nat
  /\ MinAge \in Nat \ {0}

VARIABLES
  now,        \* the clock
  log,        \* what the Cloud Controller recorded, in the order of its ids
  stored,     \* how much of the log is in the raw tables
  startedAt,  \* now() of the transaction in which a process builds the table,
              \* or Idle
  table,      \* the committed events table
  builtAt,    \* now() of the transaction that built it
  counted     \* how many raw rows that transaction saw

vars == <<now, log, stored, startedAt, table, builtAt, counted>>

Idle == MaxTime + 1

Time == 0 .. MaxTime

Row == [resource : Resources, state : RawState, at : Time, made : Time]

TypeOK ==
  /\ now \in Time
  /\ log \in Seq(Row)
  /\ Len(log) =< MaxRows
  /\ stored \in 0 .. Len(log)
  /\ startedAt \in [Processes -> (0 .. now) \cup {Idle}]
  /\ counted \in 0 .. stored
  /\ builtAt \in 0 .. now
  /\ table \subseteq {s \in [event : 1 .. counted, from : Time, to : Time] :
                        s.from < s.to}

Init ==
  /\ now = 0
  /\ log = <<>>
  /\ stored = 0
  /\ startedAt = [p \in Processes |-> Idle]
  /\ table = {}
  /\ builtAt = 0
  /\ counted = 0

------------------------------------------------------------------------------
(* The normalised view of raw rows (raw_events).                           *)

EventType(state) ==
  CASE state \in {"STARTED", "STOPPED"} -> "app"
    [] state \in {"TASK_STARTED", "TASK_STOPPED"} -> "task"
    [] state \in {"STAGING_STARTED", "STAGING_STOPPED"} -> "staging"
    [] state \in {"CREATED", "UPDATED", "DELETED"} -> "service"
    [] state = "BUILDPACK_SET" -> "none"

Started(state) ==
  state \in {"STARTED", "TASK_STARTED", "STAGING_STARTED", "CREATED", "UPDATED"}

EventTypes == {"app", "task", "staging", "service"}

Of(i, r, k) == log[i].resource = r /\ EventType(log[i].state) = k

------------------------------------------------------------------------------
(* The platform (external), the clock and the collectors.                  *)

(* Whether the resource is in use, by the order in which things happened.  *)
InUse(r, k) ==
  \E i \in 1 .. Len(log) : /\ Of(i, r, k)
                           /\ Started(log[i].state)
                           /\ \A j \in i + 1 .. Len(log) : ~Of(j, r, k)

(* An app may be started again to change its size, and staged many times;  *)
(* tasks and service instances start once.  What changes or ends is in use. *)
Possible(r, state) ==
  CASE state \in {"STARTED", "BUILDPACK_SET"} -> TRUE
    [] state \in {"TASK_STARTED", "CREATED"} ->
         \A i \in 1 .. Len(log) : ~Of(i, r, EventType(state))
    [] state = "STAGING_STARTED" -> ~InUse(r, "staging")
    [] OTHER -> InUse(r, EventType(state))

Record(r, state, at) ==
  /\ Len(log) < MaxRows
  /\ Possible(r, state)
  /\ at =< now /\ now =< at + MaxSkew
  /\ log' = Append(log, [resource |-> r, state |-> state, at |-> at, made |-> now])
  /\ UNCHANGED <<now, stored, startedAt, table, builtAt, counted>>

Tick ==
  /\ now < MaxTime
  /\ now' = now + 1
  /\ UNCHANGED <<log, stored, startedAt, table, builtAt, counted>>

(* Collectors add rows in the order of the log once they are old enough    *)
(* (EventFeed, NoEventSkipped of Collector).                               *)
StoreEvents(n) ==
  /\ stored < n
  /\ \A i \in stored + 1 .. n : log[i].at + MinAge =< now
  /\ stored' = n
  /\ UNCHANGED <<now, log, startedAt, table, builtAt, counted>>

------------------------------------------------------------------------------
(* create_events.sql                                                       *)

(* Below, n is the number of raw rows the statement sees and t its now().  *)

raw_events(n) ==
  {i \in 1 .. n : /\ EventType(log[i].state) \in EventTypes
                  /\ log[i].resource \notin Unmetered}

(* Mutant of Partition: staging an app interrupts it.                      *)
PartitionByResource(i, n) ==
  {j \in raw_events(n) : log[j].resource = log[i].resource}

(* partition by resource_guid, event_type                                  *)
Partition(i, n) ==
  {j \in raw_events(n) : Of(j, log[i].resource, EventType(log[i].state))}

(* Mutant of Before: rows of one second have no order.                     *)
BeforeByTime(i, j) == log[i].at < log[j].at

(* order by created_at, event_sequence                                     *)
Before(i, j) ==
  \/ log[i].at < log[j].at
  \/ log[i].at = log[j].at /\ i < j

Following(i, n) == {j \in Partition(i, n) : Before(i, j)}

(* The default of lead(): a staging that has not ended is empty, anything  *)
(* else in use is in use until now().                                      *)
OpenEnd(i, t) ==
  IF EventType(log[i].state) = "staging" THEN log[i].at ELSE t

(* lead(created_at, 1, ...) over resource_states                           *)
End(i, n, t) ==
  IF Following(i, n) = {}
  THEN OpenEnd(i, t)
  ELSE Min({log[j].at : j \in Following(i, n)})

(* A range whose bounds are the wrong way round is an error for the whole  *)
(* statement.  It takes a row newer than the transaction, stored while the *)
(* transaction waited.                                                     *)
RangeError(n, t) == \E i \in raw_events(n) : End(i, n, t) < log[i].at

event_ranges(n, t) ==
  {[event |-> i, from |-> log[i].at, to |-> End(i, n, t)] : i \in raw_events(n)}

(* Mutant of Charged: empty spans are kept.                                *)
ChargedOrEmpty(n, t) == {s \in event_ranges(n, t) : Started(log[s.event].state)}

(* where state = 'STARTED' and not isempty(duration)                       *)
Charged(n, t) ==
  {s \in event_ranges(n, t) : Started(log[s.event].state) /\ s.from < s.to}

(* regenerateEvents begins the transaction, which fixes now(); the rows it *)
(* sees are those committed when the insert runs, after the create table   *)
(* that waits for any other refresh.  So of two that have begun the one    *)
(* with the older now() may be the last to replace the table.              *)
Begin(p) ==
  /\ startedAt[p] = Idle
  /\ startedAt' = [startedAt EXCEPT ![p] = now]
  /\ UNCHANGED <<now, log, stored, table, builtAt, counted>>

(* Mutant of CreateEvents: the statement sees the rows of the moment its   *)
(* transaction began, as at the isolation level REPEATABLE READ.           *)
CreateEventsFromSnapshot(p) ==
  /\ startedAt[p] # Idle
  /\ \E n \in 0 .. stored :
       /\ \A i \in 1 .. n : log[i].at + MinAge =< startedAt[p]
       /\ ~RangeError(n, startedAt[p])
       /\ table' = Charged(n, startedAt[p])
       /\ counted' = n
  /\ builtAt' = startedAt[p]
  /\ startedAt' = [startedAt EXCEPT ![p] = Idle]
  /\ UNCHANGED <<now, log, stored>>

CreateEvents(p) ==
  /\ startedAt[p] # Idle
  /\ ~RangeError(stored, startedAt[p])
  /\ table' = Charged(stored, startedAt[p])
  /\ builtAt' = startedAt[p]
  /\ counted' = stored
  /\ startedAt' = [startedAt EXCEPT ![p] = Idle]
  /\ UNCHANGED <<now, log, stored>>

(* An error of the statement, the timeout of Refresh or a crash: the old   *)
(* table stays.                                                            *)
Fail(p) ==
  /\ startedAt[p] # Idle
  /\ startedAt' = [startedAt EXCEPT ![p] = Idle]
  /\ UNCHANGED <<now, log, stored, table, builtAt, counted>>

Next ==
  \/ \E r \in Resources : \E state \in States[r], at \in Time : Record(r, state, at)
  \/ Tick
  \/ \E n \in 1 .. Len(log) : StoreEvents(n)
  \/ \E p \in Processes : Begin(p) \/ CreateEvents(p) \/ Fail(p)

Spec == Init /\ [][Next]_vars

------------------------------------------------------------------------------
(* Properties                                                              *)

(* The spans of a resource that contain the instants from t to t + 1.      *)
SpansAt(r, k, t) ==
  {s \in table : Of(s.event, r, k) /\ s.from =< t /\ t < s.to}

EventsAt(r, k, t) == {s.event : s \in SpansAt(r, k, t)}

(* What a reader of the rows would say was in use at t: the last row that  *)
(* is not later than t decides, of rows with one time the one with the     *)
(* greatest id.                                                            *)
Deciding(r, k, t) ==
  {i \in 1 .. counted :
     /\ Of(i, r, k)
     /\ log[i].at =< t
     /\ \A j \in 1 .. counted :
          Of(j, r, k) /\ log[j].at =< t /\ j # i =>
            log[j].at < log[i].at \/ (log[j].at = log[i].at /\ j < i)}

(* A staging counts once any row has ended it.                             *)
Over(i, r, k) ==
  \E j \in 1 .. counted :
    Of(j, r, k) /\ (log[i].at < log[j].at \/ (log[i].at = log[j].at /\ i < j))

(* Up to the time of its building the table has, for every instant, exactly *)
(* one span where the rows say that a resource was in use, started by the   *)
(* row that says so, and none where they say it was not or where nothing is *)
(* to be metered: resizing an app, changing a plan, rows of one second and  *)
(* the staging of a running app neither lose time nor charge it twice.      *)
TableAgreesWithRows ==
  \A r \in Resources, k \in EventTypes, t \in Time :
    t < builtAt =>
      EventsAt(r, k, t) =
        {i \in Deciding(r, k, t) : /\ r \notin Unmetered
                                   /\ Started(log[i].state)
                                   /\ k = "staging" => Over(i, r, k)}

(* Whether the resource really was in use when t was over.                 *)
WasInUse(r, k, t) ==
  \E i \in 1 .. Len(log) :
    /\ Of(i, r, k)
    /\ log[i].made =< t
    /\ Started(log[i].state)
    /\ \A j \in i + 1 .. Len(log) : Of(j, r, k) => log[j].made > t

(* Nothing that happened to the resource up to t is missing from the table *)
(* and created_at was right each time.                                     *)
Known(r, k, t) ==
  \A i \in 1 .. Len(log) :
    Of(i, r, k) => /\ log[i].at = log[i].made
                   /\ log[i].made =< t => i =< counted

(* What the platform ran is what the table has: where the rows arrived and *)
(* their times are right, there is one span at t if the resource was in    *)
(* use and none if it was not, whatever is stored or built since.          *)
BilledAsUsed ==
  \A r \in Resources \ Unmetered, k \in EventTypes \ {"staging"}, t \in Time :
    t < builtAt /\ Known(r, k, t) =>
      IF WasInUse(r, k, t)
      THEN \E s \in table : SpansAt(r, k, t) = {s}
      ELSE SpansAt(r, k, t) = {}

(* Between two tables no row of the resource came in for t or before.      *)
OnlyLater(m, n, r, k, t) == \A i \in m + 1 .. n : Of(i, r, k) => t < log[i].at

(* Up to the earlier of the two times they were built at, a new table      *)
(* differs from the old one only because of rows that one had not seen,    *)
(* and only from the time of the first of them on: what a month was billed *)
(* for stays as it was unless rows of that month come late.  Beyond that   *)
(* it may well differ: the later table may be the one built with the older *)
(* now(), and what is in use ends there again.  Staging is the exception   *)
(* the code makes: its end brings its beginning along.                     *)
PastIsStable ==
  [][\A r \in Resources, k \in EventTypes \ {"staging"}, t \in Time :
       t < builtAt /\ t < builtAt' /\ OnlyLater(counted, counted', r, k, t) =>
         EventsAt(r, k, t)' = EventsAt(r, k, t)]_vars
==============================================================================
