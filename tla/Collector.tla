------------------------------ MODULE Collector ------------------------------
(***************************************************************************)
(* The collection of usage events: EventCollector (eventcollector/), the   *)
(* CF fetcher and its API client (eventfetchers/cffetcher/) and the raw    *)
(* event tables of the store (eventstore/store.go, StoreEvents/GetEvents). *)
(*                                                                         *)
(* One kind of event (app or service) is modelled; the two kinds share     *)
(* nothing.  Several collectors may run against the one database, as they  *)
(* do while a new version is being rolled out.  An event is its position   *)
(* in the Cloud Controller's log (external): position order is the order   *)
(* of after_guid paging.                                                   *)
(*                                                                         *)
(* Rows of the table are ordered by a SERIAL id drawn when the row is      *)
(* inserted, not when it is committed.  Only the relative order of ids is  *)
(* ever used, so below[e] is the set of events whose rows have a smaller   *)
(* id than the row of e.                                                   *)
(***************************************************************************)
EXTENDS Naturals, FiniteSets

CONSTANTS
  Collectors,  \* the EventCollector processes sharing the database
  MaxEvents,   \* bound: positions of the CF log that are considered
  MaxTime,     \* bound: last value of the clock
  FetchLimit,  \* results-per-page of one request
  MinAge,      \* RecordMinAge: youngest age at which a record is taken
  MaxTx,       \* longest time a Cloud Controller transaction stays open
  MaxSkew,     \* how far created_at may lie before the drawing of the id
  MaxRequest   \* longest time between the API's query and the age check

ASSUME BoundsAssumption ==
  /\ MaxEvents \in Nat
  /\ MaxTime \in Nat

(* What FetchEvents validates (limit between 1 and 100).                   *)
ASSUME FetchLimitAssumption == FetchLimit \in 1 .. 100

(* The reason for the 5 minute floor of RecordMinAge: it must exceed the   *)
(* longest transaction, the skew of created_at and the request together.   *)
ASSUME AgeAssumption ==
  /\ MinAge \in Nat
  /\ MaxTx \in Nat
  /\ MaxSkew \in Nat
  /\ MaxRequest \in Nat
  /\ MaxTx + MaxSkew + MaxRequest < MinAge

Event == 1 .. MaxEvents
NoEvent == 0      \* no last event: the request carries no after_guid

VARIABLES
  now,        \* the clock
  status,     \* CF log: "none", "open", "committed" or "aborted"
  drawnAt,    \* CF log: when the position (id) was drawn
  createdAt,  \* CF log: metadata.created_at of the record
  stored,     \* committed rows of the raw event table
  below,      \* below[e]: rows with a smaller id than the row of e
  pc,         \* where in Run/collect a collector is
  state,      \* EventCollector.state
  after,      \* lastEvent of the current collect
  events,     \* records of the response, after the age check the batch
  todo,       \* events of the batch the loop of StoreEvents has yet to reach
  askedAt,    \* when the API evaluated the request
  checkedAt,  \* time.Now() of the age check
  inserted    \* rows inserted by the collector's open transaction

cfVars    == <<status, drawnAt, createdAt>>
tableVars == <<stored, below>>
collVars  == <<pc, state, after, events, todo, askedAt, checkedAt, inserted>>
vars      == <<now, cfVars, tableVars, collVars>>

PCs    == {"waiting", "fetch", "request", "store"}
States == {"sync", "waiting", "collecting"}

TypeOK ==
  /\ now \in 0 .. MaxTime
  /\ status \in [Event -> {"none", "open", "committed", "aborted"}]
  /\ drawnAt \in [Event -> 0 .. MaxTime]
  /\ createdAt \in [Event -> 0 .. MaxTime]
  /\ stored \subseteq Event
  /\ below \in [Event -> SUBSET Event]
  /\ pc \in [Collectors -> PCs]
  /\ state \in [Collectors -> States]
  /\ after \in [Collectors -> Event \cup {NoEvent}]
  /\ events \in [Collectors -> SUBSET Event]
  /\ todo \in [Collectors -> SUBSET Event]
  /\ askedAt \in [Collectors -> 0 .. MaxTime]
  /\ checkedAt \in [Collectors -> 0 .. MaxTime]
  /\ inserted \in [Collectors -> SUBSET Event]

Init ==
  /\ now = 0
  /\ status = [e \in Event |-> "none"]
  /\ drawnAt = [e \in Event |-> 0]
  /\ createdAt = [e \in Event |-> 0]
  /\ stored = {}
  /\ below = [e \in Event |-> {}]
  /\ pc = [c \in Collectors |-> "waiting"]
  /\ state = [c \in Collectors |-> "sync"]
  /\ after = [c \in Collectors |-> NoEvent]
  /\ events = [c \in Collectors |-> {}]
  /\ todo = [c \in Collectors |-> {}]
  /\ askedAt = [c \in Collectors |-> 0]
  /\ checkedAt = [c \in Collectors |-> 0]
  /\ inserted = [c \in Collectors |-> {}]

------------------------------------------------------------------------------
(* The Cloud Controller (external) and the passing of time.                *)

Visible == {e \in Event : status[e] = "committed"}

(* A transaction draws the next id; created_at was taken a little earlier, *)
(* on another host.                                                        *)
CCInsert(e, created) ==
  /\ status[e] = "none"
  /\ \A f \in Event : f < e => status[f] # "none"
  /\ created =< now
  /\ now =< created + MaxSkew
  /\ status' = [status EXCEPT ![e] = "open"]
  /\ drawnAt' = [drawnAt EXCEPT ![e] = now]
  /\ createdAt' = [createdAt EXCEPT ![e] = created]
  /\ UNCHANGED <<now, tableVars, collVars>>

CCEnd(e, outcome) ==
  /\ status[e] = "open"
  /\ status' = [status EXCEPT ![e] = outcome]
  /\ UNCHANGED <<now, drawnAt, createdAt, tableVars, collVars>>

Tick ==
  /\ now < MaxTime
  /\ \A e \in Event : status[e] = "open" => now < drawnAt[e] + MaxTx
  /\ now' = now + 1
  /\ UNCHANGED <<cfVars, tableVars, collVars>>

(* The response of /v2/*_usage_events: the first FetchLimit visible        *)
(* records after position g.                                               *)
PageAfter(g) ==
  {e \in Visible : /\ g < e
                   /\ Cardinality({f \in Visible : g < f /\ f =< e})
                        =< FetchLimit}

------------------------------------------------------------------------------
(* One pass of collect.                                                    *)

(* The row with the greatest id among the committed ones, or nil.          *)
IsLastEvent(e) ==
  \/ stored = {} /\ e = NoEvent
  \/ e \in stored /\ \A f \in stored \ {e} : f \in below[e]

(* The timer of Run fires and getLastEvent reads the newest row.           *)
ResumeAfter(c, e) ==
  /\ pc[c] = "waiting"
  /\ after' = [after EXCEPT ![c] = e]
  /\ pc' = [pc EXCEPT ![c] = "fetch"]
  /\ UNCHANGED <<now, cfVars, tableVars, state, events, todo, askedAt,
                 checkedAt, inserted>>

GetLastEvent(c) ==
  \E e \in Event \cup {NoEvent} : IsLastEvent(e) /\ ResumeAfter(c, e)

(* The connection breaks before the row is read: getUsageEvents does not   *)
(* ask rows.Err and returns no event, and collection begins anew.          *)
GetNoEvent(c) == ResumeAfter(c, NoEvent)

(* Mutant of Request: the url is built without after_guid.                 *)
RequestFromStart(c) ==
  /\ pc[c] = "fetch"
  /\ events' = [events EXCEPT ![c] = PageAfter(NoEvent)]
  /\ askedAt' = [askedAt EXCEPT ![c] = now]
  /\ pc' = [pc EXCEPT ![c] = "request"]
  /\ UNCHANGED <<now, cfVars, tableVars, state, after, todo, checkedAt,
                 inserted>>

(* FetchEvents sends the request and the API evaluates it.                 *)
Request(c) ==
  /\ pc[c] = "fetch"
  /\ events' = [events EXCEPT ![c] = PageAfter(after[c])]
  /\ askedAt' = [askedAt EXCEPT ![c] = now]
  /\ pc' = [pc EXCEPT ![c] = "request"]
  /\ UNCHANGED <<now, cfVars, tableVars, state, after, todo, checkedAt,
                 inserted>>

(* Mutant of OldEnough: the age is a unit too low.                         *)
AlmostOldEnough(records) ==
  {e \in records : \A f \in records : f =< e => createdAt[f] + MinAge =< now + 1}

(* The records before the first one that is younger than MinAge.           *)
OldEnough(records) ==
  {e \in records : \A f \in records : f =< e => createdAt[f] + MinAge =< now}

(* The response arrives before the HTTP client gives up; only now is the   *)
(* clock read and the page cut.                                            *)
Receive(c) ==
  /\ pc[c] = "request"
  /\ now =< askedAt[c] + MaxRequest
  /\ events' = [events EXCEPT ![c] = OldEnough(events[c])]
  /\ todo' = [todo EXCEPT ![c] = OldEnough(events[c])]
  /\ checkedAt' = [checkedAt EXCEPT ![c] = now]
  /\ pc' = [pc EXCEPT ![c] = "store"]
  /\ UNCHANGED <<now, cfVars, tableVars, state, after, askedAt, inserted>>

(* Mutants of IsNextRow: the loop ranges over a map, or newest first.      *)
InAnyOrder(c, e) == e \in todo[c]
NewestFirst(c, e) == e \in todo[c] /\ \A f \in todo[c] : f =< e

(* e is the next event of the batch in the loop of StoreEvents.            *)
IsNextRow(c, e) == e \in todo[c] /\ \A f \in todo[c] : e =< f

(* The unique index makes an insert wait for a transaction that inserted   *)
(* the same guid and has not ended.                                        *)
Held(c, e) == \E d \in Collectors \ {c} : e \in inserted[d]

Present == stored \cup UNION {inserted[c] : c \in Collectors}

(* One iteration of the loop of StoreEvents: on conflict do nothing.       *)
StoreUsageEvent(c, e) ==
  /\ pc[c] = "store"
  /\ IsNextRow(c, e)
  /\ ~Held(c, e)
  /\ todo' = [todo EXCEPT ![c] = @ \ {e}]
  /\ IF e \in stored
       THEN UNCHANGED <<inserted, below>>
       ELSE /\ inserted' = [inserted EXCEPT ![c] = @ \cup {e}]
            /\ below' = [below EXCEPT ![e] = Present]
  /\ UNCHANGED <<now, cfVars, stored, pc, state, after, events, askedAt,
                 checkedAt>>

(* Mutant of NextState: any successful collect goes back to the schedule.  *)
AlwaysScheduled(last, batch) == "waiting"

(* EventCollector.state after a collect that returned no error.            *)
NextState(last, batch) ==
  IF \/ batch = {}
     \/ last \in batch /\ \A e \in batch : e =< last
    THEN "waiting"
    ELSE "collecting"

(* collect returns to the loop of Run; its local variables are gone.       *)
Return(c, st) ==
  /\ pc' = [pc EXCEPT ![c] = "waiting"]
  /\ state' = [state EXCEPT ![c] = st]
  /\ after' = [after EXCEPT ![c] = NoEvent]
  /\ events' = [events EXCEPT ![c] = {}]
  /\ todo' = [todo EXCEPT ![c] = {}]
  /\ askedAt' = [askedAt EXCEPT ![c] = 0]
  /\ checkedAt' = [checkedAt EXCEPT ![c] = 0]
  /\ inserted' = [inserted EXCEPT ![c] = {}]
  /\ UNCHANGED <<now, cfVars>>

CommitRows(c) ==
  /\ pc[c] = "store"
  /\ todo[c] = {}
  /\ stored' = stored \cup inserted[c]
  /\ UNCHANGED below

Commit(c) ==
  /\ CommitRows(c)
  /\ Return(c, NextState(after[c], events[c]))

(* The database commits but tx.Commit reports an error.                    *)
CommitReplyLost(c) ==
  /\ CommitRows(c)
  /\ Return(c, "waiting")

(* The database rolls the open transaction back.                           *)
Rollback(c) ==
  /\ below' = [e \in Event |-> IF e \in inserted[c]
                                 THEN {}
                                 ELSE below[e] \ inserted[c]]
  /\ UNCHANGED stored

(* The HTTP client gives up on the request.                                *)
Timeout(c) ==
  /\ pc[c] = "request"
  /\ now > askedAt[c] + MaxRequest
  /\ Rollback(c)
  /\ Return(c, "waiting")

(* Any call of collect fails: getLastEvent, FetchEvents or StoreEvents.    *)
CollectError(c) ==
  /\ Rollback(c)
  /\ Return(c, "waiting")

(* Mutant of Restart: New does not set the state of the collector.         *)
RestartWithoutState(c) ==
  /\ Rollback(c)
  /\ Return(c, "")

(* The process dies or is stopped, and is started again.                   *)
Restart(c) ==
  /\ Rollback(c)
  /\ Return(c, "sync")

Step(c) ==
  \/ GetLastEvent(c)
  \/ GetNoEvent(c)
  \/ Request(c)
  \/ Receive(c)
  \/ \E e \in Event : StoreUsageEvent(c, e)
  \/ Commit(c)
  \/ CommitReplyLost(c)
  \/ Timeout(c)
  \/ CollectError(c)
  \/ Restart(c)

Environment ==
  \/ \E e \in Event, created \in 0 .. MaxTime : CCInsert(e, created)
  \/ \E e \in Event, outcome \in {"committed", "aborted"} : CCEnd(e, outcome)
  \/ Tick

Next == Environment \/ \E c \in Collectors : Step(c)

Spec == Init /\ [][Next]_vars

------------------------------------------------------------------------------
(* Properties.                                                             *)

(* No event is missed (cf_client.go: records younger than minAge are not   *)
(* taken, "to reduce the risk of late arriving events being skipped").     *)
(* Collection resumes after the newest row and never looks back, so an     *)
(* event before a stored one must be stored too, unless its transaction    *)
(* was rolled back.  Transactions that commit late, responses that arrive  *)
(* late and overlapping collectors must not break it.                      *)
NoEventSkipped ==
  \A f \in stored, e \in Event :
    e < f => e \in stored \/ status[e] = "aborted"

(* Ids are drawn at insertion and rows appear at commit, yet the id order  *)
(* of the rows is the order of the log, so that "order by id desc limit 1" *)
(* of getUsageEvents is where collection has to resume, however the        *)
(* transactions of two collectors interleave and fail.                     *)
IdOrderIsLogOrder ==
  \A e, f \in stored : e < f => e \in below[f] /\ f \notin below[e]

(* Transactions of StoreEvents wait for each other on the unique index,    *)
(* but never in a circle: if any collector is storing, one of them can go  *)
(* on.                                                                     *)
Blocked(c) == pc[c] = "store" /\ \E e \in todo[c] : IsNextRow(c, e) /\ Held(c, e)
NoCircularWait ==
  (\E c \in Collectors : pc[c] = "store")
     => \E c \in Collectors : pc[c] = "store" /\ ~Blocked(c)

(* A collector that goes back to its long schedule without an error        *)
(* ("Scheduled means that we have caught up with latest events") leaves    *)
(* nothing behind: every event that had been decided when the API was      *)
(* asked and was old enough at the age check is stored.                    *)
CaughtUp(c) ==
  \A e \in Visible :
    /\ drawnAt[e] + MaxTx < askedAt[c]
    /\ createdAt[e] + MinAge + MaxSkew =< checkedAt[c]
    => e \in stored'
ScheduledMeansCaughtUp ==
  [][\A c \in Collectors : Commit(c) /\ state'[c] = "waiting" => CaughtUp(c)]_vars

(* The collectors, the API and the table together are a gap-free copy of   *)
(* the beginning of the log.                                               *)
Feed == INSTANCE EventFeed
ImplementsEventFeed == Feed!Spec

------------------------------------------------------------------------------
(* Liveness.  No call fails for ever: a step that is attempted again and   *)
(* again, in passes that were told the last event, succeeds in the end.    *)
(* Transactions end and time passes.                                       *)
Resumed(c) == after[c] # NoEvent \/ stored = {}

GoesOn(c) ==
  Request(c) \/ Receive(c) \/ (\E e \in Event : StoreUsageEvent(c, e)) \/ Commit(c)

Fairness ==
  /\ WF_vars(Tick)
  /\ \A e \in Event : WF_vars(\E o \in {"committed", "aborted"} : CCEnd(e, o))
  /\ \A c \in Collectors :
       /\ WF_vars(GoesOn(c))
       /\ SF_vars(GetLastEvent(c))
       /\ SF_vars(Resumed(c) /\ Request(c))
       /\ SF_vars(Resumed(c) /\ Receive(c))
       /\ WF_vars(Timeout(c))
       /\ \A e \in Event : SF_vars(Resumed(c) /\ StoreUsageEvent(c, e))
       /\ SF_vars(Resumed(c) /\ Commit(c))

FairSpec == Spec /\ Fairness

(* Every event that becomes visible, and with those before it old enough   *)
(* while the clock runs, is stored, whatever collections fail on the way.  *)
EventuallyStored ==
  \A e \in Event :
    (/\ status[e] = "committed"
     /\ \A f \in 1 .. e : status[f] = "aborted" \/ createdAt[f] + MinAge =< MaxTime)
       ~> e \in stored
=============================================================================
