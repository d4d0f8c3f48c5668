# A verification project for paas-billing

TLA+ modules of the billing pipeline of paas-billing, TLC runs over small
instances, and TLAPS proofs for all values of the constants. Source paths are
relative to the repository.

- [The system](#the-system)
- [Modules](#modules)
- [Runs](#runs)
- [Proofs](#proofs)
- [Where the code and its words differ](#where-the-code-and-its-words-differ)
- [Not modelled, and the plan](#not-modelled-and-the-plan)

## The system

paas-billing bills the use of Cloud Foundry. A *collector* process copies usage
events from the Cloud Controller into Postgres, and turns them every 15 minutes
into priced components; months that are over are *consolidated*, written once
and never computed again. An *API* process answers queries from both. The
processes talk to each other only through the database, and nothing stops two
collector processes from running at once, as they do while a version is being
replaced.

| part | state | operations | hard about it |
|---|---|---|---|
| event collector, `eventcollector/` | its state (sync, waiting, collecting); the newest stored event is read from the database every time | the loop of `Run`, `collect` | three calls, any of which fails; overlap with another collector |
| CF fetcher and client, `eventfetchers/cffetcher/` | none | one page after the last guid, cut at the first young record | events become visible out of order; the clock is read after the response |
| raw event store, `eventstore/store.go` | `app_usage_events`, `service_usage_events` with SERIAL ids | `StoreEvents`, `GetEvents` | ids are drawn at insertion, rows appear at commit; waits on the unique index; lost commit replies |
| pricing configuration, `eventstore/store.go` | `vat_rates`, `currency_rates`, `pricing_plans`, `pricing_plan_components` | `Init` replaces them from the file; `generateMissingPlans` adds to them | DELETE and INSERT of several processes under READ COMMITTED; checks in one transaction, use in another |
| refresh, `eventstore/store.go`, `eventstore/sql/` | `events`, `billable_event_components`, `billable_event_components_by_day`, each dropped and rebuilt | `Refresh`: four transactions under one timeout | failure between the transactions; another process swaps the tables meanwhile, in either order of their `now()`; locks on tables and a view, some of them raised; ranges of time cut against each other |
| consolidation, `eventstore/store_consolidated_billable_events.go` | `consolidation_history`, `consolidated_billable_events` | `ConsolidateAll` | bills are final, so they must not be computed too early or from old tables; two processes race for a month |
| processor loop, `main_app.go` | none | `Refresh`, then `ConsolidateAll` only if it succeeded | everything is retried for ever |
| historic data store, `cfstore/` | validity histories of services, plans, orgs and spaces | `Init` and four collections for ever: list, count the rows of the entity, insert on conflict do nothing | changes and removals between the pages; the first version is back-dated; two processes; plans whose service is not known yet |
| API, `apiserver/`, `eventio/event_filter.go`, `eventstore/store_*_events.go` | none but the open transactions of a request | billable, usage and forecast events, month by month, as a stream | which table a month is read from; locks kept between months; errors after the header; a forecast that writes to the live tables |
| pricing configuration API, `eventstore/store_{vat,currency}_rates.go`, `store_config.go` | none | rates and plans in force in a range | ranges are computed by windows over the rows |
| authorization, `apiserver/auth/` | claims and organisations of one request | `Admin`, `HasBillingAccess` | roles are listed in two calls; claims are kept before their time is looked at |
| lifecycle, `main.go`, `main_app.go`, `apiserver/server.go` | a wait group, a context, the database handle | start, serve, drain, stop | one part's end closes the handle and the context of the others |
| metrics proxy, instance discoverer, `metricsproxy/`, `instancediscoverer/` | none | listing of instances, forwarding of a scrape | an application is looked up twice, its instances are counted in two places |
| periodic metrics, status and totals, configuration and logging | gauges | | |
| test environment, reconciliation script | | | |

What makes them correct: the raw tables are a gap-free copy of the Cloud
Controller's log; every event is priced for the whole of its time, once, by one
configuration; each month's bill is computed once, from all of its usage; and
all of it goes on in spite of failures.
Around that core: histories know every entity from its creation and never rewrite
the past; a reply of the API is whole, answers each day of its range once and
repeats the bills that were written; nobody is answered who is not entitled; a
process starts, serves and ends as one.

## Modules

| module | models | extends or instantiates |
|---|---|---|
| `EventFeed` | what collection promises: a gap-free copy of the log | |
| `Collector` | event collector, fetcher, raw event store | `EventFeed` as `Feed` |
| `CollectorProofs` | theorems about `Collector` | `Collector`, TLAPS |
| `Ledger` | what consolidation promises: complete bills, written once, in order | |
| `Processor` | processor loop, refresh as transactions, consolidation | `Ledger` as `Book` |
| `TableLocks` | the locks of Refresh and consolidation, statement by statement | |
| `Loop` | both, with variables of their own | `Processor`; `TableLocks` as `Locks` |
| `ProcessorProofs` | theorems about `Processor` and `TableLocks` | `Loop`, TLAPS |
| `Pricing` | `Init`, plan checks, dummy plans, pricing of events | |
| `Deployment` | `Pricing` with one process at a time, or two while a version is replaced | `Pricing` |
| `PricingProofs` | theorems about `Pricing` and `Deployment` | `Deployment`, TLAPS |
| `UsageEvents` | `create_events.sql`: from raw rows to spans of use, rebuilt by every refresh of one or more processes | |
| `UsageEventsProofs` | theorems about `UsageEvents` | `UsageEvents`, TLAPS |
| `HistoricData` | the collections of `cfstore` and what `create_events.sql` reads from them | |
| `HistoricDataProofs` | theorems about `HistoricData` | `HistoricData`, TLAPS |
| `EventsAPI` | billable, usage and forecast handlers beside Refresh and consolidation | |
| `EventsAPIProofs` | theorems about `EventsAPI` | `EventsAPI`, TLAPS |
| `Authorization` | `authorize`: one request beside UAA and the Cloud Controller | |
| `Lifecycle` | a process: start-up, parts, signals, drain, end | |
| `LifecycleProofs` | theorems about `Lifecycle` | `Lifecycle`, TLAPS |
| `Discovery` | the handlers of the metrics proxy beside a platform that changes | |
| `PricingReads` | the readers of rates and plans | |
| `Parts` | the components that share no state, side by side, and their properties | `Authorization`, `Lifecycle`, `Discovery`, `PricingReads`, with INSTANCE |
| `PartsProofs` | theorems about `Parts` | `Parts`, TLAPS; `LifecycleProofs`, with INSTANCE |
| `MCCollector`, `MCProcessor`, `MCPricing`, `MCUsageEvents`, `MCEventsAPI` | instances for TLC | the module each is named after (`MCPricing`: `Deployment`, `MCProcessor`: `Loop`) |
| `MCParts` | instances for TLC of `Parts` and of `HistoricData` | `Parts`, `HistoricData` |

An operator whose comment begins with "Mutant of" is not part of a
specification: it is a bug that could plausibly be made at that place, kept to
show that the properties notice it (`PROJECT.json`, "mutants").

### Collector

An event is its position in the Cloud Controller's log. The Cloud Controller
(external) draws positions in order but its transactions commit out of order,
or not at all; a transaction stays open for at most `MaxTx`, and `created_at`
lies at most `MaxSkew` before the position is drawn. `Request` is the evaluation
of the query by the API, `Receive` the arrival of the response and the age check
of `usageEventsAPI.Get`, with the clock read there and not before; the HTTP
client allows `MaxRequest` between the two. `StoreUsageEvent` is one iteration
of the loop in `StoreEvents`: a conflicting insert waits for the transaction
that holds the guid. Only the relative order of SERIAL ids is ever used (`order
by id desc limit 1`), so `below[e]` holds the rows with a smaller id than `e`'s.
An id drawn before a wait could be smaller than that of a row inserted during
the wait; while a transaction waits here, the holder is the only transaction
with rows, and a row whose insert waited in vain is dropped by the conflict.

`GetNoEvent` is what the code makes of an error while the newest row is read:
`getUsageEvents` does not ask for the error of the rows, takes the table for
empty, and the collection fetches the log from its beginning. The inserts then
conflict with what is stored, and nothing is lost; but such a pass brings nothing
new, so the fairness of a collector is about the passes that resumed (`Resumed`).

Errors: `CollectError` ends a collect at any point with a rollback,
`CommitReplyLost` commits and then reports an error, `Timeout` is the HTTP
client's, `Restart` the death of the process. The wait durations of the loop are
abstracted: a timer may fire at any time. The second condition of
`NextState` (the newest event is the last one known) is kept although the API
never returns the event it is asked to start after.

The age floor of `FetchEvents` ("at least 5m to reduce the risk of late arriving
events being skipped") becomes the assumption `AgeAssumption`:
`MaxTx + MaxSkew + MaxRequest < MinAge`. The properties need all of it: TLC
refutes `NoEventSkipped` when the sum equals `MinAge`. Nothing in the code
measures the three quantities; that they stay below 5 minutes is a fact about
the Cloud Controller and the HTTP client.

### Processor

A generated table is represented by the usage it was computed from: `[upTo,
rows]`, where `upTo` is the `now()` at which open ranges were cut. Transactions
of `Refresh` that build a table exclude each other, since both create a table of
the same name (`events_temp`, `billable_event_components_temp`); dropping the old
table waits for an open transaction that has read it (`ACCESS EXCLUSIVE`): a
builder of components has read the events, a consolidation the components. A
step is as much of a transaction as another can see, so locks that are taken and
released within one step, and circles of waits, are not seen here but in
`TableLocks`.
`now()` is fixed when the transaction begins, and a row younger than that makes a
range with its bounds exchanged, an error (`BuildEvents` is then not enabled,
only `Fail` is). `BeginConsolidation` selects the months; `NeedMonth` is the look
into the history and `InsertMonth` the insertion, which waits on the primary key
and fails if the month was committed meanwhile. `Fail` ends anything with a
rollback of the open transaction only.

`GraceAssumption` is why 5 days are enough: `MaxLag + RefreshTimeout =< Grace`
and `2 * RefreshTimeout =< Grace`. With the 700 minute timeout the second has
ample room; the first says that collection never stands still for longer than
about four and a half days. The code does not check it, and usage that arrives
later is lost to the bill. Both bounds are sharp: TLC refutes `BillsAreComplete`
when either is exceeded by one.

### TableLocks

The transactions of `Refresh` and `ConsolidateAll` statement by statement, for what
they lock: `Shares` and `Owns` say which table each statement reads or indexes, and
which it creates, drops or rebuilds; a lock is kept until the transaction ends, and
the insertion of a month waits for another transaction that has inserted it. The
names of the program counter are those of the statements: `createEvents` and
`dropEvents` of `create_events.sql`; `check`; `createComponents`, `readEvents`,
`dropComponents` and `dropView` (the `CASCADE`) of
`create_billable_event_components.sql`; `byDay`, `index`, `refreshView`, `refill` of
`create_view_billable_event_components_by_day.sql`; `insert` and `bill` of
`consolidate`. Locks of one table are served in turn, so a transaction also waits
for one that is before it in the queue (`Ahead`).

Refreshes *can* wait for each other in a circle. Two of them that find the by-day
view both share it for `CREATE INDEX IF NOT EXISTS` and both want it alone for
`REFRESH MATERIALIZED VIEW`; or one has rebuilt the view and refills it from the
components, which another has dropped, and that one waits to drop the view as well.
The database breaks such a circle with an error, the timeout of Refresh ends it
at the latest, and the loop begins again: `Fail`. What must not happen is that a
consolidation, which has no timeout and would lose all its months, is part of one:
`ConsolidationInNoCircle`, and `ConsolidationEnds`. It is not, because it
owns no table, shares only the components, and inserts the months in order (the
mutant in any order makes a circle of two consolidations).

Whether `CREATE MATERIALIZED VIEW IF NOT EXISTS` keeps the table of its query locked
when the view exists is left open: both are possible (`FindView`). The key locks of
dummy plans are in `Pricing`, those of the API's requests in `EventsAPI`.

`Loop` puts `Processor` and `TableLocks` side by side, with variables and numbers of
processors and months of their own; `MCProcessor` lets one of the two go its way in
a behaviour (`shown`) while the other rests, as they share no state.

### Pricing

The line of time is finite: instant 0 is `'epoch'`, its end `'infinity'`, and a
`tstzrange` is the set of its instants, so that `*` is intersection and `&&` a
non-empty one. Figures (rates, formulas) are represented by the configuration
file a row comes from. `Init` is split where another process can get in:
`StartInit` takes the snapshot of `DELETE FROM vat_rates`, `ReplaceRates` is the
end of its wait (a second Init finds the rows gone but does not see the new
ones, and a rate with the same key is then a duplicate), `BeginDeletePlans` and
`DeletePlans` do the same for the plans, whose deletion waits for the key locks
of a `generateMissingPlans`; `CommitInit` makes the checks and commits. The two
statements of `generateMissingPlans`, the check and the building of the
components are actions of their own. A left join that finds no partner puts a
null into a `NOT NULL` column: `JoinsComplete` is the guard of `BuildComponents`.
A statement that would raise an error is not enabled, and `Stop` or `FailRefresh`
ends the transaction.

`Deployment` adds whether deployments overlap (`DeploySpec`): if they do not, one
process runs at a time, with one file or another, and then dummy plans fill all
gaps (`DummiesFillTheGaps`). With two at a time an Init may delete the dummies
between their generation and their use; they are free of charge, so amounts are
right even then.

`VatAssumption` says that any two files have a VAT rate in common. It is what
makes concurrent Inits exclusive: without it, two of them can leave the rates of
both behind. VAT rates are only ever added to the file, so it holds in practice.

### UsageEvents

A raw row is a record of its resource, its state, its `created_at` (`at`) and the
time of the change it reports (`made`); its position in the log is its guid and
its id, which `IdOrderIsLogOrder` of `Collector` justifies. `raw_events`,
`Partition`, `Before`, `Following`, `End` and `event_ranges` are the common table
expressions and windows of the statement, `Charged` its final `where`. The
operators take the number of rows the statement sees and its `now()`, because
the two are fixed at different moments: `Begin` starts the transaction,
`CreateEvents` evaluates the statement, after the `CREATE TABLE` has waited for
any other refresh. With more than one of `Processes` both may have begun, and the
one with the older `now()` may be the last to build the table. A row stored in between may be later than `now()`, which makes
a range with its bounds exchanged and fails the statement (`RangeError`). What a
span is charged for is copied from the row that starts it, so a span names that
row only. The raw states are those of the Cloud Controller; `Unmetered` holds
the resources whose rows the `where` clauses drop.

Left out: compose scaling events, which nothing fetches any more, and with them
the injected sizes; the names and plan ids looked up in the validity histories,
whose joins have at most one partner and neither add nor drop a span.

The platform never stops what is not in use; its clocks may lag by `MaxSkew`, and
`TableAgreesWithRows` does not mind. `BilledAsUsed` says what the rows cannot: it
compares the table with what really ran, and needs the times of the resource's
rows to be right. With clocks that differ, a stop can sort before its start, and
the resource is charged until someone starts and stops it again. `PastIsStable`
compares two successive tables up to the earlier of their `now()`: when the older
`now()` comes last, open spans are cut earlier than they were, and only later
Refreshes restore them. It excepts staging: the code charges it only when its end has been seen, so that end
brings its whole span along.

### HistoricData

Time is in whole seconds, as `updated_at` is. An entity has one value, standing
for the columns `create_events.sql` compares; entities are numbered in the order
the API lists them, and are created, changed and removed between any two
requests. A process is a transaction (`txn`) with the kinds it has still to
collect, the page it reads next, what it has listed and the row it inserts next:
the query that counts an entity's rows and the insert are two steps
(`collectServices`, `Insert`), since another process may commit in between; an
insert waits for an open transaction with the same key. `Initialise` collects all
four kinds in one transaction, after that each kind has its own, in turn. `Fail`
is an error of the API or the database, `Crash` the end of the process.
`Versions`, `not_redundant`, `Valid` and `ValueAt` are the `valid_*` expressions
of `create_events.sql`, which read the history.

`KnownFromCreation` and `PlansHaveServices` are checked with one and with two
processes; `PastIsSettled` is for one (in the pair nothing changes its value),
because of two processes the one with the older listing may commit last. `NewestIsCurrent` assumes that an entity does not
change twice within a second (`SameSecond`).

### EventsAPI

An event is used on a range of days, a table is the set of events it was computed
from, and a reply is a sequence of tokens, so that separators, header and error
can be told apart. Each client asks for one thing again and again. The handler of
bills goes month by month: `IsRangeConsolidated` asks in a transaction of its own
whether the month is billed, then `GetConsolidatedBillableEventRows` or
`GetBillableEventRows` reads it, and `SendBillableEvent`, `SendTaskTotals` write
it. `recursiveSplitByMonth` is the function of that name, with the overflow of
`AddDate` on a day the next month does not have. `Fetch` is `Next()`: the end of
the rows and an error look alike, and only usage and forecasts ask which it was
(`RowsErr`). `Fail` is an error at any other point, including the panic that the
error path of `store_billable_events.go:51` runs into (it formats a nil error;
the framework recovers it). `RepliesAreWhole` therefore counts the rows of usage and
forecasts only, and asks nothing of replies with totals of tasks, whose first comma
may come before any row. A transaction begun for billable rows is ended by
nothing but the end of the request, so `open` keeps the tables of earlier months
locked; Refresh (`SwapEvents`, `SwapComponents`) waits for readers, readers wait
behind Refresh, and its timeout ends the circle. `ForecastInsert` writes the
client's events into `events` inside a transaction that is rolled back.

The processor is reduced to what a reader can notice of it: tables replaced one
after the other, and months consolidated in order, so that `bill` is a sequence
with one bill per month. `Processor` has the rest.

### Authorization

One request, from its header to the decision. The claims are kept as soon as the
signature is verified (`composeClaims`) and their time is only looked at then;
`Admin` ends the request with an error, so no later call uses expired claims. The
user's organisations come from two calls (`ListUserBillingManagedOrgs`,
`ListUserManagedOrgs`), between which keys, roles and the time change.
`GrantedToEntitled` is therefore about every role the user had since the request
came: there need be no instant at which all were held.

### Lifecycle

The three commands, with the steps of their start-up in order, a wait group, a
context and one handle. A part goes through `fn` and the deferred calls of
`start`, last to first: close the handle, cancel the context, `wg.Done`. Workers
choose between a timer and the context; servers drain for ten seconds
(`DrainTimeout`). The goroutines nobody waits for are `Detached`. `Signal` is the
first SIGINT or SIGTERM, `Kill` a second one or SIGKILL.

`InOrder` says no more than the code does. `CleanExit`: at exit "0" every part that
`Wait` waits for is done; the historic data collector and the metrics loop, which
nobody waits for, may be at work, inside a transaction even, which the end of the
process then rolls back. `AcceptedAreAnswered` is about the API; the health server,
which starts before `Init` and shares its handle with the collectors, may cut its
requests.

### Discovery

One scrape. The handler looks the name up (`LookUp`), and once more for the
routes (`LookUpAgain`), while applications are created, scaled, stopped, started and
deleted under it. `MetricsDiscovery` lists what may be scraped: the instances there
should be (`Instances`), which need not be `Running`. Of a route the handler takes
host and domain (`URL`) and forgets path and port, so the router (external) may lead
the scrape elsewhere: `LedTo` are the applications behind the host's `/metrics`, if
there are any, else those behind the bare host, and of these the instance answers
that the header `X-Cf-App-Instance` names. `ListedAreServed` names what is listed
and not served because of either. Applications keep their names. Other headers, and
bodies, are left out; clients are taken not to send `X-Cf-App-Instance` themselves.

### PricingReads

The readers of VAT rates, currency rates and plans differ in the names of their
columns, so `table` chooses one of them. None of them asks for the error of its
rows: an error before the first row is returned by the query (`GetFails`), one
between two rows ends the list (`Readings`), which is answered with status 200.
`whole` remembers whether that happened, for `ListsWhatIsInForce` can ask for every
row only if all were read. `Configs` are the tables a configuration
file may lead to; that they are replaced in one transaction is `Pricing`'s.

### Parts and MCParts

`Authorization`, `Lifecycle`, `Discovery` and `PricingReads` neither read nor write
what the others do. `Parts` gives each of them variables of its own and puts them
side by side, with one name for each property, so that what TLC checks and what is
proved is one formula (`now` of `Authorization` is `clock` there, `pc` and
`changes` of `Discovery` are `proxy` and `appChanges`).

TLC would only interleave them, so a behaviour of `MCParts` is a behaviour of one
of them (`shown`), or of an instance of `HistoricData`, which shares no state with
them either: the module itself, `Pair` (two processes, one value) or `Paged`. A
part that is not shown rests in one of its initial states.

## Runs

| run | bounds | shows |
|---|---|---|
| `CollectorOverlap` | 2 collectors, 3 events, pages of 2, time 0..3, age 2 | `IdOrderIsLogOrder`, `NoCircularWait`, `ImplementsEventFeed` |
| `CollectorAge` | 1 collector, 2 events, pages of 1, time 0..6, age 4, a transaction, skew and request of 1 each | `TypeOK`, `NoEventSkipped`, `ScheduledMeansCaughtUp`, `EventuallyStored` |
| `ProcessorOverlap` | transactions: 2 processors, 2 months of 1, time 0..5, timeout 1, lag 1, grace 2; locks: 3 processors, 3 months | `BillsAreComplete`, `NoMonthLeftOut`, `ImplementsLedger`; `ConsolidationInNoCircle` |
| `ProcessorLive` | transactions: 1 processor, 2 months, time 0..4; locks: 3 processors, 1 month | `EveryMonthBilled`; `ConsolidationEnds` |
| `PricingOverlap` | 2 processes, overlapping or not, 3 files (one wrong, one with ignore_missing_plans), 3 events on 3 instants | `TypeOK`, `OneConfig`, `NoOrphanParts`, `PricedExactlyOnce`, `EveryEventPriced`, `DummiesFillTheGaps` |
| `UsageEvents` | 2 processes; an app with staging, a service instance and an acceptance-test task, 3 rows, time 0..2, skew 1 | `TypeOK`, `TableAgreesWithRows`, `BilledAsUsed`, `PastIsStable` |
| `EventsAPI` | bills with a forecast, or usage; 3 events (a task, a dummy), 2 months of 3 and 2 days to consolidate, 1 failure | `RepliesAreWhole`, `DaysAnsweredOnce`, `BilledMonthsRepeated`, `ForecastsLeaveNothing`, `RequestsEnd` |
| `PartsSafety` | authorization: 1 key, 2 organisations, 1 change; lifecycle: every command, 1 request; discovery: 2 names, 3 routes (bare, to the metrics, with another path), 1 change; pricing reads: up to 3 rows of 2 codes over 3 days; histories: a service and its plan, 1 failure, with one process (2 values, time 0..2) or two (time 0..1) | `TypesOK`, `GrantedToEntitled`, `GrantedOnValidToken`, `InOrder`, `OwnMetrics`, `ListedAreServed`, `ListsWhatIsInForce`, `KnownFromCreation`, `PlansHaveServices`, `PastIsSettled` |
| `PartsLive` | lifecycle: every command; histories: a service and its plan, or two organisations on two pages and a space, one process, time 0..1 | `AllCurrent` (`NewestIsCurrent` of both), `EndsTogether` |
| `PricingNoParts`, `PricingInitInUse`, `PricingHalfPriced` | 1 process, 2 files | violations, see below |

Why the bounds are enough. In `CollectorOverlap`, three events and pages of two
make a full page, a short one and an empty one, a page cut in the middle, and an
event that commits after two later ones; two collectors are enough for overlap, a
wait and a rollback under a waiter, and a third adds only longer chains of the
same waits (the theorems cover any number). The clock of `CollectorAge` runs past
the age of an event that waited for the longest transaction and request, and two
events on pages of one are a full page, an empty one, and an event drawn before
another that commits first. Two months make an order and a gap; the clock of
`ProcessorOverlap` ends one step after the second month is due, and two
processors are the least that replace each other's tables. Three rows of one
partition are a start, a change and an end, two of them possibly at one time, or
a start and an end around one of staging; the theorems cover any number. Three
instants hold a change of plan, of VAT and of currency inside an event. The range
of the bills in `EventsAPI` begins inside a month and ends with another, shorter
one, an event is used across the turn of the month, and a request for bills and a
forecast need both tables, which is where the waits come from; usage, which takes
one lock, is checked without them. In the histories, one service and its plan
have all the references there are; a change, a failure and a second process can
each come between any two steps. In pricing reads three rows are a first, a middle
and a last of one code, or two of one around one of another. Three processors are the least with which two
wait for each other while a third consolidates, and three months leave one behind,
between and ahead of two consolidations. Two processes and three instants
let a table of the older `now()` replace one that knows more. In discovery the three
routes are the three kinds a router tells apart; the application that is not served
has routes without another path, and what is created has the bare one (`FewRoutes`).
`PricingOverlap`, `CollectorOverlap`, `ProcessorOverlap` (of two of its processors)
and `UsageEvents` use symmetry, which is sound as they check no liveness.

Deadlock is checked in every run. Where every component always has an error, a
restart or a new request as a next step it cannot occur, and that *useful* steps
do not get stuck is what `NoCircularWait`, `ConsolidationInNoCircle` and the
liveness properties say. A
request of `Authorization`, a process of `Lifecycle` and a scrape of `Discovery`
end: `Answered`, `Ended` and `Done` are those ends, so that stopping anywhere
else would be found.

Fairness.

- `CollectorAge`: strong fairness of each successful step of a collect that
  resumed, and of reading the newest row: a call that is made over and over
  succeeds in the end, which is what retrying on a schedule is for. Weak fairness
  of the clock, of the end of Cloud Controller transactions, of the HTTP timeout
  and of the loop as such (a collect ends).
- `ProcessorLive`, the transactions: the same of the steps of the loop, and that events arrive.
- `ProcessorLive`, the locks: weak fairness of the end of a Refresh by its timeout, and of the
  failure of an insertion whose month exists; strong fairness of consolidation,
  because Postgres serves the waiters of a lock in their order.
- `EventsAPI`: strong fairness of a handler, because Postgres serves the waiters
  of a lock in their order, and weak fairness of Refresh's timeout. Without that
  timeout the circle described above is a deadlock (the mutant of `RequestsEnd`).
- `PartsLive`: weak fairness of the collecting goroutine and of the steps of main
  and parts, all of which have timeouts; strong fairness of a worker's stop,
  since `select` chooses at random between timer and context and does not choose
  the timer for ever.

None assumes that a particular attempt succeeds. Under a bounded clock, "in the
end" includes the time after its last tick, when nothing new becomes old enough;
the properties only speak of events and months that did.

## Proofs

`CollectorProofs` proves, for every number of collectors, page size, age, log and
time bound, from `BoundsAssumption`, `FetchLimitAssumption` and `AgeAssumption`
alone:

- `TypeCorrect`: `Spec => []TypeOK`
- `EventsNotSkipped`: `Spec => []NoEventSkipped`
- `IdsFollowLog`: `Spec => []IdOrderIsLogOrder`
- `StoringGoesOn`: `Spec => []NoCircularWait`
- `CollectorImplementsFeed`: `Spec => ImplementsEventFeed`
- `ScheduledHaveCaughtUp`: `Spec => ScheduledMeansCaughtUp`

The argument is one inductive invariant, `IInv`. `NoEventSkipped` is not
inductive: a batch in flight could contain an event whose predecessor has been
forgotten. `BatchInv` says that it cannot. Its part `PageComplete` says what a
response may lack: an event that was rolled back, or one that was still open when
the request was evaluated. At the age check the second kind is excluded, since by
`LogInv` the predecessor was drawn no later than the event, a transaction lasts
at most `MaxTx`, and the event's age exceeds what skew, transaction and request
can add up to; so `BatchClosed` holds from then on (every position before an
event of the batch is stored, inserted, still to be inserted, or rolled back), and
`InsertedClosed` as the loop goes through the batch in order. `RowInv` relates the
ids of stored and inserted rows to the log. `Exclusive` (no row is inserted
twice, nor inserted and stored) and `InsertedClosed` give the lemma that only one
transaction at a time holds rows: two batches begin at the same event of the log,
so the second waits at its first new row. `IdOrderIsLogOrder` and
`NoCircularWait` follow, and a step that is not a commit stutters in `EventFeed`.

`ScheduledMeansCaughtUp` is about the other end of a batch: a collector waits when
its batch is empty, and then must have everything that was due. `ReachInv` says
how far down a response reaches. The first visible event after the last one is on
the page, whatever its size (`PageHasFirst`), so while a response is on its way
(`PageBegins`) each later event of the log has an event of the response at or
below it, unless it may still have been open when the API was asked. The age check
cuts off the young, and only what lies at and after the first of them
(`BatchBegins`). An empty batch then leaves only events that were open or too
young (`NothingLeftBehind`), and what is at or before the last event is stored by
`NoEventSkipped`.

`UsageEventsProofs` proves, for every set of resources, every skew and every
bound, from `ResourceAssumption` and `BoundsAssumption`:

- `TypeCorrect`: `Spec => []TypeOK`
- `TableIsRight`: `Spec => []TableAgreesWithRows`
- `BillsFollowUse`: `Spec => []BilledAsUsed`
- `PastStays`: `Spec => PastIsStable`

Here the inductive part is small: the committed table is the value of the
statement for the rows and the `now()` it was built from (`TableIs`), the log
grows at its end only, and times of changes grow along it (`LogInOrder`). Nothing is
known of the order of two tables' times. The rest is about the statement itself: `EndOfSpan` says where `lead()` puts the end of a span,
`SpansAreDecided` and `DecidedHasSpan` that the spans containing an instant are
those of the row that decides on it, and the properties follow.

`ProcessorProofs` proves, for every number of processors and months, every length
of a month and every timing, from `ClockAssumption` and `GraceAssumption` (for the
locks, that the number of months is a natural one) alone:

- `TypeCorrect`: `Spec => []TypeOK`, which no run repeats
- `BillsComplete`: `Spec => []BillsAreComplete`
- `NoGapInHistory`: `Spec => []NoMonthLeftOut`
- `ImplementsTheLedger`: `Spec => ImplementsLedger`
- `NoVictim`: `Locks!Spec => []ConsolidationInNoCircle`, of `TableLocks`

A processor bills from tables another one may have replaced since, so
`BillsAreComplete` says too little about a table to be inductive. The invariant
measures a table against the moment a processor's Refresh began. `EventsGood` and
`ComponentsGood` say of a processor that has built a table of its own: every later
version of it is `Complete` (it has all that had to arrive before that Refresh
began), since `OneBuilder` lets only one transaction at a time build one, and
`Recent` (open ranges are cut at most one timeout before), since whoever committed
it was in time. The same is said of the drafts, which the commits turn into
tables. `GraceSuffices` is the arithmetic of the two assumptions: a month that
`ConsolidateAll` finds old enough (`TodoIsOld`) ended so long before that both
halves cover it. `NoGap`, `MonthsInOrder` and `BilledByOne` give
`NoMonthLeftOut`. A commit of a consolidation is the ledger's `Consolidate`, every
other step a stutter.

`NoVictim` is about the locks and has an invariant of its own, with their types
(`LocksInv`). `HeldInv`: who owns a
table excludes every other from it, and a consolidation owns none. `ReadInv`: who
has read components for a bill has inserted a month. `KeysInv`: months are inserted
in order, so that only one open transaction has any (`OneHasKeys`). A consolidation
without months is in nobody's way. One with months waits for no other consolidation:
before its first bill it waits at most for Refreshes, and those then wait for
Refreshes only, since no other transaction has months or has read components; later
it waits for nobody (`NoCircle`). A
circle among Refreshes is neither excluded nor needed.

`PricingProofs` proves, for any files, events and number of processes, with the
length of the line of time a parameter:

- `TypeCorrect`: `Spec => []TypeOK`
- `PartsHavePlans`: `Spec => []NoOrphanParts`
- `TablesOfOneConfig`: `Spec => []OneConfig`
- `NoEventLost`: `Spec => EveryEventPriced`
- `PricedOnceByPlanInForce`: `Spec => PricedExactlyOnce`
- `DummiesSuffice`: `DeploySpec => DummiesFillTheGaps`, and `DeploymentIsPricing`:
  `DeploySpec => Spec`

`OneConfig` needs to know why two Inits exclude each other: `HeldRates` says that
an Init that waits for, or has, the rates has its snapshot equal to the committed
rates; with a VAT rate in common (`VatAssumption`) a second one runs into a
duplicate. `Doomed` then says that what an Init is about to delete is every plan
but the dummies, and `OpenParts` that no plan to which an open generation has added
a component goes. The two action properties are about the joins: `RowsAt` and
`RowOfJoin` say which rows the joins make at an instant, `OneRateAt` that no two
rates of a file are in force at once (its `valid_for` are cut at the next row),
`PartsHaveRates` that the rates a component needs are there, because
`checkVATRates` and `checkCurrencyRates` passed when the file was committed, `LatestRate` and
`LatestPlan` that the latest row that has begun is in force.
`HorizonAssumption` (there is at least one instant) and `TimeAssumption` (the
instants of files and events lie on the line) describe the discretisation;
`FirstConfigAssumption` says that the tables a deployment begins with have passed
the checks, as an Init committed them; `DummyRatesAssumption` that the VAT and
currency of dummy plans (Standard, GBP) have rates for all usage, without which
the joins of a dummy plan find nothing and Refresh fails.

`EventsAPIProofs` proves, for any calendar, ranges, events, clients and bounds:

- `TypeCorrect`: `Spec => []TypeOK`
- `WholeReplies`: `Spec => []RepliesAreWhole`
- `NoDayTwice`: `Spec => []DaysAnsweredOnce`
- `BillsRepeated`: `Spec => []BilledMonthsRepeated`
- `NothingOfForecasts`: `Spec => []ForecastsLeaveNothing`

Its first half is about `recursiveSplitByMonth`, a recursive function over the
calendar. Induction by a theorem of the library is out of reach (see below), so
`SplitExists` shows that a function with the recursive equation exists, extending
one that satisfies it from some day on by the day before, and `SplitIsRight` looks
at the last day for which the claim would fail (both use `LeastNat`: a set of
numbers has a least):
the parts hold each day of the range once and no other, and months whose turn it
is are parts of their own. `RangesAssumption` says that the finite calendar
reaches beyond every range asked for; the real calendar has no end. The invariant
follows a request through its handler. `FilterInv`: a filter is answered, or still
to be answered, and never forgotten. `ReplyInv`: what a reply looks like while it
is not closed yet, and where the separators of bills (before a row) and of usage
(after it) come. `CountInv`: how many tokens a reply of usage or of a forecast has
for the rows the cursor has left behind, unless the result set ended in an error,
which `FinishEvents` then reports. `BilledInv`: a month that was consolidated when the request came
is not answered from the live tables, since bills are never removed
(`BillsKept`). `ForecastInv` and `NothingSimulated`: simulated events are in
`inserted` of their own request and in no table.

`HistoricDataProofs` proves, for any entities, pages, platform and bounds, from
`ParametersAssumption` and `GuidsAssumption` (a guid is a guid of one thing, and a
plan has a service):

- `TypeCorrect`: `Spec => []TypeOK`
- `PlansKeepServices`: `Spec => []PlansHaveServices`
- `KnownSinceCreation`: `Spec => []KnownFromCreation`
- `PastStaysSettled`: `Spec => PastIsSettled`, for one process

The first three hold for any number of processes. Neither of the two invariants is
inductive for `history` alone: a row is prepared from what a transaction sees,
others commit before it is inserted, and more before it is committed. The
invariant says the same of the rows a transaction sees (`RowsInv`) and of the row
it inserts next (`InsertInv`): its plan's service is among the rows seen, and it
is back-dated to the creation unless rows of the entity are seen already
(`Begins`). What is seen only grows, and an insert waits for a transaction with
the same key, so that no two hold one (`KeysApart`) and the union of what two
have inserted has one row per key. `FirstVersion` then shows that the first
version is valid, whatever comes later, and `OneInForce` that at every time from
there on exactly one is in force.

`PastIsSettled` assumes `OneProcess`: `manifest-collector.yml` has one instance,
and only while a version is replaced do two run. Its invariant, `SettledInv`,
follows a listing through its transaction. A listed entity either has changed
since the last listing, or its row `Repeats` the newest version, so that it is
dropped as a conflict or as redundant (`AddNewest`). An entity is on one page of a
listing only although entities come and go between the pages (`OnePage`): new
ones are listed last, so that the rank of an entity never grows (`PageByPage`,
`CreatedInOrder`). A plan that is skipped for want of its service has no version
yet, by `PlansHaveServices`.

`LifecycleProofs`, from `RequestsAssumption` (the bound on requests is a number):

- `TypeCorrect`: `Spec => []TypeOK`
- `LifeInOrder`: `Spec => []InOrder`

`InOrder` needs to know how the counter, the handle and the parts hang together:
`wg` counts the parts that are neither absent nor done (`WaitInv`), so that a main
goroutine whose `Wait` returns has no part left (`NoneActive`); the handle is open
while no part has closed it (`HandleInv`); and a server past its drain has
requests left only if it ran out of time (`DrainInv`). The parts that were started
are those of the steps that are done (`StartedInv`), so what comes after the two
Inits among the steps (`InitsFirst`) runs on an initialised database. The API is
the only part of its process (`ApiOnly`): nothing but its own end closes the
handle its requests need. That is why `AcceptedAreAnswered` is about the API and
not about the health server, which shares its handle with the collectors.

`PartsProofs` proves, for any keys, organisations, applications, routes, ranges and
files, from `PartsAssumption` (what the modules assume of their constants: bounds
are numbers, the names and routes of a space are finitely many, the components of
a file belong to plans of the file):

- `TypesCorrect`: `PartsSpec => []TypesOK`
- `TokensAreValid`: `PartsSpec => []GrantedOnValidToken`
- `EntitledAreGranted`: `PartsSpec => []GrantedToEntitled`
- `ProcessesInOrder`: `PartsSpec => []InOrder`
- `MetricsAreOwn`: `PartsSpec => []OwnMetrics`
- `ListedTargetsAnswer`: `PartsSpec => []ListedAreServed`
- `ListsAreInForce`: `PartsSpec => []ListsWhatIsInForce`

A step of one part is a step in which the others rest, so that each behaves as it
does alone (`PartsAreIndependent`) and its invariant is proved of it alone. In *Authorization* `TokenInv` says what is
known of the token at each point of a request: nothing is held of it until
`Admin`, and whoever gets past `Admin` was verified in time; so the claims
`composeClaims` keeps of an expired token are never used. `RolesInv` bounds what
has been listed from both sides, by what was held at some time since the request
came and by what was held all the while, and `GrantInv` carries the upper bound
over to the decision. These two theorems need no assumption.

In *Discovery* `OwnMetrics` is not inductive, because it says nothing before the
answer: `GuidsInv` says that GUIDs are given in order and never twice, and
`FoundInv` that the GUID of the application found first is no other name's and
will not become it. `ListedInv` follows a scrape while nothing changes: what the
second look-up finds is what was listed, and the routes already asked for their
domains and those still to be asked for are together the routes of the
application, so that the first URL is the host of one of them and leads to it,
unless the route has a path or the host a route to the metrics (`Excused`).
`RoutesInv` bounds the URLs.

In *PricingReads* the lemma `OverlapsIsInForce` is the argument: the range that
`lead()` gives a row meets the range asked for just when the row is the last of its
code to have begun on one of the days asked for, on the first of them or on its own
first day. What an error leaves unread is missing from the list and adds nothing to
it. For *Lifecycle* the theorems of `LifecycleProofs` are carried over;
`SameLifecycle` shows that they are about the same specification.

Only model-checked: liveness, which the provers cannot reason about under fairness
(`EventuallyStored`, `EveryMonthBilled`, `ConsolidationEnds`, `RequestsEnd`,
`AllCurrent`, `EndsTogether`). The provers cannot instantiate the library's induction theorems
either; where an argument over the numbers is needed (a page, a split by months),
the proofs use that a set of numbers has a least element.

## Where the code and its words differ

- `checkPricingComponents` (`eventstore/store.go:723`) is to check "that all
  pricing plans have at least one pricing component", but asks for groups `having
  count(ppc.*) < 0`. `PricingNoParts` shows an Init that commits such a plan;
  every Refresh that meets its usage then fails.
- `initPlans` (`eventstore/store.go:311`) is to fail "if you are missing plans for
  services found in the events". It does not look at the events:
  `PricingInitInUse`.
- The README (line 419) wants a matching plan for each event "for a given point
  in time". `checkPlanConsistency` is content with a plan for *some* point of the
  event, and the time before the plan's first version goes unbilled and
  unreported: `PricingHalfPriced`.

Met while modelling, and not the subject of a run. TLC gave a counterexample for
each of those in `HistoricData` and `EventsAPI` when the property was put without
its exception; the exceptions are named where the property is defined.

- A change within the second of one already recorded is never recorded
  (`cfstore/cfstore.go:138`, "on conflict (guid, valid_from) do nothing"):
  `NewestIsCurrent` fails with `SameSecond`. The test
  `cfstore/cfstore_collect_service_plans_test.go:130` wants a new version "when
  it has changed".
- The first version of an entity is back-dated, so the next collection records
  the same version once more (`cfstore/cfstore.go:102`), although it "should only
  record versions of services that have changed"
  (`cfstore/cfstore_collect_services_test.go:159`). `not_redundant` drops the
  repetition: no bill is wrong.
- The total of a month's tasks is written after a comma, whether or not a row
  came before (`apiserver/server_billable_handler.go:168`): a month with tasks
  only makes the reply no JSON.
- The loop over billable rows does not ask for their error
  (`apiserver/server_billable_handler.go:154`), which `store_billable_events.go:105`
  asks callers to do: a reply may be cut short with status 200.
- Closing billable rows does not end their transaction
  (`eventstore/store_billable_events.go:111`), although `Close` is said to "release
  the connection" (lines 18-19): a request keeps a connection and a lock per month.
- A range that begins on a day the next month does not have is split past that
  month (`eventio/event_filter.go:44`): from 31 January the first part ends on 1
  March, and a consolidated February is answered from the live tables.
- The loops over the rows of VAT rates, currency rates and plans do not ask for their
  error either (`eventstore/store_vat_rates.go:67`, `store_currency_rates.go:67`,
  `store_config.go:86`): an error between two rows is answered with status 200 and
  part of the list.
- The URL of a scrape has the host and domain of a route but not its path or port
  (`instancediscoverer/instancediscoverer.go:120`): an application whose first route
  has one is listed and its scrape answered by the router with 404, or by another
  application's metrics route.
- Discovery lists the instances of a stopped application
  (`apiserver/server_metrics_discovery_handler.go:39`), which no scrape can reach.
- Two Refreshes at once can wait for each other in a circle over the by-day view
  (`eventstore/sql/create_view_billable_event_components_by_day.sql:118` and `:142`);
  one of them is ended by the database or by its timeout and repeated.
- Of two Refreshes at once the one with the older `now()` may be the last to replace
  the events table (`eventstore/store.go:215`): what is in use is then charged up to
  the older time until the next Refresh.
- `Connection` is deleted before the headers it lists are read
  (`metricsproxy/proxy.go:49`), so those are passed on.
- The reconciliation script lists the instances without its token
  (`reconcilliation-test/cf_billing_reconcilliation.go:66`) and applies the 5% to
  the instances that were not billed (line 189); its README says "greater than 5%
  in the billable events but not in the cloudfoundry set".
- With two processes and ignore_missing_plans an Init may delete dummy plans
  between their generation and their use (see Pricing).
- A second processor whose transaction began before a newer event was committed
  fails to build the events table, and retries.

## Not modelled, and the plan

Not modelled: headers and bodies of the metrics proxy, what the periodic metrics
contain, the handlers of status and totals (one query each), configuration and
logging (parsing and formatting), the test environment and the reconciliation
script (not part of the running system), the compose events, which no fetcher
produces any more, and the sums and rows of the by-day table, which nothing in
this process reads.

What decides the amount of a bill came first: `Collector` and `EventFeed`,
`Processor` and `Ledger`, `Pricing`, `UsageEvents`, then `HistoricData`,
`EventsAPI`, and the parts around them. What is left is `HistoricData` composed
with `UsageEvents`: the names and plan ids of a span.
