------------------------------ MODULE EventsAPI ------------------------------
(***************************************************************************)
(* The endpoints that stream events: /billable_events, /usage_events and   *)
(* /forecast_events (apiserver, with the readers of eventstore), while a   *)
(* processor replaces the tables they read and consolidates months.        *)
(*                                                                         *)
(* A day is a number; an event is used on a range of days, and a row of a  *)
(* reply charges it on a range.  Whether a request is authorised is        *)
(* decided in Authorization: here it is refused or not.  A table is the    *)
(* set of events it was computed from.  Replacing a table needs a lock no  *)
(* open transaction that has read it leaves room for, and while the        *)
(* replacement waits no other transaction gets to read the table.          *)
(*                                                                         *)
(* A reply is a sequence of tokens: "[", "]", "comma", "row" (an event),   *)
(* "sum" (the total of an organisation's tasks) and "error" (the JSON of   *)
(* the error handler).                                                     *)
(***************************************************************************)
EXTENDS Naturals, Sequences, SequencesExt

CONSTANTS
  Requests,     \* clients, each asking for the same again and again
  Together,     \* bound: which of them there are, as a set of alternatives
  Endpoint,     \* "billable", "usage" or "forecast" of a request
  AskedRange,   \* its range_start and range_stop: first day, day after the last
  Orgs,         \* the organisations it asks for, {} for all
  Events,       \* events, as numbers in the order of their guids
  Span,         \* when an event was in use: first day, day after the last
  OrgOf,        \* the organisation of an event
  Tasks,        \* events that are tasks
  Dummies,      \* events that forecasts are asked about
  MonthStart,   \* first days of the months, from month 1, ascending
  MaxMonth,     \* bound: the last month that may be consolidated
  MaxFailures   \* bound: errors

ASSUME RequestsAssumption ==
  /\ Together \subseteq SUBSET Requests
  /\ Endpoint \in [Requests -> {"billable", "usage", "forecast"}]
  /\ AskedRange \in [Requests -> Nat \X Nat]

ASSUME EventsAssumption ==
  /\ Events \subseteq Nat /\ IsFiniteSet(Events)
  /\ Span \in [Events -> Nat \X Nat]
  /\ \A e \in Events : Span[e][1] < Span[e][2]
  /\ Tasks \cup Dummies \subseteq Events

ASSUME BoundsAssumption == MaxMonth \in Nat /\ MaxFailures \in Nat

ASSUME CalendarAssumption ==
  /\ MonthStart \in Seq(Nat) \ {<<>>}
  /\ MonthStart[1] = 0
  /\ \A m \in 1 .. Len(MonthStart) - 1 : MonthStart[m] < MonthStart[m + 1]

VARIABLES
  raw,       \* the usage events collected so far
  table,     \* the tables events and billable_event_components
  refresh,   \* what Refresh does next: "idle", or the table it is to replace
  bill,      \* the consolidated months and their consolidated_billable_events
  failures,  \* errors so far
  pc,        \* where in its handler a request is
  months,    \* the filters it has still to answer
  cursor,    \* rows of the current result set it has still to read
  tasks,     \* tasks among the rows read, to be totalled
  broken,    \* whether a result set ended in an error
  reply,     \* what it has sent
  charged,   \* per answered filter, the rows of the reply
  open,      \* tables read by its open transactions
  inserted,  \* events inserted by its open transaction
  billed     \* the months that were consolidated when it came

request == <<pc, months, cursor, tasks, broken, reply, charged, open, inserted, billed>>
vars == <<raw, table, refresh, bill, failures, request>>

Tables == {"events", "billable_event_components"}

Months == 1 .. Len(MonthStart) - 1

Days == 0 .. Last(MonthStart)

(* A part of the range, answered by one result set.                       *)
EventFilter == [start : Days, stop : Days]

Answer == [filter : EventFilter, rows : SUBSET Events]

Tokens == {"[", "]", "comma", "row", "sum", "error"}

TypeOK ==
  /\ raw \subseteq Events
  /\ table \in [Tables -> SUBSET Events]
  /\ refresh \in Tables \cup {"idle"}
  /\ bill \in Seq(SUBSET Events) /\ DOMAIN bill \subseteq Months
  /\ failures \in 0 .. MaxFailures
  /\ pc \in [Requests -> {"absent", "new", "next", "bill", "live", "insert", "price", "rows", "done"}]
  /\ months \in [Requests -> Seq(EventFilter)]
  /\ reply \in [Requests -> Seq(Tokens)]
  /\ charged \in [Requests -> SUBSET Answer]
  /\ cursor \in [Requests -> SUBSET Events]
  /\ tasks \in [Requests -> SUBSET Tasks]
  /\ broken \in [Requests -> BOOLEAN]
  /\ open \in [Requests -> SUBSET Tables]
  /\ inserted \in [Requests -> SUBSET Dummies]
  /\ billed \in [Requests -> SUBSET Months]

Init ==
  /\ raw = {}
  /\ table = [t \in Tables |-> {}]
  /\ refresh = "idle"
  /\ bill = <<>>
  /\ failures = 0
  /\ \E clients \in Together :
       pc = [r \in Requests |-> IF r \in clients THEN "new" ELSE "absent"]
  /\ months = [r \in Requests |-> <<>>]
  /\ cursor = [r \in Requests |-> {}]
  /\ tasks = [r \in Requests |-> {}]
  /\ broken = [r \in Requests |-> FALSE]
  /\ reply = [r \in Requests |-> <<>>]
  /\ charged = [r \in Requests |-> {}]
  /\ open = [r \in Requests |-> {}]
  /\ inserted = [r \in Requests |-> {}]
  /\ billed = [r \in Requests |-> {}]

------------------------------------------------------------------------------
(* Filters (eventio/event_filter.go).                                      *)

MonthOf(day) == CHOOSE m \in Months : MonthStart[m] =< day /\ day < MonthStart[m + 1]

truncateMonth(day) == MonthStart[MonthOf(day)]

(* AddDate(0, 1, 0): the same day of the next month, counted on into the   *)
(* month after when the next month is too short.                           *)
AddMonth(day) == MonthStart[MonthOf(day) + 1] + (day - truncateMonth(day))

(* Mutant of minDate: the later one.                                       *)
minDateLater(t1, t2) == IF t1 < t2 THEN t2 ELSE t1

minDate(t1, t2) == IF t1 < t2 THEN t1 ELSE t2

(* Mutant of NextPart: a month later, in the middle of a month.            *)
NextPartMidMonth(t1) == AddMonth(t1)

(* The beginning of the month that AddMonth leads to.                      *)
NextPart(t1) == truncateMonth(AddMonth(t1))

recursiveSplitByMonth(t2) ==
  LET split[t1 \in Days] ==
        IF t1 >= t2 THEN <<>>
        ELSE <<[start |-> t1, stop |-> minDate(t2, NextPart(t1))]>> \o split[NextPart(t1)]
  IN split

SplitByMonth(range) == recursiveSplitByMonth(range[2])[range[1]]

(* The calendar goes on for as long as what is asked for is split.         *)
ASSUME RangesAssumption ==
  \A r \in Requests :
    /\ AskedRange[r] \in Days \X Days
    /\ Endpoint[r] = "billable" =>
         \A day \in Days : day < AskedRange[r][2] => AddMonth(day) < Last(MonthStart)

checkMonthBoundary(day) == truncateMonth(day) = day

Overlaps(e, f) == Span[e][1] < f.stop /\ f.start < Span[e][2]

AskedFor(r, events) == {e \in events : Orgs[r] = {} \/ OrgOf[e] \in Orgs[r]}

(* Rows for a filter from a table: those used in it.                       *)
EventRows(r, f, events) == {e \in AskedFor(r, events) : Overlaps(e, f)}

Month(m) == [start |-> MonthStart[m], stop |-> MonthStart[m + 1]]

(* Rows for a filter from the bills of the months it overlaps.             *)
BillRows(r, f) ==
  UNION {AskedFor(r, bill[m]) : m \in {m \in DOMAIN bill : Month(m).start < f.stop
                                                         /\ f.start < Month(m).stop}}

------------------------------------------------------------------------------
(* The processor (see Processor) and its locks.  A Refresh begins here when *)
(* it has built the next table.                                            *)

Arrive(e) ==
  /\ e \in Events \ (Dummies \cup raw)
  /\ raw' = raw \cup {e}
  /\ UNCHANGED <<table, refresh, bill, failures, request>>

BeginRefresh ==
  /\ refresh = "idle"
  /\ refresh' = "events"
  /\ UNCHANGED <<raw, table, bill, failures, request>>

NoReader(t) == \A r \in Requests : t \notin open[r]

SwapEvents ==
  /\ refresh = "events"
  /\ NoReader("events")
  /\ table' = [table EXCEPT !["events"] = raw]
  /\ refresh' = "billable_event_components"
  /\ UNCHANGED <<raw, bill, failures, request>>

SwapComponents ==
  /\ refresh = "billable_event_components"
  /\ NoReader("billable_event_components")
  /\ table' = [table EXCEPT !["billable_event_components"] = table["events"]]
  /\ refresh' = "idle"
  /\ UNCHANGED <<raw, bill, failures, request>>

(* Mutant of RefreshTimeout: Refresh has all the time it needs.            *)
RefreshNoTimeout == FALSE /\ UNCHANGED vars

RefreshTimeout ==
  /\ refresh # "idle"
  /\ refresh' = "idle"
  /\ UNCHANGED <<raw, table, bill, failures, request>>

Consolidate(m) ==
  /\ refresh = "idle"
  /\ m =< MaxMonth
  /\ m = Len(bill) + 1
  /\ bill' = Append(bill, {e \in table["billable_event_components"] : Overlaps(e, Month(m))})
  /\ UNCHANGED <<raw, table, refresh, failures, request>>

------------------------------------------------------------------------------
(* Handlers.                                                               *)

database == <<raw, table, refresh, bill>>

Refuse(r) ==
  /\ pc[r] = "new"
  /\ pc' = [pc EXCEPT ![r] = "done"]
  /\ reply' = [reply EXCEPT ![r] = <<"error">>]
  /\ billed' = [billed EXCEPT ![r] = {}]
  /\ UNCHANGED <<database, failures, months, cursor, tasks, broken, charged, open, inserted>>

Accept(r) ==
  /\ pc[r] = "new"
  /\ pc' = [pc EXCEPT ![r] = "next"]
  /\ months' = [months EXCEPT ![r] =
       IF Endpoint[r] = "billable" THEN SplitByMonth(AskedRange[r])
       ELSE <<[start |-> AskedRange[r][1], stop |-> AskedRange[r][2]]>>]
  /\ billed' = [billed EXCEPT ![r] = DOMAIN bill]
  /\ UNCHANGED <<database, failures, cursor, tasks, broken, reply, charged, open, inserted>>

Filter(r) == Head(months[r])

(* Whether exactly the range of the filter has been consolidated, asked in *)
(* a transaction of its own.                                               *)
IsRangeConsolidated(r) ==
  /\ pc[r] = "next"
  /\ Endpoint[r] = "billable"
  /\ months[r] # <<>>
  /\ pc' = [pc EXCEPT ![r] =
       IF \E m \in DOMAIN bill : Filter(r) = Month(m) THEN "bill" ELSE "live"]
  /\ UNCHANGED <<database, failures, months, cursor, tasks, broken, reply, charged,
                 open, inserted, billed>>

ReadEvents(r) ==
  /\ pc[r] = "next"
  /\ months[r] # <<>>
  /\ Endpoint[r] # "billable"
  /\ pc' = [pc EXCEPT ![r] = IF Endpoint[r] = "usage" THEN "live" ELSE "insert"]
  /\ UNCHANGED <<database, failures, months, cursor, tasks, broken, reply, charged,
                 open, inserted, billed>>

(* Next() returns false at the end of the rows and on an error alike: what *)
(* is left to read, and whether it ended in an error.                      *)
Fetch(r, left) ==
  \/ /\ cursor' = [cursor EXCEPT ![r] = left]
     /\ UNCHANGED <<broken, failures>>
  \/ /\ failures < MaxFailures
     /\ left # {}
     /\ failures' = failures + 1
     /\ cursor' = [cursor EXCEPT ![r] = {}]
     /\ broken' = [broken EXCEPT ![r] = TRUE]

(* The result set of a filter: usage and forecasts open the reply with it. *)
Rows(r, rows) ==
  /\ pc' = [pc EXCEPT ![r] = "rows"]
  /\ charged' = [charged EXCEPT ![r] = @ \cup {[filter |-> Filter(r), rows |-> rows]}]
  /\ reply' = [reply EXCEPT ![r] = IF Endpoint[r] = "billable" THEN @ ELSE <<"[">>]
  /\ Fetch(r, rows)
  /\ UNCHANGED <<database, months, tasks, billed>>

(* A filter that does not lie on month boundaries would be an error.       *)
GetConsolidatedBillableEventRows(r) ==
  /\ pc[r] = "bill"
  /\ checkMonthBoundary(Filter(r).start)
  /\ checkMonthBoundary(Filter(r).stop)
  /\ Rows(r, BillRows(r, Filter(r)))
  /\ UNCHANGED <<open, inserted>>

(* The lock of a reader, kept until its transaction ends.                  *)
Lock(r, t) ==
  /\ refresh # t
  /\ open' = [open EXCEPT ![r] = @ \cup {t}]

GetBillableEventRows(r) ==
  /\ pc[r] = "live"
  /\ Endpoint[r] = "billable"
  /\ Lock(r, "billable_event_components")
  /\ Rows(r, EventRows(r, Filter(r), table["billable_event_components"]))
  /\ UNCHANGED inserted

GetUsageEventRows(r) ==
  /\ pc[r] = "live"
  /\ Endpoint[r] = "usage"
  /\ Lock(r, "events")
  /\ Rows(r, EventRows(r, Filter(r), table["events"]))
  /\ UNCHANGED inserted

Inserted(r) == Dummies

(* The events are inserted under the guids the client gives, which no      *)
(* other open transaction may have inserted.                               *)
Insertable(r) ==
  /\ pc[r] = "insert"
  /\ \A q \in Requests \ {r} : inserted[q] = {}
  /\ Lock(r, "events")
  /\ pc' = [pc EXCEPT ![r] = "price"]
  /\ UNCHANGED <<raw, refresh, bill, failures, months, cursor, tasks, broken, reply,
                 charged, billed>>

(* Mutant of ForecastInsert: outside a transaction.                        *)
ForecastInsertForGood(r) ==
  /\ Insertable(r)
  /\ table' = [table EXCEPT !["events"] = @ \cup Dummies]
  /\ UNCHANGED inserted

ForecastInsert(r) ==
  /\ Insertable(r)
  /\ inserted' = [inserted EXCEPT ![r] = Inserted(r)]
  /\ UNCHANGED table

ForecastBillableEventRows(r) ==
  /\ pc[r] = "price"
  /\ Lock(r, "billable_event_components")
  /\ Rows(r, EventRows(r, Filter(r), table["billable_event_components"] \cup inserted[r]))
  /\ UNCHANGED inserted

Sent(r, token) == token \in Range(reply[r])

(* The header is sent as late as possible.                                 *)
OKHeader(r) == IF Sent(r, "[") THEN <<>> ELSE <<"[">>

(* A task is kept for later, another event is sent; the separator is       *)
(* written before an event when one has been sent, but the sums of tasks   *)
(* do not count.                                                           *)
SendBillableEvent(r) ==
  LET e == Min(cursor[r])
      delim == IF Sent(r, "row") THEN <<"comma">> ELSE <<>>
  IN /\ pc[r] = "rows" /\ Endpoint[r] = "billable"
     /\ cursor[r] # {}
     /\ IF e \in Tasks
        THEN /\ tasks' = [tasks EXCEPT ![r] = @ \cup {e}]
             /\ UNCHANGED reply
        ELSE /\ reply' = [reply EXCEPT ![r] = @ \o OKHeader(r) \o delim \o <<"row">>]
             /\ UNCHANGED tasks
     /\ Fetch(r, cursor[r] \ {e})
     /\ UNCHANGED <<database, pc, months, charged, open, inserted, billed>>

(* One sum per organisation (and space), each after a separator; the       *)
(* result set is closed, its transaction is not ended.                     *)
SendTaskTotals(r) ==
  /\ pc[r] = "rows" /\ Endpoint[r] = "billable"
  /\ cursor[r] = {}
  /\ reply' = [reply EXCEPT ![r] =
       @ \o [i \in 1 .. 2 * Cardinality({OrgOf[e] : e \in tasks[r]}) |->
               IF i % 2 = 1 THEN "comma" ELSE "sum"]]
  /\ tasks' = [tasks EXCEPT ![r] = {}]
  /\ months' = [months EXCEPT ![r] = Tail(@)]
  /\ pc' = [pc EXCEPT ![r] = "next"]
  /\ UNCHANGED <<database, failures, cursor, broken, charged, open, inserted, billed>>

(* The transactions end when the handler returns.                          *)
End(r, tokens) ==
  /\ pc' = [pc EXCEPT ![r] = "done"]
  /\ reply' = [reply EXCEPT ![r] = @ \o tokens]
  /\ cursor' = [cursor EXCEPT ![r] = {}]
  /\ tasks' = [tasks EXCEPT ![r] = {}]
  /\ months' = [months EXCEPT ![r] = <<>>]
  /\ open' = [open EXCEPT ![r] = {}]
  /\ inserted' = [inserted EXCEPT ![r] = {}]

(* Mutant of FinishBillable: the header belongs to the first row.          *)
FinishBillableRow(r) ==
  /\ pc[r] = "next" /\ months[r] = <<>> /\ Endpoint[r] = "billable"
  /\ End(r, <<"]">>)
  /\ UNCHANGED <<database, failures, broken, charged, billed>>

FinishBillable(r) ==
  /\ pc[r] = "next" /\ months[r] = <<>> /\ Endpoint[r] = "billable"
  /\ End(r, OKHeader(r) \o <<"]">>)
  /\ UNCHANGED <<database, failures, broken, charged, billed>>

(* A row of usage or of a forecast, and a separator if another follows.    *)
SendEvent(r) ==
  /\ pc[r] = "rows" /\ Endpoint[r] # "billable"
  /\ cursor[r] # {}
  /\ Fetch(r, cursor[r] \ {Min(cursor[r])})
  /\ reply' = [reply EXCEPT ![r] = @ \o IF cursor'[r] = {} THEN <<"row">> ELSE <<"row", "comma">>]
  /\ UNCHANGED <<database, pc, months, tasks, charged, open, inserted, billed>>

(* What the error of the rows adds to the reply when it is returned.       *)
RowsErr(r) == IF broken[r] THEN <<"error">> ELSE <<>>

FinishEvents(r) ==
  /\ pc[r] = "rows" /\ Endpoint[r] # "billable"
  /\ cursor[r] = {}
  /\ End(r, <<"]">> \o RowsErr(r))
  /\ UNCHANGED <<database, failures, broken, charged, billed>>

(* An error of a query, of a row or of the client's connection; a panic is *)
(* recovered and answered like one.                                        *)
Fail(r) ==
  /\ pc[r] \notin {"absent", "new", "done"}
  /\ failures < MaxFailures
  /\ failures' = failures + 1
  /\ End(r, <<"error">>)
  /\ UNCHANGED <<database, broken, charged, billed>>

(* The client asks again.                                                  *)
AskAgain(r) ==
  /\ pc[r] = "done"
  /\ pc' = [pc EXCEPT ![r] = "new"]
  /\ broken' = [broken EXCEPT ![r] = FALSE]
  /\ reply' = [reply EXCEPT ![r] = <<>>]
  /\ charged' = [charged EXCEPT ![r] = {}]
  /\ billed' = [billed EXCEPT ![r] = {}]
  /\ UNCHANGED <<database, failures, months, cursor, tasks, open, inserted>>

Handle(r) ==
  \/ Accept(r) \/ IsRangeConsolidated(r) \/ ReadEvents(r)
  \/ GetConsolidatedBillableEventRows(r) \/ GetBillableEventRows(r) \/ GetUsageEventRows(r)
  \/ ForecastInsert(r) \/ ForecastBillableEventRows(r)
  \/ SendBillableEvent(r) \/ SendTaskTotals(r) \/ FinishBillable(r)
  \/ SendEvent(r) \/ FinishEvents(r)

Next ==
  \/ \E e \in Events : Arrive(e)
  \/ BeginRefresh \/ SwapEvents \/ SwapComponents \/ RefreshTimeout
  \/ \E m \in Months : Consolidate(m)
  \/ \E r \in Requests : Refuse(r) \/ Handle(r) \/ Fail(r) \/ AskAgain(r)

Spec == Init /\ [][Next]_vars

(* A handler goes on when the database lets it; Refresh ends in time.      *)
FairSpec ==
  /\ Spec
  /\ \A r \in Requests : SF_vars(Handle(r))
  /\ WF_vars(RefreshTimeout)

------------------------------------------------------------------------------
(* A reply that ends without an error.                                     *)
Complete(r) == pc[r] = "done" /\ Sent(r, "]") /\ ~Sent(r, "error")

(* An array, its elements separated by commas.                             *)
WellFormed(s) ==
  /\ Len(s) >= 2 /\ s[1] = "[" /\ s[Len(s)] = "]"
  /\ Len(s) = 2 \/ Len(s) % 2 = 1
  /\ \A i \in 2 .. Len(s) - 1 : s[i] \in IF i % 2 = 0 THEN {"row", "sum"} ELSE {"comma"}

(* The tokens of an array of n elements.                                   *)
ArrayLength(n) == IF n = 0 THEN 2 ELSE 2 * n + 1

(* A reply without an error is a JSON array, whatever months, refreshes    *)
(* and consolidations it was put together from, and one of usage or of a   *)
(* forecast has as many elements as there were rows for its filter.        *)
(*                                                                         *)
(* Two things are excepted, as the code gets them wrong: replies with      *)
(* totals of tasks, the first of which may come before any row             *)
(* (server_billable_handler.go:168), and the number of rows of a bill,     *)
(* which an error between two of them ends as the last row does (:154).    *)
RepliesAreWhole ==
  \A r \in Requests : Complete(r) =>
    /\ ~Sent(r, "sum") => WellFormed(reply[r])
    /\ Endpoint[r] # "billable" =>
         \A a \in charged[r] : Len(reply[r]) = ArrayLength(Cardinality(a.rows))

(* The filters a reply answers share no day and leave none out: nobody is  *)
(* charged twice, or not at all, at the turn of a month.                   *)
DaysAnsweredOnce ==
  \A r \in Requests : Complete(r) =>
    \A day \in Days :
      Quantify({a.filter : a \in charged[r]}, LAMBDA f : f.start =< day /\ day < f.stop)
        = IF AskedRange[r][1] =< day /\ day < AskedRange[r][2] THEN 1 ELSE 0

(* A day of the month that every month has.                                *)
EveryMonthHas(day) ==
  \A m \in Months : MonthStart[m] + (day - truncateMonth(day)) < MonthStart[m + 1]

(* A whole month that was consolidated before the request came is answered *)
(* from its bill, not from tables that have changed since.  (A range that  *)
(* begins on the 31st may be split past a shorter month: see AddMonth.)    *)
BilledMonthsRepeated ==
  \A r \in Requests :
    Complete(r) /\ Endpoint[r] = "billable" /\ EveryMonthHas(AskedRange[r][1]) =>
      \A m \in billed[r] :
        AskedRange[r][1] =< Month(m).start /\ Month(m).stop =< AskedRange[r][2] =>
          [filter |-> Month(m), rows |-> AskedFor(r, bill[m])] \in charged[r]

(* What a forecast inserts is seen by no one else, and nothing of it stays.*)
ForecastsLeaveNothing ==
  /\ Dummies \cap UNION {table[t] : t \in Tables} = {}
  /\ \A m \in DOMAIN bill : bill[m] \cap Dummies = {}
  /\ \A r \in Requests : \A a \in charged[r] :
       Endpoint[r] # "forecast" => a.rows \cap Dummies = {}

(* Every request ends, also when it waits for a Refresh that waits for the *)
(* table the request has read for an earlier month.                        *)
RequestsEnd == \A r \in Requests : pc[r] = "next" ~> pc[r] = "done"
==============================================================================
