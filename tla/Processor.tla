------------------------------ MODULE Processor ------------------------------
(***************************************************************************)
(* The processing of collected events: runRefreshAndConsolidateLoop        *)
(* (main_app.go), EventStore.Refresh (eventstore/store.go and its SQL      *)
(* files) and EventStore.ConsolidateAll                                    *)
(* (eventstore/store_consolidated_billable_events.go).                     *)
(*                                                                         *)
(* Several processors may run against the one database while a version is  *)
(* rolled out.  What matters of a table is which usage it was computed     *)
(* from: a snapshot [upTo, rows] names the raw events that were in it and  *)
(* the now() at which open ranges were cut.  A usage event is named by the *)
(* time it was created at.                                                 *)
(*                                                                         *)
(* A transaction waits here only for what one that stays open between two  *)
(* steps has locked.  All the locks, statement by statement, and the       *)
(* circles they can form are in TableLocks; without those waits there are  *)
(* only more behaviours.                                                   *)
(***************************************************************************)
EXTENDS Naturals, FiniteSets

CONSTANTS
  Processors,      \* processes running the loop
  NumMonths,       \* bound: months that are considered
  MonthLen,        \* length of a month
  MaxTime,         \* bound: last value of the clock
  MaxLag,          \* longest time from created_at to the raw event table
  RefreshTimeout,  \* DefaultRefreshTimeout
  Grace            \* the 5 days that consolidation stays behind

ASSUME ClockAssumption == /\ NumMonths \in Nat \ {0}
                          /\ MonthLen \in Nat \ {0}
                          /\ MaxTime \in Nat

(* Why 5 days are enough.  A Refresh that ended in time began at most one  *)
(* timeout ago, and the rows it used were read no earlier, so all events   *)
(* had arrived.  The events table it used may have been replaced by that   *)
(* of another processor whose now() lies one more timeout back, and open   *)
(* ranges are cut there.                                                   *)
ASSUME GraceAssumption == /\ MaxLag \in Nat
                          /\ RefreshTimeout \in Nat
                          /\ Grace \in Nat
                          /\ MaxLag + RefreshTimeout =< Grace
                          /\ 2 * RefreshTimeout =< Grace

Months == 0 .. NumMonths - 1
Times == 0 .. NumMonths * MonthLen - 1
MonthEnd(m) == (m + 1) * MonthLen

VARIABLES
  now,         \* the clock
  happened,    \* times at which a usage event was created in CF
  raw,         \* the raw event tables: the events collected so far
  events,      \* the events table
  components,  \* the billable_event_components table
  history,     \* consolidation_history
  bill,        \* consolidated_billable_events, per month
  pc,          \* where in the loop a processor is
  began,       \* when the processor's Refresh began (its timeout)
  startedAt,   \* now() of the transaction that builds events
  draft,       \* the table the processor's open transaction is building
  todo,        \* months ConsolidateAll has yet to reach
  newBills     \* months inserted by the open transaction

usageVars  == <<happened, raw>>
tableVars  == <<events, components>>
ledgerVars == <<history, bill>>
procVars   == <<pc, began, startedAt, draft, todo, newBills>>
vars       == <<now, usageVars, tableVars, ledgerVars, procVars>>

PCs == {"idle", "begin", "events", "check", "build", "components", "byday",
        "refreshed", "month", "insert"}

Snapshot == [upTo : 0 .. MaxTime, rows : SUBSET Times]
NoRows == [upTo |-> 0, rows |-> {}]

TypeOK ==
  /\ now \in 0 .. MaxTime
  /\ happened \subseteq Times
  /\ raw \subseteq happened
  /\ events \in Snapshot
  /\ components \in Snapshot
  /\ history \subseteq Months
  /\ bill \in [Months -> [upTo : Nat, rows : SUBSET Times]]
  /\ pc \in [Processors -> PCs]
  /\ began \in [Processors -> 0 .. MaxTime]
  /\ startedAt \in [Processors -> 0 .. MaxTime]
  /\ draft \in [Processors -> Snapshot]
  /\ todo \in [Processors -> SUBSET Months]
  /\ newBills \in [Processors -> SUBSET Months]

Init ==
  /\ now = 0
  /\ happened = {}
  /\ raw = {}
  /\ events = NoRows
  /\ components = NoRows
  /\ history = {}
  /\ bill = [m \in Months |-> NoRows]
  /\ pc = [p \in Processors |-> "idle"]
  /\ began = [p \in Processors |-> 0]
  /\ startedAt = [p \in Processors |-> 0]
  /\ draft = [p \in Processors |-> NoRows]
  /\ todo = [p \in Processors |-> {}]
  /\ newBills = [p \in Processors |-> {}]

------------------------------------------------------------------------------
(* Usage and its collection (external here: see Collector), and time.      *)

Happen ==
  /\ now \in Times
  /\ happened' = happened \cup {now}
  /\ UNCHANGED <<now, raw, tableVars, ledgerVars, procVars>>

Arrive(t) ==
  /\ t \in happened \ raw
  /\ raw' = raw \cup {t}
  /\ UNCHANGED <<now, happened, tableVars, ledgerVars, procVars>>

(* Time passes no further than collection may lag, and not between the     *)
(* return of Refresh and the call of ConsolidateAll that follows it.       *)
Tick ==
  /\ now < MaxTime
  /\ \A t \in happened \ raw : now < t + MaxLag
  /\ \A p \in Processors : pc[p] # "refreshed"
  /\ now' = now + 1
  /\ UNCHANGED <<usageVars, tableVars, ledgerVars, procVars>>

------------------------------------------------------------------------------
(* Refresh: four transactions under one timeout.                           *)

(* Mutant of InTime: Refresh without the timeout.                          *)
NoTimeout(p) == TRUE

InTime(p) == now =< began[p] + RefreshTimeout

Goto(p, here, there) == pc[p] = here /\ pc' = [pc EXCEPT ![p] = there]

(* The schedule fires, Refresh begins the first transaction.               *)
BeginRefresh(p) ==
  /\ Goto(p, "idle", "begin")
  /\ began' = [began EXCEPT ![p] = now]
  /\ startedAt' = [startedAt EXCEPT ![p] = now]
  /\ UNCHANGED <<now, usageVars, tableVars, ledgerVars, draft, todo, newBills>>

(* create table events_temp: waits while another transaction has one.  A   *)
(* row created after this transaction's now() makes a range with its lower *)
(* bound above its upper bound, an error.                                  *)
BuildEvents(p) ==
  /\ Goto(p, "begin", "events")
  /\ InTime(p)
  /\ \A q \in Processors : pc[q] # "events"
  /\ \A t \in raw : t =< startedAt[p]
  /\ draft' = [draft EXCEPT ![p] = [upTo |-> startedAt[p], rows |-> raw]]
  /\ UNCHANGED <<now, usageVars, tableVars, ledgerVars, began, startedAt, todo,
                 newBills>>

(* Dropping the old table waits for every open transaction that has read   *)
(* it: here only that of a builder of components, as CheckPlans is a whole *)
(* transaction.                                                            *)
CommitEvents(p) ==
  /\ Goto(p, "events", "check")
  /\ InTime(p)
  /\ \A q \in Processors : pc[q] # "components"
  /\ events' = draft[p]
  /\ draft' = [draft EXCEPT ![p] = NoRows]
  /\ UNCHANGED <<now, usageVars, components, ledgerVars, began, startedAt, todo,
                 newBills>>

(* generateMissingPlans and checkPlanConsistency find nothing amiss.       *)
CheckPlans(p) ==
  /\ Goto(p, "check", "build")
  /\ InTime(p)
  /\ UNCHANGED <<now, usageVars, tableVars, ledgerVars, began, startedAt, draft,
                 todo, newBills>>

(* create table billable_event_components_temp, filled from events.        *)
BuildComponents(p) ==
  /\ Goto(p, "build", "components")
  /\ InTime(p)
  /\ \A q \in Processors : pc[q] # "components"
  /\ draft' = [draft EXCEPT ![p] = events]
  /\ UNCHANGED <<now, usageVars, tableVars, ledgerVars, began, startedAt, todo,
                 newBills>>

(* Dropping the old table waits for a consolidation that has read it.      *)
CommitComponents(p) ==
  /\ Goto(p, "components", "byday")
  /\ InTime(p)
  /\ \A q \in Processors : newBills[q] = {}
  /\ components' = draft[p]
  /\ draft' = [draft EXCEPT ![p] = NoRows]
  /\ UNCHANGED <<now, usageVars, events, ledgerVars, began, startedAt, todo,
                 newBills>>

(* The by-day view is rebuilt, a transaction in one step; Refresh returns. *)
CommitByDay(p) ==
  /\ Goto(p, "byday", "refreshed")
  /\ InTime(p)
  /\ UNCHANGED <<now, usageVars, tableVars, ledgerVars, began, startedAt, draft,
                 todo, newBills>>

------------------------------------------------------------------------------
(* ConsolidateAll: one transaction over all the months that ended at least *)
(* Grace ago.                                                              *)

(* Mutant of BeginConsolidation: starts a month too late.                  *)
BeginAfterFirstMonth(p) ==
  /\ Goto(p, "refreshed", "month")
  /\ todo' = [todo EXCEPT ![p] =
                 {m \in Months \ {0} : MonthEnd(m) + Grace =< now}]
  /\ UNCHANGED <<now, usageVars, tableVars, ledgerVars, began, startedAt, draft,
                 newBills>>

BeginConsolidation(p) ==
  /\ Goto(p, "refreshed", "month")
  /\ todo' = [todo EXCEPT ![p] = {m \in Months : MonthEnd(m) + Grace =< now}]
  /\ UNCHANGED <<now, usageVars, tableVars, ledgerVars, began, startedAt, draft,
                 newBills>>

(* Mutant of IsNextMonth: the months of a map.                             *)
AnyMonth(p, m) == m \in todo[p]

IsNextMonth(p, m) == m \in todo[p] /\ \A k \in todo[p] : m =< k

(* Mutant of SkipMonth: the check finds any month consolidated.            *)
SkipAnyMonth(p, m) ==
  /\ pc[p] = "month"
  /\ IsNextMonth(p, m)
  /\ todo' = [todo EXCEPT ![p] = @ \ {m}]
  /\ UNCHANGED <<now, usageVars, tableVars, ledgerVars, pc, began, startedAt,
                 draft, newBills>>

(* isRangeConsolidated sees what is committed, and this transaction's own. *)
SkipMonth(p, m) ==
  /\ pc[p] = "month"
  /\ IsNextMonth(p, m)
  /\ m \in history
  /\ todo' = [todo EXCEPT ![p] = @ \ {m}]
  /\ UNCHANGED <<now, usageVars, tableVars, ledgerVars, pc, began, startedAt,
                 draft, newBills>>

NeedMonth(p, m) ==
  /\ Goto(p, "month", "insert")
  /\ IsNextMonth(p, m)
  /\ m \notin history
  /\ UNCHANGED <<now, usageVars, tableVars, ledgerVars, began, startedAt, draft,
                 todo, newBills>>

(* The primary key of consolidation_history makes the insert wait for a    *)
(* transaction that has inserted the same month.                           *)
MonthHeld(p, m) == \E q \in Processors \ {p} : m \in newBills[q]

(* The part of a snapshot that the bill of month m is computed from.       *)
BillOf(s, m) ==
  [upTo |-> IF s.upTo < MonthEnd(m) THEN s.upTo ELSE MonthEnd(m),
   rows |-> {t \in s.rows : t < MonthEnd(m)}]

(* consolidate: the history row and the month's billable events.  A month  *)
(* that was committed since the check violates the primary key, an error.  *)
InsertMonth(p, m) ==
  /\ Goto(p, "insert", "month")
  /\ IsNextMonth(p, m)
  /\ ~MonthHeld(p, m)
  /\ m \notin history
  /\ todo' = [todo EXCEPT ![p] = @ \ {m}]
  /\ newBills' = [newBills EXCEPT ![p] = @ \cup {m}]
  /\ bill' = [bill EXCEPT ![m] = BillOf(components, m)]
  /\ UNCHANGED <<now, usageVars, tableVars, history, began, startedAt, draft>>

(* Back to the select of the loop.                                         *)
Idle(p) ==
  /\ pc' = [pc EXCEPT ![p] = "idle"]
  /\ began' = [began EXCEPT ![p] = 0]
  /\ startedAt' = [startedAt EXCEPT ![p] = 0]
  /\ draft' = [draft EXCEPT ![p] = NoRows]
  /\ todo' = [todo EXCEPT ![p] = {}]
  /\ newBills' = [newBills EXCEPT ![p] = {}]
  /\ UNCHANGED <<now, usageVars, tableVars>>

CommitConsolidation(p) ==
  /\ pc[p] = "month"
  /\ todo[p] = {}
  /\ history' = history \cup newBills[p]
  /\ UNCHANGED bill
  /\ Idle(p)

(* The open transaction is rolled back.                                    *)
Rollback(p) ==
  /\ bill' = [m \in Months |-> IF m \in newBills[p] THEN NoRows ELSE bill[m]]
  /\ UNCHANGED history

(* Mutant of Fail: an error of Refresh is logged and ConsolidateAll called *)
(* all the same.                                                           *)
FailAndGoOn(p) ==
  /\ pc[p] \in {"begin", "events", "check", "build", "components", "byday"}
  /\ pc' = [pc EXCEPT ![p] = "refreshed"]
  /\ draft' = [draft EXCEPT ![p] = NoRows]
  /\ UNCHANGED <<now, usageVars, tableVars, ledgerVars, began, startedAt, todo,
                 newBills>>

(* Any statement fails, the timeout of Refresh expires, or the process     *)
(* stops: the tables of committed transactions stay as they are, and the   *)
(* loop starts over with Refresh.                                          *)
Fail(p) ==
  /\ pc[p] # "idle"
  /\ Rollback(p)
  /\ Idle(p)

Step(p) ==
  \/ BeginRefresh(p)
  \/ BuildEvents(p)
  \/ CommitEvents(p)
  \/ CheckPlans(p)
  \/ BuildComponents(p)
  \/ CommitComponents(p)
  \/ CommitByDay(p)
  \/ BeginConsolidation(p)
  \/ \E m \in Months : SkipMonth(p, m) \/ NeedMonth(p, m) \/ InsertMonth(p, m)
  \/ CommitConsolidation(p)
  \/ Fail(p)

Environment == Happen \/ (\E t \in Times : Arrive(t)) \/ Tick

Next == Environment \/ \E p \in Processors : Step(p)

Spec == Init /\ [][Next]_vars

------------------------------------------------------------------------------
(* Properties.                                                             *)

CompleteBill(m) == [upTo |-> MonthEnd(m),
                    rows |-> {t \in happened : t < MonthEnd(m)}]

(* A consolidated month is final, so it must have been computed from all   *)
(* the usage up to its end: "consolidation" only runs after a successful   *)
(* Refresh and only for months that ended 5 days ago.  Failing refreshes,  *)
(* events that arrive late and a second processor that replaces the tables *)
(* meanwhile must not make it read too little.                             *)
BillsAreComplete == \A m \in history : bill[m] = CompleteBill(m)

(* A month is never left out: ConsolidateAll takes the months in order and *)
(* all or nothing, so the consolidated months have no gap.                 *)
NoMonthLeftOut == \A m \in history, k \in Months : k < m => k \in history

(* Refresh and consolidation implement the ledger.  Rows of transactions   *)
(* that have not committed are not part of it.                             *)
Published == [m \in Months |-> IF m \in history THEN bill[m] ELSE NoRows]
Book == INSTANCE Ledger WITH bill <- Published
ImplementsLedger == Book!Spec

------------------------------------------------------------------------------
(* Liveness: no step of the loop fails for ever, events arrive, time       *)
(* passes.                                                                 *)
Fairness ==
  /\ WF_vars(Tick)
  /\ \A t \in Times : WF_vars(Arrive(t))
  /\ \A p \in Processors :
       /\ WF_vars(BeginRefresh(p))
       /\ SF_vars(BuildEvents(p))
       /\ SF_vars(CommitEvents(p))
       /\ SF_vars(CheckPlans(p))
       /\ SF_vars(BuildComponents(p))
       /\ SF_vars(CommitComponents(p))
       /\ SF_vars(CommitByDay(p))
       /\ SF_vars(BeginConsolidation(p))
       /\ \A m \in Months :
            SF_vars(SkipMonth(p, m) \/ NeedMonth(p, m)) /\ SF_vars(InsertMonth(p, m))
       /\ SF_vars(CommitConsolidation(p))
       /\ WF_vars(Fail(p) /\ ~InTime(p))

FairSpec == Spec /\ Fairness

(* Every month is billed in the end, however often processing fails.       *)
EveryMonthBilled ==
  \A m \in Months :
    (MonthEnd(m) + Grace =< now) ~> m \in history
=============================================================================
