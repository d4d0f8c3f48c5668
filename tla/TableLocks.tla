----------------------------- MODULE TableLocks ------------------------------
(***************************************************************************)
(* The locks that the transactions of Refresh and ConsolidateAll take in   *)
(* the database (the SQL files of eventstore/sql,                          *)
(* eventstore/store_consolidated_billable_events.go), statement by         *)
(* statement, when several processors run.  What the transactions compute  *)
(* is in Processor, whose steps are a whole transaction or the part of one *)
(* that another can see.                                                   *)
(*                                                                         *)
(* A lock is kept to the end of its transaction.  A statement that reads a *)
(* table, or builds an index on it, shares it; one that drops or rebuilds  *)
(* it owns it alone, and a table being created is owned by name.  The      *)
(* statement that takes a transaction's last lock is one step with its     *)
(* commit: nothing waits between.                                          *)
(***************************************************************************)
EXTENDS Naturals

CONSTANTS
  Processors,  \* processes running the loop
  NumMonths    \* bound: months that are considered

MonthsAssumption == NumMonths \in Nat

Months == 0 .. NumMonths - 1
Tables == {"events_temp", "events", "components_temp", "components", "view"}

VARIABLES
  pc,       \* the statement a processor is at
  shared,   \* the tables its open transaction has read or indexed
  owned,    \* the tables its open transaction has created, dropped or rebuilt
  keys,     \* months it has inserted into consolidation_history
  todo,     \* months ConsolidateAll has yet to reach
  history,  \* the committed consolidation_history
  view      \* whether billable_event_components_by_day exists

locks    == <<shared, owned>>
billVars == <<keys, todo, history>>
vars     == <<pc, locks, billVars, view>>

Refreshing == {"createEvents", "dropEvents", "check", "checked",
               "createComponents", "readEvents", "dropComponents", "dropView",
               "byDay", "index", "refreshView", "refill"}
Consolidating == {"month", "insert", "bill"}
PCs == Refreshing \cup Consolidating \cup {"idle", "refreshed"}

(* The table that a statement shares, and the one that it owns.            *)
Shares == {<<"check", "events">>, <<"readEvents", "events">>,
           <<"byDay", "components">>, <<"index", "view">>,
           <<"refill", "components">>, <<"bill", "components">>}
Owns == {<<"createEvents", "events_temp">>, <<"dropEvents", "events">>,
         <<"createComponents", "components_temp">>,
         <<"dropComponents", "components">>, <<"dropView", "view">>,
         <<"refreshView", "view">>}

TypeOK ==
  /\ pc \in [Processors -> PCs]
  /\ shared \in [Processors -> SUBSET Tables]
  /\ owned \in [Processors -> SUBSET Tables]
  /\ keys \in [Processors -> SUBSET Months]
  /\ todo \in [Processors -> SUBSET Months]
  /\ history \subseteq Months
  /\ view \in BOOLEAN

Init ==
  /\ pc = [p \in Processors |-> "idle"]
  /\ shared = [p \in Processors |-> {}]
  /\ owned = [p \in Processors |-> {}]
  /\ keys = [p \in Processors |-> {}]
  /\ todo = [p \in Processors |-> {}]
  /\ history = {}
  /\ view = FALSE

------------------------------------------------------------------------------
(* Statements and locks.                                                   *)

(* Mutant of IsNextMonth: the months of a map.                             *)
AnyMonth(p, m) == m \in todo[p]

(* consolidateFullMonths takes the months in order.                        *)
IsNextMonth(p, m) == m \in todo[p] /\ \A k \in todo[p] : m =< k

(* The transactions that hold what the statement needs that p has come to. *)
Blockers(p) ==
  {q \in Processors \ {p} :
     \/ \E t \in owned[q] : <<pc[p], t>> \in Shares
     \/ \E t \in owned[q] \cup shared[q] : <<pc[p], t>> \in Owns
     \/ pc[p] = "insert" /\ \E m \in keys[q] : IsNextMonth(p, m)}

Execute(p, here, there) ==
  /\ pc[p] = here
  /\ Blockers(p) = {}
  /\ pc' = [pc EXCEPT ![p] = there]

Statement(p, here, there) ==
  /\ Execute(p, here, there)
  /\ shared' = [shared EXCEPT ![p] = @ \cup {t \in Tables : <<here, t>> \in Shares}]
  /\ owned' = [owned EXCEPT ![p] = @ \cup {t \in Tables : <<here, t>> \in Owns}]

Release(p) ==
  /\ shared' = [shared EXCEPT ![p] = {}]
  /\ owned' = [owned EXCEPT ![p] = {}]

(* The last statement of a transaction, and its commit.                    *)
Commit(p, here, there) == Execute(p, here, there) /\ Release(p)

------------------------------------------------------------------------------
(* Refresh.                                                                *)

BeginRefresh(p) ==
  /\ Statement(p, "idle", "createEvents")
  /\ UNCHANGED <<billVars, view>>

(* create_events.sql                                                       *)
RegenerateEvents(p) ==
  /\ \/ Statement(p, "createEvents", "dropEvents")
     \/ Commit(p, "dropEvents", "check")
  /\ UNCHANGED <<billVars, view>>

(* generateMissingPlans and checkPlanConsistency.                          *)
CheckPlans(p) ==
  /\ \/ Statement(p, "check", "checked")
     \/ Commit(p, "checked", "createComponents")
  /\ UNCHANGED <<billVars, view>>

(* create_billable_event_components.sql                                    *)
RegenerateComponents(p) ==
  /\ \/ Statement(p, "createComponents", "readEvents")
     \/ Statement(p, "readEvents", "dropComponents")
     \/ Statement(p, "dropComponents", "dropView")
  /\ UNCHANGED <<billVars, view>>

(* CASCADE: the view is dropped with the table it reads.                   *)
DropView(p) ==
  /\ Commit(p, "dropView", "byDay")
  /\ view' = FALSE
  /\ UNCHANGED billVars

(* create_view_billable_event_components_by_day.sql: the view is created   *)
(* and filled, or its indexes and its contents are renewed if it exists.   *)
(* Whether CREATE ... IF NOT EXISTS keeps the table it would have read     *)
(* locked when the view exists is left open.                               *)
CreateView(p) ==
  /\ ~view
  /\ Commit(p, "byDay", "refreshed")
  /\ view' = TRUE
  /\ UNCHANGED billVars

FindView(p) ==
  /\ view
  /\ \/ Statement(p, "byDay", "index")
     \/ pc[p] = "byDay" /\ pc' = [pc EXCEPT ![p] = "index"] /\ UNCHANGED locks
  /\ UNCHANGED <<billVars, view>>

RefreshView(p) ==
  /\ view
  /\ \/ Statement(p, "index", "refreshView")
     \/ Statement(p, "refreshView", "refill")
     \/ Commit(p, "refill", "refreshed")
  /\ UNCHANGED <<billVars, view>>

------------------------------------------------------------------------------
(* ConsolidateAll, which unlike Refresh has no timeout.                    *)

(* The months that have ended long enough ago: time is in Processor.       *)
BeginConsolidation(p) ==
  /\ Statement(p, "refreshed", "month")
  /\ \E n \in 0 .. NumMonths : todo' = [todo EXCEPT ![p] = 0 .. n - 1]
  /\ UNCHANGED <<keys, history, view>>

(* isRangeConsolidated sees what is committed.                             *)
SkipMonth(p, m) ==
  /\ pc[p] = "month"
  /\ IsNextMonth(p, m)
  /\ m \in history
  /\ todo' = [todo EXCEPT ![p] = @ \ {m}]
  /\ UNCHANGED <<pc, locks, keys, history, view>>

NeedMonth(p, m) ==
  /\ Statement(p, "month", "insert")
  /\ IsNextMonth(p, m)
  /\ m \notin history
  /\ UNCHANGED <<billVars, view>>

(* The row of consolidation_history: the insert of the same month by two   *)
(* transactions waits for the first, and fails if that commits.            *)
InsertKey(p, m) ==
  /\ Statement(p, "insert", "bill")
  /\ IsNextMonth(p, m)
  /\ m \notin history
  /\ keys' = [keys EXCEPT ![p] = @ \cup {m}]
  /\ todo' = [todo EXCEPT ![p] = @ \ {m}]
  /\ UNCHANGED <<history, view>>

(* The month's billable events are read from the components.               *)
InsertBill(p) ==
  /\ Statement(p, "bill", "month")
  /\ UNCHANGED <<billVars, view>>

CommitConsolidation(p) ==
  /\ todo[p] = {}
  /\ Commit(p, "month", "idle")
  /\ keys' = [keys EXCEPT ![p] = {}]
  /\ history' = history \cup keys[p]
  /\ UNCHANGED <<todo, view>>

------------------------------------------------------------------------------
(* Mutant of Fail: ConsolidateAll returns the error without a Rollback, so *)
(* its transaction stays open in its connection.                           *)
FailWithoutRollback(p) ==
  /\ pc[p] # "idle"
  /\ pc' = [pc EXCEPT ![p] = "idle"]
  /\ todo' = [todo EXCEPT ![p] = {}]
  /\ IF pc[p] \in Consolidating
     THEN UNCHANGED <<locks, keys>>
     ELSE Release(p) /\ keys' = [keys EXCEPT ![p] = {}]
  /\ UNCHANGED <<history, view>>

(* A statement fails, the timeout expires, the process stops, or the       *)
(* database breaks a circle of waits: the transaction is rolled back.      *)
Fail(p) ==
  /\ pc[p] # "idle"
  /\ pc' = [pc EXCEPT ![p] = "idle"]
  /\ Release(p)
  /\ keys' = [keys EXCEPT ![p] = {}]
  /\ todo' = [todo EXCEPT ![p] = {}]
  /\ UNCHANGED <<history, view>>

(* The month has been committed by another since it was looked for.        *)
KeyExists(p) ==
  pc[p] = "insert" /\ \E m \in history : IsNextMonth(p, m)

Refresh(p) ==
  \/ BeginRefresh(p)
  \/ RegenerateEvents(p)
  \/ CheckPlans(p)
  \/ RegenerateComponents(p)
  \/ DropView(p)
  \/ CreateView(p)
  \/ FindView(p)
  \/ RefreshView(p)

ConsolidateAll(p) ==
  \/ BeginConsolidation(p)
  \/ \E m \in Months : SkipMonth(p, m) \/ NeedMonth(p, m) \/ InsertKey(p, m)
  \/ InsertBill(p)
  \/ CommitConsolidation(p)

Next == \E p \in Processors : Refresh(p) \/ ConsolidateAll(p) \/ Fail(p)

Spec == Init /\ [][Next]_vars

------------------------------------------------------------------------------
(* Properties.                                                             *)

(* A lock is granted in turn, so a transaction may also wait for one that  *)
(* is before it in the queue, to own the table it wants to share.          *)
Ahead(p) ==
  {q \in Processors \ {p} :
     \E t \in Tables \ shared[p] : <<pc[p], t>> \in Shares /\ <<pc[q], t>> \in Owns}

WaitsFor(p) == Blockers(p) \cup Ahead(p)

(* Two transactions of Refresh can wait for each other: both have shared   *)
(* the view for its indexes and want it alone for its contents, or one     *)
(* refills it from the components that another drops together with it.  An *)
(* error or the timeout ends that, and Refresh is tried again.  A          *)
(* consolidation has no timeout, and all the months it has inserted are    *)
(* lost if the database picks it to break a circle of waits.  It is never  *)
(* part of one: none of those it waits for, however indirectly, waits for  *)
(* it.                                                                     *)
ConsolidationInNoCircle ==
  \A p \in Processors : pc[p] \in Consolidating =>
    \E others \in SUBSET (Processors \ {p}) :
      /\ WaitsFor(p) \subseteq others
      /\ \A q \in others : WaitsFor(q) \subseteq others

(* Liveness: a Refresh is ended by its timeout if by nothing else, and     *)
(* the database serves those that wait for a lock in turn.                 *)
Fairness ==
  \A p \in Processors :
    /\ WF_vars(pc[p] \in Refreshing /\ Fail(p))
    /\ SF_vars(ConsolidateAll(p))
    /\ WF_vars(KeyExists(p) /\ Fail(p))

FairSpec == Spec /\ Fairness

(* A consolidation ends, though it has no timeout of its own, however the  *)
(* transactions it waits for end: nobody keeps a lock for ever.            *)
ConsolidationEnds ==
  \A p \in Processors : pc[p] \in Consolidating ~> pc[p] = "idle"
=============================================================================
