------------------------------- MODULE Ledger -------------------------------
(***************************************************************************)
(* What consolidation promises: the bill of a month is written once, after *)
(* the month is over, months in order, from all the usage up to the end of *)
(* the month; and a bill once written is never changed.                    *)
(***************************************************************************)
EXTENDS Naturals

CONSTANTS
  NumMonths,  \* bound: months 0 .. NumMonths - 1 are considered
  MonthLen    \* length of a month in clock ticks

Months == 0 .. NumMonths - 1
Times == 0 .. NumMonths * MonthLen - 1
MonthEnd(m) == (m + 1) * MonthLen

VARIABLES now,       \* the clock
          happened,  \* times at which a usage event was created in CF
          history,   \* consolidation_history: the consolidated months
          bill       \* consolidated_billable_events, per month

vars == <<now, happened, history, bill>>

(* The usage a month's bill is computed from, and the time up to which     *)
(* running resources have been charged.                                    *)
NoBill == [upTo |-> 0, rows |-> {}]
CompleteBill(m) == [upTo |-> MonthEnd(m),
                    rows |-> {t \in happened : t < MonthEnd(m)}]

Init == /\ now = 0
        /\ happened = {}
        /\ history = {}
        /\ bill = [m \in Months |-> NoBill]

Tick == /\ now' = now + 1
        /\ UNCHANGED <<happened, history, bill>>

Happen == /\ now \in Times
          /\ happened' = happened \cup {now}
          /\ UNCHANGED <<now, history, bill>>

Consolidate(months) ==
  /\ months \cap history = {}
  /\ \A m \in months : MonthEnd(m) =< now
  /\ \A m \in months, k \in Months : k < m => k \in months \cup history
  /\ history' = history \cup months
  /\ bill' = [m \in Months |-> IF m \in months THEN CompleteBill(m) ELSE bill[m]]
  /\ UNCHANGED <<now, happened>>

Next == Tick \/ Happen \/ \E months \in SUBSET Months : Consolidate(months)

Spec == Init /\ [][Next]_vars
==============================================================================
